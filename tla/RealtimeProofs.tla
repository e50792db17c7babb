---------------------------- MODULE RealtimeProofs ----------------------------
(***************************************************************************)
(* Proofs about Realtime, for any kinds of change, slots and bounds.       *)
(***************************************************************************)
EXTENDS Realtime, FiniteSetTheorems, SequenceTheorems, TLAPS

----------------------------------------------------------------------------
(* Types *)

OwnType ==
  [pc : {"none", "written", "announced"}, kind : AllKinds \union {"none"},
   seen : Versions]

FetchType == [pc : {"closed", "idle", "asked", "read"}, seen : Versions]

(* Every change is one of the roster or of the invites, and those are      *)
(* bounded.                                                                *)
Counted ==
  /\ \A i \in Items : stored[i] >= 1
  /\ \A i \in {"own", "messages"} : stored[i] <= stored["roster"]
  /\ Written <= MaxWrites

TypeInv ==
  /\ TypeOK
  /\ own \in OwnType /\ (own.pc # "none" => own.kind \in OwnKinds)
  /\ \A w \in Writers : writer[w] \in Kinds \union {"none"}
  /\ fetch \in [Queries -> FetchType] /\ fetch["home"].pc # "closed"
  /\ Counted

(* Versions and their bound *)
LEMMA Zeros ==
  /\ MaxWrites \in Nat /\ MaxDrops \in Nat /\ MaxFaults \in Nat
  /\ Capacity \in Nat /\ Capacity > 0
  /\ [i \in Items |-> 0] \in Versions /\ [i \in Items |-> 1] \in Versions
  /\ NoFetch \in FetchType /\ Asked \in FetchType /\ NotOpened \in FetchType
  /\ NoRequest \in OwnType
<1>1. /\ MaxWrites \in Nat /\ MaxDrops \in Nat /\ MaxFaults \in Nat
      /\ Capacity \in Nat /\ Capacity > 0
  BY BoundAssumption
<1>2. [i \in Items |-> 0] \in Versions /\ [i \in Items |-> 1] \in Versions
  BY <1>1 DEF Versions
<1> QED
  BY <1>1, <1>2 DEF NoFetch, Asked, NotOpened, NoRequest, FetchType, OwnType

(* The kinds there are, and what a change of a kind touches.               *)
LEMMA TouchesSome ==
  ASSUME NEW kind \in Kinds \union OwnKinds
  PROVE  /\ kind \in AllKinds
         /\ \/ "roster" \in Touches(kind) /\ "invites" \notin Touches(kind)
            \/ Touches(kind) = {"invites"}
  BY KindAssumption DEF AllKinds, Touches

(* A change that the bound allows. *)
LEMMA ChangeTypes ==
  ASSUME TypeInv, NEW kind \in Kinds \union OwnKinds, Change(kind), Written < MaxWrites
  PROVE  /\ stored' \in Versions /\ Counted'
         /\ \A i \in Items : stored[i] <= stored'[i]
<1>n. MaxWrites \in Nat
  BY Zeros
<1>1. \A i \in Items : stored[i] \in Nat /\ stored[i] >= 1
  BY <1>n DEF TypeInv, TypeOK, Versions, Counted
<1>2. \A i \in Items : stored'[i] = IF i \in Touches(kind) THEN stored[i] + 1 ELSE stored[i]
  BY DEF Change
<1>i. {"own", "roster", "messages", "invites"} = Items
  BY DEF Items
<1>3. \A i \in Items : stored'[i] \in Nat /\ stored'[i] >= 1 /\ stored[i] <= stored'[i]
  BY <1>1, <1>2
<1>4. \A i \in {"own", "messages"} : stored'[i] <= stored'["roster"]
  <2> TAKE i \in {"own", "messages"}
  <2>1. stored[i] <= stored["roster"] /\ i \in Items /\ "roster" \in Items
    BY <1>i DEF TypeInv, Counted
  <2>2. i \in Touches(kind) => "roster" \in Touches(kind)
    BY TouchesSome
  <2>3. stored[i] \in Nat /\ stored["roster"] \in Nat
    BY <1>1, <2>1
  <2>4. stored'[i] = IF i \in Touches(kind) THEN stored[i] + 1 ELSE stored[i]
    BY <1>2, <2>1
  <2>5. stored'["roster"] = IF "roster" \in Touches(kind) THEN stored["roster"] + 1 ELSE stored["roster"]
    BY <1>2, <2>1
  <2> QED
    BY <2>1, <2>2, <2>3, <2>4, <2>5
<1>5. Written' = Written + 1
  <2>0. "roster" \in Items /\ "invites" \in Items
    BY <1>i
  <2>1. stored["roster"] \in Nat /\ stored["invites"] \in Nat
    BY <1>1, <2>0
  <2>2. CASE "roster" \in Touches(kind) /\ "invites" \notin Touches(kind)
    <3>1. stored'["roster"] = stored["roster"] + 1 /\ stored'["invites"] = stored["invites"]
      BY <1>2, <2>0, <2>2
    <3> QED
      BY <2>1, <3>1 DEF Written
  <2>3. CASE Touches(kind) = {"invites"}
    <3>1. stored'["roster"] = stored["roster"] /\ stored'["invites"] = stored["invites"] + 1
      BY <1>2, <2>0, <2>3
    <3> QED
      BY <2>1, <3>1 DEF Written
  <2> QED
    BY <2>2, <2>3, TouchesSome
<1>6. Written \in Int
  BY <1>1, <1>i DEF Written
<1>7. Written' <= MaxWrites
  BY <1>n, <1>5, <1>6
<1>8. \A i \in Items : stored'[i] <= MaxWrites + 1
  <2>1. stored'["roster"] \in Nat /\ stored'["roster"] >= 1 /\ stored'["invites"] \in Nat
        /\ stored'["invites"] >= 1
    BY <1>3, <1>i
  <2>2. stored'["roster"] <= MaxWrites + 1 /\ stored'["invites"] <= MaxWrites + 1
    BY <1>n, <1>7, <2>1 DEF Written
  <2>3. \A i \in {"own", "messages"} : stored'[i] <= MaxWrites + 1
    <3> TAKE i \in {"own", "messages"}
    <3>1. stored'[i] \in Nat /\ stored'[i] <= stored'["roster"]
      BY <1>3, <1>4, <1>i
    <3> QED
      BY <1>n, <2>1, <2>2, <3>1
  <2> QED
    BY <1>i, <2>2, <2>3
<1>9. stored' \in Versions
  <2>1. stored' = [i \in Items |-> stored'[i]]
    BY DEF Change
  <2> QED
    BY <1>n, <1>3, <1>8, <2>1 DEF Versions
<1> QED
  BY <1>3, <1>4, <1>7, <1>9 DEF Counted

(* The channel keeps its bound. *)
LEMMA SendTypes ==
  ASSUME TypeInv, NEW kind \in AllKinds, Send(kind)
  PROVE  /\ pipe' \in Seq(AllKinds) /\ Len(pipe') <= Capacity
         /\ link = "down" => pipe' = <<>>
         /\ missed' \in BOOLEAN
<1>1. pipe \in Seq(AllKinds) /\ Len(pipe) <= Capacity /\ Capacity \in Nat /\ Capacity > 0
      /\ missed \in BOOLEAN /\ (link = "down" => pipe = <<>>)
  BY Zeros DEF TypeInv, TypeOK
<1>2. CASE link = "down"
  BY <1>1, <1>2 DEF Send
<1>3. CASE link # "down" /\ Len(pipe) < Capacity
  <2>1. pipe' = Append(pipe, kind)
    BY <1>3 DEF Send
  <2>2. pipe' \in Seq(AllKinds) /\ Len(pipe') = Len(pipe) + 1 /\ Len(pipe) \in Nat
    BY <1>1, <2>1, AppendProperties, LenProperties
  <2> QED
    BY <1>1, <1>3, <2>2 DEF Send
<1>4. CASE link # "down" /\ ~(Len(pipe) < Capacity)
  <2>1. pipe' = Append(Tail(pipe), kind)
    BY <1>4 DEF Send
  <2>2. Len(pipe) \in Nat /\ pipe # <<>>
    BY <1>1, <1>4, LenProperties
  <2>3. Tail(pipe) \in Seq(AllKinds) /\ Len(Tail(pipe)) = Len(pipe) - 1
    BY <1>1, <2>2, HeadTailProperties
  <2>4. pipe' \in Seq(AllKinds) /\ Len(pipe') = Len(Tail(pipe)) + 1
    BY <2>1, <2>3, AppendProperties
  <2>5. Len(pipe') = Len(pipe)
    BY <2>2, <2>3, <2>4
  <2> QED
    BY <1>1, <1>4, <2>4, <2>5 DEF Send
<1> QED
  BY <1>2, <1>3, <1>4

(* Fetches are dropped and started. *)
LEMMA InvalidateTypes ==
  ASSUME TypeInv, NEW qs \in SUBSET Queries, Invalidate(qs)
  PROVE  /\ fetch' \in [Queries -> FetchType] /\ fetch'["home"].pc # "closed"
         /\ \A q \in Queries : fetch'[q] = IF q \in Restarts(qs) THEN Asked ELSE fetch[q]
         /\ swallowed' \subseteq Queries
<1>1. \A q \in Queries : fetch'[q] = IF q \in Restarts(qs) THEN Asked ELSE fetch[q]
  BY DEF Invalidate
<1>2. fetch' \in [Queries -> FetchType]
  BY Zeros DEF TypeInv, Invalidate
<1>3. fetch'["home"].pc # "closed"
  BY <1>1 DEF TypeInv, Asked, Queries
<1>4. swallowed' \subseteq Queries
  BY DEF TypeInv, TypeOK, Invalidate
<1> QED
  BY <1>1, <1>2, <1>3, <1>4

(* The queries of events and answers *)
LEMMA StaleTypes ==
  /\ \A kind \in AllKinds : StaleAfter(kind) \in SUBSET Queries
  /\ \A kind \in OwnKinds : StaleAfterOwn(kind) \in SUBSET Queries
<1>1. \A kind \in AllKinds : StaleAfter(kind) \in SUBSET Queries
  BY DEF AllKinds, StaleAfter, Queries
<1>2. ASSUME NEW kind \in OwnKinds PROVE StaleAfterOwn(kind) \in SUBSET Queries
  BY KindAssumption DEF StaleAfterOwn, Queries
<1> QED
  BY <1>1, <1>2

(* What the server has of some items is no newer than what it has. *)
LEMMA SeenTypes ==
  ASSUME NEW is, stored \in Versions
  PROVE  Seen(is) \in Versions /\ \A i \in Items : Seen(is)[i] <= stored[i]
                               /\ (i \in is => Seen(is)[i] = stored[i])
  BY Zeros DEF Seen, Versions

(* The same after a step. *)
LEMMA SeenTypesNext ==
  ASSUME NEW is, stored' \in Versions
  PROVE  Seen(is)' \in Versions /\ \A i \in Items : Seen(is)'[i] <= stored'[i]
                                /\ (i \in is => Seen(is)'[i] = stored'[i])
  BY Zeros DEF Seen, Versions

(* Nothing is on show or under way that the server never had. *)
Behind ==
  \A i \in Items :
    /\ cache[i] <= stored[i] /\ own.seen[i] <= stored[i]
    /\ \A q \in Queries : fetch[q].seen[i] <= stored[i]

(* The parts of the invariant after a step: the server, the socket, what   *)
(* is on show or under way.                                                *)
LEMMA Assembled ==
  ASSUME stored' \in Versions, Counted',
         writer' \in [Writers -> AllKinds \union {"none"}],
         \A w \in Writers : writer'[w] \in Kinds \union {"none"},
         link' \in {"down", "subscribed", "up"}, drops' \in 0 .. MaxDrops,
         pipe' \in Seq(AllKinds), Len(pipe') <= Capacity, link' = "down" => pipe' = <<>>,
         missed' \in BOOLEAN, swallowed' \subseteq Queries, fetch'["home"].pc # "closed",
         own' \in OwnType, own'.pc # "none" => own'.kind \in OwnKinds,
         cache' \in Versions, fetch' \in [Queries -> FetchType], faults' \in 0 .. MaxFaults,
         Behind'
  PROVE  TypeInv'
  BY DEF TypeInv, TypeOK, Behind, OwnType, FetchType

(* Every step keeps the types, action by action. *)
LEMMA NextTypes == TypeInv /\ [Next]_vars => TypeInv'
<1> SUFFICES ASSUME TypeInv, [Next]_vars PROVE TypeInv'
  OBVIOUS
<1>z. /\ MaxWrites \in Nat /\ MaxDrops \in Nat /\ MaxFaults \in Nat /\ Capacity \in Nat
      /\ NoFetch \in FetchType /\ Asked \in FetchType /\ NoRequest \in OwnType
      /\ \A i \in Items : NoFetch.seen[i] = 0 /\ Asked.seen[i] = 0 /\ NoRequest.seen[i] = 0
      /\ NoRequest.pc = "none" /\ NoFetch.pc = "idle" /\ Asked.pc = "asked"
  BY Zeros DEF NoFetch, Asked, NoRequest
<1>s. /\ stored \in Versions /\ Counted
      /\ writer \in [Writers -> AllKinds \union {"none"}]
      /\ \A w \in Writers : writer[w] \in Kinds \union {"none"}
  BY DEF TypeInv, TypeOK
<1>l. /\ link \in {"down", "subscribed", "up"} /\ drops \in 0 .. MaxDrops
      /\ pipe \in Seq(AllKinds) /\ Len(pipe) <= Capacity /\ (link = "down" => pipe = <<>>)
      /\ missed \in BOOLEAN
  BY DEF TypeInv, TypeOK
<1>o. own \in OwnType /\ (own.pc # "none" => own.kind \in OwnKinds)
  BY DEF TypeInv
<1>c. /\ cache \in Versions /\ fetch \in [Queries -> FetchType] /\ faults \in 0 .. MaxFaults
      /\ fetch["home"].pc # "closed" /\ swallowed \subseteq Queries
  BY DEF TypeInv, TypeOK
<1>n. /\ \A i \in Items : stored[i] \in Nat /\ cache[i] \in Nat /\ own.seen[i] \in Nat
      /\ \A i \in Items, q \in Queries : fetch[q].seen[i] \in Nat
  BY <1>z, <1>s, <1>o, <1>c DEF Versions, OwnType, FetchType
<1>b. Behind
  BY DEF TypeInv, TypeOK, Behind
<1>w. UNCHANGED serverVars => stored' \in Versions /\ Counted'
        /\ writer' \in [Writers -> AllKinds \union {"none"}]
        /\ \A w \in Writers : writer'[w] \in Kinds \union {"none"}
  BY <1>s DEF serverVars, Counted, Written
<1>k. OwnKinds \subseteq AllKinds /\ Kinds \subseteq AllKinds
  BY TouchesSome
<1>p. "none" \notin AllKinds
  BY DEF AllKinds
<1>1. ASSUME NEW w \in Writers, NEW kind \in Kinds, Write(w, kind) PROVE TypeInv'
  <2>1. stored' \in Versions /\ Counted' /\ \A i \in Items : stored[i] <= stored'[i]
    BY <1>1, ChangeTypes DEF Write
  <2>2. /\ writer' \in [Writers -> AllKinds \union {"none"}]
        /\ \A v \in Writers : writer'[v] \in Kinds \union {"none"}
    BY <1>1, <1>s, <1>k DEF Write
  <2>3. UNCHANGED <<own, linkVars, viewVars>>
    BY <1>1 DEF Write
  <2>4. \A i \in Items : stored'[i] \in Nat
    BY <1>z, <2>1 DEF Versions
  <2>5. Behind'
    BY <1>b, <1>n, <2>1, <2>3, <2>4 DEF Behind, viewVars
  <2> QED
    BY <1>l, <1>o, <1>c, <2>1, <2>2, <2>3, <2>5, Assembled DEF linkVars, viewVars
<1>2. ASSUME NEW w \in Writers, Announce(w) PROVE TypeInv'
  <2>1. writer[w] \in AllKinds /\ Send(writer[w])
    BY <1>2, <1>s DEF Announce
  <2>2. /\ pipe' \in Seq(AllKinds) /\ Len(pipe') <= Capacity /\ (link = "down" => pipe' = <<>>)
        /\ missed' \in BOOLEAN
    BY <2>1, SendTypes
  <2>3. /\ writer' \in [Writers -> AllKinds \union {"none"}]
        /\ \A v \in Writers : writer'[v] \in Kinds \union {"none"}
    BY <1>2, <1>s DEF Announce
  <2>4. UNCHANGED <<stored, own, link, drops, viewVars>>
    BY <1>2 DEF Announce
  <2>5. Counted' /\ Behind'
    BY <1>s, <1>b, <2>4 DEF Counted, Written, Behind, viewVars
  <2> QED
    BY <1>s, <1>l, <1>o, <1>c, <2>2, <2>3, <2>4, <2>5, Assembled DEF viewVars
<1>3. ASSUME NEW kind \in OwnKinds, OwnWrite(kind) PROVE TypeInv'
  <2>1. stored' \in Versions /\ Counted' /\ \A i \in Items : stored[i] <= stored'[i]
    BY <1>3, ChangeTypes DEF OwnWrite
  <2>2. own' = [pc |-> "written", kind |-> kind, seen |-> Seen(Patched(kind))']
    BY <1>3 DEF OwnWrite
  <2>3. own' \in OwnType /\ own'.kind \in OwnKinds /\ \A i \in Items : own'.seen[i] <= stored'[i]
    BY <1>z, <1>k, <2>1, <2>2, SeenTypesNext DEF OwnType
  <2>4. UNCHANGED <<writer, linkVars, viewVars>>
    BY <1>3 DEF OwnWrite
  <2>5. \A i \in Items : stored'[i] \in Nat
    BY <1>z, <2>1 DEF Versions
  <2>6. Behind'
    BY <1>b, <1>n, <2>1, <2>3, <2>4, <2>5 DEF Behind, viewVars
  <2> QED
    BY <1>s, <1>l, <1>c, <2>1, <2>3, <2>4, <2>6, Assembled DEF linkVars, viewVars
<1>4. CASE OwnAnnounce
  <2>1. own.kind \in AllKinds /\ Send(own.kind) /\ own.pc # "none"
    BY <1>4, <1>o, <1>k DEF OwnAnnounce
  <2>2. /\ pipe' \in Seq(AllKinds) /\ Len(pipe') <= Capacity /\ (link = "down" => pipe' = <<>>)
        /\ missed' \in BOOLEAN
    BY <2>1, SendTypes
  <2>3. own' \in OwnType /\ own'.kind \in OwnKinds /\ own'.seen = own.seen
    BY <1>4, <1>o, <2>1 DEF OwnAnnounce, OwnType
  <2>4. UNCHANGED <<serverVars, link, drops, viewVars>>
    BY <1>4 DEF OwnAnnounce
  <2>5. Behind'
    BY <1>b, <2>3, <2>4 DEF Behind, viewVars, serverVars
  <2> QED
    BY <1>w, <1>l, <1>c, <2>2, <2>3, <2>4, <2>5, Assembled DEF viewVars
<1>5. ASSUME NEW q \in Queries, Opens(q) PROVE TypeInv'
  <2>1. UNCHANGED <<serverVars, own, linkVars, cache, swallowed, faults>>
        /\ fetch' = [fetch EXCEPT ![q] = Asked]
    BY <1>5 DEF Opens
  <2>2. fetch' \in [Queries -> FetchType] /\ fetch'["home"].pc # "closed"
    BY <1>c, <1>z, <2>1 DEF Queries
  <2>3. Behind'
    BY <1>z, <1>b, <1>c, <1>n, <2>1 DEF Behind, serverVars
  <2> QED
    BY <1>w, <1>l, <1>o, <1>c, <2>1, <2>2, <2>3, Assembled DEF linkVars
<1>6. CASE Subscribe
  <2>1. UNCHANGED <<serverVars, own, missed, drops, viewVars>>
    BY <1>6 DEF Subscribe
  <2>2. link' = "subscribed" /\ pipe' = <<>> /\ pipe' \in Seq(AllKinds) /\ Len(pipe') = 0
    BY <1>6 DEF Subscribe
  <2>3. Behind'
    BY <1>b, <2>1 DEF Behind, viewVars, serverVars
  <2>4. Len(pipe') <= Capacity
    BY <1>z, <2>2
  <2> QED
    BY <1>w, <1>l, <1>o, <1>c, <2>1, <2>2, <2>3, <2>4, Assembled DEF viewVars
<1>7. CASE TellOn
  <2>1. "party" \in AllKinds
    BY DEF AllKinds
  <2>2. /\ pipe' \in Seq(AllKinds) /\ Len(pipe') <= Capacity /\ missed' \in BOOLEAN
    BY <1>7, <2>1, SendTypes DEF TellOn
  <2>3. UNCHANGED <<serverVars, own, drops, viewVars>> /\ link' = "up"
    BY <1>7 DEF TellOn
  <2>4. Behind'
    BY <1>b, <2>3 DEF Behind, viewVars, serverVars
  <2> QED
    BY <1>w, <1>l, <1>o, <1>c, <2>2, <2>3, <2>4, Assembled DEF viewVars
<1>8. CASE Deliver
  <2>1. /\ UNCHANGED <<serverVars, own, link, missed, drops, cache, faults>>
        /\ pipe # <<>> /\ link = "up" /\ pipe' = Tail(pipe) /\ Invalidate(StaleAfter(Head(pipe)))
    BY <1>8 DEF Deliver
  <2>2. pipe' \in Seq(AllKinds) /\ Len(pipe') = Len(pipe) - 1 /\ Len(pipe) \in Nat
    BY <1>l, <2>1, HeadTailProperties, LenProperties
  <2>3. Len(pipe') <= Capacity
    BY <1>z, <1>l, <2>2
  <2>h. Head(pipe) \in AllKinds
    BY <1>l, <2>1, HeadTailProperties
  <2>4. /\ fetch' \in [Queries -> FetchType] /\ \A q \in Queries : fetch'[q] \in {Asked, fetch[q]}
        /\ fetch'["home"].pc # "closed" /\ swallowed' \subseteq Queries
    BY <2>1, <2>h, InvalidateTypes, StaleTypes
  <2>5. Behind'
    BY <1>z, <1>b, <1>n, <2>1, <2>4 DEF Behind, serverVars
  <2> QED
    BY <1>w, <1>l, <1>o, <1>c, <2>1, <2>2, <2>3, <2>4, <2>5, Assembled
<1>9. CASE Drop
  <2>1. UNCHANGED <<serverVars, own, viewVars>> /\ link' = "down"
    BY <1>9 DEF Drop
  <2>2. pipe' = <<>> /\ pipe' \in Seq(AllKinds) /\ Len(pipe') = 0
    BY <1>9 DEF Drop
  <2>3. drops' \in 0 .. MaxDrops
    BY <1>9, <1>z, <1>l DEF Drop
  <2>4. missed' \in BOOLEAN /\ Len(pipe') <= Capacity
    BY <1>9, <1>z, <1>l, <2>2 DEF Drop
  <2>5. Behind'
    BY <1>b, <2>1 DEF Behind, viewVars, serverVars
  <2> QED
    BY <1>w, <1>o, <1>c, <2>1, <2>2, <2>3, <2>4, <2>5, Assembled DEF viewVars
<1>10. ASSUME NEW q \in Queries, FetchRead(q) PROVE TypeInv'
  <2>1. UNCHANGED <<serverVars, own, linkVars, cache, swallowed, faults>>
    BY <1>10 DEF FetchRead
  <2>2. fetch' = [fetch EXCEPT ![q] = [pc |-> "read", seen |-> Seen(ItemsOf(q))]]
    BY <1>10 DEF FetchRead
  <2>3. /\ [pc |-> "read", seen |-> Seen(ItemsOf(q))] \in FetchType
        /\ \A i \in Items : Seen(ItemsOf(q))[i] <= stored[i]
    BY <1>s, SeenTypes DEF FetchType
  <2>4. fetch' \in [Queries -> FetchType] /\ fetch'["home"].pc # "closed"
    BY <1>c, <2>2, <2>3 DEF Queries
  <2>5. Behind'
    BY <1>b, <1>c, <1>n, <2>1, <2>2, <2>3 DEF Behind, serverVars
  <2> QED
    BY <1>w, <1>l, <1>o, <1>c, <2>1, <2>4, <2>5, Assembled DEF linkVars
<1>11. ASSUME NEW q \in Queries, FetchLands(q) PROVE TypeInv'
  <2>1. UNCHANGED <<serverVars, own, linkVars, swallowed, faults>>
    BY <1>11 DEF FetchLands
  <2>2. /\ cache' = [i \in Items |-> IF i \in ItemsOf(q) THEN fetch[q].seen[i] ELSE cache[i]]
        /\ fetch' = [fetch EXCEPT ![q] = NoFetch]
    BY <1>11 DEF FetchLands
  <2>3. fetch[q].seen \in Versions
    BY <1>c DEF FetchType
  <2>4. cache' \in Versions
    BY <1>c, <2>2, <2>3 DEF Versions
  <2>5. fetch' \in [Queries -> FetchType] /\ fetch'["home"].pc # "closed"
    BY <1>c, <1>z, <2>2 DEF Queries
  <2>6. Behind'
    BY <1>z, <1>b, <1>c, <1>n, <2>1, <2>2 DEF Behind, serverVars
  <2> QED
    BY <1>w, <1>l, <1>o, <1>c, <2>1, <2>4, <2>5, <2>6, Assembled DEF linkVars
<1>12. ASSUME NEW q \in Queries, FetchFails(q) PROVE TypeInv'
  <2>1. UNCHANGED <<serverVars, own, linkVars, cache, swallowed>> /\ fetch' = [fetch EXCEPT ![q] = NoFetch]
    BY <1>12 DEF FetchFails
  <2>2. faults' \in 0 .. MaxFaults
    BY <1>12, <1>z, <1>c DEF FetchFails
  <2>3. fetch' \in [Queries -> FetchType] /\ fetch'["home"].pc # "closed"
    BY <1>c, <1>z, <2>1 DEF Queries
  <2>4. Behind'
    BY <1>z, <1>b, <1>c, <1>n, <2>1 DEF Behind, serverVars
  <2> QED
    BY <1>w, <1>l, <1>o, <1>c, <2>1, <2>2, <2>3, <2>4, Assembled DEF linkVars
<1>13. CASE OwnAnswered
  <2>1. UNCHANGED <<serverVars, linkVars, faults>> /\ own' = NoRequest
    BY <1>13 DEF OwnAnswered
  <2>2. cache' = [i \in Items |-> IF i \in Patched(own.kind) THEN own.seen[i] ELSE cache[i]]
    BY <1>13 DEF OwnAnswered
  <2>3. own.seen \in Versions
    BY <1>o DEF OwnType
  <2>4. cache' \in Versions
    BY <1>c, <2>2, <2>3 DEF Versions
  <2>5. /\ fetch' \in [Queries -> FetchType] /\ \A q \in Queries : fetch'[q] \in {Asked, fetch[q]}
        /\ fetch'["home"].pc # "closed" /\ swallowed' \subseteq Queries
    BY <1>13, <1>o, InvalidateTypes, StaleTypes DEF OwnAnswered
  <2>6. Behind'
    BY <1>z, <1>b, <1>n, <2>1, <2>2, <2>5 DEF Behind, serverVars
  <2> QED
    BY <1>z, <1>w, <1>l, <1>c, <2>1, <2>4, <2>5, <2>6, Assembled DEF linkVars
<1>14. CASE UNCHANGED vars
  <2>1. Behind'
    BY <1>14, <1>b DEF vars, Behind
  <2> QED
    BY <1>14, <1>w, <1>l, <1>o, <1>c, <2>1, Assembled DEF vars, serverVars
<1> QED
  BY <1>1, <1>2, <1>3, <1>4, <1>5, <1>6, <1>7, <1>8, <1>9, <1>10, <1>11, <1>12, <1>13, <1>14
     DEF Next, Progress

(* Nothing was changed at first. *)
LEMMA InitTypes == Init => TypeInv
<1> SUFFICES ASSUME Init PROVE TypeInv
  OBVIOUS
<1>1. \A i \in Items : stored[i] = 1
  BY DEF Init
<1>2. "roster" \in Items /\ "invites" \in Items /\ {"own", "messages"} \subseteq Items
  BY DEF Items
<1>3. Written = 0
  BY <1>1, <1>2 DEF Written
<1>4. Counted
  BY <1>1, <1>2, <1>3, Zeros DEF Counted
<1>5. PICK shown \in Shown :
        /\ cache = [i \in Items |-> IF \E q \in shown : i \in ItemsOf(q) THEN 1 ELSE 0]
        /\ fetch = [q \in Queries |-> IF q \in shown THEN NoFetch
                                      ELSE IF q = "home" THEN Asked ELSE NotOpened]
  BY DEF Init
<1>6. cache \in Versions /\ \A i \in Items : cache[i] \in {0, 1}
  BY <1>5, Zeros DEF Versions
<1>7. /\ fetch \in [Queries -> FetchType] /\ \A q \in Queries, i \in Items : fetch[q].seen[i] = 0
      /\ fetch["home"].pc # "closed"
  BY <1>5, Zeros DEF Asked, NoFetch, NotOpened, Queries
<1>8. own = NoRequest /\ own.pc = "none" /\ \A i \in Items : own.seen[i] = 0
  BY DEF Init, NoRequest
<1>9. \A i \in Items :
        /\ cache[i] <= stored[i] /\ own.seen[i] <= stored[i]
        /\ \A q \in Queries : fetch[q].seen[i] <= stored[i]
  BY <1>1, <1>6, <1>7, <1>8
<1>10. pipe \in Seq(AllKinds) /\ Len(pipe) = 0 /\ pipe = <<>>
  BY DEF Init
<1>11. drops \in 0 .. MaxDrops /\ faults \in 0 .. MaxFaults /\ Len(pipe) <= Capacity
       /\ stored \in Versions /\ own \in OwnType
  BY <1>8, <1>10, Zeros DEF Init
<1>12. own.pc \in {"none", "written", "announced"} /\ own.kind \in AllKinds \union {"none"}
       /\ own.seen \in Versions
  BY <1>11 DEF OwnType
<1>13. \A q \in Queries : fetch[q].pc \in {"closed", "idle", "asked", "read"} /\ fetch[q].seen \in Versions
  BY <1>7 DEF FetchType
<1>14. TypeOK
  BY <1>6, <1>9, <1>10, <1>11, <1>12, <1>13 DEF Init, TypeOK
<1> QED
  BY <1>4, <1>7, <1>8, <1>11, <1>14 DEF Init, TypeInv

(* In every behaviour every variable has its type, and the tab never shows, *)
(* or is about to show, what the server does not have.                     *)
THEOREM TypeCorrect == Spec => []TypeOK
<1>1. TypeInv => TypeOK
  BY DEF TypeInv
<1>2. TypeInv /\ [Next]_vars => TypeInv'
  BY NextTypes
<1> QED
  BY InitTypes, <1>1, <1>2, PTL DEF Spec

----------------------------------------------------------------------------
(* Views move forward *)

(* A fetch that was read has nothing older than what is on show: the       *)
(* answer to the tab's own move drops the fetches that were read before    *)
(* it, which it can as the home view was there to make the move from.      *)
Forward ==
  /\ \A q \in Queries : fetch[q].pc = "read" =>
       \A i \in ItemsOf(q) : cache[i] <= fetch[q].seen[i]
  /\ own.pc # "none" /\ own.kind \in {"join", "leave"} => Loaded("home")

(* Each item is of one query; a request patches at most the home view, and *)
(* has it fetched again when it does.                                      *)
LEMMA OneQueryEach ==
  /\ \A q, r \in Queries : q # r => ItemsOf(q) \cap ItemsOf(r) = {}
  /\ \A q \in Queries : ItemsOf(q) \subseteq Items
  /\ \A kind \in OwnKinds :
       /\ Patched(kind) \subseteq {"own"}
       /\ Patched(kind) # {} => kind \in {"join", "leave"} /\ "home" \in StaleAfterOwn(kind)
  /\ \A q \in Queries : q = "home" <=> ItemsOf(q) \cap {"own", "roster"} # {}
<1>1. /\ \A q, r \in Queries : q # r => ItemsOf(q) \cap ItemsOf(r) = {}
      /\ \A q \in Queries : ItemsOf(q) \subseteq Items
      /\ \A q \in Queries : q = "home" <=> ItemsOf(q) \cap {"own", "roster"} # {}
  BY DEF Queries, ItemsOf, Items
<1>2. ASSUME NEW kind \in OwnKinds
      PROVE  /\ Patched(kind) \subseteq {"own"}
             /\ Patched(kind) # {} => kind \in {"join", "leave"} /\ "home" \in StaleAfterOwn(kind)
  BY KindAssumption DEF Patched, StaleAfterOwn
<1> QED
  BY <1>1, <1>2

(* The steps of the views that are not the answer to a move: no item goes  *)
(* back.                                                                   *)
Advances == \A i \in Items : cache'[i] >= cache[i] \/ (i = "own" /\ MovedSince)

(* Every step keeps this, and takes no item back but for a move that is    *)
(* over.                                                                   *)
LEMMA NextForward == TypeInv /\ Forward /\ [Next]_vars => Forward' /\ Advances
<1> SUFFICES ASSUME TypeInv, Forward, [Next]_vars PROVE Forward' /\ Advances
  OBVIOUS
<1>o. own \in OwnType /\ (own.pc # "none" => own.kind \in OwnKinds) /\ "own" \in Items
  BY DEF TypeInv, Items
<1>n. /\ \A i \in Items : stored[i] \in Nat /\ cache[i] \in Nat /\ cache[i] <= stored[i]
      /\ \A i \in Items : own.seen[i] \in Nat /\ own.seen[i] <= stored[i]
      /\ cache \in [Items -> 0 .. MaxWrites + 1] /\ fetch \in [Queries -> FetchType]
      /\ stored \in Versions
  BY Zeros DEF TypeInv, TypeOK, Versions
<1>z. NoFetch.pc # "read" /\ Asked.pc # "read" /\ NoRequest.pc = "none"
  BY DEF NoFetch, Asked, NoRequest
<1>c. ASSUME cache' = cache PROVE Advances
  BY <1>c, <1>n DEF Advances
<1>l. ASSUME cache' = cache PROVE Loaded("home")' <=> Loaded("home")
  BY <1>l DEF Loaded
(* fetches that are only dropped or started *)
<1>f. ASSUME cache' = cache, \A q \in Queries : fetch'[q] \in {NoFetch, Asked, fetch[q]},
             own'.pc # "none" /\ own'.kind \in {"join", "leave"} => Loaded("home")
      PROVE  Forward' /\ Advances
  BY <1>c, <1>f, <1>l, <1>z DEF Forward
<1>1. ASSUME NEW w \in Writers, NEW kind \in Kinds, Write(w, kind) PROVE Forward' /\ Advances
  BY <1>1, <1>f DEF Write, viewVars, Forward
<1>2. ASSUME NEW w \in Writers, Announce(w) PROVE Forward' /\ Advances
  BY <1>2, <1>f DEF Announce, viewVars, Forward
<1>3. ASSUME NEW kind \in OwnKinds, OwnWrite(kind) PROVE Forward' /\ Advances
  BY <1>3, <1>f DEF OwnWrite, Offered, viewVars
<1>4. CASE OwnAnnounce
  <2>1. own.pc # "none" /\ own'.kind = own.kind
    BY <1>4, <1>o DEF OwnAnnounce, OwnType
  <2> QED
    BY <1>4, <1>f, <2>1 DEF OwnAnnounce, viewVars, Forward
<1>5. ASSUME NEW q \in Queries, Opens(q) PROVE Forward' /\ Advances
  <2>1. \A r \in Queries : fetch'[r] \in {Asked, fetch[r]}
    BY <1>5, <1>n DEF Opens
  <2> QED
    BY <1>5, <1>f, <2>1 DEF Opens, Forward
<1>6. CASE Subscribe \/ TellOn \/ Drop
  BY <1>6, <1>f DEF Subscribe, TellOn, Drop, viewVars, serverVars, Forward
<1>7. CASE Deliver
  <2>1. \A q \in Queries : fetch'[q] \in {Asked, fetch[q]}
    BY <1>7, <1>n DEF Deliver, Invalidate
  <2> QED
    BY <1>7, <1>f, <2>1 DEF Deliver, serverVars, Forward
<1>8. ASSUME NEW q \in Queries, FetchFails(q) PROVE Forward' /\ Advances
  <2>1. \A r \in Queries : fetch'[r] \in {NoFetch, fetch[r]}
    BY <1>8, <1>n DEF FetchFails
  <2> QED
    BY <1>8, <1>f, <2>1 DEF FetchFails, serverVars, Forward
<1>9. ASSUME NEW q \in Queries, FetchRead(q) PROVE Forward' /\ Advances
  <2>1. UNCHANGED <<serverVars, own, cache>>
    BY <1>9 DEF FetchRead
  <2>2. \A r \in Queries :
          fetch'[r] = IF r = q THEN [pc |-> "read", seen |-> Seen(ItemsOf(q))] ELSE fetch[r]
    BY <1>9, <1>n DEF FetchRead
  <2>3. ASSUME NEW r \in Queries, fetch'[r].pc = "read", NEW i \in ItemsOf(r)
        PROVE  cache'[i] <= fetch'[r].seen[i]
    <3>1. i \in Items
      BY OneQueryEach
    <3>2. CASE r = q
      <4>1. Seen(ItemsOf(q))[i] = stored[i]
        BY <1>n, <2>3, <3>1, <3>2, SeenTypes
      <4> QED
        BY <1>n, <2>1, <2>2, <3>1, <3>2, <4>1
    <3>3. CASE r # q
      BY <2>1, <2>2, <2>3, <3>3 DEF Forward
    <3> QED
      BY <3>2, <3>3
  <2> QED
    BY <1>c, <1>l, <2>1, <2>3 DEF Forward, serverVars
<1>10. ASSUME NEW q \in Queries, FetchLands(q) PROVE Forward' /\ Advances
  <2>1. UNCHANGED <<serverVars, own>> /\ fetch[q].pc = "read"
    BY <1>10 DEF FetchLands
  <2>2. \A i \in Items : cache'[i] = IF i \in ItemsOf(q) THEN fetch[q].seen[i] ELSE cache[i]
    BY <1>10 DEF FetchLands
  <2>3. \A r \in Queries : fetch'[r] = IF r = q THEN NoFetch ELSE fetch[r]
    BY <1>10, <1>n DEF FetchLands
  <2>4. \A i \in Items : cache'[i] >= cache[i]
    BY <1>n, <2>1, <2>2 DEF Forward
  <2>5. \A r \in Queries : fetch'[r].pc = "read" =>
          \A i \in ItemsOf(r) : cache'[i] <= fetch'[r].seen[i]
    <3> SUFFICES ASSUME NEW r \in Queries, fetch'[r].pc = "read", NEW i \in ItemsOf(r)
                 PROVE  cache'[i] <= fetch'[r].seen[i]
      OBVIOUS
    <3>1. r # q /\ fetch'[r] = fetch[r]
      BY <1>z, <2>3
    <3>2. i \in Items /\ i \notin ItemsOf(q)
      BY <3>1, OneQueryEach
    <3> QED
      BY <2>2, <3>1, <3>2 DEF Forward
  <2>6. Loaded("home") => Loaded("home")'
    <3>1. \A i \in Items : cache'[i] \in Nat
      BY <1>n, <2>2, Zeros DEF FetchType, Versions
    <3> QED
      BY <1>n, <2>4, <3>1, OneQueryEach DEF Loaded, Queries
  <2> QED
    BY <2>1, <2>4, <2>5, <2>6 DEF Forward, serverVars, Advances
<1>11. CASE OwnAnswered
  <2>1. own.pc = "announced" /\ own.kind \in OwnKinds /\ own' = NoRequest
    BY <1>11, <1>o DEF OwnAnswered
  <2>2. \A i \in Items : cache'[i] = IF i \in Patched(own.kind) THEN own.seen[i] ELSE cache[i]
    BY <1>11 DEF OwnAnswered
  <2>3. \A q \in Queries :
          fetch'[q] = IF q \in Restarts(StaleAfterOwn(own.kind)) THEN Asked ELSE fetch[q]
    BY <1>11 DEF OwnAnswered, Invalidate
  <2>4. \A i \in Items \ {"own"} : cache'[i] = cache[i]
    BY <2>1, <2>2, OneQueryEach
  <2>5. cache'["own"] >= cache["own"] \/ MovedSince
    <3>1. CASE "own" \notin Patched(own.kind)
      BY <1>n, <1>o, <2>2, <3>1
    <3>2. CASE "own" \in Patched(own.kind)
      <4>1. own.kind \in {"join", "leave"} /\ cache'["own"] = own.seen["own"]
        BY <1>o, <2>1, <2>2, <3>2, OneQueryEach
      <4>2. CASE own.seen["own"] < stored["own"]
        BY <2>1, <4>1, <4>2 DEF MovedSince
      <4>3. CASE ~(own.seen["own"] < stored["own"])
        BY <1>n, <1>o, <4>1, <4>3
      <4> QED
        BY <4>2, <4>3
    <3> QED
      BY <3>1, <3>2
  <2>6. Advances
    BY <1>n, <2>4, <2>5 DEF Advances
  <2>7. \A q \in Queries : fetch'[q].pc = "read" =>
          \A i \in ItemsOf(q) : cache'[i] <= fetch'[q].seen[i]
    <3> SUFFICES ASSUME NEW q \in Queries, fetch'[q].pc = "read", NEW i \in ItemsOf(q)
                 PROVE  cache'[i] <= fetch'[q].seen[i]
      OBVIOUS
    <3>1. q \notin Restarts(StaleAfterOwn(own.kind)) /\ fetch'[q] = fetch[q] /\ i \in Items
      BY <1>z, <2>3, OneQueryEach
    <3>2. i \notin Patched(own.kind)
      <4> SUFFICES ASSUME i \in Patched(own.kind) PROVE FALSE
        OBVIOUS
      <4>1. i = "own" /\ own.kind \in {"join", "leave"} /\ "home" \in StaleAfterOwn(own.kind)
        BY <2>1, OneQueryEach
      <4>2. q = "home"
        BY <4>1, OneQueryEach
      <4>3. Loaded("home") /\ fetch["home"].pc # "closed"
        BY <2>1, <4>1 DEF Forward, TypeInv
      <4> QED
        BY <3>1, <4>1, <4>2, <4>3 DEF Restarts, FirstLoad
    <3> QED
      BY <2>2, <3>1, <3>2 DEF Forward
  <2> QED
    BY <1>z, <2>1, <2>6, <2>7 DEF Forward
<1>12. CASE UNCHANGED vars
  BY <1>12, <1>f DEF vars, Forward
<1> QED
  BY <1>1, <1>2, <1>3, <1>4, <1>5, <1>6, <1>7, <1>8, <1>9, <1>10, <1>11, <1>12
     DEF Next, Progress

(* Nothing was read at first. *)
LEMMA InitForward == Init => Forward
<1> SUFFICES ASSUME Init PROVE Forward
  OBVIOUS
<1>1. \A q \in Queries : fetch[q].pc # "read"
  BY DEF Init, Asked, NoFetch, NotOpened
<1>2. own.pc = "none"
  BY DEF Init, NoRequest
<1> QED
  BY <1>1, <1>2 DEF Forward

OwnAdvances == cache'["own"] >= cache["own"] \/ MovedSince

(* Once the home view shows that the user joined or left, it never again   *)
(* shows the party of before, unless she was moved elsewhere before the    *)
(* answer.                                                                 *)
THEOREM OwnMovesHold == Spec => OwnMovesStick
<1>1. TypeInv /\ Forward /\ [Next]_vars => (TypeInv /\ Forward)'
  BY NextTypes, NextForward
<1>2. TypeInv /\ Forward /\ [Next]_vars => [OwnAdvances]_vars
  BY NextForward DEF OwnAdvances, Advances, Items
<1>3. Spec => [][OwnAdvances]_vars
  BY InitTypes, InitForward, <1>1, <1>2, PTL DEF Spec
<1> QED
  BY <1>3 DEF OwnMovesStick, OwnAdvances

OthersAdvance == \A i \in {"messages", "invites"} : cache'[i] >= cache[i]

(* The views that are not patched, the chat and the invites, only move     *)
(* forward.                                                                *)
THEOREM ViewsHold == Spec => ViewsAdvance
<1>1. TypeInv /\ Forward /\ [Next]_vars => (TypeInv /\ Forward)'
  BY NextTypes, NextForward
<1>2. TypeInv /\ Forward /\ [Next]_vars => [OthersAdvance]_vars
  BY NextForward DEF OthersAdvance, Advances, Items
<1>3. Spec => [][OthersAdvance]_vars
  BY InitTypes, InitForward, <1>1, <1>2, PTL DEF Spec
<1> QED
  BY <1>3 DEF ViewsAdvance, OthersAdvance

----------------------------------------------------------------------------
(* What is stale will be fetched again *)

(* An event the tab holds has query q fetched again. *)
Piped(q) == \E n \in 1..Len(pipe) : q \in StaleAfter(pipe[n])

(* So will an event to come, or the answer to the tab's own request; or    *)
(* the server has yet to read the fetch.                                   *)
Due(q) ==
  \/ \E w \in Writers : writer[w] # "none" /\ q \in StaleAfter(writer[w])
  \/ own.pc = "written" /\ q \in StaleAfter(own.kind)
  \/ own.pc # "none" /\ q \in StaleAfterOwn(own.kind)
  \/ Piped(q)
  \/ fetch[q].pc = "asked"

(* Item i of query q is level with the server, or the fetch in flight is. *)
Current(q, i) ==
  \/ cache[i] = stored[i]
  \/ fetch[q].pc = "read" /\ fetch[q].seen[i] = stored[i]

(* A page has shown query q, and no event came after its first load was    *)
(* answered that has not been made up for since.                           *)
Followed(q) == fetch[q].pc # "closed" /\ q \notin swallowed

(* The safety under AllConverge: what is behind the server, and not about  *)
(* to be replaced by what is not, will be fetched again, unless an event   *)
(* was missed, or came too late in the first load, or a fetch failed.      *)
StaleIsDue ==
  ~missed /\ faults = 0 =>
    \A q \in Queries : Followed(q) => \A i \in ItemsOf(q) : Current(q, i) \/ Due(q)

(* The queries of an event are those of the items its change touched; all  *)
(* but the events of invites have the home view fetched.                   *)
LEMMA EventCovers ==
  ASSUME NEW kind \in Kinds \union OwnKinds, NEW q \in Queries
  PROVE  (\E i \in ItemsOf(q) : i \in Touches(kind)) => q \in StaleAfter(kind)
  BY KindAssumption DEF Queries, ItemsOf, Touches, StaleAfter

(* An event that is not missed joins those the tab holds. *)
LEMMA SendPipes ==
  ASSUME TypeInv, NEW kind \in AllKinds, Send(kind), ~missed'
  PROVE  /\ ~missed
         /\ \A q : q \in StaleAfter(kind) \/ Piped(q) => Piped(q)'
<1>1. ~missed /\ pipe \in Seq(AllKinds) /\ Len(pipe) <= Capacity /\ Len(pipe) # Capacity
      /\ link # "down" /\ Capacity \in Nat
  BY Zeros DEF TypeInv, TypeOK, Send
<1>2. pipe' = Append(pipe, kind)
  BY <1>1, LenProperties DEF Send
<1>3. /\ Len(pipe) \in Nat /\ Len(pipe') = Len(pipe) + 1 /\ pipe'[Len(pipe) + 1] = kind
      /\ \A n \in 1..Len(pipe) : pipe'[n] = pipe[n]
  BY <1>1, <1>2, AppendProperties, LenProperties
<1>4. /\ Len(pipe) + 1 \in 1..Len(pipe')
      /\ \A n \in 1..Len(pipe) : n \in 1..Len(pipe')
  BY <1>3
<1> QED
  BY <1>1, <1>3, <1>4 DEF Piped

(* Failed fetches are not forgotten. *)
LEMMA FaultsStay ==
  ASSUME TypeInv, [Next]_vars PROVE faults' = 0 => faults = 0
<1>1. faults \in Nat
  BY Zeros DEF TypeInv, TypeOK
<1>2. faults' \in {faults, faults + 1}
  BY DEF Next, Progress, OwnAnnounce, OwnAnswered, Announce, Subscribe, TellOn, Deliver,
         FetchRead, FetchLands, FetchFails, Opens, Drop, Write, OwnWrite, vars, viewVars
<1> QED
  BY <1>1, <1>2

(* Missed events are not forgotten. *)
LEMMA MissedStays ==
  ASSUME TypeInv, [Next]_vars PROVE ~missed' => ~missed
  BY DEF Next, Progress, OwnAnnounce, OwnAnswered, Announce, Subscribe, TellOn, Deliver,
         FetchRead, FetchLands, FetchFails, Opens, Drop, Write, OwnWrite, vars, linkVars, Send

(* A query that is invalidated is asked for, or its first load is, or the  *)
(* invalidation is swallowed.                                              *)
LEMMA Hit ==
  ASSUME TypeInv, NEW qs \in SUBSET Queries, Invalidate(qs), NEW q \in qs, Followed(q)'
  PROVE  Due(q)'
<1>1. fetch'[q] = IF q \in Restarts(qs) THEN Asked ELSE fetch[q]
  BY InvalidateTypes
<1>2. CASE q \in Restarts(qs)
  BY <1>1, <1>2 DEF Due, Asked
<1>3. CASE q \notin Restarts(qs)
  <2>1. FirstLoad(q) /\ fetch[q].pc # "read"
    BY <1>1, <1>3 DEF Restarts, Followed, Invalidate
  <2> QED
    BY <1>1, <1>3, <2>1 DEF FirstLoad, Due
<1> QED
  BY <1>2, <1>3

(* What is due stays due, or comes level, in every step that loses no      *)
(* event with which query q would be fetched.                              *)
LEMMA DueStays ==
  ASSUME TypeInv, Forward, [Next]_vars, faults' = 0,
         NEW q \in Queries, NEW i \in ItemsOf(q), Followed(q) => Current(q, i) \/ Due(q),
         Followed(q)',
         \A w \in Writers : Announce(w) /\ (q \in StaleAfter(writer[w]) \/ Piped(q)) => Piped(q)',
         OwnAnnounce /\ (q \in StaleAfter(own.kind) \/ Piped(q)) => Piped(q)',
         TellOn \/ Subscribe \/ Drop => (Piped(q) => Piped(q)')
  PROVE  Current(q, i)' \/ Due(q)'
<1>t. /\ own \in OwnType /\ (own.pc # "none" => own.kind \in OwnKinds)
      /\ fetch \in [Queries -> FetchType] /\ writer \in [Writers -> AllKinds \union {"none"}]
      /\ i \in Items
  BY OneQueryEach DEF TypeInv, TypeOK
<1>n. stored[i] \in Nat /\ cache[i] \in Nat /\ cache[i] <= stored[i]
      /\ fetch[q].seen[i] \in Nat /\ fetch[q].seen[i] <= stored[i]
  BY <1>t, Zeros DEF TypeInv, TypeOK, Versions
<1>h. pipe # <<>> => Head(pipe) \in AllKinds
  <2>1. pipe \in Seq(AllKinds)
    BY DEF TypeInv, TypeOK
  <2> QED
    BY <2>1, HeadTailProperties
<1>s. stored \in Versions
  BY DEF TypeInv, TypeOK
<1>f. faults \in Nat /\ MaxFaults \in Nat
  BY Zeros DEF TypeInv, TypeOK
(* the views are left alone, and what is due stays due *)
<1>u. ASSUME UNCHANGED <<stored, viewVars>>, Due(q) => Due(q)' PROVE Current(q, i)' \/ Due(q)'
  BY <1>u DEF Current, viewVars, Followed
<1>1. ASSUME NEW w \in Writers, NEW kind \in Kinds, Write(w, kind) PROVE Current(q, i)' \/ Due(q)'
  <2>1. writer[w] = "none" /\ UNCHANGED <<own, linkVars, viewVars>>
        /\ \A v \in Writers : writer'[v] = IF v = w THEN kind ELSE writer[v]
    BY <1>1, <1>t DEF Write
  <2>2. Due(q) => Due(q)'
    BY <2>1 DEF Due, Piped, linkVars, viewVars
  <2>3. CASE i \in Touches(kind)
    <3>1. q \in StaleAfter(kind) /\ kind # "none"
      BY <2>3, EventCovers, KindAssumption
    <3> QED
      BY <2>1, <3>1 DEF Due
  <2>4. CASE i \notin Touches(kind)
    <3>1. stored'[i] = stored[i]
      BY <1>1, <1>t, <2>4 DEF Write, Change
    <3> QED
      BY <2>1, <2>2, <3>1 DEF Current, linkVars, viewVars, Followed
  <2> QED
    BY <2>3, <2>4
<1>2. ASSUME NEW w \in Writers, Announce(w) PROVE Current(q, i)' \/ Due(q)'
  <2>1. /\ UNCHANGED <<stored, own, viewVars>>
        /\ \A v \in Writers \ {w} : writer'[v] = writer[v]
    BY <1>2, <1>t DEF Announce
  <2>2. Due(q) => Due(q)'
    BY <1>2, <2>1 DEF Due, viewVars
  <2> QED
    BY <1>u, <2>1, <2>2
<1>3. ASSUME NEW kind \in OwnKinds, OwnWrite(kind) PROVE Current(q, i)' \/ Due(q)'
  <2>1. own = NoRequest /\ own.pc = "none" /\ own'.pc = "written" /\ own'.kind = kind
        /\ UNCHANGED <<writer, linkVars, viewVars>>
    BY <1>3 DEF OwnWrite, NoRequest
  <2>2. Due(q) => Due(q)'
    BY <2>1 DEF Due, Piped, linkVars, viewVars
  <2>3. CASE i \in Touches(kind)
    <3>1. q \in StaleAfter(kind)
      BY <2>3, EventCovers
    <3> QED
      BY <2>1, <3>1 DEF Due
  <2>4. CASE i \notin Touches(kind)
    <3>1. stored'[i] = stored[i]
      BY <1>3, <1>t, <2>4 DEF OwnWrite, Change
    <3> QED
      BY <2>1, <2>2, <3>1 DEF Current, linkVars, viewVars, Followed
  <2> QED
    BY <2>3, <2>4
<1>4. CASE OwnAnnounce
  <2>1. /\ own.pc = "written" /\ own'.pc = "announced" /\ own'.kind = own.kind
        /\ UNCHANGED <<serverVars, viewVars>>
    BY <1>4, <1>t DEF OwnAnnounce, OwnType
  <2>2. Due(q) => Due(q)'
    BY <1>4, <2>1 DEF Due, serverVars, viewVars
  <2> QED
    BY <1>u, <2>1, <2>2 DEF serverVars
<1>5. ASSUME NEW r \in Queries, Opens(r) PROVE Current(q, i)' \/ Due(q)'
  <2>1. UNCHANGED <<serverVars, own, linkVars, cache, swallowed, faults>>
        /\ fetch'[q] = IF q = r THEN Asked ELSE fetch[q]
    BY <1>5, <1>t DEF Opens
  <2>2. CASE q = r
    BY <2>1, <2>2 DEF Due, Asked
  <2>3. CASE q # r
    BY <2>1, <2>3 DEF Current, Due, Piped, serverVars, linkVars, Followed
  <2> QED
    BY <2>2, <2>3
<1>6. CASE TellOn \/ Subscribe \/ Drop
  <2>1. UNCHANGED <<serverVars, own, viewVars>>
    BY <1>6 DEF TellOn, Subscribe, Drop
  <2>2. Due(q) => Due(q)'
    BY <1>6, <2>1 DEF Due, serverVars, viewVars
  <2> QED
    BY <1>u, <2>1, <2>2 DEF serverVars
<1>7. CASE Deliver
  <2>1. /\ UNCHANGED <<serverVars, own, missed, cache, faults>>
        /\ pipe # <<>> /\ pipe' = Tail(pipe) /\ Invalidate(StaleAfter(Head(pipe)))
    BY <1>7 DEF Deliver
  <2>2. fetch'[q] = IF q \in Restarts(StaleAfter(Head(pipe))) THEN Asked ELSE fetch[q]
    BY <2>1, <1>h, InvalidateTypes, StaleTypes
  <2>3. CASE q \in StaleAfter(Head(pipe))
    BY <1>h, <2>1, <2>3, Hit, StaleTypes
  <2>4. CASE q \notin StaleAfter(Head(pipe))
    <3>1. Piped(q) => Piped(q)'
      <4> SUFFICES ASSUME NEW n \in 1..Len(pipe), q \in StaleAfter(pipe[n]) PROVE Piped(q)'
        BY DEF Piped
      <4>1. pipe \in Seq(AllKinds) /\ Len(pipe) \in Nat
        BY LenProperties DEF TypeInv, TypeOK
      <4>2. Head(pipe) = pipe[1]
        BY <2>1, <4>1, HeadTailProperties
      <4>3. n # 1
        BY <2>4, <4>2
      <4>4. Len(pipe') = Len(pipe) - 1 /\ \A m \in 1..Len(pipe') : pipe'[m] = pipe[m + 1]
        BY <2>1, <4>1, HeadTailProperties
      <4>5. n - 1 \in 1..Len(pipe') /\ (n - 1) + 1 = n
        BY <4>1, <4>3, <4>4
      <4> QED
        BY <4>4, <4>5 DEF Piped
    <3>2. fetch'[q] = fetch[q] /\ (q \in swallowed' <=> q \in swallowed)
      BY <2>1, <2>2, <2>4 DEF Invalidate, Restarts
    <3>3. Due(q) => Due(q)'
      BY <2>1, <3>1, <3>2 DEF Due, serverVars
    <3> QED
      BY <2>1, <3>2, <3>3 DEF Current, serverVars, Followed
  <2> QED
    BY <2>3, <2>4
<1>8. ASSUME NEW r \in Queries, FetchRead(r) PROVE Current(q, i)' \/ Due(q)'
  <2>1. UNCHANGED <<serverVars, own, linkVars, cache, swallowed, faults>>
        /\ fetch'[q] = IF q = r THEN [pc |-> "read", seen |-> Seen(ItemsOf(r))] ELSE fetch[q]
    BY <1>8, <1>t DEF FetchRead
  <2>2. CASE q = r
    <3>1. Seen(ItemsOf(r))[i] = stored[i]
      BY <1>s, <1>t, <2>2, SeenTypes
    <3> QED
      BY <2>1, <2>2, <3>1 DEF Current, serverVars
  <2>3. CASE q # r
    BY <2>1, <2>3 DEF Current, Due, Piped, serverVars, linkVars, Followed
  <2> QED
    BY <2>2, <2>3
<1>9. ASSUME NEW r \in Queries, FetchLands(r) PROVE Current(q, i)' \/ Due(q)'
  <2>1. /\ UNCHANGED <<serverVars, own, linkVars, swallowed, faults>> /\ fetch[r].pc = "read"
        /\ fetch'[q] = IF q = r THEN NoFetch ELSE fetch[q]
        /\ cache'[i] = IF i \in ItemsOf(r) THEN fetch[r].seen[i] ELSE cache[i]
    BY <1>9, <1>t DEF FetchLands
  <2>f. Followed(q)
    BY <1>9, <2>1 DEF Followed, NoFetch
  <2>2. Due(q) => Due(q)'
    BY <2>1 DEF Due, Piped, serverVars, linkVars
  <2>3. CASE q = r
    <3>1. cache[i] <= fetch[q].seen[i]
      BY <2>1, <2>3 DEF Forward
    <3>2. Current(q, i) => Current(q, i)'
      BY <1>n, <2>1, <2>3, <3>1 DEF Current, serverVars
    <3> QED
      BY <2>f, <2>1, <2>2, <3>2 DEF linkVars
  <2>4. CASE q # r
    <3>1. i \notin ItemsOf(r)
      BY <2>4, OneQueryEach
    <3> QED
      BY <2>f, <2>1, <2>2, <2>4, <3>1 DEF Current, serverVars, linkVars
  <2> QED
    BY <2>3, <2>4
<1>10. ASSUME NEW r \in Queries, FetchFails(r) PROVE FALSE
  BY <1>10, <1>f DEF FetchFails
<1>11. CASE OwnAnswered
  <2>1. /\ UNCHANGED <<serverVars, linkVars, faults>> /\ own.pc = "announced" /\ own.kind \in OwnKinds
        /\ cache'[i] = IF i \in Patched(own.kind) THEN own.seen[i] ELSE cache[i]
        /\ fetch'[q] = IF q \in Restarts(StaleAfterOwn(own.kind)) THEN Asked ELSE fetch[q]
        /\ Invalidate(StaleAfterOwn(own.kind))
    BY <1>11, <1>t, InvalidateTypes, StaleTypes DEF OwnAnswered
  <2>2. CASE q \in StaleAfterOwn(own.kind)
    BY <2>1, <2>2, Hit, StaleTypes
  <2>3. CASE q \notin StaleAfterOwn(own.kind)
    <3>1. i \notin Patched(own.kind)
      BY <2>1, <2>3, OneQueryEach
    <3>2. Due(q) => Due(q)'
      BY <2>1, <2>3 DEF Due, Piped, Restarts, serverVars, linkVars
    <3>3. fetch'[q] = fetch[q] /\ (q \in swallowed' <=> q \in swallowed)
      BY <2>1, <2>3 DEF Invalidate, Restarts
    <3> QED
      BY <2>1, <3>1, <3>2, <3>3 DEF Current, serverVars, linkVars, Followed
  <2> QED
    BY <2>2, <2>3
<1>12. CASE UNCHANGED vars
  <2>1. Due(q) => Due(q)'
    BY <1>12 DEF vars, Due, Piped
  <2> QED
    BY <1>12, <1>u, <2>1 DEF vars, viewVars
<1> QED
  BY <1>1, <1>2, <1>3, <1>4, <1>5, <1>6, <1>7, <1>8, <1>9, <1>10, <1>11, <1>12
     DEF Next, Progress

(* No event is lost that is not counted as missed. *)
LEMMA NextDue == TypeInv /\ Forward /\ StaleIsDue /\ [Next]_vars => StaleIsDue'
<1> SUFFICES ASSUME TypeInv, Forward, StaleIsDue, [Next]_vars, ~missed', faults' = 0,
                    NEW q \in Queries, Followed(q)', NEW i \in ItemsOf(q)
             PROVE  Current(q, i)' \/ Due(q)'
  BY DEF StaleIsDue
<1>t. /\ own \in OwnType /\ (own.pc # "none" => own.kind \in AllKinds)
      /\ writer \in [Writers -> AllKinds \union {"none"}]
  BY TouchesSome DEF TypeInv, TypeOK
<1>1. \A w \in Writers : Announce(w) /\ (q \in StaleAfter(writer[w]) \/ Piped(q)) => Piped(q)'
  BY <1>t, SendPipes DEF Announce
<1>2. OwnAnnounce /\ (q \in StaleAfter(own.kind) \/ Piped(q)) => Piped(q)'
  BY <1>t, SendPipes DEF OwnAnnounce
<1>3. TellOn \/ Subscribe \/ Drop => (Piped(q) => Piped(q)')
  <2>1. CASE TellOn
    BY <2>1, SendPipes DEF TellOn, AllKinds
  <2>2. CASE Subscribe \/ Drop
    <3>1. pipe = <<>>
      BY <2>2 DEF Subscribe, Drop, TypeInv, TypeOK
    <3>2. ~Piped(q)
      BY <3>1 DEF Piped
    <3> QED
      BY <3>2
  <2> QED
    BY <2>1, <2>2
<1>4. ~missed
  BY MissedStays
<1>5. faults = 0
  BY FaultsStay
<1>6. Followed(q) => Current(q, i) \/ Due(q)
  BY <1>4, <1>5 DEF StaleIsDue
<1> QED
  BY <1>1, <1>2, <1>3, <1>6, DueStays

(* What is loading at first is being fetched. *)
LEMMA InitDue == Init => StaleIsDue
<1> SUFFICES ASSUME Init, NEW q \in Queries, Followed(q), NEW i \in ItemsOf(q)
             PROVE  Current(q, i) \/ Due(q)
  BY DEF StaleIsDue
<1>1. PICK shown \in Shown :
        /\ cache = [j \in Items |-> IF \E r \in shown : j \in ItemsOf(r) THEN 1 ELSE 0]
        /\ fetch = [r \in Queries |-> IF r \in shown THEN NoFetch
                                      ELSE IF r = "home" THEN Asked ELSE NotOpened]
  BY DEF Init
<1>2. i \in Items /\ stored[i] = 1
  BY OneQueryEach DEF Init
<1>3. CASE q \in shown
  BY <1>1, <1>2, <1>3 DEF Current
<1>4. CASE q \notin shown
  <2>1. fetch[q] = Asked
    BY <1>1, <1>4 DEF Followed, NotOpened
  <2> QED
    BY <2>1 DEF Due, Asked
<1> QED
  BY <1>3, <1>4

(* A query that is behind the server is about to be brought level or       *)
(* fetched again, unless an event was missed, or came in its first load    *)
(* after the server's answer, or a fetch failed: but for those, nothing    *)
(* stale stays on show when all is at rest.                                *)
THEOREM StaleGetsFetched == Spec => []StaleIsDue
<1>1. TypeInv /\ Forward /\ StaleIsDue /\ [Next]_vars => (TypeInv /\ Forward /\ StaleIsDue)'
  BY NextTypes, NextForward, NextDue
<1> QED
  BY InitTypes, InitForward, InitDue, <1>1, PTL DEF Spec

----------------------------------------------------------------------------
(* The home view comes level although events are lost *)

(* The last k events the tab holds are all of invites.                     *)
Tailing(k) == k \in 0..Len(pipe) /\ \A n \in 1..Len(pipe) : n > Len(pipe) - k => pipe[n] = "invite"

(* The changes of invites that are yet to be announced. *)
Inviting == {w \in Writers : writer[w] = "invite"}
OwnInvite == IF own.pc = "written" /\ own.kind = "invite" THEN 1 ELSE 0

(* The events of invites that end the channel, and those still to come,    *)
(* are of as many changes of invites.                                      *)
InvitesCounted ==
  /\ IsFiniteSet(Inviting)
  /\ \A k \in Nat : Tailing(k) => k + Cardinality(Inviting) + OwnInvite <= stored["invites"] - 1

(* The safety under HomeConverges: while invites cannot fill the channel   *)
(* alone, lost events do not matter.                                       *)
HomeIsDue ==
  faults = 0 /\ stored["invites"] <= Capacity /\ Followed("home") =>
    \A i \in ItemsOf("home") : Current("home", i) \/ Due("home") \/ link # "up"

(* Every event but those of invites has the home view fetched. *)
LEMMA HomeEvents ==
  ASSUME NEW kind \in AllKinds
  PROVE  "home" \in StaleAfter(kind) <=> kind # "invite"
  BY DEF AllKinds, StaleAfter

(* Sent to a socket, an event comes last, after those before it but for    *)
(* one at most, the oldest, when they fill the channel.                    *)
LEMMA SendLast ==
  ASSUME TypeInv, NEW kind \in AllKinds, Send(kind), link # "down"
  PROVE  /\ Len(pipe) \in Nat /\ Len(pipe') \in Nat /\ Len(pipe') > 0
         /\ Len(pipe') <= Len(pipe) + 1 /\ pipe'[Len(pipe')] = kind
         /\ \A j \in 1..Len(pipe') - 1 :
              /\ j + (Len(pipe) - (Len(pipe') - 1)) \in 1..Len(pipe)
              /\ pipe'[j] = pipe[j + (Len(pipe) - (Len(pipe') - 1))]
         /\ Len(pipe') < Len(pipe) + 1 => Len(pipe') = Capacity /\ Len(pipe) = Capacity
<1>1. /\ pipe \in Seq(AllKinds) /\ Len(pipe) \in Nat /\ Len(pipe) <= Capacity
      /\ Capacity \in Nat /\ Capacity > 0
  BY Zeros, LenProperties DEF TypeInv, TypeOK
<1>2. CASE Len(pipe) < Capacity
  <2>1. pipe' = Append(pipe, kind)
    BY <1>2 DEF Send
  <2>2. /\ Len(pipe') = Len(pipe) + 1 /\ pipe'[Len(pipe) + 1] = kind
        /\ \A j \in 1..Len(pipe) : pipe'[j] = pipe[j]
    BY <1>1, <2>1, AppendProperties
  <2>3. PICK l, m : l = Len(pipe) /\ m = Len(pipe')
    OBVIOUS
  <2>4. l \in Nat /\ m = l + 1 /\ m - 1 = l /\ l - (m - 1) = 0 /\ \A j \in 1..l : j + 0 = j
    BY <1>1, <2>2, <2>3
  <2>5. \A j \in 1..m - 1 : j + (l - (m - 1)) \in 1..l /\ pipe'[j] = pipe[j + (l - (m - 1))]
    BY <2>2, <2>3, <2>4
  <2>6. m \in Nat /\ m > 0 /\ m <= l + 1 /\ ~(m < l + 1) /\ pipe'[m] = kind
    BY <2>2, <2>3, <2>4
  <2> QED
    BY <2>3, <2>4, <2>5, <2>6
<1>3. CASE Len(pipe) = Capacity
  <2>1. pipe' = Append(Tail(pipe), kind) /\ pipe # <<>>
    BY <1>1, <1>3 DEF Send
  <2>2. /\ Tail(pipe) \in Seq(AllKinds) /\ Len(Tail(pipe)) = Len(pipe) - 1
        /\ \A j \in 1..Len(Tail(pipe)) : Tail(pipe)[j] = pipe[j + 1]
    BY <1>1, <2>1, HeadTailProperties
  <2>3. /\ Len(pipe') = Len(Tail(pipe)) + 1 /\ pipe'[Len(Tail(pipe)) + 1] = kind
        /\ \A j \in 1..Len(Tail(pipe)) : pipe'[j] = Tail(pipe)[j]
    BY <2>1, <2>2, AppendProperties
  <2>4. /\ Len(pipe') = Len(pipe) /\ pipe'[Len(pipe')] = kind
        /\ \A j \in 1..Len(pipe) - 1 : pipe'[j] = pipe[j + 1] /\ j + 1 \in 1..Len(pipe)
    BY <1>1, <2>2, <2>3
  <2>5. Len(pipe) - (Len(pipe') - 1) = 1 /\ Len(pipe') > 0
    BY <1>1, <1>3, <2>4
  <2> QED
    BY <1>1, <1>3, <2>4, <2>5
<1> QED
  BY <1>1, <1>2, <1>3

(* A run of invites at the end of the channel is one that was there, with  *)
(* the event sent when that is of an invite, or empty.                     *)
LEMMA SendTailing ==
  ASSUME TypeInv, NEW kind \in AllKinds, Send(kind), NEW k \in Nat, Tailing(k)'
  PROVE  \/ k = 0
         \/ link # "down" /\ kind = "invite" /\ k - 1 \in Nat /\ Tailing(k - 1)
<1>1. CASE link = "down"
  <2>1. pipe = <<>> /\ pipe' = pipe
    BY <1>1 DEF Send, TypeInv, TypeOK
  <2>2. Len(pipe') = 0
    BY <2>1
  <2> QED
    BY <2>2 DEF Tailing
<1>2. CASE link # "down" /\ k > 0
  <2>1. PICK l, m : l = Len(pipe) /\ m = Len(pipe')
    OBVIOUS
  <2>2. /\ l \in Nat /\ m \in Nat /\ m > 0 /\ m <= l + 1 /\ pipe'[m] = kind
        /\ \A j \in 1..m - 1 : j + (l - (m - 1)) \in 1..l /\ pipe'[j] = pipe[j + (l - (m - 1))]
    BY <1>2, <2>1, SendLast
  <2>3. k <= m /\ \A n \in 1..m : n > m - k => pipe'[n] = "invite"
    BY <2>1 DEF Tailing
  <2>4. kind = "invite"
    BY <1>2, <2>2, <2>3
  <2>5. k - 1 \in 0..l
    BY <1>2, <2>2, <2>3
  <2>6. ASSUME NEW n \in 1..l, n > l - (k - 1) PROVE pipe[n] = "invite"
    <3>1. PICK j : j = n - (l - (m - 1))
      OBVIOUS
    <3>2. j \in 1..m - 1 /\ j > m - k /\ j + (l - (m - 1)) = n
      BY <1>2, <2>2, <2>3, <2>6, <3>1
    <3>3. j \in 1..m
      BY <2>2, <3>2
    <3> QED
      BY <2>2, <2>3, <3>2, <3>3
  <2> QED
    BY <1>2, <2>1, <2>4, <2>5, <2>6 DEF Tailing
<1> QED
  BY <1>1, <1>2

(* An empty run is always there. *)
LEMMA NoTail == TypeInv => Tailing(0)
<1> SUFFICES ASSUME TypeInv PROVE Tailing(0)
  OBVIOUS
<1>1. Len(pipe) \in Nat
  BY LenProperties DEF TypeInv, TypeOK
<1> QED
  BY <1>1 DEF Tailing

(* Every step keeps count of the invites. *)
LEMMA NextInvites == TypeInv /\ InvitesCounted /\ [Next]_vars => InvitesCounted'
<1> SUFFICES ASSUME TypeInv, InvitesCounted, [Next]_vars PROVE InvitesCounted'
  OBVIOUS
<1>t. /\ own \in OwnType /\ (own.pc # "none" => own.kind \in OwnKinds)
      /\ writer \in [Writers -> AllKinds \union {"none"}] /\ "invites" \in Items
  BY DEF TypeInv, TypeOK, Items
<1>n. stored["invites"] \in Nat /\ IsFiniteSet(Inviting) /\ Cardinality(Inviting) \in Nat
      /\ OwnInvite \in {0, 1}
  BY <1>t, Zeros, FS_CardinalityType DEF TypeInv, TypeOK, Versions, InvitesCounted, OwnInvite
<1>c. \A k \in Nat : Tailing(k) => k + Cardinality(Inviting) + OwnInvite <= stored["invites"] - 1
  BY DEF InvitesCounted
<1>z. Cardinality(Inviting) + OwnInvite <= stored["invites"] - 1
  BY <1>c, <1>n, NoTail
<1>k. OwnKinds \subseteq AllKinds
  BY TouchesSome
(* no invite is changed or announced, and no run of invites grows *)
<1>u. ASSUME Inviting' = Inviting, OwnInvite' = OwnInvite, stored'["invites"] = stored["invites"],
             \A k \in Nat : Tailing(k)' => k = 0 \/ Tailing(k)
      PROVE  InvitesCounted'
  BY <1>u, <1>c, <1>n, <1>z DEF InvitesCounted
<1>p. ASSUME pipe' = pipe PROVE \A k \in Nat : Tailing(k)' <=> Tailing(k)
  BY <1>p DEF Tailing
<1>e. ASSUME pipe' = <<>> PROVE \A k \in Nat : Tailing(k)' => k = 0
  BY <1>e DEF Tailing
<1>1. ASSUME NEW w \in Writers, NEW kind \in Kinds, Write(w, kind) PROVE InvitesCounted'
  <2>1. /\ writer[w] = "none" /\ OwnInvite' = OwnInvite /\ pipe' = pipe
        /\ \A v \in Writers : writer'[v] = IF v = w THEN kind ELSE writer[v]
    BY <1>1, <1>t DEF Write, OwnInvite, linkVars
  <2>2. CASE kind = "invite"
    <3>1. stored'["invites"] = stored["invites"] + 1
      BY <1>1, <1>t, <2>2 DEF Write, Change, Touches
    <3>2. Inviting' = Inviting \union {w} /\ w \notin Inviting
      BY <2>1, <2>2 DEF Inviting
    <3>3. IsFiniteSet(Inviting \union {w}) /\ Cardinality(Inviting \union {w}) = Cardinality(Inviting) + 1
      BY <1>n, <3>2, FS_AddElement
    <3>4. IsFiniteSet(Inviting') /\ Cardinality(Inviting') = Cardinality(Inviting) + 1
      BY <3>2, <3>3
    <3> QED
      BY <1>c, <1>n, <1>p, <2>1, <3>1, <3>4 DEF InvitesCounted
  <2>3. CASE kind # "invite"
    <3>1. stored'["invites"] = stored["invites"]
      BY <1>1, <1>t, <2>3, TouchesSome, KindAssumption DEF Write, Change, Touches
    <3>2. Inviting' = Inviting
      BY <2>1, <2>3 DEF Inviting
    <3> QED
      BY <1>p, <1>u, <2>1, <3>1, <3>2
  <2> QED
    BY <2>2, <2>3
<1>2. ASSUME NEW w \in Writers, Announce(w) PROVE InvitesCounted'
  <2>1. /\ writer[w] \in AllKinds /\ Send(writer[w]) /\ OwnInvite' = OwnInvite /\ stored' = stored
        /\ \A v \in Writers : writer'[v] = IF v = w THEN "none" ELSE writer[v]
    BY <1>2, <1>t DEF Announce, OwnInvite
  <2>2. CASE writer[w] = "invite"
    <3>1. Inviting' = Inviting \ {w} /\ w \in Inviting
      BY <2>1, <2>2 DEF Inviting
    <3>2. IsFiniteSet(Inviting \ {w}) /\ Cardinality(Inviting \ {w}) = Cardinality(Inviting) - 1
      BY <1>n, <3>1, FS_RemoveElement
    <3>3. IsFiniteSet(Inviting') /\ Cardinality(Inviting') = Cardinality(Inviting) - 1
      BY <3>1, <3>2
    <3>4. \A k \in Nat : Tailing(k)' => k = 0 \/ (k - 1 \in Nat /\ Tailing(k - 1))
      BY <2>1, SendTailing
    <3> QED
      BY <1>c, <1>n, <1>z, <2>1, <3>3, <3>4 DEF InvitesCounted
  <2>3. CASE writer[w] # "invite"
    <3>1. Inviting' = Inviting
      BY <2>1, <2>3 DEF Inviting
    <3>2. \A k \in Nat : Tailing(k)' => k = 0
      BY <2>1, <2>3, SendTailing
    <3> QED
      BY <1>u, <2>1, <3>1, <3>2
  <2> QED
    BY <2>2, <2>3
<1>3. ASSUME NEW kind \in OwnKinds, OwnWrite(kind) PROVE InvitesCounted'
  <2>1. /\ own.pc = "none" /\ own'.pc = "written" /\ own'.kind = kind
        /\ Inviting' = Inviting /\ pipe' = pipe
    BY <1>3 DEF OwnWrite, NoRequest, Inviting, linkVars
  <2>2. CASE kind = "invite"
    <3>1. stored'["invites"] = stored["invites"] + 1
      BY <1>3, <1>t, <2>2 DEF OwnWrite, Change, Touches
    <3>2. OwnInvite = 0 /\ OwnInvite' = 1
      BY <2>1, <2>2 DEF OwnInvite
    <3> QED
      BY <1>c, <1>n, <1>p, <2>1, <3>1, <3>2 DEF InvitesCounted
  <2>3. CASE kind # "invite"
    <3>1. stored'["invites"] = stored["invites"]
      BY <1>3, <1>t, <2>3, KindAssumption DEF OwnWrite, Change, Touches
    <3>2. OwnInvite' = OwnInvite
      BY <2>1, <2>3 DEF OwnInvite
    <3> QED
      BY <1>p, <1>u, <2>1, <3>1, <3>2
  <2> QED
    BY <2>2, <2>3
<1>4. CASE OwnAnnounce
  <2>1. /\ own.pc = "written" /\ own.kind \in AllKinds /\ Send(own.kind) /\ own'.pc = "announced"
        /\ Inviting' = Inviting /\ stored' = stored
    BY <1>4, <1>t, <1>k DEF OwnAnnounce, OwnType, Inviting, serverVars
  <2>2. OwnInvite' = 0
    BY <2>1 DEF OwnInvite
  <2>3. CASE own.kind = "invite"
    <3>1. OwnInvite = 1
      BY <2>1, <2>3 DEF OwnInvite
    <3>2. \A k \in Nat : Tailing(k)' => k = 0 \/ (k - 1 \in Nat /\ Tailing(k - 1))
      BY <2>1, SendTailing
    <3> QED
      BY <1>c, <1>n, <1>z, <2>1, <2>2, <3>1, <3>2 DEF InvitesCounted
  <2>4. CASE own.kind # "invite"
    <3>1. OwnInvite = 0
      BY <2>4 DEF OwnInvite
    <3>2. \A k \in Nat : Tailing(k)' => k = 0
      BY <2>1, <2>4, SendTailing
    <3> QED
      BY <1>u, <2>1, <2>2, <3>1, <3>2
  <2> QED
    BY <2>3, <2>4
<1>5. CASE OwnAnswered
  <2>1. Inviting' = Inviting /\ stored' = stored /\ pipe' = pipe /\ own.pc # "written"
        /\ own'.pc # "written"
    BY <1>5 DEF OwnAnswered, NoRequest, Inviting, serverVars, linkVars
  <2>2. OwnInvite' = OwnInvite
    BY <2>1 DEF OwnInvite
  <2> QED
    BY <1>p, <1>u, <2>1, <2>2
<1>6. CASE Subscribe \/ Drop
  <2>1. Inviting' = Inviting /\ OwnInvite' = OwnInvite /\ stored' = stored /\ pipe' = <<>>
    BY <1>6 DEF Subscribe, Drop, Inviting, OwnInvite, serverVars
  <2> QED
    BY <1>e, <1>u, <2>1
<1>7. CASE TellOn
  <2>1. Inviting' = Inviting /\ OwnInvite' = OwnInvite /\ stored' = stored /\ Send("party")
        /\ "party" \in AllKinds
    BY <1>7 DEF TellOn, Inviting, OwnInvite, serverVars, AllKinds
  <2>2. \A k \in Nat : Tailing(k)' => k = 0
    BY <2>1, SendTailing
  <2> QED
    BY <1>u, <2>1, <2>2
<1>8. CASE Deliver
  <2>1. Inviting' = Inviting /\ OwnInvite' = OwnInvite /\ stored' = stored
        /\ pipe # <<>> /\ pipe' = Tail(pipe)
    BY <1>8 DEF Deliver, Inviting, OwnInvite, serverVars
  <2>2. PICK l : l = Len(pipe)
    OBVIOUS
  <2>3. l \in Nat /\ Len(pipe') = l - 1 /\ \A n \in 1..l - 1 : pipe'[n] = pipe[n + 1]
    BY <2>1, <2>2, HeadTailProperties, LenProperties DEF TypeInv, TypeOK
  <2>4. ASSUME NEW k \in Nat, Tailing(k)' PROVE Tailing(k)
    <3>1. k <= l - 1 /\ \A n \in 1..l - 1 : n > l - 1 - k => pipe'[n] = "invite"
      BY <2>3, <2>4 DEF Tailing
    <3>2. ASSUME NEW n \in 1..l, n > l - k PROVE pipe[n] = "invite"
      <4>1. n - 1 \in 1..l - 1 /\ n - 1 > l - 1 - k /\ (n - 1) + 1 = n
        BY <2>3, <3>1, <3>2
      <4> QED
        BY <2>3, <3>1, <4>1
    <3>3. k \in 0..l
      BY <2>3, <3>1
    <3> QED
      BY <2>2, <3>2, <3>3 DEF Tailing
  <2> QED
    BY <1>u, <2>1, <2>4
<1>9. ASSUME NEW q \in Queries, Opens(q) \/ FetchRead(q) \/ FetchLands(q) \/ FetchFails(q)
      PROVE  InvitesCounted'
  <2>1. Inviting' = Inviting /\ OwnInvite' = OwnInvite /\ stored' = stored /\ pipe' = pipe
    BY <1>9 DEF Opens, FetchRead, FetchLands, FetchFails, Inviting, OwnInvite, serverVars, linkVars
  <2> QED
    BY <1>p, <1>u, <2>1
<1>10. CASE UNCHANGED vars
  <2>1. Inviting' = Inviting /\ OwnInvite' = OwnInvite /\ stored' = stored /\ pipe' = pipe
    BY <1>10 DEF vars, Inviting, OwnInvite
  <2> QED
    BY <1>p, <1>u, <2>1
<1> QED
  BY <1>1, <1>2, <1>3, <1>4, <1>5, <1>6, <1>7, <1>8, <1>9, <1>10 DEF Next, Progress

(* To an open socket, no event is lost with which the home view would be   *)
(* fetched, but that it is by another one.                                 *)
LEMMA SendHome ==
  ASSUME TypeInv, InvitesCounted, NEW kind \in AllKinds, Send(kind), link # "down",
         stored["invites"] <= Capacity,
         kind = "invite" => Cardinality(Inviting) + OwnInvite >= 1,
         "home" \in StaleAfter(kind) \/ Piped("home")
  PROVE  Piped("home")'
<1> SUFFICES ASSUME ~Piped("home")' PROVE FALSE
  OBVIOUS
<1>1. PICK l, m : l = Len(pipe) /\ m = Len(pipe')
  OBVIOUS
<1>2. /\ l \in Nat /\ m \in Nat /\ m > 0 /\ m <= l + 1 /\ pipe'[m] = kind
      /\ \A j \in 1..m - 1 : j + (l - (m - 1)) \in 1..l /\ pipe'[j] = pipe[j + (l - (m - 1))]
      /\ m < l + 1 => m = Capacity /\ l = Capacity
  BY <1>1, SendLast
<1>3. \A j \in 1..m : "home" \notin StaleAfter(pipe'[j])
  BY <1>1 DEF Piped
<1>4. m \in 1..m
  BY <1>2
<1>5. "home" \notin StaleAfter(kind) /\ kind = "invite"
  BY <1>2, <1>3, <1>4, HomeEvents
<1>6. PICK n \in 1..l : "home" \in StaleAfter(pipe[n])
  BY <1>1, <1>5 DEF Piped
<1>7. m < l + 1
  <2> SUFFICES ASSUME m = l + 1 PROVE FALSE
    BY <1>2
  <2>1. n \in 1..m - 1 /\ n + (l - (m - 1)) = n /\ n \in 1..m
    BY <1>2
  <2> QED
    BY <1>2, <1>3, <1>6, <2>1
<1>8. \A j \in 1..l : pipe[j] \in AllKinds
  BY <1>1, ElementOfSeq DEF TypeInv, TypeOK
<1>9. ASSUME NEW j \in 1..l, j > l - (m - 1) PROVE pipe[j] = "invite"
  <2>1. PICK h : h = j - (l - (m - 1))
    OBVIOUS
  <2>2. h \in 1..m - 1 /\ h \in 1..m /\ h + (l - (m - 1)) = j
    BY <1>2, <1>9, <2>1
  <2>3. "home" \notin StaleAfter(pipe[j])
    BY <1>2, <1>3, <2>2
  <2> QED
    BY <1>8, <2>3, HomeEvents
<1>10. m - 1 \in Nat /\ m - 1 \in 0..l
  BY <1>2, <1>7
<1>11. Tailing(m - 1)
  BY <1>1, <1>9, <1>10 DEF Tailing
<1>12. (m - 1) + Cardinality(Inviting) + OwnInvite <= stored["invites"] - 1
  BY <1>10, <1>11 DEF InvitesCounted
<1>13. Cardinality(Inviting) \in Nat /\ OwnInvite \in {0, 1} /\ stored["invites"] \in Nat
       /\ Capacity \in Nat
  BY Zeros, FS_CardinalityType DEF TypeInv, TypeOK, Versions, Items, InvitesCounted, OwnInvite
<1> QED
  BY <1>2, <1>5, <1>7, <1>12, <1>13

(* Every step keeps the home view due. *)
LEMMA NextHomeDue ==
  TypeInv /\ Forward /\ InvitesCounted /\ HomeIsDue /\ [Next]_vars => HomeIsDue'
<1> SUFFICES ASSUME TypeInv, Forward, InvitesCounted, HomeIsDue, [Next]_vars,
                    faults' = 0, stored'["invites"] <= Capacity, link' = "up", Followed("home")',
                    NEW i \in ItemsOf("home")
             PROVE  Current("home", i)' \/ Due("home")'
  BY DEF HomeIsDue
<1>q. "home" \in Queries /\ "invites" \in Items /\ "home" \in StaleAfter("party") /\ "party" \in AllKinds
  BY DEF Queries, Items, StaleAfter, AllKinds
<1>t. /\ own \in OwnType /\ (own.pc # "none" => own.kind \in AllKinds)
      /\ writer \in [Writers -> AllKinds \union {"none"}]
  BY TouchesSome DEF TypeInv, TypeOK
<1>n. /\ stored["invites"] \in Nat /\ stored'["invites"] \in Nat /\ Capacity \in Nat
      /\ Cardinality(Inviting) \in Nat /\ OwnInvite \in {0, 1} /\ IsFiniteSet(Inviting)
  <2>1. TypeInv'
    BY NextTypes
  <2> QED
    BY <1>q, <2>1, Zeros, FS_CardinalityType
       DEF TypeInv, TypeOK, Versions, InvitesCounted, OwnInvite
<1>s. stored["invites"] <= stored'["invites"]
  <2>1. CASE stored' = stored
    BY <1>n, <2>1
  <2>2. CASE stored' # stored
    <3>1. PICK kind : Change(kind)
      BY <2>2 DEF Next, Progress, OwnAnnounce, OwnAnswered, Announce, Subscribe, TellOn,
         Deliver, FetchRead, FetchLands, FetchFails, Opens, Drop, Write, OwnWrite, vars, serverVars
    <3> QED
      BY <1>n, <1>q, <3>1 DEF Change
  <2> QED
    BY <2>1, <2>2
<1>b. stored["invites"] <= Capacity
  BY <1>n, <1>s
<1>1. CASE TellOn
  <2>1. Piped("home")'
    <3>1. Len(pipe') \in Nat /\ Len(pipe') > 0 /\ pipe'[Len(pipe')] = "party"
      BY <1>1, <1>q, SendLast DEF TellOn
    <3>2. Len(pipe') \in 1..Len(pipe')
      BY <3>1
    <3> QED
      BY <1>q, <3>1, <3>2 DEF Piped
  <2> QED
    BY <2>1 DEF Due
<1>2. CASE ~TellOn
  <2>1. link = "up"
    BY <1>2 DEF Next, Progress, OwnAnnounce, OwnAnswered, Announce, Subscribe,
       Deliver, FetchRead, FetchLands, FetchFails, Opens, Drop, Write, OwnWrite, vars, linkVars
  <2>2. Followed("home") => Current("home", i) \/ Due("home")
    BY <1>b, <2>1, FaultsStay DEF HomeIsDue
  <2>3. ASSUME NEW w \in Writers, Announce(w), "home" \in StaleAfter(writer[w]) \/ Piped("home")
        PROVE  Piped("home")'
    <3>1. Send(writer[w]) /\ writer[w] \in AllKinds
      BY <1>t, <2>3 DEF Announce
    <3>2. writer[w] = "invite" => Cardinality(Inviting) + OwnInvite >= 1
      <4> SUFFICES ASSUME writer[w] = "invite" PROVE Cardinality(Inviting) >= 1
        BY <1>n
      <4>1. w \in Inviting
        BY DEF Inviting
      <4>2. Cardinality(Inviting) # 0
        BY <1>n, <4>1, FS_EmptySet
      <4> QED
        BY <1>n, <4>2
    <3> QED
      BY <1>b, <2>1, <2>3, <3>1, <3>2, SendHome
  <2>4. ASSUME OwnAnnounce, "home" \in StaleAfter(own.kind) \/ Piped("home") PROVE Piped("home")'
    <3>1. Send(own.kind) /\ own.kind \in AllKinds /\ own.pc = "written"
      BY <1>t, <2>4 DEF OwnAnnounce
    <3>2. own.kind = "invite" => Cardinality(Inviting) + OwnInvite >= 1
      BY <1>n, <3>1 DEF OwnInvite
    <3> QED
      BY <1>b, <2>1, <2>4, <3>1, <3>2, SendHome
  <2>5. ~(TellOn \/ Subscribe \/ Drop)
    BY <1>2 DEF Subscribe, Drop
  <2> QED
    BY <1>q, <2>2, <2>3, <2>4, <2>5, DueStays
<1> QED
  BY <1>1, <1>2

(* The home view is about to come level or to be fetched again, whatever   *)
(* events were lost, unless a fetch failed or events of invites alone can  *)
(* fill the channel.                                                       *)
THEOREM HomeGetsFetched == Spec => []HomeIsDue
<1>1. Init => InvitesCounted
  <2> SUFFICES ASSUME Init PROVE InvitesCounted
    OBVIOUS
  <2>1. Inviting = {} /\ IsFiniteSet({}) /\ Cardinality({}) = 0
    BY FS_EmptySet DEF Init, Inviting
  <2>2. OwnInvite = 0 /\ stored["invites"] = 1
    BY DEF Init, OwnInvite, NoRequest, Items
  <2>3. Len(pipe) = 0
    BY DEF Init
  <2>4. \A k \in Nat : Tailing(k) => k = 0
    BY <2>3 DEF Tailing
  <2> QED
    BY <2>1, <2>2, <2>4 DEF InvitesCounted
<1>2. Init => HomeIsDue
  <2>1. Init => ~missed /\ faults = 0 /\ "home" \in Queries
    BY DEF Init, Queries
  <2> QED
    BY <2>1, InitDue DEF HomeIsDue, StaleIsDue
<1>3. TypeInv /\ Forward /\ InvitesCounted /\ HomeIsDue /\ [Next]_vars
      => (TypeInv /\ Forward /\ InvitesCounted /\ HomeIsDue)'
  BY NextTypes, NextForward, NextInvites, NextHomeDue
<1> QED
  BY InitTypes, InitForward, <1>1, <1>2, <1>3, PTL DEF Spec
=============================================================================
