-------------------------- MODULE SessionPagesProofs --------------------------
(***************************************************************************)
(* Proofs about SessionPages, for any bounds.                              *)
(***************************************************************************)
EXTENDS SessionPages, TLAPS

----------------------------------------------------------------------------
(* Types *)

(* A snapshot that nobody is signed in, and no request or fetch in flight. *)
LEMMA DataTypes ==
  /\ Fresh \in Account /\ Nobody \in View /\ Nobody.session = 0
  /\ NoFetch \in FetchType /\ Asks \in FetchType /\ Asks.pc = "asked" /\ NoFetch.pc = "none"
  /\ NoRequest \in RequestType /\ NoRequest.kind = "none" /\ NoRequest.pc = "none"
  /\ NoHomeFetch \in HomeFetchType /\ [NoHomeFetch EXCEPT !.pc = "asked"] \in HomeFetchType
  /\ NoHomeFetch.pc = "none"
  /\ Fresh \in [Fields -> 0..Edited]
  /\ \A a \in Account : a \in [Fields -> 0..Edited]
<1>0. MaxChanges \in Nat /\ MaxSessions \in Nat
  BY BoundAssumption
<1>1. Fresh \in Account /\ Fresh \in [Fields -> 0..Edited]
  BY <1>0 DEF Fresh, Account, Edited
<1>2. Nobody \in View /\ Nobody.session = 0
  BY <1>0, <1>1 DEF Nobody, View
<1>3. \A a \in Account : a \in [Fields -> 0..Edited]
  BY <1>0 DEF Account, Edited
<1>4. NoFetch \in FetchType /\ Asks \in FetchType /\ Asks.pc = "asked" /\ NoFetch.pc = "none"
  BY <1>2 DEF NoFetch, Asks, FetchType, States
<1>5. NoRequest \in RequestType /\ NoRequest.kind = "none" /\ NoRequest.pc = "none"
  BY <1>2 DEF NoRequest, RequestType, States
<1>6. NoHomeFetch \in HomeFetchType /\ [NoHomeFetch EXCEPT !.pc = "asked"] \in HomeFetchType
      /\ NoHomeFetch.pc = "none"
  BY <1>0 DEF NoHomeFetch, HomeFetchType, States
<1> QED
  BY <1>1, <1>2, <1>3, <1>4, <1>5, <1>6

(* The gate sends every path to the half of the routes that goes with the  *)
(* session data.                                                           *)
LEMMA RouteTypes ==
  ASSUME NEW view \in View, NEW p \in {"login", "redeem", "home", "settings"}
  PROVE  /\ Route(p, view) \in {"login", "redeem", "home", "settings"}
         /\ view.session > 0 <=> Route(p, view) \in {"home", "settings"}
         /\ Route(p, view) = "settings" => p = "settings"
<1>1. view.session \in Nat
  BY BoundAssumption DEF View
<1> QED
  BY <1>1 DEF Route

(* The requests that are left without one are the others. *)
LEMMA WithoutTypes ==
  ASSUME TypeOK, NEW s \in Slots
  PROVE  /\ Without(s) \in [Slots -> RequestType]
         /\ \A r \in Slots :
              Without(s)[r] = NoRequest \/ \E q \in Slots \ {s} : Without(s)[r] = request[q]
         /\ \A q \in Slots \ {s} : \E r \in Slots : Without(s)[r] = request[q]
<1>n. MaxRequests \in Nat /\ s \in 1..MaxRequests /\ request \in [Slots -> RequestType]
  BY BoundAssumption DEF TypeOK, Slots
<1>1. ASSUME NEW r \in Slots
      PROVE  \/ Without(s)[r] = NoRequest
             \/ \E q \in Slots \ {s} : Without(s)[r] = request[q]
  <2>1. r \in 1..MaxRequests
    BY DEF Slots
  <2>2. CASE r < s
    <3>1. Without(s)[r] = request[r] /\ r # s
      BY <1>n, <2>1, <2>2 DEF Without
    <3> QED
      BY <3>1
  <2>3. CASE ~(r < s) /\ r < MaxRequests
    <3>1. Without(s)[r] = request[r + 1] /\ r + 1 \in Slots \ {s}
      BY <1>n, <2>1, <2>3 DEF Without, Slots
    <3> QED
      BY <3>1
  <2>4. CASE ~(r < s) /\ ~(r < MaxRequests)
    BY <2>4 DEF Without
  <2> QED
    BY <2>2, <2>3, <2>4
<1>2. ASSUME NEW q \in Slots \ {s} PROVE \E r \in Slots : Without(s)[r] = request[q]
  <2>1. q \in 1..MaxRequests
    BY DEF Slots
  <2>2. CASE q < s
    BY <2>2 DEF Without
  <2>3. CASE ~(q < s)
    <3>1. q - 1 \in Slots /\ ~(q - 1 < s) /\ q - 1 < MaxRequests /\ q - 1 + 1 = q
      BY <1>n, <2>1, <2>3 DEF Slots
    <3>2. Without(s)[q - 1] = request[q - 1 + 1]
      BY <3>1 DEF Without
    <3> QED
      BY <3>1, <3>2
  <2> QED
    BY <2>2, <2>3
<1>3. \A r \in Slots : Without(s)[r] \in RequestType
  BY <1>n, <1>1, DataTypes
<1>4. Without(s) = [r \in Slots |-> Without(s)[r]]
  BY DEF Without
<1>5. Without(s) \in [Slots -> RequestType]
  BY <1>3, <1>4
<1> QED
  BY <1>1, <1>2, <1>5

(* A change of the page leaves the requests in flight as they were, but    *)
(* for who waits for them.                                                 *)
LEMMA GoToTypes ==
  ASSUME NEW p, NEW fields \in [Fields -> 0..Edited], NEW requests \in [Slots -> RequestType],
         GoTo(p, fields, requests)
  PROVE  /\ page' = p /\ form' \in [Fields -> 0..Edited]
         /\ request' \in [Slots -> RequestType]
         /\ \A s \in Slots : /\ request'[s].kind = requests[s].kind
                             /\ request'[s].pc = requests[s].pc
                             /\ request'[s].view = requests[s].view
<1>1. page' = p /\ form' \in [Fields -> 0..Edited]
  BY DataTypes DEF GoTo
<1>2. ASSUME NEW s \in Slots
      PROVE  /\ request'[s] \in RequestType
             /\ request'[s].kind = requests[s].kind
             /\ request'[s].pc = requests[s].pc
             /\ request'[s].view = requests[s].view
  <2>1. PICK b \in BOOLEAN :
          request'[s] = [requests[s] EXCEPT !.gone = b]
    <3>1. request'[s] = [requests[s] EXCEPT !.gone =
                           @ \/ requests[s].kind \notin PageKinds(p) \union {"none"}]
      BY DEF GoTo
    <3>2. (requests[s].gone \/ requests[s].kind \notin PageKinds(p) \union {"none"}) \in BOOLEAN
      OBVIOUS
    <3> QED
      BY <3>1, <3>2
  <2>2. requests[s] \in RequestType
    OBVIOUS
  <2> QED
    BY <2>1, <2>2 DEF RequestType
<1>3. request' = [s \in Slots |-> request'[s]]
  BY DEF GoTo
<1> QED
  BY <1>1, <1>2, <1>3

(* An answer has the fields of the form in their types. *)
LEMMA FormTypes ==
  ASSUME TypeOK, NEW s \in Slots
  PROVE  /\ LandedForm(s) \in [Fields -> 0..Edited]
         /\ LandedData(s) \in View
         /\ LandedPage(s) \in {"login", "redeem", "home", "settings"}
<1>1. form \in [Fields -> 0..Edited] /\ request[s] \in RequestType
  BY DEF TypeOK
<1>2. LandedData(s) \in View /\ LandedData(s).account \in [Fields -> 0..Edited]
  BY <1>1, DataTypes DEF LandedData, RequestType, View
<1>3. LandedForm(s) \in [Fields -> 0..Edited]
  BY <1>1, <1>2 DEF LandedForm
<1> QED
  BY <1>2, <1>3 DEF LandedPage, TypeOK

(* The session data change, and the page with them. *)
LEMMA BecomesTypes ==
  ASSUME TypeOK, NEW view \in View, NEW p \in {"login", "redeem", "home", "settings"},
         NEW fields \in [Fields -> 0..Edited], NEW requests \in [Slots -> RequestType],
         Becomes(view, p, fields, requests)
  PROVE  /\ UNCHANGED <<serverVars, faults>> /\ session' = view
         /\ loaded' \in BOOLEAN /\ news' \in BOOLEAN /\ crossed' \in BOOLEAN
         /\ page' = Route(p, view)
         /\ page' \in {"login", "redeem", "home", "settings"}
         /\ SignedIn' <=> page' \in {"home", "settings"}
         /\ form' \in [Fields -> 0..Edited]
         /\ request' \in [Slots -> RequestType]
         /\ \A s \in Slots : /\ request'[s].kind = requests[s].kind
                             /\ request'[s].pc = requests[s].pc
                             /\ request'[s].view = requests[s].view
<1>1. (IF EffectRuns(view) THEN view.account ELSE fields) \in [Fields -> 0..Edited]
  BY DataTypes DEF View
<1>2. PICK fs \in [Fields -> 0..Edited] : GoTo(Route(p, view), fs, requests)
  BY <1>1 DEF Becomes
<1>3. UNCHANGED <<serverVars, faults>> /\ session' = view
      /\ loaded' \in BOOLEAN /\ news' \in BOOLEAN /\ crossed' \in BOOLEAN
  BY DEF Becomes, TypeOK
<1> QED
  BY <1>2, <1>3, GoToTypes, RouteTypes DEF SignedIn

(* Every step keeps the types, action by action. *)
LEMMA NextTypes == TypeOK /\ [Next]_vars => TypeOK'
<1> SUFFICES ASSUME TypeOK, [Next]_vars PROVE TypeOK'
  OBVIOUS
<1>n. MaxSessions \in Nat /\ MaxSessions > 0 /\ MaxChanges \in Nat /\ MaxFaults \in Nat
  BY BoundAssumption
<1>y. /\ cookie \in 0..sessions /\ sessions \in 0..MaxSessions
      /\ account \in Account /\ session \in View
      /\ request \in [Slots -> RequestType]
      /\ form \in [Fields -> 0..Edited]
      /\ \A s \in Slots : request[s] \in RequestType /\ request[s].view \in View
  BY DEF TypeOK, RequestType
<1>k. "logout" \in Kinds /\ Fields \subseteq Kinds /\ SignIns \subseteq Kinds
  BY DEF Kinds
<1>f. ASSUME Fault PROVE faults' \in 0..MaxFaults
  BY <1>f, <1>n DEF Fault, TypeOK
<1>s. ASSUME NEW k \in Kinds, Send(k) PROVE TypeOK'
  <2>1. [NoRequest EXCEPT !.kind = k, !.pc = "asked"] \in RequestType
    BY DataTypes DEF NoRequest, RequestType, States
  <2>2. request' \in [Slots -> RequestType]
    BY <1>s, <1>y, <2>1 DEF Send
  <2> QED
    BY <1>s, <2>2 DEF Send, TypeOK, serverVars, dataVars, homeVars, pageVars, historyVars, SignedIn
<1>v. ASSUME NEW s \in Slots, NEW view \in View, Serve(s, view)
      PROVE  request' \in [Slots -> RequestType]
  BY <1>v, <1>y DEF Serve, RequestType, States
<1>a. ASSUME NEW f \in Fields, ChangeAccount(f)
      PROVE  account' \in Account /\ news' \in BOOLEAN /\ outdated' \in BOOLEAN
  BY <1>a, <1>n, <1>y DEF ChangeAccount, Account, SignedIn, View, TypeOK
<1>1. CASE SignOutPressed
  BY <1>1, <1>k, <1>s DEF SignOutPressed
<1>2. ASSUME NEW k \in SignIns, SignInPressed(k) PROVE TypeOK'
  BY <1>2, <1>k, <1>s DEF SignInPressed
<1>3. ASSUME NEW f \in Fields, SavePressed(f) PROVE TypeOK'
  BY <1>3, <1>k, <1>s DEF SavePressed
<1>4. ASSUME NEW f \in Fields, Edits(f) PROVE TypeOK'
  <2>1. form' \in [Fields -> 0..Edited]
    BY <1>4, <1>n, <1>y DEF Edits, Edited
  <2> QED
    BY <1>4, <2>1 DEF Edits, TypeOK, serverVars, dataVars, homeVars, historyVars, SignedIn
<1>5. ASSUME NEW p \in {"login", "redeem", "home", "settings"}, Opens(p) PROVE TypeOK'
  <2>1. session.account \in [Fields -> 0..Edited]
    BY <1>y, DataTypes DEF View
  <2>2. page' = Route(p, session) /\ form' \in [Fields -> 0..Edited]
        /\ request' \in [Slots -> RequestType]
    BY <1>5, <1>y, <2>1, GoToTypes DEF Opens
  <2> QED
    BY <1>5, <1>y, <2>2, RouteTypes
       DEF Opens, TypeOK, serverVars, dataVars, homeVars, historyVars, SignedIn
<1>6. CASE FetchServed
  <2>1. cookie \in 0..MaxSessions
    BY <1>n, <1>y
  <2>2. (IF cookie = 0 THEN Nobody ELSE [session |-> cookie, account |-> account]) \in View
    BY <1>y, <2>1, DataTypes DEF View
  <2>3. fetch' \in FetchType
    BY <1>6, <2>2 DEF FetchServed, FetchType, States
  <2> QED
    BY <1>6, <2>3
       DEF FetchServed, TypeOK, serverVars, dataVars, homeVars, pageVars, historyVars, SignedIn
<1>7. ASSUME NEW s \in Slots, NEW f \in Fields, SaveServed(s, f) PROVE TypeOK'
  <2>1. account' \in Account /\ news' \in BOOLEAN /\ outdated' \in BOOLEAN
    BY <1>7, <1>a DEF SaveServed
  <2>2. [session |-> cookie, account |-> account'] \in View
    BY <1>n, <1>y, <2>1 DEF View
  <2>3. request' \in [Slots -> RequestType]
    BY <1>7, <1>v, <2>2 DEF SaveServed
  <2> QED
    BY <1>7, <2>1, <2>3 DEF SaveServed, TypeOK, dataVars, homeVars, pageVars, SignedIn
<1>8. ASSUME NEW s \in Slots, NEW k \in SignIns, SignInServed(s, k) PROVE TypeOK'
  <2>1. sessions' \in 0..MaxSessions /\ cookie' \in 0..sessions' /\ cookie' \in 0..MaxSessions
    BY <1>8, <1>n, <1>y DEF SignInServed
  <2>2. [session |-> cookie', account |-> account] \in View
    BY <1>y, <2>1 DEF View
  <2>3. request' \in [Slots -> RequestType]
    BY <1>8, <1>v, <2>2 DEF SignInServed
  <2> QED
    BY <1>8, <2>1, <2>3
       DEF SignInServed, TypeOK, dataVars, homeVars, pageVars, historyVars, SignedIn
<1>9. ASSUME NEW s \in Slots, SignOutServed(s) PROVE TypeOK'
  <2>1. request' \in [Slots -> RequestType]
    BY <1>9, <1>v, DataTypes DEF SignOutServed
  <2> QED
    BY <1>9, <1>n, <1>y, <2>1
       DEF SignOutServed, TypeOK, dataVars, homeVars, pageVars, historyVars, SignedIn
<1>10. CASE SignedOutElsewhere
  BY <1>10, <1>f, <1>n, <1>y DEF SignedOutElsewhere, TypeOK, dataVars, homeVars, pageVars, SignedIn
<1>11. ASSUME NEW f \in Fields, ChangedElsewhere(f) PROVE TypeOK'
  <2>1. account' \in Account /\ news' \in BOOLEAN /\ outdated' \in BOOLEAN
    BY <1>11, <1>a DEF ChangedElsewhere
  <2> QED
    BY <1>11, <2>1 DEF ChangedElsewhere, TypeOK, dataVars, homeVars, pageVars, SignedIn
<1>12. CASE OthersChange
  BY <1>12 DEF OthersChange, TypeOK, serverVars, dataVars, homeVars, pageVars, historyVars, SignedIn
<1>13. CASE Hears
  BY <1>13, DataTypes
     DEF Hears, TypeOK, serverVars, dataVars, homeVars, pageVars, historyVars, SignedIn
<1>14. CASE HomeAsked \/ HomeServed \/ HomeLands
  <2>1. cookie \in 0..MaxSessions /\ homeFetch.session \in 0..MaxSessions
    BY <1>n, <1>y DEF TypeOK, HomeFetchType
  <2>2. home' \in 0..MaxSessions /\ homeFetch' \in HomeFetchType
    <3>1. CASE HomeAsked
      BY <3>1, DataTypes DEF HomeAsked, TypeOK
    <3>2. CASE HomeServed
      BY <3>2, <2>1 DEF HomeServed, HomeFetchType, States, TypeOK
    <3>3. CASE HomeLands
      BY <3>3, <2>1, DataTypes DEF HomeLands, TypeOK
    <3> QED
      BY <1>14, <3>1, <3>2, <3>3
  <2>3. UNCHANGED <<serverVars, dataVars, fetch, request, news, pageVars, historyVars>>
    BY <1>14 DEF HomeAsked, HomeServed, HomeLands
  <2> QED
    BY <2>2, <2>3 DEF TypeOK, serverVars, dataVars, pageVars, historyVars, SignedIn
<1>15. CASE FetchLands
  <2>1. fetch.view \in View /\ page \in {"login", "redeem", "home", "settings"}
    BY DEF TypeOK, FetchType
  <2> QED
    BY <1>15, <1>y, <2>1, BecomesTypes, DataTypes DEF FetchLands, TypeOK, serverVars, homeVars
<1>16. ASSUME NEW s \in Slots, Lands(s) PROVE TypeOK'
  <2>1. PICK rest \in [Slots -> RequestType] :
          Becomes(LandedData(s), LandedPage(s), LandedForm(s), rest)
    BY <1>16, WithoutTypes DEF Lands
  <2>2. home' \in 0..MaxSessions /\ homeFetch' \in HomeFetchType
    BY <1>16, <1>n, DataTypes DEF Lands, HomeRemoved, homeVars, TypeOK
  <2>3. outdated' \in BOOLEAN /\ fetch' \in FetchType
    BY <1>16 DEF Lands, TypeOK
  <2> QED
    BY <2>1, <2>2, <2>3, BecomesTypes, FormTypes DEF TypeOK, serverVars
<1>17. ASSUME NEW s \in Slots, Fails(s) PROVE TypeOK'
  <2>1. faults' \in 0..MaxFaults /\ crossed' \in BOOLEAN
    BY <1>17, <1>f DEF Fails, TypeOK
  <2>2. request' \in [Slots -> RequestType]
    BY <1>17, WithoutTypes DEF Fails
  <2> QED
    BY <1>17, <2>1, <2>2 DEF Fails, TypeOK, serverVars, dataVars, homeVars, pageVars, SignedIn
<1>18. CASE FetchFails
  BY <1>18, <1>f, DataTypes DEF FetchFails, TypeOK, serverVars, homeVars, pageVars, SignedIn
<1>19. CASE UNCHANGED vars
  BY <1>19
     DEF vars, TypeOK, serverVars, dataVars, homeVars, pageVars, historyVars, SignedIn
<1> QED
  BY <1>1, <1>2, <1>3, <1>4, <1>5, <1>6, <1>7, <1>8, <1>9, <1>10, <1>11, <1>12, <1>13, <1>14,
     <1>15, <1>16, <1>17, <1>18, <1>19 DEF Next

(* At first nobody is signed in, in the tab. *)
LEMMA InitTypes == Init => TypeOK
<1> SUFFICES ASSUME Init PROVE TypeOK
  OBVIOUS
<1>1. MaxSessions \in Nat /\ MaxSessions > 0 /\ MaxFaults \in Nat
  BY BoundAssumption
<1>2. cookie \in 0..sessions /\ sessions \in 0..MaxSessions /\ faults \in 0..MaxFaults
      /\ home \in 0..MaxSessions
  BY <1>1 DEF Init
<1>3. ~SignedIn
  BY DEF Init, SignedIn, Nobody
<1>4. request \in [Slots -> RequestType] /\ fetch \in FetchType /\ homeFetch \in HomeFetchType
  BY DataTypes DEF Init
<1> QED
  BY <1>2, <1>3, <1>4, DataTypes DEF Init, TypeOK

(* In every behaviour every variable has its type, and the page on show is *)
(* one of the half of the routes that the session data selects.            *)
THEOREM TypeCorrect == Spec => []TypeOK
  BY InitTypes, NextTypes, PTL DEF Spec
----------------------------------------------------------------------------
(* The form *)

(* A field shows the session data or an edit, and the fields are there on  *)
(* the settings page only.                                                 *)
FormInv == FormFollows /\ (page # "settings" => form = Fresh)

(* An edit is nothing the account can hold. *)
LEMMA EditIsNew == \A a \in Account, f \in Fields : a[f] # Edited /\ Fresh[f] # Edited
  BY BoundAssumption DEF Account, Edited, Fresh

(* What the session data make of the form of the settings page: both its   *)
(* fields follow when either changed.                                      *)
LEMMA FormBecomes ==
  ASSUME NEW view \in View, NEW p \in {"login", "redeem", "home", "settings"},
         NEW fields, NEW requests, Becomes(view, p, fields, requests)
  PROVE  /\ session' = view
         /\ page' # "settings" => form' = Fresh
         /\ page' = "settings" =>
              /\ p = "settings"
              /\ form' = IF view.account # session.account THEN view.account ELSE fields
<1>1. session' = view /\ page' = Route(p, view)
  BY DEF Becomes, GoTo
<1>2. form' = IF page' = "settings" THEN (IF EffectRuns(view) THEN view.account ELSE fields)
                                    ELSE Fresh
  BY <1>1 DEF Becomes, GoTo
<1> QED
  BY <1>1, <1>2, RouteTypes DEF EffectRuns

(* What an answer makes of it: a save sets its own field, while its page is *)
(* on show.                                                                *)
LEMMA FormLands ==
  ASSUME TypeOK, FormInv, NEW s \in Slots, Lands(s), page' = "settings"
  PROVE  /\ page = "settings"
         /\ \A f \in Fields :
              form'[f] = IF session'.account # session.account \/ Waits(s, f)
                           THEN session'.account[f] ELSE form[f]
<1>1. LandedData(s) \in View /\ LandedPage(s) \in {"login", "redeem", "home", "settings"}
  BY FormTypes
<1>2. Becomes(LandedData(s), LandedPage(s), LandedForm(s), Without(s))
  BY DEF Lands
<1>3. /\ session' = LandedData(s) /\ LandedPage(s) = "settings"
      /\ form' = IF session'.account # session.account THEN session'.account ELSE LandedForm(s)
  BY <1>1, <1>2, FormBecomes
<1>4. page = "settings"
  BY <1>3 DEF LandedPage
<1>5. form \in [Fields -> 0..Edited]
  BY DEF TypeOK
<1>6. ASSUME NEW f \in Fields
      PROVE  LandedForm(s)[f] = IF Waits(s, f) THEN LandedData(s).account[f] ELSE form[f]
  BY <1>5 DEF LandedForm, Waits
<1> QED
  BY <1>3, <1>4, <1>6

(* Every step keeps the fields with the data. *)
LEMMA NextForm == TypeOK /\ FormInv /\ [Next]_vars => FormInv'
<1> SUFFICES ASSUME TypeOK, FormInv, [Next]_vars PROVE FormInv'
  OBVIOUS
<1>s. ASSUME UNCHANGED <<session, page, form>> PROVE FormInv'
  BY <1>s DEF FormInv, FormFollows
<1>1. ASSUME NEW s \in Slots, Lands(s) PROVE FormInv'
  <2>1. page' # "settings" => form' = Fresh
    BY <1>1, FormTypes, FormBecomes DEF Lands
  <2>2. ASSUME page' = "settings", NEW f \in Fields
        PROVE  form'[f] \in {session'.account[f], Edited}
    BY <1>1, <2>2, FormLands DEF FormInv, FormFollows
  <2> QED
    BY <2>1, <2>2 DEF FormInv, FormFollows
<1>2. CASE FetchLands
  <2>1. fetch.view \in View /\ page \in {"login", "redeem", "home", "settings"}
    BY DEF TypeOK, FetchType
  <2>2. /\ page' # "settings" => form' = Fresh
        /\ page' = "settings" =>
             /\ page = "settings"
             /\ form' = IF session'.account # session.account THEN session'.account ELSE form
    BY <1>2, <2>1, FormBecomes DEF FetchLands
  <2> QED
    BY <2>2 DEF FormInv, FormFollows
<1>3. ASSUME NEW p \in {"login", "redeem", "home", "settings"}, Opens(p) PROVE FormInv'
  BY <1>3 DEF Opens, GoTo, FormInv, FormFollows, dataVars
<1>4. ASSUME NEW f \in Fields, Edits(f) PROVE FormInv'
  BY <1>4 DEF Edits, FormInv, FormFollows, TypeOK, dataVars
<1>5. CASE \/ SignOutPressed \/ SignedOutElsewhere \/ OthersChange
           \/ FetchServed \/ FetchFails \/ Hears \/ HomeAsked \/ HomeServed \/ HomeLands
  BY <1>5, <1>s DEF SignOutPressed, Send, SignedOutElsewhere, OthersChange, FetchServed,
     FetchFails, Hears, HomeAsked, HomeServed, HomeLands, dataVars, pageVars
<1>6. ASSUME NEW k \in SignIns, SignInPressed(k) PROVE FormInv'
  BY <1>6, <1>s DEF SignInPressed, Send, dataVars, pageVars
<1>7. ASSUME NEW f \in Fields, SavePressed(f) \/ ChangedElsewhere(f) PROVE FormInv'
  BY <1>7, <1>s DEF SavePressed, Send, ChangedElsewhere, dataVars, pageVars
<1>8. ASSUME NEW s \in Slots, SignOutServed(s) \/ Fails(s) PROVE FormInv'
  BY <1>8, <1>s DEF SignOutServed, Fails, dataVars, pageVars
<1>9. ASSUME NEW s \in Slots, NEW k \in SignIns, SignInServed(s, k) PROVE FormInv'
  BY <1>9, <1>s DEF SignInServed, dataVars, pageVars
<1>10. ASSUME NEW s \in Slots, NEW f \in Fields, SaveServed(s, f) PROVE FormInv'
  BY <1>10, <1>s DEF SaveServed, dataVars, pageVars
<1>11. CASE UNCHANGED vars
  BY <1>11, <1>s DEF vars, dataVars, pageVars
<1> QED
  BY <1>1, <1>2, <1>3, <1>4, <1>5, <1>6, <1>7, <1>8, <1>9, <1>10, <1>11 DEF Next

(* The login page is on show at first. *)
LEMMA InitForm == Init => FormInv
  BY DEF Init, FormInv, FormFollows

(* A field that was not edited shows what the session data say, whichever  *)
(* way they came.                                                          *)
THEOREM FormShowsData == Spec => []FormFollows
<1>1. TypeOK /\ FormInv /\ [Next]_vars => (TypeOK /\ FormInv)'
  BY NextTypes, NextForm
<1>2. FormInv => FormFollows
  BY DEF FormInv
<1> QED
  BY InitTypes, InitForm, <1>1, <1>2, PTL DEF Spec

(* Losing an edit takes a save of it by this page, leaving the page, or new *)
(* data.                                                                   *)
EditStep ==
  \A f \in Fields :
    form[f] = Edited /\ form'[f] # Edited
    => \/ page' # "settings"
       \/ \E s \in Slots : Waits(s, f) /\ Lands(s)
       \/ session'.account # session.account

(* No step loses an edit in another way. *)
LEMMA NextEdits == TypeOK /\ FormInv /\ [Next]_vars => EditStep
<1> SUFFICES ASSUME TypeOK, FormInv, [Next]_vars,
                    NEW f \in Fields, form[f] = Edited, form'[f] # Edited, page' = "settings",
                    session'.account = session.account
             PROVE  \E s \in Slots : Waits(s, f) /\ Lands(s)
  BY DEF EditStep
<1>0. page = "settings"
  BY BoundAssumption DEF FormInv, Fresh, Edited
<1>s. form' # form
  OBVIOUS
<1>1. ASSUME NEW s \in Slots, Lands(s) PROVE Waits(s, f)
  BY <1>1, FormLands
<1>2. CASE FetchLands
  <2>1. fetch.view \in View /\ page \in {"login", "redeem", "home", "settings"}
    BY DEF TypeOK, FetchType
  <2>2. form' = form
    BY <1>2, <2>1, FormBecomes DEF FetchLands
  <2> QED
    BY <1>s, <2>2
<1>3. ASSUME NEW p \in {"login", "redeem", "home", "settings"}, Opens(p) PROVE FALSE
  BY <1>0, <1>3 DEF Opens, GoTo, dataVars
<1>4. ASSUME NEW g \in Fields, Edits(g) PROVE FALSE
  BY <1>4 DEF Edits, TypeOK
<1>5. CASE \/ SignOutPressed \/ SignedOutElsewhere \/ OthersChange
           \/ FetchServed \/ FetchFails \/ Hears \/ HomeAsked \/ HomeServed \/ HomeLands
  BY <1>5, <1>s DEF SignOutPressed, Send, SignedOutElsewhere, OthersChange, FetchServed,
     FetchFails, Hears, HomeAsked, HomeServed, HomeLands, dataVars, pageVars
<1>6. ASSUME NEW k \in SignIns, SignInPressed(k) PROVE FALSE
  BY <1>6, <1>s DEF SignInPressed, Send, dataVars, pageVars
<1>7. ASSUME NEW g \in Fields, SavePressed(g) \/ ChangedElsewhere(g) PROVE FALSE
  BY <1>7, <1>s DEF SavePressed, Send, ChangedElsewhere, dataVars, pageVars
<1>8. ASSUME NEW s \in Slots, SignOutServed(s) \/ Fails(s) PROVE FALSE
  BY <1>8, <1>s DEF SignOutServed, Fails, dataVars, pageVars
<1>9. ASSUME NEW s \in Slots, NEW k \in SignIns, SignInServed(s, k) PROVE FALSE
  BY <1>9, <1>s DEF SignInServed, dataVars, pageVars
<1>10. ASSUME NEW s \in Slots, NEW g \in Fields, SaveServed(s, g) PROVE FALSE
  BY <1>10, <1>s DEF SaveServed, dataVars, pageVars
<1>11. CASE UNCHANGED vars
  BY <1>11, <1>s DEF vars, dataVars, pageVars
<1> QED
  BY <1>1, <1>2, <1>3, <1>4, <1>5, <1>6, <1>7, <1>8, <1>9, <1>10, <1>11 DEF Next

(* An edit is lost only when its page's save of it is answered, the page is *)
(* left, or the name or picture in the session data changed.               *)
THEOREM EditIsKept == Spec => EditKept
<1>1. TypeOK /\ FormInv /\ [Next]_vars => (TypeOK /\ FormInv)'
  BY NextTypes, NextForm
<1>2. TypeOK /\ FormInv /\ [Next]_vars => [EditStep]_vars
  BY NextEdits
<1>3. Spec => [][EditStep]_vars
  BY InitTypes, InitForm, <1>1, <1>2, PTL DEF Spec
<1> QED
  BY <1>3 DEF EditKept, EditStep

----------------------------------------------------------------------------
(* The session and the home view *)

Signing == SignIns \union {"logout"}

Served(s) == request[s].pc = "served"

(* A sign-in or sign-out is served and not yet answered. *)
SignServed(s) == Served(s) /\ request[s].kind \in Signing

(* What sign-ins and sign-outs answer, and what is there of a request. *)
SignViews ==
  \A s \in Slots :
    /\ request[s].kind = "none" => ~Served(s)
    /\ SignServed(s) => (request[s].kind = "logout" <=> request[s].view.session = 0)

(* Sign-ins come of a tab where nobody is signed in, the others end the    *)
(* session there is.                                                       *)
Sides ==
  \A s \in Slots : /\ request[s].kind = "logout" => SignedIn
                   /\ request[s].kind \in SignIns => ~SignedIn

(* While none of them is served, the data, the fetch and the answers to    *)
(* saves are of the cookie's session.                                      *)
Settled ==
  (\A s \in Slots : ~SignServed(s))
  => /\ SignedIn => session.session = cookie
     /\ fetch.pc = "served" => fetch.view.session = cookie
     /\ \A s \in Slots : Served(s) => request[s].view.session = cookie

(* While some are, one of them made the cookie's session. *)
Unsettled ==
  (\E s \in Slots : SignServed(s))
  => \E s \in Slots : SignServed(s) /\ request[s].view.session = cookie

(* The home view is that of the data, and so is the one on its way. *)
HomeOwn ==
  /\ home \in {0, session.session}
  /\ homeFetch.pc # "none" => SignedIn
  /\ homeFetch.pc = "served" => homeFetch.session = session.session

(* All this until something crosses a sign-in or sign-out. *)
OwnSession == ~crossed => Sides /\ Settled /\ Unsettled /\ HomeOwn

OwnInv == SignViews /\ OwnSession

(* Nothing that it speaks of changes. *)
LEMMA OwnSteady ==
  ASSUME OwnInv, UNCHANGED <<cookie, session, request, fetch, home, homeFetch>>,
         ~crossed' => ~crossed
  PROVE  OwnInv'
  BY DEF OwnInv, SignViews, OwnSession, Sides, Settled, Unsettled, HomeOwn, SignServed, Served,
     SignedIn

(* Requests are relabelled as they are left behind by a page, and nothing  *)
(* else changes.                                                           *)
LEMMA OwnRelabelled ==
  ASSUME OwnInv, UNCHANGED <<cookie, session, fetch, home, homeFetch, crossed>>,
         \A s \in Slots : /\ request'[s].kind = request[s].kind
                          /\ request'[s].pc = request[s].pc
                          /\ request'[s].view = request[s].view
  PROVE  OwnInv'
<1>1. \A s \in Slots : (SignServed(s)' <=> SignServed(s)) /\ (Served(s)' <=> Served(s))
  BY DEF SignServed, Served
<1> QED
  BY <1>1 DEF OwnInv, SignViews, OwnSession, Sides, Settled, Unsettled, HomeOwn, SignedIn

(* The fetch is asked for again, is served or fails. *)
LEMMA OwnFetch ==
  ASSUME OwnInv, UNCHANGED <<cookie, session, request, home, homeFetch, crossed>>,
         fetch'.pc = "served" => fetch'.view.session = cookie
  PROVE  OwnInv'
  BY DEF OwnInv, SignViews, OwnSession, Sides, Settled, Unsettled, HomeOwn, SignServed, Served,
     SignedIn

(* A request is sent. *)
LEMMA OwnSent ==
  ASSUME TypeOK, OwnInv, NEW k \in Kinds, Send(k),
         k = "logout" => SignedIn, k \in SignIns => ~SignedIn
  PROVE  OwnInv'
<1>1. PICK s \in Slots :
        /\ ~InFlight(s)
        /\ request' = [request EXCEPT ![s] = [NoRequest EXCEPT !.kind = k, !.pc = "asked"]]
  BY DEF Send
<1>2. UNCHANGED <<cookie, session, fetch, home, homeFetch, crossed>>
  BY DEF Send, serverVars, dataVars, homeVars, historyVars
<1>3. request'[s].kind = k /\ request'[s].pc = "asked"
      /\ \A r \in Slots \ {s} : request'[r] = request[r]
  BY <1>1 DEF TypeOK, NoRequest
<1>4. request[s].kind = "none" /\ request[s].pc = "none"
  BY <1>1 DEF InFlight, NoRequest
<1>5. ~Served(s) /\ ~Served(s)' /\ \A r \in Slots \ {s} : Served(r)' <=> Served(r)
  BY <1>3, <1>4 DEF Served
<1>6. \A r \in Slots : SignServed(r)' <=> SignServed(r)
  BY <1>3, <1>5 DEF SignServed
<1>7. k # "none"
  BY BoundAssumption DEF Kinds, Fields
<1>8. SignViews'
  <2>1. ASSUME NEW r \in Slots \ {s}
        PROVE  /\ request'[r].kind = "none" => ~Served(r)'
               /\ SignServed(r)' => (request'[r].kind = "logout" <=> request'[r].view.session = 0)
    BY <1>3, <1>5, <1>6 DEF OwnInv, SignViews
  <2>2. ~SignServed(s)'
    BY <1>5 DEF SignServed
  <2> QED
    BY <1>5, <2>1, <2>2 DEF SignViews
<1>9. ASSUME ~crossed PROVE (Sides /\ Settled /\ Unsettled /\ HomeOwn)'
  <2>1. Sides'
    BY <1>2, <1>3, <1>9 DEF OwnInv, OwnSession, Sides, SignedIn
  <2>2. Settled'
    BY <1>2, <1>3, <1>5, <1>6, <1>9 DEF OwnInv, OwnSession, Settled, SignedIn
  <2>3. Unsettled'
    BY <1>2, <1>3, <1>5, <1>6, <1>9 DEF OwnInv, OwnSession, Unsettled, SignServed
  <2>4. HomeOwn'
    BY <1>2, <1>9 DEF OwnInv, OwnSession, HomeOwn, SignedIn
  <2> QED
    BY <2>1, <2>2, <2>3, <2>4
<1> QED
  BY <1>2, <1>8, <1>9 DEF OwnInv, OwnSession

(* A request is served. *)
LEMMA ServeTypes ==
  ASSUME TypeOK, NEW s \in Slots, NEW view \in View, Serve(s, view)
  PROVE  /\ request'[s].kind = request[s].kind /\ request'[s].pc = "served"
         /\ request'[s].view = view
         /\ \A r \in Slots \ {s} : request'[r] = request[r]
  BY DEF TypeOK, Serve, RequestType

(* A save is served: it answers for the session of the cookie. *)
LEMMA OwnSaved ==
  ASSUME TypeOK, OwnInv, NEW s \in Slots, request[s].kind \in Fields, request[s].pc = "asked",
         NEW view \in View, Serve(s, view), view.session = cookie,
         UNCHANGED <<cookie, session, fetch, home, homeFetch, crossed>>
  PROVE  OwnInv'
<1>1. /\ request'[s].kind = request[s].kind /\ request'[s].pc = "served"
      /\ request'[s].view = view
      /\ \A r \in Slots \ {s} : request'[r] = request[r]
  BY ServeTypes
<1>2. request[s].kind \notin Signing /\ request[s].kind # "none"
  BY BoundAssumption DEF Signing, Fields
<1>3. \A r \in Slots : SignServed(r)' <=> SignServed(r)
  BY <1>1, <1>2 DEF SignServed, Served
<1>4. \A r \in Slots : request'[r].kind = request[r].kind
  BY <1>1
<1>5. SignViews'
  BY <1>1, <1>2, <1>3 DEF OwnInv, SignViews, Served, SignServed
<1>6. ASSUME ~crossed PROVE (Sides /\ Settled /\ Unsettled /\ HomeOwn)'
  <2>1. Sides'
    BY <1>4, <1>6 DEF OwnInv, OwnSession, Sides, SignedIn
  <2>2. Settled'
    BY <1>1, <1>3, <1>6 DEF OwnInv, OwnSession, Settled, SignedIn, Served
  <2>3. Unsettled'
    <3>1. \A r \in Slots : SignServed(r) => request'[r] = request[r]
      BY <1>1, <1>2 DEF SignServed
    <3> QED
      BY <1>3, <1>6, <3>1 DEF OwnInv, OwnSession, Unsettled
  <2>4. HomeOwn'
    BY <1>6 DEF OwnInv, OwnSession, HomeOwn, SignedIn
  <2> QED
    BY <2>1, <2>2, <2>3, <2>4
<1> QED
  BY <1>5, <1>6 DEF OwnInv, OwnSession

(* A sign-in or sign-out is served: the cookie becomes that of its answer. *)
LEMMA OwnSigned ==
  ASSUME TypeOK, OwnInv, NEW s \in Slots, request[s].kind \in Signing, request[s].pc = "asked",
         NEW view \in View, Serve(s, view), cookie' = view.session,
         request[s].kind = "logout" <=> view.session = 0,
         UNCHANGED <<session, fetch, home, homeFetch, crossed>>
  PROVE  OwnInv'
<1>1. /\ request'[s].kind = request[s].kind /\ request'[s].pc = "served"
      /\ request'[s].view = view
      /\ \A r \in Slots \ {s} : request'[r] = request[r]
  BY ServeTypes
<1>2. request[s].kind # "none"
  BY BoundAssumption DEF Signing
<1>3. \A r \in Slots : request'[r].kind = request[r].kind
  BY <1>1
<1>4. SignServed(s)' /\ request'[s].view.session = cookie'
  BY <1>1 DEF SignServed, Served
<1>5. SignViews'
  BY <1>1, <1>2 DEF OwnInv, SignViews, Served, SignServed
<1>6. Settled' /\ Unsettled'
  BY <1>4 DEF Settled, Unsettled
<1>7. ~crossed => Sides' /\ HomeOwn'
  BY <1>3 DEF OwnInv, OwnSession, Sides, HomeOwn, SignedIn
<1> QED
  BY <1>5, <1>6, <1>7 DEF OwnInv, OwnSession

(* When a request is gone, what is there of the others is what was. *)
LEMMA RestTypes ==
  ASSUME TypeOK, NEW s \in Slots,
         \A r \in Slots : /\ request'[r].kind = Without(s)[r].kind
                          /\ request'[r].pc = Without(s)[r].pc
                          /\ request'[r].view = Without(s)[r].view
  PROVE  /\ \A r \in Slots :
              \/ request'[r].kind = "none" /\ request'[r].pc = "none"
              \/ \E q \in Slots \ {s} : /\ request'[r].kind = request[q].kind
                                        /\ request'[r].pc = request[q].pc
                                        /\ request'[r].view = request[q].view
         /\ \A q \in Slots \ {s} : \E r \in Slots : /\ request'[r].kind = request[q].kind
                                                    /\ request'[r].pc = request[q].pc
                                                    /\ request'[r].view = request[q].view
<1>1. ASSUME NEW r \in Slots
      PROVE  \/ request'[r].kind = "none" /\ request'[r].pc = "none"
             \/ \E q \in Slots \ {s} : /\ request'[r].kind = request[q].kind
                                       /\ request'[r].pc = request[q].pc
                                       /\ request'[r].view = request[q].view
  <2>1. CASE Without(s)[r] = NoRequest
    BY <2>1, DataTypes
  <2>2. ASSUME NEW q \in Slots \ {s}, Without(s)[r] = request[q]
        PROVE  /\ request'[r].kind = request[q].kind
               /\ request'[r].pc = request[q].pc
               /\ request'[r].view = request[q].view
    BY <2>2
  <2> QED
    BY <2>1, <2>2, WithoutTypes
<1>2. ASSUME NEW q \in Slots \ {s}
      PROVE  \E r \in Slots : /\ request'[r].kind = request[q].kind
                              /\ request'[r].pc = request[q].pc
                              /\ request'[r].view = request[q].view
  <2>1. PICK r \in Slots : Without(s)[r] = request[q]
    BY WithoutTypes
  <2> QED
    BY <2>1
<1> QED
  BY <1>1, <1>2

(* What sign-ins and sign-outs answer stays so when a request is gone. *)
LEMMA RestViews ==
  ASSUME TypeOK, OwnInv, NEW s \in Slots,
         \A r \in Slots : /\ request'[r].kind = Without(s)[r].kind
                          /\ request'[r].pc = Without(s)[r].pc
                          /\ request'[r].view = Without(s)[r].view
  PROVE  SignViews'
<1> SUFFICES ASSUME NEW r \in Slots
             PROVE  /\ request'[r].kind = "none" => request'[r].pc # "served"
                    /\ request'[r].pc = "served" /\ request'[r].kind \in Signing
                       => (request'[r].kind = "logout" <=> request'[r].view.session = 0)
  BY DEF SignViews, SignServed, Served
<1>1. CASE request'[r].kind = "none" /\ request'[r].pc = "none"
  BY <1>1
<1>2. ASSUME NEW q \in Slots \ {s}, request'[r].kind = request[q].kind,
             request'[r].pc = request[q].pc, request'[r].view = request[q].view
      PROVE  /\ request'[r].kind = "none" => request'[r].pc # "served"
             /\ request'[r].pc = "served" /\ request'[r].kind \in Signing
                => (request'[r].kind = "logout" <=> request'[r].view.session = 0)
  BY <1>2 DEF OwnInv, SignViews, SignServed, Served
<1> QED
  BY <1>1, <1>2, RestTypes

(* A request that is not a served sign-in or sign-out goes without changing *)
(* who the data say is signed in.                                          *)
LEMMA OwnGone ==
  ASSUME TypeOK, OwnInv, NEW s \in Slots, ~SignServed(s),
         \A r \in Slots : /\ request'[r].kind = Without(s)[r].kind
                          /\ request'[r].pc = Without(s)[r].pc
                          /\ request'[r].view = Without(s)[r].view,
         session'.session = session.session,
         UNCHANGED <<cookie, fetch, home, homeFetch>>, ~crossed' => ~crossed
  PROVE  OwnInv'
<1>1. /\ \A r \in Slots :
           \/ request'[r].kind = "none" /\ request'[r].pc = "none"
           \/ \E q \in Slots \ {s} : /\ request'[r].kind = request[q].kind
                                     /\ request'[r].pc = request[q].pc
                                     /\ request'[r].view = request[q].view
      /\ \A q \in Slots \ {s} : \E r \in Slots : /\ request'[r].kind = request[q].kind
                                                 /\ request'[r].pc = request[q].pc
                                                 /\ request'[r].view = request[q].view
  BY RestTypes
<1>2. SignViews'
  BY RestViews
<1>3. SUFFICES ASSUME ~crossed' PROVE (Sides /\ Settled /\ Unsettled /\ HomeOwn)'
  BY <1>2 DEF OwnInv, OwnSession
<1>4. Sides /\ Settled /\ Unsettled /\ HomeOwn
  BY <1>3 DEF OwnInv, OwnSession
<1>5. "none" # "logout" /\ "none" \notin SignIns
  BY BoundAssumption
<1>6. Sides'
  BY <1>1, <1>4, <1>5 DEF Sides, SignedIn
<1>7. ASSUME \A r \in Slots : ~SignServed(r)' PROVE \A q \in Slots : ~SignServed(q)
  BY <1>1, <1>7 DEF SignServed, Served
<1>8. Settled'
  BY <1>1, <1>4, <1>7 DEF Settled, Served, SignedIn
<1>9. Unsettled'
  <2> SUFFICES ASSUME NEW r \in Slots, SignServed(r)'
               PROVE  \E q \in Slots : SignServed(q)' /\ request'[q].view.session = cookie
    BY DEF Unsettled
  <2>1. \E q \in Slots : SignServed(q)
    BY <1>1 DEF SignServed, Served, Signing
  <2>2. PICK q \in Slots : SignServed(q) /\ request[q].view.session = cookie
    BY <1>4, <2>1 DEF Unsettled
  <2>3. q # s
    BY <2>2
  <2>4. PICK t \in Slots : /\ request'[t].kind = request[q].kind
                           /\ request'[t].pc = request[q].pc
                           /\ request'[t].view = request[q].view
    BY <1>1, <2>3
  <2> QED
    BY <2>2, <2>4 DEF SignServed, Served
<1>10. HomeOwn'
  BY <1>4 DEF HomeOwn, SignedIn
<1> QED
  BY <1>6, <1>8, <1>9, <1>10

(* The data change hands while nothing else is in flight: to the cookie's  *)
(* session, with no home view on its way.                                  *)
LEMMA OwnChanges ==
  ASSUME OwnInv, SignViews', session'.session = cookie, cookie' = cookie,
         home' = 0, homeFetch'.pc = "none", fetch'.pc = "none",
         \A r \in Slots : request'[r].kind = "none"
  PROVE  OwnInv'
<1>1. \A r \in Slots : ~Served(r)' /\ ~SignServed(r)'
  BY DEF SignViews, SignServed, Served
<1>2. "none" # "logout" /\ "none" \notin SignIns
  BY BoundAssumption
<1> QED
  BY <1>1, <1>2 DEF OwnInv, OwnSession, Sides, Settled, Unsettled, HomeOwn

(* The answer to the session's fetch: while no sign-in or sign-out is      *)
(* served it is of the cookie's session, and while one is, either the data *)
(* stay of the session they are or it crosses that one.                    *)
LEMMA OwnFetched ==
  ASSUME TypeOK, TypeOK', OwnInv, FetchLands
  PROVE  OwnInv'
<1>1. fetch.view \in View /\ page \in {"login", "redeem", "home", "settings"}
      /\ form \in [Fields -> 0..Edited] /\ request \in [Slots -> RequestType]
  BY DEF TypeOK, FetchType
<1>2. Becomes(fetch.view, page, form, request) /\ fetch' = NoFetch /\ fetch'.pc = "none"
      /\ fetch.pc = "served" /\ UNCHANGED <<home, homeFetch>>
  BY DataTypes DEF FetchLands, homeVars
<1>3. /\ cookie' = cookie /\ session' = fetch.view
      /\ \A s \in Slots : /\ request'[s].kind = request[s].kind
                          /\ request'[s].pc = request[s].pc
                          /\ request'[s].view = request[s].view
  BY <1>1, <1>2, BecomesTypes DEF serverVars
<1>4. \A s \in Slots : (SignServed(s)' <=> SignServed(s)) /\ (Served(s)' <=> Served(s))
  BY <1>3 DEF SignServed, Served
<1>5. SignViews'
  BY <1>3, <1>4 DEF OwnInv, SignViews
<1>6. CASE crossed'
  BY <1>5, <1>6 DEF OwnInv, OwnSession
<1>7. CASE ~crossed' /\ session'.session = session.session
  <2>1. ~crossed
    BY <1>2, <1>7 DEF Becomes
  <2>2. Sides' /\ Unsettled' /\ HomeOwn'
    BY <1>2, <1>3, <1>4, <1>7, <2>1
       DEF OwnInv, OwnSession, Sides, Unsettled, HomeOwn, SignedIn
  <2>3. Settled'
    BY <1>2, <1>3, <1>4, <1>7, <2>1 DEF OwnInv, OwnSession, Settled, SignedIn
  <2> QED
    BY <1>5, <2>2, <2>3 DEF OwnInv, OwnSession
<1>8. CASE ~crossed' /\ session'.session # session.session
  <2>1. ~crossed /\ \A s \in Slots : request[s] = NoRequest
    BY <1>2, <1>3, <1>8 DEF Becomes
  <2>2. \A s \in Slots : ~Served(s) /\ ~SignServed(s) /\ request[s].kind = "none"
    BY <2>1, DataTypes DEF SignServed, Served
  <2>3. session'.session = cookie /\ (SignedIn => session.session = cookie)
    BY <1>2, <1>3, <2>1, <2>2 DEF OwnInv, OwnSession, Settled
  <2>4. ~SignedIn
    BY <1>8, <2>3
  <2>5. session.session = 0
    BY <2>4, BoundAssumption DEF SignedIn, TypeOK, View
  <2>6. home' = 0 /\ homeFetch'.pc = "none"
    <3>1. home = 0 /\ ~(homeFetch.pc # "none")
      BY <2>1, <2>4, <2>5 DEF OwnInv, OwnSession, HomeOwn
    <3> QED
      BY <1>2, <3>1
  <2> QED
    BY <1>2, <1>3, <1>5, <2>2, <2>3, <2>6, OwnChanges
<1> QED
  BY <1>6, <1>7, <1>8

(* An answer lands.  A sign-in or sign-out changes the session in the data, *)
(* so it crosses whatever else is in flight; a save's answer is of the     *)
(* cookie's session, or crosses a sign-in or sign-out.                     *)
LEMMA OwnLands ==
  ASSUME TypeOK, TypeOK', OwnInv, NEW s \in Slots, Lands(s)
  PROVE  OwnInv'
<1>1. /\ request[s].pc = "served" /\ UNCHANGED fetch
      /\ Becomes(LandedData(s), LandedPage(s), LandedForm(s), Without(s))
      /\ IF request[s].kind = "logout" THEN HomeRemoved ELSE UNCHANGED <<home, homeFetch>>
  BY DEF Lands, homeVars
<1>2. /\ cookie' = cookie /\ session' = request[s].view
      /\ \A r \in Slots : /\ request'[r].kind = Without(s)[r].kind
                          /\ request'[r].pc = Without(s)[r].pc
                          /\ request'[r].view = Without(s)[r].view
  <2>1. /\ LandedForm(s) \in [Fields -> 0..Edited] /\ LandedData(s) \in View
        /\ LandedPage(s) \in {"login", "redeem", "home", "settings"}
    BY FormTypes
  <2>2. Without(s) \in [Slots -> RequestType]
    BY WithoutTypes
  <2> QED
    BY <1>1, <2>1, <2>2, BecomesTypes DEF serverVars, LandedData
<1>3. SignViews'
  BY <1>2, RestViews
<1>4. Served(s)
  BY <1>1 DEF Served
<1>5. session.session \in Nat /\ session'.session \in Nat
  BY BoundAssumption DEF TypeOK, View
<1>6. CASE crossed'
  BY <1>3, <1>6 DEF OwnInv, OwnSession
<1>7. ASSUME ~crossed', SignServed(s) PROVE session'.session # session.session
  <2>1. ~crossed
    BY <1>1, <1>7 DEF Becomes
  <2>2. Sides /\ SignViews
    BY <2>1 DEF OwnInv, OwnSession
  <2>3. CASE request[s].kind = "logout"
    BY <1>2, <1>5, <1>7, <2>2, <2>3 DEF Sides, SignViews, SignedIn
  <2>4. CASE request[s].kind \in SignIns
    <3>1. request[s].kind # "logout"
      BY <2>4, BoundAssumption
    <3> QED
      BY <1>2, <1>5, <1>7, <2>2, <2>4, <3>1 DEF Sides, SignViews, SignedIn
  <2> QED
    BY <1>7, <2>3, <2>4 DEF SignServed, Signing
<1>8. CASE ~crossed' /\ session'.session = session.session
  <2>1. ~crossed /\ ~SignServed(s)
    BY <1>1, <1>7, <1>8 DEF Becomes
  <2>2. request[s].kind # "logout"
    BY <1>4, <2>1 DEF SignServed, Signing
  <2> QED
    BY <1>1, <1>2, <1>8, <2>1, <2>2, OwnGone
<1>9. CASE ~crossed' /\ session'.session # session.session
  <2>1. ~crossed /\ fetch' = NoFetch /\ \A r \in Slots : Without(s)[r] = NoRequest
    BY <1>1, <1>2, <1>9 DEF Becomes
  <2>2. \A r \in Slots \ {s} : request[r] = NoRequest
    BY <2>1, WithoutTypes
  <2>3. \A r \in Slots \ {s} : ~SignServed(r)
    BY <2>2, DataTypes DEF SignServed, Served
  <2>4. Sides /\ Settled /\ Unsettled /\ HomeOwn
    BY <2>1 DEF OwnInv, OwnSession
  <2>5. session'.session = cookie
    <3>1. CASE SignServed(s)
      BY <1>2, <2>3, <2>4, <3>1 DEF Unsettled
    <3>2. CASE ~SignServed(s)
      <4>1. \A r \in Slots : ~SignServed(r)
        BY <2>3, <3>2
      <4> QED
        BY <1>2, <1>4, <2>4, <4>1 DEF Settled
    <3> QED
      BY <3>1, <3>2
  <2>6. home' = 0 /\ homeFetch'.pc = "none"
    <3>1. CASE request[s].kind = "logout"
      BY <1>1, <3>1, DataTypes DEF HomeRemoved
    <3>2. CASE request[s].kind # "logout"
      <4>1. ~SignedIn
        <5>1. CASE SignServed(s)
          BY <2>4, <3>2, <5>1 DEF Sides, SignServed, Signing
        <5>2. CASE ~SignServed(s)
          <6>1. \A r \in Slots : ~SignServed(r)
            BY <2>3, <5>2
          <6> QED
            BY <1>9, <2>4, <2>5, <6>1 DEF Settled
        <5> QED
          BY <5>1, <5>2
      <4>2. session.session = 0
        BY <1>5, <4>1 DEF SignedIn
      <4>3. home = 0 /\ ~(homeFetch.pc # "none")
        BY <2>4, <4>1, <4>2 DEF HomeOwn
      <4> QED
        BY <1>1, <3>2, <4>3
    <3> QED
      BY <3>1, <3>2
  <2>7. \A r \in Slots : request'[r].kind = "none"
    BY <1>2, <2>1, DataTypes
  <2> QED
    BY <1>2, <1>3, <2>1, <2>5, <2>6, <2>7, OwnChanges, DataTypes
<1> QED
  BY <1>6, <1>8, <1>9

(* The home view that is served is that of the data: no sign-out is served, *)
(* for the cookie holds a session, and no sign-in, for the shell is on show. *)
LEMMA OwnHome ==
  ASSUME TypeOK, OwnInv, HomeAsked \/ HomeServed \/ HomeLands
  PROVE  OwnInv'
<1>1. UNCHANGED <<cookie, session, request, fetch, crossed>>
  BY DEF HomeAsked, HomeServed, HomeLands, serverVars, dataVars, historyVars
<1>2. ~crossed => HomeOwn'
  <2> SUFFICES ASSUME ~crossed PROVE HomeOwn'
    OBVIOUS
  <2>1. Sides /\ Settled /\ Unsettled /\ HomeOwn /\ SignViews
    BY DEF OwnInv, OwnSession
  <2>2. CASE HomeAsked
    <3>1. homeFetch'.pc = "asked" /\ home' = home /\ SignedIn
      BY <2>2 DEF HomeAsked, NoHomeFetch
    <3> QED
      BY <1>1, <2>1, <3>1 DEF HomeOwn, SignedIn
  <2>3. CASE HomeServed
    <3>1. homeFetch' = [pc |-> "served", session |-> cookie] /\ home' = home /\ cookie > 0
          /\ homeFetch.pc = "asked"
      BY <2>3 DEF HomeServed
    <3>2. SignedIn
      BY <2>1, <3>1 DEF HomeOwn
    <3>3. \A s \in Slots : SignServed(s) => request[s].kind = "logout"
      BY <2>1, <3>2 DEF Sides, SignServed, Signing
    <3>4. \A s \in Slots : SignServed(s) => request[s].view.session = 0
      BY <2>1, <3>3 DEF SignViews
    <3>5. cookie # 0
      BY <3>1, BoundAssumption DEF TypeOK
    <3>6. session.session = cookie
      BY <2>1, <3>2, <3>4, <3>5 DEF Settled, Unsettled
    <3>7. homeFetch'.session = session.session
      BY <3>1, <3>6
    <3> QED
      BY <1>1, <2>1, <3>1, <3>2, <3>7 DEF HomeOwn, SignedIn
  <2>4. CASE HomeLands
    <3>1. homeFetch'.pc = "none" /\ home' \in {0, session.session}
      BY <2>1, <2>4, DataTypes DEF HomeLands, HomeOwn
    <3> QED
      BY <1>1, <3>1 DEF HomeOwn
  <2> QED
    BY <2>2, <2>3, <2>4
<1>3. SignViews' /\ (~crossed => Sides' /\ Settled' /\ Unsettled')
  BY <1>1 DEF OwnInv, OwnSession, SignViews, Sides, Settled, Unsettled, SignServed, Served,
     SignedIn
<1> QED
  BY <1>1, <1>2, <1>3 DEF OwnInv, OwnSession

(* Every step keeps the session and the home view with the cookie. *)
LEMMA NextOwn == TypeOK /\ TypeOK' /\ OwnInv /\ [Next]_vars => OwnInv'
<1> SUFFICES ASSUME TypeOK, TypeOK', OwnInv, [Next]_vars PROVE OwnInv'
  OBVIOUS
<1>k. /\ "logout" \in Kinds /\ Fields \subseteq Kinds /\ SignIns \subseteq Kinds
      /\ "logout" \notin SignIns /\ \A f \in Fields : f \notin SignIns /\ f # "logout"
  BY BoundAssumption DEF Kinds, Fields
<1>1. CASE SignOutPressed
  BY <1>1, <1>k, OwnSent DEF SignOutPressed
<1>2. ASSUME NEW k \in SignIns, SignInPressed(k) PROVE OwnInv'
  <2>1. ~SignedIn
    BY <1>2, BoundAssumption DEF SignInPressed, TypeOK
  <2> QED
    BY <1>2, <1>k, <2>1, OwnSent DEF SignInPressed
<1>3. ASSUME NEW f \in Fields, SavePressed(f) PROVE OwnInv'
  BY <1>3, <1>k, OwnSent DEF SavePressed
<1>4. ASSUME NEW f \in Fields, Edits(f) \/ ChangedElsewhere(f) PROVE OwnInv'
  BY <1>4, OwnSteady DEF Edits, ChangedElsewhere, serverVars, dataVars, homeVars, historyVars
<1>5. ASSUME NEW p \in {"login", "redeem", "home", "settings"}, Opens(p) PROVE OwnInv'
  <2>1. session.account \in [Fields -> 0..Edited] /\ request \in [Slots -> RequestType]
    BY DataTypes DEF TypeOK, View
  <2>2. \A s \in Slots : /\ request'[s].kind = request[s].kind
                         /\ request'[s].pc = request[s].pc
                         /\ request'[s].view = request[s].view
    BY <1>5, <2>1, GoToTypes DEF Opens
  <2>3. UNCHANGED <<cookie, session, fetch, home, homeFetch, crossed>>
    BY <1>5 DEF Opens, serverVars, dataVars, homeVars, historyVars
  <2> QED
    BY <2>2, <2>3, OwnRelabelled
<1>6. CASE OthersChange
  BY <1>6, OwnSteady DEF OthersChange, serverVars, dataVars, homeVars, historyVars
<1>7. CASE FetchServed
  <2>1. fetch'.view.session = cookie
    BY <1>7 DEF FetchServed, Nobody
  <2> QED
    BY <1>7, <2>1, OwnFetch DEF FetchServed, serverVars, dataVars, homeVars, historyVars
<1>8. CASE FetchFails \/ Hears
  <2>1. fetch'.pc # "served"
    BY <1>8, DataTypes DEF FetchFails, Hears
  <2> QED
    BY <1>8, <2>1, OwnFetch
       DEF FetchFails, Hears, serverVars, dataVars, homeVars, historyVars
<1>9. ASSUME NEW s \in Slots, NEW f \in Fields, SaveServed(s, f) PROVE OwnInv'
  <2>1. PICK view : view = [session |-> cookie, account |-> account']
    OBVIOUS
  <2>2. view.session = cookie /\ view \in View
    BY <2>1, BoundAssumption DEF View, TypeOK
  <2>3. Serve(s, view) /\ UNCHANGED <<cookie, session, fetch, home, homeFetch, crossed>>
        /\ request[s].kind \in Fields /\ request[s].pc = "asked"
    BY <1>9, <2>1 DEF SaveServed, Asked, dataVars, homeVars
  <2> QED
    BY <2>2, <2>3, OwnSaved
<1>10. ASSUME NEW s \in Slots, NEW k \in SignIns, SignInServed(s, k) PROVE OwnInv'
  <2>1. PICK view : view = [session |-> cookie', account |-> account]
    OBVIOUS
  <2>2. cookie' \in Nat /\ cookie' > 0 /\ cookie' \in 0..MaxSessions
    BY <1>10, BoundAssumption DEF SignInServed, TypeOK
  <2>3. view.session = cookie' /\ view \in View /\ view.session # 0
    BY <2>1, <2>2 DEF View, TypeOK
  <2>4. Serve(s, view) /\ UNCHANGED <<session, fetch, home, homeFetch, crossed>>
        /\ request[s].kind = k /\ request[s].pc = "asked"
    BY <1>10, <2>1 DEF SignInServed, Asked, dataVars, homeVars, historyVars
  <2> QED
    BY <1>k, <2>3, <2>4, OwnSigned DEF Signing
<1>11. ASSUME NEW s \in Slots, SignOutServed(s) PROVE OwnInv'
  <2>1. Serve(s, Nobody) /\ cookie' = 0 /\ UNCHANGED <<session, fetch, home, homeFetch, crossed>>
        /\ request[s].kind = "logout" /\ request[s].pc = "asked"
    BY <1>11 DEF SignOutServed, Asked, dataVars, homeVars, historyVars
  <2> QED
    BY <2>1, OwnSigned, DataTypes DEF Signing
<1>12. CASE SignedOutElsewhere
  <2>1. crossed' /\ request' = request
    BY <1>12 DEF SignedOutElsewhere
  <2> QED
    BY <2>1 DEF OwnInv, SignViews, OwnSession, SignServed, Served
<1>13. CASE HomeAsked \/ HomeServed \/ HomeLands
  BY <1>13, OwnHome
<1>14. CASE FetchLands
  BY <1>14, OwnFetched
<1>15. ASSUME NEW s \in Slots, Lands(s) PROVE OwnInv'
  BY <1>15, OwnLands
<1>16. ASSUME NEW s \in Slots, Fails(s) PROVE OwnInv'
  <2>1. request' = Without(s) /\ UNCHANGED <<cookie, session, fetch, home, homeFetch>>
    BY <1>16 DEF Fails, serverVars, dataVars, homeVars
  <2>2. CASE crossed'
    BY <2>1, <2>2, RestViews DEF OwnInv, OwnSession
  <2>3. CASE ~crossed'
    <3>1. ~crossed /\ (request[s].kind \in Fields \/ request[s].pc # "served")
      BY <1>16, <2>3 DEF Fails
    <3>2. ~SignServed(s)
      BY <1>k, <3>1 DEF SignServed, Served, Signing
    <3> QED
      BY <2>1, <2>3, <3>1, <3>2, OwnGone
  <2> QED
    BY <2>2, <2>3
<1>17. CASE UNCHANGED vars
  BY <1>17, OwnSteady DEF vars, serverVars, dataVars, homeVars, historyVars
<1> QED
  BY <1>1, <1>2, <1>3, <1>4, <1>5, <1>6, <1>7, <1>8, <1>9, <1>10, <1>11, <1>12, <1>13, <1>14,
     <1>15, <1>16, <1>17 DEF Next

(* Only the first fetch is under way at first. *)
LEMMA InitOwn == Init => OwnInv
<1> SUFFICES ASSUME Init PROVE OwnInv
  OBVIOUS
<1>1. \A s \in Slots : ~Served(s) /\ ~SignServed(s) /\ request[s].kind = "none"
  BY DataTypes DEF Init, Served, SignServed
<1>2. "none" # "logout" /\ "none" \notin SignIns
  BY BoundAssumption
<1>3. ~SignedIn /\ home = 0 /\ homeFetch.pc = "none" /\ fetch.pc = "asked"
  BY DataTypes DEF Init, SignedIn
<1> QED
  BY <1>1, <1>2, <1>3
     DEF OwnInv, SignViews, OwnSession, Sides, Settled, Unsettled, HomeOwn

(* The shell is on show for the session of the browser's cookie, unless a  *)
(* sign-in or sign-out is under way or something crossed one.              *)
THEOREM CookieHolds == Spec => []SessionHasCookie
<1>1. TypeOK /\ OwnInv /\ [Next]_vars => (TypeOK /\ OwnInv)'
  BY NextTypes, NextOwn
<1>2. OwnInv => SessionHasCookie
  BY DEF OwnInv, OwnSession, Settled, SessionHasCookie, SignServed, Signing
<1> QED
  BY InitTypes, InitOwn, <1>1, <1>2, PTL DEF Spec

(* Nobody is shown the home view of the session before: the one there is,  *)
(* or on its way, is that of the session data.                             *)
THEOREM HomeHolds == Spec => []HomeIsOwn
<1>1. TypeOK /\ OwnInv /\ [Next]_vars => (TypeOK /\ OwnInv)'
  BY NextTypes, NextOwn
<1>2. OwnInv => HomeIsOwn
  BY DEF OwnInv, OwnSession, HomeOwn, HomeIsOwn
<1> QED
  BY InitTypes, InitOwn, <1>1, <1>2, PTL DEF Spec
=============================================================================
