---------------------------- MODULE RoomChatProofs ----------------------------
(***************************************************************************)
(* Proofs about RoomChat, for any rooms, texts, page size and bounds.      *)
(***************************************************************************)
EXTENDS RoomChat, FiniteSetTheorems, SequenceTheorems, TLAPS

----------------------------------------------------------------------------
(* Types *)

(* The bounds of the logs and of the messages reported as failed.          *)
Counted ==
  /\ \A p \in Parties : Len(log[p]) <= MaxLog
  /\ \A t \in Texts : unsure[t] <= events

TypeInv == TypeOK /\ Counted

ConsoleTypes ==
  /\ page \in Parties \union {Home}
  /\ draft \in Drafts /\ (page = Home => draft = Empty)
  /\ index \in 0..5
  /\ send \in [Texts -> SendType] /\ calls \in [CallKinds -> 0..MaxCalls]
  /\ cutoff \in [Parties -> 0..MaxLog]
  /\ typedOver \in BOOLEAN

ServerTypes ==
  /\ query \in [Parties -> QueryType] /\ swallowed \subseteq Parties
  /\ log \in [Parties -> Seq(Texts \union {"other"})]
  /\ \A p \in Parties : Len(log[p]) <= MaxLog

HistoryTypes ==
  /\ unsure \in [Texts -> Nat] /\ \A t \in Texts : unsure[t] <= events
  /\ strayed \in BOOLEAN /\ events \in 0..MaxEvents

(* The invariant is that of the console, the server and the histories.     *)
LEMMA Parts == TypeInv <=> ConsoleTypes /\ ServerTypes /\ HistoryTypes
<1>1. MaxEvents \in Nat /\ MaxLog \in Nat /\ PageSize \in Nat
  BY PageAssumption
<1>2. 0..Len(SUPPORTED_CHAT_COMMANDS) - 1 = 0..5
  BY DEF SUPPORTED_CHAT_COMMANDS
<1>3. TypeInv => ConsoleTypes
  BY <1>2 DEF TypeInv, TypeOK, ConsoleTypes
<1>4. TypeInv => ServerTypes
  BY DEF TypeInv, TypeOK, Counted, ServerTypes
<1>5. TypeInv => HistoryTypes
  BY <1>1 DEF TypeInv, TypeOK, Counted, HistoryTypes
<1>6. ASSUME HistoryTypes PROVE unsure \in [Texts -> 0..MaxEvents]
  <2>1. \A t \in Texts : unsure[t] \in 0..MaxEvents
    BY <1>1, <1>6 DEF HistoryTypes
  <2> QED
    BY <1>6, <2>1 DEF HistoryTypes
<1>7. ConsoleTypes /\ ServerTypes /\ HistoryTypes => TypeInv
  BY <1>2, <1>6 DEF TypeInv, TypeOK, Counted, ConsoleTypes, ServerTypes, HistoryTypes
<1> QED
  BY <1>3, <1>4, <1>5, <1>7

(* Texts are told from the other drafts. *)
LEMMA DraftKinds ==
  /\ Empty \in Drafts /\ Empty \notin Texts
  /\ Slashed \subseteq Drafts /\ Slashed \cap Texts = {} /\ Empty \notin Slashed
  /\ Commands = {"help", "clear", "joinvoice", "leavevoice", "leaveparty", "parties"}
  /\ NoSend \in SendType
<1>1. Commands = {"help", "clear", "joinvoice", "leavevoice", "leaveparty", "parties"}
  BY DEF Commands, SUPPORTED_CHAT_COMMANDS, ToSet
<1> QED
  BY <1>1, TextAssumption DEF Drafts, Slashed, Empty, NoSend, SendType

(* What is suggested are commands. *)
LEMMA SuggestionTypes ==
  ASSUME NEW d \in Drafts
  PROVE  /\ getSlashCommandSuggestions(d) \in Seq(Slashed)
         /\ Len(getSlashCommandSuggestions(d)) \in 0..6
<1>1. SUPPORTED_CHAT_COMMANDS \in Seq(Slashed) /\ Len(SUPPORTED_CHAT_COMMANDS) = 6
  BY DraftKinds DEF SUPPORTED_CHAT_COMMANDS, Slashed
<1>2. <<"leavevoice", "leaveparty">> \in Seq(Slashed) /\ Len(<<"leavevoice", "leaveparty">>) = 2
  BY DraftKinds DEF Slashed
<1>3. d \in Commands => <<d>> \in Seq(Slashed) /\ Len(<<d>>) = 1
  BY DEF Slashed
<1>4. <<>> \in Seq(Slashed) /\ Len(<<>>) = 0
  OBVIOUS
<1> QED
  BY <1>1, <1>2, <1>3, <1>4 DEF getSlashCommandSuggestions

(* What is highlighted is a command. *)
LEMMA SuggestedIsSlashed ==
  ASSUME ConsoleTypes, Suggestions # <<>>
  PROVE  activeSuggestion \in Slashed
<1>1. Suggestions \in Seq(Slashed) /\ Len(Suggestions) \in 0..6 /\ index \in 0..5
  BY SuggestionTypes DEF Suggestions, ConsoleTypes
<1>2. PICK n \in 1..6 : n = Len(Suggestions)
  BY <1>1
<1>3. PICK i : i = IF index < n THEN index + 1 ELSE n
  OBVIOUS
<1>4. i \in 1..n
  BY <1>1, <1>3
<1>5. activeSuggestion = Suggestions[i]
  BY <1>2, <1>3 DEF activeSuggestion
<1> QED
  BY <1>1, <1>2, <1>4, <1>5, ElementOfSeq

(* Nothing is cached at first, and a listing that is asked for keeps what   *)
(* it had.                                                                 *)
LEMMA AskTypes ==
  ASSUME ServerTypes, NEW ps
  PROVE  /\ NoListing \in QueryType
         /\ Ask(ps) \in [Parties -> QueryType]
         /\ \A p \in Parties :
              /\ Ask(ps)[p].loaded = query[p].loaded /\ Ask(ps)[p].feed = query[p].feed
              /\ Ask(ps)[p].invalid = query[p].invalid
              /\ p \notin ps => Ask(ps)[p] = query[p]
              /\ p \in ps => Ask(ps)[p].pc = "asked" /\ Ask(ps)[p].seen = 0
<1>1. 0 \in 0..PageSize
  BY PageAssumption
<1>2. NoListing \in QueryType
  BY <1>1 DEF NoListing, QueryType
<1>3. ASSUME NEW p \in Parties
      PROVE  /\ [query[p] EXCEPT !.pc = "asked", !.seen = 0] \in QueryType
             /\ [query[p] EXCEPT !.pc = "asked", !.seen = 0].loaded = query[p].loaded
             /\ [query[p] EXCEPT !.pc = "asked", !.seen = 0].feed = query[p].feed
             /\ [query[p] EXCEPT !.pc = "asked", !.seen = 0].invalid = query[p].invalid
             /\ [query[p] EXCEPT !.pc = "asked", !.seen = 0].pc = "asked"
             /\ [query[p] EXCEPT !.pc = "asked", !.seen = 0].seen = 0
             /\ query[p] \in QueryType
  <2>1. query[p] \in QueryType
    BY DEF ServerTypes
  <2> QED
    BY <1>1, <2>1 DEF QueryType
<1> QED
  BY <1>2, <1>3 DEF Ask

(* Listings that are invalidated are marked, and asked for when on show.   *)
LEMMA InvalidateTypes ==
  ASSUME ServerTypes, NEW ps, Invalidate(ps)
  PROVE  query' \in [Parties -> QueryType] /\ swallowed' \subseteq Parties
<1> DEFINE again == {p \in ps : p = page /\ ~isLoading(p)}
<1>1. PICK qs \in [Parties -> QueryType] : qs = Ask(again)
  BY AskTypes
<1>2. query' = [p \in Parties |-> [qs[p] EXCEPT !.invalid = @ \/ (p \in ps /\ query[p].loaded)]]
  BY <1>1 DEF Invalidate
<1>3. ASSUME NEW p \in Parties, NEW b \in BOOLEAN
      PROVE  [qs[p] EXCEPT !.invalid = b] \in QueryType
  BY <1>3 DEF QueryType
<1>4. \A p \in Parties : (qs[p].invalid \/ (p \in ps /\ query[p].loaded)) \in BOOLEAN
  OBVIOUS
<1>5. query' \in [Parties -> QueryType]
  BY <1>2, <1>3, <1>4
<1> QED
  BY <1>5 DEF Invalidate

(* A room comes on show, or the dashboard. *)
LEMMA ShowTypes ==
  ASSUME ConsoleTypes, ServerTypes, NEW p \in Parties \union {Home}, Show(p)
  PROVE  /\ page' = p
         /\ draft' \in Drafts /\ (page' = Home => draft' = Empty) /\ index' \in 0..5
         /\ send' \in [Texts -> SendType] /\ cutoff' \in [Parties -> 0..MaxLog]
         /\ typedOver' \in BOOLEAN
         /\ query' \in [Parties -> QueryType] /\ swallowed' \subseteq Parties
<1>1. page' = p
  BY DEF Show
<1>2. query' \in [Parties -> QueryType] /\ swallowed' \subseteq Parties
  <2>1. PICK asked : query' = Ask(asked) /\ swallowed' = swallowed \ asked
    BY DEF Show
  <2> QED
    BY <2>1, AskTypes DEF ServerTypes
<1>3. CASE p = Home
  <2>1. MaxLog \in Nat
    BY PageAssumption
  <2>2. /\ send' = [t \in Texts |->
             IF InFlight(t) /\ send[t].left = Home THEN [send[t] EXCEPT !.left = page] ELSE send[t]]
        /\ draft' = Empty /\ index' = 0 /\ typedOver' = FALSE
        /\ cutoff' = [q \in Parties |-> 0]
    BY <1>3 DEF Show
  <2>3. \A t \in Texts : send[t] \in SendType /\ [send[t] EXCEPT !.left = page] \in SendType
    BY DEF ConsoleTypes, SendType
  <2>4. send' \in [Texts -> SendType]
    BY <2>2, <2>3
  <2> QED
    <3>1. cutoff' \in [Parties -> 0..MaxLog] /\ index' \in 0..5
      BY <2>1, <2>2
    <3>2. typedOver' \in BOOLEAN /\ draft' \in Drafts
      BY <2>2, DraftKinds
    <3> QED
      BY <1>1, <1>2, <2>2, <2>4, <3>1, <3>2
<1>4. CASE p # Home
  BY <1>1, <1>2, <1>4 DEF Show, ConsoleTypes
<1> QED
  BY <1>3, <1>4

(* A message is stored. *)
LEMMA StoreTypes ==
  ASSUME ServerTypes, NEW p, NEW m \in Texts \union {"other"}, Store(p, m)
  PROVE  ServerTypes'
<1>1. PICK heard : Invalidate(heard)
  BY DEF Store
<1>2. query' \in [Parties -> QueryType] /\ swallowed' \subseteq Parties
  BY <1>1, InvalidateTypes
<1>3. ASSUME NEW q \in Parties
      PROVE  log'[q] \in Seq(Texts \union {"other"}) /\ Len(log'[q]) <= MaxLog
  <2>1. log[q] \in Seq(Texts \union {"other"}) /\ Len(log[q]) <= MaxLog
    BY DEF ServerTypes
  <2>2. CASE q = p
    <3>1. log'[q] = Append(log[q], m) /\ Len(log[q]) < MaxLog
      BY <2>2 DEF Store, ServerTypes
    <3>2. log'[q] \in Seq(Texts \union {"other"}) /\ Len(log'[q]) = Len(log[q]) + 1
          /\ Len(log[q]) \in Nat
      BY <2>1, <3>1, AppendProperties, LenProperties
    <3> QED
      BY <3>1, <3>2, PageAssumption
  <2>3. CASE q # p
    BY <2>1, <2>3 DEF Store, ServerTypes
  <2> QED
    BY <2>2, <2>3
<1>4. log' \in [Parties -> Seq(Texts \union {"other"})]
  BY <1>3 DEF Store, ServerTypes
<1> QED
  BY <1>2, <1>3, <1>4 DEF ServerTypes

(* The prompt and its commands. *)
LEMMA PromptTypes ==
  ASSUME ConsoleTypes, ServerTypes,
         \/ \E d \in Texts \union {"slash", "leave", "unknown"} : Types(d)
         \/ Highlights \/ applyCommandSuggestion
         \/ handleCommand \/ awaitsCommand \/ submitDraft
  PROVE  ConsoleTypes' /\ UNCHANGED <<cacheVars, log, events, historyVars>>
<1>0. UNCHANGED <<page, cacheVars, log, events, historyVars>> /\ page # Home
  BY DEF Types, Highlights, applyCommandSuggestion, handleCommand, awaitsCommand, submitDraft,
         Submits, AtPrompt
<1>t. Waiting \in BOOLEAN
  BY DEF Waiting
<1>s. /\ Suggestions \in Seq(Slashed) /\ Len(Suggestions) \in 0..6
      /\ Slashed \subseteq Drafts /\ Empty \in Drafts /\ index \in 0..5
  BY SuggestionTypes, DraftKinds DEF Suggestions, ConsoleTypes
<1>1. ASSUME NEW d \in Texts \union {"slash", "leave", "unknown"}, Types(d) PROVE ConsoleTypes'
  <2>1. d \in Drafts
    BY DEF Drafts, Slashed
  <2> QED
    BY <1>0, <1>1, <1>t, <2>1 DEF Types, SetDraft, ConsoleTypes
<1>2. CASE Highlights
  <2>1. Len(Suggestions) \in 1..6
    BY <1>2, <1>s DEF Highlights
  <2>2. PICK n \in 1..6 : n = Len(Suggestions)
    BY <2>1
  <2>3. (index + 1) % n \in 0..5 /\ (index + n - 1) % n \in 0..5 /\ 0..n - 1 \subseteq 0..5
    <3>1. CASE n = 1
      BY <1>s, <3>1
    <3>2. CASE n = 2
      BY <1>s, <3>2
    <3>3. CASE n = 3
      BY <1>s, <3>3
    <3>4. CASE n = 4
      BY <1>s, <3>4
    <3>5. CASE n = 5
      BY <1>s, <3>5
    <3>6. CASE n = 6
      BY <1>s, <3>6
    <3> QED
      BY <3>1, <3>2, <3>3, <3>4, <3>5, <3>6
  <2>4. index' \in 0..5
    BY <1>2, <2>2, <2>3 DEF Highlights, ArrowTo
  <2> QED
    BY <1>0, <1>2, <2>4 DEF Highlights, ConsoleTypes
<1>3. CASE applyCommandSuggestion
  <2>1. activeSuggestion \in Slashed
    BY <1>3, SuggestedIsSlashed DEF applyCommandSuggestion
  <2> QED
    BY <1>0, <1>3, <1>s, <1>t, <2>1 DEF applyCommandSuggestion, ConsoleTypes
<1>4. CASE handleCommand
  <2>1. cutoff' \in [Parties -> 0..MaxLog]
    <3>1. \A p \in Parties : Len(log[p]) \in 0..MaxLog
      BY PageAssumption, LenProperties DEF ServerTypes
    <3> QED
      BY <1>4, <3>1 DEF handleCommand, ConsoleTypes
  <2>2. draft' \in Drafts /\ index' \in 0..5
    BY <1>4, <1>s DEF handleCommand, SetDraft, ConsoleTypes
  <2> QED
    BY <1>0, <1>4, <2>1, <2>2 DEF handleCommand, ConsoleTypes
<1>5. CASE awaitsCommand
  <2>1. PICK k \in CallKinds : calls' = [calls EXCEPT ![k] = @ + 1]
    BY <1>5 DEF awaitsCommand, CallKinds
  <2>2. calls["voice"] + calls["leaveparty"] < MaxCalls
    BY <1>5 DEF awaitsCommand
  <2>3. calls["voice"] \in 0..MaxCalls /\ calls["leaveparty"] \in 0..MaxCalls /\ MaxCalls \in Nat
    BY PageAssumption DEF ConsoleTypes, CallKinds
  <2>4. calls[k] + 1 \in 0..MaxCalls
    BY <2>1, <2>2, <2>3 DEF CallKinds
  <2>5. calls' \in [CallKinds -> 0..MaxCalls]
    BY <2>1, <2>4 DEF ConsoleTypes
  <2> QED
    BY <1>0, <1>5, <1>t, <2>5 DEF awaitsCommand, ConsoleTypes
<1>6. CASE submitDraft
  <2>1. page \in Parties \union {Home} /\ send \in [Texts -> SendType]
    BY DEF ConsoleTypes
  <2>2. [pc |-> "asked", party |-> page, left |-> Home] \in SendType
    BY <2>1 DEF SendType
  <2>3. send' \in [Texts -> SendType]
    BY <1>6, <2>1, <2>2 DEF submitDraft
  <2> QED
    BY <1>0, <1>6, <1>t, <2>3 DEF submitDraft, ConsoleTypes
<1> QED
  BY <1>0, <1>1, <1>2, <1>3, <1>4, <1>5, <1>6

(* Nothing has been sent at first. *)
LEMMA InitTypes == Init => TypeInv
<1> SUFFICES ASSUME Init PROVE ConsoleTypes /\ ServerTypes /\ HistoryTypes
  BY Parts
<1>1. MaxLog \in Nat /\ PageSize \in Nat /\ MaxEvents \in Nat
  BY PageAssumption
<1>2. ConsoleTypes
  <2>1. send \in [Texts -> SendType] /\ draft \in Drafts
    BY DraftKinds DEF Init
  <2>2. cutoff \in [Parties -> 0..MaxLog] /\ index \in 0..5
    BY <1>1 DEF Init
  <2>3. typedOver \in BOOLEAN
    BY DEF Init
  <2>4. calls \in [CallKinds -> 0..MaxCalls]
    BY PageAssumption DEF Init
  <2> QED
    BY <2>1, <2>2, <2>3, <2>4 DEF Init, ConsoleTypes
<1>3. <<>> \in Seq(Texts \union {"other"}) /\ Len(<<>>) = 0
  OBVIOUS
<1>4. ServerTypes
  <2>1. NoListing \in QueryType
    BY <1>1 DEF NoListing, QueryType
  <2> QED
    BY <1>1, <1>3, <2>1 DEF Init, ServerTypes
<1>5. HistoryTypes
  <2>1. unsure \in [Texts -> Nat] /\ events \in 0..MaxEvents /\ \A t \in Texts : unsure[t] <= events
    BY <1>1 DEF Init
  <2>2. strayed \in BOOLEAN
    BY DEF Init
  <2> QED
    BY <2>1, <2>2 DEF HistoryTypes
<1> QED
  BY <1>2, <1>4, <1>5

(* The awaited commands when the page changes, and when one ends.          *)
LEMMA CallTypes ==
  ASSUME ConsoleTypes
  PROVE  /\ \A p : CallsAt(p) \in [CallKinds -> 0..MaxCalls]
         /\ \A p, k \in CallKinds : CallsAt(p)[k] \in {0, calls[k]}
         /\ \A k \in CallKinds : calls[k] \in 0..MaxCalls /\ (calls[k] > 0 => calls[k] - 1 \in 0..MaxCalls)
<1>1. MaxCalls \in Nat /\ calls \in [CallKinds -> 0..MaxCalls]
  BY PageAssumption DEF ConsoleTypes
<1>2. 0 \in 0..MaxCalls
  BY <1>1
<1>3. \A k \in CallKinds : calls[k] \in 0..MaxCalls /\ (calls[k] > 0 => calls[k] - 1 \in 0..MaxCalls)
  BY <1>1
<1> QED
  BY <1>1, <1>2, <1>3 DEF CallsAt

(* Every step keeps the types, action by action. *)
LEMMA NextTypes == TypeInv /\ [Next]_vars => TypeInv'
<1> SUFFICES ASSUME TypeInv, [Next]_vars PROVE ConsoleTypes' /\ ServerTypes' /\ HistoryTypes'
  <2>1. (TypeInv <=> ConsoleTypes /\ ServerTypes /\ HistoryTypes)'
    BY Parts, PTL
  <2> QED
    BY <2>1
<1>n. MaxLog \in Nat /\ PageSize \in Nat /\ MaxEvents \in Nat
  BY PageAssumption
<1>c. ConsoleTypes
  BY Parts
<1>s. ServerTypes
  BY Parts
<1>h. HistoryTypes
  BY Parts
<1>uc. ASSUME UNCHANGED <<page, consoleVars>> PROVE ConsoleTypes'
  BY <1>uc, <1>c DEF consoleVars, ConsoleTypes
<1>us. ASSUME UNCHANGED <<cacheVars, log>> PROVE ServerTypes'
  BY <1>us, <1>s DEF cacheVars, ServerTypes
<1>uh. ASSUME UNCHANGED <<historyVars, events>> PROVE HistoryTypes'
  BY <1>uh, <1>h DEF historyVars, HistoryTypes
<1>e. ASSUME Event, UNCHANGED historyVars PROVE HistoryTypes'
  BY <1>e, <1>h, <1>n DEF Event, historyVars, HistoryTypes
<1>q. ASSUME NEW p, NEW listing \in QueryType, query' = [query EXCEPT ![p] = listing],
             UNCHANGED <<log, swallowed>>
      PROVE  ServerTypes'
  BY <1>q, <1>s DEF ServerTypes
<1>1. ASSUME NEW p \in Parties \union {Home}, Opens(p)
      PROVE  ConsoleTypes' /\ ServerTypes' /\ HistoryTypes'
  <2>1. Show(p) /\ Event /\ UNCHANGED <<log, historyVars>>
        /\ calls' \in [CallKinds -> 0..MaxCalls]
    BY <1>1, <1>c, CallTypes DEF Opens
  <2> QED
    BY <1>c, <1>s, <1>e, <2>1, ShowTypes DEF ConsoleTypes, ServerTypes
<1>2. CASE \/ \E d \in Texts \union {"slash", "leave", "unknown"} : Types(d)
           \/ Highlights \/ applyCommandSuggestion
           \/ handleCommand \/ awaitsCommand \/ submitDraft
  BY <1>2, <1>c, <1>s, <1>us, <1>uh, PromptTypes
<1>3. CASE returnsToParties
  <2>1. Show(Home) /\ UNCHANGED <<log, events, historyVars>>
        /\ calls' \in [CallKinds -> 0..MaxCalls]
    BY <1>3, <1>c, CallTypes DEF returnsToParties
  <2> QED
    BY <1>c, <1>s, <1>uh, <2>1, ShowTypes DEF ConsoleTypes, ServerTypes
<1>4. ASSUME NEW k \in CallKinds, commandSucceeds(k)
      PROVE  ConsoleTypes' /\ ServerTypes' /\ HistoryTypes'
  <2>1. UNCHANGED <<log, events, historyVars>>
    BY <1>4 DEF commandSucceeds
  <2>2. CASE Show(Home) /\ calls' = [CallsAt(Home) EXCEPT ![k] = @ - 1] /\ k = "leaveparty"
    <3>1. CallsAt(Home)[k] = calls[k] /\ calls[k] > 0
      BY <1>4, <1>c, <2>2 DEF CallsAt, ConsoleTypes, commandSucceeds
    <3>2. calls' \in [CallKinds -> 0..MaxCalls]
      BY <1>c, <2>2, <3>1, CallTypes
    <3> QED
      BY <1>c, <1>s, <1>uh, <2>1, <2>2, <3>2, ShowTypes DEF ConsoleTypes, ServerTypes
  <2>3. CASE EmptyPrompt /\ calls' = [calls EXCEPT ![k] = @ - 1]
             /\ UNCHANGED <<page, send, cutoff, cacheVars>>
    <3>1. draft' = Empty /\ typedOver' = FALSE /\ index' \in 0..5
      BY <2>3, <1>c DEF EmptyPrompt, SetDraft, ConsoleTypes
    <3>2. calls' \in [CallKinds -> 0..MaxCalls]
      BY <1>4, <1>c, <2>3, CallTypes DEF ConsoleTypes, commandSucceeds
    <3>3. ConsoleTypes'
      BY <1>c, <2>3, <3>1, <3>2, DraftKinds DEF ConsoleTypes
    <3> QED
      BY <1>us, <1>uh, <2>1, <2>3, <3>3
  <2> QED
    BY <1>4, <2>2, <2>3 DEF commandSucceeds
<1>5. ASSUME NEW k \in CallKinds, commandFails(k)
      PROVE  ConsoleTypes' /\ ServerTypes' /\ HistoryTypes'
  <2>1. calls' \in [CallKinds -> 0..MaxCalls]
    BY <1>5, <1>c, CallTypes DEF ConsoleTypes, commandFails
  <2>2. ConsoleTypes'
    BY <1>5, <1>c, <2>1 DEF commandFails, ConsoleTypes
  <2> QED
    BY <1>5, <1>us, <1>uh, <2>2 DEF commandFails
<1>6. ASSUME NEW p \in Parties, OthersPost(p)
      PROVE  ConsoleTypes' /\ ServerTypes' /\ HistoryTypes'
  BY <1>6, <1>uc, <1>e, <1>s, StoreTypes DEF OthersPost
<1>7. ASSUME NEW p \in Parties, FetchRead(p) \/ FetchLands(p)
      PROVE  ConsoleTypes' /\ ServerTypes' /\ HistoryTypes'
  <2>1. Listed(p) \in 0..PageSize
    <3>1. Len(log[p]) \in Nat
      BY <1>s, LenProperties DEF ServerTypes
    <3> QED
      BY <1>n, <3>1 DEF Listed
  <2>2. /\ [query[p] EXCEPT !.pc = "read", !.seen = Listed(p)] \in QueryType
        /\ [NoListing EXCEPT !.loaded = TRUE, !.feed = query[p].seen] \in QueryType
    <3>1. query[p] \in QueryType /\ NoListing \in QueryType
      BY <1>s, AskTypes DEF ServerTypes
    <3> QED
      BY <2>1, <3>1 DEF QueryType
  <2>3. CASE FetchRead(p)
    BY <1>s, <1>uc, <1>uh, <2>2, <2>3 DEF FetchRead, ServerTypes
  <2>4. CASE FetchLands(p)
    BY <1>s, <1>uc, <1>uh, <2>2, <2>4 DEF FetchLands, ServerTypes
  <2> QED
    BY <1>7, <2>3, <2>4
<1>8. ASSUME NEW p \in Parties, FetchFails(p)
      PROVE  ConsoleTypes' /\ ServerTypes' /\ HistoryTypes'
  <2>1. query[p] \in QueryType
    BY <1>s DEF ServerTypes
  <2>2. [query[p] EXCEPT !.pc = "failed", !.seen = 0] \in QueryType
    <3>1. 0 \in 0..PageSize
      BY <1>n
    <3> QED
      BY <2>1, <3>1 DEF QueryType
  <2>3. ServerTypes'
    BY <1>8, <1>s, <2>2 DEF FetchFails, ServerTypes
  <2> QED
    BY <1>8, <1>uc, <1>e, <2>3 DEF FetchFails
<1>9. ASSUME NEW t \in Texts, Inserted(t)
      PROVE  ConsoleTypes' /\ ServerTypes' /\ HistoryTypes'
  <2>1. send' \in [Texts -> SendType]
    BY <1>9, <1>c DEF Inserted, ConsoleTypes, SendType
  <2>2. ConsoleTypes'
    BY <1>9, <1>c, <2>1 DEF Inserted, ConsoleTypes
  <2>3. ServerTypes'
    BY <1>9, <1>s, StoreTypes DEF Inserted
  <2> QED
    BY <1>9, <1>uh, <2>2, <2>3 DEF Inserted
<1>10. ASSUME NEW t \in Texts, sendSucceeds(t)
       PROVE  ConsoleTypes' /\ ServerTypes' /\ HistoryTypes'
  <2>1. send' \in [Texts -> SendType]
    BY <1>10, <1>c DEF sendSucceeds, ConsoleTypes, SendType
  <2>2. /\ draft' \in Drafts /\ (page = Home => draft' = Empty)
        /\ index' \in 0..5 /\ typedOver' \in BOOLEAN
    <3>1. CASE send[t].left = Home
      <4>1. draft' = Empty /\ index' = (IF Empty = draft THEN index ELSE 0) /\ typedOver' = FALSE
        BY <1>10, <3>1 DEF sendSucceeds, EmptyPrompt, SetDraft
      <4>2. index' \in 0..5
        BY <1>c, <4>1 DEF ConsoleTypes
      <4>3. typedOver' \in BOOLEAN
        BY <4>1
      <4> QED
        BY <4>1, <4>2, <4>3, DraftKinds
    <3>2. CASE send[t].left # Home
      BY <1>10, <1>c, <3>2 DEF sendSucceeds, ConsoleTypes
    <3> QED
      BY <3>1, <3>2
  <2>3. ConsoleTypes'
    BY <1>10, <1>c, <2>1, <2>2 DEF sendSucceeds, ConsoleTypes
  <2>4. query' \in [Parties -> QueryType] /\ swallowed' \subseteq Parties
    BY <1>10, <1>s, InvalidateTypes DEF sendSucceeds
  <2>5. ServerTypes'
    BY <1>10, <1>s, <2>4 DEF sendSucceeds, ServerTypes
  <2>6. strayed' \in BOOLEAN
    BY <1>10, <1>h DEF sendSucceeds, HistoryTypes
  <2>7. HistoryTypes'
    BY <1>10, <1>h, <2>6 DEF sendSucceeds, HistoryTypes
  <2> QED
    BY <2>3, <2>5, <2>7
<1>11. ASSUME NEW t \in Texts, sendFails(t)
       PROVE  ConsoleTypes' /\ ServerTypes' /\ HistoryTypes'
  <2>1. [NoSend EXCEPT !.pc = "failed"] \in SendType
    BY DEF NoSend, SendType
  <2>2. ConsoleTypes'
    BY <1>11, <1>c, <2>1 DEF sendFails, DraftAfterFailure, ConsoleTypes
  <2>3. HistoryTypes'
    <3>1. CASE send[t].pc = "stored"
      BY <1>11, <1>h, <1>n, <3>1 DEF sendFails, Event, HistoryTypes
    <3>2. CASE send[t].pc # "stored"
      BY <1>11, <1>uh, <3>2 DEF sendFails, historyVars
    <3> QED
      BY <3>1, <3>2
  <2> QED
    BY <1>11, <1>us, <2>2, <2>3 DEF sendFails
<1>12. CASE UNCHANGED vars
  BY <1>12, <1>uc, <1>us, <1>uh DEF vars
<1> QED
  BY <1>1, <1>2, <1>3, <1>4, <1>5, <1>6, <1>7, <1>8, <1>9, <1>10, <1>11, <1>12 DEF Next

(* In every behaviour every variable has its type, the prompt is empty     *)
(* outside of a room, and a listing holds at most a page.                  *)
THEOREM TypeCorrect == Spec => []TypeOK
<1>1. TypeInv => TypeOK
  BY DEF TypeInv
<1> QED
  BY InitTypes, NextTypes, <1>1, PTL DEF Spec

----------------------------------------------------------------------------
(* No double send, no draft lost *)

(* A message on its way has a room; a text that was stored is in a log,    *)
(* once more at most than it was reported as failed.                       *)
Sends ==
  \A t \in Texts :
    /\ InFlight(t) => send[t].party \in Parties
    /\ IsFiniteSet(Copies(t))
    /\ send[t].pc \in {"stored", "done"}
       => Copies(t) # {} /\ Cardinality(Copies(t)) <= 1 + unsure[t]
    /\ send[t].pc \notin {"stored", "done"} => Cardinality(Copies(t)) <= unsure[t]

(* A text in the prompt was not sent yet, or failed, or is on its way and  *)
(* its answer will find the console; and what else the console waits for   *)
(* began before that text was typed.                                       *)
Prompt ==
  draft \in Texts =>
    /\ \/ send[draft].pc \in {"none", "failed"}
       \/ InFlight(draft) /\ send[draft].left = Home
    /\ \/ typedOver
       \/ /\ calls["voice"] = 0
          /\ \A t \in Texts : InFlight(t) /\ send[t].left = Home => t = draft

(* A console that goes leaves its messages on their way. *)
LEMMA ShowSends ==
  ASSUME ConsoleTypes, NEW p, Show(p), NEW t \in Texts
  PROVE  send'[t].pc = send[t].pc /\ send'[t].party = send[t].party
<1>1. send[t] \in SendType
  BY DEF ConsoleTypes
<1>2. \A r : [send[t] EXCEPT !.left = r].pc = send[t].pc
             /\ [send[t] EXCEPT !.left = r].party = send[t].party
  BY <1>1 DEF SendType
<1>3. CASE p = Home
  <2>1. send' = [u \in Texts |->
          IF InFlight(u) /\ send[u].left = Home THEN [send[u] EXCEPT !.left = page] ELSE send[u]]
    BY <1>3 DEF Show
  <2> QED
    BY <1>2, <2>1
<1>4. CASE p # Home
  BY <1>4 DEF Show
<1> QED
  BY <1>3, <1>4

(* A stored message is one more copy of its text, and of no other. *)
LEMMA StoreCopies ==
  ASSUME ServerTypes, NEW p \in Parties, NEW m \in Texts \union {"other"}, Store(p, m),
         NEW t \in Texts
  PROVE  Copies(t)' = IF m = t THEN Copies(t) \union {<<p, Len(log[p]) + 1>>} ELSE Copies(t)
<1>1. MaxLog \in Nat /\ Len(log[p]) \in Nat /\ Len(log[p]) < MaxLog
  BY PageAssumption, LenProperties DEF ServerTypes, Store
<1>2. /\ log[p] \in Seq(Texts \union {"other"})
      /\ log'[p] = Append(log[p], m)
      /\ \A q \in Parties \ {p} : log'[q] = log[q]
  BY DEF ServerTypes, Store
<1>3. /\ Len(log'[p]) = Len(log[p]) + 1
      /\ \A i \in 1..Len(log[p]) : log'[p][i] = log[p][i]
      /\ log'[p][Len(log[p]) + 1] = m
  BY <1>2, AppendProperties
<1> DEFINE At(q, i) == i <= Len(log[q]) /\ log[q][i] = t
<1> DEFINE After(q, i) == i <= Len(log'[q]) /\ log'[q][i] = t
<1>4. ASSUME NEW q \in Parties, NEW i \in 1..MaxLog
      PROVE  After(q, i) <=> At(q, i) \/ (m = t /\ q = p /\ i = Len(log[p]) + 1)
  <2>1. CASE q # p
    BY <1>2, <2>1
  <2>2. CASE q = p /\ i <= Len(log[p])
    BY <1>1, <1>3, <2>2
  <2>3. CASE q = p /\ i = Len(log[p]) + 1
    BY <1>1, <1>3, <2>3
  <2>4. CASE q = p /\ i > Len(log[p]) + 1
    BY <1>1, <1>3, <2>4
  <2> QED
    BY <1>1, <2>1, <2>2, <2>3, <2>4
<1>5. Len(log[p]) + 1 \in 1..MaxLog
  BY <1>1
<1>6. /\ Copies(t) = {at \in Parties \X (1..MaxLog) : At(at[1], at[2])}
      /\ Copies(t)' = {at \in Parties \X (1..MaxLog) : After(at[1], at[2])}
  BY DEF Copies
<1> HIDE DEF At, After
<1>7. \A at \in Parties \X (1..MaxLog) :
        at = <<at[1], at[2]>> /\ at[1] \in Parties /\ at[2] \in 1..MaxLog
  OBVIOUS
<1>8. CASE m = t
  <2>1. \A at \in Parties \X (1..MaxLog) :
          After(at[1], at[2]) <=> At(at[1], at[2]) \/ at = <<p, Len(log[p]) + 1>>
    BY <1>4, <1>7, <1>8
  <2>2. <<p, Len(log[p]) + 1>> \in Parties \X (1..MaxLog)
    BY <1>5
  <2> QED
    BY <1>6, <1>8, <2>1, <2>2
<1>9. CASE m # t
  <2>1. \A at \in Parties \X (1..MaxLog) : After(at[1], at[2]) <=> At(at[1], at[2])
    BY <1>4, <1>7, <1>9
  <2> QED
    BY <1>6, <1>9, <2>1
<1> QED
  BY <1>8, <1>9

(* Nothing is stored or on its way at first. *)
LEMMA InitSends == Init => Sends /\ Prompt
<1> SUFFICES ASSUME Init PROVE Sends /\ Prompt
  OBVIOUS
<1>1. ASSUME NEW t \in Texts PROVE Copies(t) = {}
  <2>1. \A p \in Parties : Len(log[p]) = 0
    BY DEF Init
  <2>2. \A at \in Parties \X (1..MaxLog) : at[1] \in Parties /\ at[2] \in Int /\ at[2] > 0
    BY PageAssumption
  <2>3. \A at \in Parties \X (1..MaxLog) : ~(at[2] <= Len(log[at[1]]))
    BY <2>1, <2>2
  <2> QED
    BY <2>3 DEF Copies
<1>2. \A t \in Texts : send[t].pc = "none" /\ unsure[t] = 0
  BY DEF Init, NoSend
<1>3. Sends
  BY <1>1, <1>2, FS_EmptySet DEF Sends, InFlight
<1>4. Prompt
  BY DraftKinds DEF Init, Prompt
<1> QED
  BY <1>3, <1>4

(* Every step keeps count of the copies: a text is sent only from a prompt *)
(* whose text is not stored.                                               *)
LEMMA NextSends == TypeInv /\ Sends /\ Prompt /\ [Next]_vars => Sends'
<1> SUFFICES ASSUME TypeInv, Sends, Prompt, [Next]_vars PROVE Sends'
  OBVIOUS
<1>t. ConsoleTypes /\ ServerTypes /\ HistoryTypes
  BY Parts
<1>y. send \in [Texts -> SendType] /\ unsure \in [Texts -> Nat]
  BY <1>t DEF ConsoleTypes, HistoryTypes
<1>n. \A t \in Texts : Cardinality(Copies(t)) \in Nat
  BY FS_CardinalityType DEF Sends
(* no message is stored *)
<1>k. ASSUME log' = log PROVE \A t \in Texts : Copies(t)' = Copies(t)
  BY <1>k DEF Copies
<1>u. ASSUME UNCHANGED <<log, unsure>>,
             \A t \in Texts : send'[t].pc = send[t].pc /\ send'[t].party = send[t].party
      PROVE  Sends'
  BY <1>u, <1>k DEF Sends, InFlight
<1>1. ASSUME NEW p \in Parties \union {Home}, Opens(p) PROVE Sends'
  BY <1>1, <1>t, <1>u, ShowSends DEF Opens, historyVars
<1>2. CASE \/ \E d \in Texts \union {"slash", "leave", "unknown"} : Types(d)
           \/ Highlights \/ applyCommandSuggestion \/ handleCommand \/ awaitsCommand
  <2>1. UNCHANGED <<send, log, unsure>>
    BY <1>2 DEF Types, Highlights, applyCommandSuggestion, handleCommand, awaitsCommand,
                Submits, AtPrompt, historyVars
  <2> QED
    BY <1>u, <2>1
<1>3. CASE returnsToParties
  BY <1>3, <1>t, <1>u, ShowSends DEF returnsToParties, historyVars
<1>4. ASSUME NEW k \in CallKinds, commandSucceeds(k) PROVE Sends'
  <2>1. UNCHANGED <<log, unsure>> /\ (Show(Home) \/ send' = send)
    BY <1>4 DEF commandSucceeds, historyVars
  <2> QED
    BY <1>t, <1>u, <2>1, ShowSends
<1>5. ASSUME NEW k \in CallKinds, commandFails(k) PROVE Sends'
  BY <1>5, <1>u DEF commandFails, historyVars
<1>6. CASE submitDraft
  <2>1. draft \in Texts /\ page \in Parties /\ ~isPending /\ UNCHANGED <<log, unsure>>
    BY <1>6, <1>t DEF submitDraft, Submits, CanSubmit, AtPrompt, historyVars, ConsoleTypes
  <2>2. send[draft].pc \in {"none", "failed"}
    BY <2>1 DEF Prompt, isPending
  <2>3. \A t \in Texts : send'[t] = IF t = draft THEN [pc |-> "asked", party |-> page, left |-> Home]
                                                 ELSE send[t]
    BY <1>6, <1>y DEF submitDraft
  <2>4. \A t \in Texts : Copies(t)' = Copies(t) /\ unsure'[t] = unsure[t]
    BY <1>k, <2>1
  <2> QED
    BY <2>1, <2>2, <2>3, <2>4 DEF Sends, InFlight
<1>7. ASSUME NEW p \in Parties, OthersPost(p) PROVE Sends'
  <2>1. \A t \in Texts : "other" # t
    BY TextAssumption
  <2>2. Store(p, "other") /\ UNCHANGED <<send, unsure>>
    BY <1>7 DEF OthersPost, consoleVars, historyVars
  <2>3. \A t \in Texts : Copies(t)' = Copies(t)
    BY <1>t, <2>1, <2>2, StoreCopies
  <2> QED
    BY <2>2, <2>3 DEF Sends, InFlight
<1>8. ASSUME NEW p \in Parties, FetchRead(p) \/ FetchLands(p) \/ FetchFails(p) PROVE Sends'
  BY <1>8, <1>u DEF FetchRead, FetchLands, FetchFails, consoleVars, historyVars
<1>9. ASSUME NEW t \in Texts, Inserted(t) PROVE Sends'
  <2>1. send[t].pc = "asked" /\ send[t].party \in Parties /\ Store(send[t].party, t)
        /\ unsure' = unsure
    BY <1>9 DEF Inserted, Sends, InFlight, historyVars
  <2>2. /\ send'[t].pc = "stored" /\ send'[t].party = send[t].party
        /\ \A u \in Texts \ {t} : send'[u] = send[u]
    BY <1>9, <1>y DEF Inserted, SendType
  <2>3. \A u \in Texts \ {t} : Copies(u)' = Copies(u)
    BY <1>t, <2>1, StoreCopies
  <2>4. PICK at : Copies(t)' = Copies(t) \union {at}
    BY <1>t, <2>1, StoreCopies
  <2>5. IsFiniteSet(Copies(t)) /\ Cardinality(Copies(t)) <= unsure[t]
    BY <2>1 DEF Sends
  <2>6. PICK old : old = Copies(t)
    OBVIOUS
  <2>7. IsFiniteSet(old \union {at}) /\ Cardinality(old \union {at}) <= Cardinality(old) + 1
        /\ Cardinality(old \union {at}) \in Nat
    <3>1. IsFiniteSet(old) /\ Cardinality(old) \in Nat
      BY <1>n, <2>5, <2>6
    <3>2. IsFiniteSet(old \union {at})
          /\ Cardinality(old \union {at}) = IF at \in old THEN Cardinality(old) ELSE Cardinality(old) + 1
      BY <3>1, FS_AddElement
    <3> QED
      BY <3>1, <3>2
  <2>8. IsFiniteSet(Copies(t)') /\ Copies(t)' # {} /\ Cardinality(Copies(t)') <= 1 + unsure[t]
    BY <1>n, <1>y, <2>4, <2>5, <2>6, <2>7
  <2> QED
    BY <2>1, <2>2, <2>3, <2>8 DEF Sends, InFlight
<1>10. ASSUME NEW t \in Texts, sendSucceeds(t) PROVE Sends'
  <2>1. send[t].pc = "stored" /\ UNCHANGED <<log, unsure>>
    BY <1>10 DEF sendSucceeds
  <2>2. send'[t].pc = "done" /\ \A u \in Texts \ {t} : send'[u] = send[u]
    BY <1>10, <1>y DEF sendSucceeds, SendType
  <2>3. \A u \in Texts : Copies(u)' = Copies(u)
    BY <1>k, <2>1
  <2> QED
    BY <2>1, <2>2, <2>3 DEF Sends, InFlight
<1>11. ASSUME NEW t \in Texts, sendFails(t) PROVE Sends'
  <2>1. send'[t].pc = "failed" /\ \A u \in Texts \ {t} : send'[u] = send[u]
    BY <1>11, <1>y DEF sendFails, NoSend
  <2>2. \A u \in Texts : Copies(u)' = Copies(u)
    BY <1>11, <1>k DEF sendFails
  <2>3. \A u \in Texts \ {t} : unsure'[u] = unsure[u]
    BY <1>11, <1>y DEF sendFails
  <2>4. Cardinality(Copies(t)) <= unsure'[t]
    <3>1. CASE send[t].pc = "stored"
      <4>1. unsure'[t] = unsure[t] + 1 /\ Cardinality(Copies(t)) <= 1 + unsure[t]
        BY <1>11, <1>y, <3>1 DEF sendFails, Sends
      <4> QED
        BY <1>n, <1>y, <4>1
    <3>2. CASE send[t].pc # "stored"
      <4>1. unsure' = unsure /\ send[t].pc = "asked"
        BY <1>11, <3>2 DEF sendFails, InFlight
      <4> QED
        BY <4>1 DEF Sends
    <3> QED
      BY <3>1, <3>2
  <2> QED
    BY <2>1, <2>2, <2>3, <2>4 DEF Sends, InFlight
<1>12. CASE UNCHANGED vars
  BY <1>12, <1>u DEF vars, consoleVars, historyVars
<1> QED
  BY <1>1, <1>2, <1>3, <1>4, <1>5, <1>6, <1>7, <1>8, <1>9, <1>10, <1>11, <1>12 DEF Next

(* Every step keeps what is said of the prompt. *)
LEMMA NextPrompt == TypeInv /\ Prompt /\ [Next]_vars => Prompt'
<1> SUFFICES ASSUME TypeInv, Prompt, [Next]_vars PROVE Prompt'
  OBVIOUS
<1>t. ConsoleTypes
  BY Parts
<1>y. send \in [Texts -> SendType]
  BY <1>t DEF ConsoleTypes
(* the prompt holds no text *)
<1>e. ASSUME draft' \notin Texts PROVE Prompt'
  BY <1>e DEF Prompt
<1>h. ASSUME NEW p, Show(p) PROVE (draft' \notin Texts) \/ UNCHANGED <<draft, send, typedOver>>
  BY <1>h, DraftKinds DEF Show
<1>u. ASSUME UNCHANGED <<draft, send, typedOver>>, calls["voice"] = 0 => calls'["voice"] = 0
      PROVE  Prompt'
  BY <1>u DEF Prompt, InFlight
<1>v. ~Waiting => calls["voice"] = 0
  BY <1>t DEF Waiting, CallKinds, ConsoleTypes
(* the text was typed, or sent, with nothing else to wait for *)
<1>w. ASSUME typedOver' = Waiting, NEW t \in Texts, draft' = t, calls' = calls,
             \A u \in Texts \ {t} : send'[u] = send[u],
             ~isPending,
             send'[t].pc \in {"none", "failed"} \/ (InFlight(t)' /\ send'[t].left = Home)
      PROVE  Prompt'
  BY <1>w, <1>v DEF Prompt, Waiting, isPending, InFlight
<1>1. ASSUME NEW p \in Parties \union {Home}, Opens(p) PROVE Prompt'
  <2>1. CASE p = Home
    BY <1>1, <1>e, <2>1, DraftKinds DEF Opens, Show
  <2>2. CASE p # Home
    BY <1>1, <1>u, <2>2 DEF Opens, Show, CallsAt
  <2> QED
    BY <2>1, <2>2
<1>2. ASSUME NEW d \in Texts \union {"slash", "leave", "unknown"}, Types(d) PROVE Prompt'
  <2>1. draft' = d /\ typedOver' = Waiting /\ UNCHANGED <<send, calls>>
    BY <1>2 DEF Types, SetDraft
  <2>2. d \in Texts => send[d].pc = "none"
    BY <1>2 DEF Types, NoSend
  <2>3. ASSUME d \in Texts, ~typedOver'
        PROVE  calls'["voice"] = 0 /\ \A t \in Texts : ~(InFlight(t)' /\ send'[t].left = Home)
    BY <1>v, <2>1, <2>3 DEF Waiting, isPending, InFlight
  <2> QED
    BY <2>1, <2>2, <2>3 DEF Prompt
<1>3. CASE Highlights
  BY <1>3, <1>u DEF Highlights
<1>15. ASSUME NEW k \in CallKinds, commandFails(k) PROVE Prompt'
  <2>1. calls["voice"] = 0 => calls'["voice"] = 0
    BY <1>15, <1>t DEF commandFails, ConsoleTypes, CallKinds
  <2> QED
    BY <1>15, <1>u, <2>1 DEF commandFails
<1>4. CASE applyCommandSuggestion
  <2>1. draft' \in Slashed
    BY <1>4, <1>t, SuggestedIsSlashed DEF applyCommandSuggestion
  <2> QED
    BY <1>e, <2>1, DraftKinds
<1>5. CASE handleCommand
  <2>1. draft' = Empty \/ draft' \in Slashed
    BY <1>5, DraftKinds DEF handleCommand, SetDraft, Slashed
  <2> QED
    BY <1>e, <2>1, DraftKinds
<1>6. CASE awaitsCommand
  <2>1. draft' \in Slashed
    BY <1>6, DraftKinds DEF awaitsCommand, Slashed
  <2> QED
    BY <1>e, <2>1, DraftKinds
<1>7. CASE returnsToParties
  BY <1>7, <1>e, DraftKinds DEF returnsToParties, Show
<1>8. CASE submitDraft
  <2>1. /\ draft \in Texts /\ draft' = draft /\ calls' = calls /\ ~isPending /\ typedOver' = Waiting
    BY <1>8 DEF submitDraft, Submits, CanSubmit
  <2>2. \A t \in Texts : send'[t] = IF t = draft THEN [pc |-> "asked", party |-> page, left |-> Home]
                                                 ELSE send[t]
    BY <1>8, <1>y DEF submitDraft
  <2>3. PICK t \in Texts : t = draft
    BY <2>1
  <2>4. InFlight(t)' /\ send'[t].left = Home
    BY <2>2, <2>3 DEF InFlight
  <2> QED
    BY <1>w, <2>1, <2>2, <2>3, <2>4
<1>9. ASSUME NEW k \in CallKinds, commandSucceeds(k) PROVE Prompt'
  BY <1>9, <1>e, DraftKinds DEF commandSucceeds, EmptyPrompt, SetDraft, Show
<1>10. ASSUME NEW p \in Parties, OthersPost(p) \/ FetchRead(p) \/ FetchLands(p) \/ FetchFails(p)
       PROVE  Prompt'
  BY <1>10, <1>u DEF OthersPost, FetchRead, FetchLands, FetchFails, consoleVars
<1>11. ASSUME NEW t \in Texts, Inserted(t) PROVE Prompt'
  <2>1. /\ send[t].pc = "asked" /\ send'[t].pc = "stored" /\ send'[t].left = send[t].left
        /\ \A u \in Texts \ {t} : send'[u] = send[u]
        /\ UNCHANGED <<draft, calls, typedOver>>
    BY <1>11, <1>y DEF Inserted, SendType
  <2> QED
    BY <2>1 DEF Prompt, InFlight
<1>12. ASSUME NEW t \in Texts, sendSucceeds(t) PROVE Prompt'
  <2>1. /\ send[t].pc = "stored" /\ send'[t].pc = "done"
        /\ \A u \in Texts \ {t} : send'[u] = send[u]
        /\ calls' = calls
    BY <1>12, <1>y DEF sendSucceeds, SendType
  <2>2. CASE send[t].left = Home
    BY <1>12, <1>e, <2>2, DraftKinds DEF sendSucceeds, EmptyPrompt, SetDraft
  <2>3. CASE send[t].left # Home
    <3>1. UNCHANGED <<draft, typedOver>>
      BY <1>12, <2>3 DEF sendSucceeds
    <3>2. draft # t
      BY <2>1, <2>3 DEF Prompt
    <3> QED
      BY <2>1, <3>1, <3>2 DEF Prompt, InFlight
  <2> QED
    BY <2>2, <2>3
<1>13. ASSUME NEW t \in Texts, sendFails(t) PROVE Prompt'
  <2>1. /\ send'[t].pc = "failed"
        /\ \A u \in Texts \ {t} : send'[u] = send[u]
        /\ UNCHANGED <<draft, calls, typedOver>>
    BY <1>13, <1>y DEF sendFails, DraftAfterFailure, NoSend
  <2> QED
    BY <2>1 DEF Prompt, InFlight
<1>14. CASE UNCHANGED vars
  BY <1>14, <1>u DEF vars, consoleVars
<1> QED
  BY <1>1, <1>2, <1>3, <1>4, <1>5, <1>6, <1>7, <1>8, <1>9, <1>10, <1>11, <1>12, <1>13, <1>14, <1>15 DEF Next

(* Together they are inductive. *)
LEMMA NextChat ==
  TypeInv /\ Sends /\ Prompt /\ [Next]_vars => TypeInv' /\ Sends' /\ Prompt'
  BY NextTypes, NextSends, NextPrompt

(* A text is stored once, and once more at most for each time it was       *)
(* stored and reported as failed.                                          *)
THEOREM SentOnce == Spec => []NoDoubleSend
<1>1. TypeInv /\ Sends => NoDoubleSend
  <2> SUFFICES ASSUME TypeInv, Sends, NEW t \in Texts PROVE Cardinality(Copies(t)) <= 1 + unsure[t]
    BY DEF NoDoubleSend
  <2>1. Cardinality(Copies(t)) \in Nat /\ unsure[t] \in Nat
    BY Parts, FS_CardinalityType DEF Sends, HistoryTypes
  <2> QED
    BY <2>1 DEF Sends
<1> QED
  BY InitTypes, InitSends, NextChat, <1>1, PTL DEF Spec

KeepsDraft ==
  (draft \in Texts /\ draft' = Empty) => (page' = Home \/ Copies(draft) # {} \/ typedOver)

(* A text leaves the prompt only when it was stored, or the page is left,  *)
(* or it was typed over a draft the console was waiting with.              *)
THEOREM DraftHolds == Spec => DraftKept
<1>1. TypeInv /\ Sends /\ Prompt /\ [Next]_vars => [KeepsDraft]_vars
  <2> SUFFICES ASSUME TypeInv, Sends, Prompt, Next, draft \in Texts, draft' = Empty,
                      page' # Home, ~typedOver
               PROVE  Copies(draft) # {}
    BY DEF KeepsDraft
  <2>1. draft' # draft /\ draft \notin Slashed
    BY DraftKinds
  <2>2. calls["voice"] = 0 /\ \A t \in Texts : InFlight(t) /\ send[t].left = Home => t = draft
    BY DEF Prompt
  <2>3. ~\E p \in Parties \union {Home} : Opens(p)
    BY <2>1 DEF Opens, Show
  <2>4. ~\E d \in Texts \union {"slash", "leave", "unknown"} : Types(d)
    BY DraftKinds DEF Types, SetDraft, Slashed
  <2>5. ~(Highlights \/ awaitsCommand \/ submitDraft \/ \E k \in CallKinds : commandFails(k))
    BY <2>1 DEF Highlights, awaitsCommand, submitDraft, commandFails
  <2>6. ~applyCommandSuggestion
    BY DraftKinds, SuggestedIsSlashed, Parts DEF applyCommandSuggestion
  <2>7. ~handleCommand
    BY <2>1, DraftKinds DEF handleCommand, Slashed
  <2>8. ~returnsToParties
    BY DEF returnsToParties, Show
  <2>9. ~\E k \in CallKinds : commandSucceeds(k)
    <3> SUFFICES ASSUME NEW k \in CallKinds, commandSucceeds(k) PROVE FALSE
      OBVIOUS
    <3>1. k = "leaveparty" => page' = Home
      BY DEF commandSucceeds, Show
    <3>2. k = "voice" => FALSE
      BY <2>2 DEF commandSucceeds
    <3> QED
      BY <3>1, <3>2 DEF CallKinds
  <2>10. ~\E p \in Parties : OthersPost(p) \/ FetchRead(p) \/ FetchLands(p) \/ FetchFails(p)
    BY <2>1 DEF OthersPost, FetchRead, FetchLands, FetchFails, consoleVars
  <2>11. ~\E t \in Texts : Inserted(t) \/ sendFails(t)
    BY <2>1 DEF Inserted, sendFails, DraftAfterFailure
  <2>12. PICK t \in Texts : sendSucceeds(t)
    BY <2>3, <2>4, <2>5, <2>6, <2>7, <2>8, <2>9, <2>10, <2>11 DEF Next
  <2>13. send[t].pc = "stored" /\ send[t].left = Home
    BY <2>1, <2>12 DEF sendSucceeds
  <2>14. t = draft
    BY <2>2, <2>13 DEF InFlight
  <2> QED
    BY <2>13, <2>14 DEF Sends
<1>2. Spec => [][KeepsDraft]_vars
  BY InitTypes, InitSends, NextChat, <1>1, PTL DEF Spec
<1> QED
  BY <1>2 DEF DraftKept, KeepsDraft

----------------------------------------------------------------------------
(* One's own messages show, or the listing is to be fetched *)

(* The text t is in the log of room p; and at a place that a listing of n  *)
(* messages has, or that is beyond the page.                               *)
Logged(t, p) == \E i \in 1..Len(log[p]) : log[p][i] = t
Within(t, p, n) == \E i \in 1..Len(log[p]) : log[p][i] = t /\ (i > PageSize \/ i <= n)

(* The listing of p has t, or it will get it by the fetch in flight, or is *)
(* to be fetched when it comes on show; or it could not be fetched, or was *)
(* invalidated in vain.                                                    *)
Follows(t, p) ==
  \/ p \in swallowed \/ query[p].pc \in {"asked", "failed"}
  \/ query[p].pc = "read" /\ Within(t, p, query[p].seen)
  \/ /\ query[p].pc = "idle"
     /\ Within(t, p, query[p].feed) \/ ~query[p].loaded \/ query[p].invalid

(* A listing follows what was answered in its room, and the one on show    *)
(* that is at rest was fetched since it was invalidated.                   *)
Listings ==
  /\ \A p \in Parties : query[p].feed <= Len(log[p]) /\ query[p].seen <= Len(log[p])
  /\ \A t \in Texts : send[t].pc \in {"stored", "done"} => send[t].party \in Parties
  /\ \A t \in Texts, p \in Parties : send[t].party = p =>
       /\ send[t].pc \in {"stored", "done"} => Logged(t, p)
       /\ send[t].pc = "done" /\ ~strayed => Follows(t, p)
  /\ page \in Parties /\ query[page].pc = "idle" => query[page].loaded /\ ~query[page].invalid

(* The safety under OwnMessageShows: once a message is answered, it is in  *)
(* the listing on show, or a fetch of this is in flight that will bring    *)
(* it, with the exceptions that OwnMessageShows makes.                     *)
OwnMessageDue ==
  \A t \in Texts :
    send[t].pc = "done" /\ send[t].party = page /\ ~strayed
    => \/ query[page].pc = "failed" \/ page \in swallowed
       \/ query[page].pc = "asked"
       \/ query[page].pc = "read" /\ Within(t, page, query[page].seen)
       \/ query[page].pc = "idle" /\ (OutOfSight(t, page) \/ Contains(renderedEntries(page), t))

(* A log only grows at its end. *)
LEMMA LogsGrow ==
  ASSUME ServerTypes, NEW p, NEW m \in Texts \union {"other"}, Store(p, m), NEW q \in Parties
  PROVE  /\ Len(log[q]) \in Nat /\ Len(log'[q]) \in Nat /\ Len(log[q]) <= Len(log'[q])
         /\ \A i \in 1..Len(log[q]) : log'[q][i] = log[q][i]
         /\ q = p => Len(log'[q]) = Len(log[q]) + 1 /\ log'[q][Len(log[q]) + 1] = m
<1>1. log[q] \in Seq(Texts \union {"other"}) /\ Len(log[q]) \in Nat
  BY LenProperties DEF ServerTypes
<1>3. CASE q = p
  <2>1. log'[q] = Append(log[q], m)
    BY <1>3 DEF Store, ServerTypes
  <2>2. /\ Len(log'[q]) = Len(log[q]) + 1
        /\ \A i \in 1..Len(log[q]) : log'[q][i] = log[q][i]
        /\ log'[q][Len(log[q]) + 1] = m
    BY <1>1, <2>1, AppendProperties
  <2> QED
    BY <1>1, <2>2
<1>4. CASE q # p
  <2>1. log'[q] = log[q]
    BY <1>4 DEF Store, ServerTypes
  <2> QED
    BY <1>1, <1>4, <2>1
<1> QED
  BY <1>3, <1>4

(* What a step does to the listings: each is as it was, or asked for, or   *)
(* was marked; a fetch that goes on unmarked loses no invalidation.        *)
Steady ==
  /\ \A p \in Parties :
       /\ query'[p].feed <= Len(log[p]) /\ query'[p].seen <= Len(log[p])
       /\ \/ query'[p].pc = "asked"
          \/ /\ query'[p].pc = query[p].pc /\ query'[p].seen = query[p].seen
             /\ query'[p].feed = query[p].feed /\ query'[p].loaded = query[p].loaded
             /\ query[p].invalid => query'[p].invalid
             /\ p \in swallowed => p \in swallowed'
  /\ page' \in Parties /\ query'[page'].pc = "idle" => query'[page'].loaded /\ ~query'[page'].invalid

(* A listing is asked for. *)
LEMMA AskSteady ==
  ASSUME TypeInv, Listings, NEW p, Show(p) PROVE Steady
<1>t. ServerTypes
  BY Parts
<1>1. PICK old \in {{}, {p}} :
        LET asked == {q \in {p} \cap Parties :
                        ~Fetching(q) /\ (~query[q].loaded \/ query[q].invalid \/ q \in old)}
        IN query' = Ask(asked) /\ swallowed' = swallowed \ asked
  BY DEF Show
<1>2. PICK asked : /\ asked = {q \in {p} \cap Parties :
                        ~Fetching(q) /\ (~query[q].loaded \/ query[q].invalid \/ q \in old)}
                   /\ query' = Ask(asked) /\ swallowed' = swallowed \ asked
  BY <1>1
<1>3. \A q \in Parties :
        /\ query'[q].loaded = query[q].loaded /\ query'[q].feed = query[q].feed
        /\ query'[q].invalid = query[q].invalid
        /\ q \notin asked => query'[q] = query[q]
        /\ q \in asked => query'[q].pc = "asked" /\ query'[q].seen = 0
  BY <1>t, <1>2, AskTypes
<1>4. \A q \in Parties : 0 <= Len(log[q])
  BY <1>t, LenProperties DEF ServerTypes
<1>5. ASSUME NEW q \in Parties
      PROVE  /\ query'[q].feed <= Len(log[q]) /\ query'[q].seen <= Len(log[q])
             /\ \/ query'[q].pc = "asked"
                \/ /\ query'[q].pc = query[q].pc /\ query'[q].seen = query[q].seen
                   /\ query'[q].feed = query[q].feed /\ query'[q].loaded = query[q].loaded
                   /\ query[q].invalid => query'[q].invalid
                   /\ q \in swallowed => q \in swallowed'
  BY <1>2, <1>3, <1>4 DEF Listings
<1>6. ASSUME p \in Parties, query'[p].pc = "idle" PROVE query'[p].loaded /\ ~query'[p].invalid
  <2>1. p \notin asked /\ query'[p] = query[p]
    BY <1>3, <1>6
  <2> QED
    BY <1>2, <1>6, <2>1 DEF Fetching
<1>7. page' = p
  BY DEF Show
<1> QED
  BY <1>5, <1>6, <1>7 DEF Steady

(* A listing is invalidated.  One that is on show, and had its messages or *)
(* was at rest, is asked for; a fetch that goes on has missed it, or will  *)
(* bring it.                                                               *)
LEMMA InvalidateSteady ==
  ASSUME TypeInv, Listings, NEW ps, Invalidate(ps), page' = page
  PROVE  /\ Steady
         /\ \A p \in Parties \cap ps :
              \/ query'[p].pc \in {"asked", "failed"} \/ p \in swallowed'
              \/ query'[p].pc = "idle" /\ (~query'[p].loaded \/ query'[p].invalid)
<1>t. ServerTypes
  BY Parts
<1>1. PICK again : /\ again = {q \in ps : q = page /\ ~isLoading(q)}
                   /\ query' = [q \in Parties |->
                        [Ask(again)[q] EXCEPT !.invalid = @ \/ (q \in ps /\ query[q].loaded)]]
                   /\ swallowed' = {q \in Parties \ again :
                        q \in swallowed \/ (q \in ps /\ query[q].pc = "read")}
  BY DEF Invalidate
<1>2. PICK qs \in [Parties -> QueryType] : qs = Ask(again)
  BY <1>t, AskTypes
<1>3. \A q \in Parties :
        /\ qs[q].loaded = query[q].loaded /\ qs[q].feed = query[q].feed
        /\ qs[q].invalid = query[q].invalid
        /\ q \notin again => qs[q] = query[q]
        /\ q \in again => qs[q].pc = "asked" /\ qs[q].seen = 0
  BY <1>t, <1>2, AskTypes
<1>4. ASSUME NEW q \in Parties
      PROVE  /\ query'[q].loaded = query[q].loaded /\ query'[q].feed = query[q].feed
             /\ query'[q].invalid = (query[q].invalid \/ (q \in ps /\ query[q].loaded))
             /\ query'[q].pc = qs[q].pc /\ query'[q].seen = qs[q].seen
  <2>1. query'[q] = [qs[q] EXCEPT !.invalid = @ \/ (q \in ps /\ query[q].loaded)]
    BY <1>1, <1>2
  <2>2. qs[q] \in QueryType
    BY <1>2
  <2> QED
    BY <1>3, <2>1, <2>2 DEF QueryType
<1>5. \A q \in Parties : 0 <= Len(log[q])
  BY <1>t, LenProperties DEF ServerTypes
<1>6. ASSUME NEW q \in Parties
      PROVE  /\ query'[q].feed <= Len(log[q]) /\ query'[q].seen <= Len(log[q])
             /\ \/ query'[q].pc = "asked"
                \/ /\ query'[q].pc = query[q].pc /\ query'[q].seen = query[q].seen
                   /\ query'[q].feed = query[q].feed /\ query'[q].loaded = query[q].loaded
                   /\ query[q].invalid => query'[q].invalid
                   /\ q \in swallowed => q \in swallowed'
  <2>1. query[q].feed <= Len(log[q]) /\ query[q].seen <= Len(log[q])
    BY DEF Listings
  <2>2. CASE q \in again
    BY <1>3, <1>4, <1>5, <2>1, <2>2
  <2>3. CASE q \notin again
    BY <1>1, <1>3, <1>4, <2>1, <2>3
  <2> QED
    BY <2>2, <2>3
<1>7. ASSUME page \in Parties, query'[page].pc = "idle"
      PROVE  query'[page].loaded /\ ~query'[page].invalid
  <2>1. page \notin again /\ query[page].pc = "idle"
    BY <1>3, <1>4, <1>7
  <2>2. page \notin ps
    BY <1>1, <2>1 DEF isLoading, Fetching
  <2> QED
    BY <1>4, <1>7, <2>1, <2>2 DEF Listings
<1>8. ASSUME NEW p \in Parties \cap ps
      PROVE  \/ query'[p].pc \in {"asked", "failed"} \/ p \in swallowed'
             \/ query'[p].pc = "idle" /\ (~query'[p].loaded \/ query'[p].invalid)
  <2>1. CASE p \in again
    BY <1>3, <1>4, <2>1
  <2>2. CASE p \notin again
    <3>1. query'[p].pc = query[p].pc /\ query[p].pc \in {"idle", "failed", "asked", "read"}
      BY <1>3, <1>4, <1>t, <2>2 DEF ServerTypes, QueryType
    <3>2. query[p].pc = "read" => p \in swallowed'
      BY <1>1, <2>2
    <3>3. ~query'[p].loaded \/ query'[p].invalid
      BY <1>4
    <3> QED
      BY <3>1, <3>2, <3>3
  <2> QED
    BY <2>1, <2>2
<1> QED
  BY <1>6, <1>7, <1>8 DEF Steady

(* Every step keeps this. *)
LEMMA NextListings == TypeInv /\ Sends /\ Listings /\ [Next]_vars => Listings'
<1> SUFFICES ASSUME TypeInv, Sends, Listings, [Next]_vars PROVE Listings'
  OBVIOUS
<1>t. ConsoleTypes /\ ServerTypes
  BY Parts
<1>y. send \in [Texts -> SendType] /\ query \in [Parties -> QueryType]
      /\ \A p \in Parties : Len(log[p]) \in Nat
  BY <1>t, LenProperties DEF ConsoleTypes, ServerTypes
<1>b. strayed \in BOOLEAN
  BY Parts DEF HistoryTypes
(* the logs are as they were *)
<1>f. ASSUME Steady, log' = log, NEW t \in Texts, NEW p \in Parties
      PROVE  (Logged(t, p) => Logged(t, p)') /\ (Follows(t, p) => Follows(t, p)')
  <2>1. \A n : Within(t, p, n)' <=> Within(t, p, n)
    BY <1>f DEF Within
  <2>2. Logged(t, p) => Logged(t, p)'
    BY <1>f DEF Logged
  <2>3. (Within(t, p, query[p].seen))' <=> Within(t, p, query'[p].seen)
    BY <1>f DEF Within
  <2>4. (Within(t, p, query[p].feed))' <=> Within(t, p, query'[p].feed)
    BY <1>f DEF Within
  <2> QED
    BY <1>f, <2>2, <2>3, <2>4 DEF Steady, Follows
<1>u. ASSUME Steady, log' = log, ~strayed' => ~strayed,
             \A t \in Texts :
               \/ send'[t].pc \notin {"stored", "done"}
               \/ send'[t].pc = send[t].pc /\ send'[t].party = send[t].party
      PROVE  Listings'
  <2>1. \A p \in Parties : query'[p].feed <= Len(log'[p]) /\ query'[p].seen <= Len(log'[p])
    BY <1>u DEF Steady
  <2>2. \A t \in Texts : send'[t].pc \in {"stored", "done"} => send'[t].party \in Parties
    BY <1>u DEF Listings
  <2>3. ASSUME NEW t \in Texts, NEW p \in Parties, send'[t].party = p
        PROVE  /\ send'[t].pc \in {"stored", "done"} => Logged(t, p)'
               /\ send'[t].pc = "done" /\ ~strayed' => Follows(t, p)'
    BY <1>f, <1>u, <2>3 DEF Listings
  <2>4. page' \in Parties /\ query'[page'].pc = "idle" => query'[page'].loaded /\ ~query'[page'].invalid
    BY <1>u DEF Steady
  <2> QED
    BY <2>1, <2>2, <2>3, <2>4 DEF Listings
<1>c. ASSUME UNCHANGED <<page, query, swallowed>> PROVE Steady
  BY <1>c DEF Steady, Listings
<1>h. ASSUME NEW p, Show(p), UNCHANGED <<log, strayed>> PROVE Listings'
  <2>1. Steady
    BY <1>h, AskSteady
  <2>2. \A t \in Texts : send'[t].pc = send[t].pc /\ send'[t].party = send[t].party
    BY <1>h, <1>t, ShowSends
  <2> QED
    BY <1>h, <1>u, <2>1, <2>2
(* a message is stored, which is not answered yet *)
<1>s. ASSUME NEW p, NEW m \in Texts \union {"other"}, Store(p, m), UNCHANGED <<page, strayed>>,
             \A t \in Texts :
               \/ send'[t] = send[t]
               \/ /\ send'[t].pc = "stored" /\ send'[t].party = p /\ p \in Parties /\ m = t
      PROVE  Listings'
  <2>1. \A q \in Parties :
          /\ Len(log[q]) \in Nat /\ Len(log'[q]) \in Nat /\ Len(log[q]) <= Len(log'[q])
          /\ \A i \in 1..Len(log[q]) : log'[q][i] = log[q][i]
    BY <1>s, <1>t, LogsGrow
  <2>2. Steady
    <3>1. PICK heard : Invalidate(heard)
      BY <1>s DEF Store
    <3> QED
      BY <1>s, <3>1, InvalidateSteady
  <2>3. query' \in [Parties -> QueryType]
    BY <1>s, <1>t, StoreTypes DEF ServerTypes
  <2>4. ASSUME NEW q \in Parties
        PROVE  query'[q].feed <= Len(log'[q]) /\ query'[q].seen <= Len(log'[q])
    <3>1. PICK f, n, l, k : f = query'[q].feed /\ n = query'[q].seen /\ l = Len(log[q]) /\ k = Len(log'[q])
      OBVIOUS
    <3>2. f \in Int /\ n \in Int
      BY <2>3, <3>1, PageAssumption DEF QueryType
    <3>3. f <= l /\ n <= l /\ l <= k /\ l \in Int /\ k \in Int
      BY <2>1, <2>2, <3>1 DEF Steady
    <3> QED
      BY <3>1, <3>2, <3>3
  <2>5. ASSUME NEW t \in Texts, NEW q \in Parties
        PROVE  (Logged(t, q) => Logged(t, q)') /\ (Follows(t, q) => Follows(t, q)')
    <3>1. \A i \in 1..Len(log[q]) : i \in 1..Len(log'[q]) /\ log'[q][i] = log[q][i]
      BY <2>1
    <3>2. Logged(t, q) => Logged(t, q)'
      BY <3>1 DEF Logged
    <3>3. query'[q].seen = query[q].seen /\ Within(t, q, query[q].seen) => (Within(t, q, query[q].seen))'
      BY <3>1 DEF Within
    <3>4. query'[q].feed = query[q].feed /\ Within(t, q, query[q].feed) => (Within(t, q, query[q].feed))'
      BY <3>1 DEF Within
    <3> QED
      BY <2>2, <3>2, <3>3, <3>4 DEF Steady, Follows
  <2>6. ASSUME p \in Parties PROVE Logged(m, p)'
    <3>1. Len(log[p]) + 1 \in 1..Len(log'[p]) /\ log'[p][Len(log[p]) + 1] = m
      BY <1>s, <1>t, <2>6, LogsGrow
    <3> QED
      BY <3>1 DEF Logged
  <2>7. ASSUME NEW t \in Texts, NEW q \in Parties, send'[t].party = q
        PROVE  /\ send'[t].pc \in {"stored", "done"} => Logged(t, q)'
               /\ send'[t].pc = "done" /\ ~strayed' => Follows(t, q)'
    <3>1. CASE send'[t] = send[t]
      BY <1>s, <2>5, <2>7, <3>1 DEF Listings
    <3>2. CASE send'[t].pc = "stored" /\ send'[t].party = p /\ p \in Parties /\ m = t
      BY <2>6, <2>7, <3>2
    <3> QED
      BY <1>s, <3>1, <3>2
  <2>8. \A t \in Texts : send'[t].pc \in {"stored", "done"} => send'[t].party \in Parties
    BY <1>s DEF Listings
  <2>9. page' \in Parties /\ query'[page'].pc = "idle" => query'[page'].loaded /\ ~query'[page'].invalid
    BY <2>2 DEF Steady
  <2> QED
    BY <2>4, <2>7, <2>8, <2>9 DEF Listings
<1>1. ASSUME NEW p \in Parties \union {Home}, Opens(p) PROVE Listings'
  BY <1>1, <1>h DEF Opens, historyVars
<1>2. CASE \/ \E d \in Texts \union {"slash", "leave", "unknown"} : Types(d)
           \/ Highlights \/ applyCommandSuggestion \/ handleCommand \/ awaitsCommand
  <2>1. UNCHANGED <<page, send, query, swallowed, log, strayed>>
    BY <1>2 DEF Types, Highlights, applyCommandSuggestion, handleCommand, awaitsCommand,
                Submits, AtPrompt, cacheVars, historyVars
  <2> QED
    BY <1>c, <1>u, <2>1
<1>3. CASE returnsToParties
  BY <1>3, <1>h DEF returnsToParties, historyVars
<1>4. ASSUME NEW k \in CallKinds, commandSucceeds(k) PROVE Listings'
  <2>1. UNCHANGED <<log, strayed>> /\ (Show(Home) \/ UNCHANGED <<page, send, query, swallowed>>)
    BY <1>4 DEF commandSucceeds, historyVars, cacheVars
  <2> QED
    BY <1>c, <1>h, <1>u, <2>1
<1>5. ASSUME NEW k \in CallKinds, commandFails(k) PROVE Listings'
  BY <1>5, <1>c, <1>u DEF commandFails, cacheVars, historyVars
<1>6. CASE submitDraft
  <2>1. \A t \in Texts : send'[t] = IF t = draft THEN [pc |-> "asked", party |-> page, left |-> Home]
                                                 ELSE send[t]
    BY <1>6, <1>y DEF submitDraft
  <2>2. UNCHANGED <<page, query, swallowed, log, strayed>>
    BY <1>6 DEF submitDraft, Submits, AtPrompt, cacheVars, historyVars
  <2>3. \A t \in Texts :
          send'[t].pc \notin {"stored", "done"}
          \/ (send'[t].pc = send[t].pc /\ send'[t].party = send[t].party)
    BY <2>1
  <2> QED
    BY <1>c, <1>u, <2>2, <2>3
<1>7. ASSUME NEW p \in Parties, OthersPost(p) PROVE Listings'
  BY <1>7, <1>s DEF OthersPost, consoleVars, historyVars
(* a fetch moves on *)
<1>q. ASSUME NEW p \in Parties, UNCHANGED <<page, send, log, strayed, swallowed>>,
             \A q \in Parties \ {p} : query'[q] = query[q],
             query'[p].feed <= Len(log[p]), query'[p].seen <= Len(log[p]),
             page = p /\ query'[p].pc = "idle" => query'[p].loaded /\ ~query'[p].invalid,
             \A t \in Texts : Logged(t, p) /\ Follows(t, p) => Follows(t, p)'
      PROVE  Listings'
  <2>1. \A q \in Parties : query'[q].feed <= Len(log'[q]) /\ query'[q].seen <= Len(log'[q])
    BY <1>q DEF Listings
  <2>2. \A t \in Texts, q \in Parties : Logged(t, q)' <=> Logged(t, q)
    BY <1>q DEF Logged
  <2>3. ASSUME NEW t \in Texts, NEW q \in Parties \ {p} PROVE Follows(t, q)' <=> Follows(t, q)
    BY <1>q DEF Follows, Within
  <2>4. \A t \in Texts : send[t].party = p /\ send[t].pc = "done" /\ ~strayed => Follows(t, p)'
    BY <1>q DEF Listings
  <2>5. ASSUME page' \in Parties, query'[page'].pc = "idle"
        PROVE  query'[page'].loaded /\ ~query'[page'].invalid
    BY <1>q, <2>5 DEF Listings
  <2> QED
    BY <1>q, <2>1, <2>2, <2>3, <2>4, <2>5 DEF Listings
<1>8. ASSUME NEW p \in Parties, FetchRead(p) PROVE Listings'
  <2>1. UNCHANGED <<page, send, log, strayed, swallowed>>
    BY <1>8 DEF FetchRead, consoleVars, historyVars
  <2>2. Listed(p) <= Len(log[p]) /\ \A i \in 1..Len(log[p]) : i > PageSize \/ i <= Listed(p)
    BY <1>y, PageAssumption DEF Listed
  <2>3. /\ \A q \in Parties \ {p} : query'[q] = query[q]
        /\ query'[p].pc = "read" /\ query'[p].seen = Listed(p) /\ query'[p].feed = query[p].feed
    BY <1>8, <1>y DEF FetchRead, QueryType
  <2>4. \A t \in Texts : Logged(t, p) => (Within(t, p, query[p].seen))'
    BY <2>1, <2>2, <2>3 DEF Logged, Within
  <2>5. \A t \in Texts : Logged(t, p) /\ Follows(t, p) => Follows(t, p)'
    BY <2>3, <2>4 DEF Follows
  <2>6. query'[p].feed <= Len(log[p]) /\ query'[p].seen <= Len(log[p])
    BY <2>2, <2>3 DEF Listings
  <2> QED
    BY <1>q, <2>1, <2>3, <2>5, <2>6
<1>14. ASSUME NEW p \in Parties, FetchLands(p) PROVE Listings'
  <2>1. UNCHANGED <<page, send, log, strayed, swallowed>> /\ query[p].pc = "read"
    BY <1>14 DEF FetchLands, consoleVars, historyVars
  <2>2. /\ \A q \in Parties \ {p} : query'[q] = query[q]
        /\ query'[p].pc = "idle" /\ query'[p].feed = query[p].seen /\ query'[p].seen = 0
        /\ query'[p].loaded /\ ~query'[p].invalid
    BY <1>14, <1>y DEF FetchLands, NoListing
  <2>3. \A t \in Texts : Within(t, p, query[p].seen) => (Within(t, p, query[p].feed))'
    BY <2>1, <2>2 DEF Within
  <2>4. \A t \in Texts : Logged(t, p) /\ Follows(t, p) => Follows(t, p)'
    BY <2>1, <2>2, <2>3 DEF Follows
  <2>5. query'[p].feed <= Len(log[p]) /\ query'[p].seen <= Len(log[p])
    BY <1>y, <2>2 DEF Listings
  <2> QED
    BY <1>q, <2>1, <2>2, <2>4, <2>5
<1>9. ASSUME NEW p \in Parties, FetchFails(p) PROVE Listings'
  <2>1. UNCHANGED <<page, send, log, strayed, swallowed>>
    BY <1>9 DEF FetchFails, consoleVars, historyVars
  <2>2. /\ \A q \in Parties \ {p} : query'[q] = query[q]
        /\ query'[p].pc = "failed" /\ query'[p].feed = query[p].feed /\ query'[p].seen = 0
    BY <1>9, <1>y DEF FetchFails, QueryType
  <2>3. \A t \in Texts : Follows(t, p)'
    BY <2>2 DEF Follows
  <2>4. query'[p].feed <= Len(log[p]) /\ query'[p].seen <= Len(log[p])
    BY <1>y, <2>2 DEF Listings
  <2> QED
    BY <1>q, <2>1, <2>2, <2>3, <2>4
<1>10. ASSUME NEW t \in Texts, Inserted(t) PROVE Listings'
  <2>1. send[t].party \in Parties /\ Store(send[t].party, t) /\ UNCHANGED <<page, strayed>>
    BY <1>10 DEF Inserted, Sends, InFlight, historyVars
  <2>2. /\ send'[t].pc = "stored" /\ send'[t].party = send[t].party
        /\ \A u \in Texts \ {t} : send'[u] = send[u]
    BY <1>10, <1>y DEF Inserted, SendType
  <2> QED
    BY <1>s, <2>1, <2>2
<1>11. ASSUME NEW t \in Texts, sendSucceeds(t) PROVE Listings'
  <2>1. /\ send[t].pc = "stored" /\ UNCHANGED <<page, log>>
        /\ send[t].party \in Parties
        /\ \A q \in Parties : send[t].party = q => Logged(t, q)
    BY <1>11 DEF sendSucceeds, Listings
  <2>2. /\ send'[t].party = send[t].party /\ \A u \in Texts \ {t} : send'[u] = send[u]
    BY <1>11, <1>y DEF sendSucceeds, SendType
  <2>3. /\ Steady
        /\ \A p \in Parties \cap {LastRoom(t)} :
             \/ query'[p].pc \in {"asked", "failed"} \/ p \in swallowed'
             \/ query'[p].pc = "idle" /\ (~query'[p].loaded \/ query'[p].invalid)
    BY <1>11, <2>1, InvalidateSteady DEF sendSucceeds, Invalidated
  <2>4. (~strayed' => ~strayed) /\ (~strayed' => send[t].party = LastRoom(t))
    BY <1>11, <1>b DEF sendSucceeds
  <2>5. ASSUME NEW q \in Parties, send[t].party = q, ~strayed' PROVE Follows(t, q)'
    BY <2>3, <2>4, <2>5 DEF Follows
  <2>6. \A q \in Parties : query'[q].feed <= Len(log'[q]) /\ query'[q].seen <= Len(log'[q])
    BY <2>1, <2>3 DEF Steady
  <2>7. ASSUME NEW u \in Texts, NEW q \in Parties, send'[u].party = q
        PROVE  /\ send'[u].pc \in {"stored", "done"} => Logged(u, q)'
               /\ send'[u].pc = "done" /\ ~strayed' => Follows(u, q)'
    <3>1. (Logged(u, q) => Logged(u, q)') /\ (Follows(u, q) => Follows(u, q)')
      BY <1>f, <2>1, <2>3
    <3>2. CASE u = t
      <4>1. send[t].party = q
        BY <2>2, <2>7, <3>2
      <4>2. ~strayed' => Follows(t, q)'
        BY <2>5, <4>1
      <4> QED
        BY <2>1, <3>1, <3>2, <4>1, <4>2
    <3>3. CASE u # t
      BY <2>2, <2>4, <2>7, <3>1, <3>3 DEF Listings
    <3> QED
      BY <3>2, <3>3
  <2>8. \A u \in Texts : send'[u].pc \in {"stored", "done"} => send'[u].party \in Parties
    BY <2>1, <2>2 DEF Listings
  <2>9. page' \in Parties /\ query'[page'].pc = "idle" => query'[page'].loaded /\ ~query'[page'].invalid
    BY <2>3 DEF Steady
  <2> QED
    BY <2>6, <2>7, <2>8, <2>9 DEF Listings
<1>12. ASSUME NEW t \in Texts, sendFails(t) PROVE Listings'
  <2>1. send'[t].pc = "failed" /\ \A u \in Texts \ {t} : send'[u] = send[u]
    BY <1>12, <1>y DEF sendFails, NoSend
  <2>2. UNCHANGED <<page, query, swallowed, log, strayed>>
    BY <1>12 DEF sendFails, cacheVars
  <2> QED
    BY <1>c, <1>u, <2>1, <2>2
<1>13. CASE UNCHANGED vars
  BY <1>13, <1>c, <1>u DEF vars, consoleVars, cacheVars, historyVars
<1> QED
  BY <1>1, <1>2, <1>3, <1>4, <1>5, <1>6, <1>7, <1>8, <1>9, <1>10, <1>11, <1>12, <1>13, <1>14 DEF Next

(* A message the user sent to the room on show, once answered, is on show, *)
(* or a fetch of the listing is in flight that will bring it; unless the   *)
(* listing could not be fetched or was invalidated in vain, or the message *)
(* was answered in another room, was cleared, or is beyond the page.       *)
THEOREM OwnMessageFollows == Spec => []OwnMessageDue
<1>1. Init => Listings
  <2> SUFFICES ASSUME Init PROVE Listings
    OBVIOUS
  <2>1. \A p \in Parties : query[p].feed = 0 /\ query[p].seen = 0 /\ Len(log[p]) = 0
    BY DEF Init, NoListing
  <2>2. \A t \in Texts : send[t].pc = "none"
    BY DEF Init, NoSend
  <2>3. page \notin Parties
    BY HomeAssumption DEF Init
  <2> QED
    BY <2>1, <2>2, <2>3 DEF Listings
<1>2. TypeInv /\ Listings => OwnMessageDue
  <2> SUFFICES ASSUME TypeInv, Listings, NEW t \in Texts,
                      send[t].pc = "done", send[t].party = page, ~strayed,
                      page \notin swallowed
               PROVE  \/ query[page].pc = "failed"
                      \/ query[page].pc = "asked"
                      \/ query[page].pc = "read" /\ Within(t, page, query[page].seen)
                      \/ /\ query[page].pc = "idle"
                         /\ OutOfSight(t, page) \/ Contains(renderedEntries(page), t)
    BY DEF OwnMessageDue
  <2>1. page \in Parties /\ query[page].feed <= Len(log[page])
    BY DEF Listings
  <2>2. /\ log[page] \in Seq(Texts \union {"other"}) /\ query[page].feed \in Nat
        /\ cutoff[page] \in Nat
    BY <2>1, Parts, PageAssumption DEF ConsoleTypes, ServerTypes, QueryType
  <2>3. Follows(t, page)
    BY <2>1 DEF Listings
  <2>4. Len(log[page]) \in Nat /\ DOMAIN log[page] = 1..Len(log[page])
    BY <2>2, LenProperties
  <2>5. ASSUME query[page].pc = "idle", ~OutOfSight(t, page) PROVE Contains(renderedEntries(page), t)
    <3>1. Within(t, page, query[page].feed)
      BY <2>1, <2>3, <2>5 DEF Follows, Listings
    <3>2. PICK i \in 1..Len(log[page]) : log[page][i] = t /\ (i > PageSize \/ i <= query[page].feed)
      BY <3>1 DEF Within
    <3>3. PICK c, f : c = cutoff[page] /\ f = query[page].feed
      OBVIOUS
    <3>4. c \in Nat /\ f \in Nat /\ f <= Len(log[page])
      BY <2>1, <2>2, <3>3
    <3>5. c < i /\ i <= f
      BY <2>4, <2>5, <3>2, <3>3, <3>4 DEF OutOfSight
    <3>6. \A j \in c + 1..f : log[page][j] \in Texts \union {"other"}
      BY <2>2, <2>4, <3>4, ElementOfSeq
    <3>7. /\ Len(SubSeq(log[page], c + 1, f)) = IF c + 1 <= f THEN f - (c + 1) + 1 ELSE 0
          /\ \A j \in 1..f - (c + 1) + 1 : SubSeq(log[page], c + 1, f)[j] = log[page][c + 1 + j - 1]
      <4>1. c + 1 \in Int /\ f \in Int
        BY <3>4
      <4> QED
        BY <3>6, <4>1, SubSeqProperties
    <3>8. renderedEntries(page) = SubSeq(log[page], c + 1, f)
      BY <3>3 DEF renderedEntries
    <3>9. /\ c + 1 <= f /\ f - (c + 1) + 1 = f - c /\ \A j \in Int : c + 1 + j - 1 = c + j
          /\ i - c \in 1..f - c /\ c + (i - c) = i
      BY <2>4, <3>2, <3>4, <3>5
    <3>10. Len(renderedEntries(page)) = f - c /\ renderedEntries(page)[i - c] = log[page][i]
      <4>1. i - c \in 1..f - (c + 1) + 1 /\ c + 1 + (i - c) - 1 = i /\ f - (c + 1) + 1 = f - c
        BY <2>4, <3>2, <3>4, <3>5
      <4>2. SubSeq(log[page], c + 1, f)[i - c] = log[page][c + 1 + (i - c) - 1]
        BY <3>7, <4>1
      <4> QED
        BY <3>7, <3>8, <3>9, <4>1, <4>2
    <3> QED
      BY <3>2, <3>9, <3>10 DEF Contains
  <2> QED
    BY <2>3, <2>5 DEF Follows
<1> QED
  BY InitTypes, InitSends, NextChat, NextListings, <1>1, <1>2, PTL DEF Spec
=============================================================================
