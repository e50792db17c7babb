------------------------------ MODULE RoomChat ------------------------------
(***************************************************************************)
(* The text console of a party room: the prompt, its slash commands and    *)
(* their suggestions (web/src/components/PartyTextChat.tsx,                *)
(* web/src/lib/chatCommands.ts, mounted by PartyPage.tsx), and the server  *)
(* that stores and lists the messages (src/routes/parties.rs).             *)
(*                                                                         *)
(* One user, one tab.  The console outlives a change of room, which the    *)
(* shell's Open Room link makes, and dies when the page is left, or the    *)
(* home view could not be fetched; what it started goes on without it, and *)
(* so does the fetch of a listing.  Each text is typed once, so copies of  *)
(* it are messages the user did not mean to send twice.  The console's own *)
(* lines, help and errors, are left out, and so are scrolling and the      *)
(* dropping of a listing that was not shown for five minutes.              *)
(*                                                                         *)
(* Whether the user is in the party is either way, by the home cache and   *)
(* again by the server.                                                    *)
(*                                                                         *)
(* External: the calls behind /joinvoice, /leavevoice and /leaveparty are  *)
(* those of VoiceSession and Parties; here they end well or not.  React    *)
(* Query gives a mutation in flight the callbacks of the last render, and  *)
(* keeps one that outlives its page.  Invalidating the listing on show     *)
(* fetches it anew, but for a first load in flight, which goes on; one     *)
(* that is not on show is marked, to be fetched when it comes on show.  A  *)
(* fetch that lands takes the mark off.                                    *)
(***************************************************************************)
EXTENDS Naturals, Sequences, FiniteSets, SequencesExt

CONSTANTS
  Parties,
  Texts,        \* what the user types to be sent
  PageSize,     \* the messages a listing holds
  MaxLog,       \* bound: messages of a party
  MaxCalls,     \* bound: commands that are awaited together
  MaxEvents     \* bound: pages opened, messages of others, fetches that fail,
                \* and messages reported as failed that were stored, together

ASSUME PageAssumption ==
  /\ PageSize \in Nat \ {0}
  /\ {MaxLog, MaxCalls, MaxEvents} \subseteq Nat

VARIABLES
  page,       \* the room on show, Home when there is no console
  draft,      \* what the prompt holds
  index,      \* of the suggestion that is highlighted, from 0
  send,       \* send[t]: how far sending t has come
  calls,      \* calls[k]: how many commands of kind k are awaited
  cutoff,     \* cutoff[p]: the messages of p that are older than /clear
  query,      \* query[p]: the cached listing of p and the fetch of it
  log,        \* log[p]: the stored messages of p, oldest first
  unsure,     \* history: unsure[t]: how often t was stored and reported failed
  typedOver,  \* history: the draft was changed while the console waited
  strayed,    \* history: a sent message was answered in another room
  swallowed,  \* history: the listings invalidated while a fetch that the server
              \* had answered went on, and not asked for since
  events

consoleVars == <<draft, index, send, calls, cutoff, typedOver>>
cacheVars == <<query, swallowed>>
historyVars == <<unsure, strayed>>
vars == <<page, consoleVars, cacheVars, log, historyVars, events>>

----------------------------------------------------------------------------
(* Drafts and suggestions *)

Home == "home"

ASSUME HomeAssumption == Home \notin Parties

SUPPORTED_CHAT_COMMANDS ==
  <<"help", "clear", "joinvoice", "leavevoice", "leaveparty", "parties">>

Commands == ToSet(SUPPORTED_CHAT_COMMANDS)

(* Drafts that begin with a slash: the slash alone, the start of two       *)
(* commands, a command, and one that is unknown or has arguments.          *)
Slashed == Commands \union {"slash", "leave", "unknown"}

Empty == "empty"

Drafts == {Empty} \union Texts \union Slashed

(* An empty prompt is not sent, and one that begins with a slash is not    *)
(* sent as text; messages of others are told apart from one's own.         *)
ASSUME TextAssumption == Texts \cap (Slashed \union {Empty, "other"}) = {}

(* What commandName.startsWith(query) leaves of the list. *)
getSlashCommandSuggestions(d) ==
  CASE d = "slash"   -> SUPPORTED_CHAT_COMMANDS
    [] d = "leave"   -> <<"leavevoice", "leaveparty">>
    [] d \in Commands -> <<d>>
    [] OTHER         -> <<>>

Suggestions == getSlashCommandSuggestions(draft)

(* min(index, length - 1), as a position from 1. *)
activeSuggestion == Suggestions[IF index < Len(Suggestions) THEN index + 1 ELSE Len(Suggestions)]

shouldAutocompleteOnEnter == draft = "leave"

(* setDraft, and the effect that resets the highlight when it changed. *)
SetDraft(d) == draft' = d /\ index' = IF d = draft THEN index ELSE 0

----------------------------------------------------------------------------
(* Sends and calls *)

NoSend == [pc |-> "none", party |-> Home, left |-> Home]

SendType ==
  [pc : {"none", "asked", "stored", "done", "failed"},
   party : Parties \union {Home},   \* the room on show when it was sent
   left : Parties \union {Home}]    \* the last room of its console, if that is gone

InFlight(t) == send[t].pc \in {"asked", "stored"}

isPending == \E t \in Texts : InFlight(t) /\ send[t].left = Home

(* The commands that are awaited: /joinvoice and /leavevoice, /leaveparty. *)
CallKinds == {"voice", "leaveparty"}

Waiting == isPending \/ \E k \in CallKinds : calls[k] > 0

(* The room of the last render of the console that sent t. *)
LastRoom(t) == IF send[t].left = Home THEN page ELSE send[t].left

(* Faulty variant: a listing without its limit. *)
ListedAll(p) == Len(log[p])

(* LIMIT 100, from the oldest. *)
Listed(p) == IF Len(log[p]) < PageSize THEN Len(log[p]) ELSE PageSize

(* A listing: its fetch, with how many messages the server answered, and   *)
(* how many are cached; invalid when it is to be fetched once on show.     *)
QueryType ==
  [pc : {"idle", "failed", "asked", "read"}, seen : 0..PageSize,
   loaded : BOOLEAN, feed : 0..PageSize, invalid : BOOLEAN]

NoListing == [pc |-> "idle", seen |-> 0, loaded |-> FALSE, feed |-> 0, invalid |-> FALSE]

Fetching(p) == query[p].pc \in {"asked", "read"}

isLoading(p) == ~query[p].loaded /\ Fetching(p)

(* The listings of ps are asked for. *)
Ask(ps) == [p \in Parties |-> IF p \in ps THEN [query[p] EXCEPT !.pc = "asked", !.seen = 0]
                                          ELSE query[p]]

(* invalidateQueries; a listing that has no messages yet needs no mark.    *)
Invalidate(ps) ==
  LET again == {p \in ps : p = page /\ ~isLoading(p)} IN
    /\ query' = [p \in Parties |-> [Ask(again)[p] EXCEPT !.invalid = @ \/ (p \in ps /\ query[p].loaded)]]
    /\ swallowed' = {p \in Parties \ again : p \in swallowed \/ (p \in ps /\ query[p].pc = "read")}

(* The messages on show: those of the cached listing that the cutoff left. *)
renderedEntries(p) == SubSeq(log[p], cutoff[p] + 1, query[p].feed)

Init ==
  /\ page = Home
  /\ draft = Empty /\ index = 0
  /\ send = [t \in Texts |-> NoSend] /\ calls = [k \in CallKinds |-> 0]
  /\ cutoff = [p \in Parties |-> 0]
  /\ query = [p \in Parties |-> NoListing] /\ swallowed = {}
  /\ log = [p \in Parties |-> <<>>]
  /\ unsure = [t \in Texts |-> 0]
  /\ typedOver = FALSE /\ strayed = FALSE
  /\ events = 0

(* Of these, MaxEvents happen. *)
Event == events < MaxEvents /\ events' = events + 1

----------------------------------------------------------------------------
(* Pages *)

(* Room p comes on show, or Home: the console goes with its last room, and *)
(* what it waits for cannot touch a console again, but /leaveparty can     *)
(* move the page.  A listing without messages is fetched, as is one that   *)
(* is marked or older than two seconds; one being fetched is waited for.   *)
Show(p) ==
  /\ page' = p
  /\ IF p = Home
       THEN /\ send' = [t \in Texts |->
                 IF InFlight(t) /\ send[t].left = Home THEN [send[t] EXCEPT !.left = page]
                                                      ELSE send[t]]
            /\ draft' = Empty /\ index' = 0 /\ typedOver' = FALSE
            /\ cutoff' = [q \in Parties |-> 0]
       ELSE UNCHANGED <<send, draft, index, typedOver, cutoff>>
  /\ \E old \in {{}, {p}} :
       LET asked == {q \in {p} \cap Parties :
                       ~Fetching(q) /\ (~query[q].loaded \/ query[q].invalid \/ q \in old)}
       IN query' = Ask(asked) /\ swallowed' = swallowed \ asked

(* What is left of the awaited commands when room p, or Home, is on show. *)
CallsAt(p) == IF p = Home THEN [calls EXCEPT !["voice"] = 0] ELSE calls

(* A link, or the browser's history. *)
Opens(p) ==
  /\ p # page /\ Event
  /\ Show(p)
  /\ calls' = CallsAt(p)
  /\ UNCHANGED <<log, historyVars>>

----------------------------------------------------------------------------
(* The prompt; it is disabled while the listing loads. *)

AtPrompt ==
  /\ page # Home /\ ~isLoading(page)
  /\ UNCHANGED <<page, cacheVars, log, events, historyVars>>

Types(d) ==
  /\ AtPrompt
  /\ d # draft /\ (d \in Texts => send[d] = NoSend)
  /\ SetDraft(d)
  /\ typedOver' = Waiting
  /\ UNCHANGED <<send, calls, cutoff>>

(* ArrowDown and ArrowUp over n suggestions. *)
ArrowTo(n) == {(index + 1) % n, (index + n - 1) % n}

(* The arrows and the mouse move the highlight. *)
Highlights ==
  /\ AtPrompt
  /\ Suggestions # <<>>
  /\ index' \in ArrowTo(Len(Suggestions)) \union 0..Len(Suggestions) - 1
  /\ UNCHANGED <<draft, send, calls, cutoff, typedOver>>

(* Tab, Enter on a part of a name, or a click. *)
applyCommandSuggestion ==
  /\ AtPrompt
  /\ Suggestions # <<>>
  /\ draft' = activeSuggestion /\ index' = 0
  /\ typedOver' = Waiting
  /\ UNCHANGED <<send, calls, cutoff>>

(* Faulty variant: the prompt does not look at isPending. *)
CanSubmitAgain == draft # Empty

CanSubmit == draft # Empty /\ ~isPending

Submits == AtPrompt /\ CanSubmit /\ ~shouldAutocompleteOnEnter

(* A command that is done at once empties the prompt; one that is refused, *)
(* as an unknown one and /leaveparty in a room the user is not in, leaves  *)
(* it.  Voice may be connected, connecting or neither.                     *)
handleCommand ==
  /\ Submits
  /\ \/ draft \in {"help", "clear", "joinvoice", "leavevoice"} /\ SetDraft(Empty)
     \/ draft \in {"slash", "unknown", "leaveparty"} /\ UNCHANGED <<draft, index>>
  /\ cutoff' = IF draft = "clear" THEN [p \in Parties |-> Len(log[p])] ELSE cutoff
  /\ UNCHANGED <<send, calls, typedOver>>

(* The awaited commands: the draft stays until they end, and can be        *)
(* submitted again.                                                        *)
awaitsCommand ==
  /\ Submits
  /\ draft \in {"joinvoice", "leavevoice", "leaveparty"}
  /\ calls["voice"] + calls["leaveparty"] < MaxCalls
  /\ calls' = [calls EXCEPT ![IF draft = "leaveparty" THEN draft ELSE "voice"] = @ + 1]
  /\ typedOver' = Waiting
  /\ UNCHANGED <<draft, index, send, cutoff>>

(* /parties leaves the page. *)
returnsToParties ==
  /\ page # Home /\ ~isLoading(page) /\ CanSubmit
  /\ draft = "parties"
  /\ Show(Home)
  /\ calls' = CallsAt(Home)
  /\ UNCHANGED <<log, events, historyVars>>

(* Outside of the party, by the home cache, nothing is sent. *)
submitDraft ==
  /\ Submits
  /\ draft \in Texts
  /\ send' = [send EXCEPT ![draft] = [pc |-> "asked", party |-> page, left |-> Home]]
  /\ typedOver' = Waiting
  /\ UNCHANGED <<draft, index, calls, cutoff>>

----------------------------------------------------------------------------
(* Awaited commands end *)

EmptyPrompt == SetDraft(Empty) /\ typedOver' = FALSE

(* The prompt is emptied, whatever it holds by then; /leaveparty goes to   *)
(* the dashboard from wherever the user is by then.                        *)
commandSucceeds(k) ==
  /\ calls[k] > 0
  /\ \/ /\ k = "leaveparty"
        /\ Show(Home)
        /\ calls' = [CallsAt(Home) EXCEPT ![k] = @ - 1]
     \/ /\ k = "voice"
        /\ EmptyPrompt
        /\ calls' = [calls EXCEPT ![k] = @ - 1]
        /\ UNCHANGED <<page, send, cutoff, cacheVars>>
  /\ UNCHANGED <<log, events, historyVars>>

commandFails(k) ==
  /\ calls[k] > 0
  /\ calls' = [calls EXCEPT ![k] = @ - 1]
  /\ UNCHANGED <<page, draft, index, send, cutoff, typedOver, cacheVars, log, events, historyVars>>

----------------------------------------------------------------------------
(* The server *)

(* A socket that is open hears of a stored message. *)
Store(p, m) ==
  /\ Len(log[p]) < MaxLog
  /\ log' = [log EXCEPT ![p] = Append(@, m)]
  /\ \E heard \in {{}, {p}} : Invalidate(heard)

(* post_message, when the user is in the party. *)
Inserted(t) ==
  /\ send[t].pc = "asked"
  /\ Store(send[t].party, t)
  /\ send' = [send EXCEPT ![t].pc = "stored"]
  /\ UNCHANGED <<page, draft, index, calls, cutoff, typedOver, events, historyVars>>

OthersPost(p) ==
  /\ Event
  /\ Store(p, "other")
  /\ UNCHANGED <<page, consoleVars, historyVars>>

(* list_messages: the oldest messages, as many as a page holds. *)
FetchRead(p) ==
  /\ query[p].pc = "asked"
  /\ query' = [query EXCEPT ![p].pc = "read", ![p].seen = Listed(p)]
  /\ UNCHANGED <<page, consoleVars, log, historyVars, swallowed, events>>

(* They arrive, on show or not. *)
FetchLands(p) ==
  /\ query[p].pc = "read"
  /\ query' = [query EXCEPT ![p] = [NoListing EXCEPT !.loaded = TRUE, !.feed = query[p].seen]]
  /\ UNCHANGED <<page, consoleVars, log, historyVars, swallowed, events>>

(* The fetch is refused or lost, and not tried again. *)
FetchFails(p) ==
  /\ Fetching(p) /\ Event
  /\ query' = [query EXCEPT ![p].pc = "failed", ![p].seen = 0]
  /\ UNCHANGED <<page, consoleVars, log, historyVars, swallowed>>

----------------------------------------------------------------------------
(* Answers to messages *)

(* Faulty variant: the feed is left to the event. *)
InvalidatedByEvent(t) == {}

(* The listing the success of t invalidates: that of the last render. *)
Invalidated(t) == {LastRoom(t)}

sendSucceeds(t) ==
  /\ send[t].pc = "stored"
  /\ send' = [send EXCEPT ![t].pc = "done", ![t].left = Home]
  /\ IF send[t].left = Home THEN EmptyPrompt ELSE UNCHANGED <<draft, index, typedOver>>
  /\ Invalidate(Invalidated(t))
  /\ strayed' = (strayed \/ LastRoom(t) # send[t].party)
  /\ UNCHANGED <<page, calls, cutoff, log, unsure, events>>

(* Faulty variant: a failure empties the prompt as a success does. *)
DraftAfterFailureLost == SetDraft(Empty)

DraftAfterFailure == UNCHANGED <<draft, index>>

(* Refused or lost, or an error after the insert: the text can be sent again. *)
sendFails(t) ==
  /\ InFlight(t)
  /\ IF send[t].pc = "stored" THEN Event /\ unsure' = [unsure EXCEPT ![t] = @ + 1]
                              ELSE UNCHANGED <<events, unsure>>
  /\ send' = [send EXCEPT ![t] = [NoSend EXCEPT !.pc = "failed"]]
  /\ DraftAfterFailure
  /\ UNCHANGED <<page, calls, cutoff, typedOver, cacheVars, log, strayed>>

----------------------------------------------------------------------------
Next ==
  \/ \E p \in Parties \union {Home} : Opens(p)
  \/ \E d \in Texts \union {"slash", "leave", "unknown"} : Types(d)
  \/ Highlights \/ applyCommandSuggestion
  \/ handleCommand \/ awaitsCommand \/ returnsToParties \/ submitDraft
  \/ \E k \in CallKinds : commandSucceeds(k) \/ commandFails(k)
  \/ \E p \in Parties : OthersPost(p) \/ FetchRead(p) \/ FetchLands(p) \/ FetchFails(p)
  \/ \E t \in Texts : Inserted(t) \/ sendSucceeds(t) \/ sendFails(t)

Spec == Init /\ [][Next]_vars

(* Fetches end. *)
FairSpec == Spec /\ \A p \in Parties : WF_vars(FetchRead(p)) /\ WF_vars(FetchLands(p))

----------------------------------------------------------------------------
(* Properties *)

(* Every variable has its type; the console is there with its page, and a  *)
(* listing holds at most a page.                                           *)
TypeOK ==
  /\ page \in Parties \union {Home}
  /\ draft \in Drafts /\ (page = Home => draft = Empty)
  /\ index \in 0..Len(SUPPORTED_CHAT_COMMANDS) - 1
  /\ send \in [Texts -> SendType] /\ calls \in [CallKinds -> 0..MaxCalls]
  /\ cutoff \in [Parties -> 0..MaxLog]
  /\ query \in [Parties -> QueryType] /\ swallowed \subseteq Parties
  /\ log \in [Parties -> Seq(Texts \union {"other"})]
  /\ unsure \in [Texts -> 0..MaxEvents]
  /\ typedOver \in BOOLEAN /\ strayed \in BOOLEAN /\ events \in 0..MaxEvents

(* Where t is in the logs: in which room, at which place.                  *)
Copies(t) == {at \in Parties \X (1..MaxLog) : at[2] <= Len(log[at[1]]) /\ log[at[1]][at[2]] = t}

(* A text is stored once, and once more at most for each time it was       *)
(* stored and reported as failed: Enter while it is on its way does        *)
(* nothing, and the answer empties the prompt.                             *)
NoDoubleSend == \A t \in Texts : Cardinality(Copies(t)) <= 1 + unsure[t]

(* A text leaves the prompt only when it has been stored, or the page is   *)
(* left; except that what was typed over a draft the console was waiting   *)
(* with goes with the answer.                                              *)
DraftKept ==
  [][ (draft \in Texts /\ draft' = Empty)
      => (page' = Home \/ Copies(draft) # {} \/ typedOver) ]_vars

(* The place of t in the log is beyond the page or before /clear. *)
OutOfSight(t, p) ==
  \E i \in DOMAIN log[p] : log[p][i] = t /\ (i > PageSize \/ i <= cutoff[p])

(* Again and again, every message of one's own that went out to the room   *)
(* on show is on show, although its event was lost; unless it was answered *)
(* in another room, was cleared, the listing could not be fetched or was   *)
(* invalidated by then while a fetch that the server had answered went on, *)
(* or the room has more messages than it holds, which are the oldest.      *)
OwnMessageShows ==
  []<>(\A t \in Texts :
         /\ send[t].pc = "done" /\ send[t].party = page /\ ~strayed
         /\ query[page].pc # "failed" /\ page \notin swallowed
         => OutOfSight(t, page) \/ Contains(renderedEntries(page), t))
=============================================================================
