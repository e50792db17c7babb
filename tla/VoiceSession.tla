---------------------------- MODULE VoiceSession ----------------------------
(***************************************************************************)
(* The party and voice session of one browser tab (web/src/party-session.tsx *)
(* with the buttons of PartyPage, HomePage and ShellLayout that call it).  *)
(*                                                                         *)
(* A tab runs one thing at a time, up to the next await.  A call of        *)
(* joinParty, leaveParty, connectVoice or handleSignOut is a slot; a step  *)
(* is what runs between two awaits.  A call reads the state of React as it *)
(* was rendered when the button was pressed (saw), and the ref as it is.   *)
(* An await of something already settled does not let others run.          *)
(*                                                                         *)
(* External: the server, here the party it has the user in, which another  *)
(* tab or a finalizer may change; and LiveKit, whose connect and microphone *)
(* requests may succeed or fail and which may close a room.                *)
(***************************************************************************)
EXTENDS Naturals, FiniteSets

CONSTANTS
  Parties, NoParty,
  Rooms, NoRoom,     \* the Room objects that can be in use; bound
  Calls,             \* slots for calls in flight
  OneCallAtATime,    \* TRUE: the user waits for a party or voice call to end
  Company,           \* TRUE: somebody else may be in a room
  Buttons            \* which buttons the user uses

ASSUME NullAssumption == NoParty \notin Parties /\ NoRoom \notin Rooms
ASSUME FlagAssumption == {OneCallAtATime, Company} \subseteq BOOLEAN
ASSUME ButtonAssumption ==
  Buttons \subseteq {"join", "leave", "voice", "leave voice", "isolation", "sign out"}

VARIABLES
  seat,        \* external: the party the server has the user in
  active,      \* activePartyId: the same, as the tab's cached home view says
  mounted,     \* the PartySessionProvider is there
  due,         \* the voice effect's dependencies changed since it last ran
  roomRef,     \* roomRef.current
  voiceParty,  \* voicePartyId
  voiceState,
  peers,       \* remoteParticipants, and the elements at audioMountRef
  busy,        \* connectingVoicePartyId, joiningPartyId and leavingPartyId
  isolation,   \* voiceIsolationEnabled
  applying,    \* setVoiceIsolationEnabled awaits a restart: its room and
               \* previous value
  room,        \* external: room[r], the LiveKit connection of room r
  call         \* call[c]: where the call in slot c stands

sessionVars == <<roomRef, voiceParty, voiceState, peers, room>>
serverVars == <<seat, active>>
microphoneVars == <<isolation, applying>>
vars == <<seat, active, mounted, due, roomRef, voiceParty, voiceState, peers,
          busy, isolation, applying, room, call>>

----------------------------------------------------------------------------
(* State *)

MaybeParty == Parties \union {NoParty}
MaybeRoom == Rooms \union {NoRoom}

(* Whether somebody else is in a room, and her audio track subscribed;     *)
(* "missed": while the room was not in the ref.                            *)
Peer == {"away", "here", "heard", "missed"}

(* isolation: the option its microphone was opened or restarted with.      *)
(* adrift: history: a failed call left the room in the ref with            *)
(* voicePartyId reset.                                                     *)
Connection == [party : MaybeParty, isolation : BOOLEAN, peer : Peer, adrift : BOOLEAN]

(* A room that is not connected, yet or any more. *)
Closed == [party |-> NoParty, isolation |-> FALSE, peer |-> "away", adrift |-> FALSE]

(* Whether anybody is listed, and the rooms with an audio element.         *)
NoPeers == [listed |-> FALSE, playing |-> {}]

(* What the render a call was made from shows; Blank once it is not read   *)
(* any more.                                                               *)
Rendered == [party : MaybeParty, state : {"idle", "connecting", "connected"},
             isolation : BOOLEAN]

Places == {"none", "join", "joined", "leave", "left", "token", "dial", "mic", "logout"}

CallType == [op : {"none", "join", "leave", "voice", "signout"}, pc : Places,
             party : MaybeParty, saw : Rendered, room : MaybeRoom]

Blank == [party |-> NoParty, state |-> "idle", isolation |-> FALSE]

NoCall == [op |-> "none", pc |-> "none", party |-> NoParty, saw |-> Blank, room |-> NoRoom]

NotApplying == [room |-> NoRoom, previous |-> FALSE]

Idle == [connecting |-> NoParty, joining |-> NoParty, leaving |-> NoParty]

Init ==
  /\ seat \in MaybeParty
  /\ active = seat
  /\ mounted = TRUE
  /\ due = FALSE
  /\ roomRef = NoRoom
  /\ voiceParty = NoParty
  /\ voiceState = "idle"
  /\ peers = NoPeers
  /\ busy = Idle
  /\ isolation \in BOOLEAN
  /\ applying = NotApplying
  /\ room = [r \in Rooms |-> Closed]
  /\ call = [c \in Calls |-> NoCall]

At(c, place) == call[c].pc = place

Goto(c, place) == call' = [call EXCEPT ![c].pc = place]

Return(c) == call' = [call EXCEPT ![c] = NoCall]

Now == [party |-> voiceParty, state |-> voiceState, isolation |-> isolation]

Connected(r) == r # NoRoom /\ room[r] # Closed

(* syncRemoteParticipants: the list is empty, or has the others of room r. *)
Listing(r) == room[r].peer # "away"

(* Which buttons are there and not disabled: Join on the card or the page  *)
(* of party p, Leave Party, and Join Voice or Join Party + Voice on its    *)
(* page.                                                                   *)
CanJoin(p) == active # p /\ busy.joining # p

CanLeave == active # NoParty /\ busy.leaving # active

CanJoinVoice(p) ==
  /\ ~(voiceState = "connected" /\ voiceParty = p)
  /\ ~(voiceState = "connecting" /\ busy.connecting = p)

(* The user presses a button: slot c is free, and with OneCallAtATime no   *)
(* other call is in flight and no microphone is being restarted.           *)
Press(c, button) ==
  /\ mounted
  /\ button \in Buttons
  /\ call[c] = NoCall
  /\ OneCallAtATime => applying = NotApplying /\ \A d \in Calls : call[d] = NoCall

Enter(c, op, place, p, saw) ==
  call' = [call EXCEPT ![c] = [op |-> op, pc |-> place, party |-> p, saw |-> saw,
                               room |-> NoRoom]]

(* The cached home view now says p; there is none after the sign-out. *)
Show(p) == active' = IF mounted THEN p ELSE active

(* room.disconnect(), if there is a room *)
Hang(r) == room' = IF r = NoRoom THEN room ELSE [room EXCEPT ![r] = Closed]

Forget ==
  /\ roomRef' = NoRoom
  /\ voiceParty' = NoParty
  /\ voiceState' = "idle"
  /\ peers' = NoPeers

DisconnectVoice == Hang(roomRef) /\ Forget

(* The render that follows a step has the voice effect run again when one  *)
(* of its dependencies changed.                                            *)
Rerender == due' = (due \/ active' # active \/ voiceParty' # voiceParty)

----------------------------------------------------------------------------
(* The server, the home view and LiveKit *)

(* Another tab, or the finalizer of her last socket, moves the user.      *)
MovedElsewhere ==
  /\ seat' \in MaybeParty \ {seat}
  /\ UNCHANGED <<active, mounted, due, sessionVars, busy, microphoneVars, call>>

(* A refetch of the home view is answered. *)
Refetched ==
  /\ mounted
  /\ active # seat
  /\ active' = seat
  /\ UNCHANGED <<seat, mounted, sessionVars, busy, microphoneVars, call>>
  /\ Rerender

(* Faulty variant: the effect looks only for a party that was left. *)
VoiceEffectOnLeaveOnly ==
  /\ mounted
  /\ due
  /\ IF roomRef # NoRoom /\ active = NoParty THEN DisconnectVoice
                                             ELSE UNCHANGED sessionVars
  /\ due' = (voiceParty' # voiceParty)
  /\ UNCHANGED <<serverVars, mounted, busy, microphoneVars, call>>

(* The effect on [activePartyId, voicePartyId] runs some time after either *)
(* changed: it hangs up when the user is in no party, or in another one    *)
(* than the one voice is connected to.                                     *)
VoiceEffect ==
  /\ mounted
  /\ due
  /\ IF /\ roomRef # NoRoom
        /\ active = NoParty \/ (voiceParty # NoParty /\ active # voiceParty)
       THEN DisconnectVoice
       ELSE UNCHANGED sessionVars
  /\ due' = (voiceParty' # voiceParty)
  /\ UNCHANGED <<serverVars, mounted, busy, microphoneVars, call>>

(* LiveKit closes room r.  Its Disconnected event counts only for the room *)
(* in the ref; the audio element of another is silent from now on.         *)
RoomDrops(r) ==
  /\ Connected(r)
  /\ Hang(r)
  /\ IF roomRef = r THEN Forget
                    ELSE /\ peers' = [peers EXCEPT !.playing = @ \ {r}]
                         /\ UNCHANGED <<roomRef, voiceParty, voiceState>>
  /\ UNCHANGED <<serverVars, mounted, busy, microphoneVars, call>>
  /\ Rerender

(* Somebody else in room r becomes `peer`, and the tab shows `now`.  The   *)
(* handlers pass over the events of rooms that are not in the ref.         *)
PeerBecomes(r, peer, now) ==
  /\ room' = [room EXCEPT ![r].peer = peer]
  /\ peers' = IF roomRef = r THEN now ELSE peers
  /\ UNCHANGED <<serverVars, mounted, due, roomRef, voiceParty, voiceState, busy,
                 microphoneVars, call>>

ParticipantConnected(r) ==
  /\ Company /\ Connected(r) /\ room[r].peer = "away"
  /\ PeerBecomes(r, "here", [peers EXCEPT !.listed = TRUE])

ParticipantDisconnected(r) ==
  /\ room[r].peer = "here"
  /\ PeerBecomes(r, "away", [peers EXCEPT !.listed = FALSE])

TrackSubscribed(r) ==
  /\ room[r].peer = "here"
  /\ PeerBecomes(r, IF roomRef = r THEN "heard" ELSE "missed",
                  [listed |-> TRUE, playing |-> peers.playing \union {r}])

(* Her track ends, as before she goes. *)
TrackUnsubscribed(r) ==
  /\ room[r].peer \in {"heard", "missed"}
  /\ PeerBecomes(r, "here", [listed |-> TRUE, playing |-> peers.playing \ {r}])

----------------------------------------------------------------------------
(* joinParty and leaveParty *)

JoinPressed(c, p) ==
  /\ Press(c, "join") /\ CanJoin(p)
  /\ busy' = [busy EXCEPT !.joining = p]
  /\ Enter(c, "join", "join", p, Blank)
  /\ UNCHANGED <<serverVars, mounted, due, sessionVars, microphoneVars>>

(* The server seats the user; the answer is under way. *)
JoinServed(c) ==
  /\ At(c, "join") /\ mounted
  /\ seat' = call[c].party
  /\ Goto(c, "joined")
  /\ UNCHANGED <<active, mounted, due, sessionVars, busy, microphoneVars>>

JoinAnswered(c) ==
  /\ At(c, "joined") /\ call[c].op = "join"
  /\ Show(call[c].party)
  /\ busy' = [busy EXCEPT !.joining = NoParty]
  /\ Return(c)
  /\ UNCHANGED <<seat, mounted, sessionVars, microphoneVars>>
  /\ Rerender

LeavePressed(c) ==
  /\ Press(c, "leave") /\ CanLeave
  /\ busy' = [busy EXCEPT !.leaving = active]
  /\ Enter(c, "leave", "leave", active, [Blank EXCEPT !.party = voiceParty])
  /\ UNCHANGED <<serverVars, mounted, due, sessionVars, microphoneVars>>

(* The server refuses to leave a party the user is not in; see CallFails. *)
LeaveServed(c) ==
  /\ At(c, "leave") /\ mounted
  /\ seat = call[c].party
  /\ seat' = NoParty
  /\ Goto(c, "left")
  /\ UNCHANGED <<active, mounted, due, sessionVars, busy, microphoneVars>>

LeaveAnswered(c) ==
  /\ At(c, "left")
  /\ Show(NoParty)
  /\ IF call[c].saw.party = call[c].party THEN DisconnectVoice
                                          ELSE UNCHANGED sessionVars
  /\ busy' = [busy EXCEPT !.leaving = NoParty]
  /\ Return(c)
  /\ UNCHANGED <<seat, mounted, microphoneVars>>
  /\ Rerender

----------------------------------------------------------------------------
(* connectVoice *)

(* Faulty variant: connectVoice keeps the old room when it moves on. *)
RequestVoiceOverOld(c, saw, p, later) ==
  IF roomRef # NoRoom /\ saw.party = p /\ saw.state = "connected"
    THEN /\ Return(c)
         /\ busy' = [later EXCEPT !.connecting = NoParty]
         /\ UNCHANGED sessionVars
    ELSE /\ Enter(c, "voice", "token", p, [Blank EXCEPT !.isolation = saw.isolation])
         /\ busy' = later
         /\ voiceState' = "connecting"
         /\ UNCHANGED <<roomRef, voiceParty, peers, room>>

(* What connectVoice does once the user is in party p: nothing when it is  *)
(* connected there, else it hangs up on another party and asks for a token. *)
(* later: what busy is by then.                                            *)
RequestVoice(c, saw, p, later) ==
  IF roomRef # NoRoom /\ saw.party = p /\ saw.state = "connected"
    THEN /\ Return(c)
         /\ busy' = [later EXCEPT !.connecting = NoParty]
         /\ UNCHANGED sessionVars
    ELSE /\ Enter(c, "voice", "token", p, [Blank EXCEPT !.isolation = saw.isolation])
         /\ busy' = later
         /\ voiceState' = "connecting"
         /\ IF roomRef # NoRoom /\ saw.party \notin {NoParty, p}
              THEN Hang(roomRef) /\ roomRef' = NoRoom /\ voiceParty' = NoParty /\ peers' = NoPeers
              ELSE UNCHANGED <<roomRef, voiceParty, peers, room>>

(* Join Voice, Join Party + Voice, or /joinvoice, on the page of party p.  *)
VoicePressed(c, p) ==
  /\ Press(c, "voice") /\ CanJoinVoice(p)
  /\ IF active = p
       THEN RequestVoice(c, Now, p, [busy EXCEPT !.connecting = p])
       ELSE /\ busy' = [connecting |-> p, joining |-> p, leaving |-> busy.leaving]
            /\ Enter(c, "voice", "join", p, Now)
            /\ UNCHANGED sessionVars
  /\ UNCHANGED <<serverVars, mounted, microphoneVars>>
  /\ Rerender

VoiceJoined(c) ==
  /\ At(c, "joined") /\ call[c].op = "voice"
  /\ Show(call[c].party)
  /\ RequestVoice(c, call[c].saw, call[c].party, [busy EXCEPT !.joining = NoParty])
  /\ UNCHANGED <<seat, mounted, microphoneVars>>
  /\ Rerender

(* The server grants a token to a member; a Room is made and connects.     *)
TokenGranted(c) ==
  /\ At(c, "token") /\ mounted
  /\ seat = call[c].party
  /\ \E r \in Rooms :
       /\ room[r] = Closed /\ roomRef # r
       /\ \A d \in Calls : call[d].room # r
       /\ applying.room # r
       /\ call' = [call EXCEPT ![c].pc = "dial", ![c].room = r]
  /\ UNCHANGED <<serverVars, mounted, due, sessionVars, busy, microphoneVars>>

(* Faulty variant: the room counts as one of the party on show. *)
RoomConnectsByView(c) ==
  /\ At(c, "dial")
  /\ room' = [room EXCEPT ![call[c].room] =
                [party |-> active, isolation |-> call[c].saw.isolation, peer |-> "away",
                 adrift |-> FALSE]]
  /\ roomRef' = call[c].room
  /\ Goto(c, "mic")
  /\ UNCHANGED <<serverVars, mounted, due, voiceParty, voiceState, peers, busy, microphoneVars>>

(* connect() resolves: the room is live and takes the place of whatever    *)
(* room the ref held; its microphone opens with the options of the render  *)
(* the call was made from.  Events of others that came before are lost.    *)
RoomConnects(c) ==
  /\ At(c, "dial")
  /\ \E peer \in IF Company THEN {"away", "here", "missed"} ELSE {"away"} :
       room' = [room EXCEPT ![call[c].room] =
                  [party |-> call[c].party, isolation |-> call[c].saw.isolation,
                   peer |-> peer, adrift |-> FALSE]]
  /\ roomRef' = call[c].room
  /\ Goto(c, "mic")
  /\ UNCHANGED <<serverVars, mounted, due, voiceParty, voiceState, peers, busy, microphoneVars>>

(* Faulty variant: the others are listed by their events alone. *)
MicrophoneOpensUnlisted(c) ==
  /\ At(c, "mic")
  /\ voiceParty' = call[c].party
  /\ voiceState' = "connected"
  /\ UNCHANGED peers
  /\ busy' = [busy EXCEPT !.connecting = NoParty]
  /\ Return(c)
  /\ UNCHANGED <<serverVars, mounted, roomRef, room, microphoneVars>>
  /\ Rerender

(* setMicrophoneEnabled resolves, and syncRemoteParticipants lists those   *)
(* who are there.  Whether it can in a room that was closed meanwhile is   *)
(* LiveKit's to say.                                                       *)
MicrophoneOpens(c) ==
  /\ At(c, "mic")
  /\ voiceParty' = call[c].party
  /\ voiceState' = "connected"
  /\ peers' = [peers EXCEPT !.listed = Listing(call[c].room)]
  /\ busy' = [busy EXCEPT !.connecting = NoParty]
  /\ Return(c)
  /\ UNCHANGED <<serverVars, mounted, roomRef, room, microphoneVars>>
  /\ Rerender

(* A call that fails hangs up on its own room.  One in the ref that is not *)
(* this call's stays there with its microphone live: so the room the user  *)
(* was about to switch from, when the join is refused or its answer lost.  *)
Strand(c) ==
  /\ room' = [r \in Rooms |-> IF r = call[c].room THEN Closed
                              ELSE [room[r] EXCEPT !.adrift = @ \/ r = roomRef]]
  /\ roomRef' = IF roomRef = call[c].room THEN NoRoom ELSE roomRef

(* Faulty variant: connectingVoicePartyId is cleared on success only. *)
VoiceFailsConnecting(c) ==
  /\ Strand(c)
  /\ voiceParty' = NoParty
  /\ voiceState' = "idle"
  /\ peers' = NoPeers
  /\ busy' = [busy EXCEPT !.joining = IF call[c].pc \in {"join", "joined"} THEN NoParty ELSE @]

(* The catch and finally clauses of connectVoice, and the finally clause   *)
(* of joinParty within.                                                    *)
VoiceFails(c) ==
  /\ Strand(c)
  /\ voiceParty' = NoParty
  /\ voiceState' = "idle"
  /\ peers' = NoPeers
  /\ busy' = [busy EXCEPT !.connecting = NoParty,
                          !.joining = IF call[c].pc \in {"join", "joined"} THEN NoParty ELSE @]

(* A request is refused or its answer lost, or LiveKit fails. *)
CallFails(c) ==
  /\ CASE call[c].op = "voice" -> VoiceFails(c)
       [] call[c].op = "join" ->
            busy' = [busy EXCEPT !.joining = NoParty] /\ UNCHANGED sessionVars
       [] call[c].op = "leave" ->
            busy' = [busy EXCEPT !.leaving = NoParty] /\ UNCHANGED sessionVars
       [] call[c].op = "signout" -> UNCHANGED <<busy, sessionVars>>
       [] OTHER -> FALSE
  /\ Return(c)
  /\ UNCHANGED <<serverVars, mounted, microphoneVars>>
  /\ Rerender

----------------------------------------------------------------------------
(* Leave Voice, voice isolation, sign-out *)

LeaveVoicePressed ==
  /\ mounted /\ "leave voice" \in Buttons
  /\ voiceState = "connected" /\ voiceParty # NoParty
  /\ DisconnectVoice
  /\ UNCHANGED <<serverVars, mounted, busy, microphoneVars, call>>
  /\ Rerender

(* A live microphone is restarted with the new option.  With               *)
(* OneCallAtATime the user does not switch it while voice connects.        *)
IsolationToggled ==
  /\ mounted /\ "isolation" \in Buttons
  /\ OneCallAtATime => \A c \in Calls : call[c].op # "voice"
  /\ applying = NotApplying
  /\ isolation' = ~isolation
  /\ applying' = IF roomRef # NoRoom /\ voiceState = "connected"
                   THEN [room |-> roomRef, previous |-> isolation]
                   ELSE NotApplying
  /\ UNCHANGED <<serverVars, mounted, due, sessionVars, busy, call>>

(* Faulty variant: the setting does not go back. *)
IsolationAppliedAnyway ==
  /\ applying # NotApplying
  /\ applying' = NotApplying
  /\ \/ /\ room' = IF room[applying.room] = Closed THEN room
                   ELSE [room EXCEPT ![applying.room].isolation = ~applying.previous]
     \/ UNCHANGED room
  /\ UNCHANGED <<serverVars, mounted, due, sessionVars, busy, isolation, call>>

(* restartTrack resolves, or there was no track to restart; or it fails    *)
(* and the setting goes back.                                              *)
IsolationApplied ==
  /\ applying # NotApplying
  /\ applying' = NotApplying
  /\ \/ /\ room' = IF room[applying.room] = Closed THEN room
                   ELSE [room EXCEPT ![applying.room].isolation = ~applying.previous]
        /\ UNCHANGED isolation
     \/ isolation' = applying.previous /\ UNCHANGED room
  /\ UNCHANGED <<serverVars, mounted, due, roomRef, voiceParty, voiceState, peers, busy, call>>

(* handleSignOut disconnects voice, then asks the server to log out. *)
SignOutPressed(c) ==
  /\ "sign out" \in Buttons
  /\ mounted /\ call[c] = NoCall
  /\ \A d \in Calls : call[d].op # "signout"
  /\ DisconnectVoice
  /\ Enter(c, "signout", "logout", NoParty, Blank)
  /\ UNCHANGED <<serverVars, mounted, busy, microphoneVars>>
  /\ Rerender

(* The session is gone: the provider unmounts and hangs up.  Calls in      *)
(* flight go on.                                                           *)
SignedOut(c) ==
  /\ At(c, "logout")
  /\ mounted' = FALSE
  /\ Hang(roomRef)
  /\ roomRef' = NoRoom
  /\ peers' = NoPeers
  /\ Return(c)
  /\ UNCHANGED <<serverVars, due, voiceParty, voiceState, busy, microphoneVars>>

----------------------------------------------------------------------------
CallStep(c) ==
  \/ JoinServed(c) \/ JoinAnswered(c)
  \/ LeaveServed(c) \/ LeaveAnswered(c)
  \/ VoiceJoined(c) \/ TokenGranted(c) \/ RoomConnects(c) \/ MicrophoneOpens(c)
  \/ CallFails(c) \/ SignedOut(c)

Next ==
  \/ MovedElsewhere \/ Refetched \/ VoiceEffect
  \/ LeaveVoicePressed \/ IsolationToggled \/ IsolationApplied
  \/ \E r \in Rooms :
       \/ RoomDrops(r)
       \/ ParticipantConnected(r) \/ ParticipantDisconnected(r)
       \/ TrackSubscribed(r) \/ TrackUnsubscribed(r)
  \/ \E c \in Calls :
       \/ CallStep(c)
       \/ LeavePressed(c) \/ SignOutPressed(c)
       \/ \E p \in Parties : JoinPressed(c, p) \/ VoicePressed(c, p)

Spec == Init /\ [][Next]_vars

(* React runs the effects of a render, and every request ends. *)
Fairness == WF_vars(VoiceEffect) /\ \A c \in Calls : WF_vars(CallStep(c))

FairSpec == Spec /\ Fairness

----------------------------------------------------------------------------
(* Properties *)

(* Every variable has its type; a call that holds a room dials or opens    *)
(* the microphone, no two calls hold the same one, and a connected room is *)
(* one of a party.                                                         *)
TypeOK ==
  /\ seat \in MaybeParty /\ active \in MaybeParty
  /\ mounted \in BOOLEAN
  /\ due \in BOOLEAN
  /\ roomRef \in MaybeRoom
  /\ voiceParty \in MaybeParty
  /\ voiceState \in {"idle", "connecting", "connected"}
  /\ peers \in [listed : BOOLEAN, playing : SUBSET Rooms]
  /\ busy \in [connecting : MaybeParty, joining : MaybeParty, leaving : MaybeParty]
  /\ isolation \in BOOLEAN
  /\ applying \in [room : MaybeRoom, previous : BOOLEAN]
  /\ room \in [Rooms -> Connection]
  /\ \A r \in Rooms : room[r] # Closed => room[r].party \in Parties
  /\ call \in [Calls -> CallType]
  /\ \A c \in Calls :
       /\ (call[c].room # NoRoom) <=> (call[c].pc \in {"dial", "mic"})
       /\ \A d \in Calls \ {c} : call[c].room # NoRoom => call[d].room # call[c].room

(* While the user waits for each call to end, the only room LiveKit has    *)
(* connected is the one in the ref, which every way to hang up reaches: no *)
(* microphone is live that the tab cannot turn off.  Excepted is a room    *)
(* that a refused switch left in the ref (adrift): the next connectVoice   *)
(* loses it.                                                               *)
OneLiveRoom == \A r \in Rooms : Connected(r) => r = roomRef \/ room[r].adrift

(* Then also: between voice calls, and unless the room in the ref is       *)
(* adrift, the tab says that voice is connected, and to the right party,   *)
(* whenever it is; it lists those who are in the room, and plays them,     *)
(* except one whose track was subscribed before connect() resolved; and    *)
(* nobody of another room is played on, but of one that was adrift.        *)
VoiceAsShown ==
  (\A c \in Calls : call[c].op # "voice") =>
    IF roomRef = NoRoom
      THEN peers = NoPeers
      ELSE \/ room[roomRef].adrift
           \/ /\ voiceState = "connected" /\ voiceParty = room[roomRef].party
              /\ peers.listed <=> Listing(roomRef)
              /\ roomRef \in peers.playing <=> room[roomRef].peer = "heard"
              /\ \A r \in peers.playing \ {roomRef} : room[r].adrift

(* Then also: between voice calls, once the effect ran, voice is only      *)
(* connected to the party the home view has the user in, however the view, *)
(* LiveKit and the calls before interleaved; unless its room is adrift.    *)
SettledInParty ==
  mounted /\ ~due /\ roomRef # NoRoom
    /\ (\A c \in Calls : call[c].op # "voice")
  => active = room[roomRef].party \/ room[roomRef].adrift

(* However calls overlap and fail, none leaves a spinner behind: with no   *)
(* call in flight nothing reads as connecting, joining or leaving.         *)
NeverStuckBusy ==
  (\A c \in Calls : call[c] = NoCall) => busy = Idle /\ voiceState # "connecting"

(* A room connected to a party the user is no longer shown in is hung up,  *)
(* or the user is shown in that party again; unless it is adrift.          *)
VoiceFollowsParty ==
  \A r \in Rooms, p \in Parties :
    (room[r].party = p /\ active # p)
    ~> (room[r].party # p \/ active = p \/ room[r].adrift)

(* Then also: the live microphone has the voice isolation the button       *)
(* shows, unless a change of it is being applied, however hang-ups,        *)
(* reconnects and failing restarts of the track follow each other.         *)
MicrophoneAsShown ==
  voiceState = "connected" /\ roomRef # NoRoom /\ applying = NotApplying =>
    room[roomRef].isolation = isolation

(* "roomRef.current?.disconnect()" in the provider's cleanup               *)
(* (party-session.tsx:108): after the sign-out, once the calls have ended, *)
(* no room is live.                                                        *)
SignedOutIsSilent ==
  ~mounted /\ (\A c \in Calls : call[c] = NoCall) => \A r \in Rooms : ~Connected(r)
=============================================================================
