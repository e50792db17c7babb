-------------------------- MODULE VoiceSessionProofs --------------------------
(***************************************************************************)
(* Proofs about VoiceSession, for any parties, rooms, calls and buttons.   *)
(***************************************************************************)
EXTENDS VoiceSession, TLAPS

----------------------------------------------------------------------------
(* Types *)

(* Where a call of each kind can stand. *)
PlacesOf(op) ==
  CASE op = "none"    -> {"none"}
    [] op = "join"    -> {"join", "joined"}
    [] op = "leave"   -> {"leave", "left"}
    [] op = "voice"   -> {"join", "joined", "token", "dial", "mic"}
    [] op = "signout" -> {"logout"}

(* The conjuncts of TypeOK about one call, which stands at a place of its  *)
(* own code and is about a party unless it is a sign-out.                  *)
InPlace(k) ==
  /\ k \in CallType
  /\ k.pc \in PlacesOf(k.op)
  /\ k.op \in {"join", "leave", "voice"} => k.party \in Parties
  /\ (k.room # NoRoom) <=> (k.pc \in {"dial", "mic"})

(* Also, the room in the ref is connected.                                 *)
TypeInv ==
  /\ TypeOK
  /\ \A r \in Rooms : roomRef = r => room[r] # Closed
  /\ \A c \in Calls : InPlace(call[c])

(* The state but for the calls has its type after a step. *)
RestTyped ==
  /\ seat' \in MaybeParty /\ active' \in MaybeParty
  /\ mounted' \in BOOLEAN
  /\ due' \in BOOLEAN
  /\ busy' \in [connecting : MaybeParty, joining : MaybeParty, leaving : MaybeParty]
  /\ isolation' \in BOOLEAN
  /\ applying' \in [room : MaybeRoom, previous : BOOLEAN]

(* ... and what a hang-up changes. *)
SessionTyped ==
  /\ roomRef' \in MaybeRoom
  /\ voiceParty' \in MaybeParty
  /\ voiceState' \in {"idle", "connecting", "connected"}
  /\ peers' \in [listed : BOOLEAN, playing : SUBSET Rooms]
  /\ room' \in [Rooms -> Connection]
  /\ \A r \in Rooms : room'[r] # Closed => room'[r].party \in Parties
  /\ \A r \in Rooms : roomRef' = r => room'[r] # Closed

(* An empty slot is a well-typed call. *)
LEMMA NoCallInPlace == InPlace(NoCall)
  BY NullAssumption DEF InPlace, NoCall, CallType, Places, PlacesOf, MaybeParty, MaybeRoom,
     Rendered, Blank

(* A step of one call that takes no new room keeps the types. *)
LEMMA OneCall ==
  ASSUME TypeInv, RestTyped, SessionTyped, NEW c \in Calls, NEW k, InPlace(k),
         call' = [call EXCEPT ![c] = k], k.room \in {NoRoom, call[c].room}
  PROVE  TypeInv'
<1>1. \A d \in Calls : call'[d] = IF d = c THEN k ELSE call[d]
  BY DEF TypeInv, TypeOK
<1>2. call' \in [Calls -> CallType]
  BY DEF TypeInv, TypeOK, InPlace
<1>3. \A d \in Calls : InPlace(call'[d])
  BY <1>1 DEF TypeInv
<1>4. ASSUME NEW d \in Calls, NEW e \in Calls \ {d}, call'[d].room # NoRoom
      PROVE  call'[e].room # call'[d].room
  BY <1>1, <1>4 DEF TypeInv, TypeOK
<1> QED
  BY <1>2, <1>3, <1>4 DEF TypeInv, TypeOK, RestTyped, SessionTyped, InPlace

(* A step of no call does. *)
LEMMA SameCalls ==
  ASSUME TypeInv, RestTyped, SessionTyped, call' = call
  PROVE  TypeInv'
  BY DEF TypeInv, TypeOK, RestTyped, SessionTyped

(* A call that ends frees its slot. *)
LEMMA ReturnTypes ==
  ASSUME TypeInv, RestTyped, SessionTyped, NEW c \in Calls, Return(c)
  PROVE  TypeInv'
<1>1. NoCall.room = NoRoom
  BY DEF NoCall
<1> QED
  BY <1>1, NoCallInPlace, OneCall DEF Return

(* A call goes on to another place of its code, with the room it has. *)
LEMMA GotoTypes ==
  ASSUME TypeInv, RestTyped, SessionTyped, NEW c \in Calls, NEW place, Goto(c, place),
         place \in PlacesOf(call[c].op), place \in Places,
         place \in {"dial", "mic"} <=> call[c].pc \in {"dial", "mic"}
  PROVE  TypeInv'
<1> DEFINE k == [call[c] EXCEPT !.pc = place]
<1>1. InPlace(call[c])
  BY DEF TypeInv
<1>2. k \in CallType /\ k.pc = place /\ k.op = call[c].op /\ k.party = call[c].party
      /\ k.room = call[c].room
  BY <1>1 DEF InPlace, CallType
<1>3. InPlace(k)
  BY <1>1, <1>2 DEF InPlace
<1> HIDE DEF k
<1> QED
  BY <1>2, <1>3, OneCall DEF Goto, k

(* What is rendered now is what a call can see; so is what a call keeps of *)
(* it.                                                                     *)
LEMMA NowType == TypeOK => Now \in Rendered
  BY DEF TypeOK, Now, Rendered

LEMMA BlankType ==
  /\ Blank \in Rendered
  /\ \A p \in MaybeParty : [Blank EXCEPT !.party = p] \in Rendered
  /\ \A b \in BOOLEAN : [Blank EXCEPT !.isolation = b] \in Rendered
  BY DEF Blank, Rendered, MaybeParty

(* A button begins a call, which has no room yet. *)
LEMMA EnterTypes ==
  ASSUME TypeInv, RestTyped, SessionTyped, NEW c \in Calls,
         NEW op \in {"join", "leave", "voice", "signout"}, NEW place \in Places \ {"dial", "mic"},
         place \in PlacesOf(op), NEW p \in MaybeParty, op # "signout" => p \in Parties,
         NEW saw \in Rendered, Enter(c, op, place, p, saw)
  PROVE  TypeInv'
<1> DEFINE k == [op |-> op, pc |-> place, party |-> p, saw |-> saw, room |-> NoRoom]
<1>1. InPlace(k)
  BY DEF TypeInv, InPlace, CallType, MaybeRoom
<1>2. k.room = NoRoom
  OBVIOUS
<1> HIDE DEF k
<1> QED
  BY <1>1, <1>2, OneCall DEF Enter, k

(* Hanging up leaves every connected room one of a party. *)
LEMMA HangTypes ==
  ASSUME TypeOK, NEW r \in MaybeRoom, Hang(r)
  PROVE  /\ room' \in [Rooms -> Connection]
         /\ \A q \in Rooms : room'[q] # Closed => room'[q].party \in Parties
<1>1. Closed \in Connection
  BY DEF Closed, Connection, MaybeParty, Peer
<1> QED
  BY <1>1 DEF TypeOK, Hang

(* Closed is not adrift. *)
LEMMA StillClosed == [Closed EXCEPT !.adrift = FALSE] = Closed
<1>1. Closed \in [party : {NoParty}, isolation : BOOLEAN, peer : {"away"}, adrift : BOOLEAN]
      /\ Closed.adrift = FALSE
  BY DEF Closed
<1> QED
  BY <1>1

(* So does hanging up on a call's own room, and to set the others adrift.  *)
LEMMA StrandTypes ==
  ASSUME TypeInv, NEW c \in Calls, Strand(c)
  PROVE  /\ room' \in [Rooms -> Connection] /\ roomRef' \in MaybeRoom
         /\ \A q \in Rooms : room'[q] # Closed => room'[q].party \in Parties
         /\ \A q \in Rooms : roomRef' = q => room'[q] # Closed
<1>y. TypeOK
  BY DEF TypeInv
<1>1. Closed \in Connection
  BY DEF Closed, Connection, MaybeParty, Peer
<1>2. room' = [r \in Rooms |-> IF r = call[c].room THEN Closed
                              ELSE [room[r] EXCEPT !.adrift = room[r].adrift \/ r = roomRef]]
  BY DEF Strand
<1>3. ASSUME NEW r \in Rooms, r # call[c].room
      PROVE  /\ room'[r] \in Connection /\ room'[r].party = room[r].party
             /\ room[r] = Closed => room'[r] = Closed
  <2>1. room[r] \in Connection
    BY <1>y DEF TypeOK
  <2>2. PICK b \in BOOLEAN : b <=> (room[r].adrift \/ r = roomRef)
    OBVIOUS
  <2>3. (room[r].adrift \/ r = roomRef) = b
    BY <2>1, <2>2 DEF Connection
  <2>4. room'[r] = [room[r] EXCEPT !.adrift = b]
    BY <1>2, <1>3, <2>3
  <2>5. room'[r] \in Connection /\ room'[r].party = room[r].party
    BY <2>1, <2>4 DEF Connection
  <2>6. ASSUME room[r] = Closed PROVE room'[r] = Closed
    <3>1. b = FALSE
      BY <2>2, <2>6 DEF Closed, TypeInv
    <3>2. room'[r] = [Closed EXCEPT !.adrift = FALSE]
      BY <2>4, <2>6, <3>1
    <3> QED
      BY <3>2, StillClosed
  <2> QED
    BY <2>5, <2>6
<1>4. room' \in [Rooms -> Connection] /\ roomRef' \in MaybeRoom
  BY <1>1, <1>2, <1>3, <1>y DEF Strand, TypeOK, MaybeRoom
<1>5. ASSUME NEW r \in Rooms, room'[r] # Closed PROVE room'[r].party \in Parties
  <2>1. r # call[c].room
    BY <1>2, <1>5
  <2> QED
    BY <1>3, <1>5, <1>y, <2>1 DEF TypeOK
<1>6. ASSUME NEW r \in Rooms, roomRef' = r PROVE room'[r] # Closed
  <2>1. roomRef = r /\ r # call[c].room
    BY <1>6, NullAssumption DEF Strand
  <2>2. room[r] # Closed /\ room[r].party # NoParty
    BY <1>y, <2>1, NullAssumption DEF TypeInv, TypeOK
  <2> QED
    BY <1>3, <2>1, <2>2 DEF Closed
<1> QED
  BY <1>4, <1>5, <1>6

(* disconnectVoice leaves the session with its types. *)
LEMMA ForgetTypes ==
  ASSUME TypeOK, DisconnectVoice
  PROVE  SessionTyped
<1>1. roomRef \in MaybeRoom
  BY DEF TypeOK
<1> QED
  BY <1>1, HangTypes, NullAssumption
     DEF DisconnectVoice, Forget, SessionTyped, NoPeers, MaybeRoom, MaybeParty

(* So does a step that leaves it alone. *)
LEMMA SameSessionTypes ==
  ASSUME TypeInv, UNCHANGED sessionVars
  PROVE  SessionTyped
  BY DEF TypeInv, TypeOK, sessionVars, SessionTyped

(* connectVoice, once the user is in the party, returns or asks for a     *)
(* token: both keep the types.                                             *)
LEMMA RequestVoiceTypes ==
  ASSUME TypeInv, NEW c \in Calls, NEW p \in Parties, NEW saw \in Rendered, NEW later,
         RequestVoice(c, saw, p, later), RestTyped
  PROVE  TypeInv'
<1>1. CASE roomRef # NoRoom /\ saw.party = p /\ saw.state = "connected"
  <2>1. Return(c) /\ UNCHANGED sessionVars
    BY <1>1 DEF RequestVoice
  <2> QED
    BY <2>1, ReturnTypes, SameSessionTypes DEF TypeInv
<1>2. CASE ~(roomRef # NoRoom /\ saw.party = p /\ saw.state = "connected")
  <2>0. PICK kept \in Rendered : kept = [Blank EXCEPT !.isolation = saw.isolation]
    BY BlankType DEF Rendered
  <2> DEFINE k == [op |-> "voice", pc |-> "token", party |-> p, saw |-> kept, room |-> NoRoom]
  <2>1. InPlace(k) /\ k.room = NoRoom
    BY DEF InPlace, CallType, MaybeRoom, MaybeParty, Places, PlacesOf
  <2>2. call' = [call EXCEPT ![c] = k] /\ voiceState' = "connecting"
    BY <1>2, <2>0 DEF RequestVoice, Enter
  <2> HIDE DEF k
  <2>3. SessionTyped
    <3>1. CASE roomRef # NoRoom /\ saw.party \notin {NoParty, p}
      <4>1. Hang(roomRef) /\ roomRef' = NoRoom /\ voiceParty' = NoParty /\ peers' = NoPeers
        BY <1>2, <3>1 DEF RequestVoice
      <4> QED
        BY <2>2, <4>1, HangTypes, NullAssumption
           DEF TypeInv, TypeOK, SessionTyped, NoPeers, MaybeRoom, MaybeParty
    <3>2. CASE ~(roomRef # NoRoom /\ saw.party \notin {NoParty, p})
      <4>1. UNCHANGED <<roomRef, voiceParty, peers, room>>
        BY <1>2, <3>2 DEF RequestVoice
      <4> QED
        BY <2>2, <4>1 DEF TypeInv, TypeOK, SessionTyped
    <3> QED
      BY <3>1, <3>2
  <2> QED
    BY <2>1, <2>2, <2>3, OneCall
<1> QED
  BY <1>1, <1>2

(* Every step keeps the types, action by action. *)
LEMMA NextTypes == TypeInv /\ [Next]_vars => TypeInv'
<1> SUFFICES ASSUME TypeInv, [Next]_vars PROVE TypeInv'
  OBVIOUS
<1>y. TypeOK
  BY DEF TypeInv
<1>b. TRUE \in BOOLEAN /\ FALSE \in BOOLEAN /\ NoParty \in MaybeParty /\ Parties \subseteq MaybeParty
      /\ NoRoom \in MaybeRoom
  BY DEF MaybeParty, MaybeRoom
<1>i. \A c \in Calls : InPlace(call[c]) /\ call[c] \in CallType /\ call[c].party \in MaybeParty
        /\ call[c].saw \in Rendered /\ call[c].room \in MaybeRoom
  BY DEF TypeInv, InPlace, CallType
<1>d. Rerender => due' \in BOOLEAN
  BY <1>y DEF Rerender, TypeOK
<1>1. CASE MovedElsewhere
  BY <1>1, <1>y, SameCalls, SameSessionTypes DEF MovedElsewhere, RestTyped, TypeOK, microphoneVars
<1>2. CASE Refetched
  BY <1>2, <1>y, <1>d, SameCalls, SameSessionTypes DEF Refetched, RestTyped, TypeOK, microphoneVars
<1>3. CASE VoiceEffect
  <2>1. SessionTyped
    BY <1>3, <1>y, ForgetTypes, SameSessionTypes DEF VoiceEffect
  <2> QED
    BY <1>3, <1>y, <2>1, SameCalls DEF VoiceEffect, RestTyped, TypeOK, microphoneVars, serverVars
<1>4. ASSUME NEW r \in Rooms, RoomDrops(r) PROVE TypeInv'
  <2>1. /\ room' \in [Rooms -> Connection]
        /\ \A q \in Rooms : room'[q] # Closed => room'[q].party \in Parties
    BY <1>4, <1>y, HangTypes DEF RoomDrops, MaybeRoom
  <2>2. SessionTyped
    <3>1. CASE roomRef = r
      <4>1. Forget
        BY <1>4, <3>1 DEF RoomDrops
      <4> QED
        BY <1>b, <2>1, <4>1, NullAssumption DEF Forget, SessionTyped, NoPeers
    <3>2. CASE roomRef # r
      <4>1. peers' \in [listed : BOOLEAN, playing : SUBSET Rooms]
            /\ UNCHANGED <<roomRef, voiceParty, voiceState>>
        BY <1>4, <1>y, <3>2 DEF RoomDrops, TypeOK
      <4>2. \A q \in Rooms \ {r} : room'[q] = room[q]
        BY <1>4, <1>y DEF RoomDrops, Hang, TypeOK
      <4> QED
        BY <1>y, <2>1, <3>2, <4>1, <4>2 DEF SessionTyped, TypeInv, TypeOK
    <3> QED
      BY <3>1, <3>2
  <2> QED
    BY <1>4, <1>y, <1>d, <2>2, SameCalls DEF RoomDrops, RestTyped, TypeOK, microphoneVars, serverVars, Rerender
<1>p. ASSUME NEW r \in Rooms, NEW peer \in Peer, NEW now \in [listed : BOOLEAN, playing : SUBSET Rooms],
             PeerBecomes(r, peer, now), room[r] # Closed
      PROVE  TypeInv'
  <2> DEFINE k == [room[r] EXCEPT !.peer = peer]
  <2>1. k \in Connection /\ k.party \in Parties
    BY <1>p, <1>y DEF TypeOK, Connection
  <2>2. room' = [room EXCEPT ![r] = k]
    BY <1>p DEF PeerBecomes
  <2> HIDE DEF k
  <2>3. SessionTyped
    <3>1. k # Closed
      BY <2>1, NullAssumption DEF Closed
    <3> QED
      BY <1>p, <1>y, <2>1, <2>2, <3>1 DEF PeerBecomes, SessionTyped, TypeInv, TypeOK
  <2> QED
    BY <1>p, <1>y, <2>3, SameCalls DEF PeerBecomes, RestTyped, TypeOK, microphoneVars, serverVars
<1>5. ASSUME NEW r \in Rooms, ParticipantConnected(r) PROVE TypeInv'
  <2>1. "here" \in Peer
    BY DEF Peer
  <2>2. [peers EXCEPT !.listed = TRUE] \in [listed : BOOLEAN, playing : SUBSET Rooms]
    BY <1>y DEF TypeOK
  <2>3. room[r] # Closed
    BY <1>5 DEF ParticipantConnected, Connected, Closed
  <2> QED
    BY <1>5, <1>p, <2>1, <2>2, <2>3 DEF ParticipantConnected
<1>6. ASSUME NEW r \in Rooms, ParticipantDisconnected(r) PROVE TypeInv'
  <2>1. "away" \in Peer
    BY DEF Peer
  <2>2. [peers EXCEPT !.listed = FALSE] \in [listed : BOOLEAN, playing : SUBSET Rooms]
    BY <1>y DEF TypeOK
  <2>3. room[r] # Closed
    BY <1>6 DEF ParticipantDisconnected, Closed
  <2> QED
    BY <1>6, <1>p, <2>1, <2>2, <2>3 DEF ParticipantDisconnected
<1>7. ASSUME NEW r \in Rooms, TrackSubscribed(r) PROVE TypeInv'
  <2>1. (IF roomRef = r THEN "heard" ELSE "missed") \in Peer
    BY DEF Peer
  <2>2. [listed |-> TRUE, playing |-> peers.playing \union {r}]
          \in [listed : BOOLEAN, playing : SUBSET Rooms]
    BY <1>y DEF TypeOK
  <2>3. room[r] # Closed
    BY <1>7 DEF TrackSubscribed, Closed
  <2> QED
    BY <1>7, <1>p, <2>1, <2>2, <2>3 DEF TrackSubscribed
<1>8. ASSUME NEW r \in Rooms, TrackUnsubscribed(r) PROVE TypeInv'
  <2>1. "here" \in Peer
    BY DEF Peer
  <2>2. [listed |-> TRUE, playing |-> peers.playing \ {r}]
          \in [listed : BOOLEAN, playing : SUBSET Rooms]
    BY <1>y DEF TypeOK
  <2>3. room[r] # Closed
    BY <1>8 DEF TrackUnsubscribed, Closed
  <2> QED
    BY <1>8, <1>p, <2>1, <2>2, <2>3 DEF TrackUnsubscribed
<1>9. ASSUME NEW c \in Calls, NEW p \in Parties, JoinPressed(c, p) PROVE TypeInv'
  BY <1>9, <1>y, <1>b, EnterTypes, BlankType, SameSessionTypes
     DEF JoinPressed, RestTyped, TypeOK, microphoneVars, serverVars, Places, PlacesOf
<1>10. ASSUME NEW c \in Calls, JoinServed(c) PROVE TypeInv'
  <2>1. RestTyped
    BY <1>10, <1>y, <1>i DEF JoinServed, RestTyped, TypeOK, microphoneVars
  <2>2. "joined" \in PlacesOf(call[c].op) /\ "joined" \in Places
    BY <1>10, <1>i DEF JoinServed, At, InPlace, PlacesOf, CallType, Places
  <2> QED
    BY <1>10, <1>y, <2>1, <2>2, GotoTypes, SameSessionTypes DEF JoinServed, At
<1>11. ASSUME NEW c \in Calls, JoinAnswered(c) PROVE TypeInv'
  <2>1. RestTyped
    BY <1>11, <1>y, <1>i, <1>b, <1>d DEF JoinAnswered, Show, RestTyped, TypeOK, microphoneVars
  <2> QED
    BY <1>11, <1>y, <2>1, ReturnTypes, SameSessionTypes DEF JoinAnswered
<1>12. ASSUME NEW c \in Calls, LeavePressed(c) PROVE TypeInv'
  <2>1. active \in Parties
    BY <1>12, <1>y DEF LeavePressed, CanLeave, TypeOK, MaybeParty
  <2>2. [Blank EXCEPT !.party = voiceParty] \in Rendered
    BY <1>y, BlankType DEF TypeOK
  <2> QED
    BY <1>12, <1>y, <1>b, <2>1, <2>2, EnterTypes, SameSessionTypes
       DEF LeavePressed, RestTyped, TypeOK, microphoneVars, serverVars, Places, PlacesOf
<1>13. ASSUME NEW c \in Calls, LeaveServed(c) PROVE TypeInv'
  <2>1. RestTyped
    BY <1>13, <1>y, <1>b DEF LeaveServed, RestTyped, TypeOK, microphoneVars
  <2>2. "left" \in PlacesOf(call[c].op) /\ "left" \in Places
    BY <1>13, <1>i DEF LeaveServed, At, InPlace, PlacesOf, CallType, Places
  <2> QED
    BY <1>13, <1>y, <2>1, <2>2, GotoTypes, SameSessionTypes DEF LeaveServed, At
<1>14. ASSUME NEW c \in Calls, LeaveAnswered(c) PROVE TypeInv'
  <2>1. RestTyped
    BY <1>14, <1>y, <1>b, <1>d DEF LeaveAnswered, Show, RestTyped, TypeOK, microphoneVars
  <2>2. SessionTyped
    BY <1>14, <1>y, ForgetTypes, SameSessionTypes DEF LeaveAnswered
  <2> QED
    BY <1>14, <2>1, <2>2, ReturnTypes DEF LeaveAnswered
<1>15. ASSUME NEW c \in Calls, NEW p \in Parties, VoicePressed(c, p) PROVE TypeInv'
  <2>1. CASE active = p
    <3>1. RequestVoice(c, Now, p, [busy EXCEPT !.connecting = p])
      BY <1>15, <2>1 DEF VoicePressed
    <3>2. RestTyped
      BY <1>15, <1>y, <1>b, <1>d, <3>1 DEF VoicePressed, RequestVoice, RestTyped, TypeOK, microphoneVars, serverVars
    <3> QED
      BY <1>y, <3>1, <3>2, NowType, RequestVoiceTypes
  <2>2. CASE active # p
    <3>1. RestTyped
      BY <1>15, <1>y, <1>b, <1>d, <2>2 DEF VoicePressed, RestTyped, TypeOK, microphoneVars, serverVars
    <3>2. UNCHANGED sessionVars /\ Enter(c, "voice", "join", p, Now)
      BY <1>15, <2>2 DEF VoicePressed
    <3> QED
      BY <1>y, <1>b, <3>1, <3>2, EnterTypes, NowType, SameSessionTypes DEF Places, PlacesOf
  <2> QED
    BY <2>1, <2>2
<1>16. ASSUME NEW c \in Calls, VoiceJoined(c) PROVE TypeInv'
  <2>1. call[c].party \in Parties
    BY <1>16, <1>i DEF VoiceJoined, InPlace
  <2>2. RequestVoice(c, call[c].saw, call[c].party, [busy EXCEPT !.joining = NoParty])
    BY <1>16 DEF VoiceJoined
  <2>3. RestTyped
    BY <1>16, <1>y, <1>b, <1>i, <1>d, <2>2 DEF VoiceJoined, RequestVoice, Show, RestTyped, TypeOK, microphoneVars
  <2> QED
    BY <1>i, <2>1, <2>2, <2>3, RequestVoiceTypes
<1>17. ASSUME NEW c \in Calls, TokenGranted(c) PROVE TypeInv'
  <2>1. PICK r \in Rooms : /\ \A d \in Calls : call[d].room # r
                           /\ call' = [call EXCEPT ![c].pc = "dial", ![c].room = r]
    BY <1>17 DEF TokenGranted
  <2> DEFINE k == [call[c] EXCEPT !.pc = "dial", !.room = r]
  <2>2. k.pc = "dial" /\ k.room = r /\ k.op = call[c].op /\ k.party = call[c].party /\ k \in CallType
    BY <1>i DEF CallType, Places, MaybeRoom
  <2>3. call[c].op = "voice"
    BY <1>17, <1>i DEF TokenGranted, At, InPlace, PlacesOf, CallType
  <2>4. r # NoRoom
    BY NullAssumption
  <2>5. InPlace(k)
    BY <1>i, <2>2, <2>3, <2>4 DEF InPlace, PlacesOf
  <2>6. call' = [call EXCEPT ![c] = k]
    BY <1>y, <2>1 DEF TypeOK, CallType
  <2> HIDE DEF k
  <2>7. \A d \in Calls : call'[d] = IF d = c THEN k ELSE call[d]
    BY <1>y, <2>6 DEF TypeOK
  <2>8. call' \in [Calls -> CallType]
    BY <1>y, <2>2, <2>6 DEF TypeOK
  <2>9. \A d \in Calls : InPlace(call'[d])
    BY <2>5, <2>7 DEF TypeInv
  <2>10. ASSUME NEW d \in Calls, NEW e \in Calls \ {d}, call'[d].room # NoRoom
         PROVE  call'[e].room # call'[d].room
    BY <1>y, <2>1, <2>2, <2>7, <2>10 DEF TypeOK
  <2>11. SessionTyped /\ RestTyped
    BY <1>17, <1>y, SameSessionTypes DEF TokenGranted, RestTyped, TypeOK, microphoneVars, serverVars
  <2> QED
    BY <2>8, <2>9, <2>10, <2>11 DEF TypeInv, TypeOK, RestTyped, SessionTyped, InPlace
<1>18. ASSUME NEW c \in Calls, RoomConnects(c) PROVE TypeInv'
  <2>1. call[c].op = "voice" /\ call[c].room \in Rooms /\ call[c].party \in Parties
        /\ call[c].saw.isolation \in BOOLEAN
    BY <1>18, <1>i DEF RoomConnects, At, InPlace, PlacesOf, CallType, MaybeRoom, Rendered
  <2>2. PICK peer \in Peer :
          room' = [room EXCEPT ![call[c].room] =
                     [party |-> call[c].party, isolation |-> call[c].saw.isolation,
                      peer |-> peer, adrift |-> FALSE]]
    BY <1>18 DEF RoomConnects, Peer
  <2>3. SessionTyped
    <3>1. PICK k : k = [party |-> call[c].party, isolation |-> call[c].saw.isolation,
                        peer |-> peer, adrift |-> FALSE]
      OBVIOUS
    <3>2. k \in Connection /\ k.party \in Parties /\ k # Closed
      BY <1>b, <2>1, <3>1, NullAssumption DEF Connection, Closed
    <3>3. room' = [room EXCEPT ![call[c].room] = k]
      BY <2>2, <3>1
    <3> QED
      BY <1>18, <1>y, <2>1, <3>2, <3>3 DEF RoomConnects, SessionTyped, TypeInv, TypeOK, MaybeRoom
  <2>4. RestTyped
    BY <1>18, <1>y DEF RoomConnects, RestTyped, TypeOK, microphoneVars, serverVars
  <2>5. "mic" \in PlacesOf(call[c].op) /\ "mic" \in Places
    BY <2>1 DEF PlacesOf, Places
  <2> QED
    BY <1>18, <2>3, <2>4, <2>5, GotoTypes DEF RoomConnects, At
<1>19. ASSUME NEW c \in Calls, MicrophoneOpens(c) PROVE TypeInv'
  <2>1. SessionTyped
    BY <1>19, <1>y, <1>i DEF MicrophoneOpens, SessionTyped, TypeInv, TypeOK, Listing
  <2>2. RestTyped
    BY <1>19, <1>y, <1>b, <1>d DEF MicrophoneOpens, RestTyped, TypeOK, microphoneVars, serverVars
  <2> QED
    BY <1>19, <2>1, <2>2, ReturnTypes DEF MicrophoneOpens
<1>20. ASSUME NEW c \in Calls, CallFails(c) PROVE TypeInv'
  <2>1. SessionTyped /\ busy' \in [connecting : MaybeParty, joining : MaybeParty, leaving : MaybeParty]
    <3>1. CASE call[c].op = "voice"
      <4>1. VoiceFails(c)
        BY <1>20, <3>1 DEF CallFails
      <4> QED
        BY <1>y, <1>b, <1>i, <4>1, StrandTypes DEF VoiceFails, SessionTyped, TypeOK, NoPeers
    <3>2. CASE call[c].op # "voice"
      <4>1. UNCHANGED sessionVars
        BY <1>20, <3>2 DEF CallFails
      <4>2. busy' \in {busy, [busy EXCEPT !.joining = NoParty], [busy EXCEPT !.leaving = NoParty]}
        BY <1>20, <3>2 DEF CallFails
      <4> QED
        BY <1>y, <1>b, <4>1, <4>2, SameSessionTypes DEF TypeOK
    <3> QED
      BY <3>1, <3>2
  <2>2. RestTyped
    BY <1>20, <1>y, <1>d, <2>1 DEF CallFails, RestTyped, TypeOK, microphoneVars, serverVars
  <2> QED
    BY <1>20, <2>1, <2>2, ReturnTypes DEF CallFails
<1>21. CASE LeaveVoicePressed
  <2>1. SessionTyped
    BY <1>21, <1>y, ForgetTypes DEF LeaveVoicePressed
  <2> QED
    BY <1>21, <1>y, <1>d, <2>1, SameCalls DEF LeaveVoicePressed, RestTyped, TypeOK, microphoneVars, serverVars
<1>22. CASE IsolationToggled
  <2>1. applying' \in [room : MaybeRoom, previous : BOOLEAN]
    BY <1>22, <1>y, <1>b DEF IsolationToggled, NotApplying, TypeOK
  <2> QED
    BY <1>22, <1>y, <2>1, SameCalls, SameSessionTypes DEF IsolationToggled, RestTyped, TypeOK, serverVars
<1>23. CASE IsolationApplied
  <2>1. isolation' \in BOOLEAN /\ applying' \in [room : MaybeRoom, previous : BOOLEAN]
    BY <1>23, <1>y, <1>b DEF IsolationApplied, NotApplying, TypeOK
  <2>2. /\ room' \in [Rooms -> Connection]
        /\ \A r \in Rooms : room'[r] # Closed => room'[r].party \in Parties
        /\ \A r \in Rooms : roomRef = r => room'[r] # Closed
    <3>1. CASE room' = room
      BY <1>y, <3>1 DEF TypeInv, TypeOK
    <3>2. CASE room' = [room EXCEPT ![applying.room].isolation = ~applying.previous]
                /\ room[applying.room] # Closed
      <4>1. CASE applying.room \in Rooms
        <5> DEFINE b == ~applying.previous
                   k == [room[applying.room] EXCEPT !.isolation = b]
        <5>0. b \in BOOLEAN
          OBVIOUS
        <5> HIDE DEF b
        <5>1. k \in Connection /\ k.party \in Parties
          BY <1>y, <3>2, <4>1, <5>0 DEF TypeOK, Connection
        <5>3. k # Closed
          BY <5>1, NullAssumption DEF Closed
        <5>2. room' = [room EXCEPT ![applying.room] = k]
          BY <3>2 DEF b
        <5> HIDE DEF k
        <5> QED
          BY <1>y, <4>1, <5>1, <5>2, <5>3 DEF TypeInv, TypeOK
      <4>2. CASE applying.room \notin Rooms
        BY <1>y, <3>2, <4>2 DEF TypeInv, TypeOK
      <4> QED
        BY <4>1, <4>2
    <3> QED
      BY <1>23, <3>1, <3>2 DEF IsolationApplied
  <2>3. SessionTyped
    BY <1>23, <1>y, <2>2 DEF IsolationApplied, SessionTyped, TypeOK
  <2> QED
    BY <1>23, <1>y, <2>1, <2>3, SameCalls DEF IsolationApplied, RestTyped, TypeOK, serverVars
<1>24. ASSUME NEW c \in Calls, SignOutPressed(c) PROVE TypeInv'
  <2>1. SessionTyped
    BY <1>24, <1>y, ForgetTypes DEF SignOutPressed
  <2>2. RestTyped
    BY <1>24, <1>y, <1>d DEF SignOutPressed, RestTyped, TypeOK, microphoneVars, serverVars
  <2> QED
    BY <1>24, <1>b, <2>1, <2>2, EnterTypes, BlankType DEF SignOutPressed, Places, PlacesOf
<1>25. ASSUME NEW c \in Calls, SignedOut(c) PROVE TypeInv'
  <2>1. SessionTyped
    BY <1>25, <1>y, <1>b, HangTypes, NullAssumption DEF SignedOut, SessionTyped, TypeOK, NoPeers
  <2>2. RestTyped
    BY <1>25, <1>y, <1>b DEF SignedOut, RestTyped, TypeOK, microphoneVars, serverVars
  <2> QED
    BY <1>25, <2>1, <2>2, ReturnTypes DEF SignedOut
<1>26. CASE UNCHANGED vars
  BY <1>26, <1>y, SameCalls DEF vars, RestTyped, SessionTyped, TypeInv, TypeOK
<1> QED
  BY <1>1, <1>2, <1>3, <1>4, <1>5, <1>6, <1>7, <1>8, <1>9, <1>10, <1>11, <1>12, <1>13, <1>14, <1>15, <1>16, <1>17, <1>18, <1>19, <1>20, <1>21, <1>22, <1>23, <1>24, <1>25, <1>26
     DEF Next, CallStep

(* No call is in flight at first. *)
LEMMA InitTypes == Init => TypeInv
<1> SUFFICES ASSUME Init PROVE TypeInv
  OBVIOUS
<1>1. \A c \in Calls : call[c] = NoCall /\ InPlace(call[c])
  BY NoCallInPlace DEF Init
<1>2. call \in [Calls -> CallType]
  BY <1>1 DEF Init, InPlace
<1>3. Closed \in Connection
  BY DEF Closed, Connection, MaybeParty, Peer
<1>4. NotApplying \in [room : MaybeRoom, previous : BOOLEAN]
      /\ Idle \in [connecting : MaybeParty, joining : MaybeParty, leaving : MaybeParty]
  BY DEF NotApplying, Idle, MaybeRoom, MaybeParty
<1> QED
  BY <1>1, <1>2, <1>3, <1>4, NullAssumption
     DEF Init, TypeInv, TypeOK, NoCall, MaybeRoom, MaybeParty, NoPeers

(* In every behaviour every variable has its type, and every call stands   *)
(* at a place of its own code.                                             *)
THEOREM TypeCorrect == Spec => []TypeOK
<1>1. Init => TypeInv
  BY InitTypes
<1>2. TypeInv /\ [Next]_vars => TypeInv'
  BY NextTypes
<1>3. TypeInv => TypeOK
  BY DEF TypeInv
<1> QED
  BY <1>1, <1>2, <1>3, PTL DEF Spec

----------------------------------------------------------------------------
(* Spinners *)

(* A call that has asked for a room and not yet opened its microphone. *)
Dialing(k) == k.pc \in {"token", "dial", "mic"}

(* Each spinner belongs to a call in flight that will clear it. *)
Spinners ==
  /\ voiceState = "connecting" => \E c \in Calls : Dialing(call[c])
  /\ busy.connecting # NoParty => \E c \in Calls : call[c].op = "voice"
  /\ busy.joining # NoParty => \E c \in Calls : call[c].pc \in {"join", "joined"}
  /\ busy.leaving # NoParty => \E c \in Calls : call[c].op = "leave"

(* A step of one call keeps this when the call answers for each spinner    *)
(* afterwards, or did not before.                                          *)
LEMMA SpinStep ==
  ASSUME TypeInv, Spinners, NEW c \in Calls, NEW k, call' = [call EXCEPT ![c] = k],
         voiceState' = "connecting" =>
           Dialing(k) \/ (voiceState = "connecting" /\ ~Dialing(call[c])),
         busy'.connecting # NoParty =>
           k.op = "voice" \/ (busy.connecting # NoParty /\ call[c].op # "voice"),
         busy'.joining # NoParty =>
           k.pc \in {"join", "joined"}
             \/ (busy.joining # NoParty /\ call[c].pc \notin {"join", "joined"}),
         busy'.leaving # NoParty =>
           k.op = "leave" \/ (busy.leaving # NoParty /\ call[c].op # "leave")
  PROVE  Spinners'
<1>1. \A d \in Calls : call'[d] = IF d = c THEN k ELSE call[d]
  BY DEF TypeInv, TypeOK
<1>2. (voiceState = "connecting" => \E d \in Calls : Dialing(call[d]))'
  BY <1>1 DEF Spinners
<1>3. (busy.connecting # NoParty => \E d \in Calls : call[d].op = "voice")'
  BY <1>1 DEF Spinners
<1>4. (busy.joining # NoParty => \E d \in Calls : call[d].pc \in {"join", "joined"})'
  BY <1>1 DEF Spinners
<1>5. (busy.leaving # NoParty => \E d \in Calls : call[d].op = "leave")'
  BY <1>1 DEF Spinners
<1> QED
  BY <1>2, <1>3, <1>4, <1>5 DEF Spinners

(* A step of no call that sets no spinner keeps it. *)
LEMMA SpinKept ==
  ASSUME Spinners, call' = call, busy' = busy,
         voiceState' = "connecting" => voiceState = "connecting"
  PROVE  Spinners'
  BY DEF Spinners

(* Every step leaves each spinner to a call that will clear it. *)
LEMMA NextSpinners == TypeInv /\ Spinners /\ [Next]_vars => Spinners'
<1> SUFFICES ASSUME TypeInv, Spinners, [Next]_vars PROVE Spinners'
  OBVIOUS
<1>i. \A c \in Calls : InPlace(call[c]) /\ call[c] \in CallType
  BY DEF TypeInv, InPlace
<1>b. busy \in [connecting : MaybeParty, joining : MaybeParty, leaving : MaybeParty]
  BY DEF TypeInv, TypeOK
<1>n. NoCall.pc = "none" /\ NoCall.op = "none"
  BY DEF NoCall
<1>e. ASSUME NEW c \in Calls, call[c] = NoCall, NEW op, NEW place, NEW p, NEW saw,
             Enter(c, op, place, p, saw),
             voiceState' = "connecting" => voiceState = "connecting",
             busy'.connecting # NoParty => busy.connecting # NoParty \/ op = "voice",
             busy'.joining # NoParty => busy.joining # NoParty \/ place = "join",
             busy'.leaving # NoParty => busy.leaving # NoParty \/ op = "leave"
      PROVE  Spinners'
  <2> DEFINE k == [op |-> op, pc |-> place, party |-> p, saw |-> saw, room |-> NoRoom]
  <2>1. k.op = op /\ k.pc = place /\ call' = [call EXCEPT ![c] = k]
    BY <1>e DEF Enter
  <2> HIDE DEF k
  <2> QED
    BY <1>e, <1>n, <2>1, SpinStep DEF Dialing
<1>g. ASSUME NEW c \in Calls, NEW place, Goto(c, place), voiceState' = voiceState, busy' = busy,
             Dialing(call[c]) => place \in {"token", "dial", "mic"},
             call[c].pc \in {"join", "joined"} => place \in {"join", "joined"}
      PROVE  Spinners'
  <2> DEFINE k == [call[c] EXCEPT !.pc = place]
  <2>1. k.op = call[c].op /\ k.pc = place /\ call' = [call EXCEPT ![c] = k]
    BY <1>g, <1>i DEF Goto, CallType
  <2> HIDE DEF k
  <2> QED
    BY <1>g, <2>1, SpinStep DEF Dialing
<1>r. ASSUME NEW c \in Calls, Return(c),
             voiceState' = "connecting" => voiceState = "connecting" /\ ~Dialing(call[c]),
             busy'.connecting # NoParty => busy.connecting # NoParty /\ call[c].op # "voice",
             busy'.joining # NoParty =>
               busy.joining # NoParty /\ call[c].pc \notin {"join", "joined"},
             busy'.leaving # NoParty => busy.leaving # NoParty /\ call[c].op # "leave"
      PROVE  Spinners'
  BY <1>r, SpinStep DEF Return
<1>v. ASSUME NEW c \in Calls, NEW saw, NEW p, NEW later, RequestVoice(c, saw, p, later),
             call[c].op \in {"none", "voice"}, ~Dialing(call[c]),
             later \in [connecting : MaybeParty, joining : MaybeParty, leaving : MaybeParty],
             later.joining # NoParty =>
               busy.joining # NoParty /\ call[c].pc \notin {"join", "joined"},
             later.leaving = busy.leaving
      PROVE  Spinners'
  <2>1. CASE roomRef # NoRoom /\ saw.party = p /\ saw.state = "connected"
    <3>1. Return(c) /\ voiceState' = voiceState /\ busy' = [later EXCEPT !.connecting = NoParty]
      BY <1>v, <2>1 DEF RequestVoice, sessionVars
    <3>2. busy'.connecting = NoParty /\ busy'.joining = later.joining /\ busy'.leaving = later.leaving
      BY <1>v, <3>1
    <3> QED
      BY <1>v, <1>r, <3>1, <3>2
  <2>2. CASE ~(roomRef # NoRoom /\ saw.party = p /\ saw.state = "connected")
    <3> DEFINE k == [op |-> "voice", pc |-> "token", party |-> p,
                     saw |-> [Blank EXCEPT !.isolation = saw.isolation], room |-> NoRoom]
    <3>1. call' = [call EXCEPT ![c] = k] /\ busy' = later /\ k.op = "voice" /\ k.pc = "token"
      BY <1>v, <2>2 DEF RequestVoice, Enter
    <3> HIDE DEF k
    <3> QED
      BY <1>v, <3>1, SpinStep DEF Dialing
  <2> QED
    BY <2>1, <2>2
<1>1. CASE MovedElsewhere
  BY <1>1, SpinKept DEF MovedElsewhere, sessionVars
<1>2. CASE Refetched
  BY <1>2, SpinKept DEF Refetched, sessionVars
<1>3. CASE VoiceEffect
  BY <1>3, SpinKept DEF VoiceEffect, DisconnectVoice, Forget, sessionVars
<1>4. ASSUME NEW r \in Rooms, RoomDrops(r) PROVE Spinners'
  BY <1>4, SpinKept DEF RoomDrops, Forget
<1>5. ASSUME NEW r \in Rooms, ParticipantConnected(r) PROVE Spinners'
  BY <1>5, SpinKept DEF ParticipantConnected, PeerBecomes
<1>6. ASSUME NEW r \in Rooms, ParticipantDisconnected(r) PROVE Spinners'
  BY <1>6, SpinKept DEF ParticipantDisconnected, PeerBecomes
<1>7. ASSUME NEW r \in Rooms, TrackSubscribed(r) PROVE Spinners'
  BY <1>7, SpinKept DEF TrackSubscribed, PeerBecomes
<1>8. ASSUME NEW r \in Rooms, TrackUnsubscribed(r) PROVE Spinners'
  BY <1>8, SpinKept DEF TrackUnsubscribed, PeerBecomes
<1>9. ASSUME NEW c \in Calls, NEW p \in Parties, JoinPressed(c, p) PROVE Spinners'
  <2>1. busy'.connecting = busy.connecting /\ busy'.leaving = busy.leaving
    BY <1>9, <1>b DEF JoinPressed
  <2> QED
    BY <1>9, <1>e, <2>1 DEF JoinPressed, Press, sessionVars
<1>10. ASSUME NEW c \in Calls, JoinServed(c) PROVE Spinners'
  BY <1>10, <1>g DEF JoinServed, At, Dialing, sessionVars
<1>11. ASSUME NEW c \in Calls, JoinAnswered(c) PROVE Spinners'
  <2>1. /\ busy'.connecting = busy.connecting /\ busy'.leaving = busy.leaving
        /\ busy'.joining = NoParty
    BY <1>11, <1>b DEF JoinAnswered
  <2> QED
    BY <1>11, <1>r, <2>1 DEF JoinAnswered, At, Dialing, sessionVars
<1>12. ASSUME NEW c \in Calls, LeavePressed(c) PROVE Spinners'
  <2>1. busy'.connecting = busy.connecting /\ busy'.joining = busy.joining
    BY <1>12, <1>b DEF LeavePressed
  <2> QED
    BY <1>12, <1>e, <2>1 DEF LeavePressed, Press, sessionVars
<1>13. ASSUME NEW c \in Calls, LeaveServed(c) PROVE Spinners'
  BY <1>13, <1>g DEF LeaveServed, At, Dialing, sessionVars
<1>14. ASSUME NEW c \in Calls, LeaveAnswered(c) PROVE Spinners'
  <2>1. /\ busy'.connecting = busy.connecting /\ busy'.joining = busy.joining
        /\ busy'.leaving = NoParty
    BY <1>14, <1>b DEF LeaveAnswered
  <2>2. call[c].op = "leave"
    BY <1>14, <1>i DEF LeaveAnswered, At, InPlace, CallType, PlacesOf
  <2>3. voiceState' = "connecting" => voiceState = "connecting"
    BY <1>14 DEF LeaveAnswered, DisconnectVoice, Forget, sessionVars
  <2> QED
    BY <1>14, <1>r, <2>1, <2>2, <2>3 DEF LeaveAnswered, At, Dialing
<1>15. ASSUME NEW c \in Calls, NEW p \in Parties, VoicePressed(c, p) PROVE Spinners'
  <2>1. CASE active = p
    <3> DEFINE later == [busy EXCEPT !.connecting = p]
    <3>1. later.joining = busy.joining /\ later.leaving = busy.leaving
          /\ later \in [connecting : MaybeParty, joining : MaybeParty, leaving : MaybeParty]
      BY <1>b DEF MaybeParty
    <3>2. RequestVoice(c, Now, p, later) /\ call[c] = NoCall
      BY <1>15, <2>1 DEF VoicePressed, Press
    <3> HIDE DEF later
    <3> QED
      BY <1>v, <1>n, <3>1, <3>2 DEF Dialing
  <2>2. CASE active # p
    <3>1. Enter(c, "voice", "join", p, Now) /\ UNCHANGED sessionVars /\ busy'.leaving = busy.leaving
      BY <1>15, <2>2 DEF VoicePressed
    <3> QED
      BY <1>15, <1>e, <3>1 DEF VoicePressed, Press, sessionVars
  <2> QED
    BY <2>1, <2>2
<1>16. ASSUME NEW c \in Calls, VoiceJoined(c) PROVE Spinners'
  <2> DEFINE later == [busy EXCEPT !.joining = NoParty]
  <2>1. later.joining = NoParty /\ later.leaving = busy.leaving
        /\ later \in [connecting : MaybeParty, joining : MaybeParty, leaving : MaybeParty]
    BY <1>b DEF MaybeParty
  <2>2. RequestVoice(c, call[c].saw, call[c].party, later)
    BY <1>16 DEF VoiceJoined
  <2> HIDE DEF later
  <2> QED
    BY <1>16, <1>v, <2>1, <2>2 DEF VoiceJoined, At, Dialing
<1>17. ASSUME NEW c \in Calls, TokenGranted(c) PROVE Spinners'
  <2>1. PICK r \in Rooms : call' = [call EXCEPT ![c].pc = "dial", ![c].room = r]
    BY <1>17 DEF TokenGranted
  <2> DEFINE k == [call[c] EXCEPT !.pc = "dial", !.room = r]
  <2>2. k.pc = "dial" /\ k.op = call[c].op
    BY <1>i DEF CallType
  <2>3. call' = [call EXCEPT ![c] = k]
    BY <1>i, <2>1 DEF TypeInv, TypeOK, CallType
  <2> HIDE DEF k
  <2> QED
    BY <1>17, <2>2, <2>3, SpinStep DEF TokenGranted, At, Dialing, sessionVars
<1>18. ASSUME NEW c \in Calls, RoomConnects(c) PROVE Spinners'
  BY <1>18, <1>g DEF RoomConnects, At, Dialing
<1>19. ASSUME NEW c \in Calls, MicrophoneOpens(c) PROVE Spinners'
  <2>1. /\ busy'.connecting = NoParty /\ busy'.joining = busy.joining
        /\ busy'.leaving = busy.leaving
    BY <1>19, <1>b DEF MicrophoneOpens
  <2>2. call[c].op = "voice"
    BY <1>19, <1>i DEF MicrophoneOpens, At, InPlace, CallType, PlacesOf
  <2> QED
    BY <1>19, <1>r, <2>1, <2>2 DEF MicrophoneOpens, At
<1>20. ASSUME NEW c \in Calls, CallFails(c) PROVE Spinners'
  <2>0. Return(c) /\ call[c].pc \in PlacesOf(call[c].op)
    BY <1>20, <1>i DEF CallFails, InPlace
  <2>1. CASE call[c].op = "voice"
    <3>1. VoiceFails(c)
      BY <1>20, <2>1 DEF CallFails
    <3>2. /\ busy'.connecting = NoParty /\ busy'.leaving = busy.leaving
          /\ busy'.joining = IF call[c].pc \in {"join", "joined"} THEN NoParty ELSE busy.joining
          /\ voiceState' = "idle"
      BY <1>b, <3>1 DEF VoiceFails
    <3> QED
      BY <1>r, <2>0, <2>1, <3>2
  <2>2. CASE call[c].op = "join"
    <3>1. busy' = [busy EXCEPT !.joining = NoParty] /\ voiceState' = voiceState
      BY <1>20, <2>2 DEF CallFails, sessionVars
    <3>2. /\ busy'.connecting = busy.connecting /\ busy'.leaving = busy.leaving
          /\ busy'.joining = NoParty
      BY <1>b, <3>1
    <3> QED
      BY <1>r, <2>0, <2>2, <3>1, <3>2 DEF PlacesOf, Dialing
  <2>3. CASE call[c].op = "leave"
    <3>1. busy' = [busy EXCEPT !.leaving = NoParty] /\ voiceState' = voiceState
      BY <1>20, <2>3 DEF CallFails, sessionVars
    <3>2. /\ busy'.connecting = busy.connecting /\ busy'.joining = busy.joining
          /\ busy'.leaving = NoParty
      BY <1>b, <3>1
    <3> QED
      BY <1>r, <2>0, <2>3, <3>1, <3>2 DEF PlacesOf, Dialing
  <2>4. CASE call[c].op = "signout"
    <3>1. busy' = busy /\ voiceState' = voiceState
      BY <1>20, <2>4 DEF CallFails, sessionVars
    <3> QED
      BY <1>r, <2>0, <2>4, <3>1 DEF PlacesOf, Dialing
  <2> QED
    BY <1>20, <2>1, <2>2, <2>3, <2>4 DEF CallFails
<1>21. CASE LeaveVoicePressed
  BY <1>21, SpinKept DEF LeaveVoicePressed, DisconnectVoice, Forget
<1>22. CASE IsolationToggled
  BY <1>22, SpinKept DEF IsolationToggled, sessionVars
<1>23. CASE IsolationApplied
  BY <1>23, SpinKept DEF IsolationApplied
<1>24. ASSUME NEW c \in Calls, SignOutPressed(c) PROVE Spinners'
  BY <1>24, <1>e DEF SignOutPressed, DisconnectVoice, Forget
<1>25. ASSUME NEW c \in Calls, SignedOut(c) PROVE Spinners'
  <2>1. call[c].op = "signout"
    BY <1>25, <1>i DEF SignedOut, At, InPlace, CallType, PlacesOf
  <2> QED
    BY <1>25, <1>r, <2>1 DEF SignedOut, At, Dialing
<1>26. CASE UNCHANGED vars
  BY <1>26, SpinKept DEF vars
<1> QED
  BY <1>1, <1>2, <1>3, <1>4, <1>5, <1>6, <1>7, <1>8, <1>9, <1>10, <1>11, <1>12, <1>13, <1>14, <1>15, <1>16, <1>17, <1>18, <1>19, <1>20, <1>21, <1>22, <1>23, <1>24, <1>25, <1>26
     DEF Next, CallStep

(* However calls overlap, fail and end, with none in flight nothing reads  *)
(* as connecting, joining or leaving.                                      *)
THEOREM NeverStuck == Spec => []NeverStuckBusy
<1>1. Init => TypeInv /\ Spinners
  BY InitTypes DEF Init, Spinners, Idle
<1>2. TypeInv /\ Spinners /\ [Next]_vars => (TypeInv /\ Spinners)'
  BY NextTypes, NextSpinners
<1>3. TypeInv /\ Spinners => NeverStuckBusy
  <2> SUFFICES ASSUME TypeInv, Spinners, \A c \in Calls : call[c] = NoCall
               PROVE  busy = Idle /\ voiceState # "connecting"
    BY DEF NeverStuckBusy
  <2>1. busy.connecting = NoParty /\ busy.joining = NoParty /\ busy.leaving = NoParty
        /\ voiceState # "connecting"
    BY DEF Spinners, NoCall, Dialing
  <2>2. busy \in [connecting : MaybeParty, joining : MaybeParty, leaving : MaybeParty]
    BY DEF TypeInv, TypeOK
  <2> QED
    BY <2>1, <2>2 DEF Idle
<1> QED
  BY <1>1, <1>2, <1>3, PTL DEF Spec

----------------------------------------------------------------------------
(* One call at a time *)

(* The user waits for each call to end, and she does not sign out.         *)
Patient == OneCallAtATime /\ "sign out" \notin Buttons

(* No call but that of slot c is in flight. *)
Only(c) == \A d \in Calls \ {c} : call[d] = NoCall

(* No voice call is in flight. *)
Quiet == \A c \in Calls : call[c].op # "voice"

(* There is one call in flight at most, no voice call while the microphone *)
(* is being restarted, and no sign-out.                                    *)
Alone ==
  /\ \A c \in Calls : call[c] # NoCall => Only(c)
  /\ applying # NotApplying => Quiet
  /\ mounted
  /\ \A c \in Calls : call[c].op # "signout"

(* A call that follows the only one in its slot is the only one. *)
LEMMA StillOnly ==
  ASSUME TypeInv, NEW c \in Calls, Only(c), NEW k, call' = [call EXCEPT ![c] = k]
  PROVE  /\ Only(c)' /\ call'[c] = k
         /\ \A d \in Calls : call'[d] # NoCall => Only(d)'
<1>1. \A d \in Calls : call'[d] = IF d = c THEN k ELSE call[d]
  BY DEF TypeInv, TypeOK
<1> QED
  BY <1>1 DEF Only

(* The steps of a call and those that begin one *)
OfCall(c) ==
  \/ CallStep(c)
  \/ LeavePressed(c) \/ SignOutPressed(c)
  \/ \E p \in Parties : JoinPressed(c, p) \/ VoicePressed(c, p)

(* A call keeps its kind, and the voice isolation it saw, until it ends;   *)
(* VoicePressed begins the voice calls, with what is rendered now.         *)
LEMMA CallMoves ==
  ASSUME TypeInv, NEW c \in Calls, OfCall(c), ~SignOutPressed(c)
  PROVE  \E k : /\ call' = [call EXCEPT ![c] = k]
                /\ k.op = "voice" =>
                     \/ call[c].op = "voice" /\ k.saw.isolation = call[c].saw.isolation
                     \/ (\E p \in Parties : VoicePressed(c, p)) /\ k.saw.isolation = isolation
                /\ k.op = "signout" => call[c].op = "signout"
<1>t. InPlace(call[c]) /\ call[c] \in CallType
  BY DEF TypeInv, InPlace
<1>n. NoCall.op = "none" /\ Now.isolation = isolation
  BY DEF NoCall, Now
<1>r. ASSUME Return(c) PROVE call' = [call EXCEPT ![c] = NoCall]
  BY <1>r DEF Return
<1>g. ASSUME NEW place, Goto(c, place)
      PROVE  \E k : call' = [call EXCEPT ![c] = k] /\ k.op = call[c].op /\ k.saw = call[c].saw
  <2> DEFINE k == [call[c] EXCEPT !.pc = place]
  <2>1. call' = [call EXCEPT ![c] = k] /\ k.op = call[c].op /\ k.saw = call[c].saw
    BY <1>g, <1>t DEF Goto, CallType
  <2> HIDE DEF k
  <2> QED
    BY <2>1
<1>e. ASSUME NEW op, NEW place, NEW p, NEW saw, Enter(c, op, place, p, saw)
      PROVE  \E k : call' = [call EXCEPT ![c] = k] /\ k.op = op /\ k.saw = saw
  <2> DEFINE k == [op |-> op, pc |-> place, party |-> p, saw |-> saw, room |-> NoRoom]
  <2>1. call' = [call EXCEPT ![c] = k] /\ k.op = op /\ k.saw = saw
    BY <1>e DEF Enter
  <2> HIDE DEF k
  <2> QED
    BY <2>1
<1>v. ASSUME NEW saw, NEW p, NEW later, RequestVoice(c, saw, p, later)
      PROVE  \E k : call' = [call EXCEPT ![c] = k]
                      /\ (k.op = "none" \/ (k.op = "voice" /\ k.saw.isolation = saw.isolation))
  <2> DEFINE k == [op |-> "voice", pc |-> "token", party |-> p,
                   saw |-> [Blank EXCEPT !.isolation = saw.isolation], room |-> NoRoom]
  <2>1. k.op = "voice" /\ k.saw.isolation = saw.isolation
    BY DEF Blank
  <2>2. Return(c) \/ call' = [call EXCEPT ![c] = k]
    BY <1>v DEF RequestVoice, Enter
  <2> HIDE DEF k
  <2> QED
    BY <1>n, <1>r, <2>1, <2>2
<1>1. CASE JoinServed(c) \/ LeaveServed(c) \/ RoomConnects(c)
  BY <1>1, <1>g DEF JoinServed, LeaveServed, RoomConnects
<1>2. CASE JoinAnswered(c) \/ LeaveAnswered(c) \/ MicrophoneOpens(c) \/ CallFails(c) \/ SignedOut(c)
  BY <1>2, <1>r, <1>n DEF JoinAnswered, LeaveAnswered, MicrophoneOpens, CallFails, SignedOut
<1>3. CASE VoiceJoined(c)
  BY <1>3, <1>v DEF VoiceJoined
<1>4. CASE TokenGranted(c)
  <2>1. PICK r \in Rooms : call' = [call EXCEPT ![c].pc = "dial", ![c].room = r]
    BY <1>4 DEF TokenGranted
  <2> DEFINE k == [call[c] EXCEPT !.pc = "dial", !.room = r]
  <2>2. k.op = call[c].op /\ k.saw = call[c].saw
    BY <1>t DEF CallType
  <2>3. call' = [call EXCEPT ![c] = k]
    BY <1>t, <2>1 DEF TypeInv, TypeOK, CallType
  <2> HIDE DEF k
  <2> QED
    BY <2>2, <2>3
<1>5. CASE LeavePressed(c)
  BY <1>5, <1>e DEF LeavePressed
<1>6. ASSUME NEW p \in Parties, JoinPressed(c, p)
      PROVE  \E k : call' = [call EXCEPT ![c] = k] /\ k.op = "join"
  BY <1>6, <1>e DEF JoinPressed
<1>7. ASSUME NEW p \in Parties, VoicePressed(c, p)
      PROVE  \E k : call' = [call EXCEPT ![c] = k]
                      /\ (k.op = "none" \/ (k.op = "voice" /\ k.saw.isolation = isolation))
  <2>1. CASE active = p
    <3>1. RequestVoice(c, Now, p, [busy EXCEPT !.connecting = p])
      BY <1>7, <2>1 DEF VoicePressed
    <3> QED
      BY <1>n, <1>v, <3>1
  <2>2. CASE active # p
    <3>1. Enter(c, "voice", "join", p, Now)
      BY <1>7, <2>2 DEF VoicePressed
    <3> QED
      BY <1>n, <1>e, <3>1
  <2> QED
    BY <2>1, <2>2
<1>8. CASE \E p \in Parties : JoinPressed(c, p)
  BY <1>6, <1>8
<1>9. CASE \E p \in Parties : VoicePressed(c, p)
  BY <1>7, <1>9
<1> QED
  BY <1>1, <1>2, <1>3, <1>4, <1>5, <1>8, <1>9 DEF OfCall, CallStep

(* Of a patient user, the call that steps or begins is the only one, and   *)
(* no sign-out; a voice call begins when the microphone is not being       *)
(* restarted.                                                              *)
LEMMA OnlyOne ==
  ASSUME TypeInv, Patient, Alone, NEW c \in Calls, OfCall(c)
  PROVE  /\ Only(c) /\ Only(c)'
         /\ ~SignedOut(c) /\ ~SignOutPressed(c)
         /\ \A d \in Calls : call'[d] # NoCall => Only(d)'
         /\ \A d \in Calls : call'[d].op # "signout"
         /\ call'[c].op = "voice" =>
              \/ call[c].op = "voice" /\ call'[c].saw.isolation = call[c].saw.isolation
              \/ applying = NotApplying /\ call'[c].saw.isolation = isolation
<1>t. InPlace(call[c]) /\ call[c] \in CallType
  BY DEF TypeInv, InPlace
<1>n. NoCall.pc = "none" /\ NoCall.op = "none"
  BY DEF NoCall
<1>1. ~SignOutPressed(c)
  BY DEF SignOutPressed, Patient
<1>2. ~SignedOut(c)
  BY <1>t DEF SignedOut, At, Alone, InPlace, PlacesOf, CallType
<1>3. ASSUME NEW p \in Parties, VoicePressed(c, p)
      PROVE  Only(c) /\ applying = NotApplying
  BY <1>3 DEF VoicePressed, Press, Patient, Only
<1>4. Only(c)
  <2>1. CASE CallStep(c)
    <3>1. call[c].pc # "none" \/ call[c].op # "none"
      BY <2>1 DEF CallStep, JoinServed, JoinAnswered, LeaveServed, LeaveAnswered, VoiceJoined,
         TokenGranted, RoomConnects, MicrophoneOpens, CallFails, SignedOut, At
    <3> QED
      BY <1>n, <3>1 DEF Alone
  <2>2. CASE LeavePressed(c)
    BY <2>2 DEF LeavePressed, Press, Patient, Only
  <2>3. ASSUME NEW p \in Parties, JoinPressed(c, p) PROVE Only(c)
    BY <2>3 DEF JoinPressed, Press, Patient, Only
  <2> QED
    BY <1>1, <1>3, <2>1, <2>2, <2>3 DEF OfCall
<1>5. PICK k : /\ call' = [call EXCEPT ![c] = k]
               /\ k.op = "voice" =>
                    \/ call[c].op = "voice" /\ k.saw.isolation = call[c].saw.isolation
                    \/ (\E p \in Parties : VoicePressed(c, p)) /\ k.saw.isolation = isolation
               /\ k.op = "signout" => call[c].op = "signout"
  BY <1>1, CallMoves
<1>6. Only(c)' /\ call'[c] = k /\ \A d \in Calls : call'[d] # NoCall => Only(d)'
  BY <1>4, <1>5, StillOnly
<1>7. \A d \in Calls : call'[d].op # "signout"
  BY <1>n, <1>5, <1>6 DEF Only, Alone
<1> QED
  BY <1>1, <1>2, <1>3, <1>4, <1>5, <1>6, <1>7

(* Every step of a patient user's tab leaves one call at most. *)
LEMMA NextAlone == TypeInv /\ Patient /\ Alone /\ [Next]_vars => Alone'
<1> SUFFICES ASSUME TypeInv, Patient, Alone, [Next]_vars PROVE Alone'
  OBVIOUS
<1>n. NoCall.op = "none"
  BY DEF NoCall
<1>s. ASSUME call' = call, mounted' = mounted,
             applying' = applying \/ applying' = NotApplying \/ Quiet
      PROVE  Alone'
  BY <1>s DEF Alone, Only, Quiet
<1>c. ASSUME NEW c \in Calls, OfCall(c), mounted' = mounted, applying' = applying
      PROVE  Alone'
  <2>1. Only(c)' /\ (\A d \in Calls : call'[d] # NoCall => Only(d)')
        /\ (\A d \in Calls : call'[d].op # "signout")
        /\ (call'[c].op = "voice" => call[c].op = "voice" \/ applying = NotApplying)
    BY <1>c, OnlyOne
  <2>2. applying' # NotApplying => Quiet'
    BY <1>n, <1>c, <2>1 DEF Alone, Quiet, Only
  <2> QED
    BY <1>c, <2>1, <2>2 DEF Alone
<1>1. CASE \E c \in Calls : OfCall(c)
  <2>1. PICK c \in Calls : OfCall(c)
    BY <1>1
  <2>2. ~SignedOut(c) /\ ~SignOutPressed(c)
    BY <2>1, OnlyOne
  <2>3. mounted' = mounted /\ applying' = applying
    BY <2>1, <2>2 DEF OfCall, CallStep, JoinServed, JoinAnswered, LeaveServed, LeaveAnswered,
       VoiceJoined, TokenGranted, RoomConnects, MicrophoneOpens, CallFails, LeavePressed,
       JoinPressed, VoicePressed, microphoneVars
  <2> QED
    BY <1>c, <2>1, <2>3
<1>2. CASE MovedElsewhere \/ Refetched \/ VoiceEffect \/ LeaveVoicePressed
  BY <1>2, <1>s DEF MovedElsewhere, Refetched, VoiceEffect, LeaveVoicePressed, microphoneVars
<1>3. CASE IsolationToggled
  BY <1>3, <1>s DEF IsolationToggled, Patient, Quiet
<1>4. CASE IsolationApplied
  BY <1>4, <1>s DEF IsolationApplied
<1>5. ASSUME NEW r \in Rooms,
             RoomDrops(r) \/ ParticipantConnected(r) \/ ParticipantDisconnected(r)
               \/ TrackSubscribed(r) \/ TrackUnsubscribed(r)
      PROVE  Alone'
  BY <1>5, <1>s DEF RoomDrops, ParticipantConnected, ParticipantDisconnected, TrackSubscribed,
     TrackUnsubscribed, PeerBecomes, microphoneVars
<1>6. CASE UNCHANGED vars
  BY <1>6, <1>s DEF vars
<1> QED
  BY <1>1, <1>2, <1>3, <1>4, <1>5, <1>6 DEF Next, OfCall

----------------------------------------------------------------------------
(* The room in the ref *)

(* The room in the ref is not one that a refused switch left there.        *)
Held == roomRef # NoRoom /\ ~room[roomRef].adrift

(* Between voice calls voice is shown as it is, unless its room is adrift. *)
Shown ==
  Held /\ (\A c \in Calls : ~Dialing(call[c])) =>
    /\ voiceState = "connected" /\ voiceParty = room[roomRef].party
    /\ peers.listed <=> Listing(roomRef)

(* Every connected room is the one in the ref or adrift, and so is every   *)
(* room that somebody is played in; a room adrift in the ref is not shown. *)
RoomLive ==
  /\ roomRef = NoRoom => peers = NoPeers
  /\ Held => (roomRef \in peers.playing <=> room[roomRef].peer = "heard")
  /\ roomRef # NoRoom /\ ~Held => voiceParty = NoParty /\ voiceState # "connected"
  /\ \A r \in Rooms : room[r] # Closed => r = roomRef \/ room[r].adrift
  /\ \A r \in peers.playing : r = roomRef \/ room[r].adrift
  /\ voiceState = "idle" => voiceParty = NoParty

(* What a call k in flight may count on: its token and its dialling find   *)
(* no room but one that is adrift, the microphone it waits for is of the   *)
(* room in the ref, and it saw the voice that is live, which is not of the *)
(* party it goes to.                                                       *)
CallLive(k) ==
  /\ k.pc \in {"token", "dial"} => ~Held
  /\ k.room # NoRoom => ~room[k.room].adrift
  /\ k.pc = "mic" /\ roomRef # NoRoom => roomRef = k.room /\ room[roomRef].party = k.party
  /\ k.op = "voice" /\ k.pc \in {"join", "joined"} /\ roomRef # NoRoom =>
       k.saw.party = voiceParty /\ (Held => k.saw.state = "connected")
  /\ k.op = "voice" => voiceParty # k.party

Live == Shown /\ RoomLive /\ \A c \in Calls : CallLive(call[c])

(* A slot that is free counts on nothing. *)
LEMMA NoCallLive == CallLive(NoCall)
  BY DEF CallLive, NoCall

(* The empty ref is fine for every call whose room is not adrift, when no  *)
(* other room is connected but adrift.                                     *)
LEMMA Silent ==
  ASSUME TypeInv', roomRef' = NoRoom, voiceParty' = NoParty, peers' = NoPeers,
         \A r \in Rooms : room'[r] # Closed => room'[r].adrift,
         \A c \in Calls : call'[c].room # NoRoom => ~room'[call'[c].room].adrift
  PROVE  Live'
<1>1. \A c \in Calls : call'[c].op = "voice" => call'[c].party # NoParty
  BY NullAssumption DEF TypeInv, InPlace
<1>2. Shown' /\ RoomLive'
  BY DEF Shown, RoomLive, Held, NoPeers
<1>3. (\A c \in Calls : CallLive(call[c]))'
  BY <1>1 DEF CallLive, Held
<1> QED
  BY <1>2, <1>3 DEF Live

(* To hang up on the room in the ref leaves no room connected but adrift,  *)
(* and sets none adrift.                                                   *)
LEMMA AllClosed ==
  ASSUME TypeInv, Live, Hang(roomRef)
  PROVE  /\ \A r \in Rooms : room'[r] # Closed => room'[r].adrift
         /\ \A r \in Rooms : room'[r].adrift => room[r].adrift
<1>1. \A r \in Rooms : r # roomRef /\ room[r] # Closed => room[r].adrift
  BY DEF Live, RoomLive
<1>2. CASE roomRef = NoRoom
  BY <1>1, <1>2, NullAssumption DEF Hang
<1>3. CASE roomRef # NoRoom
  <2>1. room' = [room EXCEPT ![roomRef] = Closed] /\ room \in [Rooms -> Connection]
    BY <1>3 DEF Hang, TypeInv, TypeOK
  <2>2. ~Closed.adrift
    BY DEF Closed
  <2> QED
    BY <1>1, <2>1, <2>2
<1> QED
  BY <1>2, <1>3

(* What a call counts on of its room stays when no room is set adrift.     *)
LEMMA NotAdrift ==
  ASSUME TypeInv, Live, NEW c \in Calls, \A r \in Rooms : room'[r].adrift => room[r].adrift
  PROVE  call[c].room # NoRoom => ~room'[call[c].room].adrift
<1>1. call[c].room \in MaybeRoom
  BY DEF TypeInv, TypeOK, CallType
<1> QED
  BY <1>1 DEF Live, CallLive, MaybeRoom

(* disconnectVoice, then, is fine when the calls keep their rooms.         *)
LEMMA HungUp ==
  ASSUME TypeInv, TypeInv', Live, DisconnectVoice,
         \A c \in Calls : call'[c].room \in {NoRoom, call[c].room}
  PROVE  Live' /\ roomRef' = NoRoom
<1>1. /\ \A r \in Rooms : room'[r] # Closed => room'[r].adrift
      /\ \A r \in Rooms : room'[r].adrift => room[r].adrift
  BY AllClosed DEF DisconnectVoice
<1>2. \A c \in Calls : call[c].room # NoRoom => ~room'[call[c].room].adrift
  BY <1>1, NotAdrift
<1>3. \A c \in Calls : call'[c].room # NoRoom => ~room'[call'[c].room].adrift
  BY <1>2
<1> QED
  BY <1>1, <1>3, Silent DEF DisconnectVoice, Forget

(* A call moves on and the session is as it was. *)
LEMMA Moved ==
  ASSUME TypeInv, Live, NEW c \in Calls, Only(c), Only(c)', UNCHANGED sessionVars,
         CallLive(call[c])', Dialing(call[c]) => Dialing(call'[c])
  PROVE  Live'
<1>n. NoCall.pc = "none" /\ NoCall.op = "none" /\ NoCall.room = NoRoom
  BY DEF NoCall
<1>1. (\A d \in Calls : CallLive(call[d]))'
  BY <1>n DEF Only, CallLive
<1>2. (\A d \in Calls : ~Dialing(call'[d])) => \A d \in Calls : ~Dialing(call[d])
  BY <1>n DEF Only, Dialing
<1>3. Shown'
  BY <1>2 DEF Live, Shown, Held, Listing, Dialing, sessionVars
<1>4. RoomLive'
  BY DEF Live, RoomLive, Held, sessionVars
<1> QED
  BY <1>1, <1>3, <1>4 DEF Live

(* Nothing of this moved. *)
LEMMA Still ==
  ASSUME Live, UNCHANGED <<sessionVars, call>>
  PROVE  Live'
  BY DEF Live, Shown, Held, RoomLive, CallLive, Listing, Dialing, sessionVars

(* Every room stays connected or not, of the same party and adrift or not. *)
Same(r) ==
  /\ room'[r].party = room[r].party /\ room'[r].adrift = room[r].adrift
  /\ room'[r] # Closed => room[r] # Closed

(* Then only who is listed and played has to be level with the ref.        *)
LEMMA SameRooms ==
  ASSUME TypeInv, Live, \A r \in Rooms : Same(r),
         UNCHANGED <<roomRef, voiceParty, voiceState, call>>,
         roomRef = NoRoom => peers' = NoPeers,
         \A r \in peers'.playing : r = roomRef \/ (r \in Rooms /\ room[r].adrift),
         Held => (roomRef \in peers'.playing <=> room'[roomRef].peer = "heard"),
         Held /\ (\A c \in Calls : ~Dialing(call[c])) =>
           (peers'.listed <=> room'[roomRef].peer # "away")
  PROVE  Live'
<1>1. roomRef \in MaybeRoom
  BY DEF TypeInv, TypeOK
<1>2. Held' <=> Held
  BY <1>1 DEF Same, Held, MaybeRoom
<1>3. Shown'
  BY <1>1, <1>2 DEF Same, Live, Shown, Held, Listing, Dialing, MaybeRoom
<1>4. RoomLive'
  BY <1>1, <1>2 DEF Same, Live, RoomLive, MaybeRoom
<1>5. ASSUME NEW c \in Calls PROVE CallLive(call[c])'
  <2>1. call[c].room \in MaybeRoom
    BY DEF TypeInv, TypeOK, CallType
  <2> QED
    BY <1>1, <1>2, <2>1 DEF Same, Live, CallLive, MaybeRoom
<1> QED
  BY <1>3, <1>4, <1>5 DEF Live

(* The others in a room come and go. *)
LEMMA Peers ==
  ASSUME TypeInv, Live, NEW r \in Rooms, NEW peer, NEW now, PeerBecomes(r, peer, now),
         room[r] # Closed, now.playing \subseteq peers.playing \union {r},
         Held /\ r = roomRef =>
           (r \in now.playing <=> peer = "heard") /\ (now.listed <=> peer # "away")
  PROVE  Live'
<1>1. room \in [Rooms -> Connection] /\ peers.playing \subseteq Rooms
  BY DEF TypeInv, TypeOK
<1>2. /\ room'[r].party = room[r].party /\ room'[r].peer = peer
      /\ room'[r].adrift = room[r].adrift
      /\ \A q \in Rooms \ {r} : room'[q] = room[q]
  BY <1>1 DEF PeerBecomes, Connection
<1>3. \A q \in Rooms : Same(q)
  BY <1>2 DEF Same
<1>4. UNCHANGED <<roomRef, voiceParty, voiceState, call>>
  BY DEF PeerBecomes
<1>5. CASE r = roomRef
  <2>1. peers' = now /\ roomRef # NoRoom
    BY <1>5, NullAssumption DEF PeerBecomes
  <2> QED
    BY <1>1, <1>2, <1>3, <1>4, <1>5, <2>1, SameRooms DEF Live, RoomLive
<1>6. CASE r # roomRef
  <2>1. peers' = peers
    BY <1>6 DEF PeerBecomes
  <2>2. Held => roomRef \in Rooms \ {r} /\ room'[roomRef] = room[roomRef]
    BY <1>2, <1>6 DEF Held, TypeInv, TypeOK, MaybeRoom
  <2> QED
    BY <1>1, <1>3, <1>4, <2>1, <2>2, SameRooms DEF Live, RoomLive, Shown, Listing
<1> QED
  BY <1>5, <1>6

(* connectVoice goes on to a party that voice is not connected to. *)
LEMMA Requested ==
  ASSUME TypeInv, TypeInv', Live, NEW c \in Calls, Only(c), Only(c)', ~Dialing(call[c]),
         NEW saw, NEW p \in Parties, NEW later, RequestVoice(c, saw, p, later),
         roomRef # NoRoom => saw.party = voiceParty /\ (Held => saw.state = "connected"),
         voiceParty # p
  PROVE  Live'
<1>n. NoCall.pc = "none" /\ NoCall.op = "none" /\ NoCall.room = NoRoom
  BY DEF NoCall
<1>1. PICK k : k = [op |-> "voice", pc |-> "token", party |-> p,
                    saw |-> [Blank EXCEPT !.isolation = saw.isolation], room |-> NoRoom]
  OBVIOUS
<1>2. call' = [call EXCEPT ![c] = k] /\ voiceState' = "connecting"
  BY <1>1 DEF RequestVoice, Enter
<1>3. call'[c] = k
  BY <1>2, StillOnly
<1>4. CASE Held
  <2>1. voiceParty \in Parties
    <3>1. \A d \in Calls : ~Dialing(call[d])
      BY <1>n DEF Only, Dialing
    <3>2. roomRef \in Rooms
      BY <1>4 DEF Held, TypeInv, TypeOK, MaybeRoom
    <3> QED
      BY <1>4, <3>1, <3>2 DEF Live, Shown, TypeInv, TypeOK
  <2>2. Hang(roomRef) /\ roomRef' = NoRoom /\ voiceParty' = NoParty /\ peers' = NoPeers
    BY <1>4, <2>1, NullAssumption DEF RequestVoice, Held
  <2>3. \A r \in Rooms : room'[r] # Closed => room'[r].adrift
    BY <2>2, AllClosed
  <2>4. \A d \in Calls : call'[d].room = NoRoom
    BY <1>1, <1>3, <1>n DEF Only
  <2> QED
    BY <2>2, <2>3, <2>4, Silent
<1>5. CASE ~Held
  <2>1. UNCHANGED <<roomRef, voiceParty, peers, room>>
    BY <1>5 DEF RequestVoice, Live, RoomLive
  <2>2. ~Held'
    BY <1>5, <2>1 DEF Held
  <2>3. Shown' /\ RoomLive'
    BY <1>2, <1>5, <2>1, <2>2 DEF Live, Shown, RoomLive
  <2>4. CallLive(call[c])'
    BY <1>1, <1>3, <2>1, <2>2 DEF CallLive
  <2>5. (\A d \in Calls : CallLive(call[d]))'
    BY <1>n, <2>4 DEF CallLive, Only
  <2> QED
    BY <2>3, <2>5 DEF Live
<1> QED
  BY <1>4, <1>5

(* A voice call that fails leaves no room connected but adrift.            *)
LEMMA FailsAdrift ==
  ASSUME TypeInv, TypeInv', Live, NEW c \in Calls, call[c].op = "voice", CallFails(c)
  PROVE  /\ voiceParty' = NoParty /\ voiceState' = "idle" /\ peers' = NoPeers
         /\ \A r \in Rooms : room'[r] # Closed => room'[r].adrift
         /\ ~Held'
<1>1. PICK k : k = call[c]
  OBVIOUS
<1>2. /\ room' = [r \in Rooms |-> IF r = k.room THEN Closed
                               ELSE [room[r] EXCEPT !.adrift = room[r].adrift \/ r = roomRef]]
      /\ voiceParty' = NoParty /\ voiceState' = "idle" /\ peers' = NoPeers
  BY <1>1 DEF CallFails, VoiceFails, Strand
<1>3. ASSUME NEW r \in Rooms, room'[r] # Closed PROVE room'[r].adrift
  <2>1. r # k.room /\ room[r] \in Connection
    BY <1>2, <1>3 DEF TypeInv, TypeOK
  <2>2. PICK b \in BOOLEAN : b <=> (room[r].adrift \/ r = roomRef)
    OBVIOUS
  <2>3. (room[r].adrift \/ r = roomRef) = b
    BY <2>1, <2>2 DEF Connection
  <2>4. room'[r] = [room[r] EXCEPT !.adrift = b]
    BY <1>2, <2>1, <2>3
  <2>5. room'[r].adrift = b
    BY <2>1, <2>4 DEF Connection
  <2>6. CASE room[r] = Closed
    <3>1. b = FALSE
      BY <2>2, <2>6 DEF Closed, TypeInv
    <3>2. room'[r] = [Closed EXCEPT !.adrift = FALSE]
      BY <2>4, <2>6, <3>1
    <3> QED
      BY <1>3, <3>2, StillClosed
  <2>7. CASE room[r] # Closed
    BY <2>2, <2>5, <2>7 DEF Live, RoomLive
  <2> QED
    BY <2>6, <2>7
<1>4. ~Held'
  BY <1>3 DEF Held, TypeInv, TypeOK, MaybeRoom
<1> QED
  BY <1>2, <1>3, <1>4

(* Every step keeps the connected room in the ref and what the calls count *)
(* on.                                                                     *)
LEMMA NextLive ==
  TypeInv /\ TypeInv' /\ Spinners /\ Patient /\ Alone /\ Live /\ [Next]_vars => Live'
<1> SUFFICES ASSUME TypeInv, TypeInv', Spinners, Patient, Alone, Live, [Next]_vars PROVE Live'
  OBVIOUS
<1>i. \A c \in Calls : InPlace(call[c]) /\ call[c] \in CallType
  BY DEF TypeInv, InPlace
<1>n. NoCall.pc = "none" /\ NoCall.op = "none" /\ NoCall.room = NoRoom
  BY DEF NoCall
<1>y. room \in [Rooms -> Connection] /\ \A r \in Rooms : room[r] # Closed => room[r].party \in Parties
  BY DEF TypeInv, TypeOK
<1>c. ASSUME NEW c \in Calls, OfCall(c) PROVE Only(c) /\ Only(c)'
  BY <1>c, OnlyOne
<1>r. ASSUME NEW c \in Calls, OfCall(c), Return(c), UNCHANGED sessionVars, ~Dialing(call[c])
      PROVE  Live'
  <2>1. call'[c] = NoCall
    BY <1>c, <1>r, StillOnly DEF Return
  <2>2. CallLive(call[c])'
    BY <1>n, <2>1 DEF CallLive
  <2> QED
    BY <1>c, <1>r, <2>2, Moved
<1>g. ASSUME NEW c \in Calls, NEW place, OfCall(c), Goto(c, place), UNCHANGED sessionVars
      PROVE  call'[c] = [call[c] EXCEPT !.pc = place]
  BY <1>g DEF Goto, TypeInv, TypeOK
<1>1. CASE MovedElsewhere \/ Refetched \/ IsolationToggled
  BY <1>1, Still DEF MovedElsewhere, Refetched, IsolationToggled
<1>2. CASE VoiceEffect
  <2>1. DisconnectVoice \/ UNCHANGED sessionVars
    BY <1>2 DEF VoiceEffect, sessionVars
  <2> QED
    BY <1>2, <2>1, HungUp, Still DEF VoiceEffect
<1>3. CASE LeaveVoicePressed
  BY <1>3, HungUp DEF LeaveVoicePressed
<1>4. ASSUME NEW r \in Rooms, RoomDrops(r) PROVE Live'
  <2>1. CASE r = roomRef
    BY <1>4, <2>1, HungUp DEF RoomDrops, DisconnectVoice
  <2>2. CASE r # roomRef
    <3>1. /\ peers' = [peers EXCEPT !.playing = peers.playing \ {r}]
          /\ UNCHANGED <<roomRef, voiceParty, voiceState, call>>
          /\ room' = [room EXCEPT ![r] = Closed]
      BY <1>4, <2>2, NullAssumption DEF RoomDrops, Hang
    <3>2. peers \in [listed : BOOLEAN, playing : SUBSET Rooms] /\ roomRef \in MaybeRoom
      BY DEF TypeInv, TypeOK
    <3>3. peers'.playing = peers.playing \ {r} /\ peers'.listed = peers.listed
      BY <3>1, <3>2
    <3>4. room'[r] = Closed /\ \A q \in Rooms \ {r} : room'[q] = room[q]
      BY <1>y, <3>1
    <3>5. (Held' <=> Held) /\ (Held => room'[roomRef] = room[roomRef])
      BY <2>2, <3>1, <3>2, <3>4 DEF Held, MaybeRoom
    <3>6. Shown'
      BY <3>1, <3>3, <3>5 DEF Live, Shown, Held, Listing, Dialing
    <3>7. roomRef = NoRoom => peers' = NoPeers
      <4>1. SUFFICES ASSUME roomRef = NoRoom PROVE peers' = NoPeers
        OBVIOUS
      <4>2. peers = NoPeers
        BY <4>1 DEF Live, RoomLive
      <4>3. peers.playing \ {r} = peers.playing
        BY <4>2 DEF NoPeers
      <4> QED
        BY <3>1, <3>2, <4>2, <4>3
    <3>8. RoomLive'
      BY <2>2, <3>1, <3>2, <3>3, <3>4, <3>5, <3>7 DEF Live, RoomLive, Held, Closed, MaybeRoom
    <3>9. ASSUME NEW c \in Calls PROVE CallLive(call[c])'
      <4>1. call[c].room \in MaybeRoom /\ ~Closed.adrift
        BY <1>i DEF CallType, Closed
      <4>2. CallLive(call[c]) /\ call'[c] = call[c]
        BY <3>1 DEF Live
      <4>3. roomRef # NoRoom => room'[roomRef] = room[roomRef]
        BY <2>2, <3>2, <3>4 DEF MaybeRoom
      <4> QED
        BY <3>1, <3>4, <3>5, <4>1, <4>2, <4>3 DEF CallLive, MaybeRoom
    <3> QED
      BY <3>6, <3>8, <3>9 DEF Live
  <2> QED
    BY <2>1, <2>2
<1>5. ASSUME NEW r \in Rooms, ParticipantConnected(r) PROVE Live'
  <2>1. room[r].peer # "heard" /\ room[r] # Closed
    BY <1>5 DEF ParticipantConnected, Connected
  <2>2. PICK now : now = [peers EXCEPT !.listed = TRUE]
    OBVIOUS
  <2>3. now.listed = TRUE /\ now.playing = peers.playing
    BY <2>2 DEF TypeInv, TypeOK
  <2>4. Held /\ r = roomRef => r \notin now.playing
    BY <2>1, <2>3 DEF Live, RoomLive
  <2>5. PeerBecomes(r, "here", now)
    BY <1>5, <2>2 DEF ParticipantConnected
  <2> QED
    BY <2>1, <2>3, <2>4, <2>5, Peers
<1>6. ASSUME NEW r \in Rooms, ParticipantDisconnected(r) PROVE Live'
  <2>1. room[r].peer # "heard" /\ room[r] # Closed
    BY <1>6 DEF ParticipantDisconnected, Closed
  <2>2. PICK now : now = [peers EXCEPT !.listed = FALSE]
    OBVIOUS
  <2>3. now.listed = FALSE /\ now.playing = peers.playing
    BY <2>2 DEF TypeInv, TypeOK
  <2>4. Held /\ r = roomRef => r \notin now.playing
    BY <2>1, <2>3 DEF Live, RoomLive
  <2>5. PeerBecomes(r, "away", now)
    BY <1>6, <2>2 DEF ParticipantDisconnected
  <2> QED
    BY <2>1, <2>3, <2>4, <2>5, Peers
<1>7. ASSUME NEW r \in Rooms, TrackSubscribed(r) PROVE Live'
  <2>1. room[r] # Closed
    BY <1>7 DEF TrackSubscribed, Closed
  <2>2. PICK now : now = [listed |-> TRUE, playing |-> peers.playing \union {r}]
    OBVIOUS
  <2>3. PICK peer : peer = IF roomRef = r THEN "heard" ELSE "missed"
    OBVIOUS
  <2>4. PeerBecomes(r, peer, now)
    BY <1>7, <2>2, <2>3 DEF TrackSubscribed
  <2>5. now.listed /\ now.playing = peers.playing \union {r}
    BY <2>2
  <2> QED
    BY <2>1, <2>3, <2>4, <2>5, Peers
<1>8. ASSUME NEW r \in Rooms, TrackUnsubscribed(r) PROVE Live'
  <2>1. room[r] # Closed
    BY <1>8 DEF TrackUnsubscribed, Closed
  <2>2. PICK now : now = [listed |-> TRUE, playing |-> peers.playing \ {r}]
    OBVIOUS
  <2>3. PeerBecomes(r, "here", now)
    BY <1>8, <2>2 DEF TrackUnsubscribed
  <2>4. now.listed /\ now.playing = peers.playing \ {r}
    BY <2>2
  <2> QED
    BY <2>1, <2>3, <2>4, Peers
<1>9. ASSUME NEW c \in Calls, NEW p \in Parties, JoinPressed(c, p) PROVE Live'
  <2>1. OfCall(c)
    BY <1>9 DEF OfCall
  <2>2. call'[c].op = "join" /\ call'[c].pc = "join" /\ call'[c].room = NoRoom
    BY <1>9 DEF JoinPressed, Enter, TypeInv, TypeOK
  <2>3. CallLive(call[c])'
    BY <2>2 DEF CallLive
  <2>4. ~Dialing(call[c])
    BY <1>9, <1>n DEF JoinPressed, Press, Dialing
  <2> QED
    BY <1>9, <1>c, <2>1, <2>3, <2>4, Moved DEF JoinPressed
<1>10. ASSUME NEW c \in Calls, JoinServed(c) PROVE Live'
  <2>1. OfCall(c)
    BY <1>10 DEF OfCall, CallStep
  <2>2. UNCHANGED sessionVars /\ Goto(c, "joined") /\ call[c].pc = "join"
    BY <1>10 DEF JoinServed, At
  <2>3. call'[c] = [call[c] EXCEPT !.pc = "joined"]
    BY <1>g, <2>1, <2>2
  <2>4. /\ call'[c].pc = "joined" /\ call'[c].op = call[c].op /\ call'[c].party = call[c].party
        /\ call'[c].saw = call[c].saw /\ call'[c].room = call[c].room
    BY <1>i, <2>3 DEF CallType
  <2>5. CallLive(call[c])'
    BY <2>2, <2>4 DEF Live, CallLive, Held, sessionVars
  <2> QED
    BY <1>c, <2>1, <2>2, <2>5, Moved DEF Dialing
<1>11. ASSUME NEW c \in Calls, JoinAnswered(c) PROVE Live'
  <2>1. OfCall(c) /\ ~Dialing(call[c])
    BY <1>11 DEF OfCall, CallStep, JoinAnswered, At, Dialing
  <2> QED
    BY <1>11, <1>r, <2>1 DEF JoinAnswered
<1>12. ASSUME NEW c \in Calls, LeavePressed(c) PROVE Live'
  <2>1. OfCall(c)
    BY <1>12 DEF OfCall
  <2>2. call'[c].op = "leave" /\ call'[c].pc = "leave" /\ call'[c].room = NoRoom
    BY <1>12 DEF LeavePressed, Enter, TypeInv, TypeOK
  <2>3. CallLive(call[c])'
    BY <2>2 DEF CallLive
  <2>4. ~Dialing(call[c])
    BY <1>12, <1>n DEF LeavePressed, Press, Dialing
  <2> QED
    BY <1>12, <1>c, <2>1, <2>3, <2>4, Moved DEF LeavePressed
<1>13. ASSUME NEW c \in Calls, LeaveServed(c) PROVE Live'
  <2>1. OfCall(c)
    BY <1>13 DEF OfCall, CallStep
  <2>2. UNCHANGED sessionVars /\ Goto(c, "left") /\ call[c].pc = "leave"
    BY <1>13 DEF LeaveServed, At
  <2>3. call[c].op = "leave"
    BY <1>i, <2>2 DEF InPlace, PlacesOf, CallType
  <2>4. call'[c].pc = "left" /\ call'[c].op = "leave" /\ call'[c].room = NoRoom
    BY <1>i, <2>2, <2>3 DEF Goto, TypeInv, TypeOK, CallType, InPlace
  <2>5. CallLive(call[c])'
    BY <2>4 DEF CallLive
  <2> QED
    BY <1>c, <2>1, <2>2, <2>5, Moved DEF Dialing
<1>14. ASSUME NEW c \in Calls, LeaveAnswered(c) PROVE Live'
  <2>1. OfCall(c) /\ ~Dialing(call[c])
    BY <1>14 DEF OfCall, CallStep, LeaveAnswered, At, Dialing
  <2>2. \A d \in Calls : call'[d].room \in {NoRoom, call[d].room}
    BY <1>14, <1>n DEF LeaveAnswered, Return, TypeInv, TypeOK
  <2> QED
    BY <1>14, <1>r, <2>1, <2>2, HungUp DEF LeaveAnswered
<1>15. ASSUME NEW c \in Calls, NEW p \in Parties, VoicePressed(c, p) PROVE Live'
  <2>1. OfCall(c)
    BY <1>15 DEF OfCall
  <2>2. Only(c) /\ Only(c)' /\ ~Dialing(call[c]) /\ \A d \in Calls : ~Dialing(call[d])
    BY <1>15, <1>c, <1>n, <2>1 DEF VoicePressed, Press, Only, Dialing
  <2>3. Held => voiceState = "connected"
    BY <2>2 DEF Live, Shown
  <2>4. voiceParty # p
    <3>1. voiceState # "connecting"
      BY <2>2 DEF Spinners
    <3>2. voiceState = "idle" \/ voiceState = "connected"
      BY <3>1 DEF TypeInv, TypeOK
    <3>3. ~(voiceState = "connected" /\ voiceParty = p)
      BY <1>15 DEF VoicePressed, CanJoinVoice
    <3> QED
      BY <3>2, <3>3, NullAssumption DEF Live, RoomLive
  <2>5. PICK saw : saw = Now
    OBVIOUS
  <2>6. saw.party = voiceParty /\ saw.state = voiceState
    BY <2>5 DEF Now
  <2>7. CASE active = p
    <3>1. RequestVoice(c, saw, p, [busy EXCEPT !.connecting = p])
      BY <1>15, <2>5, <2>7 DEF VoicePressed
    <3> QED
      BY <2>2, <2>3, <2>4, <2>6, <3>1, Requested
  <2>8. CASE active # p
    <3>1. Enter(c, "voice", "join", p, Now) /\ UNCHANGED sessionVars
      BY <1>15, <2>8 DEF VoicePressed
    <3>2. PICK k : k = [op |-> "voice", pc |-> "join", party |-> p, saw |-> saw, room |-> NoRoom]
      OBVIOUS
    <3>3. call' = [call EXCEPT ![c] = k]
      BY <2>5, <3>1, <3>2 DEF Enter
    <3>4. call'[c] = k
      BY <2>2, <3>3, StillOnly
    <3>5. CallLive(call[c])'
      BY <2>3, <2>4, <2>6, <3>1, <3>2, <3>4 DEF CallLive, Held, sessionVars
    <3> QED
      BY <2>2, <3>1, <3>5, Moved
  <2> QED
    BY <2>7, <2>8
<1>16. ASSUME NEW c \in Calls, VoiceJoined(c) PROVE Live'
  <2>1. OfCall(c) /\ ~Dialing(call[c]) /\ call[c].op = "voice" /\ call[c].pc = "joined"
    BY <1>16 DEF OfCall, CallStep, VoiceJoined, At, Dialing
  <2>2. PICK k : k = call[c]
    OBVIOUS
  <2>3. RequestVoice(c, k.saw, k.party, [busy EXCEPT !.joining = NoParty])
    BY <1>16, <2>2 DEF VoiceJoined
  <2>4. k.party \in Parties
    BY <1>i, <2>1, <2>2 DEF InPlace
  <2>5. /\ roomRef # NoRoom => k.saw.party = voiceParty /\ (Held => k.saw.state = "connected")
        /\ voiceParty # k.party
    BY <2>1, <2>2 DEF Live, CallLive
  <2> QED
    BY <1>c, <2>1, <2>3, <2>4, <2>5, Requested
<1>17. ASSUME NEW c \in Calls, TokenGranted(c) PROVE Live'
  <2>1. OfCall(c) /\ call[c].pc = "token" /\ UNCHANGED sessionVars
    BY <1>17 DEF OfCall, CallStep, TokenGranted, At
  <2>2. PICK r \in Rooms : /\ call' = [call EXCEPT ![c].pc = "dial", ![c].room = r]
                           /\ room[r] = Closed
    BY <1>17 DEF TokenGranted
  <2>3. call'[c].pc = "dial" /\ call'[c].op = call[c].op /\ call'[c].party = call[c].party
        /\ call'[c].room = r
    BY <1>i, <2>2 DEF TypeInv, TypeOK, CallType
  <2>4. ~room[r].adrift
    BY <2>2 DEF Closed
  <2>5. CallLive(call[c])'
    BY <2>1, <2>3, <2>4 DEF Live, CallLive, Held, sessionVars
  <2> QED
    BY <1>c, <2>1, <2>3, <2>5, Moved DEF Dialing
<1>18. ASSUME NEW c \in Calls, RoomConnects(c) PROVE Live'
  <2>1. OfCall(c) /\ call[c].pc = "dial" /\ Goto(c, "mic")
    BY <1>18 DEF OfCall, CallStep, RoomConnects, At
  <2>2. Only(c) /\ Only(c)'
    BY <1>c, <2>1
  <2>3. PICK k : k = call[c]
    OBVIOUS
  <2>4. k.op = "voice" /\ k.room \in Rooms /\ k.party \in Parties
    BY <1>i, <2>1, <2>3 DEF InPlace, PlacesOf, CallType, MaybeRoom
  <2>5. /\ call'[c].pc = "mic" /\ call'[c].op = k.op /\ call'[c].party = k.party
        /\ call'[c].room = k.room
    BY <1>i, <2>1, <2>3 DEF Goto, TypeInv, TypeOK, CallType
  <2>6. ~Held /\ ~room[k.room].adrift /\ voiceParty # k.party
    BY <2>1, <2>3, <2>4, NullAssumption DEF Live, CallLive
  <2>7. (\A r \in Rooms : room[r] # Closed => room[r].adrift) /\ (\A r \in peers.playing : room[r].adrift)
    <3>1. CASE roomRef = NoRoom
      BY <3>1, NullAssumption DEF Live, RoomLive, NoPeers
    <3>2. CASE roomRef # NoRoom
      <4>1. room[roomRef].adrift
        BY <2>6, <3>2 DEF Held
      <4> QED
        BY <4>1 DEF Live, RoomLive
    <3> QED
      BY <3>1, <3>2
  <2>8. roomRef' = k.room /\ voiceParty' = voiceParty /\ voiceState' = voiceState /\ peers' = peers
    BY <1>18, <2>3 DEF RoomConnects
  <2>9. PICK peer \in {"away", "here", "missed"} :
          room' = [room EXCEPT ![k.room] = [party |-> k.party, isolation |-> k.saw.isolation,
                                            peer |-> peer, adrift |-> FALSE]]
    BY <1>18, <2>3 DEF RoomConnects
  <2>10. /\ room'[k.room].party = k.party /\ room'[k.room].peer # "heard"
         /\ ~room'[k.room].adrift
         /\ \A r \in Rooms \ {k.room} : room'[r] = room[r]
    BY <1>y, <2>4, <2>9
  <2>11. peers.playing \subseteq Rooms /\ k.room \notin peers.playing
    BY <2>6, <2>7 DEF TypeInv, TypeOK
  <2>12. Held' /\ k.room # NoRoom
    BY <2>4, <2>8, <2>10, NullAssumption DEF Held
  <2>13. RoomLive'
    BY <2>4, <2>7, <2>8, <2>10, <2>11, <2>12 DEF Live, RoomLive
  <2>14. Shown'
    BY <2>5 DEF Shown, Dialing
  <2>15. (\A d \in Calls : CallLive(call[d]))'
    BY <1>n, <2>2, <2>5, <2>6, <2>8, <2>10 DEF CallLive, Only
  <2> QED
    BY <2>13, <2>14, <2>15 DEF Live
<1>19. ASSUME NEW c \in Calls, MicrophoneOpens(c) PROVE Live'
  <2>1. OfCall(c) /\ call[c].pc = "mic" /\ Return(c)
    BY <1>19 DEF OfCall, CallStep, MicrophoneOpens, At
  <2>2. Only(c) /\ Only(c)' /\ call'[c] = NoCall
    BY <1>c, <2>1, StillOnly DEF Return
  <2>3. PICK k : k = call[c]
    OBVIOUS
  <2>4. k.op = "voice" /\ k.room \in Rooms /\ k.party \in Parties
    BY <1>i, <2>1, <2>3 DEF InPlace, PlacesOf, CallType, MaybeRoom
  <2>5. voiceParty' = k.party /\ voiceState' = "connected" /\ roomRef' = roomRef /\ room' = room
    BY <1>19, <2>3 DEF MicrophoneOpens
  <2>6. peers'.listed = Listing(k.room) /\ peers'.playing = peers.playing
        /\ peers' = [listed |-> Listing(k.room), playing |-> peers.playing]
    BY <1>19, <2>3 DEF MicrophoneOpens, TypeInv, TypeOK
  <2>7. (\A d \in Calls : CallLive(call[d]))'
    BY <1>n, <2>2 DEF CallLive, Only
  <2>0. ~room[k.room].adrift
    BY <2>3, <2>4, NullAssumption DEF Live, CallLive
  <2>8. CASE roomRef = NoRoom
    <3>1. room[k.room] = Closed /\ peers = NoPeers
      BY <2>0, <2>4, <2>8, NullAssumption DEF Live, RoomLive
    <3>2. Listing(k.room) = FALSE /\ peers.playing = {}
      BY <3>1 DEF Listing, Closed, NoPeers
    <3>3. peers' = NoPeers
      BY <2>6, <3>2 DEF NoPeers
    <3>4. ~Held /\ ~Held'
      BY <2>5, <2>8 DEF Held
    <3>5. RoomLive'
      BY <2>5, <2>8, <3>1, <3>3, <3>4 DEF Live, RoomLive
    <3> QED
      BY <2>7, <3>4, <3>5 DEF Live, Shown
  <2>9. CASE roomRef # NoRoom
    <3>1. roomRef = k.room /\ room[roomRef].party = k.party
      BY <2>1, <2>3, <2>9 DEF Live, CallLive
    <3>2. Held /\ Held'
      BY <2>0, <2>5, <2>9, <3>1 DEF Held
    <3>3. Shown'
      BY <2>5, <2>6, <3>1 DEF Shown, Listing
    <3>4. RoomLive'
      BY <2>5, <2>6, <2>9, <3>2 DEF Live, RoomLive
    <3> QED
      BY <2>7, <3>3, <3>4 DEF Live
  <2> QED
    BY <2>8, <2>9
<1>20. ASSUME NEW c \in Calls, CallFails(c) PROVE Live'
  <2>1. OfCall(c) /\ Return(c) /\ call[c].pc \in PlacesOf(call[c].op)
    BY <1>20, <1>i DEF OfCall, CallStep, CallFails, InPlace
  <2>2. CASE call[c].op = "voice"
    <3>1. \A d \in Calls : call'[d] = NoCall
      BY <1>c, <2>1, StillOnly DEF Return, Only
    <3>2. Shown' /\ RoomLive'
      BY <1>20, <2>2, FailsAdrift DEF Shown, RoomLive, NoPeers
    <3>3. (\A d \in Calls : CallLive(call[d]))'
      BY <1>n, <3>1 DEF CallLive
    <3> QED
      BY <3>2, <3>3 DEF Live
  <2>3. CASE call[c].op = "join" \/ call[c].op = "leave" \/ call[c].op = "signout"
    <3>1. UNCHANGED sessionVars
      BY <1>20, <2>3 DEF CallFails
    <3>2. ~Dialing(call[c])
      BY <2>1, <2>3 DEF PlacesOf, Dialing
    <3> QED
      BY <1>r, <2>1, <3>1, <3>2
  <2> QED
    BY <1>20, <2>2, <2>3 DEF CallFails
<1>21. CASE IsolationApplied
  <2>1. UNCHANGED <<roomRef, voiceParty, voiceState, peers, call>>
    BY <1>21 DEF IsolationApplied
  <2>2. CASE room' = room
    BY <2>1, <2>2, Still DEF sessionVars
  <2>3. CASE room' = [room EXCEPT ![applying.room].isolation = ~applying.previous]
               /\ room[applying.room] # Closed /\ applying.room \in Rooms
    <3>1. PICK a : a = applying.room
      OBVIOUS
    <3> DEFINE b == ~applying.previous
    <3>2. a \in Rooms /\ room[a] # Closed /\ room' = [room EXCEPT ![a].isolation = b]
      BY <2>3, <3>1
    <3> HIDE DEF b
    <3>3. /\ room'[a].party = room[a].party /\ room'[a].peer = room[a].peer
          /\ room'[a].adrift = room[a].adrift
          /\ \A r \in Rooms \ {a} : room'[r] = room[r]
      BY <1>y, <3>2 DEF Connection
    <3>4. \A r \in Rooms : Same(r) /\ room'[r].peer = room[r].peer
      BY <3>2, <3>3 DEF Same
    <3>5. Held => roomRef \in Rooms
      BY DEF Held, TypeInv, TypeOK, MaybeRoom
    <3>6. peers.playing \subseteq Rooms
      BY DEF TypeInv, TypeOK
    <3> QED
      BY <2>1, <3>4, <3>5, <3>6, SameRooms DEF Live, RoomLive, Shown, Listing
  <2>4. applying.room \notin Rooms /\ room' = [room EXCEPT ![applying.room].isolation = ~applying.previous]
          => room' = room
    BY <1>y
  <2> QED
    BY <1>21, <2>2, <2>3, <2>4 DEF IsolationApplied
<1>22. ASSUME NEW c \in Calls, SignOutPressed(c) \/ SignedOut(c) PROVE FALSE
  BY <1>22, OnlyOne DEF OfCall, CallStep
<1>23. CASE UNCHANGED vars
  BY <1>23, Still DEF vars, sessionVars
<1> QED
  BY <1>1, <1>2, <1>3, <1>4, <1>5, <1>6, <1>7, <1>8, <1>9, <1>10, <1>11, <1>12, <1>13, <1>14, <1>15, <1>16, <1>17, <1>18, <1>19, <1>20, <1>21, <1>22, <1>23
     DEF Next, CallStep

----------------------------------------------------------------------------
(* The party on show *)

(* Once the effect ran, voice is of the party that the home view shows. *)
Settled == ~due /\ Held /\ Quiet => active = voiceParty

(* A step that moves neither the view nor the voice, or has the effect run *)
(* again.                                                                  *)
LEMMA Watched ==
  ASSUME Settled, Rerender \/ UNCHANGED <<due, active, voiceParty>>, due \in BOOLEAN,
         Held' => Held, Held' /\ Quiet' => Quiet
  PROVE  Settled'
  BY DEF Settled, Rerender

(* Every step keeps voice with the view, or has the effect run again.      *)
LEMMA NextSettled ==
  TypeInv /\ TypeInv' /\ Patient /\ Alone /\ Live /\ Settled /\ [Next]_vars => Settled'
<1> SUFFICES ASSUME TypeInv, TypeInv', Patient, Alone, Live, Settled, [Next]_vars PROVE Settled'
  OBVIOUS
<1>i. \A c \in Calls : InPlace(call[c]) /\ call[c] \in CallType
  BY DEF TypeInv, InPlace
<1>b. due \in BOOLEAN
  BY DEF TypeInv, TypeOK
<1>p. Held /\ Quiet => voiceParty # NoParty
  <2> SUFFICES ASSUME Held, Quiet PROVE voiceParty # NoParty
    OBVIOUS
  <2>1. \A c \in Calls : ~Dialing(call[c])
    BY <1>i DEF Quiet, Dialing, InPlace, PlacesOf, CallType
  <2>2. roomRef \in Rooms
    BY DEF Held, TypeInv, TypeOK, MaybeRoom
  <2> QED
    BY <2>1, <2>2, NullAssumption DEF Live, Shown, TypeInv, TypeOK
<1>h. ASSUME roomRef' = NoRoom \/ ~Held' PROVE Settled'
  BY <1>h DEF Settled, Held
<1>s. ASSUME call' = call, Held' => Held, Rerender \/ UNCHANGED <<due, active, voiceParty>>
      PROVE  Settled'
  BY <1>b, <1>s, Watched DEF Quiet
<1>r. UNCHANGED <<roomRef, room>> => (Held' => Held)
  BY DEF Held
<1>y. room \in [Rooms -> Connection] /\ roomRef \in MaybeRoom
  BY DEF TypeInv, TypeOK
<1>c. ASSUME NEW c \in Calls, OfCall(c), call[c].op # "voice", UNCHANGED <<roomRef, room>>,
             Rerender \/ UNCHANGED <<due, active, voiceParty>>
      PROVE  Settled'
  <2>1. Only(c)
    BY <1>c, OnlyOne
  <2>2. Quiet
    BY <1>c, <2>1 DEF Quiet, Only, NoCall
  <2> QED
    BY <1>b, <1>c, <1>r, <2>2, Watched
<1>v. ASSUME NEW c \in Calls, call'[c].op = "voice" PROVE Settled'
  BY <1>v DEF Settled, Quiet
<1>1. CASE MovedElsewhere \/ IsolationToggled \/ IsolationApplied
  <2>1. CASE MovedElsewhere \/ IsolationToggled
    BY <1>r, <1>s, <2>1 DEF MovedElsewhere, IsolationToggled, sessionVars, serverVars
  <2>2. CASE IsolationApplied
    <3>1. roomRef' = roomRef /\ call' = call /\ UNCHANGED <<due, active, voiceParty>>
      BY <2>2 DEF IsolationApplied, serverVars
    <3>2. CASE room' = room
      BY <1>r, <1>s, <3>1, <3>2
    <3>3. CASE room' = [room EXCEPT ![applying.room].isolation = ~applying.previous]
      <4> DEFINE b == ~applying.previous
      <4>1. room' = [room EXCEPT ![applying.room].isolation = b]
        BY <3>3
      <4> HIDE DEF b
      <4>2. \A r \in Rooms : room'[r].adrift = room[r].adrift
        BY <1>y, <4>1 DEF Connection
      <4>3. Held' => Held
        BY <1>y, <3>1, <4>2 DEF Held, MaybeRoom
      <4> QED
        BY <1>s, <3>1, <4>3
    <3> QED
      BY <2>2, <3>2, <3>3 DEF IsolationApplied
  <2> QED
    BY <1>1, <2>1, <2>2
<1>2. CASE Refetched
  BY <1>2, <1>r, <1>s DEF Refetched, sessionVars
<1>3. CASE VoiceEffect
  <2>1. CASE DisconnectVoice
    BY <1>h, <2>1 DEF DisconnectVoice, Forget
  <2>2. CASE ~(roomRef # NoRoom
                 /\ (active = NoParty \/ (voiceParty # NoParty /\ active # voiceParty)))
    <3>1. UNCHANGED <<roomRef, room, voiceParty, active, call>>
      BY <1>3, <2>2 DEF VoiceEffect, sessionVars, serverVars
    <3> QED
      BY <1>p, <2>2, <3>1 DEF Settled, Held, Quiet
  <2> QED
    BY <1>3, <2>1, <2>2 DEF VoiceEffect
<1>4. CASE LeaveVoicePressed
  BY <1>4, <1>h DEF LeaveVoicePressed, DisconnectVoice, Forget
<1>5. ASSUME NEW r \in Rooms, RoomDrops(r) PROVE Settled'
  <2>1. CASE roomRef = r
    BY <1>5, <1>h, <2>1 DEF RoomDrops, Forget
  <2>2. CASE roomRef # r
    <3>1. UNCHANGED <<roomRef, call>> /\ Rerender /\ \A q \in Rooms \ {r} : room'[q] = room[q]
      BY <1>5, <1>y, <2>2 DEF RoomDrops, Hang
    <3>2. Held' => Held
      BY <1>y, <2>2, <3>1 DEF Held, MaybeRoom
    <3> QED
      BY <1>s, <3>1, <3>2
  <2> QED
    BY <2>1, <2>2
<1>6. ASSUME NEW r \in Rooms,
             ParticipantConnected(r) \/ ParticipantDisconnected(r)
               \/ TrackSubscribed(r) \/ TrackUnsubscribed(r)
      PROVE  Settled'
  <2>1. PICK peer, now : PeerBecomes(r, peer, now)
    BY <1>6 DEF ParticipantConnected, ParticipantDisconnected, TrackSubscribed, TrackUnsubscribed
  <2>2. UNCHANGED <<roomRef, call, due, active, voiceParty>>
    BY <2>1 DEF PeerBecomes, serverVars
  <2>3. \A q \in Rooms : room'[q].adrift = room[q].adrift
    BY <1>y, <2>1 DEF PeerBecomes, Connection
  <2>4. Held' => Held
    BY <1>y, <2>2, <2>3 DEF Held, MaybeRoom
  <2> QED
    BY <1>s, <2>2, <2>4
<1>7. ASSUME NEW c \in Calls, OfCall(c) PROVE Settled'
  <2>o. Only(c) /\ ~SignOutPressed(c) /\ ~SignedOut(c)
    BY <1>7, OnlyOne
  <2>n. call[c] = NoCall => call[c].op # "voice"
    BY DEF NoCall
  <2>q. ASSUME NEW p \in Parties, VoicePressed(c, p) PROVE Settled'
    <3>1. call[c].op # "voice" /\ Rerender
      BY <2>n, <2>q DEF VoicePressed, Press
    <3>2. roomRef' = NoRoom \/ UNCHANGED <<roomRef, room>>
      BY <2>q DEF VoicePressed, RequestVoice, sessionVars
    <3> QED
      BY <1>7, <1>c, <1>h, <3>1, <3>2
  <2>1. ASSUME NEW p \in Parties, JoinPressed(c, p) PROVE Settled'
    BY <1>7, <1>c, <2>1, <2>n DEF JoinPressed, Press, sessionVars, serverVars
  <2>2. CASE LeavePressed(c)
    BY <1>7, <1>c, <2>2, <2>n DEF LeavePressed, Press, sessionVars, serverVars
  <2>3. CASE JoinServed(c)
    <3>1. call'[c].op = call[c].op
      BY <1>i, <2>3 DEF JoinServed, Goto, TypeInv, TypeOK, CallType
    <3>2. UNCHANGED <<roomRef, room, due, active, voiceParty>>
      BY <2>3 DEF JoinServed, sessionVars
    <3> QED
      BY <1>7, <1>c, <1>v, <3>1, <3>2
  <2>4. CASE JoinAnswered(c)
    BY <1>7, <1>c, <2>4 DEF JoinAnswered, sessionVars
  <2>5. CASE LeaveServed(c)
    <3>1. call[c].op # "voice"
      BY <1>i, <2>5 DEF LeaveServed, At, InPlace, PlacesOf, CallType
    <3> QED
      BY <1>7, <1>c, <2>5, <3>1 DEF LeaveServed, sessionVars
  <2>6. CASE LeaveAnswered(c)
    <3>1. call[c].op # "voice"
      BY <1>i, <2>6 DEF LeaveAnswered, At, InPlace, PlacesOf, CallType
    <3>2. (roomRef' = NoRoom \/ UNCHANGED <<roomRef, room>>) /\ Rerender
      BY <2>6 DEF LeaveAnswered, DisconnectVoice, Forget, sessionVars
    <3> QED
      BY <1>7, <1>c, <1>h, <3>1, <3>2
  <2>7. CASE VoiceJoined(c)
    <3>1. roomRef # NoRoom => call[c].saw.party # call[c].party
      BY <2>7 DEF VoiceJoined, At, Live, CallLive
    <3>2. PICK k : k = [op |-> "voice", pc |-> "token", party |-> call[c].party,
                        saw |-> [Blank EXCEPT !.isolation = call[c].saw.isolation],
                        room |-> NoRoom]
      OBVIOUS
    <3>3. call' = [call EXCEPT ![c] = k]
      BY <2>7, <3>1, <3>2 DEF VoiceJoined, RequestVoice, Enter
    <3>4. call'[c] = k
      BY <3>3, <2>o, StillOnly
    <3>5. call'[c].op = "voice"
      BY <3>2, <3>4
    <3> QED
      BY <1>v, <3>5
  <2>8. CASE TokenGranted(c)
    <3>1. ~Held'
      BY <2>8 DEF TokenGranted, At, Live, CallLive, Held, sessionVars
    <3> QED
      BY <1>h, <3>1
  <2>9. CASE RoomConnects(c)
    <3>1. call[c].op = "voice"
      BY <1>i, <2>9 DEF RoomConnects, At, InPlace, PlacesOf, CallType
    <3>2. call'[c].op = "voice"
      BY <1>i, <2>9, <3>1 DEF RoomConnects, Goto, TypeInv, TypeOK, CallType
    <3> QED
      BY <1>v, <3>2
  <2>10. CASE MicrophoneOpens(c)
    <3>1. call[c].op = "voice"
      BY <1>i, <2>10 DEF MicrophoneOpens, At, InPlace, PlacesOf, CallType
    <3>2. voiceParty' # voiceParty /\ Rerender
      BY <2>10, <3>1 DEF MicrophoneOpens, Live, CallLive
    <3>3. due'
      BY <3>2 DEF Rerender
    <3> QED
      BY <3>3 DEF Settled
  <2>11. CASE CallFails(c)
    <3>1. CASE call[c].op # "voice"
      BY <1>7, <1>c, <2>11, <3>1 DEF CallFails, sessionVars
    <3>2. CASE call[c].op = "voice"
      <4> QED
        BY <1>h, <2>11, <3>2, FailsAdrift
    <3> QED
      BY <3>1, <3>2
  <2> QED
    BY <1>7, <2>o, <2>q, <2>1, <2>2, <2>3, <2>4, <2>5, <2>6, <2>7, <2>8, <2>9, <2>10, <2>11
       DEF OfCall, CallStep
<1>8. CASE UNCHANGED vars
  BY <1>8, <1>r, <1>s DEF vars
<1> QED
  BY <1>1, <1>2, <1>3, <1>4, <1>5, <1>6, <1>7, <1>8 DEF Next, OfCall

----------------------------------------------------------------------------
(* The microphone *)

(* The live microphone has the option the button shows, or is being        *)
(* restarted to have it; a voice call has seen that option.                *)
Micro ==
  /\ Held /\ applying = NotApplying => room[roomRef].isolation = isolation
  /\ applying # NotApplying =>
       /\ isolation = ~applying.previous
       /\ Held =>
            roomRef = applying.room /\ room[roomRef].isolation = applying.previous
  /\ \A c \in Calls : call[c].op = "voice" => call[c].saw.isolation = isolation

(* A step that leaves the option alone, and the room in the ref, if one is *)
(* left there.                                                             *)
LEMMA SameMicro ==
  ASSUME Micro, UNCHANGED microphoneVars,
         Held' =>
           /\ Held /\ roomRef' = roomRef
           /\ room'[roomRef].isolation = room[roomRef].isolation,
         \A c \in Calls : call'[c].op = "voice" => call'[c].saw.isolation = isolation
  PROVE  Micro'
<1>1. isolation' = isolation /\ applying' = applying
  BY DEF microphoneVars
<1>2. (\A c \in Calls : call[c].op = "voice" => call[c].saw.isolation = isolation)'
  BY <1>1
<1> QED
  BY <1>1, <1>2 DEF Micro

(* Every step keeps the microphone to the option shown.                    *)
LEMMA NextMicro ==
  TypeInv /\ TypeInv' /\ Patient /\ Alone /\ Live /\ Micro /\ [Next]_vars => Micro'
<1> SUFFICES ASSUME TypeInv, TypeInv', Patient, Alone, Live, Micro, [Next]_vars PROVE Micro'
  OBVIOUS
<1>i. \A c \in Calls : InPlace(call[c]) /\ call[c] \in CallType
  BY DEF TypeInv, InPlace
<1>y. room \in [Rooms -> Connection] /\ roomRef \in MaybeRoom
  BY DEF TypeInv, TypeOK
<1>s. ASSUME call' = call, UNCHANGED microphoneVars,
             Held' =>
               /\ Held /\ roomRef' = roomRef
               /\ room'[roomRef].isolation = room[roomRef].isolation
      PROVE  Micro'
  BY <1>s, SameMicro DEF Micro
<1>k. roomRef' = NoRoom \/ UNCHANGED <<roomRef, room>> =>
        (Held' => /\ Held /\ roomRef' = roomRef
                  /\ room'[roomRef].isolation = room[roomRef].isolation)
  BY DEF Held
<1>1. CASE MovedElsewhere \/ Refetched
  BY <1>1, <1>k, <1>s DEF MovedElsewhere, Refetched, sessionVars
<1>2. CASE VoiceEffect \/ LeaveVoicePressed
  BY <1>2, <1>k, <1>s DEF VoiceEffect, LeaveVoicePressed, DisconnectVoice, Forget, sessionVars
<1>3. ASSUME NEW r \in Rooms, RoomDrops(r) PROVE Micro'
  <2>1. CASE r = roomRef
    BY <1>3, <1>k, <1>s, <2>1 DEF RoomDrops, Forget
  <2>2. CASE r # roomRef
    <3>1. UNCHANGED <<roomRef, call, microphoneVars>>
          /\ \A q \in Rooms \ {r} : room'[q] = room[q]
      BY <1>3, <1>y, <2>2 DEF RoomDrops, Hang
    <3>2. Held' => /\ Held /\ roomRef' = roomRef
                   /\ room'[roomRef].isolation = room[roomRef].isolation
      BY <1>y, <2>2, <3>1 DEF Held, MaybeRoom
    <3> QED
      BY <1>s, <3>1, <3>2
  <2> QED
    BY <2>1, <2>2
<1>p. ASSUME NEW r \in Rooms, NEW peer, NEW now, PeerBecomes(r, peer, now) PROVE Micro'
  <2>1. roomRef' = roomRef
        /\ \A q \in Rooms : room'[q].adrift = room[q].adrift
                            /\ room'[q].isolation = room[q].isolation
    BY <1>y, <1>p DEF PeerBecomes, Connection
  <2>2. Held' => /\ Held /\ roomRef' = roomRef
                 /\ room'[roomRef].isolation = room[roomRef].isolation
    BY <1>y, <2>1 DEF Held, MaybeRoom
  <2> QED
    BY <1>p, <1>s, <2>2 DEF PeerBecomes
<1>4. ASSUME NEW r \in Rooms,
             ParticipantConnected(r) \/ ParticipantDisconnected(r)
               \/ TrackSubscribed(r) \/ TrackUnsubscribed(r)
      PROVE  Micro'
  BY <1>4, <1>p DEF ParticipantConnected, ParticipantDisconnected, TrackSubscribed,
     TrackUnsubscribed
<1>5. CASE IsolationToggled
  <2>1. \A c \in Calls : call[c].op # "voice"
    BY <1>5 DEF IsolationToggled, Patient
  <2>2. \A c \in Calls : ~Dialing(call[c])
    BY <1>i, <2>1 DEF Dialing, InPlace, PlacesOf, CallType
  <2>3. Held <=> roomRef # NoRoom /\ voiceState = "connected"
    BY <2>2 DEF Held, Live, Shown, RoomLive
  <2>4. applying = NotApplying /\ isolation' = ~isolation /\ call' = call
        /\ roomRef' = roomRef /\ room' = room
    BY <1>5 DEF IsolationToggled, sessionVars
  <2>5. isolation \in BOOLEAN /\ isolation' \in BOOLEAN
    BY DEF TypeInv, TypeOK
  <2>h. Held' <=> Held
    BY <2>4 DEF Held
  <2>6. CASE ~Held
    <3>1. applying' = NotApplying
      BY <1>5, <2>3, <2>6 DEF IsolationToggled
    <3> QED
      BY <2>1, <2>4, <2>6, <2>h, <3>1 DEF Micro, NotApplying
  <2>7. CASE Held
    <3>1. applying' = [room |-> roomRef, previous |-> isolation]
      BY <1>5, <2>3, <2>7 DEF IsolationToggled
    <3>2. applying'.room = roomRef /\ applying'.previous = isolation /\ applying' # NotApplying
      BY <2>3, <2>7, <3>1 DEF NotApplying
    <3>3. isolation' = ~applying'.previous
      BY <2>4, <3>2
    <3> QED
      BY <2>1, <2>4, <2>7, <2>h, <3>2, <3>3 DEF Micro
  <2> QED
    BY <2>6, <2>7
<1>6. CASE IsolationApplied
  <2>1. Quiet /\ applying # NotApplying /\ applying' = NotApplying
        /\ roomRef' = roomRef /\ call' = call
    BY <1>6 DEF IsolationApplied, Alone
  <2>2. isolation \in BOOLEAN /\ isolation' \in BOOLEAN /\ applying.previous \in BOOLEAN
    BY DEF TypeInv, TypeOK
  <2>3. isolation = ~applying.previous
        /\ (Held =>
               roomRef = applying.room /\ room[roomRef].isolation = applying.previous)
    BY <2>1 DEF Micro
  <2>4. ASSUME Held PROVE room'[roomRef].isolation = isolation'
    <3>1. roomRef \in Rooms /\ room[roomRef] # Closed
      BY <1>y, <2>4 DEF Held, MaybeRoom, TypeInv
    <3>2. CASE room' = room /\ isolation' = applying.previous
      BY <2>3, <2>4, <3>2
    <3>3. CASE room' = [room EXCEPT ![applying.room].isolation = ~applying.previous]
                 /\ isolation' = isolation
      <4> DEFINE b == ~applying.previous
      <4>1. b = isolation'
        BY <2>2, <2>3, <3>3
      <4>2. room' = [room EXCEPT ![roomRef].isolation = b]
        BY <2>3, <2>4, <3>3
      <4> HIDE DEF b
      <4>3. room'[roomRef].isolation = b
        BY <1>y, <3>1, <4>2 DEF Connection
      <4> QED
        BY <4>1, <4>3
    <3> QED
      BY <1>6, <2>3, <2>4, <3>1, <3>2, <3>3 DEF IsolationApplied
  <2>5. Held' => Held
    <3>1. CASE room' = room
      BY <2>1, <3>1 DEF Held
    <3>2. CASE room' = [room EXCEPT ![applying.room].isolation = ~applying.previous]
      <4> DEFINE b == ~applying.previous
      <4>1. room' = [room EXCEPT ![applying.room].isolation = b]
        BY <3>2
      <4> HIDE DEF b
      <4>2. \A r \in Rooms : room'[r].adrift = room[r].adrift
        BY <1>y, <4>1 DEF Connection
      <4> QED
        BY <1>y, <2>1, <4>2 DEF Held, MaybeRoom
    <3> QED
      BY <1>6, <3>1, <3>2 DEF IsolationApplied
  <2> QED
    BY <2>1, <2>4, <2>5 DEF Micro, Quiet
<1>7. ASSUME NEW c \in Calls, OfCall(c) PROVE Micro'
  <2>o. /\ Only(c) /\ Only(c)' /\ ~SignOutPressed(c) /\ ~SignedOut(c)
        /\ call'[c].op = "voice" =>
             \/ call[c].op = "voice" /\ call'[c].saw.isolation = call[c].saw.isolation
             \/ applying = NotApplying /\ call'[c].saw.isolation = isolation
    BY <1>7, OnlyOne
  <2>n. NoCall.op # "voice"
    BY DEF NoCall
  <2>c. \A d \in Calls : call'[d].op = "voice" => call'[d].saw.isolation = isolation
    BY <2>n, <2>o DEF Only, Micro
  <2>s. ASSUME UNCHANGED microphoneVars, roomRef' = NoRoom \/ (roomRef' = roomRef /\ room' = room)
        PROVE  Micro'
    BY <1>k, <2>c, <2>s, SameMicro
  <2>1. ASSUME NEW p \in Parties, JoinPressed(c, p) PROVE Micro'
    BY <2>1, <2>s DEF JoinPressed, sessionVars
  <2>2. CASE LeavePressed(c) \/ JoinServed(c) \/ JoinAnswered(c) \/ LeaveServed(c) \/ TokenGranted(c)
    BY <2>2, <2>s DEF LeavePressed, JoinServed, JoinAnswered, LeaveServed, TokenGranted, sessionVars
  <2>3. CASE LeaveAnswered(c)
    BY <2>3, <2>s DEF LeaveAnswered, DisconnectVoice, Forget, sessionVars
  <2>4. ASSUME NEW p \in Parties, VoicePressed(c, p) PROVE Micro'
    BY <2>4, <2>s DEF VoicePressed, RequestVoice, sessionVars
  <2>5. CASE VoiceJoined(c)
    BY <2>5, <2>s DEF VoiceJoined, RequestVoice, sessionVars
  <2>6. CASE MicrophoneOpens(c)
    BY <2>6, <2>s DEF MicrophoneOpens
  <2>7. CASE CallFails(c)
    <3>1. CASE call[c].op # "voice"
      BY <2>7, <2>s, <3>1 DEF CallFails, sessionVars
    <3>2. CASE call[c].op = "voice"
      <4>1. ~Held' /\ UNCHANGED microphoneVars
        BY <2>7, <3>2, FailsAdrift DEF CallFails
      <4> QED
        BY <2>c, <4>1, SameMicro
    <3> QED
      BY <3>1, <3>2
  <2>8. CASE RoomConnects(c)
    <3>1. PICK k : k = call[c]
      OBVIOUS
    <3>2. k.pc = "dial" /\ k.op = "voice" /\ k.room \in Rooms
      BY <1>i, <2>8, <3>1 DEF RoomConnects, At, InPlace, PlacesOf, CallType, MaybeRoom
    <3>3. applying = NotApplying /\ k.saw.isolation = isolation
      BY <3>1, <3>2 DEF Alone, Quiet, Micro
    <3>4. roomRef' = k.room /\ applying' = applying /\ isolation' = isolation
      BY <2>8, <3>1 DEF RoomConnects, microphoneVars
    <3>5. PICK peer : room' = [room EXCEPT ![k.room] =
                                 [party |-> k.party, isolation |-> k.saw.isolation,
                                  peer |-> peer, adrift |-> FALSE]]
      BY <2>8, <3>1 DEF RoomConnects
    <3>6. room'[k.room].isolation = k.saw.isolation
      BY <1>y, <3>2, <3>5
    <3> QED
      BY <2>c, <3>3, <3>4, <3>6 DEF Micro
  <2> QED
    BY <1>7, <2>o, <2>1, <2>2, <2>3, <2>4, <2>5, <2>6, <2>7, <2>8 DEF OfCall, CallStep
<1>8. CASE UNCHANGED vars
  BY <1>8, <1>k, <1>s DEF vars, microphoneVars
<1> QED
  BY <1>1, <1>2, <1>3, <1>4, <1>5, <1>6, <1>7, <1>8 DEF Next, OfCall

----------------------------------------------------------------------------
(* The session of a patient user *)

VoiceInv == TypeInv /\ Spinners /\ Alone /\ Live /\ Settled /\ Micro

(* At first nothing is connected and no call is in flight. *)
LEMMA InitVoice == Init => VoiceInv
<1> SUFFICES ASSUME Init PROVE VoiceInv
  OBVIOUS
<1>1. \A c \in Calls : call[c] = NoCall
  BY DEF Init
<1>2. NoCall.pc = "none" /\ NoCall.op = "none"
  BY DEF NoCall
<1>3. Spinners
  BY DEF Init, Spinners, Idle
<1>4. Alone
  BY <1>1, <1>2 DEF Init, Alone
<1>5. Live
  BY <1>1, NoCallLive DEF Init, Live, Shown, RoomLive, Held, Closed, NoPeers
<1>6. Settled /\ Micro
  BY <1>1, <1>2 DEF Init, Settled, Micro, Held
<1> QED
  BY InitTypes, <1>3, <1>4, <1>5, <1>6 DEF VoiceInv

(* The conjuncts together are inductive for a patient user. *)
LEMMA NextVoice == Patient /\ VoiceInv /\ [Next]_vars => VoiceInv'
  BY NextTypes, NextSpinners, NextAlone, NextLive, NextSettled, NextMicro DEF VoiceInv

(* With no voice call in flight the session is as shown, unless adrift.    *)
LEMMA ShownWhenQuiet ==
  ASSUME VoiceInv, Quiet, Held
  PROVE  voiceState = "connected" /\ voiceParty = room[roomRef].party
         /\ (peers.listed <=> Listing(roomRef))
<1>1. \A c \in Calls : ~Dialing(call[c])
  BY DEF Quiet, Dialing, VoiceInv, TypeInv, InPlace, PlacesOf, CallType
<1> QED
  BY <1>1 DEF VoiceInv, Live, Shown

(* However the answers, the hang-ups and the moves of others interleave,   *)
(* the only room that LiveKit has connected is the one in the ref, but for *)
(* one that a refused switch left there.                                   *)
THEOREM OneLive == Patient => (Spec => []OneLiveRoom)
<1> SUFFICES ASSUME Patient PROVE Spec => []OneLiveRoom
  OBVIOUS
<1>1. VoiceInv => OneLiveRoom
  BY DEF VoiceInv, Live, RoomLive, OneLiveRoom, Connected
<1>2. VoiceInv /\ [Next]_vars => VoiceInv'
  BY NextVoice
<1> QED
  BY InitVoice, <1>1, <1>2, PTL DEF Spec

(* Between voice calls the tab shows the voice, and the others, as they    *)
(* are, unless the room in the ref is adrift.                              *)
THEOREM ShownAsIs == Patient => (Spec => []VoiceAsShown)
<1> SUFFICES ASSUME Patient PROVE Spec => []VoiceAsShown
  OBVIOUS
<1>1. VoiceInv => VoiceAsShown
  BY ShownWhenQuiet DEF Quiet, Held, VoiceAsShown, VoiceInv, Live, RoomLive
<1>2. VoiceInv /\ [Next]_vars => VoiceInv'
  BY NextVoice
<1> QED
  BY InitVoice, <1>1, <1>2, PTL DEF Spec

(* Once the effect ran, voice is of the party the home view shows, or its  *)
(* room is adrift.                                                         *)
THEOREM InParty == Patient => (Spec => []SettledInParty)
<1> SUFFICES ASSUME Patient PROVE Spec => []SettledInParty
  OBVIOUS
<1>1. VoiceInv => SettledInParty
  <2> SUFFICES ASSUME VoiceInv, ~due, Held, Quiet
               PROVE  active = room[roomRef].party
    BY DEF SettledInParty, Quiet, Held
  <2> QED
    BY ShownWhenQuiet DEF VoiceInv, Settled
<1>2. VoiceInv /\ [Next]_vars => VoiceInv'
  BY NextVoice
<1> QED
  BY InitVoice, <1>1, <1>2, PTL DEF Spec

(* The live microphone has the voice isolation that the button shows.      *)
THEOREM MicrophoneHolds == Patient => (Spec => []MicrophoneAsShown)
<1> SUFFICES ASSUME Patient PROVE Spec => []MicrophoneAsShown
  OBVIOUS
<1>1. VoiceInv => MicrophoneAsShown
  BY DEF VoiceInv, Micro, Held, Live, RoomLive, MicrophoneAsShown
<1>2. VoiceInv /\ [Next]_vars => VoiceInv'
  BY NextVoice
<1> QED
  BY InitVoice, <1>1, <1>2, PTL DEF Spec
=============================================================================
