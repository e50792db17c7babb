----------------------- MODULE PresenceActivityProofs -----------------------
(***************************************************************************)
(* Proofs about PresenceActivity, for any user, tabs and bounds.           *)
(***************************************************************************)
EXTENDS PresenceActivity, FiniteSetTheorems, TLAPS

----------------------------------------------------------------------------
(* The functions of the hook *)

(* What every function of the hook leaves alone, and the types it keeps,   *)
(* but for the posts, whose number Becomes bounds.                         *)
TabFields ==
  [enabled : BOOLEAN, due : BOOLEAN, listening : BOOLEAN, hidden : BOOLEAN,
   timer : BOOLEAN, current : LiveStatus, recent : BOOLEAN,
   posts : [LiveStatus -> Nat]]

Kept(s, next) ==
  /\ next.enabled = s.enabled /\ next.due = s.due
  /\ next.listening = s.listening /\ next.hidden = s.hidden

(* pushStatus tells a status, and touches no timer; when forced, and with  *)
(* a session, the status is the current one afterwards.                    *)
LEMMA PushStatusFacts ==
  ASSUME NEW s \in TabFields, NEW status \in LiveStatus, NEW force \in BOOLEAN
  PROVE  /\ PushStatus(s, status, force) \in TabFields
         /\ Kept(s, PushStatus(s, status, force))
         /\ PushStatus(s, status, force).timer = s.timer
         /\ force /\ s.enabled => PushStatus(s, status, force).current = status
         /\ ~s.enabled => PushStatus(s, status, force) = s
<1>1. [s.posts EXCEPT ![status] = @ + 1] \in [LiveStatus -> Nat]
  BY DEF TabFields
<1>2. CASE ~s.enabled \/ (~force /\ s.current = status /\ (status = "online" => s.recent))
  BY <1>2 DEF PushStatus, Kept
<1>3. CASE ~(~s.enabled \/ (~force /\ s.current = status /\ (status = "online" => s.recent)))
  <2>1. PushStatus(s, status, force)
          = [s EXCEPT !.current = status, !.recent = @ \/ status = "online",
                      !.posts[status] = @ + 1]
    BY <1>3 DEF PushStatus
  <2> QED
    BY <1>1, <1>3, <2>1 DEF TabFields, Kept
<1> QED
  BY <1>2, <1>3

(* scheduleIdleTimer: with a hidden tab no timer runs afterwards and away  *)
(* is told, otherwise nothing but the timer changes.                       *)
LEMMA ScheduleIdleTimerFacts ==
  ASSUME NEW s \in TabFields
  PROVE  /\ ScheduleIdleTimer(s) \in TabFields
         /\ Kept(s, ScheduleIdleTimer(s))
         /\ ScheduleIdleTimer(s).timer => ~s.hidden
         /\ s.hidden /\ s.enabled => ScheduleIdleTimer(s).current = "away"
         /\ ~s.hidden => ScheduleIdleTimer(s).current = s.current
<1> DEFINE c == ClearIdleTimer(s)
<1>1. c \in TabFields /\ Kept(s, c) /\ c.timer = FALSE /\ c.current = s.current
  BY DEF ClearIdleTimer, TabFields, Kept
<1>2. CASE s.hidden
  <2>1. ScheduleIdleTimer(s) = PushStatus(c, "away", TRUE)
    BY <1>2 DEF ScheduleIdleTimer
  <2>2. "away" \in LiveStatus /\ TRUE \in BOOLEAN
    BY DEF LiveStatus
  <2> HIDE DEF c
  <2>3. /\ PushStatus(c, "away", TRUE) \in TabFields
        /\ Kept(c, PushStatus(c, "away", TRUE))
        /\ PushStatus(c, "away", TRUE).timer = c.timer
        /\ c.enabled => PushStatus(c, "away", TRUE).current = "away"
    BY <1>1, <2>2, PushStatusFacts
  <2> QED
    BY <1>1, <1>2, <2>1, <2>3 DEF Kept
<1>3. CASE ~s.hidden
  BY <1>3 DEF ScheduleIdleTimer, TabFields, Kept
<1> QED
  BY <1>2, <1>3

----------------------------------------------------------------------------
(* What holds of every tab *)

(* A timer runs only in a shown tab with listeners; listeners outlive the  *)
(* session only until the effect runs; and once it ran, a hidden tab has   *)
(* told that its user is away.                                             *)
Sound(s) ==
  /\ s.timer => s.listening /\ ~s.hidden
  /\ s.listening => s.enabled \/ s.due
  /\ s.enabled /\ ~s.due => s.listening
  /\ s.enabled /\ s.hidden /\ ~s.due => s.current = "away"

SoundTab == {s \in TabFields : Sound(s)}

(* Activity leaves a sound tab sound. *)
LEMMA HandleActivityKeeps ==
  ASSUME NEW s \in SoundTab, s.listening
  PROVE  HandleActivity(s) \in SoundTab
<1>1. s \in TabFields /\ Sound(s)
  BY DEF SoundTab
<1>2. CASE s.hidden
  BY <1>2 DEF HandleActivity
<1>3. CASE ~s.hidden
  <2> DEFINE n == ScheduleIdleTimer(s)
  <2>1. HandleActivity(s) = PushStatus(n, "online", FALSE)
    BY <1>3 DEF HandleActivity
  <2>2. n \in TabFields /\ Kept(s, n)
    BY <1>1, ScheduleIdleTimerFacts
  <2>3. "online" \in LiveStatus /\ FALSE \in BOOLEAN
    BY DEF LiveStatus
  <2> HIDE DEF n
  <2>4. /\ PushStatus(n, "online", FALSE) \in TabFields
        /\ Kept(n, PushStatus(n, "online", FALSE))
    BY <2>2, <2>3, PushStatusFacts
  <2> QED
    BY <1>1, <1>3, <2>1, <2>2, <2>4 DEF SoundTab, Sound, Kept
<1> QED
  BY <1>2, <1>3

(* So does a change of visibility. *)
LEMMA VisibilityKeeps ==
  ASSUME NEW s \in SoundTab, NEW f,
         f = [s EXCEPT !.hidden = ~@]
  PROVE  (IF f.listening THEN HandleVisibilityChange(f) ELSE f) \in SoundTab
<1>1. s \in TabFields /\ Sound(s)
  BY DEF SoundTab
<1>2. /\ f \in TabFields
      /\ f.hidden = ~s.hidden
      /\ f.enabled = s.enabled /\ f.due = s.due /\ f.listening = s.listening
      /\ f.timer = s.timer /\ f.current = s.current
  BY <1>1 DEF TabFields
<1>3. CASE ~f.listening
  BY <1>1, <1>2, <1>3 DEF SoundTab, Sound
<1>4. CASE f.listening /\ f.hidden
  <2> DEFINE c == ClearIdleTimer(f)
  <2>1. c \in TabFields /\ Kept(f, c) /\ c.timer = FALSE
    BY <1>2 DEF ClearIdleTimer, TabFields, Kept
  <2>2. HandleVisibilityChange(f) = PushStatus(c, "away", TRUE)
    BY <1>4 DEF HandleVisibilityChange
  <2>3. "away" \in LiveStatus /\ TRUE \in BOOLEAN
    BY DEF LiveStatus
  <2> HIDE DEF c
  <2>4. /\ PushStatus(c, "away", TRUE) \in TabFields
        /\ Kept(c, PushStatus(c, "away", TRUE))
        /\ PushStatus(c, "away", TRUE).timer = c.timer
        /\ c.enabled => PushStatus(c, "away", TRUE).current = "away"
    BY <2>1, <2>3, PushStatusFacts
  <2> QED
    BY <1>1, <1>2, <1>4, <2>1, <2>2, <2>4 DEF SoundTab, Sound, Kept
<1>5. CASE f.listening /\ ~f.hidden
  <2>1. HandleVisibilityChange(f) = HandleActivity(f)
    BY <1>5 DEF HandleVisibilityChange
  <2>2. f \in SoundTab
    BY <1>1, <1>2, <1>5 DEF SoundTab, Sound
  <2> QED
    BY <1>5, <2>1, <2>2, HandleActivityKeeps
<1> QED
  BY <1>3, <1>4, <1>5

(* So does the idle timer. *)
LEMMA IdleTimerKeeps ==
  ASSUME NEW s \in SoundTab, s.timer
  PROVE  PushStatus(ClearIdleTimer(s), "away", TRUE) \in SoundTab
<1> DEFINE c == ClearIdleTimer(s)
<1>1. s \in TabFields /\ Sound(s)
  BY DEF SoundTab
<1>2. c \in TabFields /\ Kept(s, c) /\ c.timer = FALSE
  BY <1>1 DEF ClearIdleTimer, TabFields, Kept
<1>3. "away" \in LiveStatus /\ TRUE \in BOOLEAN
  BY DEF LiveStatus
<1> HIDE DEF c
<1>4. /\ PushStatus(c, "away", TRUE) \in TabFields
      /\ Kept(c, PushStatus(c, "away", TRUE))
      /\ PushStatus(c, "away", TRUE).timer = c.timer
  BY <1>2, <1>3, PushStatusFacts
<1>5. PushStatus(c, "away", TRUE) \in SoundTab
  BY <1>1, <1>2, <1>4 DEF SoundTab, Sound, Kept
<1> QED
  BY <1>5 DEF c

(* So does the effect. *)
LEMMA RunEffectKeeps ==
  ASSUME NEW s \in SoundTab
  PROVE  RunEffect(s) \in SoundTab
<1> DEFINE next == [ClearIdleTimer(s) EXCEPT !.due = FALSE, !.listening = s.enabled]
<1>1. s \in TabFields
  BY DEF SoundTab
<1>2. /\ next \in TabFields
      /\ next.enabled = s.enabled /\ next.due = FALSE
      /\ next.listening = s.enabled /\ next.hidden = s.hidden /\ next.timer = FALSE
  BY <1>1 DEF ClearIdleTimer, TabFields
<1>3. CASE s.enabled
  <2> DEFINE p == PushStatus(next, "online", TRUE)
  <2>1. RunEffect(s) = ScheduleIdleTimer(p)
    BY <1>3 DEF RunEffect
  <2>2. "online" \in LiveStatus /\ TRUE \in BOOLEAN
    BY DEF LiveStatus
  <2> HIDE DEF next
  <2>3. p \in TabFields /\ Kept(next, p)
    BY <1>2, <2>2, PushStatusFacts
  <2> HIDE DEF p
  <2>4. /\ ScheduleIdleTimer(p) \in TabFields
        /\ Kept(p, ScheduleIdleTimer(p))
        /\ ScheduleIdleTimer(p).timer => ~p.hidden
        /\ p.hidden /\ p.enabled => ScheduleIdleTimer(p).current = "away"
    BY <2>3, ScheduleIdleTimerFacts
  <2> QED
    BY <1>2, <1>3, <2>1, <2>3, <2>4 DEF SoundTab, Sound, Kept
<1>4. CASE ~s.enabled
  <2>1. RunEffect(s) = [next EXCEPT !.current = "online", !.recent = FALSE]
    BY <1>4 DEF RunEffect
  <2> HIDE DEF next
  <2> QED
    BY <1>2, <1>4, <2>1 DEF SoundTab, Sound, TabFields, LiveStatus
<1> QED
  BY <1>3, <1>4

----------------------------------------------------------------------------
(* Every step keeps every tab sound *)

(* Every tab is sound at first. *)
LEMMA InitSound == Init => tab \in [Tabs -> SoundTab]
<1> SUFFICES ASSUME Init PROVE tab \in [Tabs -> SoundTab]
  OBVIOUS
<1>1. ASSUME NEW hidden \in BOOLEAN PROVE SignedOutTab(hidden) \in SoundTab
  BY DEF SignedOutTab, SoundTab, Sound, TabFields, LiveStatus
<1> QED
  BY <1>1 DEF Init

(* A step that changes one tab into a sound one. *)
LEMMA OneTabChanges ==
  ASSUME tab \in [Tabs -> SoundTab], NEW t \in Tabs, NEW s \in SoundTab,
         tab' = [tab EXCEPT ![t] = s]
  PROVE  tab' \in [Tabs -> SoundTab]
  OBVIOUS

(* Every step leaves every tab sound. *)
LEMMA StepSound ==
  ASSUME tab \in [Tabs -> SoundTab], [Next]_vars
  PROVE  tab' \in [Tabs -> SoundTab]
<1>1. CASE UNCHANGED vars \/ OthersStir
  BY <1>1 DEF vars, OthersStir
<1>2. ASSUME NEW t \in Tabs PROVE tab[t] \in SoundTab /\ tab[t] \in TabFields /\ Sound(tab[t])
  BY DEF SoundTab
<1>3. ASSUME NEW t \in Tabs, UserActs(t) PROVE tab' \in [Tabs -> SoundTab]
  <2>1. HandleActivity(tab[t]) \in SoundTab
    BY <1>2, <1>3, HandleActivityKeeps DEF UserActs
  <2> QED
    BY <1>3, <2>1, OneTabChanges DEF UserActs, Becomes
<1>4. ASSUME NEW t \in Tabs, VisibilityChanges(t) PROVE tab' \in [Tabs -> SoundTab]
  <2> DEFINE f == [tab[t] EXCEPT !.hidden = ~@]
  <2> DEFINE s == IF f.listening THEN HandleVisibilityChange(f) ELSE f
  <2>1. s \in SoundTab
    <3>1. tab[t] \in SoundTab
      BY <1>2
    <3> QED
      BY <3>1, VisibilityKeeps
  <2>2. tab' = [tab EXCEPT ![t] = s]
    BY <1>4 DEF VisibilityChanges, Becomes
  <2> HIDE DEF s
  <2> QED
    BY <2>1, <2>2, OneTabChanges
<1>5. ASSUME NEW t \in Tabs, IdleTimerFires(t) PROVE tab' \in [Tabs -> SoundTab]
  <2>1. PushStatus(ClearIdleTimer(tab[t]), "away", TRUE) \in SoundTab
    BY <1>2, <1>5, IdleTimerKeeps DEF IdleTimerFires
  <2> QED
    BY <1>5, <2>1, OneTabChanges DEF IdleTimerFires, Becomes
<1>6. ASSUME NEW t \in Tabs, EffectRuns(t) PROVE tab' \in [Tabs -> SoundTab]
  <2>1. RunEffect(tab[t]) \in SoundTab
    BY <1>2, RunEffectKeeps
  <2> QED
    BY <1>6, <2>1, OneTabChanges DEF EffectRuns, Becomes
<1>7. ASSUME NEW t \in Tabs, PulseElapses(t) PROVE tab' \in [Tabs -> SoundTab]
  <2>1. [tab[t] EXCEPT !.recent = FALSE] \in SoundTab
    BY <1>2 DEF SoundTab, Sound, TabFields
  <2> QED
    BY <1>7, <2>1, OneTabChanges DEF PulseElapses
<1>8. ASSUME NEW t \in Tabs, Hears(t) PROVE tab' \in [Tabs -> SoundTab]
  <2>1. [tab[t] EXCEPT !.due = TRUE] \in SoundTab
    BY <1>2 DEF SoundTab, Sound, TabFields
  <2> QED
    BY <1>8, <2>1, OneTabChanges DEF Hears
<1>9. ASSUME NEW t \in Tabs, SignsIn(t) PROVE tab' \in [Tabs -> SoundTab]
  <2>1. [tab[t] EXCEPT !.enabled = TRUE, !.due = TRUE] \in SoundTab
    BY <1>2 DEF SoundTab, Sound, TabFields
  <2>2. tab' = [tab EXCEPT ![t] = [tab[t] EXCEPT !.enabled = TRUE, !.due = TRUE]]
    BY <1>9 DEF SignsIn
  <2> QED
    BY <2>1, <2>2, OneTabChanges
<1>10. ASSUME NEW t \in Tabs, SignsOut(t) PROVE tab' \in [Tabs -> SoundTab]
  <2>1. [tab[t] EXCEPT !.enabled = FALSE, !.due = TRUE] \in SoundTab
    BY <1>2 DEF SoundTab, Sound, TabFields
  <2>2. tab' = [tab EXCEPT ![t] = [tab[t] EXCEPT !.enabled = FALSE, !.due = TRUE]]
    BY <1>10 DEF SignsOut
  <2> QED
    BY <2>1, <2>2, OneTabChanges
<1>11. ASSUME NEW t \in Tabs, SocketOpens(t) \/ SocketDrops(t)
       PROVE  tab' \in [Tabs -> SoundTab]
  BY <1>11 DEF SocketOpens, SocketDrops
<1>12. ASSUME NEW t \in Tabs, NEW status \in LiveStatus,
              PostServed(t, status) \/ PostLost(t, status)
       PROVE  tab' \in [Tabs -> SoundTab]
  <2> DEFINE s == [tab[t] EXCEPT !.posts[status] = @ - 1]
  <2>1. s.posts \in [LiveStatus -> Nat]
    BY <1>2, <1>12 DEF TabFields, PostServed, PostLost
  <2>2. s \in SoundTab
    BY <1>2, <2>1 DEF SoundTab, Sound, TabFields
  <2>3. tab' = [tab EXCEPT ![t] = s]
    BY <1>12 DEF PostServed, PostLost
  <2> HIDE DEF s
  <2> QED
    BY <2>2, <2>3, OneTabChanges
<1> QED
  BY <1>1, <1>3, <1>4, <1>5, <1>6, <1>7, <1>8, <1>9, <1>10, <1>11, <1>12 DEF Next

TabsSound == tab \in [Tabs -> SoundTab]

(* Every tab is always sound. *)
LEMMA AlwaysSound == Spec => []TabsSound
<1>1. Init => TabsSound
  BY InitSound DEF TabsSound
<1>2. TabsSound /\ [Next]_vars => TabsSound'
  BY StepSound DEF TabsSound
<1> QED
  BY <1>1, <1>2, PTL DEF Spec

(* However timers, renders, visibility and sign-ins interleave, an idle    *)
(* timer runs only in a shown tab of a signed-in user, or until the effect *)
(* that a sign-out made due clears it.                                     *)
THEOREM NoTimerLeftHolds == Spec => []NoTimerLeft
<1>1. TabsSound => NoTimerLeft
  BY DEF TabsSound, SoundTab, Sound, NoTimerLeft
<1> QED
  BY <1>1, AlwaysSound, PTL

(* The last thing a hidden tab with a session told, once its effect ran,   *)
(* is that its user is away.                                               *)
THEOREM HiddenSaysAwayHolds == Spec => []HiddenSaysAway
<1>1. TabsSound => HiddenSaysAway
  BY DEF TabsSound, SoundTab, Sound, HiddenSaysAway
<1> QED
  BY <1>1, AlwaysSound, PTL

----------------------------------------------------------------------------
(* The entry of the user *)

Open == {t \in Tabs : up[t]}

(* The entry counts the open sockets, and is there with the first only.    *)
EntryInv ==
  /\ up \in [Tabs -> BOOLEAN] /\ news \in [Tabs -> BOOLEAN]
  /\ store \in [{User} -> EntryType({})]
  /\ Open = {} => store[User] = NoEntry
  /\ Open # {} => store[User].count = Cardinality(Open) /\ store[User].status \in LiveStatus

(* The open sockets can be counted. *)
LEMMA OpenIsFinite ==
  /\ IsFiniteSet(Open)
  /\ Cardinality(Open) \in Nat
  /\ Cardinality(Open) = 0 <=> Open = {}
  BY TabAssumption, FS_Subset, FS_CardinalityType, FS_EmptySet DEF Open

(* A step that leaves sockets and store alone keeps the entry. *)
LEMMA SameEntry ==
  ASSUME EntryInv, UNCHANGED <<up, store>>, news' \in [Tabs -> BOOLEAN]
  PROVE  EntryInv'
  BY DEF EntryInv, Open

(* The user has an entry exactly while a socket is open. *)
LEMMA EntryWhenOpen ==
  ASSUME EntryInv
  PROVE  HasEntry(store, User) <=> Open # {}
<1>1. CASE Open = {}
  BY <1>1 DEF EntryInv, HasEntry
<1>2. CASE Open # {}
  BY <1>2 DEF EntryInv, HasEntry, NoEntry, LiveStatus
<1> QED
  BY <1>1, <1>2

(* A socket that opens is counted. *)
LEMMA OpeningCounts ==
  ASSUME EntryInv, NEW t \in Tabs, SocketOpens(t)
  PROVE  EntryInv'
<1>1. /\ up' = [up EXCEPT ![t] = TRUE] /\ ~up[t] /\ news' = up'
      /\ store' = Connect(store, User)
  BY DEF SocketOpens, Broadcast
<1>2. Open' = Open \union {t} /\ t \notin Open
  BY <1>1 DEF Open, EntryInv
<1>3. Cardinality(Open') = Cardinality(Open) + 1
  BY <1>2, OpenIsFinite, FS_AddElement
<1> DEFINE entry == EntryOf(store, User)
<1>4. entry.count = Cardinality(Open) /\ entry.party = NoParty
  <2>1. CASE Open = {}
    BY <2>1, EntryWhenOpen, OpenIsFinite DEF EntryOf, FreshEntry
  <2>2. CASE Open # {}
    BY <2>2, EntryWhenOpen DEF EntryOf, EntryInv, EntryType
  <2> QED
    BY <2>1, <2>2
<1> HIDE DEF entry
<1>5. store' = [store EXCEPT ![User] =
                  [count |-> entry.count + 1, party |-> entry.party, status |-> "online"]]
  BY <1>1 DEF Connect, entry
<1>6. store'[User] = [count |-> Cardinality(Open) + 1, party |-> NoParty, status |-> "online"]
  BY <1>4, <1>5 DEF EntryInv
<1>7. store' \in [{User} -> EntryType({})]
  BY <1>4, <1>5, OpenIsFinite DEF EntryInv, EntryType, Status, LiveStatus
<1>8. up' \in [Tabs -> BOOLEAN]
  BY <1>1 DEF EntryInv
<1> QED
  BY <1>1, <1>2, <1>3, <1>6, <1>7, <1>8 DEF EntryInv, LiveStatus

(* A socket that ends is uncounted, and the last takes the entry along. *)
LEMMA EndingCounts ==
  ASSUME EntryInv, NEW t \in Tabs, Ends(t)
  PROVE  EntryInv'
<1>1. CASE ~up[t]
  BY <1>1, SameEntry DEF Ends, EntryInv
<1>2. CASE up[t]
  <2>1. /\ up' = [up EXCEPT ![t] = FALSE] /\ news' = up'
        /\ store' = Disconnect(store, User)
    BY <1>2 DEF Ends, Broadcast
  <2>2. Open' = Open \ {t} /\ t \in Open
    BY <1>2, <2>1 DEF Open, EntryInv
  <2>3. Cardinality(Open') = Cardinality(Open) - 1 /\ IsFiniteSet(Open')
    BY <2>2, OpenIsFinite, FS_RemoveElement
  <2>4. /\ HasEntry(store, User) /\ store[User].count = Cardinality(Open)
        /\ store[User].status \in LiveStatus
    BY <2>2, EntryWhenOpen DEF EntryInv
  <2>5. up' \in [Tabs -> BOOLEAN]
    BY <2>1 DEF EntryInv
  <2>6. Open' = {} <=> Cardinality(Open) <= 1
    <3>1. Cardinality(Open') = 0 <=> Open' = {}
      BY <2>3, FS_EmptySet
    <3>2. Cardinality(Open) # 0
      BY <2>2, OpenIsFinite
    <3> QED
      BY <2>3, <3>1, <3>2, OpenIsFinite
  <2>7. CASE Open' = {}
    <3>1. store' = [store EXCEPT ![User] = NoEntry]
      BY <2>1, <2>4, <2>6, <2>7 DEF Disconnect, BecameOffline
    <3>2. store' \in [{User} -> EntryType({})] /\ store'[User] = NoEntry
      BY <3>1 DEF EntryInv, EntryType, NoEntry, Status
    <3> QED
      BY <2>1, <2>5, <2>7, <3>2 DEF EntryInv
  <2>8. CASE Open' # {}
    <3>1. store' = [store EXCEPT ![User].count = @ - 1]
      BY <2>1, <2>4, <2>6, <2>8 DEF Disconnect, BecameOffline
    <3>2. Cardinality(Open) - 1 \in Nat
      BY <2>6, <2>8, OpenIsFinite
    <3>3. /\ store' \in [{User} -> EntryType({})]
          /\ store'[User].count = Cardinality(Open) - 1
          /\ store'[User].status = store[User].status
      BY <2>4, <3>1, <3>2 DEF EntryInv, EntryType
    <3> QED
      BY <2>1, <2>3, <2>4, <2>5, <2>8, <3>3 DEF EntryInv
  <2> QED
    BY <2>7, <2>8
<1> QED
  BY <1>1, <1>2

(* A status post changes no count. *)
LEMMA ServingKeepsEntry ==
  ASSUME EntryInv, NEW t \in Tabs, NEW status \in LiveStatus, PostServed(t, status)
  PROVE  EntryInv'
<1>1. up' = up
  BY DEF PostServed
<1>2. CASE store' = store /\ news' = news
  BY <1>1, <1>2, SameEntry DEF EntryInv
<1>3. CASE store' = SetStatus(store, User, status) /\ news' = up'
  <2>1. news' \in [Tabs -> BOOLEAN]
    BY <1>1, <1>3 DEF EntryInv
  <2>2. CASE store' = store
    BY <1>1, <2>1, <2>2, SameEntry
  <2>3. CASE /\ store' = [store EXCEPT ![User].status = status]
             /\ Connected(store, User)
    <3>1. Open # {}
      BY <2>3 DEF EntryInv, Connected, NoEntry
    <3>2. /\ store' \in [{User} -> EntryType({})]
          /\ store'[User].count = store[User].count
          /\ store'[User].status = status
      BY <2>3 DEF EntryInv, EntryType, Status
    <3>3. Open' = Open
      BY <1>1 DEF Open
    <3> QED
      BY <1>1, <2>1, <3>1, <3>2, <3>3 DEF EntryInv
  <2> QED
    BY <1>3, <2>2, <2>3 DEF SetStatus
<1> QED
  BY <1>2, <1>3 DEF PostServed, Broadcast

(* Every step keeps the entry counting the open sockets. *)
LEMMA StepEntry ==
  ASSUME EntryInv, [Next]_vars
  PROVE  EntryInv'
<1>1. CASE UNCHANGED vars \/ OthersStir
  BY <1>1, SameEntry DEF vars, OthersStir, Broadcast, EntryInv
<1>2. ASSUME NEW t \in Tabs,
             \/ UserActs(t) \/ VisibilityChanges(t) \/ IdleTimerFires(t) \/ PulseElapses(t)
             \/ EffectRuns(t) \/ SignsIn(t)
      PROVE  EntryInv'
  BY <1>2, SameEntry
     DEF UserActs, VisibilityChanges, IdleTimerFires, PulseElapses, EffectRuns, SignsIn, EntryInv
<1>3. ASSUME NEW t \in Tabs, Hears(t) PROVE EntryInv'
  BY <1>3, SameEntry DEF Hears, EntryInv
<1>4. ASSUME NEW t \in Tabs, SocketOpens(t) PROVE EntryInv'
  BY <1>4, OpeningCounts
<1>5. ASSUME NEW t \in Tabs, SignsOut(t) \/ SocketDrops(t) PROVE EntryInv'
  BY <1>5, EndingCounts DEF SignsOut, SocketDrops
<1>6. ASSUME NEW t \in Tabs, NEW status \in LiveStatus, PostServed(t, status) PROVE EntryInv'
  BY <1>6, ServingKeepsEntry
<1>7. ASSUME NEW t \in Tabs, NEW status \in LiveStatus, PostLost(t, status) PROVE EntryInv'
  BY <1>7, SameEntry DEF PostLost, EntryInv
<1> QED
  BY <1>1, <1>2, <1>3, <1>4, <1>5, <1>6, <1>7 DEF Next

(* The entry always counts the open sockets. *)
LEMMA AlwaysEntry == Spec => []EntryInv
<1>1. Init => EntryInv
  <2> SUFFICES ASSUME Init PROVE EntryInv
    OBVIOUS
  <2>1. Open = {}
    BY DEF Init, Open
  <2> QED
    BY <2>1 DEF Init, EntryInv, EntryType, NoEntry, Status
<1>2. EntryInv /\ [Next]_vars => EntryInv'
  BY StepEntry
<1> QED
  BY <1>1, <1>2, PTL DEF Spec

----------------------------------------------------------------------------
(* Types *)

(* No more than MaxPosts of a status are in flight, MaxFaults are lost.    *)
Bounded ==
  /\ \A t \in Tabs, status \in LiveStatus : tab[t].posts[status] <= MaxPosts
  /\ faults \in 0..MaxFaults

(* Every step keeps the bounds. *)
LEMMA StepBounded ==
  ASSUME TabsSound, Bounded, [Next]_vars
  PROVE  Bounded'
<1>1. ASSUME NEW t \in Tabs
      PROVE  tab[t] \in TabFields /\ tab[t].posts \in [LiveStatus -> Nat]
  BY DEF TabsSound, SoundTab, TabFields
<1>2. CASE UNCHANGED vars \/ OthersStir
  BY <1>2 DEF vars, OthersStir, Bounded
<1>3. ASSUME NEW t \in Tabs, NEW s, Becomes(t, s), faults' = faults
      PROVE  Bounded'
  BY <1>3 DEF Becomes, Bounded, TabsSound
<1>4. ASSUME NEW t \in Tabs,
             \/ UserActs(t) \/ VisibilityChanges(t) \/ IdleTimerFires(t) \/ EffectRuns(t)
      PROVE  Bounded'
  BY <1>3, <1>4 DEF UserActs, VisibilityChanges, IdleTimerFires, EffectRuns
<1>5. ASSUME NEW t \in Tabs, NEW s, s.posts = tab[t].posts,
             tab' = [tab EXCEPT ![t] = s], faults' = faults
      PROVE  Bounded'
  BY <1>5 DEF Bounded, TabsSound
<1>6. ASSUME NEW t \in Tabs, PulseElapses(t) \/ Hears(t)
      PROVE  Bounded'
  <2>1. [tab[t] EXCEPT !.recent = FALSE].posts = tab[t].posts
    BY <1>1 DEF TabFields
  <2>2. [tab[t] EXCEPT !.due = TRUE].posts = tab[t].posts
    BY <1>1 DEF TabFields
  <2> QED
    BY <1>5, <1>6, <2>1, <2>2 DEF PulseElapses, Hears
<1>7. ASSUME NEW t \in Tabs, SignsIn(t) \/ SignsOut(t)
      PROVE  Bounded'
  <2>1. [tab[t] EXCEPT !.enabled = TRUE, !.due = TRUE].posts = tab[t].posts
    BY <1>1 DEF TabFields
  <2>2. [tab[t] EXCEPT !.enabled = FALSE, !.due = TRUE].posts = tab[t].posts
    BY <1>1 DEF TabFields
  <2>3. CASE SignsIn(t)
    <3>1. /\ tab' = [tab EXCEPT ![t] = [tab[t] EXCEPT !.enabled = TRUE, !.due = TRUE]]
          /\ faults' = faults
      BY <2>3 DEF SignsIn
    <3> QED
      BY <1>5, <2>1, <3>1
  <2>4. CASE SignsOut(t)
    <3>1. /\ tab' = [tab EXCEPT ![t] = [tab[t] EXCEPT !.enabled = FALSE, !.due = TRUE]]
          /\ faults' = faults
      BY <2>4 DEF SignsOut
    <3> QED
      BY <1>5, <2>2, <3>1
  <2> QED
    BY <1>7, <2>3, <2>4
<1>8. ASSUME NEW t \in Tabs, SocketOpens(t) \/ SocketDrops(t)
      PROVE  Bounded'
  BY <1>8 DEF SocketOpens, SocketDrops, Bounded
<1>9. ASSUME NEW t \in Tabs, NEW status \in LiveStatus,
             PostServed(t, status) \/ PostLost(t, status)
      PROVE  Bounded'
  <2> DEFINE s == [tab[t] EXCEPT !.posts[status] = @ - 1]
  <2>1. tab' = [tab EXCEPT ![t] = s]
    BY <1>9 DEF PostServed, PostLost
  <2>2. ASSUME NEW r \in LiveStatus PROVE s.posts[r] <= MaxPosts
    BY <1>1, BoundAssumption DEF Bounded, TabFields
  <2>3. faults' \in 0..MaxFaults
    BY <1>9, BoundAssumption DEF PostServed, PostLost, Bounded
  <2> HIDE DEF s
  <2> QED
    BY <2>1, <2>2, <2>3 DEF Bounded, TabsSound
<1> QED
  BY <1>2, <1>4, <1>6, <1>7, <1>8, <1>9 DEF Next

(* Every variable has its type, and the entry of the user is there exactly *)
(* while she has an open socket.                                           *)
THEOREM TypeCorrect == Spec => []TypeOK
<1>1. Init => Bounded
  <2> SUFFICES ASSUME Init PROVE Bounded
    OBVIOUS
  <2>1. ASSUME NEW t \in Tabs, NEW status \in LiveStatus PROVE tab[t].posts[status] = 0
    BY DEF Init, SignedOutTab
  <2> QED
    BY <2>1, BoundAssumption DEF Init, Bounded
<1>2. TabsSound /\ Bounded /\ [Next]_vars => Bounded'
  BY StepBounded
<1>3. TabsSound /\ EntryInv /\ Bounded => TypeOK
  <2> SUFFICES ASSUME TabsSound, EntryInv, Bounded PROVE TypeOK
    OBVIOUS
  <2>1. ASSUME NEW t \in Tabs PROVE tab[t] \in TabType
    <3>1. tab[t] \in TabFields
      BY DEF TabsSound, SoundTab
    <3>2. tab[t].posts \in [LiveStatus -> 0..MaxPosts]
      BY <3>1, BoundAssumption DEF TabFields, Bounded
    <3> QED
      BY <3>1, <3>2 DEF TabFields, TabType
  <2>2. tab \in [Tabs -> TabType]
    BY <2>1 DEF TabsSound
  <2>3. HasEntry(store, User) <=> \E t \in Tabs : up[t]
    BY EntryWhenOpen DEF Open
  <2> QED
    BY <2>2, <2>3 DEF EntryInv, Bounded, TypeOK
<1> QED
  BY <1>1, <1>2, <1>3, AlwaysSound, AlwaysEntry, PTL DEF Spec
=============================================================================
