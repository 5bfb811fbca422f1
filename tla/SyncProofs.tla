----------------------------- MODULE SyncProofs -----------------------------
(***************************************************************************)
(* Theorems about SyncLoop, Members, RealtimeCallbacks and SavedSync,      *)
(* which share no state.                                                   *)
(*                                                                         *)
(* Members: that the members of a room whose list was loaded are those of  *)
(* the room, for any history, any number of users, limited syncs, failures *)
(* and reloads.                                                            *)
(*                                                                         *)
(* Sync loop: that it skips nothing and never waits unserved, for any      *)
(* number of failures, polls, exceptions and server events.  NoGap is      *)
(* about the one moment at which a response is processed.  To reach it by  *)
(* induction, every earlier place at which a position is kept has to be    *)
(* tied to the data: the saved token to the saved sync, the request to the *)
(* saved token or to the store, the store's token to the data processed,   *)
(* and the response to the store's token.                                  *)
(*                                                                         *)
(* Timeouts: that every pending callback is met in time, in order and      *)
(* once, for any delays, any number of calls and any suspensions, and that *)
(* the binary search of the code finds the place in any list in order.     *)
(*                                                                         *)
(* Saved sync: that the accumulator says what the server has, for any      *)
(* history, any answers, and saves and restarts at any moment.             *)
(***************************************************************************)
EXTENDS Members, SyncLoop, RealtimeCallbacks, SavedSync, WellFoundedInduction, TLAPS

-----------------------------------------------------------------------------
(* Positions and lists.                                                    *)

\* Numbers up to p have a greatest one.
LEMMA Greatest ==
  ASSUME NEW p \in Nat, NEW ks, ks \subseteq 1 .. p, ks # {}
  PROVE  \E k \in ks : \A j \in ks : j <= k
<1> DEFINE T == {p - k : k \in ks}
           R == {z \in Nat \X Nat : z[1] < z[2]}
<1>1. T \subseteq Nat /\ T # {}
  <2>1. \A k \in ks : p - k \in Nat
    OBVIOUS
  <2>2. PICK k \in ks : TRUE
    OBVIOUS
  <2>3. p - k \in T
    BY <2>2
  <2> QED BY <2>1, <2>3
<1>2. IsWellFoundedOn(R, Nat)
  BY NatLessThanWellFounded DEF OpToRel
<1>3. \E x \in T : \A y \in T : ~(<<y, x>> \in R)
  <2> HIDE DEF T, R
  <2> QED BY <1>1, <1>2, WFMin
<1>4. PICK x \in T : \A y \in T : ~(y < x)
  BY <1>1, <1>3
<1>5. PICK k \in ks : x = p - k
  BY <1>4
<1>6. ASSUME NEW j \in ks PROVE j <= k
  BY <1>4, <1>5, p - j \in T
<1> QED BY <1>6

Positions == NoEvent .. MaxLog
Lists == [User -> Positions]
States == [events : Lists, members : [User -> [ev : Positions, oob : BOOLEAN]]]
Entry == [user : User \cup {Me}, what : {"join", "leave", "talk"}]

\* The types of all variables, and the order of the positions.
MembersTypes ==
  /\ log \in Seq(Entry) /\ Len(log) <= MaxLog
  /\ token \in Nat /\ token <= Len(log)
  /\ my \in {"join", "leave", "none"}
  /\ state \in States
  /\ status \in {"NotStarted", "InProgress", "Finished"}
  /\ promise \in BOOLEAN
  /\ loadingMembers \in {Idle} \cup [at : {"store"}] \cup [at : {"server"}, token : Nat]
  /\ loadingMembers.at = "server" => loadingMembers.token <= token
  /\ clearing \in {"idle", "wait", "state"}
  /\ writing \in {Idle} \cup [at : {"write"}, list : Lists]
  /\ acc \in Lists
  /\ disk \in [oob : {Idle} \cup [at : {"kept"}, list : Lists],
               saved : [token : Nat, my : {"join", "none"}, acc : Lists]]
  /\ disk.saved.token <= token
  /\ left \in BOOLEAN /\ ahead \in BOOLEAN /\ torn \in BOOLEAN

\* The accumulated events a are those of everybody who was told of since the
\* beginning; who was not has not changed.
Tells(a, p) ==
  \A u \in User : /\ a[u] = NoEvent => EventOf(u, p) = 0
                  /\ a[u] # NoEvent => a[u] = EventOf(u, p)

\* The room state has what /sync told, and the list of those it did not tell of.
StateTells ==
  \A u \in User :
    /\ state.events[u] = state.members[u].ev
    /\ state.members[u].oob => acc[u] = NoEvent /\ state.members[u].ev = 0 /\ status = "Finished"
    /\ ~state.members[u].oob => state.members[u].ev = acc[u]
    /\ status = "Finished" /\ acc[u] = NoEvent => state.members[u].oob

\* How far the load is.
LoadIs ==
  /\ my = "join" /\ disk.saved.my = "join" /\ clearing = "idle"
  /\ ~promise => status = "NotStarted" /\ loadingMembers = Idle
  /\ promise /\ loadingMembers = Idle => status = "Finished"
  /\ loadingMembers # Idle => status = "InProgress"

\* A list is of those who have not changed, and leaves out only members that the
\* accumulated events a tell of.
Complements(list, a) ==
  \A u \in User : list[u] \in {0, NoEvent} /\ (list[u] = NoEvent => a[u] # NoEvent)

\* The stored list goes with the accumulator, and with the saved sync as soon
\* as that is newer than the list.
StoreComplements ==
  /\ writing # Idle => /\ Complements(writing.list, acc)
                       /\ ~ahead => Complements(writing.list, disk.saved.acc)
  /\ disk.oob # Idle => /\ Complements(disk.oob.list, acc)
                        /\ ~ahead => Complements(disk.oob.list, disk.saved.acc)

Knows ==
  /\ Tells(acc, token) /\ Tells(disk.saved.acc, disk.saved.token)
  /\ StateTells /\ LoadIs /\ StoreComplements

\* All this holds of a client that has not left the room and was not reloaded
\* with a list newer than its saved sync.
Known == ~left /\ ~torn => Knows

MembersInv == MembersTypes /\ Known

-----------------------------------------------------------------------------
(* The history.                                                            *)

\* Where u joined or left, up to p.
Changes(u, p) == {k \in 1 .. p : log[k].user = u /\ log[k].what # "talk"}

LastIn(ks) == IF ks = {} THEN 0 ELSE CHOOSE k \in ks : \A j \in ks : j <= k

\* The member event of u depends on these positions alone.
LEMMA EventIsLast == \A u, p : EventOf(u, p) = LastIn(Changes(u, p))
BY DEF EventOf, Changes, LastIn

\* The member event of u is the last change, and 0 if there was none.
LEMMA EventFacts ==
  ASSUME NEW u, NEW p \in Nat
  PROVE  /\ EventOf(u, p) \in 0 .. p
         /\ EventOf(u, p) = 0 <=> Changes(u, p) = {}
<1>1. CASE Changes(u, p) = {}
  BY <1>1 DEF EventOf, Changes
<1>2. CASE Changes(u, p) # {}
  <2>1. \E k \in Changes(u, p) : \A j \in Changes(u, p) : j <= k
    BY <1>2, Greatest DEF Changes
  <2>2. EventOf(u, p) = CHOOSE k \in Changes(u, p) : \A j \in Changes(u, p) : j <= k
    BY <1>2 DEF EventOf, Changes
  <2>3. EventOf(u, p) \in Changes(u, p)
    BY <2>1, <2>2
  <2> QED BY <1>2, <2>3 DEF Changes
<1> QED BY <1>1, <1>2

\* Who does not change keeps the event.
LEMMA NoChange ==
  ASSUME NEW u, NEW p \in Nat, NEW q \in Nat, p <= q,
         \A k \in p + 1 .. q : ~(log[k].user = u /\ log[k].what # "talk")
  PROVE  EventOf(u, q) = EventOf(u, p)
<1>1. Changes(u, q) = Changes(u, p)
  BY DEF Changes
<1> QED BY <1>1, EventIsLast

\* Who has not changed by q had not by p.
LEMMA NotYet ==
  ASSUME NEW u, NEW p \in Nat, NEW q \in Nat, p <= q, EventOf(u, q) = 0
  PROVE  EventOf(u, p) = 0
<1>1. Changes(u, p) = {}
  BY EventFacts DEF Changes
<1> QED BY <1>1, EventFacts

\* A new entry changes nothing of the past.
LEMMA PastIsKept ==
  ASSUME MembersTypes, NEW e \in Entry, log' = Append(log, e), NEW u, NEW p \in Nat, p <= Len(log)
  PROVE  EventOf(u, p)' = EventOf(u, p)
<1>1. \A k \in 1 .. p : log'[k] = log[k]
  BY DEF MembersTypes
<1>2. Changes(u, p)' = Changes(u, p)
  BY <1>1 DEF Changes
<1>3. EventOf(u, p) = LastIn(Changes(u, p))
  BY EventIsLast
<1>4. EventOf(u, p)' = LastIn(Changes(u, p)')
  BY DEF EventOf, Changes, LastIn
<1> QED BY <1>2, <1>3, <1>4

\* An event of the history is a position.
LEMMA EventIsPosition ==
  ASSUME MembersTypes, NEW u, NEW p \in Nat, p <= Len(log)
  PROVE  EventOf(u, p) \in Positions /\ EventOf(u, p) # NoEvent /\ 0 \in Positions
BY EventFacts, MembersAssumption DEF MembersTypes, Positions, NoEvent

\* /sync tells of everybody who changed.
LEMMA Untold ==
  ASSUME MembersTypes, NEW h \in token + 1 .. Len(log), NEW limited \in BOOLEAN,
         NEW u \in User, u \notin Told(h, limited, FALSE)
  PROVE  EventOf(u, h) = EventOf(u, token)
<1>1. \A k \in token + 1 .. h : ~(log[k].user = u /\ log[k].what # "talk")
  BY DEF Told
<1> QED BY <1>1, NoChange DEF MembersTypes

-----------------------------------------------------------------------------
(* Types.                                                                  *)

\* The events of a /sync are positions, in the room state and in the
\* accumulator.
LEMMA SyncTypes ==
  ASSUME MembersTypes, NEW s \in States, NEW D, NEW h \in 0 .. Len(log), NEW a \in Lists
  PROVE  /\ setStateEvents(s, D, h) \in States
         /\ [u \in User |-> IF u \in D THEN EventOf(u, h) ELSE a[u]] \in Lists
<1>1. \A u \in User : EventOf(u, h) \in Positions
  BY EventIsPosition DEF MembersTypes
<1>2. s.events \in Lists /\ s.members \in [User -> [ev : Positions, oob : BOOLEAN]]
  BY DEF States
<1>3. [u \in User |-> IF u \in D THEN EventOf(u, h) ELSE s.events[u]] \in Lists
  BY <1>1, <1>2 DEF Lists
<1>4. [u \in User |-> IF u \in D THEN [ev |-> EventOf(u, h), oob |-> FALSE] ELSE s.members[u]]
        \in [User -> [ev : Positions, oob : BOOLEAN]]
  BY <1>1, <1>2
<1>5. setStateEvents(s, D, h) \in States
  BY <1>3, <1>4 DEF setStateEvents, States
<1> QED BY <1>1, <1>5 DEF Lists

\* Nobody has an event in an empty list.
LEMMA EmptyTypes == NoMembers \in Lists /\ EmptyState \in States /\ NoEvent \in Positions
BY MembersAssumption DEF NoMembers, EmptyState, States, Lists, Positions, NoEvent

\* A copy of the room state is one, and so are the states with the
\* out-of-band members and without them.
LEMMA StateTypes ==
  ASSUME NEW s \in States, NEW list \in Lists
  PROVE  /\ clone(s) \in States
         /\ setOutOfBandMembers(s, list) \in States
         /\ clearOutOfBandMembers(s) \in States
         /\ [u \in User |-> IF s.members[u].oob THEN s.members[u].ev ELSE NoEvent] \in Lists
<1>1. s.events \in Lists /\ s.members \in [User -> [ev : Positions, oob : BOOLEAN]]
  BY DEF States
<1>2. clone(s) \in States
  BY <1>1 DEF clone, States, Lists
<1>3. setOutOfBandMembers(s, list) \in States
  BY <1>1 DEF setOutOfBandMembers, States, Lists
<1>4. clearOutOfBandMembers(s) \in States
  BY <1>1, EmptyTypes DEF clearOutOfBandMembers, States, Lists
<1> QED BY <1>1, <1>2, <1>3, <1>4, EmptyTypes DEF Lists

\* The token of an answer to /sync is newer than the saved one and the one of
\* the request for the members.
LEMMA NewToken ==
  ASSUME MembersTypes, NEW h \in token + 1 .. Len(log)
  PROVE  /\ h \in 0 .. Len(log) /\ h >= token /\ h \in Nat /\ h <= Len(log)
         /\ disk.saved.token <= h
         /\ loadingMembers.at = "server" => loadingMembers.token <= h
<1>1. h \in Nat /\ h >= token /\ h <= Len(log) /\ token \in Nat
  BY DEF MembersTypes
<1>2. disk.saved.token <= h
  BY <1>1 DEF MembersTypes
<1>3. loadingMembers.at = "server" => loadingMembers.token \in Nat
  BY DEF MembersTypes, Idle
<1> QED BY <1>1, <1>2, <1>3 DEF MembersTypes

\* /sync of a room one stays in.
LEMMA JoinTypes ==
  ASSUME MembersTypes, NEW h \in token + 1 .. Len(log), NEW limited \in BOOLEAN, NEW entire \in BOOLEAN,
         processJoin(h, limited, entire)
  PROVE  MembersTypes'
<1>1. /\ h \in 0 .. Len(log) /\ h >= token /\ h \in Nat /\ h <= Len(log)
      /\ disk.saved.token <= h
      /\ loadingMembers.at = "server" => loadingMembers.token <= h
  BY NewToken
<1>2. PICK D : D = Told(h, limited, FALSE)
  OBVIOUS
<1>3. PICK s \in States : s = IF limited /\ ~entire THEN clone(state) ELSE state
  BY StateTypes, EmptyTypes DEF MembersTypes
<1>4. state' = setStateEvents(s, D, h) /\ acc' = [u \in User |-> IF u \in D THEN EventOf(u, h) ELSE acc[u]]
  BY <1>2, <1>3 DEF processJoin
<1>5. state' \in States /\ acc' \in Lists
  BY <1>1, <1>4, SyncTypes DEF MembersTypes
<1>6. token' = h /\ UNCHANGED <<log, my, status, promise, loadingMembers, clearing, writing, disk, left, ahead, torn>>
  BY DEF processJoin
<1> QED BY <1>1, <1>5, <1>6 DEF MembersTypes

\* The room in the leave section.
LEMMA LeaveTypes ==
  ASSUME MembersTypes, NEW h \in token + 1 .. Len(log), processLeave(h)
  PROVE  MembersTypes'
<1>1. /\ h \in 0 .. Len(log) /\ h >= token /\ h \in Nat /\ h <= Len(log)
      /\ disk.saved.token <= h
      /\ loadingMembers.at = "server" => loadingMembers.token <= h
  BY NewToken
<1>2. PICK D : D = Told(h, FALSE, FALSE)
  OBVIOUS
<1>3. state' = (IF my = "join" THEN setStateEvents(state, D, h) ELSE state) /\ acc' = NoMembers
  BY <1>2 DEF processLeave
<1>4. state' \in States /\ acc' \in Lists
  BY <1>1, <1>3, SyncTypes, EmptyTypes DEF MembersTypes
<1> QED BY <1>1, <1>4, ZenonT(30) DEF processLeave, MembersTypes

\* The room joined again.
LEMMA RejoinTypes ==
  ASSUME MembersTypes, NEW h \in token + 1 .. Len(log), processRejoin(h)
  PROVE  MembersTypes'
<1>1. /\ h \in 0 .. Len(log) /\ h >= token /\ h \in Nat /\ h <= Len(log)
      /\ disk.saved.token <= h
      /\ loadingMembers.at = "server" => loadingMembers.token <= h
  BY NewToken
<1>2. PICK D : D = Told(h, TRUE, TRUE)
  OBVIOUS
<1>3. state' = setStateEvents(state, D, h)
  BY <1>2 DEF processRejoin
<1>7. PICK a \in Lists : a = NoMembers
  BY EmptyTypes
<1>4. acc' = [u \in User |-> IF u \in D THEN EventOf(u, h) ELSE a[u]]
  BY <1>2, <1>7 DEF processRejoin, NoMembers
<1>5. state \in States
  BY DEF MembersTypes
<1>6. state' \in States /\ acc' \in Lists
  BY <1>1, <1>3, <1>4, <1>5, SyncTypes
<1>8. /\ token' = h /\ my' = "join"
      /\ UNCHANGED <<log, status, promise, loadingMembers, clearing, writing, disk, left, ahead, torn>>
  BY DEF processRejoin
<1> QED BY <1>1, <1>6, <1>8 DEF MembersTypes

\* A list is set.
LEMMA SetLoadedTypes ==
  ASSUME MembersTypes, NEW list \in Lists, NEW b \in BOOLEAN, setLoaded(list, b)
  PROVE  /\ state' \in States
         /\ status' \in {"NotStarted", "InProgress", "Finished"}
         /\ loadingMembers' = Idle
         /\ writing' \in {Idle} \cup [at : {"write"}, list : Lists]
         /\ ahead' \in BOOLEAN
<1>1. PICK s \in States : s = IF status = "InProgress" THEN setOutOfBandMembers(state, list) ELSE state
  BY StateTypes DEF MembersTypes
<1>2. PICK o \in Lists : o = [u \in User |-> IF s.members[u].oob THEN s.members[u].ev ELSE NoEvent]
  BY StateTypes, EmptyTypes
<1>3. /\ state' = s
      /\ writing' = IF b THEN [at |-> "write", list |-> o] ELSE writing
  BY <1>1, <1>2 DEF setLoaded
<1>4. writing' \in {Idle} \cup [at : {"write"}, list : Lists]
  BY <1>3 DEF MembersTypes
<1> QED BY <1>1, <1>3, <1>4 DEF setLoaded, MembersTypes

\* What the store holds.
LEMMA ReadTypes == MembersTypes /\ onStoreRead => MembersTypes'
<1> SUFFICES ASSUME MembersTypes, onStoreRead PROVE MembersTypes'
  OBVIOUS
<1>1. CASE disk.oob # Idle
  <2>1. disk.oob.list \in Lists
    BY <1>1 DEF MembersTypes
  <2>2. setLoaded(disk.oob.list, FALSE)
    BY <1>1 DEF onStoreRead
  <2>3. /\ state' \in States
        /\ status' \in {"NotStarted", "InProgress", "Finished"}
        /\ loadingMembers' = Idle
        /\ writing' \in {Idle} \cup [at : {"write"}, list : Lists]
        /\ ahead' \in BOOLEAN
    BY <2>1, <2>2, SetLoadedTypes
  <2> QED BY <2>3 DEF onStoreRead, MembersTypes, Idle
<1>2. CASE disk.oob = Idle
  BY <1>2 DEF onStoreRead, MembersTypes
<1> QED BY <1>1, <1>2

\* What the server answers.
LEMMA MembersTypesOf == MembersTypes /\ onMembers => MembersTypes'
<1> SUFFICES ASSUME MembersTypes, onMembers PROVE MembersTypes'
  OBVIOUS
<1>1. loadingMembers.token \in Nat /\ loadingMembers.token <= Len(log)
  BY DEF MembersTypes, onMembers, Idle
<1>2. PICK list : list = [u \in User |-> IF In(u, loadingMembers.token) THEN EventOf(u, loadingMembers.token) ELSE NoEvent]
  OBVIOUS
<1>3. list \in Lists
  BY <1>1, <1>2, EventIsPosition, EmptyTypes DEF Lists
<1>4. setLoaded(list, TRUE)
  BY <1>2 DEF onMembers
<1>5. /\ state' \in States
      /\ status' \in {"NotStarted", "InProgress", "Finished"}
      /\ loadingMembers' = Idle
      /\ writing' \in {Idle} \cup [at : {"write"}, list : Lists]
      /\ ahead' \in BOOLEAN
  BY <1>3, <1>4, SetLoadedTypes
<1> QED BY <1>5 DEF onMembers, MembersTypes, Idle

\* What the store writes.
LEMMA WrittenTypes == MembersTypes /\ onStoreWritten => MembersTypes'
<1> SUFFICES ASSUME MembersTypes, onStoreWritten PROVE MembersTypes'
  OBVIOUS
<1>1. writing.list \in Lists
  BY DEF MembersTypes, onStoreWritten
<1>2. PICK old \in Lists : old = IF disk.oob = Idle THEN NoMembers ELSE disk.oob.list
  BY EmptyTypes DEF MembersTypes
<1>3. PICK list : list = [u \in User |-> IF writing.list[u] # NoEvent THEN writing.list[u] ELSE old[u]]
  OBVIOUS
<1>4. list \in Lists
  BY <1>1, <1>3 DEF Lists
<1>5. disk' = [disk EXCEPT !.oob = [at |-> "kept", list |-> list]]
  BY <1>2, <1>3 DEF onStoreWritten
<1> QED BY <1>4, <1>5 DEF onStoreWritten, MembersTypes

\* A reload starts from what was saved.
LEMMA ReloadTypes == MembersTypes /\ reload => MembersTypes'
<1> SUFFICES ASSUME MembersTypes, reload PROVE MembersTypes'
  OBVIOUS
<1>1. acc' \in Lists
  BY DEF MembersTypes, reload
<1>2. state' \in States
  BY <1>1 DEF reload, States, Lists
<1>3. disk.saved.token \in Nat /\ disk.saved.token <= Len(log) /\ disk.saved.token <= disk.saved.token
      /\ disk.saved.my \in {"join", "leave", "none"}
  BY DEF MembersTypes
<1>4. token' = disk.saved.token /\ disk' = disk /\ log' = log /\ loadingMembers' = Idle
  BY DEF reload
<1>5. torn' \in BOOLEAN /\ left' \in BOOLEAN /\ ahead' \in BOOLEAN /\ promise' \in BOOLEAN
  BY DEF reload, MembersTypes
<1>6. my' \in {"join", "leave", "none"} /\ status' = "NotStarted" /\ clearing' = "idle" /\ writing' = Idle
  BY <1>3 DEF reload
<1> QED BY <1>1, <1>2, <1>3, <1>4, <1>5, <1>6 DEF MembersTypes, Idle

\* Every step keeps the types.
LEMMA TypesKept == MembersTypes /\ [MembersNext]_memVars => MembersTypes'
<1> SUFFICES ASSUME MembersTypes, [MembersNext]_memVars PROVE MembersTypes'
  OBVIOUS
<1>1. ASSUME NEW u \in User \cup {Me}, NEW what \in {"join", "leave", "talk"}, ServerEntry(u, what)
      PROVE  MembersTypes'
  <2>1. [user |-> u, what |-> what] \in Entry
    BY DEF Entry
  <2>2. log' \in Seq(Entry) /\ Len(log') = Len(log) + 1
    BY <1>1, <2>1 DEF ServerEntry, MembersTypes
  <2> QED BY <1>1, <2>2, MembersAssumption DEF ServerEntry, MembersTypes
<1>2. ASSUME NEW h \in token + 1 .. Len(log), processNothing(h) PROVE MembersTypes'
  BY <1>2, NewToken DEF processNothing, MembersTypes
<1>3. CASE loadMembersIfNeeded
  BY <1>3 DEF loadMembersIfNeeded, MembersTypes
<1>4. CASE onMembersFailed
  BY <1>4 DEF onMembersFailed, MembersTypes, Idle
<1>5. CASE onClearStore
  BY <1>5 DEF onClearStore, MembersTypes
<1>6. CASE onClearState
  BY <1>6, StateTypes, EmptyTypes, ZenonT(30) DEF onClearState, MembersTypes
<1>7. CASE save
  <2>1. PICK m \in {"join", "none"} : m = IF my = "join" THEN "join" ELSE "none"
    OBVIOUS
  <2>2. disk' = [disk EXCEPT !.saved = [token |-> token, my |-> m, acc |-> acc]]
    BY <1>7, <2>1 DEF save
  <2>3. /\ disk' \in [oob : {Idle} \cup [at : {"kept"}, list : Lists],
                     saved : [token : Nat, my : {"join", "none"}, acc : Lists]]
        /\ disk'.saved.token <= token
    BY <2>2 DEF MembersTypes
  <2>4. ahead' \in BOOLEAN /\ UNCHANGED <<log, token, my, state, status, promise, loadingMembers, clearing,
                                          writing, acc, left, torn>>
    BY <1>7 DEF save
  <2> QED BY <2>3, <2>4 DEF MembersTypes
<1>8. CASE UNCHANGED memVars
  BY <1>8 DEF memVars, MembersTypes
<1> QED BY <1>1, <1>2, <1>3, <1>4, <1>5, <1>6, <1>7, <1>8, JoinTypes, LeaveTypes, RejoinTypes, ReadTypes,
           MembersTypesOf, WrittenTypes, ReloadTypes, Zenon DEF MembersNext

-----------------------------------------------------------------------------
(* What the client knows.                                                  *)

\* When the history is unchanged, what is told is what the new accumulator tells
\* of the new token, and the same for the saved ones.
LEMMA SameLog ==
  ASSUME log' = log
  PROVE  /\ Tells(acc', token') => Tells(acc, token)'
         /\ Tells(disk'.saved.acc, disk'.saved.token) => Tells(disk.saved.acc, disk.saved.token)'
<1>1. \A u : EventOf(u, token)' = EventOf(u, token')
  <2>1. \A u : Changes(u, token)' = Changes(u, token')
    BY DEF Changes
  <2>2. \A u : EventOf(u, token)' = LastIn(Changes(u, token)')
    BY DEF EventOf, Changes, LastIn
  <2> QED BY <2>1, <2>2, EventIsLast
<1>2. \A u : EventOf(u, disk.saved.token)' = EventOf(u, disk'.saved.token)
  <2>1. \A u : Changes(u, disk.saved.token)' = Changes(u, disk'.saved.token)
    BY DEF Changes
  <2>2. \A u : EventOf(u, disk.saved.token)' = LastIn(Changes(u, disk.saved.token)')
    BY DEF EventOf, Changes, LastIn
  <2> QED BY <2>1, <2>2, EventIsLast
<1> QED BY <1>1, <1>2 DEF Tells

\* A new entry of the history is not known yet.
LEMMA EntryKnown ==
  ASSUME MembersTypes, Knows, NEW u \in User \cup {Me}, NEW what \in {"join", "leave", "talk"},
         ServerEntry(u, what)
  PROVE  Knows'
<1>1. PICK e \in Entry : e = [user |-> u, what |-> what]
  BY DEF Entry
<1>2. log' = Append(log, e)
  BY <1>1 DEF ServerEntry
<1>3. UNCHANGED <<token, my, state, status, promise, loadingMembers, clearing, writing, acc, disk, ahead>>
  BY DEF ServerEntry
<1>4. /\ token \in Nat /\ token <= Len(log)
      /\ disk.saved.token \in Nat /\ disk.saved.token <= Len(log)
  BY DEF MembersTypes
<1>5. \A v : EventOf(v, token)' = EventOf(v, token)
  <2> SUFFICES ASSUME NEW v PROVE EventOf(v, token)' = EventOf(v, token)
    OBVIOUS
  <2>1. PICK p \in Nat : p = token
    BY <1>4
  <2>2. EventOf(v, p)' = EventOf(v, p)
    BY <1>2, <1>4, <2>1, PastIsKept
  <2> QED BY <1>3, <2>1, <2>2 DEF EventOf
<1>6. \A v : EventOf(v, disk.saved.token)' = EventOf(v, disk.saved.token)
  <2> SUFFICES ASSUME NEW v PROVE EventOf(v, disk.saved.token)' = EventOf(v, disk.saved.token)
    OBVIOUS
  <2>1. PICK p \in Nat : p = disk.saved.token
    BY <1>4
  <2>2. EventOf(v, p)' = EventOf(v, p)
    BY <1>2, <1>4, <2>1, PastIsKept
  <2> QED BY <1>3, <2>1, <2>2 DEF EventOf
<1>7. Tells(acc, token)' /\ Tells(disk.saved.acc, disk.saved.token)'
  BY <1>3, <1>5, <1>6 DEF Knows, Tells
<1> QED BY <1>3, <1>7 DEF Knows, StateTells, LoadIs, StoreComplements, Complements

\* A copy of the room state is equal to it.
LEMMA CloneIsSame ==
  ASSUME MembersTypes, StateTells
  PROVE  \A u \in User : clone(state).events[u] = state.events[u] /\ clone(state).members[u] = state.members[u]
<1> SUFFICES ASSUME NEW u \in User
             PROVE  clone(state).events[u] = state.events[u] /\ clone(state).members[u] = state.members[u]
  OBVIOUS
<1>1. state.members[u] \in [ev : Positions, oob : BOOLEAN]
  BY DEF MembersTypes, States
<1>2. clone(state).events = state.events
  BY DEF clone, MembersTypes, States
<1>3. clone(state).members[u] = [ev |-> state.events[u], oob |-> status = "Finished" /\ state.members[u].oob]
  BY DEF clone, MembersTypes, States
<1>4. state.events[u] = state.members[u].ev
  BY DEF StateTells
<1>5. (status = "Finished" /\ state.members[u].oob) = state.members[u].oob
  BY <1>1 DEF StateTells
<1>6. state.members[u] = [ev |-> state.members[u].ev, oob |-> state.members[u].oob]
  BY <1>1
<1> QED BY <1>2, <1>3, <1>4, <1>5, <1>6

\* /sync tells what has changed, and what it tells goes to the state and to the
\* accumulator.
LEMMA JoinKnown ==
  ASSUME MembersTypes, Knows, NEW h \in token + 1 .. Len(log), NEW limited \in BOOLEAN,
         NEW entire \in BOOLEAN, processJoin(h, limited, entire)
  PROVE  Knows'
<1>1. PICK D : D = Told(h, limited, FALSE)
  OBVIOUS
<1>2. PICK s \in States : s = IF limited /\ ~entire THEN clone(state) ELSE state
  BY StateTypes, EmptyTypes DEF MembersTypes
<1>3. \A u \in User : s.events[u] = state.events[u] /\ s.members[u] = state.members[u]
  BY <1>2, CloneIsSame DEF Knows
<1>4. /\ state' = setStateEvents(s, D, h)
      /\ acc' = [u \in User |-> IF u \in D THEN EventOf(u, h) ELSE acc[u]]
      /\ token' = h
      /\ UNCHANGED <<log, my, status, promise, loadingMembers, clearing, writing, disk, ahead>>
  BY <1>1, <1>2 DEF processJoin
<1>5. ASSUME NEW u \in User
      PROVE  /\ EventOf(u, h) # NoEvent
             /\ u \notin D => EventOf(u, h) = EventOf(u, token)
             /\ acc'[u] = IF u \in D THEN EventOf(u, h) ELSE acc[u]
             /\ state'.events[u] = IF u \in D THEN EventOf(u, h) ELSE state.events[u]
             /\ state'.members[u] = IF u \in D THEN [ev |-> EventOf(u, h), oob |-> FALSE]
                                    ELSE state.members[u]
  <2>1. EventOf(u, h) # NoEvent
    BY NewToken, EventIsPosition
  <2>2. u \notin D => EventOf(u, h) = EventOf(u, token)
    BY <1>1, Untold
  <2> QED BY <1>3, <1>4, <2>1, <2>2 DEF setStateEvents
<1>6. Tells(acc', h)
  BY <1>5 DEF Knows, Tells
<1>7. Tells(acc, token)' /\ Tells(disk.saved.acc, disk.saved.token)'
  BY <1>4, <1>6, SameLog DEF Knows
<1>8. StateTells'
  <2> SUFFICES ASSUME NEW u \in User
               PROVE  /\ state'.events[u] = state'.members[u].ev
                      /\ state'.members[u].oob =>
                           acc'[u] = NoEvent /\ state'.members[u].ev = 0 /\ status' = "Finished"
                      /\ ~state'.members[u].oob => state'.members[u].ev = acc'[u]
                      /\ status' = "Finished" /\ acc'[u] = NoEvent => state'.members[u].oob
    BY DEF StateTells
  <2>1. CASE u \in D
    <3>1. /\ acc'[u] = EventOf(u, h) /\ state'.events[u] = EventOf(u, h) /\ EventOf(u, h) # NoEvent
          /\ state'.members[u] = [ev |-> EventOf(u, h), oob |-> FALSE]
      BY <1>5, <2>1
    <3> QED BY <3>1
  <2>2. CASE u \notin D
    <3>1. /\ acc'[u] = acc[u] /\ state'.events[u] = state.events[u] /\ state'.members[u] = state.members[u]
          /\ status' = status
      BY <1>4, <1>5, <2>2
    <3> QED BY <3>1 DEF Knows, StateTells
  <2> QED BY <2>1, <2>2
<1>9. LoadIs'
  BY <1>4 DEF Knows, LoadIs
<1>10. StoreComplements'
  BY <1>4, <1>5 DEF Knows, StoreComplements, Complements
<1> QED BY <1>7, <1>8, <1>9, <1>10 DEF Knows

\* A list is set on top of what /sync has told: who was not told of gets the
\* event of the list, and these are the members that go to the store.
LEMMA LoadedKnown ==
  ASSUME MembersTypes, Knows, status = "InProgress", NEW list \in Lists, NEW b \in BOOLEAN,
         \A u \in User : acc[u] = NoEvent => list[u] = 0,
         setLoaded(list, b), acc' = acc
  PROVE  StateTells' /\ (b => writing' # Idle /\ Complements(writing'.list, acc))
<1>1. PICK s \in States : s = setOutOfBandMembers(state, list)
  BY StateTypes DEF MembersTypes
<1>2. ASSUME NEW u \in User
      PROVE  /\ acc[u] # NoEvent => /\ s.events[u] = acc[u]
                                    /\ s.members[u].ev = acc[u]
                                    /\ ~s.members[u].oob
             /\ acc[u] = NoEvent => /\ s.events[u] = 0
                                    /\ s.members[u].ev = 0
                                    /\ s.members[u].oob
  <2>1. /\ s.events[u] = IF list[u] # NoEvent /\ ~(state.members[u].ev # NoEvent /\ ~state.members[u].oob)
                         THEN list[u] ELSE state.events[u]
        /\ s.members[u] = IF list[u] # NoEvent /\ ~(state.members[u].ev # NoEvent /\ ~state.members[u].oob)
                          THEN [ev |-> list[u], oob |-> TRUE] ELSE state.members[u]
    BY <1>1 DEF setOutOfBandMembers
  <2>2. ~state.members[u].oob /\ state.members[u].ev = acc[u] /\ state.events[u] = acc[u]
    BY DEF Knows, StateTells
  <2>3. CASE acc[u] # NoEvent
    BY <2>1, <2>2, <2>3
  <2>4. CASE acc[u] = NoEvent
    BY <2>1, <2>2, <2>4 DEF NoEvent
  <2> QED BY <2>3, <2>4
<1>3. state' = s /\ status' = "Finished"
  BY <1>1 DEF setLoaded
<1>4. StateTells'
  BY <1>2, <1>3 DEF StateTells
<1>5. PICK o \in Lists : o = [u \in User |-> IF s.members[u].oob THEN s.members[u].ev ELSE NoEvent]
  BY StateTypes, EmptyTypes
<1>6. Complements(o, acc)
  BY <1>2, <1>5 DEF Complements, NoEvent
<1>7. b => writing' = [at |-> "write", list |-> o]
  BY <1>1, <1>5 DEF setLoaded
<1> QED BY <1>4, <1>6, <1>7 DEF Idle

\* The list of the store is of those the accumulator does not tell of.
LEMMA ReadKnown ==
  ASSUME MembersTypes, Knows, onStoreRead
  PROVE  Knows'
<1>1. /\ UNCHANGED <<log, token, my, promise, clearing, acc, disk>>
      /\ loadingMembers # Idle
  BY DEF onStoreRead, Idle
<1>2. Tells(acc, token)' /\ Tells(disk.saved.acc, disk.saved.token)'
  BY <1>1, SameLog DEF Knows
<1>3. CASE disk.oob # Idle
  <2>1. PICK list \in Lists : list = disk.oob.list
    BY <1>3 DEF MembersTypes
  <2>2. setLoaded(list, FALSE)
    BY <1>3, <2>1 DEF onStoreRead
  <2>3. status = "InProgress"
    BY <1>1 DEF Knows, LoadIs
  <2>4. \A u \in User : acc[u] = NoEvent => list[u] = 0
    BY <1>3, <2>1 DEF Knows, StoreComplements, Complements
  <2>5. StateTells'
    BY <1>1, <2>2, <2>3, <2>4, LoadedKnown
  <2>6. status' = "Finished" /\ loadingMembers' = Idle /\ writing' = writing /\ ahead' = ahead
    BY <2>2, <2>3 DEF setLoaded, MembersTypes
  <2>7. LoadIs' /\ StoreComplements'
    BY <1>1, <2>3, <2>6 DEF Knows, LoadIs, StoreComplements, Complements
  <2> QED BY <1>2, <2>5, <2>7 DEF Knows
<1>4. CASE disk.oob = Idle
  <2>1. UNCHANGED <<state, status, writing, ahead>> /\ loadingMembers' # Idle
    BY <1>4 DEF onStoreRead, Idle
  <2> QED BY <1>1, <1>2, <2>1 DEF Knows, StateTells, LoadIs, StoreComplements, Complements
<1> QED BY <1>3, <1>4

\* Who was not told of has not changed since the list was asked for.
LEMMA MembersAnswerKnown ==
  ASSUME MembersTypes, Knows, onMembers
  PROVE  Knows'
<1>1. /\ UNCHANGED <<log, token, my, promise, clearing, acc, disk>>
      /\ loadingMembers # Idle
  BY DEF onMembers, Idle
<1>2. Tells(acc, token)' /\ Tells(disk.saved.acc, disk.saved.token)'
  BY <1>1, SameLog DEF Knows
<1>3. PICK p \in Nat : p = loadingMembers.token /\ p <= token /\ p <= Len(log) /\ token \in Nat
  BY DEF MembersTypes, onMembers, Idle
<1>4. PICK list : list = [u \in User |-> IF In(u, p) THEN EventOf(u, p) ELSE NoEvent]
  OBVIOUS
<1>5. list \in Lists
  BY <1>3, <1>4, EventIsPosition, EmptyTypes DEF Lists
<1>6. setLoaded(list, TRUE)
  BY <1>3, <1>4 DEF onMembers
<1>7. status = "InProgress"
  BY <1>1 DEF Knows, LoadIs
<1>8. ASSUME NEW u \in User, acc[u] = NoEvent PROVE list[u] = 0
  <2>1. EventOf(u, token) = 0
    BY <1>8 DEF Knows, Tells
  <2>2. EventOf(u, p) = 0
    BY <1>3, <2>1, NotYet
  <2>3. In(u, p)
    BY <2>2 DEF In, Joined, MembersTypes
  <2> QED BY <1>4, <2>2, <2>3
<1>9. StateTells' /\ writing' # Idle /\ Complements(writing'.list, acc)
  BY <1>1, <1>5, <1>6, <1>7, <1>8, LoadedKnown
<1>10. status' = "Finished" /\ loadingMembers' = Idle /\ ahead'
  BY <1>6, <1>7 DEF setLoaded
<1>11. LoadIs'
  BY <1>1, <1>7, <1>10 DEF Knows, LoadIs
<1>12. StoreComplements'
  BY <1>1, <1>9, <1>10 DEF Knows, StoreComplements, Complements
<1> QED BY <1>2, <1>9, <1>11, <1>12 DEF Knows

\* A list is written on top of the stored one.
LEMMA WrittenKnown ==
  ASSUME MembersTypes, Knows, onStoreWritten
  PROVE  Knows'
<1>1. UNCHANGED <<log, token, my, state, status, promise, loadingMembers, clearing, acc, ahead>> /\ writing' = Idle
  BY DEF onStoreWritten
<1>2. PICK old \in Lists : old = IF disk.oob = Idle THEN NoMembers ELSE disk.oob.list
  BY EmptyTypes DEF MembersTypes
<1>3. PICK list : list = [u \in User |-> IF writing.list[u] # NoEvent THEN writing.list[u] ELSE old[u]]
  OBVIOUS
<1>4. disk' = [disk EXCEPT !.oob = [at |-> "kept", list |-> list]]
  BY <1>2, <1>3 DEF onStoreWritten
<1>5. disk'.saved = disk.saved /\ disk'.oob.list = list
  BY <1>4 DEF MembersTypes
<1>6. \A u \in User : old[u] \in {0, NoEvent}
  BY <1>2 DEF Knows, StoreComplements, Complements, NoMembers
<1>7. ASSUME NEW a, Complements(writing.list, a) PROVE Complements(list, a)
  BY <1>3, <1>6, <1>7 DEF Complements
<1>8. Tells(acc, token)' /\ Tells(disk.saved.acc, disk.saved.token)'
  BY <1>1, <1>5, SameLog DEF Knows
<1>9. Complements(list, acc) /\ (~ahead => Complements(list, disk.saved.acc))
  BY <1>7 DEF Knows, StoreComplements, onStoreWritten
<1>10. StoreComplements'
  BY <1>1, <1>5, <1>9 DEF StoreComplements, Complements
<1> QED BY <1>1, <1>5, <1>8, <1>10 DEF Knows, StateTells, LoadIs

\* What is saved is what the client knows.
LEMMA SaveKnown ==
  ASSUME MembersTypes, Knows, save
  PROVE  Knows'
<1>1. UNCHANGED <<log, token, my, state, status, promise, loadingMembers, clearing, writing, acc>> /\ ~ahead'
  BY DEF save
<1>2. disk' = [disk EXCEPT !.saved = [token |-> token, my |-> "join", acc |-> acc]]
  BY DEF save, Knows, LoadIs
<1>3. /\ disk'.saved.token = token /\ disk'.saved.my = "join" /\ disk'.saved.acc = acc
      /\ disk'.oob = disk.oob
  BY <1>2 DEF MembersTypes
<1>4. Tells(acc, token)' /\ Tells(disk.saved.acc, disk.saved.token)'
  BY <1>1, <1>3, SameLog DEF Knows
<1>5. StoreComplements'
  BY <1>1, <1>3 DEF Knows, StoreComplements, Complements
<1> QED BY <1>1, <1>3, <1>4, <1>5 DEF Knows, StateTells, LoadIs

\* After a reload the client knows what was saved; a stored list goes with it,
\* for otherwise the store is torn.
LEMMA ReloadKnown ==
  ASSUME MembersTypes, Knows, reload, ~torn'
  PROVE  Knows'
<1>1. /\ token' = disk.saved.token /\ my' = disk.saved.my /\ acc' = disk.saved.acc
      /\ status' = "NotStarted" /\ promise' = FALSE /\ loadingMembers' = Idle /\ clearing' = "idle"
      /\ writing' = Idle /\ UNCHANGED <<log, disk, ahead>>
  BY DEF reload
<1>2. state' = [events |-> acc', members |-> [u \in User |-> [ev |-> acc'[u], oob |-> FALSE]]]
  BY DEF reload
<1>3. disk.oob # Idle => ~ahead
  BY DEF reload
<1>4. Tells(acc, token)' /\ Tells(disk.saved.acc, disk.saved.token)'
  BY <1>1, SameLog DEF Knows
<1>5. StateTells'
  BY <1>1, <1>2 DEF StateTells
<1>6. LoadIs'
  BY <1>1 DEF Knows, LoadIs
<1>7. StoreComplements'
  BY <1>1, <1>3 DEF Knows, StoreComplements, Complements
<1> QED BY <1>4, <1>5, <1>6, <1>7 DEF Knows

\* Every step of a client that has not left the room keeps what it knows.
LEMMA KnownKept == MembersInv /\ [MembersNext]_memVars => Known'
<1> SUFFICES ASSUME MembersTypes, Known, [MembersNext]_memVars, ~left', ~torn' PROVE Knows'
  BY DEF MembersInv, Known
<1>1. ~left /\ ~torn
  <2>1. ASSUME NEW u, NEW what, ServerEntry(u, what) PROVE ~left /\ ~torn
    BY <2>1 DEF ServerEntry
  <2>2. ASSUME NEW h, NEW l, NEW e, processJoin(h, l, e) PROVE ~left /\ ~torn
    BY <2>2 DEF processJoin
  <2>3. ASSUME NEW h, processLeave(h) PROVE FALSE
    BY <2>3 DEF processLeave
  <2>4. ASSUME NEW h, processRejoin(h) PROVE ~left /\ ~torn
    BY <2>4 DEF processRejoin
  <2>5. ASSUME NEW h, processNothing(h) PROVE ~left /\ ~torn
    BY <2>5 DEF processNothing
  <2>6. (loadMembersIfNeeded => ~left /\ ~torn) /\ (onStoreRead => ~left /\ ~torn)
    <3>1. loadMembersIfNeeded => UNCHANGED <<left, torn>>
      BY DEF loadMembersIfNeeded
    <3>2. onStoreRead => UNCHANGED <<left, torn>>
      BY DEF onStoreRead
    <3> QED BY <3>1, <3>2
  <2>7. (onMembers => ~left /\ ~torn) /\ (onMembersFailed => ~left /\ ~torn)
    <3>1. onMembers => UNCHANGED <<left, torn>>
      BY DEF onMembers
    <3>2. onMembersFailed => UNCHANGED <<left, torn>>
      BY DEF onMembersFailed
    <3> QED BY <3>1, <3>2
  <2>8. (onStoreWritten => ~left /\ ~torn) /\ (onClearStore => ~left /\ ~torn)
    BY DEF onStoreWritten, onClearStore
  <2>9. (onClearState => ~left /\ ~torn) /\ (save => ~left /\ ~torn)
    BY DEF onClearState, save
  <2>10. reload => ~left /\ ~torn
    <3>1. reload => left' = left /\ (torn => torn')
      BY DEF reload
    <3> QED BY <3>1
  <2>11. CASE UNCHANGED memVars
    BY <2>11 DEF memVars
  <2> QED BY <2>1, <2>2, <2>3, <2>4, <2>5, <2>6, <2>7, <2>8, <2>9, <2>10, <2>11, Zenon DEF MembersNext
<1>2. Knows
  BY <1>1 DEF Known
<1>3. my = "join" /\ clearing = "idle"
  BY <1>2 DEF Knows, LoadIs
<1>4. ASSUME NEW h, processLeave(h) \/ processRejoin(h) \/ processNothing(h) PROVE Knows'
  BY <1>3, <1>4 DEF processLeave, processRejoin, processNothing
<1>5. CASE loadMembersIfNeeded
  <2>1. /\ UNCHANGED <<log, token, my, state, clearing, writing, acc, disk, ahead>>
        /\ promise' /\ loadingMembers' # Idle /\ status = "NotStarted" /\ status' = "InProgress"
    BY <1>2, <1>5 DEF loadMembersIfNeeded, Knows, LoadIs, Idle
  <2>2. Tells(acc, token)' /\ Tells(disk.saved.acc, disk.saved.token)'
    BY <1>2, <2>1, SameLog DEF Knows
  <2> QED BY <1>2, <2>1, <2>2 DEF Knows, StateTells, LoadIs, StoreComplements, Complements
<1>6. CASE onMembersFailed
  <2>1. /\ UNCHANGED <<log, token, my, state, writing, acc, disk, ahead>>
        /\ ~promise' /\ loadingMembers' = Idle /\ status = "InProgress" /\ status' = "NotStarted"
        /\ clearing' = "idle"
    BY <1>2, <1>3, <1>6 DEF onMembersFailed, Knows, LoadIs, Idle
  <2>2. Tells(acc, token)' /\ Tells(disk.saved.acc, disk.saved.token)'
    BY <1>2, <2>1, SameLog DEF Knows
  <2> QED BY <1>2, <2>1, <2>2 DEF Knows, StateTells, LoadIs, StoreComplements, Complements
<1>7. CASE onClearStore \/ onClearState
  BY <1>3, <1>7 DEF onClearStore, onClearState
<1>8. CASE UNCHANGED memVars
  <2>1. UNCHANGED <<log, token, my, state, status, promise, loadingMembers, clearing, writing, acc, disk, ahead>>
    BY <1>8 DEF memVars
  <2>2. Tells(acc, token)' /\ Tells(disk.saved.acc, disk.saved.token)'
    BY <1>2, <2>1, SameLog DEF Knows
  <2> QED BY <1>2, <2>1, <2>2 DEF Knows, StateTells, LoadIs, StoreComplements, Complements
<1> QED BY <1>2, <1>4, <1>5, <1>6, <1>7, <1>8, EntryKnown, JoinKnown, ReadKnown, MembersAnswerKnown, WrittenKnown,
           SaveKnown, ReloadKnown, Zenon DEF MembersNext

-----------------------------------------------------------------------------
\* A new client knows that everybody is in the room.
LEMMA MembersInitInv == MembersInit => MembersInv
<1> SUFFICES ASSUME MembersInit PROVE MembersInv
  OBVIOUS
<1>1. log = <<>> /\ Len(log) = 0
  BY DEF MembersInit
<1>2. MembersTypes
  <2>1. Len(log) <= MaxLog
    BY <1>1, MembersAssumption
  <2>2. disk \in [oob : {Idle} \cup [at : {"kept"}, list : Lists],
                 saved : [token : Nat, my : {"join", "none"}, acc : Lists]]
    BY EmptyTypes DEF MembersInit
  <2>3. log \in Seq(Entry) /\ token = 0 /\ disk.saved.token = 0
    BY DEF MembersInit
  <2>4. loadingMembers = Idle /\ Idle.at # "server"
    BY DEF MembersInit, Idle
  <2>5. /\ my = "join" /\ state \in States /\ status = "NotStarted" /\ promise = FALSE /\ clearing = "idle"
        /\ writing = Idle /\ acc \in Lists /\ left = FALSE /\ ahead = FALSE /\ torn = FALSE
    BY EmptyTypes DEF MembersInit
  <2>6. left \in BOOLEAN /\ ahead \in BOOLEAN /\ torn \in BOOLEAN /\ promise \in BOOLEAN
    BY <2>5
  <2>7. token \in Nat /\ token <= Len(log) /\ disk.saved.token <= token
    BY <1>1, <2>3
  <2>8. loadingMembers.at = "server" => loadingMembers.token <= token
    BY <2>4
  <2>9. loadingMembers \in {Idle} \cup [at : {"store"}] \cup [at : {"server"}, token : Nat]
    BY <2>4
  <2>10. my \in {"join", "leave", "none"} /\ status \in {"NotStarted", "InProgress", "Finished"}
         /\ clearing \in {"idle", "wait", "state"} /\ writing \in {Idle} \cup [at : {"write"}, list : Lists]
    BY <2>5
  <2> QED BY <2>1, <2>2, <2>3, <2>5, <2>6, <2>7, <2>8, <2>9, <2>10 DEF MembersTypes
<1>3. \A u \in User : NoMembers[u] = NoEvent /\ EventOf(u, 0) = 0
  BY EventFacts DEF NoMembers
<1>4. Tells(acc, token) /\ Tells(disk.saved.acc, disk.saved.token)
  BY <1>3 DEF MembersInit, Tells
<1>5. StateTells /\ LoadIs /\ StoreComplements
  BY <1>3 DEF MembersInit, StateTells, LoadIs, StoreComplements, EmptyState, Idle
<1> QED BY <1>2, <1>4, <1>5 DEF MembersInv, Known, Knows

\* The invariant of the members.
THEOREM MembersInvHolds == MembersSpec => []MembersInv
<1>1. MembersInv /\ [MembersNext]_memVars => MembersInv'
  BY TypesKept, KnownKept DEF MembersInv
<1> QED BY <1>1, MembersInitInv, PTL DEF MembersSpec

\* A client that loaded the members, never left and was not reloaded with a
\* list newer than its saved sync knows who is in the room.
LEMMA InvIsCurrent == MembersInv => MembersAreCurrent
<1> SUFFICES ASSUME MembersInv PROVE MembersAreCurrent
  OBVIOUS
<1>1. MembersTypeOK
  BY DEF MembersInv, MembersTypes, MembersTypeOK, States, Lists, Positions
<1>2. ASSUME Loaded, ~left, ~torn PROVE MembersKnown
  <2>1. Knows
    BY <1>2 DEF MembersInv, Known
  <2>2. status = "Finished"
    BY <1>2, <2>1 DEF Loaded, Knows, LoadIs
  <2>3. ASSUME NEW u \in User PROVE state.members[u].ev = EventOf(u, token)
    BY <2>1, <2>2 DEF Knows, StateTells, Tells
  <2> QED BY <2>3 DEF MembersKnown, In
<1> QED BY <1>1, <1>2 DEF MembersAreCurrent

\* MembersAreCurrent: the members of the room state are those of the room at
\* the sync token, for any history, however many users, limited syncs, failed
\* requests and reloads there are, and wherever the load, the write to the
\* store and the save of the sync fall between them.
THEOREM Current == MembersSpec => []MembersAreCurrent
BY MembersInvHolds, InvIsCurrent, PTL

----------------------------------------------------------------------------
(* The sync loop.                                                          *)

\* The tasks before the first request is made.
Starting == {"idle", "pushRules", "lazyLoad", "filter", "recoverRules", "recoverFilter",
             "waitRules", "waitFilter"}

\* Until the saved sync is loaded, or found unusable, nothing has been processed.
SavedPending ==
  saved # "done" =>
    /\ task \in Starting \cup {"awaitSaved", "done"}
    /\ have = None /\ storeTok = None /\ ~savedFailed
    /\ saved = "token" => savedTok = None
    /\ saved = "data" => savedTok = diskTok

\* Once it is, its token stands for the data that was loaded.
SavedLoaded ==
  saved = "done" /\ ~savedFailed /\ task \in Starting \cup {"awaitSaved"}
    => savedTok \in {None, have}

\* The store's token is the position of the data, except within one response.
StoreFollowsData == task \notin {"processing", "done"} => have = storeTok

\* A request is made by the start, or by the loop, and continues what is there.
RequestContinues ==
  /\ task \in Starting \cup {"waitSync", "processing"} => req = NoReq
  /\ task = "awaitSaved" => req.since \in {None, savedTok}
  /\ task = "syncing" /\ ~savedFailed => req.since \in {None, have}

ResponseIsStored == task = "processing" => resp.next = storeTok

\* Every position that is kept anywhere is that of the data it stands for.
KeepsPlace ==
  SavedPending /\ SavedLoaded /\ StoreFollowsData /\ RequestContinues /\ ResponseIsStored /\ NoGap

SyncInv == TypeOK /\ WaiterIsServed /\ KeepsPlace

\* The parts of the invariant, and the groups of variables that actions leave alone.
USE DEF loopVars, dataVars, aliveVars, Waiting, Starting, Token, None, NoReq, NoResp, SyncState

\* Timers: those that keep-alives set are real ones.
LEMMA TimerTypes ==
  /\ NoTimer \in Timer
  /\ \A f \in BOOLEAN : /\ [kind |-> "poke", failed |-> f] \in Timer \ {NoTimer}
                        /\ [kind |-> "success", failed |-> f] \in Timer \ {NoTimer}
  /\ \A t \in Timer : t.failed \in BOOLEAN
BY DEF Timer, NoTimer

\* Polls are counted by whether they follow a failure: starting and ending one.
LEMMA PollCount ==
  ASSUME NEW p \in [BOOLEAN -> Nat], NEW f \in BOOLEAN
  PROVE  /\ [p EXCEPT ![f] = @ + 1] \in [BOOLEAN -> Nat]
         /\ [p EXCEPT ![f] = @ + 1][f] > 0
         /\ p[f] > 0 => [p EXCEPT ![f] = @ - 1] \in [BOOLEAN -> Nat]
OBVIOUS

\* One poll of either kind is a poll.
LEMMA PollSum ==
  ASSUME NEW q \in [BOOLEAN -> Nat], NEW f \in BOOLEAN, q[f] > 0
  PROVE  q[FALSE] + q[TRUE] > 0
<1>1. q[FALSE] \in Nat /\ q[TRUE] \in Nat
  OBVIOUS
<1>2. q[FALSE] > 0 \/ q[TRUE] > 0
  <2>1. f = TRUE \/ f = FALSE
    OBVIOUS
  <2>2. CASE f = TRUE
    BY <2>2, Zenon
  <2>3. CASE f = FALSE
    BY <2>3, Zenon
  <2> QED BY <2>1, <2>2, <2>3
<1>3. \A a, b \in Nat : a > 0 \/ b > 0 => a + b > 0
  OBVIOUS
<1> QED BY <1>1, <1>2, <1>3, Zenon

\* The empty state.
LEMMA InitInv == ASSUME Init PROVE SyncInv
<1>1. LoopType
  BY DEF Init, LoopType
<1>2. DataType
  BY DEF Init, LoopType, DataType
<1>3. AliveType
  BY TimerTypes DEF Init, AliveType
<1>4. WaiterIsServed
  BY DEF Init, WaiterIsServed
<1>5. KeepsPlace
  BY DEF Init, KeepsPlace, SavedPending, SavedLoaded,
         StoreFollowsData, RequestContinues, ResponseIsStored, NoGap
<1> QED BY <1>1, <1>2, <1>3, <1>4, <1>5 DEF SyncInv, TypeOK

\* The start of the sync.
LEMMA StartInv == ASSUME SyncInv, NEW guest \in BOOLEAN, sync(guest) PROVE SyncInv'
<1>1. LoopType'
  BY DEF sync, SyncInv, TypeOK, LoopType
<1>2. DataType'
  BY DEF sync, SyncInv, TypeOK, LoopType, DataType
<1>3. AliveType'
  BY DEF sync, SyncInv, TypeOK, AliveType
<1>4. WaiterIsServed'
  BY DEF sync, SyncInv, WaiterIsServed
<1>5. KeepsPlace'
  BY DEF sync, SyncInv, TypeOK, DataType, KeepsPlace, SavedPending, SavedLoaded,
         StoreFollowsData, RequestContinues, ResponseIsStored, NoGap
<1> QED BY <1>1, <1>2, <1>3, <1>4, <1>5 DEF SyncInv, TypeOK

\* The saved sync's token and its data.
LEMMA SavedTokenInv == ASSUME SyncInv, getSavedSyncToken PROVE SyncInv'
<1>1. LoopType'
  BY DEF getSavedSyncToken, SyncInv, TypeOK, LoopType
<1>2. DataType'
  BY DEF getSavedSyncToken, SyncInv, TypeOK, LoopType, DataType
<1>3. AliveType'
  BY DEF getSavedSyncToken, SyncInv, TypeOK, AliveType
<1>4. WaiterIsServed'
  BY DEF getSavedSyncToken, SyncInv, WaiterIsServed
<1>5. KeepsPlace'
  BY DEF getSavedSyncToken, SyncInv, TypeOK, DataType, KeepsPlace, SavedPending, SavedLoaded,
         StoreFollowsData, RequestContinues, ResponseIsStored, NoGap
<1> QED BY <1>1, <1>2, <1>3, <1>4, <1>5 DEF SyncInv, TypeOK

\* Its data.
LEMMA FromCacheInv == ASSUME SyncInv, syncFromCache PROVE SyncInv'
<1>1. LoopType'
  BY DEF syncFromCache, SyncInv, TypeOK, LoopType
<1>2. DataType'
  BY DEF syncFromCache, SyncInv, TypeOK, LoopType, DataType
<1>3. AliveType'
  BY DEF syncFromCache, SyncInv, TypeOK, AliveType
<1>4. WaiterIsServed'
  BY DEF syncFromCache, SyncInv, WaiterIsServed
<1>5. KeepsPlace'
  BY DEF syncFromCache, SyncInv, TypeOK, DataType, KeepsPlace, SavedPending, SavedLoaded,
         StoreFollowsData, RequestContinues, ResponseIsStored, NoGap
<1> QED BY <1>1, <1>2, <1>3, <1>4, <1>5 DEF SyncInv, TypeOK

\* The requests of the start.
LEMMA PushRulesInv == ASSUME SyncInv, getPushRules PROVE SyncInv'
<1>1. LoopType'
  BY DEF getPushRules, SyncInv, TypeOK, LoopType
<1>2. DataType'
  BY DEF getPushRules, SyncInv, TypeOK, LoopType, DataType
<1>3. AliveType'
  BY DEF getPushRules, SyncInv, TypeOK, AliveType
<1>4. WaiterIsServed'
  BY DEF getPushRules, SyncInv, WaiterIsServed
<1>5. KeepsPlace'
  BY DEF getPushRules, SyncInv, TypeOK, DataType, KeepsPlace, SavedPending, SavedLoaded,
         StoreFollowsData, RequestContinues, ResponseIsStored, NoGap
<1> QED BY <1>1, <1>2, <1>3, <1>4, <1>5 DEF SyncInv, TypeOK

\* The lazy-loading check, which may end the start.
LEMMA LazyLoadInv == ASSUME SyncInv, checkLazyLoadStatus PROVE SyncInv'
<1>1. LoopType'
  BY DEF checkLazyLoadStatus, Spend, SyncInv, TypeOK, LoopType
<1>2. DataType'
  BY DEF checkLazyLoadStatus, Spend, SyncInv, TypeOK, LoopType, DataType
<1>3. AliveType'
  BY DEF checkLazyLoadStatus, Spend, SyncInv, TypeOK, AliveType
<1>4. WaiterIsServed'
  BY DEF checkLazyLoadStatus, Spend, SyncInv, WaiterIsServed
<1>5. KeepsPlace'
  BY DEF checkLazyLoadStatus, Spend, SyncInv, TypeOK, DataType, KeepsPlace, SavedPending,
         SavedLoaded, StoreFollowsData, RequestContinues, ResponseIsStored, NoGap
<1> QED BY <1>1, <1>2, <1>3, <1>4, <1>5 DEF SyncInv, TypeOK

\* The filter; the first request is made with the saved token.
LEMMA FilterInv == ASSUME SyncInv, getFilter PROVE SyncInv'
<1>1. LoopType'
  BY DEF getFilter, SyncInv, TypeOK, LoopType
<1>2. DataType'
  BY DEF getFilter, SyncInv, TypeOK, LoopType, DataType
<1>3. AliveType'
  BY DEF getFilter, SyncInv, TypeOK, AliveType
<1>4. WaiterIsServed'
  BY DEF getFilter, SyncInv, WaiterIsServed
<1>5. KeepsPlace'
  BY DEF getFilter, SyncInv, TypeOK, DataType, KeepsPlace, SavedPending, SavedLoaded,
         StoreFollowsData, RequestContinues, ResponseIsStored, NoGap
<1> QED BY <1>1, <1>2, <1>3, <1>4, <1>5 DEF SyncInv, TypeOK

\* The first request is handed over to the loop.
LEMMA AwaitSavedInv == ASSUME SyncInv, awaitSaved PROVE SyncInv'
<1>1. LoopType'
  BY DEF awaitSaved, privacyCheckThenSync, doSync, Spend, SyncInv, TypeOK, LoopType
<1>2. DataType'
  BY DEF awaitSaved, privacyCheckThenSync, doSync, Spend, SyncInv, TypeOK, LoopType, DataType
<1>3. AliveType'
  BY DEF awaitSaved, privacyCheckThenSync, doSync, Spend, SyncInv, TypeOK, AliveType
<1>4. WaiterIsServed'
  BY DEF awaitSaved, privacyCheckThenSync, doSync, Spend, SyncInv, WaiterIsServed
<1>5. KeepsPlace'
  BY DEF awaitSaved, privacyCheckThenSync, doSync, Spend, SyncInv, TypeOK, DataType, KeepsPlace,
         SavedPending, SavedLoaded, StoreFollowsData, RequestContinues, ResponseIsStored, NoGap
<1> QED BY <1>1, <1>2, <1>3, <1>4, <1>5 DEF SyncInv, TypeOK

\* A request of the start fails, and is repeated.
LEMMA StartupFailsInv == ASSUME SyncInv, StartupRequestFails PROVE SyncInv'
<1>1. LoopType'
  BY DEF StartupRequestFails, Spend, SyncInv, TypeOK, LoopType
<1>2. DataType'
  BY DEF StartupRequestFails, Spend, SyncInv, TypeOK, LoopType, DataType
<1>3. AliveType'
  BY TimerTypes DEF StartupRequestFails, Spend, SyncInv, TypeOK, AliveType
<1>4. WaiterIsServed'
  BY TimerTypes DEF StartupRequestFails, Spend, SyncInv, WaiterIsServed
<1>5. KeepsPlace'
  BY DEF StartupRequestFails, Spend, SyncInv, TypeOK, DataType, KeepsPlace, SavedPending,
         SavedLoaded, StoreFollowsData, RequestContinues, ResponseIsStored, NoGap
<1> QED BY <1>1, <1>2, <1>3, <1>4, <1>5 DEF SyncInv, TypeOK

\* Its keep-alives start.
LEMMA RecoverInv == ASSUME SyncInv, recoverFromSyncStartupError PROVE SyncInv'
<1>1. LoopType'
  BY DEF recoverFromSyncStartupError, startKeepAlives, SyncInv, TypeOK, LoopType
<1>2. DataType'
  BY DEF recoverFromSyncStartupError, startKeepAlives, SyncInv, TypeOK, LoopType, DataType
<1>3. AliveType'
  BY TimerTypes DEF recoverFromSyncStartupError, startKeepAlives, SyncInv, TypeOK, AliveType
<1>4. WaiterIsServed'
  BY TimerTypes DEF recoverFromSyncStartupError, startKeepAlives, SyncInv, WaiterIsServed
<1>5. KeepsPlace'
  BY DEF recoverFromSyncStartupError, startKeepAlives, SyncInv, TypeOK, DataType, KeepsPlace,
         SavedPending, SavedLoaded, StoreFollowsData, RequestContinues, ResponseIsStored, NoGap
<1> QED BY <1>1, <1>2, <1>3, <1>4, <1>5 DEF SyncInv, TypeOK

\* The loop.
LEMMA AnswerInv == ASSUME SyncInv, SyncAnswer PROVE SyncInv'
<1>1. LoopType'
  BY DEF SyncAnswer, Spend, SyncInv, TypeOK, LoopType
<1>2. DataType'
  BY DEF SyncAnswer, Spend, SyncInv, TypeOK, LoopType, DataType
<1>3. AliveType'
  BY DEF SyncAnswer, Spend, SyncInv, TypeOK, AliveType
<1>4. WaiterIsServed'
  BY DEF SyncAnswer, Spend, SyncInv, WaiterIsServed
<1>5. KeepsPlace'
  BY DEF SyncAnswer, Spend, SyncInv, TypeOK, DataType, KeepsPlace, SavedPending, SavedLoaded,
         StoreFollowsData, RequestContinues, ResponseIsStored, NoGap
<1> QED BY <1>1, <1>2, <1>3, <1>4, <1>5 DEF SyncInv, TypeOK

\* The response is there: the token moves ahead of the data.
LEMMA ResponseInv == ASSUME SyncInv, SyncResponse PROVE SyncInv'
<1>1. LoopType'
  BY DEF SyncResponse, SyncInv, TypeOK, LoopType
<1>2. DataType'
  BY DEF SyncResponse, SyncInv, TypeOK, LoopType, DataType
<1>3. AliveType'
  BY DEF SyncResponse, SyncInv, TypeOK, AliveType
<1>4. WaiterIsServed'
  BY DEF SyncResponse, SyncInv, WaiterIsServed
<1>5. KeepsPlace'
  BY DEF SyncResponse, SyncInv, TypeOK, DataType, KeepsPlace, SavedPending, SavedLoaded,
         StoreFollowsData, RequestContinues, ResponseIsStored, NoGap
<1> QED BY <1>1, <1>2, <1>3, <1>4, <1>5 DEF SyncInv, TypeOK

\* The data follows, and the next request.
LEMMA ProcessedInv == ASSUME SyncInv, SyncProcessed PROVE SyncInv'
<1>1. LoopType'
  BY DEF SyncProcessed, privacyCheckThenSync, doSync, Spend, SyncInv, TypeOK, LoopType
<1>2. DataType'
  BY DEF SyncProcessed, privacyCheckThenSync, doSync, Spend, SyncInv, TypeOK, LoopType, DataType
<1>3. AliveType'
  BY DEF SyncProcessed, privacyCheckThenSync, doSync, Spend, SyncInv, TypeOK, AliveType
<1>4. WaiterIsServed'
  BY DEF SyncProcessed, privacyCheckThenSync, doSync, Spend, SyncInv, WaiterIsServed
<1>5. KeepsPlace'
  BY DEF SyncProcessed, privacyCheckThenSync, doSync, Spend, SyncInv, TypeOK, DataType,
         KeepsPlace, SavedPending, SavedLoaded, StoreFollowsData, RequestContinues,
         ResponseIsStored, NoGap
<1> QED BY <1>1, <1>2, <1>3, <1>4, <1>5 DEF SyncInv, TypeOK

\* A request of the loop fails.
LEMMA ErrorInv == ASSUME SyncInv, onSyncError PROVE SyncInv'
<1>1. LoopType'
  <2>1. FailureState(failedSyncCount') \in SyncState
    BY DEF FailureState
  <2>2. syncState' \in SyncState
    BY <2>1 DEF onSyncError, SyncInv, TypeOK, LoopType
  <2>3. failedSyncCount' \in Nat
    BY DEF onSyncError, SyncInv, TypeOK, LoopType
  <2> QED BY <2>2, <2>3 DEF onSyncError, SyncInv, TypeOK, LoopType
<1>2. DataType'
  BY DEF onSyncError, startKeepAlives, FailureState, SyncInv, TypeOK, LoopType, DataType
<1>3. AliveType'
  BY TimerTypes DEF onSyncError, startKeepAlives, FailureState, SyncInv, TypeOK, AliveType
<1>4. WaiterIsServed'
  BY TimerTypes DEF onSyncError, startKeepAlives, FailureState, SyncInv, WaiterIsServed
<1>5. KeepsPlace'
  BY DEF onSyncError, startKeepAlives, FailureState, SyncInv, TypeOK, DataType, KeepsPlace,
         SavedPending, SavedLoaded, StoreFollowsData, RequestContinues, ResponseIsStored, NoGap
<1> QED BY <1>1, <1>2, <1>3, <1>4, <1>5 DEF SyncInv, TypeOK

\* The connection is back: whoever waits for it goes on from the data it has.
LEMMA SuccessInv ==
  ASSUME SyncInv, NEW f \in BOOLEAN, success(f), pokes' \in [BOOLEAN -> Nat],
         orphans' \subseteq Timer,
         UNCHANGED <<head, savedFailed, running, failedSyncCount, storeIsInvalid, saved, savedTok,
                     diskTok, storeTok, have, used>>
  PROVE  SyncInv'
<1>1. LoopType'
  BY DEF success, doSync, SyncInv, TypeOK, LoopType
<1>2. DataType'
  BY DEF success, doSync, SyncInv, TypeOK, LoopType, DataType
<1>3. AliveType'
  BY TimerTypes DEF success, doSync, SyncInv, TypeOK, AliveType
<1>4. WaiterIsServed'
  BY TimerTypes DEF success, doSync, SyncInv, WaiterIsServed
<1>5. KeepsPlace'
  BY DEF success, doSync, SyncInv, TypeOK, DataType, KeepsPlace, SavedPending, SavedLoaded,
         StoreFollowsData, RequestContinues, ResponseIsStored, NoGap
<1> QED BY <1>1, <1>2, <1>3, <1>4, <1>5 DEF SyncInv, TypeOK

\* A poll is answered.
LEMMA PokeAnsweredInv == ASSUME SyncInv, NEW f \in BOOLEAN, PokeAnswered(f) PROVE SyncInv'
<1>1. pokes' \in [BOOLEAN -> Nat] /\ orphans' \subseteq Timer
  BY PollCount DEF PokeAnswered, SyncInv, TypeOK, AliveType
<1> QED BY <1>1, SuccessInv DEF PokeAnswered

\* A poll fails: a timer is set.
LEMMA PokeFailsInv == ASSUME SyncInv, NEW f \in BOOLEAN, PokeFails(f) PROVE SyncInv'
<1>1. LoopType'
  BY DEF PokeFails, NewTimer, Spend, SyncInv, TypeOK, LoopType
<1>2. DataType'
  BY DEF PokeFails, NewTimer, Spend, SyncInv, TypeOK, LoopType, DataType
<1>3. AliveType'
  BY TimerTypes, PollCount DEF PokeFails, NewTimer, Spend, SyncInv, TypeOK, AliveType
<1>4. WaiterIsServed'
  BY TimerTypes DEF PokeFails, NewTimer, Spend, SyncInv, WaiterIsServed
<1>5. KeepsPlace'
  BY DEF PokeFails, NewTimer, Spend, SyncInv, TypeOK, DataType, KeepsPlace, SavedPending,
         SavedLoaded, StoreFollowsData, RequestContinues, ResponseIsStored, NoGap
<1> QED BY <1>1, <1>2, <1>3, <1>4, <1>5 DEF SyncInv, TypeOK

\* A timer fires: it polls, or takes the connection to be back.
LEMMA TimerFiresInv ==
  ASSUME SyncInv, NEW t \in orphans \cup {timer}, TimerFires(t)
  PROVE  SyncInv'
<1>1. t \in Timer /\ t.failed \in BOOLEAN /\ orphans' \subseteq Timer
  BY TimerTypes DEF TimerFires, SyncInv, TypeOK, AliveType
<1>2. CASE t.kind = "success" /\ success(t.failed) /\ UNCHANGED pokes
  BY <1>1, <1>2, SuccessInv DEF TimerFires, SyncInv, TypeOK, AliveType
<1>3. CASE /\ t.kind = "poke" /\ Poke(t.failed)
           /\ timer' = IF t = timer /\ orphans' = orphans THEN NoTimer ELSE timer
           /\ UNCHANGED <<task, syncState, req, resp, defer>>
  <2>1. pokes' \in [BOOLEAN -> Nat] /\ pokes'[t.failed] > 0
    BY <1>1, <1>3, PollCount DEF Poke, SyncInv, TypeOK, AliveType
  <2>2. pokes'[FALSE] + pokes'[TRUE] > 0
    BY <1>1, <2>1, PollSum
  <2>3. TypeOK'
    BY <1>1, <1>3, <2>1, TimerTypes DEF TimerFires, SyncInv, TypeOK, LoopType, DataType,
           AliveType
  <2>4. WaiterIsServed'
    BY <1>3, <2>2 DEF TimerFires, SyncInv, WaiterIsServed
  <2>5. KeepsPlace'
    BY <1>3 DEF TimerFires, SyncInv, KeepsPlace, SavedPending, SavedLoaded, StoreFollowsData,
           RequestContinues, ResponseIsStored, NoGap
  <2> QED BY <2>3, <2>4, <2>5 DEF SyncInv, KeepsPlace
<1> QED BY <1>2, <1>3 DEF TimerFires

\* Told to be online, the client polls at once.
LEMMA OnlineInv == ASSUME SyncInv, startKeepAlivesNow PROVE SyncInv'
<1>1. pokes' \in [BOOLEAN -> Nat] /\ pokes'[FALSE] > 0
  BY PollCount DEF startKeepAlivesNow, Poke, SyncInv, TypeOK, AliveType
<1>2. pokes'[FALSE] + pokes'[TRUE] > 0
  BY <1>1, PollSum
<1>3. TypeOK'
  BY <1>1, TimerTypes DEF startKeepAlivesNow, SyncInv, TypeOK, LoopType, DataType,
         AliveType
<1>4. WaiterIsServed'
  BY <1>2 DEF startKeepAlivesNow, WaiterIsServed
<1>5. KeepsPlace'
  BY DEF startKeepAlivesNow, SyncInv, KeepsPlace, SavedPending, SavedLoaded, StoreFollowsData,
           RequestContinues, ResponseIsStored, NoGap
<1> QED BY <1>3, <1>4, <1>5 DEF SyncInv, KeepsPlace

\* The client stops.
LEMMA StopInv == ASSUME SyncInv, stop PROVE SyncInv'
<1>1. LoopType'
  BY DEF stop, Aborted, Spend, SyncInv, TypeOK, LoopType
<1>2. DataType'
  BY DEF stop, Aborted, Spend, SyncInv, TypeOK, LoopType, DataType
<1>3. AliveType'
  BY TimerTypes DEF stop, Aborted, Spend, SyncInv, TypeOK, AliveType
<1>4. WaiterIsServed'
  BY TimerTypes DEF stop, Aborted, Spend, SyncInv, WaiterIsServed
<1>5. KeepsPlace'
  BY DEF stop, Aborted, Spend, SyncInv, TypeOK, DataType, KeepsPlace, SavedPending, SavedLoaded,
         StoreFollowsData, RequestContinues, ResponseIsStored, NoGap
<1> QED BY <1>1, <1>2, <1>3, <1>4, <1>5 DEF SyncInv, TypeOK

\* External: the server's stream grows.
LEMMA ServerInv == ASSUME SyncInv, ServerEvent PROVE SyncInv'
<1>1. LoopType'
  BY DEF ServerEvent, SyncInv, TypeOK, LoopType
<1>2. DataType'
  BY DEF ServerEvent, SyncInv, TypeOK, LoopType, DataType
<1>3. AliveType'
  BY DEF ServerEvent, SyncInv, TypeOK, AliveType
<1>4. WaiterIsServed'
  BY DEF ServerEvent, SyncInv, WaiterIsServed
<1>5. KeepsPlace'
  BY DEF ServerEvent, SyncInv, TypeOK, DataType, KeepsPlace, SavedPending, SavedLoaded,
         StoreFollowsData, RequestContinues, ResponseIsStored, NoGap
<1> QED BY <1>1, <1>2, <1>3, <1>4, <1>5 DEF SyncInv, TypeOK

\* The invariant holds throughout.
THEOREM SyncInvHolds == Spec => []SyncInv
<1>1. ASSUME SyncInv, [Next]_vars PROVE SyncInv'
  <2>1. CASE UNCHANGED vars
    <3>1. LoopType' /\ DataType' /\ AliveType'
      BY <1>1, <2>1 DEF vars, SyncInv, TypeOK, LoopType, DataType, AliveType
    <3>2. WaiterIsServed'
      BY <1>1, <2>1 DEF vars, SyncInv, WaiterIsServed
    <3>3. KeepsPlace'
      BY <1>1, <2>1 DEF vars, SyncInv, KeepsPlace, SavedPending, SavedLoaded, StoreFollowsData,
             RequestContinues, ResponseIsStored, NoGap
    <3> QED BY <3>1, <3>2, <3>3 DEF SyncInv, TypeOK
  <2>2. CASE Startup
    BY <1>1, <2>2, SavedTokenInv, FromCacheInv, PushRulesInv, LazyLoadInv, FilterInv,
       AwaitSavedInv, RecoverInv DEF Startup
  <2>3. CASE Loop
    BY <1>1, <2>3, ResponseInv, ProcessedInv, ErrorInv DEF Loop
  <2>4. CASE KeepAlive
    BY <1>1, <2>4, PokeAnsweredInv, TimerFiresInv DEF KeepAlive
  <2> QED
    BY <1>1, <2>1, <2>2, <2>3, <2>4, StartInv, StartupFailsInv, AnswerInv, PokeFailsInv,
       OnlineInv, StopInv, ServerInv DEF Next
<1> QED BY InitInv, <1>1, PTL DEF Spec

\* Through failures, polls, retries, exceptions and stops in any order, the loop
\* never waits for a connection that nobody polls for, and a response is
\* processed only on top of the data it continues.
THEOREM Gapless == Spec => []SyncIsGapless
<1>1. SyncInv => SyncIsGapless
  BY DEF SyncInv, KeepsPlace, SyncIsGapless
<1> QED BY <1>1, SyncInvHolds, PTL

-----------------------------------------------------------------------------
(* Timeouts: the list and the search in it.                                *)

\* The deadlines of a list are in order.
Sorted(list) == \A i, j \in DOMAIN list : i < j => list[i].runAt <= list[j].runAt

\* The first p callbacks of a list are those due by runAt.
Divides(list, runAt, p) ==
  /\ p \in 0 .. Len(list)
  /\ \A i \in 1 .. p : list[i].runAt <= runAt
  /\ \A i \in p + 1 .. Len(list) : list[i].runAt > runAt

\* The windows of the search, one halving of a window given the answers for the
\* smaller ones, and what the search is to answer for a window.
Windows(list) == (0 .. Len(list)) \X (0 .. Len(list))
Halving(list, runAt, g) ==
  [w \in Windows(list) |->
     LET mid == (w[1] + w[2]) \div 2 IN
     IF w[1] >= w[2] THEN w[1]
     ELSE IF list[mid + 1].runAt > runAt THEN g[<<w[1], mid>>]
     ELSE g[<<mid + 1, w[2]>>]]
Within(p, w) == IF w[1] >= w[2] \/ p <= w[1] THEN w[1] ELSE IF p >= w[2] THEN w[2] ELSE p

\* A callback of a list is one.
LEMMA InList ==
  ASSUME NEW list \in Seq(Callback), NEW i \in DOMAIN list
  PROVE  /\ list[i] \in Callback
         /\ list[i].key \in 1 .. MaxTimeouts /\ list[i].runAt \in Nat
<1>1. list[i] \in Callback
  OBVIOUS
<1> QED BY <1>1 DEF Callback

\* A list in order is divided at some place.
LEMMA PlaceExists ==
  ASSUME NEW list \in Seq(Callback), Sorted(list), NEW runAt \in Nat
  PROVE  \E p \in 0 .. Len(list) : Divides(list, runAt, p)
<1> DEFINE ks == {k \in 1 .. Len(list) : list[k].runAt <= runAt}
<1>0. \A i \in 1 .. Len(list) : list[i].runAt \in Nat
  BY InList
<1>1. CASE ks = {}
  BY <1>0, <1>1 DEF Divides
<1>2. CASE ks # {}
  <2>1. PICK k \in ks : \A j \in ks : j <= k
    <3>1. ks \subseteq 1 .. Len(list)
      OBVIOUS
    <3>2. Len(list) \in Nat
      OBVIOUS
    <3> HIDE DEF ks
    <3> QED BY <1>2, <3>1, <3>2, Greatest
  <2>2. \A i \in 1 .. k : list[i].runAt <= runAt
    BY <1>0 DEF Sorted
  <2>3. \A i \in k + 1 .. Len(list) : list[i].runAt > runAt
    BY <1>0, <2>1
  <2> QED BY <2>2, <2>3 DEF Divides
<1> QED BY <1>1, <1>2

\* The halves of a window that is not empty are smaller windows.
LEMMA Halves ==
  ASSUME NEW list \in Seq(Callback), NEW w \in Windows(list), w[1] < w[2]
  PROVE  LET mid == (w[1] + w[2]) \div 2 IN
         /\ w[1] <= mid /\ mid < w[2]
         /\ mid + 1 \in DOMAIN list
         /\ <<w[1], mid>> \in Windows(list) /\ <<mid + 1, w[2]>> \in Windows(list)
<1> DEFINE mid == (w[1] + w[2]) \div 2
<1>1. w[1] \in 0 .. Len(list) /\ w[2] \in 0 .. Len(list)
  BY DEF Windows
<1>2. mid \in Nat /\ w[1] <= mid /\ mid < w[2]
  BY <1>1
<1>3. mid + 1 \in 1 .. Len(list) /\ mid \in 0 .. Len(list)
  BY <1>1, <1>2
<1> QED BY <1>1, <1>2, <1>3 DEF Windows

\* What is to be answered is consistent: a halving of it changes nothing.
LEMMA WithinIsHalved ==
  ASSUME NEW list \in Seq(Callback), NEW runAt \in Nat, NEW p, Divides(list, runAt, p),
         NEW h, h = [w \in Windows(list) |-> Within(p, w)]
  PROVE  h = Halving(list, runAt, h)
<1>1. ASSUME NEW w \in Windows(list) PROVE Within(p, w) = Halving(list, runAt, h)[w]
  <2> DEFINE mid == (w[1] + w[2]) \div 2
             l == <<w[1], mid>>
             r == <<mid + 1, w[2]>>
  <2>1. w[1] \in 0 .. Len(list) /\ w[2] \in 0 .. Len(list) /\ p \in 0 .. Len(list)
    BY DEF Windows, Divides
  <2>2. Halving(list, runAt, h)[w] =
          IF w[1] >= w[2] THEN w[1]
          ELSE IF list[mid + 1].runAt > runAt THEN h[l] ELSE h[r]
    BY DEF Halving
  <2>3. CASE w[1] >= w[2]
    BY <2>1, <2>2, <2>3 DEF Within
  <2>4. CASE w[1] < w[2]
    <3>1. /\ w[1] <= mid /\ mid < w[2] /\ mid + 1 \in DOMAIN list
          /\ l \in Windows(list) /\ r \in Windows(list)
      BY <2>4, Halves
    <3>2. mid \in Nat /\ mid + 1 \in 1 .. Len(list)
      BY <2>1, <3>1
    <3>3. list[mid + 1].runAt > runAt <=> p <= mid
      <4>1. list[mid + 1].runAt \in Nat
        BY <3>1, InList
      <4>2. CASE p <= mid
        BY <2>1, <3>2, <4>2 DEF Divides
      <4>3. CASE p > mid
        BY <2>1, <3>2, <4>1, <4>3 DEF Divides
      <4> QED BY <2>1, <3>2, <4>2, <4>3
    <3>4. h[l] = Within(p, l) /\ h[r] = Within(p, r)
      BY <3>1
    <3>5. Within(p, l) = IF w[1] >= mid \/ p <= w[1] THEN w[1] ELSE IF p >= mid THEN mid ELSE p
      BY DEF Within
    <3>6. Within(p, r) = IF mid + 1 >= w[2] \/ p <= mid + 1 THEN mid + 1
                         ELSE IF p >= w[2] THEN w[2] ELSE p
      BY DEF Within
    <3>7. Halving(list, runAt, h)[w] = IF p <= mid THEN h[l] ELSE h[r]
      <4> HIDE DEF mid, l, r
      <4> QED BY <2>1, <2>2, <2>4, <3>3
    <3> HIDE DEF mid, l, r
    <3> QED BY <2>1, <2>4, <3>1, <3>2, <3>4, <3>5, <3>6, <3>7 DEF Within
  <2> QED BY <2>1, <2>3, <2>4
<1>2. h = [w \in Windows(list) |-> Halving(list, runAt, h)[w]]
  BY <1>1
<1>3. Halving(list, runAt, h) = [w \in Windows(list) |-> Halving(list, runAt, h)[w]]
  BY DEF Halving
<1> QED BY <1>2, <1>3

\* Nothing else is: two consistent answers are the same, for otherwise they
\* differ in some smallest window, and so in a half of it.
LEMMA AnswersAgree ==
  ASSUME NEW list \in Seq(Callback), NEW runAt \in Nat,
         NEW g, g = Halving(list, runAt, g), NEW h, h = Halving(list, runAt, h),
         NEW v \in Windows(list)
  PROVE  g[v] = h[v]
<1> SUFFICES ASSUME g[v] # h[v] PROVE FALSE
  OBVIOUS
<1> DEFINE size(w) == w[2] - w[1]
           differs(w) == g[w] # h[w]
           ks == {k \in 1 .. Len(list) :
                    \E w \in Windows(list) : size(w) = Len(list) + 1 - k /\ differs(w)}
<1>1. ASSUME NEW w \in Windows(list)
      PROVE  /\ w[1] \in 0 .. Len(list) /\ w[2] \in 0 .. Len(list)
             /\ w[1] >= w[2] => g[w] = w[1] /\ h[w] = w[1]
  BY DEF Windows, Halving
<1>2. ASSUME NEW w \in Windows(list), differs(w) PROVE w[1] < w[2]
  BY <1>1, <1>2
<1>3. ASSUME NEW w \in Windows(list), differs(w)
      PROVE  Len(list) + 1 - size(w) \in ks
  <2>1. size(w) \in 1 .. Len(list)
    BY <1>1, <1>2, <1>3
  <2> HIDE DEF size, differs
  <2>2. Len(list) + 1 - size(w) \in 1 .. Len(list)
        /\ size(w) = Len(list) + 1 - (Len(list) + 1 - size(w))
    BY <2>1
  <2> QED BY <1>3, <2>2
<1>4. PICK k \in ks : \A j \in ks : j <= k
  <2>1. ks # {}
    BY <1>3
  <2>2. ks \subseteq 1 .. Len(list)
    OBVIOUS
  <2>3. Len(list) \in Nat
    OBVIOUS
  <2> HIDE DEF ks
  <2> QED BY <2>1, <2>2, <2>3, Greatest
<1>5. PICK w \in Windows(list) : size(w) = Len(list) + 1 - k /\ differs(w)
  OBVIOUS
<1> DEFINE mid == (w[1] + w[2]) \div 2
           l == <<w[1], mid>>
           r == <<mid + 1, w[2]>>
<1>6. /\ w[1] <= mid /\ mid < w[2] /\ l \in Windows(list) /\ r \in Windows(list)
  BY <1>2, <1>5, Halves
<1>7. mid \in Int /\ w[1] \in Int /\ w[2] \in Int /\ k \in 1 .. Len(list)
  BY <1>1
<1>8. l[1] = w[1] /\ l[2] = mid /\ r[1] = mid + 1 /\ r[2] = w[2]
  OBVIOUS
<1>9. /\ g[w] = IF list[mid + 1].runAt > runAt THEN g[l] ELSE g[r]
      /\ h[w] = IF list[mid + 1].runAt > runAt THEN h[l] ELSE h[r]
  <2>1. ~(w[1] >= w[2])
    BY <1>2, <1>5, <1>7
  <2>2. /\ Halving(list, runAt, g)[w] = IF list[mid + 1].runAt > runAt THEN g[l] ELSE g[r]
        /\ Halving(list, runAt, h)[w] = IF list[mid + 1].runAt > runAt THEN h[l] ELSE h[r]
    BY <2>1 DEF Halving
  <2> HIDE DEF mid, l, r
  <2> QED BY <2>2
<1>10. differs(l) \/ differs(r)
  <2> HIDE DEF mid, l, r
  <2> QED BY <1>5, <1>9
<1>11. ASSUME NEW z \in Windows(list), differs(z), size(z) < size(w) PROVE FALSE
  <2>1. Len(list) + 1 - size(z) \in ks
    BY <1>3, <1>11
  <2>2. size(z) \in Int /\ size(w) \in Int
    BY <1>1
  <2>3. Len(list) + 1 - size(z) <= k
    BY <1>4, <2>1
  <2> HIDE DEF size, ks, differs
  <2> QED BY <1>5, <1>7, <1>11, <2>2, <2>3
<1>12. size(l) < size(w) /\ size(r) < size(w)
  <2> HIDE DEF mid, l, r
  <2> QED BY <1>6, <1>7, <1>8
<1> QED BY <1>6, <1>10, <1>11, <1>12

\* In every list in the order of deadlines, binarySearch answers the place after
\* the callbacks due no later and before the others.
THEOREM SearchDivides ==
  ASSUME NEW list \in Seq(Callback), Sorted(list), NEW runAt \in Nat
  PROVE  Divides(list, runAt, binarySearch(list, runAt))
<1>1. PICK p \in 0 .. Len(list) : Divides(list, runAt, p)
  BY PlaceExists
<1> DEFINE h == [w \in Windows(list) |-> Within(p, w)]
<1>2. h = Halving(list, runAt, h)
  BY <1>1, WithinIsHalved
<1>3. PICK g : g = Halving(list, runAt, g) /\ binarySearch(list, runAt) = g[<<0, Len(list)>>]
  <2> HIDE DEF h
  <2> QED BY <1>2, Zenon DEF binarySearch, Halving, Windows
<1>4. <<0, Len(list)>> \in Windows(list)
  BY DEF Windows
<1>5. g[<<0, Len(list)>>] = h[<<0, Len(list)>>]
  <2> HIDE DEF h
  <2> QED BY <1>2, <1>3, <1>4, AnswersAgree
<1>6. h[<<0, Len(list)>>] = Within(p, <<0, Len(list)>>)
  BY <1>4
<1>7. Within(p, <<0, Len(list)>>) = p
  BY DEF Within
<1> QED BY <1>1, <1>3, <1>5, <1>6, <1>7

-----------------------------------------------------------------------------
(* Timeouts: the invariant.                                                *)

\* The timer goes off at r in time for the callback cb, as the machine runs.
Meets(r, cb) == r <= awake \/ r <= cb.runAt

\* No two callbacks that wait, in the list or to run, are of one call.
KeysDiffer ==
  /\ \A i, j \in DOMAIN callbackList : callbackList[i].key = callbackList[j].key => i = j
  /\ \A i, j \in DOMAIN toRun : toRun[i].key = toRun[j].key => i = j
  /\ \A i \in DOMAIN callbackList, j \in DOMAIN toRun : callbackList[i].key # toRun[j].key

\* The types of all variables.
TimersTypes ==
  /\ now \in Nat /\ awake \in Nat /\ awake <= now
  /\ callbackList \in Seq(Callback) /\ toRun \in Seq(Callback)
  /\ realAt \in Nat \cup {NoRealTimer} /\ timeouts \in 0 .. MaxTimeouts
  /\ ranKeys \subseteq 1 .. timeouts /\ clearedKeys \subseteq 1 .. timeouts

\* Every callback that waits is of a call made, and has not run.
CallsMade ==
  /\ \A i \in DOMAIN callbackList : callbackList[i].key <= timeouts /\ callbackList[i].key \notin ranKeys
  /\ \A i \in DOMAIN toRun : toRun[i].key <= timeouts /\ toRun[i].key \notin ranKeys

\* While callbacks wait, the timer is set, in time for each.
TimerMeets ==
  callbackList # <<>> =>
    /\ realAt # NoRealTimer /\ realAt <= awake + TIMER_CHECK_PERIOD
    /\ \A i \in DOMAIN callbackList : Meets(realAt, callbackList[i])

\* The inductive invariant of the timeouts.
TimersInvariant == TimersTypes /\ CallsMade /\ KeysDiffer /\ TimerMeets /\ InOrder

\* A list in the order of deadlines and calls is in the order of deadlines.
LEMMA OrderSorts ==
  ASSUME TimersTypes, InOrder
  PROVE  Sorted(callbackList)
<1> SUFFICES ASSUME NEW i \in DOMAIN callbackList, NEW j \in DOMAIN callbackList, i < j
             PROVE  callbackList[i].runAt <= callbackList[j].runAt
  BY DEF Sorted
<1>1. callbackList[i].runAt \in Nat /\ callbackList[j].runAt \in Nat
  BY InList DEF TimersTypes
<1> QED BY <1>1 DEF InOrder

\* The greater of zero and a number.
LEMMA MaxWithZero == ASSUME NEW x \in Int PROVE Max({0, x}) = IF x > 0 THEN x ELSE 0
<1> DEFINE m == IF x > 0 THEN x ELSE 0
<1>1. m \in {0, x} /\ \A y \in {0, x} : m >= y
  OBVIOUS
<1>2. \A z \in {0, x} : (\A y \in {0, x} : z >= y) => z = m
  OBVIOUS
<1>3. Max({0, x}) = CHOOSE z \in {0, x} : \A y \in {0, x} : z >= y
  BY Zenon DEF Max
<1> HIDE DEF m
<1>4. Max({0, x}) = m
  BY <1>1, <1>2, <1>3
<1> QED BY <1>4 DEF m

\* The lesser of two numbers.
LEMMA MinOfTwo ==
  ASSUME NEW x \in Int, NEW y \in Int PROVE Min({x, y}) = IF x <= y THEN x ELSE y
<1> DEFINE m == IF x <= y THEN x ELSE y
<1>1. m \in {x, y} /\ \A a \in {x, y} : m <= a
  OBVIOUS
<1>2. \A z \in {x, y} : (\A a \in {x, y} : z <= a) => z = m
  OBVIOUS
<1>3. Min({x, y}) = CHOOSE z \in {x, y} : \A a \in {x, y} : z <= a
  BY Zenon DEF Min
<1> HIDE DEF m
<1>4. Min({x, y}) = m
  BY <1>1, <1>2, <1>3
<1> QED BY <1>4 DEF m

\* scheduleRealCallback sets the timer in time for every callback of a sorted list.
LEMMA ScheduleMeets ==
  ASSUME NEW list \in Seq(Callback), list # <<>>, Sorted(list),
         now \in Nat, awake \in Nat, awake <= now, NEW r, r = scheduleRealCallback(list)
  PROVE  /\ r \in Nat /\ r # NoRealTimer /\ r <= awake + TIMER_CHECK_PERIOD
         /\ \A i \in DOMAIN list : Meets(r, list[i])
<1> DEFINE first == Head(list).runAt
<1>1. 1 \in DOMAIN list /\ Head(list) = list[1]
  OBVIOUS
<1>2. first \in Nat
  BY <1>1, InList
<1>3. TIMER_CHECK_PERIOD \in Nat
  BY CallbacksAssumption
<1>4. Min({first - now, TIMER_CHECK_PERIOD}) =
        IF first - now <= TIMER_CHECK_PERIOD THEN first - now ELSE TIMER_CHECK_PERIOD
  BY <1>2, <1>3, MinOfTwo
<1>5. Min({first - now, TIMER_CHECK_PERIOD}) \in Int
  BY <1>2, <1>3, <1>4
<1>6. r = awake + Max({0, Min({first - now, TIMER_CHECK_PERIOD})})
  BY DEF scheduleRealCallback
<1>7. r = awake + (IF Min({first - now, TIMER_CHECK_PERIOD}) > 0
                   THEN Min({first - now, TIMER_CHECK_PERIOD}) ELSE 0)
  BY <1>5, <1>6, MaxWithZero
<1>8. r \in Nat /\ r <= awake + TIMER_CHECK_PERIOD /\ (r <= awake \/ r <= first)
  <2> HIDE DEF first
  <2> QED BY <1>2, <1>3, <1>4, <1>7
<1>9. ASSUME NEW i \in DOMAIN list PROVE Meets(r, list[i])
  <2>1. list[i].runAt \in Nat /\ first <= list[i].runAt
    BY <1>1, InList DEF Sorted
  <2> HIDE DEF first
  <2> QED BY <1>2, <1>8, <2>1 DEF Meets
<1> QED BY <1>8, <1>9 DEF NoRealTimer

\* So setting it anew for a sorted list keeps TimerMeets.
LEMMA Rescheduled ==
  ASSUME TimersTypes, callbackList' \in Seq(Callback), Sorted(callbackList'),
         awake' = awake, realAt' = scheduleRealCallback(callbackList')
  PROVE  TimerMeets' /\ realAt' \in Nat \cup {NoRealTimer}
<1>1. CASE callbackList' = <<>>
  BY <1>1 DEF TimerMeets, scheduleRealCallback
<1>2. CASE callbackList' # <<>>
  <2>1. PICK list \in Seq(Callback) : list = callbackList'
    OBVIOUS
  <2>2. PICK r : r = scheduleRealCallback(list)
    OBVIOUS
  <2>3. /\ r \in Nat /\ r # NoRealTimer /\ r <= awake + TIMER_CHECK_PERIOD
        /\ \A i \in DOMAIN list : Meets(r, list[i])
    <3>1. list # <<>> /\ Sorted(list)
      BY <1>2, <2>1
    <3> QED BY <2>2, <3>1, ScheduleMeets DEF TimersTypes
  <2>4. realAt' = r
    BY <2>1, <2>2 DEF scheduleRealCallback
  <2> QED BY <2>1, <2>3, <2>4 DEF TimerMeets, Meets
<1> QED BY <1>1, <1>2

\* The list with a callback more.
LEMMA Inserted ==
  ASSUME NEW s \in Seq(Callback), NEW e \in Callback, NEW at \in 0 .. Len(s)
  PROVE  LET t == InsertAt(s, at + 1, e) IN
         /\ t \in Seq(Callback) /\ Len(t) = Len(s) + 1
         /\ \A i \in 1 .. at : t[i] = s[i]
         /\ t[at + 1] = e
         /\ \A i \in at + 2 .. Len(s) + 1 : t[i] = s[i - 1]
<1> DEFINE a == SubSeq(s, 1, at)
           b == SubSeq(s, at + 1, Len(s))
           t == (a \o <<e>>) \o b
<1>1. a \in Seq(Callback) /\ Len(a) = at /\ \A i \in 1 .. at : a[i] = s[i]
  OBVIOUS
<1>2. /\ b \in Seq(Callback) /\ Len(b) = Len(s) - at
      /\ \A i \in 1 .. Len(s) - at : b[i] = s[at + i]
  OBVIOUS
<1>3. (at + 1) - 1 = at
  OBVIOUS
<1>4. InsertAt(s, at + 1, e) = t
  <2>1. InsertAt(s, at + 1, e) = SubSeq(s, 1, (at + 1) - 1) \o <<e>> \o SubSeq(s, at + 1, Len(s))
    BY Zenon DEF InsertAt
  <2> QED BY <1>3, <2>1, Zenon
<1> HIDE DEF a, b
<1>5. /\ a \o <<e>> \in Seq(Callback) /\ Len(a \o <<e>>) = at + 1
      /\ \A i \in 1 .. at : (a \o <<e>>)[i] = a[i]
      /\ (a \o <<e>>)[at + 1] = e
  BY <1>1
<1>6. t \in Seq(Callback) /\ Len(t) = Len(s) + 1
  <2>0. a \o <<e>> \in Seq(Callback) /\ b \in Seq(Callback)
    BY <1>2, <1>5
  <2>1. t \in Seq(Callback) /\ Len(t) = Len(a \o <<e>>) + Len(b)
    BY <2>0
  <2>2. Len(a \o <<e>>) = at + 1 /\ Len(b) = Len(s) - at
    BY <1>2, <1>5
  <2> HIDE DEF t
  <2> QED BY <2>1, <2>2
<1>7. \A i \in 1 .. at + 1 : t[i] = (a \o <<e>>)[i]
  BY <1>2, <1>5
<1>8. ASSUME NEW i \in at + 2 .. Len(s) + 1 PROVE t[i] = s[i - 1]
  <2>1. t[i] = b[i - (at + 1)]
    BY <1>2, <1>5
  <2>2. i - (at + 1) \in 1 .. Len(s) - at /\ at + (i - (at + 1)) = i - 1
    OBVIOUS
  <2> QED BY <1>2, <2>1, <2>2
<1>9. \A i \in 1 .. at : t[i] = s[i]
  BY <1>1, <1>5, <1>7
<1>10. t[at + 1] = e
  BY <1>5, <1>7
<1> HIDE DEF t
<1> QED BY <1>4, <1>6, <1>8, <1>9, <1>10

\* The list with a callback less.
LEMMA Removed ==
  ASSUME NEW s \in Seq(Callback), NEW at \in 1 .. Len(s)
  PROVE  LET t == RemoveAt(s, at) IN
         /\ t \in Seq(Callback) /\ Len(t) = Len(s) - 1
         /\ \A i \in 1 .. at - 1 : t[i] = s[i]
         /\ \A i \in at .. Len(s) - 1 : t[i] = s[i + 1]
<1> DEFINE a == SubSeq(s, 1, at - 1)
           b == SubSeq(s, at + 1, Len(s))
           t == a \o b
<1>1. a \in Seq(Callback) /\ Len(a) = at - 1 /\ \A i \in 1 .. at - 1 : a[i] = s[i]
  OBVIOUS
<1>2. /\ b \in Seq(Callback) /\ Len(b) = Len(s) - at
      /\ \A i \in 1 .. Len(s) - at : b[i] = s[at + i]
  OBVIOUS
<1>3. RemoveAt(s, at) = t
  BY DEF RemoveAt
<1> HIDE DEF a, b
<1>4. t \in Seq(Callback) /\ Len(t) = Len(s) - 1
  <2>0. a \in Seq(Callback) /\ b \in Seq(Callback)
    BY <1>1, <1>2
  <2>1. t \in Seq(Callback) /\ Len(t) = Len(a) + Len(b)
    BY <2>0
  <2>2. Len(a) = at - 1 /\ Len(b) = Len(s) - at
    BY <1>1, <1>2
  <2> HIDE DEF t
  <2> QED BY <2>1, <2>2
<1>5. \A i \in 1 .. at - 1 : t[i] = s[i]
  BY <1>1, <1>2
<1>6. ASSUME NEW i \in at .. Len(s) - 1 PROVE t[i] = s[i + 1]
  <2>1. t[i] = b[i - (at - 1)]
    BY <1>1, <1>2
  <2>2. i - (at - 1) \in 1 .. Len(s) - at /\ at + (i - (at - 1)) = i + 1
    OBVIOUS
  <2> QED BY <1>2, <2>1, <2>2
<1> HIDE DEF t
<1> QED BY <1>3, <1>4, <1>5, <1>6

\* A list whose callbacks are some of those of the list before, in their order,
\* is in order, and its callbacks wait as before.
LEMMA Thinned ==
  ASSUME TimersInvariant, callbackList' \in Seq(Callback),
         NEW f \in [1 .. Len(callbackList)' -> 1 .. Len(callbackList)],
         \A i, j \in DOMAIN f : i < j => f[i] < f[j],
         \A i \in DOMAIN f : callbackList'[i] = callbackList[f[i]]
  PROVE  /\ InOrder' /\ Sorted(callbackList')
         /\ \A i \in DOMAIN callbackList' :
              callbackList'[i].key <= timeouts /\ callbackList'[i].key \notin ranKeys
         /\ \A i, j \in DOMAIN callbackList' : callbackList'[i].key = callbackList'[j].key => i = j
<1>0. DOMAIN callbackList' = DOMAIN f /\ DOMAIN f \subseteq Nat
      /\ callbackList \in Seq(Callback) /\ \A i \in DOMAIN f : f[i] \in DOMAIN callbackList
  BY DEF TimersInvariant, TimersTypes
<1>1. ASSUME NEW i \in DOMAIN callbackList', NEW j \in DOMAIN callbackList', i < j
      PROVE  \/ callbackList'[i].runAt < callbackList'[j].runAt
             \/ callbackList'[i].runAt = callbackList'[j].runAt
                /\ callbackList'[i].key < callbackList'[j].key
  BY <1>0, <1>1 DEF TimersInvariant, InOrder
<1>2. Sorted(callbackList')
  <2> SUFFICES ASSUME NEW i \in DOMAIN callbackList', NEW j \in DOMAIN callbackList', i < j
               PROVE  callbackList'[i].runAt <= callbackList'[j].runAt
    BY DEF Sorted
  <2>1. callbackList[f[i]].runAt \in Nat /\ callbackList[f[j]].runAt \in Nat
    BY <1>0, InList
  <2> QED BY <1>0, <1>1, <2>1
<1>3. \A i \in DOMAIN callbackList' :
        callbackList'[i].key <= timeouts /\ callbackList'[i].key \notin ranKeys
  BY <1>0 DEF TimersInvariant, CallsMade
<1>4. ASSUME NEW i \in DOMAIN callbackList', NEW j \in DOMAIN callbackList',
             callbackList'[i].key = callbackList'[j].key
      PROVE  i = j
  <2>1. f[i] = f[j]
    BY <1>0, <1>4 DEF TimersInvariant, KeysDiffer
  <2>2. i \in Nat /\ j \in Nat /\ f[i] \in Nat /\ f[j] \in Nat
    BY <1>0
  <2> QED BY <1>0, <2>1, <2>2
<1> QED BY <1>1, <1>2, <1>3, <1>4 DEF InOrder

\* setTimeout.
LEMMA SetKeeps ==
  ASSUME TimersInvariant, NEW delay \in Delay, setTimeout(delay)
  PROVE  TimersInvariant'
<1> DEFINE cb == [key |-> timeouts + 1, runAt |-> now + delay]
<1>0. /\ TimersTypes /\ CallsMade /\ KeysDiffer /\ InOrder
      /\ callbackList \in Seq(Callback) /\ timeouts \in Nat /\ MaxTimeouts \in Nat
      /\ timeouts < MaxTimeouts /\ timeouts' = timeouts + 1
  BY CallbacksAssumption DEF TimersInvariant, TimersTypes, setTimeout
<1>1. cb \in Callback /\ cb.key = timeouts + 1 /\ cb.runAt = now + delay /\ now + delay \in Nat
  BY <1>0, CallbacksAssumption DEF TimersTypes, Callback
<1>2. PICK at : at = binarySearch(callbackList, cb.runAt)
  OBVIOUS
<1>3. Divides(callbackList, cb.runAt, at)
  BY <1>0, <1>1, <1>2, OrderSorts, SearchDivides
<1>4. PICK t : t = InsertAt(callbackList, at + 1, cb)
  OBVIOUS
<1>5. callbackList' = t /\ realAt' = scheduleRealCallback(callbackList')
      /\ now' = now /\ awake' = awake /\ toRun' = toRun /\ ranKeys' = ranKeys
      /\ clearedKeys' = clearedKeys
  BY <1>2, <1>4 DEF setTimeout
<1> HIDE DEF cb
<1>6. at \in 0 .. Len(callbackList)
      /\ (\A i \in 1 .. at : callbackList[i].runAt <= cb.runAt)
      /\ \A i \in at + 1 .. Len(callbackList) : callbackList[i].runAt > cb.runAt
  BY <1>3 DEF Divides
<1>7. /\ t \in Seq(Callback) /\ Len(t) = Len(callbackList) + 1
      /\ \A i \in 1 .. at : t[i] = callbackList[i]
      /\ t[at + 1] = cb
      /\ \A i \in at + 2 .. Len(callbackList) + 1 : t[i] = callbackList[i - 1]
  BY <1>0, <1>1, <1>4, <1>6, Inserted
<1>8. ASSUME NEW i \in DOMAIN t
      PROVE  \/ i <= at /\ i \in DOMAIN callbackList /\ t[i] = callbackList[i]
             \/ i = at + 1 /\ t[i] = cb
             \/ i > at + 1 /\ i - 1 \in DOMAIN callbackList /\ t[i] = callbackList[i - 1]
  <2>1. i \in 1 .. Len(callbackList) + 1
    BY <1>7
  <2>2. CASE i <= at
    BY <1>6, <1>7, <2>1, <2>2
  <2>3. CASE i = at + 1
    BY <1>7, <2>3
  <2>4. CASE i > at + 1
    BY <1>6, <1>7, <2>1, <2>4
  <2> QED BY <1>6, <2>1, <2>2, <2>3, <2>4
<1>9. DOMAIN t \subseteq Nat /\ at \in Nat
  BY <1>6, <1>7
<1>10. \A k \in DOMAIN callbackList :
         /\ callbackList[k].key \in Nat /\ callbackList[k].runAt \in Nat
         /\ callbackList[k].key <= timeouts /\ callbackList[k].key \notin ranKeys
         /\ k \in Nat
         /\ k <= at => callbackList[k].runAt <= cb.runAt
         /\ k > at => callbackList[k].runAt > cb.runAt
  BY <1>0, <1>6, InList DEF CallsMade
<1>11. ASSUME NEW i \in DOMAIN t, NEW j \in DOMAIN t, i < j
       PROVE  \/ t[i].runAt < t[j].runAt
              \/ t[i].runAt = t[j].runAt /\ t[i].key < t[j].key
  <2>0. i \in Nat /\ j \in Nat
    BY <1>9
  <2>6. \A k, l \in DOMAIN callbackList : k < l =>
          \/ callbackList[k].runAt < callbackList[l].runAt
          \/ callbackList[k].runAt = callbackList[l].runAt /\ callbackList[k].key < callbackList[l].key
    BY <1>0 DEF InOrder
  <2>1. CASE j <= at
    <3>1. t[i] = callbackList[i] /\ t[j] = callbackList[j]
          /\ i \in DOMAIN callbackList /\ j \in DOMAIN callbackList
      BY <1>8, <1>9, <1>11, <2>0, <2>1
    <3>2. \/ callbackList[i].runAt < callbackList[j].runAt
          \/ callbackList[i].runAt = callbackList[j].runAt /\ callbackList[i].key < callbackList[j].key
      BY <1>11, <2>6, <3>1
    <3> QED BY <3>1, <3>2
  <2>2. CASE j = at + 1
    <3>1. t[i] = callbackList[i] /\ t[j] = cb /\ i \in DOMAIN callbackList /\ i <= at
      BY <1>8, <1>9, <1>11, <2>0, <2>2
    <3> QED BY <1>0, <1>1, <1>10, <3>1
  <2>3. CASE i = at + 1
    <3>0. PICK l : l = j - 1
      OBVIOUS
    <3>1. t[i] = cb /\ t[j] = callbackList[l] /\ l \in DOMAIN callbackList /\ l > at
      BY <1>8, <1>9, <1>11, <2>0, <2>3, <3>0
    <3>2. callbackList[l].runAt > cb.runAt
      BY <1>10, <3>1
    <3>3. t[i].runAt < t[j].runAt
      BY <3>1, <3>2
    <3> QED BY <3>3
  <2>4. CASE j > at + 1 /\ i <= at
    <3>0. PICK l : l = j - 1
      OBVIOUS
    <3>1. t[i] = callbackList[i] /\ t[j] = callbackList[l]
          /\ i \in DOMAIN callbackList /\ l \in DOMAIN callbackList /\ i < l
      BY <1>8, <1>9, <1>11, <2>0, <2>4, <3>0
    <3>2. \/ callbackList[i].runAt < callbackList[l].runAt
          \/ callbackList[i].runAt = callbackList[l].runAt /\ callbackList[i].key < callbackList[l].key
      BY <2>6, <3>1
    <3> QED BY <3>1, <3>2
  <2>5. CASE i > at + 1
    <3>0. PICK k, l : k = i - 1 /\ l = j - 1
      OBVIOUS
    <3>1. t[i] = callbackList[k] /\ t[j] = callbackList[l]
          /\ k \in DOMAIN callbackList /\ l \in DOMAIN callbackList /\ k < l
      BY <1>8, <1>9, <1>11, <2>0, <2>5, <3>0
    <3>2. \/ callbackList[k].runAt < callbackList[l].runAt
          \/ callbackList[k].runAt = callbackList[l].runAt /\ callbackList[k].key < callbackList[l].key
      BY <2>6, <3>1
    <3> QED BY <3>1, <3>2
  <2> QED BY <1>9, <1>11, <2>0, <2>1, <2>2, <2>3, <2>4, <2>5
<1>12. InOrder'
  BY <1>5, <1>11 DEF InOrder
<1>13. TimersTypes' /\ TimerMeets'
  <2>1. Sorted(callbackList')
    <3>1. ASSUME NEW i \in DOMAIN t, NEW j \in DOMAIN t, i < j PROVE t[i].runAt <= t[j].runAt
      <4>1. t[i].runAt \in Nat /\ t[j].runAt \in Nat
        BY <1>7, InList
      <4> QED BY <1>11, <3>1, <4>1
    <3> QED BY <1>5, <3>1 DEF Sorted
  <2>2. TimerMeets' /\ realAt' \in Nat \cup {NoRealTimer}
    BY <1>0, <1>5, <1>7, <2>1, Rescheduled
  <2> QED BY <1>0, <1>5, <1>7, <2>2 DEF TimersTypes
<1>14. CallsMade'
  <2>0. TimersTypes
    BY <1>0
  <2>1. \A i \in DOMAIN t : t[i].key <= timeouts + 1 /\ t[i].key \notin ranKeys
    <3>1. timeouts + 1 \notin ranKeys
      BY <1>0 DEF TimersTypes
    <3> QED BY <1>0, <1>1, <1>8, <1>10, <3>1
  <2>2. \A i \in DOMAIN toRun : toRun[i].key <= timeouts + 1 /\ toRun[i].key \notin ranKeys
    <3>1. \A i \in DOMAIN toRun : toRun[i].key \in Nat
      BY <1>0, InList DEF TimersTypes
    <3> QED BY <1>0, <3>1 DEF CallsMade
  <2> QED BY <1>0, <1>5, <2>1, <2>2 DEF CallsMade
<1>15. KeysDiffer'
  <2>1. ASSUME NEW i \in DOMAIN t, NEW j \in DOMAIN t, t[i].key = t[j].key PROVE i = j
    <3>1. t[i].key \in Nat /\ t[j].key \in Nat /\ t[i].runAt \in Nat /\ t[j].runAt \in Nat
      BY <1>7, InList
    <3>2. CASE i = at + 1
      BY <1>0, <1>1, <1>8, <1>9, <1>10, <2>1, <3>2
    <3>3. CASE j = at + 1
      BY <1>0, <1>1, <1>8, <1>9, <1>10, <2>1, <3>3
    <3>4. CASE i # at + 1 /\ j # at + 1
      <4>1. PICK k \in DOMAIN callbackList :
              t[i] = callbackList[k] /\ k = IF i <= at THEN i ELSE i - 1
        BY <1>8, <1>9, <3>4
      <4>2. PICK l \in DOMAIN callbackList :
              t[j] = callbackList[l] /\ l = IF j <= at THEN j ELSE j - 1
        BY <1>8, <1>9, <3>4
      <4>3. k = l
        BY <1>0, <2>1, <4>1, <4>2 DEF KeysDiffer
      <4>4. i \in Nat /\ j \in Nat
        BY <1>9
      <4> QED BY <1>9, <3>4, <4>1, <4>2, <4>3, <4>4
    <3> QED BY <3>2, <3>3, <3>4
  <2>2. ASSUME NEW i \in DOMAIN t, NEW j \in DOMAIN toRun PROVE t[i].key # toRun[j].key
    <3>1. toRun[j].key \in Nat /\ toRun[j].key <= timeouts
      BY <1>0, InList DEF TimersTypes, CallsMade
    <3>2. \A k \in DOMAIN callbackList : callbackList[k].key # toRun[j].key
      BY <1>0 DEF KeysDiffer
    <3> QED BY <1>0, <1>1, <1>8, <3>1, <3>2
  <2> QED BY <1>0, <1>5, <2>1, <2>2 DEF KeysDiffer
<1> QED BY <1>12, <1>13, <1>14, <1>15 DEF TimersInvariant

\* clearTimeout: the callback is taken out, and the timer set anew if it was first.
LEMMA ClearKeeps ==
  ASSUME TimersInvariant, NEW key \in 1 .. MaxTimeouts, clearTimeout(key)
  PROVE  TimersInvariant'
<1> DEFINE places == {i \in DOMAIN callbackList : callbackList[i].key = key}
<1>0. /\ TimersTypes /\ CallsMade /\ KeysDiffer /\ InOrder /\ TimerMeets
      /\ callbackList \in Seq(Callback) /\ timeouts \in Nat
      /\ now' = now /\ awake' = awake /\ toRun' = toRun /\ timeouts' = timeouts
      /\ ranKeys' = ranKeys /\ clearedKeys' = clearedKeys \cup {key} /\ key \in 1 .. timeouts
      /\ callbackList' = IF places = {} THEN callbackList ELSE RemoveAt(callbackList, Min(places))
      /\ realAt' = IF 1 \in places THEN scheduleRealCallback(callbackList') ELSE realAt
  BY DEF TimersInvariant, TimersTypes, clearTimeout
<1>1. CASE places = {}
  <2>1. callbackList' = callbackList /\ realAt' = realAt
    <3> HIDE DEF places
    <3> QED BY <1>0, <1>1
  <2>2. TimersTypes'
    BY <1>0, <2>1 DEF TimersTypes
  <2>3. CallsMade' /\ KeysDiffer' /\ InOrder'
    <3>1. toRun' = toRun /\ timeouts' = timeouts /\ ranKeys' = ranKeys
      BY <1>0
    <3>2. CallsMade'
      BY <1>0, <2>1, <3>1 DEF CallsMade
    <3>3. KeysDiffer'
      BY <1>0, <2>1, <3>1 DEF KeysDiffer
    <3>4. InOrder'
      BY <1>0, <2>1 DEF InOrder
    <3> QED BY <3>2, <3>3, <3>4
  <2>4. TimerMeets'
    BY <1>0, <2>1 DEF TimerMeets, Meets
  <2> QED BY <2>2, <2>3, <2>4 DEF TimersInvariant
<1>2. CASE places # {}
  <2>1. PICK at \in DOMAIN callbackList : callbackList[at].key = key /\ places = {at}
    <3>1. PICK i \in places : TRUE
      BY <1>2
    <3>2. \A j \in places : j = i
      BY <1>0 DEF KeysDiffer
    <3>3. places = {i}
      BY <3>1, <3>2
    <3> QED BY <3>1, <3>3
  <2>2. Min(places) = at
    <3>1. at \in Nat
      BY <1>0, <2>1
    <3>2. Min({at}) = at
      BY <3>1, {at} = {at, at}, MinOfTwo
    <3> HIDE DEF places
    <3> QED BY <2>1, <3>2
  <2>3. PICK t : t = RemoveAt(callbackList, at)
    OBVIOUS
  <2>4. callbackList' = t /\ realAt' = IF at = 1 THEN scheduleRealCallback(callbackList') ELSE realAt
    <3> HIDE DEF places
    <3> QED BY <1>0, <1>2, <2>1, <2>2, <2>3
  <2>5. at \in 1 .. Len(callbackList)
    BY <1>0
  <2>6. /\ t \in Seq(Callback) /\ Len(t) = Len(callbackList) - 1
        /\ \A i \in 1 .. at - 1 : t[i] = callbackList[i]
        /\ \A i \in at .. Len(callbackList) - 1 : t[i] = callbackList[i + 1]
    BY <1>0, <2>3, <2>5, Removed
  <2> HIDE DEF places
  <2> DEFINE f == [i \in 1 .. Len(t) |-> IF i < at THEN i ELSE i + 1]
  <2>7. /\ f \in [1 .. Len(t) -> 1 .. Len(callbackList)]
        /\ \A i, j \in DOMAIN f : i < j => f[i] < f[j]
        /\ \A i \in DOMAIN f : f[i] # at
    BY <2>5, <2>6
  <2>8. ASSUME NEW i \in DOMAIN f PROVE t[i] = callbackList[f[i]]
    <3>1. i \in 1 .. Len(callbackList) - 1
      BY <2>6
    <3>2. CASE i < at
      BY <2>5, <2>6, <3>1, <3>2
    <3>3. CASE i >= at
      BY <2>5, <2>6, <3>1, <3>3
    <3> QED BY <2>5, <3>1, <3>2, <3>3
  <2> HIDE DEF f
  <2>9. PICK g : g = f
    OBVIOUS
  <2>10. /\ InOrder' /\ Sorted(callbackList')
         /\ \A i \in DOMAIN callbackList' :
              callbackList'[i].key <= timeouts /\ callbackList'[i].key \notin ranKeys
         /\ \A i, j \in DOMAIN callbackList' : callbackList'[i].key = callbackList'[j].key => i = j
    <3>1. /\ g \in [1 .. Len(callbackList)' -> 1 .. Len(callbackList)]
          /\ \A i, j \in DOMAIN g : i < j => g[i] < g[j]
          /\ \A i \in DOMAIN g : callbackList'[i] = callbackList[g[i]]
          /\ callbackList' \in Seq(Callback)
      BY <2>4, <2>6, <2>7, <2>8, <2>9
    <3> QED BY <3>1, Thinned
  <2>11. DOMAIN t = DOMAIN f /\ \A i \in DOMAIN t : f[i] \in DOMAIN callbackList
    BY <1>0, <2>6, <2>7
  <2>12. TimerMeets' /\ realAt' \in Nat \cup {NoRealTimer}
    <3>1. CASE at = 1
      BY <1>0, <2>4, <2>6, <2>10, <3>1, Rescheduled
    <3>2. CASE at # 1
      <4>1. realAt' = realAt
        BY <2>4, <3>2
      <4>2. callbackList # <<>>
        BY <1>0, <2>1
      <4> QED BY <1>0, <2>4, <2>8, <2>11, <4>1, <4>2 DEF TimerMeets, Meets, TimersTypes
    <3> QED BY <3>1, <3>2
  <2>13. TimersTypes'
    BY <1>0, <2>4, <2>6, <2>12 DEF TimersTypes
  <2>14. CallsMade'
    BY <1>0, <2>10 DEF CallsMade
  <2>15. KeysDiffer'
    <3>1. ASSUME NEW i \in DOMAIN t, NEW j \in DOMAIN toRun PROVE t[i].key # toRun[j].key
      BY <1>0, <2>8, <2>11 DEF KeysDiffer
    <3> QED BY <1>0, <2>4, <2>10, <3>1 DEF KeysDiffer
  <2> QED BY <2>10, <2>12, <2>13, <2>14, <2>15 DEF TimersInvariant
<1> QED BY <1>1, <1>2

\* runCallbacks: what is due is taken off, and the timer set anew.
LEMMA RunKeeps ==
  ASSUME TimersInvariant, runCallbacks
  PROVE  TimersInvariant'
<1>0. /\ TimersTypes /\ CallsMade /\ KeysDiffer /\ InOrder
      /\ callbackList \in Seq(Callback) /\ timeouts \in Nat
      /\ now' = now /\ awake' = awake /\ timeouts' = timeouts /\ ranKeys' = ranKeys
      /\ clearedKeys' = clearedKeys /\ realAt' = scheduleRealCallback(callbackList')
  BY DEF TimersInvariant, TimersTypes, runCallbacks
<1>1. PICK n \in 0 .. Len(callbackList) :
         /\ toRun' = SubSeq(callbackList, 1, n)
         /\ callbackList' = SubSeq(callbackList, n + 1, Len(callbackList))
  BY DEF runCallbacks
<1>2. /\ toRun' \in Seq(Callback) /\ Len(toRun') = n
      /\ \A i \in 1 .. n : toRun'[i] = callbackList[i]
  BY <1>0, <1>1
<1>3. /\ callbackList' \in Seq(Callback) /\ Len(callbackList') = Len(callbackList) - n
      /\ \A i \in 1 .. Len(callbackList) - n : callbackList'[i] = callbackList[n + i]
  BY <1>0, <1>1
<1> DEFINE f == [i \in 1 .. Len(callbackList) - n |-> n + i]
<1>4. /\ f \in [1 .. Len(callbackList) - n -> 1 .. Len(callbackList)]
      /\ \A i, j \in DOMAIN f : i < j => f[i] < f[j]
      /\ \A i \in DOMAIN f : n < f[i] /\ f[i] \in DOMAIN callbackList
  BY <1>0
<1>5. \A i \in DOMAIN f : callbackList'[i] = callbackList[f[i]]
  BY <1>3
<1> HIDE DEF f
<1>6. PICK g : g = f
  OBVIOUS
<1>7. /\ InOrder' /\ Sorted(callbackList')
      /\ \A i \in DOMAIN callbackList' :
           callbackList'[i].key <= timeouts /\ callbackList'[i].key \notin ranKeys
      /\ \A i, j \in DOMAIN callbackList' : callbackList'[i].key = callbackList'[j].key => i = j
  <2>1. /\ g \in [1 .. Len(callbackList)' -> 1 .. Len(callbackList)]
        /\ \A i, j \in DOMAIN g : i < j => g[i] < g[j]
        /\ \A i \in DOMAIN g : callbackList'[i] = callbackList[g[i]]
    BY <1>3, <1>4, <1>5, <1>6
  <2> QED BY <1>3, <2>1, Thinned
<1>8. TimerMeets' /\ realAt' \in Nat \cup {NoRealTimer}
  BY <1>0, <1>3, <1>7, Rescheduled
<1>9. TimersTypes'
  BY <1>0, <1>2, <1>3, <1>8 DEF TimersTypes
<1>10. DOMAIN toRun' = 1 .. n /\ \A i \in 1 .. n : i \in DOMAIN callbackList
  BY <1>0, <1>2
<1>11. CallsMade'
  BY <1>0, <1>2, <1>7, <1>10 DEF CallsMade
<1>12. KeysDiffer'
  <2>1. \A i, j \in DOMAIN toRun' : toRun'[i].key = toRun'[j].key => i = j
    BY <1>0, <1>2, <1>10 DEF KeysDiffer
  <2>2. ASSUME NEW i \in DOMAIN callbackList', NEW j \in DOMAIN toRun'
        PROVE  callbackList'[i].key # toRun'[j].key
    <3>1. i \in DOMAIN f /\ j \in 1 .. n
      BY <1>3, <1>4, <1>10
    <3>2. callbackList'[i] = callbackList[f[i]] /\ toRun'[j] = callbackList[j]
          /\ f[i] \in DOMAIN callbackList /\ j \in DOMAIN callbackList /\ n < f[i]
      BY <1>2, <1>4, <1>5, <1>10, <3>1
    <3>3. f[i] # j
      BY <1>0, <3>1, <3>2
    <3> QED BY <1>0, <3>2, <3>3 DEF KeysDiffer
  <2> QED BY <1>7, <2>1, <2>2 DEF KeysDiffer
<1> QED BY <1>7, <1>8, <1>9, <1>11, <1>12 DEF TimersInvariant

\* callbackRuns: the first of those taken off runs.
LEMMA RanKeeps ==
  ASSUME TimersInvariant, callbackRuns
  PROVE  TimersInvariant'
<1>0. /\ TimersTypes /\ CallsMade /\ KeysDiffer /\ InOrder /\ TimerMeets
      /\ toRun \in Seq(Callback) /\ toRun # <<>> /\ toRun' = Tail(toRun)
      /\ ranKeys' = ranKeys \cup {toRun[1].key} /\ timeouts' = timeouts
      /\ now' = now /\ awake' = awake /\ callbackList' = callbackList
      /\ realAt' = realAt /\ clearedKeys' = clearedKeys
  BY DEF TimersInvariant, TimersTypes, callbackRuns
<1>1. 1 \in DOMAIN toRun /\ toRun[1].key \in 1 .. timeouts
  <2>1. 1 \in DOMAIN toRun
    BY <1>0
  <2>2. toRun[1].key \in 1 .. MaxTimeouts /\ toRun[1].key <= timeouts
    BY <1>0, <2>1, InList DEF CallsMade
  <2>3. timeouts \in Nat
    BY <1>0 DEF TimersTypes
  <2> QED BY <2>1, <2>2, <2>3
<1>2. toRun' \in Seq(Callback) /\ Len(toRun') = Len(toRun) - 1
  BY <1>0
<1>3. ASSUME NEW i \in DOMAIN toRun'
      PROVE  toRun'[i] = toRun[i + 1] /\ i + 1 \in DOMAIN toRun /\ i \in Nat /\ i + 1 # 1
  BY <1>0, <1>2
<1>4. TimersTypes'
  BY <1>0, <1>1, <1>2 DEF TimersTypes
<1>5. CallsMade'
  <2>1. ASSUME NEW i \in DOMAIN callbackList
        PROVE  callbackList[i].key <= timeouts /\ callbackList[i].key \notin ranKeys'
    BY <1>0, <1>1 DEF CallsMade, KeysDiffer
  <2>2. ASSUME NEW i \in DOMAIN toRun'
        PROVE  toRun'[i].key <= timeouts /\ toRun'[i].key \notin ranKeys'
    <3>1. PICK j \in DOMAIN toRun : toRun'[i] = toRun[j] /\ j # 1
      BY <1>3
    <3>2. toRun[j].key <= timeouts /\ toRun[j].key \notin ranKeys /\ toRun[j].key # toRun[1].key
      BY <1>0, <1>1, <3>1 DEF CallsMade, KeysDiffer
    <3> QED BY <1>0, <3>1, <3>2
  <2> QED BY <1>0, <2>1, <2>2 DEF CallsMade
<1>6. KeysDiffer'
  <2>1. ASSUME NEW i \in DOMAIN toRun', NEW j \in DOMAIN toRun', toRun'[i].key = toRun'[j].key
        PROVE  i = j
    <3>1. PICK k, l \in DOMAIN toRun :
            k = i + 1 /\ l = j + 1 /\ toRun'[i] = toRun[k] /\ toRun'[j] = toRun[l]
      BY <1>3
    <3>2. k = l
      BY <1>0, <2>1, <3>1 DEF KeysDiffer
    <3> QED BY <1>3, <3>1, <3>2
  <2>2. ASSUME NEW i \in DOMAIN callbackList, NEW j \in DOMAIN toRun'
        PROVE  callbackList[i].key # toRun'[j].key
    BY <1>0, <1>3 DEF KeysDiffer
  <2> QED BY <1>0, <2>1, <2>2 DEF KeysDiffer
<1>7. TimerMeets' /\ InOrder'
  BY <1>0 DEF TimerMeets, Meets, InOrder
<1> QED BY <1>4, <1>5, <1>6, <1>7 DEF TimersInvariant

\* Time passes only before the timer is due.
LEMMA TimeKeeps ==
  ASSUME TimersInvariant, timePasses \/ systemSuspended
  PROVE  TimersInvariant'
<1>0. /\ TimersTypes /\ CallsMade /\ KeysDiffer /\ InOrder /\ TimerMeets
      /\ callbackList \in Seq(Callback) /\ now \in Nat /\ awake \in Nat
      /\ realAt \in Nat \cup {NoRealTimer} /\ toRun' = toRun
      /\ ranKeys' = ranKeys /\ clearedKeys' = clearedKeys /\ timeouts' = timeouts
      /\ callbackList' = callbackList /\ realAt' = realAt
      /\ now' = now + 1 /\ awake <= now
      /\ \/ awake' = awake
         \/ awake' = awake + 1 /\ ~(realAt # NoRealTimer /\ awake >= realAt)
  BY DEF TimersInvariant, TimersTypes, timePasses, systemSuspended
<1>1. TimersTypes'
  BY <1>0 DEF TimersTypes
<1>2. CallsMade' /\ KeysDiffer' /\ InOrder'
  BY <1>0 DEF CallsMade, KeysDiffer, InOrder
<1>3. TimerMeets'
  <2> SUFFICES ASSUME callbackList # <<>>
               PROVE  /\ realAt # NoRealTimer /\ realAt <= awake' + TIMER_CHECK_PERIOD
                      /\ \A i \in DOMAIN callbackList :
                           realAt <= awake' \/ realAt <= callbackList[i].runAt
    BY <1>0 DEF TimerMeets, Meets
  <2>1. /\ realAt # NoRealTimer /\ realAt <= awake + TIMER_CHECK_PERIOD
        /\ \A i \in DOMAIN callbackList : realAt <= awake \/ realAt <= callbackList[i].runAt
    BY <1>0 DEF TimerMeets, Meets
  <2>2. TIMER_CHECK_PERIOD \in Nat /\ realAt \in Nat
    BY <1>0, <2>1, CallbacksAssumption
  <2>3. realAt <= awake' + TIMER_CHECK_PERIOD
    BY <1>0, <2>1, <2>2
  <2>4. \A i \in DOMAIN callbackList : realAt <= awake' \/ realAt <= callbackList[i].runAt
    BY <1>0, <2>1, <2>2
  <2> QED BY <2>1, <2>3, <2>4
<1> QED BY <1>1, <1>2, <1>3 DEF TimersInvariant

\* TimersInvariant holds in every state.
LEMMA TimersInvariantHolds == CallbacksSpec => []TimersInvariant
<1>1. CallbacksInit => TimersInvariant
  BY CallbacksAssumption DEF CallbacksInit, TimersInvariant, TimersTypes, CallsMade, KeysDiffer,
     TimerMeets, InOrder, NoRealTimer
<1>2. TimersInvariant /\ [CallbacksNext]_timerVars => TimersInvariant'
  <2> SUFFICES ASSUME TimersInvariant, [CallbacksNext]_timerVars PROVE TimersInvariant'
    OBVIOUS
  <2>1. ASSUME NEW delay \in Delay, setTimeout(delay) PROVE TimersInvariant'
    BY <2>1, SetKeeps
  <2>2. ASSUME NEW key \in 1 .. MaxTimeouts, clearTimeout(key) PROVE TimersInvariant'
    BY <2>2, ClearKeeps
  <2>3. CASE runCallbacks
    BY <2>3, RunKeeps
  <2>4. CASE callbackRuns
    BY <2>4, RanKeeps
  <2>5. CASE timePasses \/ systemSuspended
    BY <2>5, TimeKeeps
  <2>6. CASE UNCHANGED timerVars
    BY <2>6 DEF timerVars, TimersInvariant, TimersTypes, CallsMade, KeysDiffer, TimerMeets,
       Meets, InOrder
  <2> QED BY <2>1, <2>2, <2>3, <2>4, <2>5, <2>6 DEF CallbacksNext
<1> QED BY <1>1, <1>2, PTL DEF CallbacksSpec

\* The invariant says what TimersAreKept does.
LEMMA InvariantKeepsTimers == TimersInvariant => TimersAreKept
<1> SUFFICES ASSUME TimersInvariant PROVE TimersAreKept
  OBVIOUS
<1>0. /\ TimersTypes /\ CallsMade /\ InOrder /\ TimerMeets
      /\ callbackList \in Seq(Callback) /\ toRun \in Seq(Callback)
  BY DEF TimersInvariant, TimersTypes
<1>1. /\ \A cb \in Range(callbackList) : \E i \in DOMAIN callbackList : cb = callbackList[i]
      /\ \A cb \in Range(toRun) : \E i \in DOMAIN toRun : cb = toRun[i]
  BY Zenon DEF Range
<1>2. CallbacksTypeOK
  <2>1. Range(callbackList) \cup Range(toRun) \subseteq Callback
    BY <1>0, <1>1, InList
  <2> QED BY <1>0, <2>1 DEF CallbacksTypeOK, TimersTypes
<1>3. TimerIsSet
  <2> SUFFICES ASSUME callbackList # <<>>
               PROVE  /\ realAt # NoRealTimer /\ realAt <= awake + TIMER_CHECK_PERIOD
                      /\ \A cb \in Range(callbackList) :
                           realAt - awake <= Max({0, cb.runAt - awake})
    BY DEF TimerIsSet
  <2>1. realAt # NoRealTimer /\ realAt <= awake + TIMER_CHECK_PERIOD
        /\ realAt \in Nat /\ awake \in Nat
    BY <1>0 DEF TimerMeets, TimersTypes
  <2>2. ASSUME NEW cb \in Range(callbackList)
        PROVE  realAt - awake <= Max({0, cb.runAt - awake})
    <3>1. PICK i \in DOMAIN callbackList : cb = callbackList[i]
      BY <1>1
    <3>2. cb.runAt \in Nat /\ (realAt <= awake \/ realAt <= cb.runAt)
      BY <1>0, <3>1, InList DEF TimerMeets, Meets
    <3>3. cb.runAt - awake \in Int
      BY <2>1, <3>2
    <3>4. Max({0, cb.runAt - awake}) = IF cb.runAt - awake > 0 THEN cb.runAt - awake ELSE 0
      BY <3>3, MaxWithZero
    <3> QED BY <2>1, <3>2, <3>4
  <2> QED BY <2>1, <2>2
<1>4. RunsOnce
  BY <1>0, <1>1 DEF RunsOnce, CallsMade
<1> QED BY <1>0, <1>2, <1>3, <1>4 DEF TimersAreKept

\* However setTimeout, clearTimeout, the timer and suspensions interleave, the
\* platform's timer goes off in time for every callback, the list stays in the
\* order of deadlines and calls, and no callback that has run is kept.
THEOREM TimersKept == CallbacksSpec => []TimersAreKept
BY TimersInvariantHolds, InvariantKeepsTimers, PTL

-----------------------------------------------------------------------------
(* Saved sync: the room's events and the positions of entries.             *)

\* Numbers up to p have a least one.
LEMMA Least ==
  ASSUME NEW p \in Nat, NEW ks, ks \subseteq 1 .. p, ks # {}
  PROVE  \E k \in ks : \A j \in ks : k <= j
<1> DEFINE T == {p + 1 - k : k \in ks}
<1>1. T \subseteq 1 .. p /\ T # {}
  <2>1. \A k \in ks : p + 1 - k \in 1 .. p
    OBVIOUS
  <2>2. PICK k \in ks : p + 1 - k \in T
    OBVIOUS
  <2> QED BY <2>1, <2>2
<1>2. PICK z \in T : \A j \in T : j <= z
  <2> HIDE DEF T
  <2> QED BY <1>1, Greatest
<1>3. PICK k \in ks : z = p + 1 - k
  OBVIOUS
<1>4. ASSUME NEW j \in ks PROVE k <= j
  <2>1. p + 1 - j \in T
    OBVIOUS
  <2> HIDE DEF T
  <2> QED BY <1>2, <1>3, <2>1
<1> QED BY <1>4

\* What holds of zero and of each next number holds of all.
LEMMA UpFromZero ==
  ASSUME NEW n \in Nat, NEW T, 0 \in T, \A k \in 0 .. n : k \in T /\ k < n => k + 1 \in T
  PROVE  n \in T
<1> SUFFICES ASSUME n \notin T PROVE FALSE
  OBVIOUS
<1> DEFINE ks == {k \in 1 .. n : k \notin T}
<1>1. n \in ks
  OBVIOUS
<1>2. PICK k \in ks : \A j \in ks : k <= j
  <2>1. ks \subseteq 1 .. n /\ ks # {}
    BY <1>1
  <2> HIDE DEF ks
  <2> QED BY <2>1, Least
<1>3. k - 1 \in T
  <2>1. CASE k = 1
    BY <2>1
  <2>2. CASE k # 1
    BY <1>2, <2>2
  <2> QED BY <2>1, <2>2
<1>4. k - 1 \in 0 .. n /\ k - 1 < n /\ (k - 1) + 1 = k
  OBVIOUS
<1> QED BY <1>3, <1>4

\* The sequence s lists, in their order, the room's events after position a up to b.
ListsRoom(s, a, b) ==
  /\ s \in Seq(Nat)
  /\ \A i, j \in DOMAIN s : i < j => s[i] < s[j]
  /\ \A i \in DOMAIN s : s[i] \in a + 1 .. b /\ IsRoom(s[i])
  /\ \A k \in a + 1 .. b : IsRoom(k) => \E i \in DOMAIN s : s[i] = k

\* There is one such list only.
LEMMA OneList ==
  ASSUME NEW a \in Nat, NEW b \in Nat, NEW s, NEW t, ListsRoom(s, a, b), ListsRoom(t, a, b)
  PROVE  s = t
<1>0. /\ s \in Seq(Nat) /\ t \in Seq(Nat) /\ Len(s) \in Nat /\ Len(t) \in Nat
      /\ \A i \in DOMAIN s : i \in Nat /\ s[i] \in Nat
      /\ \A i \in DOMAIN t : i \in Nat /\ t[i] \in Nat
      /\ \A i, j \in DOMAIN s : i < j => s[i] < s[j]
      /\ \A i, j \in DOMAIN t : i < j => t[i] < t[j]
  BY DEF ListsRoom
<1>1. \A i \in DOMAIN s : \E j \in DOMAIN t : t[j] = s[i]
  BY DEF ListsRoom
<1>2. \A i \in DOMAIN t : \E j \in DOMAIN s : s[j] = t[i]
  BY DEF ListsRoom
<1> DEFINE Same == {n \in 0 .. Len(s) : n <= Len(t) /\ \A i \in 1 .. n : s[i] = t[i]}
<1>3. Len(s) \in Same
  <2>1. 0 \in Same
    BY <1>0
  <2>2. ASSUME NEW n \in 0 .. Len(s), n \in Same, n < Len(s) PROVE n + 1 \in Same
    <3>1. n + 1 \in DOMAIN s /\ n <= Len(t) /\ \A i \in 1 .. n : s[i] = t[i] /\ i \in DOMAIN s
      BY <1>0, <2>2
    <3>2. PICK j \in DOMAIN t : t[j] = s[n + 1]
      BY <1>1, <3>1
    <3>3. ~(j <= n)
      BY <1>0, <3>1, <3>2
    <3>4. n + 1 \in DOMAIN t
      BY <1>0, <3>2, <3>3
    <3>5. PICK l \in DOMAIN s : s[l] = t[n + 1]
      BY <1>2, <3>4
    <3>6. ~(l <= n)
      <4> SUFFICES ASSUME l <= n PROVE FALSE
        OBVIOUS
      <4>1. t[l] = t[n + 1] /\ l \in DOMAIN t /\ l < n + 1
        <5>1. l \in 1 .. n /\ n + 1 \in 1 .. Len(t)
          BY <1>0, <3>4, <3>5
        <5>2. s[l] = t[l]
          BY <3>1, <5>1
        <5> QED BY <1>0, <3>5, <5>1, <5>2
      <4> QED BY <1>0, <3>4, <4>1
    <3>7. t[n + 1] <= s[n + 1]
      <4>1. CASE j = n + 1
        BY <1>0, <3>2, <3>4, <4>1
      <4>2. CASE n + 1 < j
        BY <1>0, <3>2, <3>4, <4>2
      <4> QED BY <1>0, <3>3, <4>1, <4>2
    <3>8. s[n + 1] <= t[n + 1]
      <4>1. CASE l = n + 1
        BY <1>0, <3>1, <3>5, <4>1
      <4>2. CASE n + 1 < l
        BY <1>0, <3>1, <3>5, <4>2
      <4> QED BY <1>0, <3>6, <4>1, <4>2
    <3>9. s[n + 1] = t[n + 1]
      BY <1>0, <3>1, <3>4, <3>7, <3>8
    <3> QED BY <1>0, <3>1, <3>4, <3>9
  <2> HIDE DEF Same
  <2> QED BY <1>0, <2>1, <2>2, UpFromZero
<1>4. Len(t) <= Len(s)
  <2> SUFFICES ASSUME Len(s) < Len(t) PROVE FALSE
    BY <1>0
  <2>1. Len(s) + 1 \in DOMAIN t
    BY <1>0
  <2>2. PICK j \in DOMAIN s : s[j] = t[Len(s) + 1]
    BY <1>2, <2>1
  <2>3. t[j] = s[j] /\ j \in DOMAIN t /\ j < Len(s) + 1
    <3>1. j \in 1 .. Len(s)
      BY <1>0
    <3>2. t[j] = s[j]
      BY <1>3, <3>1
    <3> QED BY <1>0, <3>1, <3>2
  <2> QED BY <1>0, <2>1, <2>2, <2>3
<1>5. Len(s) = Len(t) /\ \A i \in 1 .. Len(s) : s[i] = t[i]
  BY <1>0, <1>3, <1>4
<1>6. s = [i \in 1 .. Len(s) |-> s[i]] /\ t = [i \in 1 .. Len(t) |-> t[i]]
  BY <1>0
<1> QED BY <1>5, <1>6

\* An event more.
LEMMA ListsMore ==
  ASSUME NEW a \in Nat, NEW k \in Nat, a < k, NEW s, ListsRoom(s, a, k - 1)
  PROVE  /\ IsRoom(k) => ListsRoom(Append(s, k), a, k)
         /\ ~IsRoom(k) => ListsRoom(s, a, k)
<1>0. s \in Seq(Nat) /\ k - 1 \in Nat
  BY DEF ListsRoom
<1>1. ASSUME ~IsRoom(k) PROVE ListsRoom(s, a, k)
  BY <1>0, <1>1 DEF ListsRoom
<1>2. ASSUME IsRoom(k) PROVE ListsRoom(Append(s, k), a, k)
  <2>1. PICK t : t = Append(s, k)
    OBVIOUS
  <2>2. /\ t \in Seq(Nat) /\ Len(t) = Len(s) + 1 /\ t[Len(s) + 1] = k
        /\ \A i \in 1 .. Len(s) : t[i] = s[i]
    BY <1>0, <2>1
  <2>3. ASSUME NEW i \in DOMAIN t
        PROVE  \/ i \in DOMAIN s /\ t[i] = s[i] /\ i <= Len(s)
               \/ i = Len(s) + 1 /\ t[i] = k
    <3>1. i \in 1 .. Len(s) + 1
      BY <2>2
    <3>2. CASE i = Len(s) + 1
      BY <2>2, <3>2
    <3>3. CASE i # Len(s) + 1
      <4>1. i \in 1 .. Len(s)
        BY <1>0, <3>1, <3>3
      <4> QED BY <1>0, <2>2, <4>1
    <3> QED BY <3>2, <3>3
  <2>4. \A i \in DOMAIN t : t[i] \in a + 1 .. k /\ IsRoom(t[i])
    BY <1>0, <1>2, <2>3 DEF ListsRoom
  <2>5. ASSUME NEW i \in DOMAIN t, NEW j \in DOMAIN t, i < j PROVE t[i] < t[j]
    <3>1. i \in DOMAIN s /\ t[i] = s[i] /\ i \in Nat /\ j \in Nat /\ j <= Len(s) + 1
      BY <1>0, <2>2, <2>3, <2>5
    <3>2. s[i] \in a + 1 .. k - 1
      BY <3>1 DEF ListsRoom
    <3>3. CASE j = Len(s) + 1
      BY <1>0, <2>2, <3>1, <3>2, <3>3
    <3>4. CASE j # Len(s) + 1
      BY <2>3, <2>5, <3>1, <3>4 DEF ListsRoom
    <3> QED BY <3>3, <3>4
  <2>6. ASSUME NEW l \in a + 1 .. k, IsRoom(l) PROVE \E i \in DOMAIN t : t[i] = l
    <3>1. CASE l = k
      BY <1>0, <2>2, <3>1
    <3>2. CASE l # k
      <4>1. l \in a + 1 .. k - 1
        BY <3>2
      <4>2. PICK i \in DOMAIN s : s[i] = l
        BY <2>6, <4>1 DEF ListsRoom
      <4>3. i \in 1 .. Len(s) /\ i \in DOMAIN t
        BY <1>0, <2>2
      <4>4. t[i] = l
        BY <2>2, <4>2, <4>3
      <4> QED BY <4>3, <4>4
    <3> QED BY <3>1, <3>2
  <2> QED BY <2>1, <2>2, <2>4, <2>5, <2>6 DEF ListsRoom
<1> QED BY <1>1, <1>2

\* RoomEvents is that list.  Some function satisfies its equation, and what
\* satisfies it lists the events up to every place.
Upto(a, b, g) ==
  [k \in 0 .. b |-> IF k <= a THEN <<>>
                    ELSE IF IsRoom(k) THEN Append(g[k - 1], k) ELSE g[k - 1]]

\* That function exists.
LEMMA UptoExists ==
  ASSUME NEW a \in Nat, NEW b \in Nat
  PROVE  \E g : g = Upto(a, b, g)
<1> DEFINE T == {n \in Nat : \E g : g = Upto(a, n, g)}
<1>1. 0 \in T
  <2> DEFINE g == [k \in 0 .. 0 |-> <<>>]
  <2>1. \A k \in 0 .. 0 : Upto(a, 0, g)[k] = <<>>
    BY DEF Upto
  <2>2. Upto(a, 0, g) = [k \in 0 .. 0 |-> Upto(a, 0, g)[k]]
    BY DEF Upto
  <2>3. g = Upto(a, 0, g)
    BY <2>1, <2>2
  <2> QED BY <2>3
<1>2. ASSUME NEW n \in 0 .. b, n \in T, n < b PROVE n + 1 \in T
  <2>1. PICK g : g = Upto(a, n, g)
    BY <1>2
  <2> DEFINE last == IF n + 1 <= a THEN <<>>
                     ELSE IF IsRoom(n + 1) THEN Append(g[n], n + 1) ELSE g[n]
             h == [k \in 0 .. n + 1 |-> IF k <= n THEN g[k] ELSE last]
  <2>2. ASSUME NEW k \in 0 .. n + 1 PROVE h[k] = Upto(a, n + 1, h)[k]
    <3>1. Upto(a, n + 1, h)[k] = IF k <= a THEN <<>>
                                 ELSE IF IsRoom(k) THEN Append(h[k - 1], k) ELSE h[k - 1]
      BY DEF Upto
    <3>2. CASE k <= n
      <4>1. h[k] = g[k]
        BY <3>2
      <4>2. g[k] = IF k <= a THEN <<>>
                   ELSE IF IsRoom(k) THEN Append(g[k - 1], k) ELSE g[k - 1]
        <5>1. k \in 0 .. n
          BY <3>2
        <5>2. Upto(a, n, g)[k] = IF k <= a THEN <<>>
                   ELSE IF IsRoom(k) THEN Append(g[k - 1], k) ELSE g[k - 1]
          BY <5>1 DEF Upto
        <5> QED BY <2>1, <5>2
      <4>3. k <= a \/ h[k - 1] = g[k - 1]
        BY <3>2
      <4> HIDE DEF h
      <4> QED BY <3>1, <4>1, <4>2, <4>3
    <3>3. CASE k = n + 1
      <4>1. h[k] = last /\ h[k - 1] = g[n]
        BY <3>3
      <4> HIDE DEF h
      <4> QED BY <3>1, <3>3, <4>1
    <3> QED BY <3>2, <3>3
  <2>3. Upto(a, n + 1, h) = [k \in 0 .. n + 1 |-> Upto(a, n + 1, h)[k]]
    BY DEF Upto
  <2>4. h = [k \in 0 .. n + 1 |-> h[k]]
    OBVIOUS
  <2>5. h = Upto(a, n + 1, h)
    <3> HIDE DEF h
    <3> QED BY <2>2, <2>3, <2>4
  <2> HIDE DEF h
  <2> QED BY <2>5
<1>3. b \in T
  <2> HIDE DEF T
  <2> QED BY <1>1, <1>2, UpFromZero
<1> QED BY <1>3

\* RoomEvents(a, b) lists the room's events after a up to b.
LEMMA RoomEventsLists ==
  ASSUME NEW a \in Nat, NEW b \in Nat, a <= b
  PROVE  ListsRoom(RoomEvents(a, b), a, b)
<1>1. PICK h : h = Upto(a, b, h)
  BY UptoExists
<1>2. PICK g : g = Upto(a, b, g) /\ RoomEvents(a, b) = g[b]
  BY <1>1, Zenon DEF RoomEvents, Upto
<1>3. ASSUME NEW k \in 0 .. b
      PROVE  g[k] = IF k <= a THEN <<>> ELSE IF IsRoom(k) THEN Append(g[k - 1], k) ELSE g[k - 1]
  <2>1. Upto(a, b, g)[k] = IF k <= a THEN <<>>
                           ELSE IF IsRoom(k) THEN Append(g[k - 1], k) ELSE g[k - 1]
    BY DEF Upto
  <2> QED BY <1>2, <2>1
<1> DEFINE T == {k \in Nat : k <= a \/ ListsRoom(g[k], a, k)}
<1>4. 0 \in T
  OBVIOUS
<1>5. ASSUME NEW k \in 0 .. b, k \in T, k < b PROVE k + 1 \in T
  <2>1. CASE k + 1 <= a
    BY <2>1
  <2>2. CASE k + 1 > a
    <3>1. ListsRoom(g[k], a, k)
      <4>1. CASE k > a
        BY <1>5, <4>1
      <4>2. CASE k = a
        <5>1. g[k] = <<>>
          BY <1>3, <4>2
        <5> QED BY <4>2, <5>1 DEF ListsRoom
      <4> QED BY <2>2, <4>1, <4>2
    <3>2. g[k + 1] = IF IsRoom(k + 1) THEN Append(g[k], k + 1) ELSE g[k]
      <4>1. k + 1 \in 0 .. b /\ ~(k + 1 <= a) /\ (k + 1) - 1 = k
        BY <1>5, <2>2
      <4> QED BY <1>3, <4>1
    <3>3. ListsRoom(g[k + 1], a, k + 1)
      <4>1. (k + 1) - 1 = k /\ k + 1 \in Nat /\ a < k + 1
        BY <2>2
      <4>2. ListsRoom(g[k], a, (k + 1) - 1)
        BY <3>1, <4>1
      <4> QED BY <3>2, <4>1, <4>2, ListsMore
    <3> QED BY <3>3
  <2> QED BY <2>1, <2>2
<1>6. b \in T
  <2> HIDE DEF T
  <2> QED BY <1>4, <1>5, UpFromZero
<1>7. CASE b > a
  BY <1>2, <1>6, <1>7
<1>8. CASE b = a
  <2>1. g[b] = <<>>
    BY <1>3, <1>8
  <2> QED BY <1>2, <1>8, <2>1 DEF ListsRoom
<1> QED BY <1>7, <1>8

\* LastOf is the last place of an entry, if there is one.
LEMMA LastOfIsLast ==
  ASSUME NEW x, NEW p \in Nat
  PROVE  /\ LastOf(x, p) \in 0 .. p
         /\ LastOf(x, p) # Nil => stream[LastOf(x, p)] = x
         /\ \A k \in 1 .. p : stream[k] = x => k <= LastOf(x, p)
<1> DEFINE ks == {k \in 1 .. p : stream[k] = x}
<1>1. CASE ks = {}
  <2>1. LastOf(x, p) = Nil
    BY <1>1 DEF LastOf
  <2> QED BY <1>1, <2>1 DEF Nil
<1>2. CASE ks # {}
  <2>1. \E k \in ks : \A j \in ks : j <= k
    <3>1. ks \subseteq 1 .. p
      OBVIOUS
    <3> HIDE DEF ks
    <3> QED BY <1>2, <3>1, Greatest
  <2>2. LastOf(x, p) = CHOOSE k \in ks : \A j \in ks : j <= k
    BY <1>2 DEF LastOf
  <2>3. LastOf(x, p) \in ks /\ \A j \in ks : j <= LastOf(x, p)
    <3> HIDE DEF ks
    <3> QED BY <2>1, <2>2
  <2> QED BY <2>3
<1> QED BY <1>1, <1>2

\* It is known by that.
LEMMA LastOfIs ==
  ASSUME NEW x, NEW p \in Nat, NEW k \in 0 .. p, k = Nil \/ stream[k] = x,
         \A j \in k + 1 .. p : stream[j] # x
  PROVE  LastOf(x, p) = k
<1>1. /\ LastOf(x, p) \in 0 .. p
      /\ LastOf(x, p) # Nil => stream[LastOf(x, p)] = x
      /\ \A j \in 1 .. p : stream[j] = x => j <= LastOf(x, p)
  BY LastOfIsLast
<1>2. LastOf(x, p) <= k
  BY <1>1 DEF Nil
<1>3. k <= LastOf(x, p)
  BY <1>1 DEF Nil
<1> QED BY <1>1, <1>2, <1>3

\* Between q and p there is another one, or it is the same for both.
LEMMA LastOfSince ==
  ASSUME NEW x, NEW q \in Nat, NEW p \in Nat, q <= p
  PROVE  /\ LastOf(x, q) <= LastOf(x, p)
         /\ LastOf(x, p) > q \/ LastOf(x, p) = LastOf(x, q)
<1>1. /\ LastOf(x, p) \in 0 .. p
      /\ LastOf(x, p) # Nil => stream[LastOf(x, p)] = x
      /\ \A j \in 1 .. p : stream[j] = x => j <= LastOf(x, p)
  BY LastOfIsLast
<1>2. /\ LastOf(x, q) \in 0 .. q
      /\ LastOf(x, q) # Nil => stream[LastOf(x, q)] = x
  BY LastOfIsLast
<1>3. LastOf(x, q) <= LastOf(x, p)
  BY <1>1, <1>2 DEF Nil
<1>4. ASSUME ~(LastOf(x, p) > q) PROVE LastOf(x, q) = LastOf(x, p)
  <2>1. PICK k : k = LastOf(x, p)
    OBVIOUS
  <2>2. k \in 0 .. q /\ (k = Nil \/ stream[k] = x) /\ \A j \in k + 1 .. q : stream[j] # x
    BY <1>1, <1>4, <2>1 DEF Nil
  <2> QED BY <2>1, <2>2, LastOfIs
<1> QED BY <1>3, <1>4

-----------------------------------------------------------------------------
(* Saved sync: what an accumulator and a saved answer say.                 *)

Held == [event : Nat, token : Nat \cup {NoToken}]

\* A timeline of the accumulator for position p: from every token on it has
\* all events of the room, and it begins with one.
Kept(tl, p) ==
  /\ tl \in Seq(Held)
  /\ tl # <<>> => tl[1].token # NoToken
  /\ \A i, j \in DOMAIN tl : i < j => tl[i].event < tl[j].event
  /\ \A i \in DOMAIN tl : tl[i].event \in 1 .. p /\ IsRoom(tl[i].event)
  /\ \A i \in DOMAIN tl : tl[i].token # NoToken =>
       /\ tl[i].token < tl[i].event
       /\ \A k \in tl[i].token + 1 .. p : IsRoom(k) => \E j \in i .. Len(tl) : tl[j].event = k

Fits(s) == SyncSize <= maxTimelineEntries => Len(s) <= maxTimelineEntries

\* prune cuts at a token, and to the length there is room for when one is near the end.
LEMMA PruneKeeps ==
  ASSUME NEW p \in Nat, NEW tl, Kept(tl, p)
  PROVE  /\ Kept(prune(tl), p)
         /\ Fits(tl) \/ (\E i \in DOMAIN tl : /\ tl[i].token # NoToken
                                              /\ Len(tl) - i < maxTimelineEntries)
              => Fits(prune(tl))
<1> DEFINE from == Len(tl) - maxTimelineEntries + 1
           at == {i \in from .. Len(tl) : tl[i].token # NoToken}
<1>0. tl \in Seq(Held) /\ Len(tl) \in Nat /\ maxTimelineEntries \in Nat /\ maxTimelineEntries > 0
  BY SavedSyncAssumption DEF Kept
<1>1. CASE from > 1 /\ at # {}
  <2>1. PICK a \in at : \A j \in at : a <= j
    <3>1. at \subseteq 1 .. Len(tl)
      BY <1>0, <1>1
    <3> HIDE DEF at
    <3> QED BY <1>0, <1>1, <3>1, Least
  <2>2. a \in 1 .. Len(tl) /\ a >= from /\ tl[a].token # NoToken
    BY <1>0, <1>1, <2>1
  <2>3. prune(tl) = SubSeq(tl, a, Len(tl))
    <3>1. a = CHOOSE i \in at : \A j \in at : i <= j
      <4>1. at \subseteq Int
        BY <1>0
      <4>2. \A z \in at : (\A j \in at : z <= j) => z = a
        <5> HIDE DEF at
        <5> QED BY <2>1, <4>1
      <4> HIDE DEF at
      <4> QED BY <2>1, <4>2
    <3>2. prune(tl) = IF from > 1 /\ at # {}
                      THEN SubSeq(tl, CHOOSE i \in at : \A j \in at : i <= j, Len(tl)) ELSE tl
      BY Zenon DEF prune
    <3> HIDE DEF at
    <3> QED BY <1>1, <3>1, <3>2
  <2>4. PICK s : s = SubSeq(tl, a, Len(tl))
    OBVIOUS
  <2>5. /\ s \in Seq(Held) /\ Len(s) = Len(tl) - a + 1
        /\ \A i \in 1 .. Len(tl) - a + 1 : s[i] = tl[a + i - 1]
    BY <1>0, <2>2, <2>4
  <2>6. ASSUME NEW i \in DOMAIN s
        PROVE  i \in Nat /\ i >= 1 /\ a + i - 1 \in DOMAIN tl /\ s[i] = tl[a + i - 1]
    BY <1>0, <2>2, <2>5
  <2>7. Kept(s, p)
    <3>1. s # <<>> => s[1].token # NoToken
      <4>1. 1 \in 1 .. Len(tl) - a + 1 /\ a + 1 - 1 = a
        BY <1>0, <2>2
      <4> QED BY <2>2, <2>5, <4>1
    <3>2. ASSUME NEW i \in DOMAIN s, NEW j \in DOMAIN s, i < j PROVE s[i].event < s[j].event
      <4>1. PICK k, l : k = a + i - 1 /\ l = a + j - 1
        OBVIOUS
      <4>2. k \in DOMAIN tl /\ l \in DOMAIN tl /\ k < l /\ s[i] = tl[k] /\ s[j] = tl[l]
        BY <2>2, <2>6, <3>2, <4>1
      <4>3. tl[k].event < tl[l].event
        BY <4>2 DEF Kept
      <4> QED BY <4>2, <4>3
    <3>3. ASSUME NEW i \in DOMAIN s PROVE s[i].event \in 1 .. p /\ IsRoom(s[i].event)
      BY <2>6 DEF Kept
    <3>4. ASSUME NEW i \in DOMAIN s, s[i].token # NoToken
          PROVE  /\ s[i].token < s[i].event
                 /\ \A k \in s[i].token + 1 .. p : IsRoom(k) => \E j \in i .. Len(s) : s[j].event = k
      <4>1. PICK m \in DOMAIN tl : m = a + i - 1 /\ s[i] = tl[m]
        BY <2>6
      <4>2. /\ tl[m].token < tl[m].event
            /\ \A k \in tl[m].token + 1 .. p : IsRoom(k) => \E j \in m .. Len(tl) : tl[j].event = k
        BY <3>4, <4>1 DEF Kept
      <4>3. ASSUME NEW k \in s[i].token + 1 .. p, IsRoom(k) PROVE \E j \in i .. Len(s) : s[j].event = k
        <5>1. PICK j \in m .. Len(tl) : tl[j].event = k
          BY <4>1, <4>2, <4>3
        <5>2. PICK l : l = j - a + 1
          OBVIOUS
        <5>3. i \in Nat /\ i >= 1
          BY <2>6
        <5>4. l \in i .. Len(s) /\ l \in 1 .. Len(tl) - a + 1 /\ a + l - 1 = j
          BY <1>0, <2>2, <2>5, <4>1, <5>1, <5>2, <5>3
        <5>5. s[l] = tl[j]
          BY <2>5, <5>4
        <5> QED BY <5>1, <5>4, <5>5
      <4> QED BY <4>1, <4>2, <4>3
    <3> QED BY <2>5, <3>1, <3>2, <3>3, <3>4 DEF Kept
  <2>8. Len(s) <= maxTimelineEntries
    BY <1>0, <2>2, <2>5
  <2> QED BY <2>3, <2>4, <2>7, <2>8 DEF Fits
<1>2. CASE ~(from > 1 /\ at # {})
  <2>1. prune(tl) = tl
    BY <1>2, Zenon DEF prune
  <2>2. ASSUME NEW i \in DOMAIN tl, tl[i].token # NoToken, Len(tl) - i < maxTimelineEntries
        PROVE  Len(tl) <= maxTimelineEntries
    <3>1. i \in from .. Len(tl)
      BY <1>0, <2>2
    <3>2. i \in at
      BY <2>2, <3>1
    <3> HIDE DEF at
    <3> QED BY <1>0, <1>2, <3>2
  <2> QED BY <2>1, <2>2 DEF Fits
<1> QED BY <1>1, <1>2

\* The events of an answer, the first with its token, after a timeline kept so far.
NewEntries(res) ==
  [i \in 1 .. Len(res.timeline) |->
     [event |-> res.timeline[i], token |-> IF i = 1 THEN res.prevBatch ELSE NoToken]]

\* They continue a timeline that is kept up to where they begin.
LEMMA EntriesContinue ==
  ASSUME NEW q \in Nat, NEW h \in Nat, q <= h, NEW res, NEW kept, Kept(kept, q),
         res.timeline \in Seq(Nat),
         res.timeline # <<>> =>
           /\ res.prevBatch \in q .. h
           /\ ListsRoom(res.timeline, res.prevBatch, h),
         \A k \in q + 1 .. h : IsRoom(k) => \E i \in DOMAIN res.timeline : res.timeline[i] = k
  PROVE  Kept(kept \o NewEntries(res), h)
<1> DEFINE n == Len(kept)
           m == Len(res.timeline)
           new == NewEntries(res)
<1>0. kept \in Seq(Held) /\ n \in Nat /\ m \in Nat
  BY DEF Kept
<1>1. /\ new \in Seq(Held) /\ Len(new) = m
      /\ \A i \in 1 .. m : /\ new[i].event = res.timeline[i]
                            /\ new[i].token = IF i = 1 THEN res.prevBatch ELSE NoToken
  <2>1. ASSUME NEW i \in 1 .. m
        PROVE  [event |-> res.timeline[i], token |-> IF i = 1 THEN res.prevBatch ELSE NoToken] \in Held
    <3>1. res.timeline # <<>> /\ res.timeline[i] \in Nat /\ res.prevBatch \in Nat
      BY <1>0
    <3> QED BY <3>1 DEF Held
  <2> QED BY <1>0, <2>1 DEF NewEntries
<1> HIDE DEF new
<1>2. PICK s : s = kept \o new
  OBVIOUS
<1>3. s \in Seq(Held) /\ Len(s) = n + m
  <2>1. new \in Seq(Held)
    BY <1>1
  <2>2. s \in Seq(Held) /\ Len(s) = Len(kept) + Len(new)
    BY <1>0, <1>2, <2>1
  <2> QED BY <1>1, <2>2
<1>4. \A i \in 1 .. n : s[i] = kept[i]
  BY <1>0, <1>1, <1>2
<1>5. \A i \in 1 .. m : s[n + i] = new[i]
  BY <1>0, <1>1, <1>2
<1> DEFINE old(i) == i \in 1 .. n /\ i \in DOMAIN kept /\ s[i] = kept[i]
           added(i) == /\ i - n \in 1 .. m
                       /\ s[i].event = res.timeline[i - n]
                       /\ s[i].token = IF i = n + 1 THEN res.prevBatch ELSE NoToken
<1>6. ASSUME NEW i \in DOMAIN s PROVE i \in Nat /\ (old(i) \/ added(i))
  <2>1. i \in 1 .. n + m
    BY <1>0, <1>3
  <2>2. CASE i <= n
    BY <1>0, <1>4, <2>1, <2>2
  <2>3. CASE i > n
    <3>1. PICK j \in 1 .. m : j = i - n /\ i = n + j
      BY <1>0, <2>1, <2>3
    <3>2. s[i] = new[j]
      BY <1>5, <3>1
    <3>3. s[i].event = res.timeline[j] /\ s[i].token = IF j = 1 THEN res.prevBatch ELSE NoToken
      BY <1>1, <3>2
    <3>4. j = 1 <=> i = n + 1
      BY <1>0, <3>1
    <3>5. i - n \in 1 .. m /\ s[i].event = res.timeline[i - n]
          /\ s[i].token = IF i = n + 1 THEN res.prevBatch ELSE NoToken
      BY <3>1, <3>3, <3>4
    <3> QED BY <2>1, <3>5
  <2> QED BY <1>0, <2>1, <2>2, <2>3
<1>7. ASSUME NEW j \in 1 .. m
      PROVE  /\ res.timeline[j] \in q + 1 .. h /\ IsRoom(res.timeline[j])
             /\ res.prevBatch \in q .. h /\ res.prevBatch < res.timeline[j]
  <2>1. res.timeline # <<>> /\ j \in DOMAIN res.timeline
    BY <1>0
  <2>2. res.timeline[j] \in res.prevBatch + 1 .. h /\ IsRoom(res.timeline[j]) /\ res.prevBatch \in q .. h
    BY <2>1 DEF ListsRoom
  <2> QED BY <2>2
<1>8. ASSUME NEW i \in DOMAIN s, old(i)
      PROVE  /\ s[i].event \in 1 .. q /\ IsRoom(s[i].event)
             /\ s[i].token # NoToken =>
                  /\ s[i].token \in Nat /\ s[i].token < s[i].event
                  /\ \A k \in s[i].token + 1 .. q : IsRoom(k) => \E j \in i .. n : s[j].event = k
  <2>1. kept[i].event \in 1 .. q /\ IsRoom(kept[i].event) /\ kept[i] \in Held
    BY <1>0, <1>8 DEF Kept
  <2>2. ASSUME kept[i].token # NoToken
        PROVE  /\ kept[i].token < kept[i].event
               /\ \A k \in kept[i].token + 1 .. q : IsRoom(k) => \E j \in i .. n : s[j].event = k
    <3>1. /\ kept[i].token < kept[i].event
          /\ \A k \in kept[i].token + 1 .. q : IsRoom(k) => \E j \in i .. n : kept[j].event = k
      BY <1>8, <2>2 DEF Kept
    <3>2. \A j \in i .. n : s[j] = kept[j]
      BY <1>0, <1>4, <1>8
    <3> QED BY <3>1, <3>2
  <2> QED BY <1>8, <2>1, <2>2 DEF Held
<1>9. s # <<>> => s[1].token # NoToken
  <2>1. CASE n > 0
    <3>1. kept # <<>> /\ s[1] = kept[1]
      BY <1>0, <1>4, <2>1
    <3> QED BY <3>1 DEF Kept
  <2>2. CASE n = 0
    <3> SUFFICES ASSUME s # <<>> PROVE s[1].token # NoToken
      OBVIOUS
    <3>1. 1 \in DOMAIN s /\ ~old(1)
      BY <1>0, <1>3, <2>2
    <3>2. added(1)
      BY <1>6, <3>1
    <3>3. s[1].token = res.prevBatch
      BY <2>2, <3>2
    <3>4. 1 \in 1 .. m
      BY <2>2, <3>2
    <3> QED BY <1>7, <3>3, <3>4 DEF NoToken
  <2> QED BY <1>0, <2>1, <2>2
<1>10. ASSUME NEW i \in DOMAIN s, NEW j \in DOMAIN s, i < j PROVE s[i].event < s[j].event
  <2>1. CASE old(i) /\ old(j)
    <3>1. kept[i].event < kept[j].event
      BY <1>10, <2>1 DEF Kept
    <3> QED BY <2>1, <3>1
  <2>2. CASE old(i) /\ added(j)
    <3>1. s[i].event \in 1 .. q
      BY <1>8, <2>2
    <3>2. s[j].event \in q + 1 .. h
      BY <1>7, <2>2
    <3> QED BY <3>1, <3>2
  <2>3. CASE added(i) /\ added(j)
    <3>1. PICK k, l \in 1 .. m : k = i - n /\ l = j - n /\ s[i].event = res.timeline[k]
                                 /\ s[j].event = res.timeline[l]
      BY <2>3
    <3>2. k < l /\ k \in DOMAIN res.timeline /\ l \in DOMAIN res.timeline /\ res.timeline # <<>>
      BY <1>0, <1>6, <1>10, <3>1
    <3> QED BY <3>1, <3>2 DEF ListsRoom
  <2>4. ~(added(i) /\ old(j))
    BY <1>0, <1>6, <1>10
  <2> HIDE DEF old, added
  <2> QED BY <1>6, <2>1, <2>2, <2>3, <2>4
<1>11. ASSUME NEW i \in DOMAIN s PROVE s[i].event \in 1 .. h /\ IsRoom(s[i].event)
  <2>1. CASE old(i)
    BY <1>8, <2>1
  <2>2. CASE added(i)
    BY <1>7, <2>2
  <2> HIDE DEF old, added
  <2> QED BY <1>6, <2>1, <2>2
<1>12. ASSUME NEW i \in DOMAIN s, s[i].token # NoToken
       PROVE  /\ s[i].token < s[i].event
              /\ \A k \in s[i].token + 1 .. h : IsRoom(k) => \E j \in i .. Len(s) : s[j].event = k
  <2>0. i \in Nat
    BY <1>6
  <2>1. ASSUME NEW k \in Int, \E j \in DOMAIN res.timeline : res.timeline[j] = k, i <= n + 1
        PROVE  \E j \in i .. Len(s) : s[j].event = k
    <3>1. PICK j \in 1 .. m : res.timeline[j] = k
      BY <1>0, <2>1
    <3>2. s[n + j].event = k
      <4>1. s[n + j] = new[j]
        BY <1>5
      <4> QED BY <1>1, <3>1, <4>1
    <3>3. n + j \in i .. Len(s)
      BY <1>0, <1>3, <2>0, <2>1
    <3> QED BY <3>2, <3>3
  <2>2. CASE old(i)
    <3>1. /\ s[i].token \in Nat /\ s[i].token < s[i].event
          /\ \A k \in s[i].token + 1 .. q : IsRoom(k) => \E j \in i .. n : s[j].event = k
      BY <1>8, <1>12, <2>2
    <3>2. ASSUME NEW k \in s[i].token + 1 .. h, IsRoom(k) PROVE \E j \in i .. Len(s) : s[j].event = k
      <4>1. CASE k <= q
        <5>1. k \in s[i].token + 1 .. q
          BY <3>1, <4>1
        <5>2. PICK j \in i .. n : s[j].event = k
          BY <3>1, <3>2, <5>1
        <5>3. j \in i .. Len(s)
          BY <1>0, <1>3, <2>0
        <5> QED BY <5>2, <5>3
      <4>2. CASE k > q
        <5>1. k \in q + 1 .. h /\ k \in Int /\ i <= n + 1
          BY <1>0, <2>2, <3>1, <4>2
        <5> QED BY <2>1, <3>2, <5>1
      <4> QED BY <3>1, <4>1, <4>2
    <3> QED BY <3>1, <3>2
  <2>3. CASE added(i)
    <3>1. i = n + 1 /\ s[i].token = res.prevBatch /\ s[i].event = res.timeline[1] /\ 1 \in 1 .. m
      <4>1. i = n + 1
        BY <1>12, <2>3
      <4>2. i - n = 1
        BY <1>0, <4>1
      <4> QED BY <2>3, <4>1, <4>2
    <3>2. s[i].token < s[i].event /\ res.prevBatch \in q .. h
      BY <1>7, <3>1
    <3>3. ASSUME NEW k \in s[i].token + 1 .. h, IsRoom(k) PROVE \E j \in i .. Len(s) : s[j].event = k
      <4>1. k \in q + 1 .. h /\ k \in Int
        BY <3>1, <3>2
      <4>2. \E j \in DOMAIN res.timeline : res.timeline[j] = k
        BY <3>3, <4>1
      <4>3. i <= n + 1
        BY <1>0, <3>1
      <4> HIDE DEF added
      <4> QED BY <2>1, <4>1, <4>2, <4>3
    <3> QED BY <3>2, <3>3
  <2> HIDE DEF old, added
  <2> QED BY <1>6, <2>2, <2>3
<1>13. Kept(s, h)
  BY <1>3, <1>9, <1>10, <1>11, <1>12 DEF Kept
<1>14. s = kept \o NewEntries(res)
  BY <1>2 DEF new
<1> QED BY <1>13, <1>14

\* The accumulator, and an answer or what getJSON makes of the accumulator.
Accumulator == [state : [StateKey -> Nat], timeline : Seq(Held), account : [AccountType -> Nat],
                nextBatch : Int]
Answer == [limited : BOOLEAN, timeline : Seq(Nat), prevBatch : Int, nextBatch : Int,
           state : [StateKey -> Nat], account : [AccountType -> Nat]]

\* The entry an answer has for a state key in its timeline, or else in its state section.
Latest(s, res) == {i \in DOMAIN res.timeline : stream[res.timeline[i]] = s}
CurrentOf(s, accu, res) ==
  IF Latest(s, res) # {}
  THEN res.timeline[CHOOSE i \in Latest(s, res) : \A j \in Latest(s, res) : j <= i]
  ELSE IF res.state[s] # Nil THEN res.state[s] ELSE accu.state[s]

\* A state key in a timeline that reaches up to h has its last event there.
LEMMA LatestIsLast ==
  ASSUME NEW h \in Nat, NEW s \in StateKey, NEW res, NEW accu, NEW q \in Nat,
         ListsRoom(res.timeline, q, h), Latest(s, res) # {}
  PROVE  CurrentOf(s, accu, res) = LastOf(s, h)
<1> DEFINE ks == Latest(s, res)
           tl == res.timeline
<1>0. tl \in Seq(Nat) /\ Len(tl) \in Nat /\ ks \subseteq 1 .. Len(tl)
  BY DEF ListsRoom, Latest
<1>1. \E i \in ks : \A j \in ks : j <= i
  <2>1. ks # {}
    OBVIOUS
  <2> HIDE DEF ks
  <2> QED BY <1>0, <2>1, Greatest
<1>2. PICK i : i = CHOOSE m \in ks : \A j \in ks : j <= m
  OBVIOUS
<1>3. i \in ks /\ \A j \in ks : j <= i
  <2> HIDE DEF ks
  <2> QED BY <1>1, <1>2
<1>4. CurrentOf(s, accu, res) = tl[i]
  BY <1>2 DEF CurrentOf
<1>5. i \in DOMAIN tl /\ stream[tl[i]] = s /\ tl[i] \in q + 1 .. h
  BY <1>3 DEF Latest, ListsRoom
<1>6. ASSUME NEW k \in tl[i] + 1 .. h, stream[k] = s PROVE FALSE
  <2>1. IsRoom(k)
    BY <1>6, SavedSyncAssumption DEF IsRoom
  <2>2. k \in q + 1 .. h
    BY <1>5
  <2>3. PICK j \in DOMAIN tl : tl[j] = k
    BY <2>1, <2>2 DEF ListsRoom
  <2>4. j \in ks
    BY <1>6, <2>3 DEF Latest
  <2>5. j <= i /\ i \in Nat /\ j \in Nat
    BY <1>0, <1>3, <2>4
  <2>6. tl[j] <= tl[i]
    <3>1. CASE j = i
      BY <1>5, <3>1
    <3>2. CASE j < i
      <4>1. tl[j] < tl[i]
        BY <1>5, <2>3, <3>2 DEF ListsRoom
      <4> QED BY <1>5, <2>2, <2>3, <4>1
    <3> QED BY <2>5, <3>1, <3>2
  <2> QED BY <1>5, <2>3, <2>6
<1>7. PICK e : e = tl[i]
  OBVIOUS
<1>8. e \in 0 .. h /\ stream[e] = s /\ \A k \in e + 1 .. h : stream[k] # s
  BY <1>5, <1>6, <1>7
<1>9. LastOf(s, h) = e
  BY <1>8, LastOfIs
<1> QED BY <1>4, <1>7, <1>9

\* The answer res, from position q on and up to h, on top of what is kept of the timeline.
Continues(accu, res, kept, q, h) ==
  /\ kept = IF res.limited THEN <<>> ELSE accu.timeline
  /\ Kept(kept, q)
  /\ res.timeline # <<>> =>
       /\ res.prevBatch \in q .. h
       /\ ListsRoom(res.timeline, res.prevBatch, h)
  /\ \A k \in q + 1 .. h : IsRoom(k) => \E i \in DOMAIN res.timeline : res.timeline[i] = k
  /\ \A s \in StateKey : Latest(s, res) = {} =>
       (IF res.state[s] # Nil THEN res.state[s] ELSE accu.state[s]) = LastOf(s, h)
  /\ Fits(accu.timeline) /\ (SyncSize <= maxTimelineEntries => Len(res.timeline) <= maxTimelineEntries)

\* The accumulator with the answer: it is what the server has at h.
Adds(new, accu, res, h) ==
  /\ new \in Accumulator
  /\ Kept(new.timeline, h) /\ Fits(new.timeline)
  /\ \A s \in StateKey : new.state[s] = LastOf(s, h)
  /\ \A t \in AccountType :
       new.account[t] = IF res.account[t] # Nil THEN res.account[t] ELSE accu.account[t]
  /\ new.nextBatch = res.nextBatch

\* What accumulate makes of an accumulator that is kept up to q, and an answer
\* that has what came after, up to h.
LEMMA Accumulated ==
  ASSUME NEW q \in Nat, NEW h \in Nat, q <= h, NEW accu \in Accumulator, NEW res \in Answer,
         NEW kept, Continues(accu, res, kept, q, h)
  PROVE  Adds(accumulate(accu, res), accu, res, h)
<1> USE DEF Continues
<1> DEFINE st == [s \in StateKey |-> CurrentOf(s, accu, res)]
           ac == [t \in AccountType |-> IF res.account[t] # Nil THEN res.account[t] ELSE accu.account[t]]
<1>0. /\ accu.state \in [StateKey -> Nat] /\ accu.account \in [AccountType -> Nat]
      /\ res.timeline \in Seq(Nat) /\ res.account \in [AccountType -> Nat] /\ res.nextBatch \in Int
  BY DEF Accumulator, Answer
<1>1. PICK tl : tl = kept \o NewEntries(res)
  OBVIOUS
<1>2. Kept(tl, h)
  BY <1>0, <1>1, EntriesContinue
<1>3. PICK cut : cut = prune(tl)
  OBVIOUS
<1>4. Kept(cut, h)
  BY <1>2, <1>3, PruneKeeps
<1>5. Fits(cut)
  <2>1. Fits(kept)
    <3>1. Fits(<<>>)
      BY SavedSyncAssumption DEF Fits
    <3> QED BY <3>1
  <2>2. CASE res.timeline = <<>>
    <3>1. NewEntries(res) = <<>>
      <4>1. Len(res.timeline) = 0
        BY <2>2
      <4>2. NewEntries(res) \in Seq(Held) /\ Len(NewEntries(res)) = 0
        BY <4>1 DEF NewEntries
      <4> QED BY <4>2
    <3>2. tl = kept
      BY <1>1, <3>1 DEF Kept
    <3> QED BY <1>2, <1>3, <2>1, <3>2, PruneKeeps
  <2>3. CASE res.timeline # <<>>
    <3> SUFFICES ASSUME SyncSize <= maxTimelineEntries PROVE Len(cut) <= maxTimelineEntries
      BY DEF Fits
    <3> DEFINE n == Len(kept)
               m == Len(res.timeline)
               new == NewEntries(res)
    <3>1. n \in Nat /\ m \in Nat /\ m > 0 /\ m <= maxTimelineEntries /\ maxTimelineEntries \in Nat
          /\ kept \in Seq(Held)
      BY <1>0, <2>3, SavedSyncAssumption DEF Kept
    <3>2. new \in Seq(Held) /\ Len(new) = m /\ new[1].token = res.prevBatch
      <4>1. ASSUME NEW i \in 1 .. m
            PROVE  [event |-> res.timeline[i], token |-> IF i = 1 THEN res.prevBatch ELSE NoToken] \in Held
        <5>1. res.timeline[i] \in Nat /\ res.prevBatch \in Nat
          BY <1>0, <2>3
        <5> QED BY <5>1 DEF Held
      <4> QED BY <3>1, <4>1 DEF NewEntries
    <3> HIDE DEF new
    <3>3. Len(tl) = n + m /\ tl[n + 1] = new[1]
      <4>0. kept \in Seq(Held) /\ new \in Seq(Held)
        BY <3>1, <3>2
      <4>1. tl = kept \o new
        BY <1>1 DEF new
      <4>2. Len(tl) = Len(kept) + Len(new)
        BY <4>0, <4>1
      <4>3. tl[Len(kept) + 1] = new[1]
        <5>1. Len(kept) + 1 \in Len(kept) + 1 .. Len(kept) + Len(new) /\ (Len(kept) + 1) - Len(kept) = 1
          <6>1. Len(kept) \in Nat /\ Len(new) \in Nat /\ Len(new) > 0
            BY <3>1, <3>2, <4>0
          <6> QED BY <6>1
        <5> QED BY <4>0, <4>1, <5>1
      <4> QED BY <3>2, <4>2, <4>3
    <3>4. n + 1 \in DOMAIN tl /\ tl[n + 1].token # NoToken /\ Len(tl) - (n + 1) < maxTimelineEntries
      <4>1. tl \in Seq(Held)
        BY <1>2 DEF Kept
      <4>2. n + 1 \in DOMAIN tl /\ Len(tl) - (n + 1) < maxTimelineEntries
        <5>1. n \in Nat /\ m \in Nat /\ m > 0 /\ m <= maxTimelineEntries /\ maxTimelineEntries \in Nat
          BY <3>1
        <5>2. DOMAIN tl = 1 .. n + m /\ Len(tl) = n + m
          BY <3>3, <4>1
        <5> HIDE DEF n, m
        <5> QED BY <5>1, <5>2
      <4>3. tl[n + 1].token = res.prevBatch /\ res.prevBatch \in Nat
        BY <2>3, <3>2, <3>3
      <4> QED BY <4>2, <4>3 DEF NoToken
    <3>5. Fits(cut)
      BY <1>2, <1>3, <3>4, PruneKeeps
    <3> QED BY <3>5 DEF Fits
  <2> QED BY <2>2, <2>3
<1>6. \A s \in StateKey : st[s] = LastOf(s, h)
  <2> SUFFICES ASSUME NEW s \in StateKey PROVE CurrentOf(s, accu, res) = LastOf(s, h)
    OBVIOUS
  <2>1. CASE Latest(s, res) = {}
    BY <2>1 DEF CurrentOf
  <2>2. CASE Latest(s, res) # {}
    <3>1. res.timeline # <<>>
      BY <2>2 DEF Latest
    <3>2. res.prevBatch \in Nat
      BY <3>1
    <3> QED BY <2>2, <3>1, <3>2, LatestIsLast
  <2> QED BY <2>1, <2>2
<1>7. accumulateJoinState(accu, res) = [accu EXCEPT !.state = st, !.timeline = cut]
  <2>1. accumulateJoinState(accu, res) =
          [accu EXCEPT !.state = st,
                      !.timeline = prune((IF res.limited THEN <<>> ELSE accu.timeline) \o NewEntries(res))]
    BY Zenon DEF accumulateJoinState, NewEntries, CurrentOf, Latest
  <2> HIDE DEF st
  <2> QED BY <1>1, <1>3, <2>1
<1> HIDE DEF st
<1>8. accumulate(accu, res) = [accu EXCEPT !.state = st, !.timeline = cut, !.account = ac,
                                         !.nextBatch = res.nextBatch]
  <2>1. accumulate(accu, res) =
          [accumulateJoinState(accu, res) EXCEPT
             !.account = [t \in AccountType |-> IF res.account[t] # Nil THEN res.account[t]
                                                ELSE accumulateJoinState(accu, res).account[t]],
             !.nextBatch = res.nextBatch]
    BY Zenon DEF accumulate
  <2>2. accumulateJoinState(accu, res).account = accu.account
    BY <1>7 DEF Accumulator
  <2> QED BY <1>7, <2>1, <2>2 DEF Accumulator
<1>9. st \in [StateKey -> Nat]
  <2>1. \A s \in StateKey : st[s] \in Nat
    BY <1>6, LastOfIsLast
  <2> QED BY <2>1 DEF st
<1>10. ac \in [AccountType -> Nat]
  BY <1>0
<1>11. cut \in Seq(Held)
  BY <1>4 DEF Kept
<1>12. \A t \in AccountType : ac[t] = IF res.account[t] # Nil THEN res.account[t] ELSE accu.account[t]
  OBVIOUS
<1> HIDE DEF ac
<1>13. accumulate(accu, res) \in Accumulator
  BY <1>0, <1>8, <1>9, <1>10, <1>11 DEF Accumulator
<1>14. /\ accumulate(accu, res).state = st /\ accumulate(accu, res).timeline = cut
       /\ accumulate(accu, res).account = ac /\ accumulate(accu, res).nextBatch = res.nextBatch
  BY <1>8 DEF Accumulator
<1> HIDE DEF Continues
<1> QED BY <1>4, <1>5, <1>6, <1>12, <1>13, <1>14 DEF Adds

\* The end of a list from one of its events on.
LEMMA ListsEnd ==
  ASSUME NEW a \in Nat, NEW b \in Nat, NEW s, ListsRoom(s, a, b), NEW m \in 1 .. Len(s)
  PROVE  LET t == SubSeq(s, m, Len(s)) IN
         /\ ListsRoom(t, s[m] - 1, b) /\ t[1] = s[m] /\ t # <<>>
         /\ Len(t) = Len(s) - m + 1 /\ s[m] - 1 \in a .. b
<1>9. PICK t : t = SubSeq(s, m, Len(s))
  OBVIOUS
<1>0. s \in Seq(Nat) /\ Len(s) \in Nat
  BY DEF ListsRoom
<1>1. /\ t \in Seq(Nat) /\ Len(t) = Len(s) - m + 1
      /\ \A i \in 1 .. Len(s) - m + 1 : t[i] = s[m + i - 1]
  BY <1>0, <1>9
<1>2. ASSUME NEW i \in DOMAIN t
      PROVE  i \in Nat /\ i >= 1 /\ m + i - 1 \in DOMAIN s /\ t[i] = s[m + i - 1]
  <2>1. i \in 1 .. Len(s) - m + 1
    BY <1>0, <1>1
  <2>2. m + i - 1 \in 1 .. Len(s)
    BY <1>0, <2>1
  <2>3. t[i] = s[m + i - 1]
    BY <1>1, <2>1
  <2>4. m + i - 1 \in DOMAIN s
    BY <1>0, <2>2
  <2> QED BY <2>1, <2>3, <2>4
<1>3. t[1] = s[m] /\ t # <<>>
  <2>1. 1 \in 1 .. Len(s) - m + 1 /\ m + 1 - 1 = m
    BY <1>0
  <2>2. t[1] = s[m + 1 - 1]
    BY <1>1, <2>1
  <2>3. Len(t) # 0
    BY <1>0, <1>1
  <2> QED BY <2>1, <2>2, <2>3
<1>4. s[m] \in a + 1 .. b
  BY <1>0 DEF ListsRoom
<1>5. ASSUME NEW i \in DOMAIN t, NEW j \in DOMAIN t, i < j PROVE t[i] < t[j]
  <2>1. PICK k, l : k = m + i - 1 /\ l = m + j - 1
    OBVIOUS
  <2>2. k \in DOMAIN s /\ l \in DOMAIN s /\ k < l /\ t[i] = s[k] /\ t[j] = s[l]
    BY <1>2, <1>5, <2>1
  <2> QED BY <2>2 DEF ListsRoom
<1>6. ASSUME NEW i \in DOMAIN t PROVE t[i] \in (s[m] - 1) + 1 .. b /\ IsRoom(t[i])
  <2>1. PICK k \in DOMAIN s : k = m + i - 1 /\ t[i] = s[k]
    BY <1>2
  <2>2. s[k] \in a + 1 .. b /\ IsRoom(s[k])
    BY DEF ListsRoom
  <2>3. k >= m /\ k \in Nat /\ m \in DOMAIN s
    BY <1>0, <1>2, <2>1
  <2>4. s[m] <= s[k]
    <3>1. CASE k = m
      BY <1>4, <3>1
    <3>2. CASE m < k
      <4>1. s[m] < s[k]
        BY <2>3, <3>2 DEF ListsRoom
      <4> QED BY <1>4, <2>2, <4>1
    <3> QED BY <2>3, <3>1, <3>2
  <2> QED BY <1>4, <2>1, <2>2, <2>4
<1>7. ASSUME NEW k \in (s[m] - 1) + 1 .. b, IsRoom(k) PROVE \E i \in DOMAIN t : t[i] = k
  <2>1. k \in a + 1 .. b /\ k >= s[m]
    BY <1>4
  <2>2. PICK j \in DOMAIN s : s[j] = k
    BY <1>7, <2>1 DEF ListsRoom
  <2>3. ~(j < m)
    <3> SUFFICES ASSUME j < m PROVE FALSE
      OBVIOUS
    <3>1. s[j] < s[m]
      BY <1>0 DEF ListsRoom
    <3> QED BY <1>4, <2>1, <2>2, <3>1
  <2>4. PICK i : i = j - m + 1
    OBVIOUS
  <2>5. i \in 1 .. Len(s) - m + 1 /\ m + i - 1 = j
    <3>1. j \in Int /\ m \in Int /\ j >= m /\ j <= Len(s)
      BY <1>0, <2>2, <2>3
    <3>2. PICK n \in Nat : n = Len(s)
      BY <1>0
    <3>3. i \in 1 .. n - m + 1 /\ m + i - 1 = j
      BY <2>4, <3>1, <3>2
    <3> QED BY <3>2, <3>3
  <2>6. t[i] = k /\ i \in DOMAIN t
    BY <1>1, <2>2, <2>5
  <2> QED BY <2>6
<1>8. ListsRoom(t, s[m] - 1, b)
  BY <1>1, <1>5, <1>6, <1>7 DEF ListsRoom
<1> QED BY <1>0, <1>1, <1>3, <1>4, <1>8, <1>9

\* An answer has the room's last events, the state before them, and the
\* account data, as they have changed.
LEMMA AnswerTells ==
  ASSUME NEW from \in Nat, NEW h \in Nat, from <= h
  PROVE  LET res == answer(from, h) IN
         /\ res \in Answer /\ res.nextBatch = h
         /\ res.timeline # <<>> =>
              res.prevBatch \in from .. h /\ ListsRoom(res.timeline, res.prevBatch, h)
         /\ res.limited => res.timeline # <<>>
         /\ ~res.limited =>
              \A k \in from + 1 .. h : IsRoom(k) => \E i \in DOMAIN res.timeline : res.timeline[i] = k
         /\ SyncSize <= maxTimelineEntries => Len(res.timeline) <= maxTimelineEntries
         /\ \A s \in StateKey : Latest(s, res) = {} =>
              (IF res.state[s] # Nil THEN res.state[s] ELSE LastOf(s, from)) = LastOf(s, h)
         /\ \A t \in AccountType :
              /\ res.account[t] \in 0 .. h
              /\ (IF res.account[t] # Nil THEN res.account[t] ELSE LastOf(t, from)) = LastOf(t, h)
<1> DEFINE es == RoomEvents(from, h)
           limited == Len(es) > SyncSize
           tl == IF limited THEN SubSeq(es, Len(es) - SyncSize + 1, Len(es)) ELSE es
           start == IF tl = <<>> THEN h ELSE tl[1] - 1
           since(x, p) == IF LastOf(x, p) > from THEN LastOf(x, p) ELSE Nil
           st == [s \in StateKey |-> since(s, start)]
           ac == [t \in AccountType |-> since(t, h)]
<1>1. answer(from, h) = [limited |-> limited, timeline |-> tl, prevBatch |-> start, nextBatch |-> h,
                         state |-> st, account |-> ac]
  BY Zenon DEF answer
<1>2. ListsRoom(es, from, h) /\ es \in Seq(Nat) /\ Len(es) \in Nat /\ SyncSize \in Nat /\ SyncSize > 0
      /\ maxTimelineEntries \in Nat
  <2>1. ListsRoom(RoomEvents(from, h), from, h)
    BY RoomEventsLists
  <2>2. ListsRoom(es, from, h)
    BY <2>1
  <2> HIDE DEF es
  <2>3. es \in Seq(Nat) /\ Len(es) \in Nat
    BY <2>2 DEF ListsRoom
  <2> QED BY <2>2, <2>3, SavedSyncAssumption
<1> HIDE DEF es
<1>3. limited => tl # <<>> /\ Len(tl) = SyncSize /\ start \in from .. h /\ ListsRoom(tl, start, h)
  <2> SUFFICES ASSUME limited
               PROVE  tl # <<>> /\ Len(tl) = SyncSize /\ start \in from .. h /\ ListsRoom(tl, start, h)
    OBVIOUS
  <2>1. PICK m : m = Len(es) - SyncSize + 1
    OBVIOUS
  <2>2. m \in 1 .. Len(es) /\ tl = SubSeq(es, m, Len(es)) /\ Len(es) - m + 1 = SyncSize
    BY <1>2, <2>1
  <2>3. PICK t : t = SubSeq(es, m, Len(es))
    OBVIOUS
  <2>4. /\ ListsRoom(t, es[m] - 1, h) /\ t[1] = es[m] /\ t # <<>>
        /\ Len(t) = Len(es) - m + 1 /\ es[m] - 1 \in from .. h
    <3>1. ListsRoom(es, from, h) /\ m \in 1 .. Len(es) /\ t = SubSeq(es, m, Len(es))
      BY <1>2, <2>2, <2>3
    <3> HIDE DEF limited, tl, start
    <3>2. PICK s : s = es
      OBVIOUS
    <3>3. ListsRoom(s, from, h) /\ m \in 1 .. Len(s) /\ t = SubSeq(s, m, Len(s))
      BY <3>1, <3>2
    <3>4. /\ ListsRoom(t, s[m] - 1, h) /\ t[1] = s[m] /\ t # <<>>
          /\ Len(t) = Len(s) - m + 1 /\ s[m] - 1 \in from .. h
      BY <3>3, ListsEnd
    <3> QED BY <3>2, <3>4
  <2>5. tl = t
    BY <2>2, <2>3
  <2> HIDE DEF limited, tl
  <2>6. start = es[m] - 1
    BY <2>4, <2>5
  <2> HIDE DEF start
  <2> QED BY <2>2, <2>4, <2>5, <2>6
<1>4. ~limited => tl = es /\ Len(tl) <= SyncSize
  BY <1>2
<1>5. ~limited /\ tl # <<>> => start \in from .. h /\ ListsRoom(tl, start, h)
  <2> SUFFICES ASSUME ~limited, tl # <<>> PROVE start \in from .. h /\ ListsRoom(tl, start, h)
    OBVIOUS
  <2>1. tl = es
    BY <1>4
  <2> HIDE DEF limited, tl
  <2>2. es # <<>> /\ 1 \in 1 .. Len(es)
    BY <1>2, <2>1
  <2>3. PICK t : t = SubSeq(es, 1, Len(es))
    OBVIOUS
  <2>4. t = es
    BY <1>2, <2>3
  <2>5. ListsRoom(t, es[1] - 1, h) /\ es[1] - 1 \in from .. h
    BY <1>2, <2>2, <2>3, ListsEnd
  <2>6. start = es[1] - 1
    BY <2>1, <2>2
  <2> HIDE DEF start
  <2> QED BY <2>1, <2>4, <2>5, <2>6
<1>6. tl \in Seq(Nat) /\ start \in from .. h /\ ListsRoom(tl, start, h)
  <2>1. CASE limited
    BY <1>3, <2>1 DEF ListsRoom
  <2>2. CASE ~limited /\ tl # <<>>
    BY <1>5, <2>2 DEF ListsRoom
  <2>3. CASE ~limited /\ tl = <<>>
    <3>1. start = h
      BY <2>3
    <3> HIDE DEF start, tl
    <3> QED BY <2>3, <3>1 DEF ListsRoom
  <2> HIDE DEF limited, tl, start
  <2> QED BY <2>1, <2>2, <2>3
<1>7. ~limited => \A k \in from + 1 .. h : IsRoom(k) => \E i \in DOMAIN tl : tl[i] = k
  <2> HIDE DEF limited, tl
  <2> QED BY <1>2, <1>4 DEF ListsRoom
<1>8. Len(tl) <= SyncSize
  <2> HIDE DEF limited, tl, start
  <2> QED BY <1>2, <1>3, <1>4
<1>10. ASSUME NEW x, NEW p \in 0 .. h, from <= p
       PROVE  /\ since(x, p) \in 0 .. h
              /\ (IF since(x, p) # Nil THEN since(x, p) ELSE LastOf(x, from)) = LastOf(x, p)
  <2>1. LastOf(x, p) \in 0 .. p /\ (LastOf(x, p) > from \/ LastOf(x, p) = LastOf(x, from))
    BY <1>10, LastOfSince, LastOfIsLast
  <2> QED BY <2>1 DEF Nil
<1> HIDE DEF since
<1>11. \A t \in AccountType :
         /\ ac[t] \in 0 .. h
         /\ (IF ac[t] # Nil THEN ac[t] ELSE LastOf(t, from)) = LastOf(t, h)
  BY <1>10
<1>12. start \in 0 .. h /\ from <= start
  <2> HIDE DEF start
  <2> QED BY <1>6
<1>13. \A s \in StateKey :
         /\ st[s] \in 0 .. h
         /\ (IF st[s] # Nil THEN st[s] ELSE LastOf(s, from)) = LastOf(s, start)
  <2> HIDE DEF start
  <2> QED BY <1>10, <1>12
<1>14. answer(from, h).timeline = tl /\ answer(from, h).state = st
       /\ answer(from, h).account = ac /\ answer(from, h).nextBatch = h
       /\ answer(from, h).prevBatch = start /\ answer(from, h).limited = limited
  <2> HIDE DEF tl, st, ac, start, limited
  <2> QED BY <1>1
<1>15. answer(from, h) \in Answer
  <2>1. limited \in BOOLEAN
    OBVIOUS
  <2>2. st \in [StateKey -> Nat] /\ ac \in [AccountType -> Nat]
    <3>1. st = [s \in StateKey |-> st[s]] /\ ac = [t \in AccountType |-> ac[t]]
      OBVIOUS
    <3> HIDE DEF st, ac
    <3> QED BY <1>11, <1>13, <3>1
  <2> HIDE DEF tl, st, ac, start, limited
  <2> QED BY <1>1, <1>6, <2>1, <2>2 DEF Answer
<1>16. ASSUME NEW s \in StateKey, Latest(s, answer(from, h)) = {} PROVE LastOf(s, start) = LastOf(s, h)
  <2> HIDE DEF tl, st, ac, start, limited
  <2>1. ASSUME LastOf(s, h) > start PROVE FALSE
    <3>1. PICK k : k = LastOf(s, h)
      OBVIOUS
    <3>2. k \in start + 1 .. h /\ stream[k] = s
      BY <1>12, <2>1, <3>1, LastOfIsLast DEF Nil
    <3>3. IsRoom(k)
      BY <3>2, SavedSyncAssumption DEF IsRoom
    <3>4. PICK i \in DOMAIN tl : tl[i] = k
      BY <1>6, <3>2, <3>3 DEF ListsRoom
    <3>5. i \in Latest(s, answer(from, h))
      BY <1>14, <3>2, <3>4 DEF Latest
    <3> QED BY <1>16, <3>5
  <2>2. start \in Nat /\ start <= h
    BY <1>12
  <2> QED BY <2>1, <2>2, LastOfSince
<1> HIDE DEF tl, st, ac, start, limited
<1> QED BY <1>2, <1>3, <1>6, <1>7, <1>8, <1>11, <1>13, <1>14, <1>15, <1>16

\* getJSON has the timeline from its first event, which has a token, and the
\* state there; what is not in the timeline is as in the current state.
LEMMA JsonTells ==
  ASSUME NEW accu \in Accumulator, NEW p \in Nat, accu.nextBatch = p, Kept(accu.timeline, p),
         \A s \in StateKey : accu.state[s] = LastOf(s, p)
  PROVE  LET json == getJSON(accu) IN
         /\ json \in Answer /\ json.limited = FALSE /\ json.nextBatch = p
         /\ json.account = accu.account /\ Len(json.timeline) = Len(accu.timeline)
         /\ json.timeline # <<>> =>
              json.prevBatch \in 0 .. p /\ ListsRoom(json.timeline, json.prevBatch, p)
         /\ \A s \in StateKey : Latest(s, json) = {} => json.state[s] = LastOf(s, p)
         /\ \A s \in StateKey : json.timeline # <<>> =>
              json.state[s] = LastOf(s, json.prevBatch) \/ LastOf(s, json.prevBatch) = Nil
<1> DEFINE withToken == {i \in DOMAIN accu.timeline : accu.timeline[i].token # NoToken}
           first == IF withToken = {} THEN Len(accu.timeline) + 1
                    ELSE CHOOSE i \in withToken : \A j \in withToken : i <= j
           tl == [i \in 1 .. Len(accu.timeline) - first + 1 |-> accu.timeline[first + i - 1].event]
           earliest(s) == {i \in DOMAIN tl : stream[tl[i]] = s}
           back(s) == LET e == tl[CHOOSE i \in earliest(s) : \A j \in earliest(s) : i <= j]
                      IN  IF prevContent(e) # Nil THEN prevContent(e) ELSE e
           st == [s \in StateKey |-> IF earliest(s) = {} THEN accu.state[s] ELSE back(s)]
           start == IF withToken = {} THEN NoToken ELSE accu.timeline[first].token
<1>1. getJSON(accu) = [state |-> st, timeline |-> tl, prevBatch |-> start, limited |-> FALSE,
                      account |-> accu.account, nextBatch |-> accu.nextBatch]
  BY Zenon DEF getJSON
<1>2. accu.timeline \in Seq(Held) /\ Len(accu.timeline) \in Nat
      /\ accu.state \in [StateKey -> Nat] /\ accu.account \in [AccountType -> Nat]
  BY DEF Accumulator
<1>3. first = 1 /\ (accu.timeline # <<>> => start = accu.timeline[1].token) /\ start \in Int
  <2>1. CASE accu.timeline = <<>>
    <3>1. withToken = {}
      BY <2>1
    <3> QED BY <1>2, <2>1, <3>1 DEF NoToken
  <2>2. CASE accu.timeline # <<>>
    <3>1. 1 \in withToken /\ \A j \in withToken : j \in Nat /\ 1 <= j
      BY <1>2, <2>2 DEF Kept
    <3>2. first = 1
      <4> HIDE DEF withToken
      <4>1. \A z \in withToken : (\A j \in withToken : z <= j) => z = 1
        BY <3>1
      <4>2. \E z \in withToken : \A j \in withToken : z <= j
        BY <3>1
      <4>3. first = CHOOSE i \in withToken : \A j \in withToken : i <= j
        BY <3>1
      <4> HIDE DEF first
      <4> QED BY <4>1, <4>2, <4>3
    <3>3. accu.timeline[1].token \in Int
      <4>1. accu.timeline[1] \in Held
        BY <1>2, <3>1
      <4> QED BY <4>1 DEF Held, NoToken
    <3>4. start = accu.timeline[first].token
      <4> HIDE DEF first
      <4> QED BY <3>1
    <3> HIDE DEF first, start
    <3> QED BY <3>2, <3>3, <3>4
  <2> QED BY <2>1, <2>2
<1> HIDE DEF first, start, withToken
<1>4. /\ tl \in Seq(Nat) /\ Len(tl) = Len(accu.timeline) /\ DOMAIN tl = DOMAIN accu.timeline
      /\ \A i \in DOMAIN accu.timeline : tl[i] = accu.timeline[i].event
  <2>1. ASSUME NEW i \in 1 .. Len(accu.timeline)
        PROVE  accu.timeline[first + i - 1].event = accu.timeline[i].event /\ accu.timeline[i].event \in Nat
    <3>1. first + i - 1 = i
      BY <1>3
    <3>2. accu.timeline[i] \in Held
      BY <1>2
    <3> QED BY <3>1, <3>2 DEF Held
  <2>2. Len(accu.timeline) - first + 1 = Len(accu.timeline)
    BY <1>2, <1>3
  <2>3. tl = [i \in 1 .. Len(accu.timeline) |-> accu.timeline[i].event]
    BY <2>1, <2>2
  <2> HIDE DEF tl
  <2> QED BY <1>2, <2>1, <2>3
<1>5. ASSUME tl # <<>>
      PROVE  start \in 0 .. p /\ ListsRoom(tl, start, p)
  <2> HIDE DEF tl
  <2>1. accu.timeline # <<>> /\ 1 \in DOMAIN accu.timeline
    BY <1>2, <1>4, <1>5
  <2>2. /\ start # NoToken /\ start < accu.timeline[1].event
        /\ \A k \in start + 1 .. p : IsRoom(k) =>
             \E j \in 1 .. Len(accu.timeline) : accu.timeline[j].event = k
    BY <1>3, <2>1 DEF Kept
  <2>3. accu.timeline[1] \in Held /\ accu.timeline[1].event \in 1 .. p
    BY <1>2, <2>1 DEF Kept
  <2>4. start \in 0 .. p
    BY <1>3, <2>1, <2>2, <2>3 DEF Held
  <2>5. ASSUME NEW i \in DOMAIN tl, NEW j \in DOMAIN tl, i < j PROVE tl[i] < tl[j]
    <3>1. accu.timeline[i].event < accu.timeline[j].event
      BY <1>4, <2>5 DEF Kept
    <3> QED BY <1>4, <3>1
  <2>6. ASSUME NEW i \in DOMAIN tl PROVE tl[i] \in start + 1 .. p /\ IsRoom(tl[i])
    <3>1. accu.timeline[i].event \in 1 .. p /\ IsRoom(accu.timeline[i].event)
      BY <1>4 DEF Kept
    <3>2. accu.timeline[1].event <= accu.timeline[i].event
      <4>1. CASE i = 1
        BY <2>3, <4>1
      <4>2. CASE 1 < i
        <5>1. accu.timeline[1].event < accu.timeline[i].event
          BY <1>4, <2>1, <4>2 DEF Kept
        <5> QED BY <2>3, <3>1, <5>1
      <4>3. i \in 1 .. Len(accu.timeline)
        BY <1>2, <1>4
      <4> QED BY <1>2, <4>1, <4>2, <4>3
    <3> QED BY <1>4, <2>2, <2>3, <2>4, <3>1, <3>2
  <2>7. ASSUME NEW k \in start + 1 .. p, IsRoom(k) PROVE \E i \in DOMAIN tl : tl[i] = k
    <3>1. PICK j \in 1 .. Len(accu.timeline) : accu.timeline[j].event = k
      BY <2>2, <2>7
    <3>2. j \in DOMAIN accu.timeline
      BY <1>2
    <3> QED BY <1>4, <3>1, <3>2
  <2> QED BY <1>4, <2>4, <2>5, <2>6, <2>7 DEF ListsRoom
<1>6. \A i \in DOMAIN tl : tl[i] \in 1 .. p
  BY <1>4 DEF Kept
<1>7. ASSUME NEW s \in StateKey, earliest(s) # {}
      PROVE  /\ back(s) \in Nat
             /\ back(s) = LastOf(s, start) \/ LastOf(s, start) = Nil
  <2>1. PICK m : m = CHOOSE i \in earliest(s) : \A j \in earliest(s) : i <= j
    OBVIOUS
  <2>2. m \in earliest(s) /\ \A j \in earliest(s) : m <= j
    <3>1. \E k \in earliest(s) : \A j \in earliest(s) : k <= j
      <4>1. earliest(s) \subseteq 1 .. Len(accu.timeline)
        <5> HIDE DEF tl
        <5>1. DOMAIN tl = 1 .. Len(accu.timeline)
          BY <1>2, <1>4
        <5> QED BY <5>1
      <4> HIDE DEF earliest
      <4> QED BY <1>2, <1>7, <4>1, Least
    <3> HIDE DEF earliest
    <3> QED BY <2>1, <3>1
  <2>3. PICK e : e = tl[m]
    OBVIOUS
  <2>4. m \in DOMAIN tl /\ stream[e] = s /\ e \in 1 .. p /\ tl # <<>>
    <3> HIDE DEF tl
    <3>1. m \in DOMAIN tl /\ stream[tl[m]] = s
      BY <2>2
    <3>2. tl # <<>>
      BY <1>4, <3>1
    <3> QED BY <1>6, <2>3, <3>1, <3>2
  <2>5. back(s) = IF prevContent(e) # Nil THEN prevContent(e) ELSE e
    <3> HIDE DEF tl, earliest
    <3>1. e = tl[CHOOSE i \in earliest(s) : \A j \in earliest(s) : i <= j]
      BY <2>1, <2>3
    <3> QED BY <3>1
  <2>6. prevContent(e) = LastOf(s, e - 1)
    BY <2>4 DEF prevContent
  <2>7. start \in 0 .. p /\ ListsRoom(tl, start, p)
    BY <1>5, <2>4
  <2> HIDE DEF tl
  <2>8. start <= e - 1
    BY <2>3, <2>4, <2>7 DEF ListsRoom
  <2>9. LastOf(s, e - 1) = LastOf(s, start)
    <3>1. e - 1 \in Nat /\ start \in Nat
      BY <2>4, <2>7
    <3>2. ASSUME LastOf(s, e - 1) > start PROVE FALSE
      <4>1. PICK k : k = LastOf(s, e - 1)
        OBVIOUS
      <4>2. k \in start + 1 .. e - 1 /\ stream[k] = s
        BY <2>7, <3>1, <3>2, <4>1, LastOfIsLast DEF Nil
      <4>3. IsRoom(k) /\ k \in start + 1 .. p
        BY <2>4, <2>7, <4>2, SavedSyncAssumption DEF IsRoom
      <4>4. PICK j \in DOMAIN tl : tl[j] = k
        BY <2>7, <4>3 DEF ListsRoom
      <4>5. j \in earliest(s)
        BY <4>2, <4>4
      <4>6. m <= j
        BY <2>2, <4>5
      <4>7. m \in Nat /\ j \in Nat
        BY <1>2, <1>4, <2>4
      <4>8. tl[m] <= tl[j]
        <5>1. CASE m = j
          BY <2>3, <2>4, <5>1
        <5>2. CASE m < j
          <6>1. tl[m] < tl[j]
            BY <2>4, <2>7, <5>2 DEF ListsRoom
          <6> QED BY <2>3, <2>4, <4>2, <4>4, <6>1, <2>7
        <5> QED BY <4>6, <4>7, <5>1, <5>2
      <4> QED BY <2>3, <2>4, <2>7, <4>2, <4>4, <4>8
    <3> QED BY <2>8, <3>1, <3>2, LastOfSince
  <2>10. LastOf(s, e - 1) \in Nat
    BY <2>4, LastOfIsLast
  <2> HIDE DEF back
  <2> QED BY <2>4, <2>5, <2>6, <2>9, <2>10 DEF Nil
<1>8. \A s \in StateKey : st[s] = IF earliest(s) = {} THEN accu.state[s] ELSE back(s)
  OBVIOUS
<1>9. st \in [StateKey -> Nat]
  <2>1. \A s \in StateKey : (IF earliest(s) = {} THEN accu.state[s] ELSE back(s)) \in Nat
    <3> HIDE DEF earliest, back
    <3> QED BY <1>2, <1>7
  <2> HIDE DEF earliest, back
  <2> QED BY <2>1
<1>10. ASSUME NEW s \in StateKey, earliest(s) = {}, tl # <<>>
       PROVE  accu.state[s] = LastOf(s, start)
  <2>1. start \in 0 .. p /\ ListsRoom(tl, start, p)
    BY <1>5, <1>10
  <2>2. ASSUME LastOf(s, p) > start PROVE FALSE
    <3>1. PICK k : k = LastOf(s, p)
      OBVIOUS
    <3>2. k \in start + 1 .. p /\ stream[k] = s
      BY <2>1, <2>2, <3>1, LastOfIsLast DEF Nil
    <3>3. IsRoom(k)
      BY <3>2, SavedSyncAssumption DEF IsRoom
    <3> HIDE DEF tl
    <3>4. PICK j \in DOMAIN tl : tl[j] = k
      BY <2>1, <3>2, <3>3 DEF ListsRoom
    <3> QED BY <1>10, <3>2, <3>4
  <2>3. start \in Nat /\ start <= p
    BY <2>1
  <2>4. LastOf(s, p) = LastOf(s, start)
    BY <2>2, <2>3, LastOfSince
  <2> QED BY <2>4
<1>11. \A s \in StateKey : Latest(s, getJSON(accu)) = earliest(s)
  <2>1. getJSON(accu).timeline = tl
    <3> HIDE DEF st, tl
    <3> QED BY <1>1
  <2> HIDE DEF tl
  <2> QED BY <2>1 DEF Latest
<1> HIDE DEF st, tl, earliest, back
<1>12. getJSON(accu) \in Answer
  BY <1>1, <1>2, <1>3, <1>4, <1>9 DEF Answer
<1>13. /\ getJSON(accu).limited = FALSE /\ getJSON(accu).nextBatch = p
       /\ getJSON(accu).account = accu.account /\ getJSON(accu).timeline = tl
       /\ getJSON(accu).prevBatch = start /\ getJSON(accu).state = st
  BY <1>1
<1> QED BY <1>4, <1>5, <1>7, <1>8, <1>10, <1>11, <1>12, <1>13

-----------------------------------------------------------------------------
(* Saved sync: the invariant.                                              *)

\* The accumulator is what the server has at its start.
AccRight(accu) ==
  /\ accu \in Accumulator
  /\ accu.nextBatch \in 0 .. Len(stream)
  /\ Kept(accu.timeline, accu.nextBatch) /\ Fits(accu.timeline)
  /\ \A s \in StateKey : accu.state[s] = LastOf(s, accu.nextBatch)
  /\ \A t \in AccountType : accu.account[t] \in 0 .. Len(stream)

\* A saved answer is, too.
JsonRight(json) ==
  /\ json \in Answer /\ json.limited = FALSE
  /\ json.nextBatch \in 0 .. Len(stream)
  /\ json.timeline # <<>> =>
       /\ json.prevBatch \in 0 .. json.nextBatch
       /\ ListsRoom(json.timeline, json.prevBatch, json.nextBatch)
  /\ \A s \in StateKey : Latest(s, json) = {} => json.state[s] = LastOf(s, json.nextBatch)
  /\ Fits(json.timeline)
  /\ \A t \in AccountType : json.account[t] \in 0 .. Len(stream)

Covers(account, p) == \A t \in AccountType : LastOf(t, p) <= account[t]

\* A transaction of a save, for what is in the database.
Saves(t) ==
  /\ t.to \in {"sync", "account"}
  /\ JsonRight(t.what)
  /\ db.sync.nextBatch <= t.what.nextBatch /\ t.what.nextBatch <= data.nextBatch
  /\ ~broken => Covers(t.what.account, t.what.nextBatch)
  /\ t.to = "sync" => \/ \E u \in saving : u.to = "account"
                      \/ broken
                      \/ Covers(db.account, t.what.nextBatch)

SavedTypes ==
  /\ stream \in Seq(StateKey \cup AccountType \cup {Message})
  /\ done \in [saves : Nat, restarts : Nat]
  /\ broken \in BOOLEAN
  /\ db \in [sync : Answer, account : [AccountType -> Nat]]
  /\ \A t \in AccountType : db.account[t] <= Len(stream)
  /\ saving # {} => done.saves > 0

\* The saved answer's start has its account data, or its transaction is to come.
SavedCovers ==
  ~broken => /\ Covers(data.account, data.nextBatch)
             /\ \/ Covers(db.account, db.sync.nextBatch)
                \/ \E t \in saving : t.to = "account" /\ t.what.nextBatch = db.sync.nextBatch

SavedInv ==
  /\ SavedTypes
  /\ AccRight(data)
  /\ JsonRight(db.sync) /\ db.sync.nextBatch <= data.nextBatch
  /\ \A t \in saving : Saves(t)
  /\ \A t, u \in saving : t.what = u.what /\ (t.to = u.to => t = u)
  /\ SavedCovers

\* What is right for the entries there are stays right when there are more.
LEMMA LongerStream ==
  ASSUME stream \in Seq(StateKey \cup AccountType \cup {Message}),
         stream' \in Seq(StateKey \cup AccountType \cup {Message}),
         Len(stream) <= Len(stream)', \A k \in 1 .. Len(stream) : stream'[k] = stream[k]
  PROVE  /\ \A x, p : p \in 0 .. Len(stream) => LastOf(x, p)' = LastOf(x, p)
         /\ \A accu : AccRight(accu) => AccRight(accu)'
         /\ \A json : JsonRight(json) => JsonRight(json)'
<1>0. Len(stream) \in Nat /\ Len(stream)' \in Nat
  OBVIOUS
<1>1. ASSUME NEW x, NEW p, p \in 0 .. Len(stream) PROVE LastOf(x, p)' = LastOf(x, p)
  <2> DEFINE ks == {k \in 1 .. p : stream[k] = x}
             kz == {k \in 1 .. p : stream'[k] = x}
  <2>1. \A k \in 1 .. p : stream'[k] = stream[k]
    BY <1>0, <1>1
  <2>2. ks = kz
    BY <2>1
  <2>3. LastOf(x, p) = IF ks = {} THEN Nil ELSE CHOOSE k \in ks : \A j \in ks : j <= k
    BY DEF LastOf
  <2>4. LastOf(x, p)' = IF kz = {} THEN Nil ELSE CHOOSE k \in kz : \A j \in kz : j <= k
    BY DEF LastOf, Nil
  <2> HIDE DEF ks, kz
  <2> QED BY <2>2, <2>3, <2>4
<1>2. \A k \in 1 .. Len(stream) : IsRoom(k)' <=> IsRoom(k)
  BY DEF IsRoom
<1>3. ASSUME NEW s, NEW a \in Nat, NEW b \in 0 .. Len(stream), ListsRoom(s, a, b) PROVE ListsRoom(s, a, b)'
  <2>1. \A k \in a + 1 .. b : k \in 1 .. Len(stream)
    BY <1>0
  <2> QED BY <1>2, <1>3, <2>1 DEF ListsRoom
<1>4. ASSUME NEW accu, AccRight(accu) PROVE AccRight(accu)'
  <2>1. accu.nextBatch \in 0 .. Len(stream) /\ accu.nextBatch \in 0 .. Len(stream)'
    BY <1>0, <1>4 DEF AccRight
  <2>2. \A s \in StateKey : accu.state[s] = LastOf(s, accu.nextBatch)'
    BY <1>1, <1>4, <2>1 DEF AccRight
  <2>3. Kept(accu.timeline, accu.nextBatch)'
    <3>1. Kept(accu.timeline, accu.nextBatch)
      BY <1>4 DEF AccRight
    <3>2. \A i \in DOMAIN accu.timeline : accu.timeline[i].event \in 1 .. Len(stream)
      BY <1>0, <2>1, <3>1 DEF Kept
    <3>3. \A i \in DOMAIN accu.timeline : accu.timeline[i].token # NoToken => accu.timeline[i].token \in Nat
      <4>1. \A i \in DOMAIN accu.timeline : accu.timeline[i] \in Held
        BY <3>1 DEF Kept
      <4> QED BY <4>1 DEF Held
    <3>4. \A i \in DOMAIN accu.timeline : accu.timeline[i].token # NoToken =>
            \A k \in accu.timeline[i].token + 1 .. accu.nextBatch : k \in 1 .. Len(stream)
      BY <1>0, <2>1, <3>3
    <3> QED BY <1>2, <3>1, <3>2, <3>4 DEF Kept
  <2>4. \A t \in AccountType : accu.account[t] \in 0 .. Len(stream)'
    BY <1>0, <1>4 DEF AccRight
  <2> QED BY <1>4, <2>1, <2>2, <2>3, <2>4 DEF AccRight
<1>5. ASSUME NEW json, JsonRight(json) PROVE JsonRight(json)'
  <2>1. json.nextBatch \in 0 .. Len(stream) /\ json.nextBatch \in 0 .. Len(stream)'
    BY <1>0, <1>5 DEF JsonRight
  <2>2. json.timeline # <<>> =>
          json.prevBatch \in 0 .. json.nextBatch /\ ListsRoom(json.timeline, json.prevBatch, json.nextBatch)'
    BY <1>3, <1>5, <2>1 DEF JsonRight
  <2>3. \A s \in StateKey : Latest(s, json)' = Latest(s, json)
    <3>1. \A i \in DOMAIN json.timeline : json.timeline[i] \in 1 .. Len(stream)
      <4>1. CASE json.timeline = <<>>
        BY <4>1
      <4>2. CASE json.timeline # <<>>
        BY <1>0, <1>5, <2>1, <4>2 DEF JsonRight, ListsRoom
      <4> QED BY <4>1, <4>2
    <3> QED BY <3>1 DEF Latest
  <2>4. \A s \in StateKey : Latest(s, json)' = {} => json.state[s] = LastOf(s, json.nextBatch)'
    BY <1>1, <1>5, <2>1, <2>3 DEF JsonRight
  <2>5. \A t \in AccountType : json.account[t] \in 0 .. Len(stream)'
    BY <1>0, <1>5 DEF JsonRight
  <2> QED BY <1>5, <2>1, <2>2, <2>4, <2>5 DEF JsonRight
<1> QED BY <1>1, <1>4, <1>5

\* What a right accumulator saves is right.
LEMMA JsonIsRight ==
  ASSUME NEW accu, AccRight(accu), Len(stream) \in Nat
  PROVE  /\ JsonRight(getJSON(accu))
         /\ getJSON(accu).nextBatch = accu.nextBatch /\ getJSON(accu).account = accu.account
<1>1. PICK p \in Nat : p = accu.nextBatch
  BY DEF AccRight
<1>2. accu \in Accumulator /\ Kept(accu.timeline, p) /\ \A s \in StateKey : accu.state[s] = LastOf(s, p)
  BY <1>1 DEF AccRight
<1>3. PICK json : json = getJSON(accu)
  OBVIOUS
<1>4. /\ json \in Answer /\ json.limited = FALSE /\ json.nextBatch = p
      /\ json.account = accu.account /\ Len(json.timeline) = Len(accu.timeline)
      /\ json.timeline # <<>> =>
           json.prevBatch \in 0 .. p /\ ListsRoom(json.timeline, json.prevBatch, p)
      /\ \A s \in StateKey : Latest(s, json) = {} => json.state[s] = LastOf(s, p)
  BY <1>1, <1>2, <1>3, JsonTells
<1> QED BY <1>1, <1>3, <1>4 DEF JsonRight, AccRight, Fits

\* The invariant holds at first.
LEMMA SavedInitInv == ASSUME SavedInit PROVE SavedInv
<1>1. /\ stream = <<>> /\ saving = {} /\ broken = FALSE
      /\ done = [saves |-> 0, restarts |-> 0]
      /\ data = [state |-> [s \in StateKey |-> Nil], timeline |-> <<>>,
                 account |-> [t \in AccountType |-> Nil], nextBatch |-> 0]
      /\ db = [sync |-> getJSON(data), account |-> Empty.account]
  BY DEF SavedInit, Empty
<1>2. \A x : LastOf(x, 0) = Nil
  BY LastOfIsLast DEF Nil
<1>3. data \in Accumulator /\ data.nextBatch = 0 /\ data.timeline = <<>>
      /\ (\A s \in StateKey : data.state[s] = Nil) /\ (\A t \in AccountType : data.account[t] = Nil)
      /\ data.account = [t \in AccountType |-> Nil] /\ Empty.account = [t \in AccountType |-> Nil]
  BY <1>1 DEF Accumulator, Nil, Empty
<1>4. Kept(data.timeline, 0) /\ Fits(data.timeline)
  BY <1>3, SavedSyncAssumption DEF Kept, Fits
<1>5. AccRight(data)
  BY <1>1, <1>2, <1>3, <1>4 DEF AccRight, Nil
<1>6. PICK accu : accu = data
  OBVIOUS
<1>7. JsonRight(getJSON(accu)) /\ getJSON(accu).nextBatch = 0 /\ getJSON(accu) \in Answer
  <2>1. AccRight(accu) /\ accu.nextBatch = 0 /\ Len(stream) \in Nat
    BY <1>1, <1>3, <1>5, <1>6
  <2> QED BY <2>1, JsonIsRight DEF JsonRight
<1>8. db.sync = getJSON(accu) /\ db \in [sync : Answer, account : [AccountType -> Nat]]
      /\ \A t \in AccountType : db.account[t] = Nil
  BY <1>1, <1>3, <1>6, <1>7 DEF Nil
<1>9. SavedTypes
  <2>1. stream \in Seq(StateKey \cup AccountType \cup {Message}) /\ Len(stream) = 0
    BY <1>1
  <2>2. done \in [saves : Nat, restarts : Nat]
    BY <1>1
  <2>3. \A t \in AccountType : db.account[t] <= Len(stream)
    BY <1>8, <2>1 DEF Nil
  <2>4. db \in [sync : Answer, account : [AccountType -> Nat]] /\ broken \in BOOLEAN /\ saving = {}
    BY <1>1, <1>8
  <2> QED BY <2>1, <2>2, <2>3, <2>4 DEF SavedTypes
<1>10. Covers(data.account, data.nextBatch) /\ Covers(db.account, db.sync.nextBatch)
  BY <1>2, <1>3, <1>7, <1>8 DEF Covers, Nil
<1> QED BY <1>1, <1>3, <1>5, <1>7, <1>8, <1>9, <1>10 DEF SavedInv, SavedCovers

\* An entry of the stream.
LEMMA StreamEntryInv ==
  ASSUME SavedInv, NEW x \in StateKey \cup AccountType \cup {Message}, StreamEntry(x)
  PROVE  SavedInv'
<1>1. /\ stream' = Append(stream, x) /\ data' = data /\ saving' = saving /\ db' = db
      /\ done' = done /\ broken' = broken
  BY DEF StreamEntry
<1>2. /\ stream' \in Seq(StateKey \cup AccountType \cup {Message})
      /\ stream \in Seq(StateKey \cup AccountType \cup {Message})
      /\ Len(stream) \in Nat /\ Len(stream)' = Len(stream) + 1
      /\ \A k \in 1 .. Len(stream) : stream'[k] = stream[k]
  BY <1>1 DEF SavedInv, SavedTypes
<1>3. /\ \A z, p : p \in 0 .. Len(stream) => LastOf(z, p)' = LastOf(z, p)
      /\ \A accu : AccRight(accu) => AccRight(accu)'
      /\ \A json : JsonRight(json) => JsonRight(json)'
  BY <1>2, LongerStream
<1>4. \A account, p : p \in 0 .. Len(stream) /\ Covers(account, p) => Covers(account, p)'
  BY <1>3 DEF Covers
<1> HIDE DEF StreamEntry
<1>5. PICK accu, base, tr, cut : accu = data /\ base = db /\ tr = saving /\ cut = broken
  OBVIOUS
<1>6. AccRight(accu)' /\ JsonRight(base.sync)' /\ base.sync.nextBatch <= accu.nextBatch
      /\ accu.nextBatch \in 0 .. Len(stream) /\ base.sync.nextBatch \in 0 .. Len(stream)
  BY <1>3, <1>5 DEF SavedInv, AccRight, JsonRight
<1>7. \A t \in tr : Saves(t)'
  <2> SUFFICES ASSUME NEW t \in tr PROVE Saves(t)'
    OBVIOUS
  <2>1. Saves(t)
    BY <1>5 DEF SavedInv
  <2>2. JsonRight(t.what)' /\ t.what.nextBatch \in 0 .. Len(stream)
    BY <1>3, <2>1 DEF Saves, JsonRight
  <2>3. Covers(t.what.account, t.what.nextBatch) => Covers(t.what.account, t.what.nextBatch)'
    BY <1>4, <2>2
  <2>4. Covers(base.account, t.what.nextBatch) => Covers(base.account, t.what.nextBatch)'
    BY <1>4, <2>2
  <2> QED BY <1>1, <1>5, <2>1, <2>2, <2>3, <2>4 DEF Saves
<1>8. SavedCovers'
  <2>1. Covers(accu.account, accu.nextBatch) => Covers(accu.account, accu.nextBatch)'
    BY <1>4, <1>6
  <2>2. Covers(base.account, base.sync.nextBatch) => Covers(base.account, base.sync.nextBatch)'
    BY <1>4, <1>6
  <2> QED BY <1>1, <1>5, <2>1, <2>2 DEF SavedInv, SavedCovers
<1>9. SavedTypes'
  BY <1>1, <1>2 DEF SavedInv, SavedTypes
<1>10. data' = accu /\ db' = base /\ saving' = tr /\ broken' = cut
  BY <1>1, <1>5
<1> QED BY <1>1, <1>6, <1>7, <1>8, <1>9, <1>10 DEF SavedInv

\* The next answer to /sync.
LEMMA SetSyncDataInv ==
  ASSUME SavedInv, NEW h \in Nat, setSyncData(h)
  PROVE  SavedInv'
<1>1. /\ h \in data.nextBatch + 1 .. Len(stream)
      /\ data' = accumulate(data, answer(data.nextBatch, h))
      /\ stream' = stream /\ saving' = saving /\ db' = db /\ done' = done /\ broken' = broken
  BY DEF setSyncData
<1>2. AccRight(data) /\ Len(stream) \in Nat
  BY DEF SavedInv, SavedTypes
<1>3. PICK accu, from : accu = data /\ from = data.nextBatch
  OBVIOUS
<1>4. AccRight(accu) /\ accu.nextBatch = from /\ from \in Nat /\ from <= h /\ h \in 1 .. Len(stream)
  BY <1>1, <1>2, <1>3 DEF AccRight
<1>5. PICK res : res = answer(from, h)
  OBVIOUS
<1>6. /\ res \in Answer /\ res.nextBatch = h
      /\ res.timeline # <<>> =>
           res.prevBatch \in from .. h /\ ListsRoom(res.timeline, res.prevBatch, h)
      /\ res.limited => res.timeline # <<>>
      /\ ~res.limited =>
           \A k \in from + 1 .. h : IsRoom(k) => \E i \in DOMAIN res.timeline : res.timeline[i] = k
      /\ SyncSize <= maxTimelineEntries => Len(res.timeline) <= maxTimelineEntries
      /\ \A s \in StateKey : Latest(s, res) = {} =>
           (IF res.state[s] # Nil THEN res.state[s] ELSE LastOf(s, from)) = LastOf(s, h)
      /\ \A t \in AccountType :
           /\ res.account[t] \in 0 .. h
           /\ (IF res.account[t] # Nil THEN res.account[t] ELSE LastOf(t, from)) = LastOf(t, h)
  <2>1. from \in Nat /\ from <= h
    BY <1>4
  <2> HIDE DEF setSyncData
  <2>2. LET r == answer(from, h) IN
        /\ r \in Answer /\ r.nextBatch = h
        /\ r.timeline # <<>> =>
             r.prevBatch \in from .. h /\ ListsRoom(r.timeline, r.prevBatch, h)
        /\ r.limited => r.timeline # <<>>
        /\ ~r.limited =>
             \A k \in from + 1 .. h : IsRoom(k) => \E i \in DOMAIN r.timeline : r.timeline[i] = k
        /\ SyncSize <= maxTimelineEntries => Len(r.timeline) <= maxTimelineEntries
        /\ \A s \in StateKey : Latest(s, r) = {} =>
             (IF r.state[s] # Nil THEN r.state[s] ELSE LastOf(s, from)) = LastOf(s, h)
        /\ \A t \in AccountType :
             /\ r.account[t] \in 0 .. h
             /\ (IF r.account[t] # Nil THEN r.account[t] ELSE LastOf(t, from)) = LastOf(t, h)
    BY <2>1, AnswerTells
  <2> QED BY <1>5, <2>2
<1>7. PICK new : new = accumulate(accu, res)
  OBVIOUS
<1>8. /\ new \in Accumulator
      /\ Kept(new.timeline, h) /\ Fits(new.timeline)
      /\ \A s \in StateKey : new.state[s] = LastOf(s, h)
      /\ \A t \in AccountType :
           new.account[t] = IF res.account[t] # Nil THEN res.account[t] ELSE accu.account[t]
      /\ new.nextBatch = h
  <2>1. PICK kept : kept = IF res.limited THEN <<>> ELSE accu.timeline
    OBVIOUS
  <2>2. PICK q : q = IF res.limited THEN res.prevBatch ELSE from
    OBVIOUS
  <2>3. q \in Nat /\ q <= h /\ from <= q
    BY <1>4, <1>6, <2>2
  <2>4. Kept(kept, q)
    <3>1. CASE res.limited
      BY <2>1, <3>1 DEF Kept
    <3>2. CASE ~res.limited
      BY <1>4, <2>1, <2>2, <3>2 DEF AccRight
    <3> QED BY <3>1, <3>2
  <2>5. res.timeline # <<>> =>
          res.prevBatch \in q .. h /\ ListsRoom(res.timeline, res.prevBatch, h)
    BY <1>4, <1>6, <2>2
  <2>6. \A k \in q + 1 .. h : IsRoom(k) => \E i \in DOMAIN res.timeline : res.timeline[i] = k
    <3>1. CASE res.limited
      BY <1>6, <2>2, <3>1 DEF ListsRoom
    <3>2. CASE ~res.limited
      BY <1>6, <2>2, <3>2
    <3> QED BY <3>1, <3>2
  <2>7. \A s \in StateKey : Latest(s, res) = {} =>
          (IF res.state[s] # Nil THEN res.state[s] ELSE accu.state[s]) = LastOf(s, h)
    BY <1>4, <1>6 DEF AccRight
  <2>8. accu \in Accumulator /\ Fits(accu.timeline) /\ h \in Nat
    BY <1>4 DEF AccRight
  <2>9. Continues(accu, res, kept, q, h)
    BY <1>6, <2>1, <2>4, <2>5, <2>6, <2>7, <2>8 DEF Continues
  <2>10. Adds(new, accu, res, h)
    BY <1>6, <1>7, <2>3, <2>8, <2>9, Accumulated
  <2> QED BY <1>6, <2>10 DEF Adds
<1>9. AccRight(new)
  <2>1. \A t \in AccountType : new.account[t] \in 0 .. Len(stream)
    BY <1>4, <1>6, <1>8 DEF AccRight
  <2> QED BY <1>4, <1>8, <2>1 DEF AccRight
<1>10. Covers(accu.account, from) => Covers(new.account, h)
  <2> SUFFICES ASSUME Covers(accu.account, from), NEW t \in AccountType
               PROVE  LastOf(t, h) <= new.account[t]
    BY DEF Covers
  <2>1. LastOf(t, from) <= accu.account[t] /\ LastOf(t, h) \in Nat /\ accu.account[t] \in Nat
    BY <1>4, LastOfIsLast DEF Covers, AccRight
  <2> QED BY <1>6, <1>8, <2>1
<1>11. data' = new
  BY <1>1, <1>3, <1>5, <1>7
<1>12. AccRight(data)'
  <2>1. AccRight(new)'
    BY <1>1, <1>9, LongerStream DEF SavedInv, SavedTypes
  <2> QED BY <1>11, <2>1
<1>13. PICK base, tr, cut : base = db /\ tr = saving /\ cut = broken
  OBVIOUS
<1>14. /\ stream \in Seq(StateKey \cup AccountType \cup {Message})
       /\ stream' = stream /\ Len(stream)' = Len(stream)
  BY <1>1 DEF SavedInv, SavedTypes
<1>15. /\ \A z, p : p \in 0 .. Len(stream) => LastOf(z, p)' = LastOf(z, p)
       /\ \A json : JsonRight(json) => JsonRight(json)'
  BY <1>2, <1>14, LongerStream
<1>16. \A account, p : p \in 0 .. Len(stream) /\ Covers(account, p) => Covers(account, p)'
  BY <1>15 DEF Covers
<1>17. JsonRight(base.sync)' /\ base.sync.nextBatch <= new.nextBatch
       /\ base.sync.nextBatch \in 0 .. Len(stream)
  <2>1. JsonRight(base.sync) /\ base.sync.nextBatch <= from
    BY <1>3, <1>13 DEF SavedInv
  <2>2. base.sync.nextBatch \in 0 .. Len(stream)
    BY <2>1 DEF JsonRight
  <2>3. new.nextBatch = h
    BY <1>8
  <2> QED BY <1>2, <1>4, <1>15, <2>1, <2>2, <2>3
<1>18. \A t \in tr : Saves(t)'
  <2> SUFFICES ASSUME NEW t \in tr PROVE Saves(t)'
    OBVIOUS
  <2>1. Saves(t)
    BY <1>13 DEF SavedInv
  <2>2. JsonRight(t.what)' /\ t.what.nextBatch \in 0 .. Len(stream) /\ t.what.nextBatch <= new.nextBatch
    <3>1. JsonRight(t.what) /\ t.what.nextBatch <= from
      BY <1>3, <2>1 DEF Saves
    <3>2. t.what.nextBatch \in 0 .. Len(stream)
      BY <3>1 DEF JsonRight
    <3>3. new.nextBatch = h
      BY <1>8
    <3> QED BY <1>2, <1>4, <1>15, <3>1, <3>2, <3>3
  <2>3. Covers(t.what.account, t.what.nextBatch) => Covers(t.what.account, t.what.nextBatch)'
    BY <1>16, <2>2
  <2>4. Covers(base.account, t.what.nextBatch) => Covers(base.account, t.what.nextBatch)'
    BY <1>16, <2>2
  <2> QED BY <1>1, <1>11, <1>13, <2>1, <2>2, <2>3, <2>4 DEF Saves
<1>19. SavedCovers'
  <2>1. Covers(base.account, base.sync.nextBatch) => Covers(base.account, base.sync.nextBatch)'
    BY <1>16, <1>17
  <2>2. Covers(new.account, new.nextBatch) => Covers(new.account, new.nextBatch)'
    BY <1>4, <1>8, <1>16
  <2>3. ~cut => Covers(new.account, new.nextBatch)
    BY <1>3, <1>8, <1>10, <1>13 DEF SavedInv, SavedCovers
  <2> QED BY <1>1, <1>11, <1>13, <2>1, <2>2, <2>3 DEF SavedInv, SavedCovers
<1>20. SavedTypes'
  BY <1>1, <1>14 DEF SavedInv, SavedTypes
<1> QED BY <1>1, <1>11, <1>12, <1>13, <1>17, <1>18, <1>19, <1>20 DEF SavedInv

\* What is right stays right while the stream stays as it is.
LEMMA SameStream ==
  ASSUME SavedInv, stream' = stream
  PROVE  /\ \A accu : AccRight(accu) => AccRight(accu)'
         /\ \A json : JsonRight(json) => JsonRight(json)'
         /\ \A account, p : p \in 0 .. Len(stream) /\ Covers(account, p) => Covers(account, p)'
<1>1. /\ stream \in Seq(StateKey \cup AccountType \cup {Message}) /\ Len(stream) \in Nat
      /\ stream' = stream /\ Len(stream)' = Len(stream)
  BY DEF SavedInv, SavedTypes
<1>2. /\ \A z, p : p \in 0 .. Len(stream) => LastOf(z, p)' = LastOf(z, p)
      /\ \A accu : AccRight(accu) => AccRight(accu)'
      /\ \A json : JsonRight(json) => JsonRight(json)'
  BY <1>1, LongerStream
<1>3. \A account, p : p \in 0 .. Len(stream) /\ Covers(account, p) => Covers(account, p)'
  BY <1>2 DEF Covers
<1> QED BY <1>2, <1>3

\* A save begins.
LEMMA SyncToDatabaseInv == ASSUME SavedInv, syncToDatabase PROVE SavedInv'
<1>1. /\ saving = {} /\ done' = [done EXCEPT !.saves = @ + 1]
      /\ saving' = {[to |-> "sync", what |-> getJSON(data)], [to |-> "account", what |-> getJSON(data)]}
      /\ stream' = stream /\ data' = data /\ db' = db /\ broken' = broken
  BY DEF syncToDatabase
<1>2. PICK accu, base, cut, json : accu = data /\ base = db /\ cut = broken /\ json = getJSON(data)
  OBVIOUS
<1>3. AccRight(accu) /\ Len(stream) \in Nat /\ json = getJSON(accu)
  BY <1>2 DEF SavedInv, SavedTypes
<1>4. JsonRight(json) /\ json.nextBatch = accu.nextBatch /\ json.account = accu.account
  BY <1>3, JsonIsRight
<1>5. JsonRight(base.sync) /\ base.sync.nextBatch <= accu.nextBatch
  BY <1>2 DEF SavedInv
<1>6. /\ accu.nextBatch \in 0 .. Len(stream) /\ base.sync.nextBatch \in 0 .. Len(stream)
      /\ accu.nextBatch <= accu.nextBatch
  BY <1>3, <1>5 DEF AccRight, JsonRight
<1>7. AccRight(accu)' /\ JsonRight(json)' /\ JsonRight(base.sync)'
  BY <1>1, <1>3, <1>4, <1>5, SameStream
<1>8. /\ Covers(accu.account, accu.nextBatch) => Covers(accu.account, accu.nextBatch)'
      /\ Covers(base.account, base.sync.nextBatch) => Covers(base.account, base.sync.nextBatch)'
  BY <1>1, <1>6, SameStream
<1>9. PICK x, y : x = [to |-> "sync", what |-> json] /\ y = [to |-> "account", what |-> json]
  OBVIOUS
<1>10. saving' = {x, y}
  BY <1>1, <1>2, <1>9
<1>11. x.to = "sync" /\ y.to = "account" /\ x.what = json /\ y.what = json
  BY <1>9
<1>12. ~cut => Covers(accu.account, accu.nextBatch)
  BY <1>2 DEF SavedInv, SavedCovers
<1>13. data' = accu /\ db' = base /\ broken' = cut
  BY <1>1, <1>2
<1>14. ASSUME NEW t \in {x, y} PROVE Saves(t)'
  BY <1>4, <1>5, <1>6, <1>7, <1>8, <1>10, <1>11, <1>12, <1>13, <1>14 DEF Saves
<1>15. (\A t \in saving : Saves(t))'
  BY <1>10, <1>14
<1>16. SavedCovers'
  <2>1. ~cut => Covers(base.account, base.sync.nextBatch)
    BY <1>1, <1>2 DEF SavedInv, SavedCovers
  <2> QED BY <1>8, <1>12, <1>13, <2>1 DEF SavedCovers
<1>17. SavedTypes'
  <2>1. SavedTypes
    BY DEF SavedInv
  <2>2. done \in [saves : Nat, restarts : Nat]
    BY <2>1 DEF SavedTypes
  <2>3. done' \in [saves : Nat, restarts : Nat] /\ done'.saves > 0
    BY <1>1, <2>2
  <2> QED BY <1>1, <2>1, <2>3 DEF SavedTypes
<1>18. (\A t, u \in saving : t.what = u.what /\ (t.to = u.to => t = u))'
  BY <1>10, <1>11
<1>19. AccRight(data)' /\ JsonRight(db.sync)' /\ (db.sync.nextBatch <= data.nextBatch)'
  BY <1>5, <1>7, <1>13
<1> QED BY <1>15, <1>16, <1>17, <1>18, <1>19 DEF SavedInv

\* A transaction commits.
LEMMA PersistInv == ASSUME SavedInv, NEW t \in saving, persist(t) PROVE SavedInv'
<1>1. /\ saving' = saving \ {t}
      /\ db' = IF t.to = "sync" THEN [db EXCEPT !.sync = t.what]
               ELSE [db EXCEPT !.account = [a \in AccountType |->
                                          IF t.what.account[a] # Nil THEN t.what.account[a] ELSE @[a]]]
      /\ stream' = stream /\ data' = data /\ done' = done /\ broken' = broken
  BY DEF persist
<1>2. PICK accu, base, cut, new : accu = data /\ base = db /\ cut = broken /\ new = db'
  OBVIOUS
<1>3. /\ AccRight(accu) /\ JsonRight(base.sync) /\ base.sync.nextBatch <= accu.nextBatch
      /\ base \in [sync : Answer, account : [AccountType -> Nat]] /\ Len(stream) \in Nat
      /\ \A a \in AccountType : base.account[a] <= Len(stream)
      /\ ~cut => Covers(accu.account, accu.nextBatch)
  BY <1>2 DEF SavedInv, SavedTypes, SavedCovers
<1>4. /\ Saves(t) /\ t.to \in {"sync", "account"} /\ JsonRight(t.what)
      /\ base.sync.nextBatch <= t.what.nextBatch /\ t.what.nextBatch <= accu.nextBatch
      /\ ~cut => Covers(t.what.account, t.what.nextBatch)
  <2>1. Saves(t)
    BY DEF SavedInv
  <2> QED BY <1>2, <2>1 DEF Saves
<1>5. /\ t.what \in Answer /\ t.what.nextBatch \in 0 .. Len(stream)
      /\ base.sync.nextBatch \in 0 .. Len(stream) /\ accu.nextBatch \in 0 .. Len(stream)
      /\ \A a \in AccountType : t.what.account[a] \in 0 .. Len(stream)
  BY <1>3, <1>4 DEF JsonRight, AccRight
<1>6. CASE t.to = "sync"
  <2>1. new.sync = t.what /\ new.account = base.account
        /\ new \in [sync : Answer, account : [AccountType -> Nat]]
    BY <1>1, <1>2, <1>3, <1>5, <1>6
  <2>2. \A u \in saving \ {t} : u.to = "account" /\ u.what = t.what
    BY <1>6 DEF SavedInv, Saves
  <2>3. \/ \E u \in saving \ {t} : u.to = "account"
        \/ cut
        \/ Covers(base.account, t.what.nextBatch)
    BY <1>2, <1>4, <1>6 DEF Saves
  <2>4. AccRight(accu)' /\ JsonRight(t.what)'
    BY <1>1, <1>3, <1>4, SameStream
  <2>5. /\ Covers(accu.account, accu.nextBatch) => Covers(accu.account, accu.nextBatch)'
        /\ Covers(base.account, t.what.nextBatch) => Covers(base.account, t.what.nextBatch)'
        /\ Covers(t.what.account, t.what.nextBatch) => Covers(t.what.account, t.what.nextBatch)'
    BY <1>1, <1>5, SameStream
  <2>6. PICK rest : rest = saving \ {t}
    OBVIOUS
  <2>7. saving' = rest /\ db' = new /\ data' = accu /\ broken' = cut
    BY <1>1, <1>2, <2>6
  <2>8. \A u \in rest : Saves(u)'
    <3> SUFFICES ASSUME NEW u \in rest PROVE Saves(u)'
      OBVIOUS
    <3>1. u.to = "account" /\ u.what = t.what
      BY <2>2, <2>6
    <3> QED BY <1>4, <1>5, <2>1, <2>4, <2>5, <2>7, <3>1 DEF Saves
  <2>9. SavedCovers'
    <3>1. ~cut => \/ Covers(new.account, new.sync.nextBatch)'
                  \/ \E u \in rest : u.to = "account" /\ u.what.nextBatch = new.sync.nextBatch
      BY <2>1, <2>2, <2>3, <2>5, <2>6
    <3> QED BY <1>3, <2>5, <2>7, <3>1 DEF SavedCovers
  <2>10. SavedTypes'
    <3>1. SavedTypes
      BY DEF SavedInv
    <3>2. rest # {} => saving # {}
      BY <2>6
    <3> QED BY <1>1, <1>3, <2>1, <2>7, <3>1, <3>2 DEF SavedTypes
  <2>11. (\A u, v \in saving : u.what = v.what /\ (u.to = v.to => u = v))'
    BY <2>6, <2>7 DEF SavedInv
  <2>12. AccRight(data)' /\ JsonRight(db.sync)' /\ (db.sync.nextBatch <= data.nextBatch)'
    BY <1>4, <2>1, <2>4, <2>7
  <2>13. (\A u \in saving : Saves(u))'
    BY <2>7, <2>8
  <2> QED BY <2>9, <2>10, <2>11, <2>12, <2>13 DEF SavedInv
<1>7. CASE t.to = "account"
  <2>1. /\ new.sync = base.sync
        /\ new \in [sync : Answer, account : [AccountType -> Nat]]
        /\ \A a \in AccountType :
             new.account[a] = IF t.what.account[a] # Nil THEN t.what.account[a] ELSE base.account[a]
    <3>1. t.what.account \in [AccountType -> Nat]
      BY <1>5 DEF Answer
    <3>2. PICK ac : ac = [a \in AccountType |->
                            IF t.what.account[a] # Nil THEN t.what.account[a] ELSE base.account[a]]
      OBVIOUS
    <3>3. new = [base EXCEPT !.account = ac]
      BY <1>1, <1>2, <1>7, <3>2
    <3>4. base.account \in [AccountType -> Nat]
      BY <1>3
    <3>5. ac \in [AccountType -> Nat]
      BY <3>1, <3>2, <3>4
    <3>6. new.sync = base.sync /\ new.account = ac
          /\ new \in [sync : Answer, account : [AccountType -> Nat]]
      BY <1>3, <3>3, <3>5
    <3> QED BY <3>2, <3>6
  <2>2. \A u \in saving \ {t} : u.to = "sync" /\ u.what = t.what
    BY <1>7 DEF SavedInv, Saves
  <2>3. Covers(t.what.account, t.what.nextBatch) => Covers(new.account, t.what.nextBatch)
    <3> SUFFICES ASSUME Covers(t.what.account, t.what.nextBatch), NEW a \in AccountType
                 PROVE  LastOf(a, t.what.nextBatch) <= new.account[a]
      BY DEF Covers
    <3>1. LastOf(a, t.what.nextBatch) <= t.what.account[a]
      BY DEF Covers
    <3>2. LastOf(a, t.what.nextBatch) \in Nat /\ base.account[a] \in Nat
      BY <1>3, <1>5, LastOfIsLast
    <3> QED BY <1>5, <2>1, <3>1, <3>2 DEF Nil
  <2>4. Covers(new.account, t.what.nextBatch) => Covers(new.account, base.sync.nextBatch)
    <3> SUFFICES ASSUME Covers(new.account, t.what.nextBatch), NEW a \in AccountType
                 PROVE  LastOf(a, base.sync.nextBatch) <= new.account[a]
      BY DEF Covers
    <3>1. LastOf(a, t.what.nextBatch) <= new.account[a]
      BY DEF Covers
    <3>2. PICK q, p : q = base.sync.nextBatch /\ p = t.what.nextBatch
      OBVIOUS
    <3>3. q \in Nat /\ p \in Nat /\ q <= p
      BY <1>4, <1>5, <3>2
    <3>4. LastOf(a, q) <= LastOf(a, p) /\ LastOf(a, q) \in Nat /\ LastOf(a, p) \in Nat
      BY <3>3, LastOfSince, LastOfIsLast
    <3>5. new.account[a] \in Nat
      BY <2>1
    <3> QED BY <3>1, <3>2, <3>4, <3>5
  <2>5. AccRight(accu)' /\ JsonRight(t.what)' /\ JsonRight(base.sync)'
    BY <1>1, <1>3, <1>4, SameStream
  <2>6. /\ Covers(accu.account, accu.nextBatch) => Covers(accu.account, accu.nextBatch)'
        /\ Covers(new.account, t.what.nextBatch) => Covers(new.account, t.what.nextBatch)'
        /\ Covers(t.what.account, t.what.nextBatch) => Covers(t.what.account, t.what.nextBatch)'
        /\ Covers(new.account, base.sync.nextBatch) => Covers(new.account, base.sync.nextBatch)'
    BY <1>1, <1>5, SameStream
  <2>7. PICK rest : rest = saving \ {t}
    OBVIOUS
  <2>8. saving' = rest /\ db' = new /\ data' = accu /\ broken' = cut
    BY <1>1, <1>2, <2>7
  <2>9. \A u \in rest : Saves(u)'
    <3> SUFFICES ASSUME NEW u \in rest PROVE Saves(u)'
      OBVIOUS
    <3>1. u.to = "sync" /\ u.what = t.what
      BY <2>2, <2>7
    <3>2. ~cut => Covers(new.account, t.what.nextBatch)'
      BY <1>4, <2>3, <2>6
    <3> QED BY <1>4, <1>5, <2>1, <2>5, <2>6, <2>8, <3>1, <3>2 DEF Saves
  <2>10. SavedCovers'
    <3>1. ~cut => Covers(new.account, new.sync.nextBatch)'
      BY <1>4, <2>1, <2>3, <2>4, <2>6
    <3> QED BY <1>3, <2>6, <2>8, <3>1 DEF SavedCovers
  <2>11. SavedTypes'
    <3>1. SavedTypes
      BY DEF SavedInv
    <3>2. rest # {} => saving # {}
      BY <2>7
    <3>3. \A a \in AccountType : new.account[a] <= Len(stream)
      <4> SUFFICES ASSUME NEW a \in AccountType PROVE new.account[a] <= Len(stream)
        OBVIOUS
      <4>1. /\ new.account[a] = IF t.what.account[a] # Nil THEN t.what.account[a] ELSE base.account[a]
            /\ t.what.account[a] \in 0 .. Len(stream) /\ base.account[a] <= Len(stream)
        BY <1>3, <1>5, <2>1
      <4> QED BY <1>3, <4>1
    <3> QED BY <1>1, <2>1, <2>8, <3>1, <3>2, <3>3 DEF SavedTypes
  <2>12. (\A u, v \in saving : u.what = v.what /\ (u.to = v.to => u = v))'
    BY <2>7, <2>8 DEF SavedInv
  <2>13. AccRight(data)' /\ JsonRight(db.sync)' /\ (db.sync.nextBatch <= data.nextBatch)'
    BY <1>3, <2>1, <2>5, <2>8
  <2>14. (\A u \in saving : Saves(u))'
    BY <2>8, <2>9
  <2> QED BY <2>10, <2>11, <2>12, <2>13, <2>14 DEF SavedInv
<1> QED BY <1>4, <1>6, <1>7

\* A restart.
LEMMA ConnectInv == ASSUME SavedInv, connect PROVE SavedInv'
<1>1. /\ done' = [done EXCEPT !.restarts = @ + 1]
      /\ data' = accumulate(Empty, [db.sync EXCEPT !.account = db.account])
      /\ broken' = (broken \/ \E t \in saving : t.to = "account" /\ t.what.nextBatch = db.sync.nextBatch)
      /\ saving' = {} /\ stream' = stream /\ db' = db
  BY DEF connect
<1>2. PICK base, res, new : base = db /\ res = [db.sync EXCEPT !.account = db.account] /\ new = data'
  OBVIOUS
<1>3. /\ JsonRight(base.sync) /\ Len(stream) \in Nat
      /\ base \in [sync : Answer, account : [AccountType -> Nat]]
      /\ \A a \in AccountType : base.account[a] <= Len(stream)
  BY <1>2 DEF SavedInv, SavedTypes
<1>4. PICK stored, h : stored = base.sync /\ h = base.sync.nextBatch
  OBVIOUS
<1>5. /\ stored \in Answer /\ stored.limited = FALSE /\ stored.nextBatch = h /\ h \in 0 .. Len(stream)
      /\ stored.timeline # <<>> =>
           stored.prevBatch \in 0 .. h /\ ListsRoom(stored.timeline, stored.prevBatch, h)
      /\ \A s \in StateKey : Latest(s, stored) = {} => stored.state[s] = LastOf(s, h)
      /\ Fits(stored.timeline)
  BY <1>3, <1>4 DEF JsonRight
<1>6. /\ res \in Answer /\ res.limited = FALSE /\ res.nextBatch = h /\ res.account = base.account
      /\ res.timeline = stored.timeline /\ res.prevBatch = stored.prevBatch /\ res.state = stored.state
  <2>1. res = [stored EXCEPT !.account = base.account] /\ base.account \in [AccountType -> Nat]
    BY <1>2, <1>3, <1>4
  <2> QED BY <1>5, <2>1 DEF Answer
<1>7. PICK empty : empty = Empty
  OBVIOUS
<1>8. /\ empty \in Accumulator /\ empty.timeline = <<>>
      /\ (\A s \in StateKey : empty.state[s] = Nil) /\ \A t \in AccountType : empty.account[t] = Nil
  BY <1>7 DEF Empty, Accumulator, Nil, NoToken
<1>9. new = accumulate(empty, res)
  BY <1>1, <1>2, <1>7
<1>10. /\ new \in Accumulator
       /\ Kept(new.timeline, h) /\ Fits(new.timeline)
       /\ \A s \in StateKey : new.state[s] = LastOf(s, h)
       /\ \A t \in AccountType :
            new.account[t] = IF res.account[t] # Nil THEN res.account[t] ELSE empty.account[t]
       /\ new.nextBatch = h
  <2>1. PICK kept : kept = IF res.limited THEN <<>> ELSE empty.timeline
    OBVIOUS
  <2>2. PICK q : q = IF res.timeline = <<>> THEN h ELSE res.prevBatch
    OBVIOUS
  <2>3. q \in Nat /\ q <= h /\ h \in Nat
    BY <1>5, <1>6, <2>2
  <2>4. Kept(kept, q)
    BY <1>8, <2>1 DEF Kept
  <2>5. res.timeline # <<>> =>
          res.prevBatch \in q .. h /\ ListsRoom(res.timeline, res.prevBatch, h)
    BY <1>5, <1>6, <2>2
  <2>6. \A k \in q + 1 .. h : IsRoom(k) => \E i \in DOMAIN res.timeline : res.timeline[i] = k
    <3>1. CASE res.timeline = <<>>
      BY <2>2, <2>3, <3>1
    <3>2. CASE res.timeline # <<>>
      BY <1>5, <1>6, <2>2, <3>2 DEF ListsRoom
    <3> QED BY <3>1, <3>2
  <2>7. \A s \in StateKey : Latest(s, res) = {} =>
          (IF res.state[s] # Nil THEN res.state[s] ELSE empty.state[s]) = LastOf(s, h)
    <3>1. \A s : Latest(s, res) = Latest(s, stored)
      BY <1>6 DEF Latest
    <3> QED BY <1>5, <1>6, <1>8, <3>1
  <2>8. Fits(empty.timeline) /\ (SyncSize <= maxTimelineEntries => Len(res.timeline) <= maxTimelineEntries)
    BY <1>5, <1>6, <1>8, SavedSyncAssumption DEF Fits
  <2>9. Continues(empty, res, kept, q, h)
    BY <2>1, <2>4, <2>5, <2>6, <2>7, <2>8 DEF Continues
  <2>10. Adds(new, empty, res, h)
    BY <1>6, <1>8, <1>9, <2>3, <2>9, Accumulated
  <2> QED BY <1>6, <2>10 DEF Adds
<1>11. \A t \in AccountType : new.account[t] = base.account[t] /\ new.account[t] \in 0 .. Len(stream)
  <2> SUFFICES ASSUME NEW t \in AccountType
               PROVE  new.account[t] = base.account[t] /\ new.account[t] \in 0 .. Len(stream)
    OBVIOUS
  <2>1. new.account[t] = IF base.account[t] # Nil THEN base.account[t] ELSE Nil
    BY <1>6, <1>8, <1>10
  <2>2. base.account[t] \in Nat /\ base.account[t] <= Len(stream)
    BY <1>3
  <2> QED BY <1>3, <2>1, <2>2
<1>12. AccRight(new)
  BY <1>5, <1>10, <1>11 DEF AccRight
<1>13. AccRight(new)' /\ JsonRight(base.sync)'
  BY <1>1, <1>3, <1>12, SameStream
<1>14. /\ Covers(base.account, h) => Covers(base.account, h)'
       /\ Covers(new.account, h) => Covers(new.account, h)'
  BY <1>1, <1>5, SameStream
<1>15. Covers(base.account, h) => Covers(new.account, h)
  BY <1>11 DEF Covers
<1>16. ~broken' => Covers(base.account, h)
  BY <1>1, <1>2, <1>4 DEF SavedInv, SavedCovers
<1>17. data' = new /\ db' = base
  BY <1>1, <1>2
<1>18. SavedCovers'
  BY <1>4, <1>10, <1>14, <1>15, <1>16, <1>17 DEF SavedCovers
<1>19. SavedTypes'
  <2>1. SavedTypes
    BY DEF SavedInv
  <2>2. done' \in [saves : Nat, restarts : Nat]
    <3>1. done \in [saves : Nat, restarts : Nat]
      BY <2>1 DEF SavedTypes
    <3> QED BY <1>1, <3>1
  <2>3. broken' \in BOOLEAN
    BY <1>1, <2>1 DEF SavedTypes
  <2> QED BY <1>1, <2>1, <2>2, <2>3 DEF SavedTypes
<1>20. AccRight(data)' /\ JsonRight(db.sync)' /\ (db.sync.nextBatch <= data.nextBatch)'
  <2>1. h <= h
    BY <1>5
  <2> QED BY <1>4, <1>10, <1>13, <1>17, <2>1
<1> QED BY <1>1, <1>18, <1>19, <1>20 DEF SavedInv

\* What the invariant says of the accumulator.
LEMMA SavedInvCurrent == ASSUME SavedInv PROVE AccumulatedIsCurrent
<1>1. PICK accu, p, json : accu = data /\ p = data.nextBatch /\ json = getJSON(data)
  OBVIOUS
<1>2. /\ AccRight(accu) /\ accu.nextBatch = p /\ json = getJSON(accu) /\ Len(stream) \in Nat
      /\ ~broken => Covers(accu.account, p)
  BY <1>1 DEF SavedInv, SavedTypes, SavedCovers
<1>3. /\ accu \in Accumulator /\ p \in 0 .. Len(stream) /\ p \in Nat
      /\ Kept(accu.timeline, p) /\ Fits(accu.timeline)
      /\ \A s \in StateKey : accu.state[s] = LastOf(s, p)
      /\ \A t \in AccountType : accu.account[t] \in 0 .. Len(stream)
  BY <1>2 DEF AccRight
<1>4. /\ Len(json.timeline) = Len(accu.timeline)
      /\ json.timeline # <<>> =>
           json.prevBatch \in 0 .. p /\ ListsRoom(json.timeline, json.prevBatch, p)
      /\ \A s \in StateKey : json.timeline # <<>> =>
           json.state[s] = LastOf(s, json.prevBatch) \/ LastOf(s, json.prevBatch) = Nil
  <2>1. LET j == getJSON(accu) IN
        /\ Len(j.timeline) = Len(accu.timeline)
        /\ j.timeline # <<>> =>
             j.prevBatch \in 0 .. p /\ ListsRoom(j.timeline, j.prevBatch, p)
        /\ \A s \in StateKey : j.timeline # <<>> =>
             j.state[s] = LastOf(s, j.prevBatch) \/ LastOf(s, j.prevBatch) = Nil
    BY <1>2, <1>3, JsonTells
  <2> QED BY <1>2, <2>1
<1>5. json.timeline # <<>> => json.timeline = RoomEvents(json.prevBatch, p)
  <2> SUFFICES ASSUME json.timeline # <<>> PROVE json.timeline = RoomEvents(json.prevBatch, p)
    OBVIOUS
  <2>1. json.prevBatch \in Nat /\ json.prevBatch <= p /\ ListsRoom(json.timeline, json.prevBatch, p)
    BY <1>3, <1>4
  <2>2. PICK a, s, t : a = json.prevBatch /\ s = json.timeline /\ t = RoomEvents(json.prevBatch, p)
    OBVIOUS
  <2>3. ListsRoom(t, a, p)
    BY <1>3, <2>1, <2>2, RoomEventsLists
  <2>4. s = t
    BY <1>3, <2>1, <2>2, <2>3, OneList
  <2> QED BY <2>2, <2>4
<1>6. SavedTypeOK
  <2>1. accu.state \in [StateKey -> 0 .. Len(stream)]
    <3>1. \A s \in StateKey : accu.state[s] \in 0 .. Len(stream)
      BY <1>2, <1>3, LastOfIsLast
    <3>2. accu.state \in [StateKey -> Nat]
      BY <1>3 DEF Accumulator
    <3> QED BY <3>1, <3>2
  <2>2. accu.account \in [AccountType -> 0 .. Len(stream)]
    <3>1. accu.account \in [AccountType -> Nat]
      BY <1>3 DEF Accumulator
    <3> QED BY <1>3, <3>1
  <2>3. \A i \in DOMAIN accu.timeline : accu.timeline[i].event \in DOMAIN stream
    <3>1. DOMAIN stream = 1 .. Len(stream)
      BY DEF SavedInv, SavedTypes
    <3> QED BY <1>2, <1>3, <3>1 DEF Kept
  <2> QED BY <1>1, <1>3, <2>1, <2>2, <2>3 DEF SavedTypeOK, SavedInv, SavedTypes
<1>7. /\ \A s \in StateKey : data.state[s] = LastOf(s, p)
      /\ ~broken => \A t \in AccountType : data.account[t] >= LastOf(t, p)
  <2>1. ~broken => \A t \in AccountType : data.account[t] >= LastOf(t, p)
    <3> SUFFICES ASSUME ~broken, NEW t \in AccountType PROVE accu.account[t] >= LastOf(t, p)
      BY <1>1
    <3>1. LastOf(t, p) <= accu.account[t]
      BY <1>2 DEF Covers
    <3>2. LastOf(t, p) \in Nat /\ accu.account[t] \in Nat
      BY <1>2, <1>3, LastOfIsLast
    <3> QED BY <3>1, <3>2
  <2> QED BY <1>1, <1>3, <2>1
<1>8. /\ Len(data.timeline) = Len(json.timeline)
      /\ SyncSize <= maxTimelineEntries => Len(data.timeline) <= maxTimelineEntries
  BY <1>1, <1>3, <1>4 DEF Fits
<1> HIDE DEF SavedInv
<1> QED BY <1>1, <1>4, <1>5, <1>6, <1>7, <1>8 DEF AccumulatedIsCurrent

\* For any history of the server, any answers, saves and restarts at any moment,
\* the accumulator says what the server has at its token.
THEOREM AccumulatedCurrent == SavedSpec => []AccumulatedIsCurrent
<1>1. SavedInit => SavedInv
  BY SavedInitInv
<1>2. SavedInv /\ [SavedNext]_syncVars => SavedInv'
  <2> SUFFICES ASSUME SavedInv, [SavedNext]_syncVars PROVE SavedInv'
    OBVIOUS
  <2>1. ASSUME NEW x \in StateKey \cup AccountType \cup {Message}, StreamEntry(x) PROVE SavedInv'
    BY <2>1, StreamEntryInv
  <2>2. ASSUME NEW h \in 1 .. MaxStream, setSyncData(h) PROVE SavedInv'
    <3>1. h \in Nat
      BY SavedSyncAssumption
    <3> QED BY <2>2, <3>1, SetSyncDataInv
  <2>3. CASE syncToDatabase
    BY <2>3, SyncToDatabaseInv
  <2>4. ASSUME NEW t \in saving, persist(t) PROVE SavedInv'
    BY <2>4, PersistInv
  <2>5. CASE connect
    BY <2>5, ConnectInv
  <2>6. CASE UNCHANGED syncVars
    <3>1. stream' = stream /\ data' = data /\ saving' = saving /\ db' = db /\ done' = done /\ broken' = broken
      BY <2>6 DEF syncVars
    <3>2. PICK accu, base, tr, cut : accu = data /\ base = db /\ tr = saving /\ cut = broken
      OBVIOUS
    <3>3. data' = accu /\ db' = base /\ saving' = tr /\ broken' = cut
      BY <3>1, <3>2
    <3>4. AccRight(accu)' /\ JsonRight(base.sync)' /\ base.sync.nextBatch <= accu.nextBatch
      BY <3>1, <3>2, SameStream DEF SavedInv
    <3>5. /\ \A json : JsonRight(json) => JsonRight(json)'
          /\ \A account, p : p \in 0 .. Len(stream) /\ Covers(account, p) => Covers(account, p)'
      BY <3>1, SameStream
    <3>6. accu.nextBatch \in 0 .. Len(stream) /\ base.sync.nextBatch \in 0 .. Len(stream)
      BY <3>2 DEF SavedInv, AccRight, JsonRight
    <3>7. SavedTypes'
      BY <3>1 DEF SavedInv, SavedTypes
    <3>8. SavedCovers'
      <4>1. SavedCovers
        BY DEF SavedInv
      <4> QED BY <3>2, <3>3, <3>5, <3>6, <4>1 DEF SavedCovers
    <3>9. \A t \in tr : Saves(t)'
      <4> SUFFICES ASSUME NEW t \in tr PROVE Saves(t)'
        OBVIOUS
      <4>1. Saves(t)
        BY <3>2 DEF SavedInv
      <4>2. t.what.nextBatch \in 0 .. Len(stream)
        BY <4>1 DEF Saves, JsonRight
      <4> QED BY <3>2, <3>3, <3>5, <4>1, <4>2 DEF Saves
    <3>10. (\A t, u \in saving : t.what = u.what /\ (t.to = u.to => t = u))'
      BY <3>1 DEF SavedInv
    <3>11. AccRight(data)' /\ JsonRight(db.sync)' /\ (db.sync.nextBatch <= data.nextBatch)'
      BY <3>3, <3>4
    <3>12. (\A t \in saving : Saves(t))'
      BY <3>3, <3>9
    <3> QED BY <3>7, <3>8, <3>10, <3>11, <3>12 DEF SavedInv
  <2> QED BY <2>1, <2>2, <2>3, <2>4, <2>5, <2>6 DEF SavedNext
<1>3. SavedInv => AccumulatedIsCurrent
  BY SavedInvCurrent
<1> QED BY <1>1, <1>2, <1>3, PTL DEF SavedSpec
=============================================================================
