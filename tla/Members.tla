------------------------------ MODULE Members ------------------------------
(***************************************************************************)
(* The members of one lazily loaded room: what /sync says of them, the     *)
(* out-of-band list loaded from the server or from the IndexedDB store,    *)
(* the copies of the room state a limited sync makes, the saved sync, and  *)
(* leaving, joining again and reloading the page.                          *)
(*                                                                         *)
(* The room's history is a sequence of entries: a user joins, leaves or    *)
(* says something.  A sync token is a position of it.  A member event is   *)
(* the position of the entry that made it, 0 for one from before the first *)
(* entry, when everybody was in the room.  With lazy loading a /sync       *)
(* brings the member events that changed, and those of the senders in its  *)
(* timeline.                                                               *)
(***************************************************************************)
EXTENDS Integers, Sequences, FiniteSets

CONSTANTS
  User,             \* the other users
  Me,               \* the user of this client
  MaxLog,           \* entries in the room's history
  MaxLimited,       \* limited syncs
  MaxReloads,       \* reloads of the page
  MaxLoadFailures   \* /members requests that fail

ASSUME MembersAssumption ==
  /\ Me \notin User
  /\ {MaxLog, MaxLimited, MaxReloads, MaxLoadFailures} \subseteq Nat

VARIABLES
  log,      \* the room's history
  token,    \* the sync token in memory
  my,       \* selfMembership of the room, or "none" when there is no room
  state,    \* room.currentState: its member events and its members
  status,   \* oobMemberFlags.status, shared by the copies of the state
  promise,  \* is there a membersPromise
  loadingMembers,  \* how far loadMembers is
  clearing, \* how far clearLoadedMembersIfNeeded is
  writing,  \* the out-of-band members on their way to the store
  acc,      \* the member events in the sync accumulator
  disk,     \* the store: out-of-band members and saved sync
  count,    \* limited syncs, reloads and failures so far
  left,     \* has the user ever left the room
  ahead,    \* were members loaded since the sync was last saved
  torn      \* was the page reloaded with such members in the store

memVars == <<log, token, my, state, status, promise, loadingMembers, clearing, writing, acc, disk,
             count, left, ahead, torn>>

NoEvent == -1
Idle == [at |-> "idle"]
NoMembers == [u \in User |-> NoEvent]

\* The member event of u at position p, and the membership it states.
EventOf(u, p) ==
  LET ks == {k \in 1 .. p : log[k].user = u /\ log[k].what # "talk"}
  IN  IF ks = {} THEN 0 ELSE CHOOSE k \in ks : \A j \in ks : j <= k

Joined(k) == IF k \in DOMAIN log THEN log[k].what = "join" ELSE k = 0

In(u, p) == Joined(EventOf(u, p))

-----------------------------------------------------------------------------
(* RoomState                                                               *)

EmptyState == [events |-> NoMembers, members |-> [u \in User |-> [ev |-> NoEvent, oob |-> FALSE]]]

\* setStateEvents: the event, and a member that is no longer out of band.
setStateEvents(s, D, p) ==
  [events  |-> [u \in User |-> IF u \in D THEN EventOf(u, p) ELSE s.events[u]],
   members |-> [u \in User |-> IF u \in D THEN [ev |-> EventOf(u, p), oob |-> FALSE]
                               ELSE s.members[u]]]

\* Mutant: what /sync has told is overwritten.
setOutOfBandMembers_overwrites(s, list) ==
  [events  |-> [u \in User |-> IF list[u] # NoEvent THEN list[u] ELSE s.events[u]],
   members |-> [u \in User |-> IF list[u] # NoEvent THEN [ev |-> list[u], oob |-> TRUE]
                               ELSE s.members[u]]]

\* setOutOfBandMember: a member /sync has told of is left alone.
setOutOfBandMembers(s, list) ==
  LET skip(u) == s.members[u].ev # NoEvent /\ ~s.members[u].oob
  IN  [events  |-> [u \in User |-> IF list[u] # NoEvent /\ ~skip(u) THEN list[u] ELSE s.events[u]],
       members |-> [u \in User |-> IF list[u] # NoEvent /\ ~skip(u) THEN [ev |-> list[u], oob |-> TRUE]
                                   ELSE s.members[u]]]

\* The members go, their events stay.
clearOutOfBandMembers(s) ==
  [s EXCEPT !.members = [u \in User |-> IF @[u].oob THEN [ev |-> NoEvent, oob |-> FALSE] ELSE @[u]]]

\* clone: members are made again from the events; they are marked only when
\* the list has been loaded.
clone(s) ==
  [s EXCEPT !.members = [u \in User |-> [ev |-> s.events[u],
                                         oob |-> status = "Finished" /\ s.members[u].oob]]]

-----------------------------------------------------------------------------
MembersInit ==
  /\ log = <<>>
  /\ token = 0
  /\ my = "join"
  /\ state = EmptyState
  /\ status = "NotStarted"
  /\ promise = FALSE
  /\ loadingMembers = Idle
  /\ clearing = "idle"
  /\ writing = Idle
  /\ acc = NoMembers
  /\ disk = [oob |-> Idle, saved |-> [token |-> 0, my |-> "join", acc |-> NoMembers]]
  /\ count = [limited |-> 0, reloads |-> 0, failures |-> 0]
  /\ left = FALSE
  /\ ahead = FALSE
  /\ torn = FALSE

\* Somebody joins, leaves or says something.
ServerEntry(u, what) ==
  /\ Len(log) < MaxLog
  /\ what = "talk" => u # Me /\ In(u, Len(log))
  /\ what = "join" => ~In(u, Len(log))
  /\ what = "leave" => In(u, Len(log))
  /\ log' = Append(log, [user |-> u, what |-> what])
  /\ UNCHANGED <<token, my, state, status, promise, loadingMembers, clearing, writing, acc, disk,
                 count, left, ahead, torn>>

\* Whom an answer to /sync up to h tells of: who changed since the token,
\* and who talks in its timeline, which has the last entry only when it is
\* limited.
Told(h, limited, fresh) ==
  {u \in User :
     \/ ~fresh /\ \E k \in token + 1 .. h : log[k].user = u /\ log[k].what # "talk"
     \/ \E k \in (IF limited THEN h ELSE token + 1) .. h : log[k].user = u}

\* /sync of a room one is in and stays in.  A limited one starts a new live
\* timeline, whose state is the old one or a copy of it.
processJoin(h, limited, entire) ==
  LET D == Told(h, limited, FALSE)
      s == IF limited /\ ~entire THEN clone(state) ELSE state
  IN  /\ my = "join" /\ \A k \in token + 1 .. h : log[k].user # Me
      /\ limited => h > token + 1 /\ count.limited < MaxLimited
      /\ entire => limited
      /\ state' = setStateEvents(s, D, h)
      /\ acc' = [u \in User |-> IF u \in D THEN EventOf(u, h) ELSE acc[u]]
      /\ token' = h
      /\ count' = IF limited THEN [count EXCEPT !.limited = @ + 1] ELSE count
      /\ UNCHANGED <<log, my, status, promise, loadingMembers, clearing, writing, disk, left, ahead, torn>>

\* The room in the leave section: updateMyMembership, and the cleanup, which
\* does nothing when the members have not been loaded in this session.  The
\* accumulator forgets the room.
processLeave(h) ==
  /\ my \in {"join", "none"}
  /\ In(Me, token) /\ ~In(Me, h) /\ \A k \in token + 1 .. h - 1 : log[k].user # Me
  /\ log[h].user = Me
  /\ my' = "leave"
  /\ state' = IF my = "join" THEN setStateEvents(state, Told(h, FALSE, FALSE), h) ELSE state
  /\ acc' = NoMembers
  /\ token' = h
  /\ clearing' = IF promise /\ clearing = "idle" THEN "wait" ELSE clearing
  /\ left' = TRUE
  /\ UNCHANGED <<log, status, promise, loadingMembers, writing, disk, count, ahead, torn>>

\* The room is joined again: a new room for the server, which tells of the
\* senders in the timeline only.
processRejoin(h) ==
  LET D == Told(h, TRUE, TRUE)
  IN  /\ my \in {"leave", "none"}
      /\ ~In(Me, token) /\ In(Me, h)
      /\ state' = setStateEvents(state, D, h)
      /\ acc' = [u \in User |-> IF u \in D THEN EventOf(u, h) ELSE NoEvent]
      /\ my' = "join"
      /\ token' = h
      /\ UNCHANGED <<log, status, promise, loadingMembers, clearing, writing, disk, count, left, ahead, torn>>

\* A /sync without the room, which one is not in.
processNothing(h) ==
  /\ my # "join" /\ ~In(Me, token) /\ ~In(Me, h)
  /\ \A k \in token + 1 .. h : log[k].user # Me
  /\ token' = h
  /\ UNCHANGED <<log, my, state, status, promise, loadingMembers, clearing, writing, acc, disk, count,
                 left, ahead, torn>>

\* loadMembersIfNeeded.
loadMembersIfNeeded ==
  /\ my = "join"
  /\ ~promise
  /\ promise' = TRUE
  /\ status' = IF status = "NotStarted" THEN "InProgress" ELSE status
  /\ loadingMembers' = [at |-> "store"]
  /\ UNCHANGED <<log, token, my, state, clearing, writing, acc, disk, count, left, ahead, torn>>

\* The list is there: setOutOfBandMembers, and the write to the store that
\* nobody waits for.
setLoaded(list, fromServer) ==
  LET s == IF status = "InProgress" THEN setOutOfBandMembers(state, list) ELSE state
      oob == [u \in User |-> IF s.members[u].oob THEN s.members[u].ev ELSE NoEvent]
  IN  /\ state' = s
      /\ status' = IF status = "InProgress" THEN "Finished" ELSE status
      /\ loadingMembers' = Idle
      /\ writing' = IF fromServer THEN [at |-> "write", list |-> oob] ELSE writing
      /\ ahead' = (fromServer \/ ahead)

\* loadMembers: from the store, or from the server as of the sync token.
onStoreRead ==
  /\ loadingMembers.at = "store"
  /\ IF disk.oob # Idle
     THEN setLoaded(disk.oob.list, FALSE)
     ELSE /\ loadingMembers' = [at |-> "server", token |-> token]
          /\ UNCHANGED <<state, status, writing, ahead>>
  /\ UNCHANGED <<log, token, my, promise, clearing, acc, disk, count, left, torn>>

\* The server leaves out those who have left.
onMembers ==
  /\ loadingMembers.at = "server"
  /\ setLoaded([u \in User |-> IF In(u, loadingMembers.token) THEN EventOf(u, loadingMembers.token) ELSE NoEvent], TRUE)
  /\ UNCHANGED <<log, token, my, promise, clearing, acc, disk, count, left, torn>>

\* The request failed; whoever waited for it to clear the members gives up.
onMembersFailed ==
  /\ loadingMembers.at = "server"
  /\ count.failures < MaxLoadFailures
  /\ count' = [count EXCEPT !.failures = @ + 1]
  /\ loadingMembers' = Idle
  /\ promise' = FALSE
  /\ status' = IF status = "InProgress" THEN "NotStarted" ELSE status
  /\ clearing' = IF clearing = "wait" THEN "idle" ELSE clearing
  /\ UNCHANGED <<log, token, my, state, writing, acc, disk, left, ahead, torn>>

\* store.setOutOfBandMembers: on top of what is there.
onStoreWritten ==
  /\ writing # Idle
  /\ LET old == IF disk.oob = Idle THEN NoMembers ELSE disk.oob.list
     IN  disk' = [disk EXCEPT !.oob = [at |-> "kept", list |->
                    [u \in User |-> IF writing.list[u] # NoEvent THEN writing.list[u] ELSE old[u]]]]
  /\ writing' = Idle
  /\ UNCHANGED <<log, token, my, state, status, promise, loadingMembers, clearing, acc, count, left, ahead, torn>>

\* clearLoadedMembersIfNeeded: wait for the load, clear the store, then the
\* state, then forget the promise.
onClearStore ==
  /\ clearing = "wait" /\ loadingMembers = Idle /\ writing = Idle
  /\ disk' = [disk EXCEPT !.oob = Idle]
  /\ clearing' = "state"
  /\ UNCHANGED <<log, token, my, state, status, promise, loadingMembers, writing, acc, count, left, ahead, torn>>

onClearState ==
  /\ clearing = "state"
  /\ state' = clearOutOfBandMembers(state)
  /\ status' = "NotStarted"
  /\ promise' = FALSE
  /\ clearing' = "idle"
  /\ UNCHANGED <<log, token, my, loadingMembers, writing, acc, disk, count, left, ahead, torn>>

\* The store saves the accumulated sync.
save ==
  /\ disk.saved.token # token \/ ahead
  /\ disk' = [disk EXCEPT !.saved = [token |-> token, my |-> IF my = "join" THEN "join" ELSE "none",
                                      acc |-> acc]]
  /\ ahead' = FALSE
  /\ UNCHANGED <<log, token, my, state, status, promise, loadingMembers, clearing, writing, acc, count, left, torn>>

\* The page is closed at any moment and opened again from the saved sync.
reload ==
  /\ count.reloads < MaxReloads
  /\ count' = [count EXCEPT !.reloads = @ + 1]
  /\ token' = disk.saved.token
  /\ my' = disk.saved.my
  /\ acc' = disk.saved.acc
  /\ state' = [events |-> acc', members |-> [u \in User |-> [ev |-> acc'[u], oob |-> FALSE]]]
  /\ status' = "NotStarted"
  /\ promise' = FALSE
  /\ loadingMembers' = Idle
  /\ clearing' = "idle"
  /\ writing' = Idle
  /\ torn' = (torn \/ (ahead /\ disk.oob # Idle))
  /\ UNCHANGED <<log, disk, left, ahead>>

MembersNext ==
  \/ \E u \in User \cup {Me}, what \in {"join", "leave", "talk"} : ServerEntry(u, what)
  \/ \E h \in token + 1 .. Len(log) :
       \/ \E limited, entire \in BOOLEAN : processJoin(h, limited, entire)
       \/ processLeave(h)
       \/ processRejoin(h)
       \/ processNothing(h)
  \/ loadMembersIfNeeded
  \/ onStoreRead
  \/ onMembers
  \/ onMembersFailed
  \/ onStoreWritten
  \/ onClearStore
  \/ onClearState
  \/ save
  \/ reload

MembersSpec == MembersInit /\ [][MembersNext]_memVars

-----------------------------------------------------------------------------
(* Properties.                                                             *)

\* Every part of the state has its type.
MembersTypeOK ==
  /\ token \in 0 .. Len(log)
  /\ my \in {"join", "leave", "none"}
  /\ state.events \in [User -> NoEvent .. MaxLog]
  /\ state.members \in [User -> [ev : NoEvent .. MaxLog, oob : BOOLEAN]]
  /\ status \in {"NotStarted", "InProgress", "Finished"}
  /\ clearing \in {"idle", "wait", "state"}

\* loadMembersIfNeeded has resolved, and nothing is being cleared.
Loaded == my = "join" /\ promise /\ loadingMembers = Idle /\ clearing = "idle"

\* The joined members of the room state are those of the room at the sync token.
MembersKnown == {u \in User : Joined(state.members[u].ev)} = {u \in User : In(u, token)}

\* Once the members are loaded the client knows who is in the room: a list
\* asked for before somebody joined or left never overwrites what /sync told
\* meanwhile, whether it comes from the server or, after a reload, from the
\* store, and whether the state was copied by a limited sync.  Messages are
\* encrypted for these members.  Outside: a user who has left and joined again,
\* and a reload after members newer than the saved sync went to the store,
\* where the code does not reach this (see the README).
MembersAreCurrent == MembersTypeOK /\ (Loaded /\ ~left /\ ~torn => MembersKnown)
=============================================================================
