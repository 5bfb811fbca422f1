----------------------------- MODULE SavedSync -----------------------------
(***************************************************************************)
(* The sync accumulator and the IndexedDB store it is saved to.            *)
(*                                                                         *)
(* The server's stream is a sequence of entries: a message or a state      *)
(* event of one joined room, or an account data event.  A token is a       *)
(* position of it; an event is its own position.  The accumulator folds    *)
(* every answer to /sync into what one answer would have to say (getJSON), *)
(* and every few minutes that is written to the database, from which the   *)
(* next session starts.                                                    *)
(***************************************************************************)
EXTENDS Integers, Sequences, FiniteSets, SequencesExt

CONSTANTS
  StateKey,            \* (type, state key) pairs of the room's state events
  AccountType,         \* types of account data
  MaxStream,           \* entries in the stream
  SyncSize,            \* room events an answer holds before it is limited
  maxTimelineEntries,  \* what the accumulator keeps of a room's timeline
  MaxSaves,            \* writes to the database
  MaxRestarts          \* restarts of the client

ASSUME SavedSyncAssumption ==
  /\ {MaxStream, MaxSaves, MaxRestarts} \subseteq Nat
  /\ {SyncSize, maxTimelineEntries} \subseteq Nat \ {0}
  /\ StateKey \cap AccountType = {}

VARIABLES
  stream,   \* the server's entries
  data,     \* the accumulator
  saving,   \* the transactions of syncToDatabase still to commit
  db,       \* the object stores "sync" and "accountData"
  done,     \* saves and restarts so far
  broken    \* was a save cut off between its transactions

syncVars == <<stream, data, saving, db, done, broken>>

Message == "message"
NoToken == -1
Nil == 0

IsRoom(k) == stream[k] \notin AccountType
LastOf(x, p) == LET ks == {k \in 1 .. p : stream[k] = x}
                IN  IF ks = {} THEN Nil ELSE CHOOSE k \in ks : \A j \in ks : j <= k

\* unsigned.prev_content of a state event.
prevContent(k) == LastOf(stream[k], k - 1)

\* The room events after position a, up to b.
RoomEvents(a, b) ==
  LET upTo[k \in 0 .. b] == IF k <= a THEN <<>>
                            ELSE IF IsRoom(k) THEN Append(upTo[k - 1], k) ELSE upTo[k - 1]
  IN  upTo[b]

-----------------------------------------------------------------------------
(* SyncAccumulator                                                         *)

Empty == [state |-> [s \in StateKey |-> Nil], timeline |-> <<>>,
          account |-> [t \in AccountType |-> Nil], nextBatch |-> NoToken]

\* The timeline is cut before an entry that has a token.
prune(tl) ==
  LET from == Len(tl) - maxTimelineEntries + 1
      at == {i \in from .. Len(tl) : tl[i].token # NoToken}
  IN  IF from > 1 /\ at # {}
      THEN SubSeq(tl, CHOOSE i \in at : \A j \in at : i <= j, Len(tl)) ELSE tl

\* Mutant: a limited answer is added to the timeline.
accumulateJoinState_keeps(acc, res) ==
  LET new == [i \in 1 .. Len(res.timeline) |->
                [event |-> res.timeline[i], token |-> IF i = 1 THEN res.prevBatch ELSE NoToken]]
      all == {res.timeline[i] : i \in DOMAIN res.timeline}
      cur(s) == LET ks == {k \in all : stream[k] = s} \cup {res.state[s], acc.state[s]}
                IN  CHOOSE k \in ks : \A j \in ks : j <= k
  IN  [acc EXCEPT !.state = [s \in StateKey |-> cur(s)], !.timeline = prune(@ \o new)]

\* accumulateJoinState: a limited answer drops the timeline; the state
\* section, then the timeline, set the current state; the first event of the
\* timeline carries the token.
accumulateJoinState(acc, res) ==
  LET kept == IF res.limited THEN <<>> ELSE acc.timeline
      new == [i \in 1 .. Len(res.timeline) |->
                [event |-> res.timeline[i], token |-> IF i = 1 THEN res.prevBatch ELSE NoToken]]
      latest(s) == {i \in DOMAIN res.timeline : stream[res.timeline[i]] = s}
      cur(s) == IF latest(s) # {} THEN res.timeline[CHOOSE i \in latest(s) : \A j \in latest(s) : j <= i]
                ELSE IF res.state[s] # Nil THEN res.state[s] ELSE acc.state[s]
  IN  [acc EXCEPT !.state = [s \in StateKey |-> cur(s)], !.timeline = prune(kept \o new)]

accumulate(acc, res) ==
  [accumulateJoinState(acc, res) EXCEPT
     !.account = [t \in AccountType |-> IF res.account[t] # Nil THEN res.account[t] ELSE @[t]],
     !.nextBatch = res.nextBatch]

\* getJSON: the timeline from its first token, and the current state rolled
\* back over it with the previous content of its state events.
getJSON(acc) ==
  LET withToken == {i \in DOMAIN acc.timeline : acc.timeline[i].token # NoToken}
      first == IF withToken = {} THEN Len(acc.timeline) + 1
               ELSE CHOOSE i \in withToken : \A j \in withToken : i <= j
      tl == [i \in 1 .. Len(acc.timeline) - first + 1 |-> acc.timeline[first + i - 1].event]
      earliest(s) == {i \in DOMAIN tl : stream[tl[i]] = s}
      back(s) == LET e == tl[CHOOSE i \in earliest(s) : \A j \in earliest(s) : i <= j]
                 IN  IF prevContent(e) # Nil THEN prevContent(e) ELSE e
  IN  [state |-> [s \in StateKey |-> IF earliest(s) = {} THEN acc.state[s] ELSE back(s)],
       timeline |-> tl,
       prevBatch |-> IF withToken = {} THEN NoToken ELSE acc.timeline[first].token,
       limited |-> FALSE, account |-> acc.account, nextBatch |-> acc.nextBatch]

-----------------------------------------------------------------------------
\* What /sync answers for the stream up to h; without a token it is limited
\* and has the whole state.
answer(from, h) ==
  LET es == RoomEvents(from, h)
      limited == Len(es) > SyncSize
      tl == IF limited THEN SubSeq(es, Len(es) - SyncSize + 1, Len(es)) ELSE es
      start == IF tl = <<>> THEN h ELSE tl[1] - 1
      since(x, p) == IF LastOf(x, p) > from THEN LastOf(x, p) ELSE Nil
  IN  [limited |-> limited, timeline |-> tl, prevBatch |-> start, nextBatch |-> h,
       state |-> [s \in StateKey |-> since(s, start)],
       account |-> [t \in AccountType |-> since(t, h)]]

SavedInit ==
  /\ stream = <<>>
  /\ data = [Empty EXCEPT !.nextBatch = 0]
  /\ saving = {}
  /\ db = [sync |-> getJSON(data), account |-> Empty.account]
  /\ done = [saves |-> 0, restarts |-> 0]
  /\ broken = FALSE

StreamEntry(x) ==
  /\ Len(stream) < MaxStream
  /\ stream' = Append(stream, x)
  /\ UNCHANGED <<data, saving, db, done, broken>>

\* setSyncData, with the next answer to /sync.
setSyncData(h) ==
  /\ h \in data.nextBatch + 1 .. Len(stream)
  /\ data' = accumulate(data, answer(data.nextBatch, h))
  /\ UNCHANGED <<stream, saving, db, done, broken>>

\* syncToDatabase: one transaction for the sync data, one for the account
\* data, of one snapshot.
syncToDatabase ==
  /\ done.saves < MaxSaves
  /\ saving = {}
  /\ done' = [done EXCEPT !.saves = @ + 1]
  /\ saving' = {[to |-> "sync", what |-> getJSON(data)], [to |-> "account", what |-> getJSON(data)]}
  /\ UNCHANGED <<stream, data, db, broken>>

persist(t) ==
  /\ saving' = saving \ {t}
  /\ db' = IF t.to = "sync" THEN [db EXCEPT !.sync = t.what]
           ELSE [db EXCEPT !.account = [a \in AccountType |->
                                          IF t.what.account[a] # Nil THEN t.what.account[a] ELSE @[a]]]
  /\ UNCHANGED <<stream, data, done, broken>>

\* The page is closed, and connect() reads the database into a new
\* accumulator.
connect ==
  /\ done.restarts < MaxRestarts
  /\ done' = [done EXCEPT !.restarts = @ + 1]
  /\ data' = accumulate(Empty, [db.sync EXCEPT !.account = db.account])
  /\ broken' = (broken \/ \E t \in saving : t.to = "account" /\ t.what.nextBatch = db.sync.nextBatch)
  /\ saving' = {}
  /\ UNCHANGED <<stream, db>>

SavedNext ==
  \/ \E x \in StateKey \cup AccountType \cup {Message} : StreamEntry(x)
  \/ \E h \in 1 .. MaxStream : setSyncData(h)
  \/ syncToDatabase
  \/ \E t \in saving : persist(t)
  \/ connect

SavedSpec == SavedInit /\ [][SavedNext]_syncVars

-----------------------------------------------------------------------------
(* Properties.                                                             *)

\* Every part of the state has its type.
SavedTypeOK ==
  /\ data.nextBatch \in 0 .. Len(stream)
  /\ data.state \in [StateKey -> 0 .. Len(stream)]
  /\ data.account \in [AccountType -> 0 .. Len(stream)]
  /\ \A i \in DOMAIN data.timeline : data.timeline[i].event \in DOMAIN stream
  /\ saving = {} \/ done.saves > 0
  /\ broken \in BOOLEAN

\* After any folding, saving, restarting and folding again the accumulator
\* says what the server has at its token: the current state of the room, its
\* account data, a timeline without a gap since its first token that stays
\* within maxTimelineEntries, and in getJSON the state at that token, rolled
\* back over the timeline.  A restart between the two transactions of a save
\* is left out for account data (see the README); and a state event with
\* nothing before it is rolled back to itself.
AccumulatedIsCurrent ==
  LET json == getJSON(data)
      p == data.nextBatch
  IN  /\ SavedTypeOK
      /\ \A s \in StateKey : data.state[s] = LastOf(s, p)
      /\ ~broken => \A t \in AccountType : data.account[t] >= LastOf(t, p)
      /\ Len(data.timeline) = Len(json.timeline)
      /\ SyncSize <= maxTimelineEntries => Len(data.timeline) <= maxTimelineEntries
      /\ json.timeline # <<>> =>
           /\ json.timeline = RoomEvents(json.prevBatch, p)
           /\ \A s \in StateKey : \/ json.state[s] = LastOf(s, json.prevBatch)
                                  \/ LastOf(s, json.prevBatch) = Nil
=============================================================================
