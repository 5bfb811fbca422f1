------------------------------ MODULE SyncLoop ------------------------------
(***************************************************************************)
(* sync.ts: the start of a client's sync (push rules, lazy loading, filter *)
(* and, in parallel, the sync saved in the store), the /sync loop, and the *)
(* keep-alive polls that wait for a lost connection to come back.          *)
(*                                                                         *)
(* Sync tokens are positions in the server's stream.  The loop is a chain  *)
(* of continuations, of which one waits at any time: task names it.        *)
(***************************************************************************)
EXTENDS Integers, FiniteSets

CONSTANTS
  FAILED_SYNC_ERROR_THRESHOLD,
  MaxHead,         \* positions in the server's stream
  MaxFailures,     \* requests that fail
  MaxPokes,        \* keep-alive polls in flight
  MaxOnline,       \* "online" events and calls of retryImmediately
  MaxThrows        \* exceptions outside of doSync's try block

ASSUME SyncLoopAssumption ==
  /\ FAILED_SYNC_ERROR_THRESHOLD \in Nat
  /\ {MaxHead, MaxFailures, MaxPokes, MaxOnline, MaxThrows} \subseteq Nat

VARIABLES
  head,        \* external: the server's position
  task,        \* the continuation the loop waits in
  running,
  syncState,
  failedSyncCount,
  storeIsInvalid,
  saved,       \* how far savedSyncPromise is
  savedTok,    \* savedSyncToken
  diskTok,     \* the token in the store
  storeTok,    \* client.store.getSyncToken()
  have,        \* the position up to which data has been processed
  req,         \* currentSyncRequest
  resp,        \* the response being processed
  defer,       \* is there a connectionReturnedDefer?
  timer,       \* the timer that keepAliveTimer names
  orphans,     \* timers that it named earlier and that still run
  pokes,       \* polls in flight, by their connDidFail
  savedFailed, \* history: the saved sync could not be loaded
  used

loopVars == <<task, running, syncState, failedSyncCount, storeIsInvalid>>
dataVars == <<savedTok, diskTok, storeTok, have, req, resp>>
aliveVars == <<defer, timer, orphans, pokes>>

vars == <<head, loopVars, saved, dataVars, aliveVars, savedFailed, used>>

None == -1
Token == Nat \cup {None}
SyncState == {"null", "PREPARED", "SYNCING", "ERROR", "RECONNECTING", "CATCHUP", "STOPPED"}
Waiting == {"waitRules", "waitFilter", "waitSync"}
NoReq == [since |-> None, res |-> "none"]
NoResp == [since |-> None, old |-> None, next |-> None]
NoTimer == [kind |-> "none", failed |-> FALSE]
Timer == [kind : {"none", "poke", "success"}, failed : BOOLEAN]
Spend(b) == used' = [used EXCEPT ![b] = @ + 1]

Init ==
  /\ head = 1 /\ task = "idle" /\ running = FALSE /\ syncState = "null"
  /\ failedSyncCount = 0 /\ storeIsInvalid = FALSE
  /\ saved = "token" /\ savedTok = None /\ diskTok \in {None, 1}
  /\ storeTok = None /\ have = None /\ req = NoReq /\ resp = NoResp
  /\ defer = FALSE /\ timer = NoTimer /\ orphans = {} /\ pokes = [f \in BOOLEAN |-> 0]
  /\ savedFailed = FALSE
  /\ used = [failures |-> 0, online |-> 0, throws |-> 0, stops |-> 0]

-----------------------------------------------------------------------------
(* Pieces that several handlers share.                                     *)

\* startKeepAlives with the default delay.
startKeepAlives ==
  /\ timer' = [kind |-> "poke", failed |-> FALSE]
  /\ defer' = TRUE
  /\ UNCHANGED <<orphans, pokes>>

\* doSync, up to its first await, in the state st.
doSync(st) ==
  IF running
  THEN /\ task' = "syncing" /\ syncState' = st
       /\ req' = IF req = NoReq THEN [since |-> storeTok, res |-> "flight"] ELSE req
       /\ resp' = [NoResp EXCEPT !.old = storeTok]
  ELSE /\ task' = "done" /\ syncState' = "STOPPED"
       /\ UNCHANGED <<req, resp>>

\* enhancePrivacyCheck and then doSync; an exception ends the chain.
privacyCheckThenSync(st) ==
  \/ /\ doSync(st)
     /\ defer' = (defer /\ running)
     /\ UNCHANGED used
  \/ /\ used.throws < MaxThrows /\ Spend("throws")
     /\ task' = "done" /\ syncState' = st
     /\ UNCHANGED <<req, resp, defer>>

\* stop(): the running request is aborted, the timer cleared.
Aborted(r) == IF r.res = "flight" THEN [r EXCEPT !.res = "error"] ELSE r

-----------------------------------------------------------------------------
(* Start.                                                                  *)

sync(guest) ==
  /\ task = "idle"
  /\ running' = TRUE
  /\ IF guest
     THEN /\ saved' = "done" /\ task' = "syncing"
          /\ req' = [since |-> storeTok, res |-> "flight"]
          /\ resp' = [NoResp EXCEPT !.old = storeTok]
     ELSE /\ task' = "pushRules"
          /\ UNCHANGED <<saved, req, resp>>
  /\ UNCHANGED <<head, savedFailed, syncState, failedSyncCount, storeIsInvalid, savedTok, diskTok,
                 storeTok, have, aliveVars, used>>

\* The saved sync: its token, its data, and syncFromCache.
getSavedSyncToken ==
  /\ saved = "token" /\ task # "idle"
  /\ saved' = "data" /\ savedTok' = diskTok
  /\ UNCHANGED <<head, savedFailed, loopVars, diskTok, storeTok, have, req, resp, aliveVars,
                 used>>

syncFromCache ==
  /\ saved = "data"
  /\ saved' = "done"
  /\ \/ /\ diskTok # None
        /\ storeTok' = diskTok /\ have' = diskTok
        /\ syncState' = IF storeIsInvalid THEN syncState ELSE "PREPARED"
        /\ UNCHANGED savedFailed
     \/ /\ savedFailed' = (diskTok # None)
        /\ UNCHANGED <<storeTok, have, syncState>>
  /\ UNCHANGED <<head, task, running, failedSyncCount, storeIsInvalid, savedTok, diskTok, req,
                 resp, aliveVars, used>>

\* getPushRules, checkLazyLoadStatus and getFilter, when their request succeeds.
getPushRules ==
  /\ task = "pushRules"
  /\ task' = "lazyLoad"
  /\ UNCHANGED <<head, savedFailed, running, syncState, failedSyncCount, storeIsInvalid, saved,
                 dataVars, aliveVars, used>>

checkLazyLoadStatus ==
  /\ task = "lazyLoad"
  /\ \/ task' = "filter" /\ UNCHANGED <<storeIsInvalid, syncState, used>>
     \/ task' = "done" /\ storeIsInvalid' = TRUE /\ syncState' = "ERROR" /\ UNCHANGED used
     \/ /\ used.throws < MaxThrows /\ Spend("throws")
        /\ task' = "done" /\ UNCHANGED <<storeIsInvalid, syncState>>
  /\ UNCHANGED <<head, savedFailed, running, failedSyncCount, saved, dataVars, aliveVars>>

getFilter ==
  /\ task = "filter"
  /\ task' = "awaitSaved"
  /\ req' = [since |-> savedTok, res |-> "flight"]
  /\ UNCHANGED <<head, running, syncState, failedSyncCount, storeIsInvalid, saved, savedTok,
                 diskTok, storeTok, have, resp, aliveVars, savedFailed, used>>

\* Mutant: the loop does not wait for the saved sync.
awaitSaved_eager ==
  /\ task = "awaitSaved"
  /\ privacyCheckThenSync(syncState)
  /\ UNCHANGED <<head, savedFailed, running, failedSyncCount, storeIsInvalid, saved, savedTok,
                 diskTok, storeTok, have, timer, orphans, pokes>>

awaitSaved ==
  /\ task = "awaitSaved" /\ saved = "done"
  /\ privacyCheckThenSync(syncState)
  /\ UNCHANGED <<head, savedFailed, running, failedSyncCount, storeIsInvalid, saved, savedTok,
                 diskTok, storeTok, have, timer, orphans, pokes>>

\* Mutant: a request that fails at the start is not repeated.
StartupRequestFails_gives_up ==
  /\ task \in {"pushRules", "filter"}
  /\ used.failures < MaxFailures /\ Spend("failures")
  /\ task' = "done"
  /\ UNCHANGED <<head, savedFailed, running, syncState, failedSyncCount, storeIsInvalid, saved,
                 dataVars, aliveVars>>

\* Their request fails: recoverFromSyncStartupError waits for the saved sync,
\* unless the access token is unknown.
StartupRequestFails ==
  /\ task \in {"pushRules", "filter"}
  /\ used.failures < MaxFailures /\ Spend("failures")
  /\ \/ /\ task' = IF task = "pushRules" THEN "recoverRules" ELSE "recoverFilter"
        /\ UNCHANGED <<running, timer>>
     \/ /\ task' = "done" /\ running' = FALSE /\ timer' = NoTimer
  /\ UNCHANGED <<head, savedFailed, syncState, failedSyncCount, storeIsInvalid, saved, dataVars,
                 defer, orphans, pokes>>

recoverFromSyncStartupError ==
  /\ task \in {"recoverRules", "recoverFilter"} /\ saved = "done"
  /\ startKeepAlives
  /\ syncState' = "ERROR"
  /\ task' = IF task = "recoverRules" THEN "waitRules" ELSE "waitFilter"
  /\ UNCHANGED <<head, savedFailed, running, failedSyncCount, storeIsInvalid, saved, dataVars,
                 used>>

-----------------------------------------------------------------------------
(* The loop.                                                               *)

\* External: the /sync request is answered.
SyncAnswer ==
  /\ req.res = "flight"
  /\ \/ req' = [req EXCEPT !.res = "ok"] /\ UNCHANGED used
     \/ /\ used.failures < MaxFailures /\ Spend("failures")
        /\ \E e \in {"error", "unknownToken"} : req' = [req EXCEPT !.res = e]
  /\ UNCHANGED <<head, savedFailed, loopVars, saved, savedTok, diskTok, storeTok, have, resp,
                 aliveVars>>

\* The response is there: the token moves first.
SyncResponse ==
  /\ task = "syncing" /\ req.res = "ok"
  /\ task' = "processing" /\ req' = NoReq
  /\ storeTok' = head /\ failedSyncCount' = 0
  /\ resp' = [resp EXCEPT !.since = req.since, !.next = head]
  /\ UNCHANGED <<head, savedFailed, running, syncState, storeIsInvalid, saved, savedTok, diskTok,
                 have, aliveVars, used>>

\* The rest of doSync, with its store.save(), and the next doSync.  What it awaits
\* for the store and for crypto may throw, before or after PREPARED.
SyncProcessed ==
  /\ task = "processing"
  /\ \/ /\ have' = resp.next
        /\ diskTok' \in {diskTok, resp.next}
        /\ privacyCheckThenSync("SYNCING")
     \/ /\ used.throws < MaxThrows /\ Spend("throws")
        /\ task' = "done"
        /\ \/ have' \in {have, resp.next} /\ UNCHANGED syncState
           \/ have' = resp.next /\ syncState' = "PREPARED"
        /\ UNCHANGED <<diskTok, req, resp, defer>>
  /\ UNCHANGED <<head, savedFailed, running, failedSyncCount, storeIsInvalid, saved, savedTok,
                 storeTok, timer, orphans, pokes>>

FailureState(n) == IF n >= FAILED_SYNC_ERROR_THRESHOLD THEN "ERROR" ELSE "RECONNECTING"

onSyncError ==
  /\ task = "syncing" /\ req.res \in {"error", "unknownToken"}
  /\ req' = NoReq
  /\ \/ /\ ~running
        /\ task' = "done" /\ syncState' = "STOPPED" /\ defer' = FALSE
        /\ UNCHANGED <<running, failedSyncCount, timer, orphans, pokes>>
     \/ /\ running /\ req.res = "unknownToken"
        /\ task' = "done" /\ running' = FALSE /\ timer' = NoTimer
        /\ UNCHANGED <<syncState, failedSyncCount, defer, orphans, pokes>>
     \/ /\ running /\ req.res = "error"
        /\ task' = "waitSync"
        /\ failedSyncCount' = failedSyncCount + 1
        /\ startKeepAlives
        /\ syncState' = FailureState(failedSyncCount')
        /\ UNCHANGED running
  /\ UNCHANGED <<head, savedFailed, storeIsInvalid, saved, savedTok, diskTok, storeTok, have,
                 resp, used>>

-----------------------------------------------------------------------------
(* Keep-alives.                                                            *)

\* pokeKeepAlive's success(): the deferred resolves, and who waits goes on.
success(connDidFail) ==
  /\ timer' = NoTimer /\ defer' = FALSE
  /\ \/ /\ defer /\ task = "waitSync"
        /\ doSync(IF connDidFail /\ syncState = "ERROR" THEN "CATCHUP" ELSE syncState)
     \/ /\ defer /\ task \in {"waitRules", "waitFilter"}
        /\ task' = IF task = "waitRules" THEN "pushRules" ELSE "filter"
        /\ UNCHANGED <<syncState, req, resp>>
     \/ /\ ~defer \/ task \notin Waiting
        /\ UNCHANGED <<task, syncState, req, resp>>

PokeAnswered(f) ==
  /\ pokes[f] > 0
  /\ pokes' = [pokes EXCEPT ![f] = @ - 1]
  /\ success(f)
  /\ UNCHANGED <<head, savedFailed, running, failedSyncCount, storeIsInvalid, saved, savedTok,
                 diskTok, storeTok, have, orphans, used>>

\* A poll fails: a 400 or 404 counts as a connection, after a moment.
NewTimer(t) == timer' = t /\ orphans' = orphans \cup ({timer} \ {NoTimer})

PokeFails(f) ==
  /\ pokes[f] > 0
  /\ used.failures < MaxFailures /\ Spend("failures")
  /\ pokes' = [pokes EXCEPT ![f] = @ - 1]
  /\ \/ NewTimer([kind |-> "success", failed |-> f]) /\ UNCHANGED syncState
     \/ NewTimer([kind |-> "poke", failed |-> TRUE]) /\ syncState' = "ERROR"
  /\ UNCHANGED <<head, savedFailed, task, running, failedSyncCount, storeIsInvalid, saved,
                 dataVars, defer>>

Poke(f) ==
  /\ pokes[FALSE] + pokes[TRUE] < MaxPokes
  /\ pokes' = [pokes EXCEPT ![f] = @ + 1]

\* A timer fires: the one keepAliveTimer names, or an older one.
TimerFires(t) ==
  /\ \/ t = timer /\ orphans' = orphans
     \/ t \in orphans /\ orphans' = orphans \ {t}
  /\ \/ /\ t.kind = "poke" /\ Poke(t.failed)
        /\ timer' = IF t = timer /\ orphans' = orphans THEN NoTimer ELSE timer
        /\ UNCHANGED <<task, syncState, req, resp, defer>>
     \/ /\ t.kind = "success" /\ success(t.failed)
        /\ UNCHANGED pokes
  /\ UNCHANGED <<head, savedFailed, running, failedSyncCount, storeIsInvalid, saved, savedTok,
                 diskTok, storeTok, have, used>>

\* onOnline, or retryImmediately while a connection is awaited: startKeepAlives(0).
startKeepAlivesNow ==
  /\ running
  /\ used.online < MaxOnline /\ Spend("online")
  /\ Poke(FALSE)
  /\ timer' = NoTimer /\ defer' = TRUE
  /\ UNCHANGED <<head, savedFailed, loopVars, saved, dataVars, orphans>>

stop ==
  /\ running
  /\ running' = FALSE /\ Spend("stops")
  /\ req' = Aborted(req)
  /\ timer' = NoTimer
  /\ UNCHANGED <<head, savedFailed, task, syncState, failedSyncCount, storeIsInvalid, saved,
                 savedTok, diskTok, storeTok, have, resp, defer, orphans, pokes>>

\* External: something happens at the server.
ServerEvent ==
  /\ head < MaxHead
  /\ head' = head + 1
  /\ UNCHANGED <<savedFailed, loopVars, saved, dataVars, aliveVars, used>>

-----------------------------------------------------------------------------
Startup ==
  \/ getSavedSyncToken \/ syncFromCache
  \/ getPushRules \/ checkLazyLoadStatus \/ getFilter \/ awaitSaved
  \/ recoverFromSyncStartupError

KeepAlive ==
  \/ \E f \in BOOLEAN : PokeAnswered(f)
  \/ \E t \in orphans \cup {timer} : TimerFires(t)

Loop == SyncResponse \/ SyncProcessed \/ onSyncError

Next ==
  \/ \E guest \in BOOLEAN : sync(guest)
  \/ Startup \/ StartupRequestFails \/ SyncAnswer \/ Loop \/ KeepAlive
  \/ \E f \in BOOLEAN : PokeFails(f)
  \/ startKeepAlivesNow \/ stop \/ ServerEvent

Spec == Init /\ [][Next]_vars

-----------------------------------------------------------------------------
(* Properties.                                                             *)

\* Every part of the state has its type: the loop's, the data's, the keep-alives'.
LoopType ==
  /\ head \in Nat
  /\ task \in Waiting \cup {"idle", "pushRules", "lazyLoad", "filter", "awaitSaved", "syncing",
                            "processing", "recoverRules", "recoverFilter", "done"}
  /\ running \in BOOLEAN /\ storeIsInvalid \in BOOLEAN
  /\ syncState \in SyncState /\ failedSyncCount \in Nat
  /\ saved \in {"token", "data", "done"} /\ savedFailed \in BOOLEAN

DataType ==
  /\ savedTok \in Token /\ diskTok \in Token /\ storeTok \in Token /\ have \in Token
  /\ req \in [since : Token, res : {"none", "flight", "ok", "error", "unknownToken"}]
  /\ resp \in [since : Token, old : Token, next : Token]

AliveType ==
  /\ defer \in BOOLEAN /\ timer \in Timer /\ orphans \subseteq Timer
  /\ pokes \in [BOOLEAN -> Nat]

TypeOK == LoopType /\ DataType /\ AliveType

\* The loop never waits for a connection that nobody polls for.
WaiterIsServed ==
  running /\ task \in Waiting
    => defer /\ (timer # NoTimer \/ orphans # {} \/ pokes[FALSE] + pokes[TRUE] > 0)

\* A response is processed only on top of the data it continues, unless the
\* saved data that the first request relied on could not be loaded.
NoGap == task = "processing" /\ ~savedFailed => resp.since \in {None, have}

\* Through failures, polls, retries and restarts of the loop, the client waits
\* for nothing that never comes and skips nothing of the server's stream.
SyncIsGapless == TypeOK /\ WaiterIsServed /\ NoGap

\* A running client goes on syncing once its requests succeed again.
KeepsSyncing ==
  []<>(task = "processing" \/ ~running \/ storeIsInvalid \/ used.throws > 0)
=============================================================================
