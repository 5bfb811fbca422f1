------------------------- MODULE RealtimeCallbacks -------------------------
(***************************************************************************)
(* realtime-callbacks.ts: timeouts that are also met after the system was  *)
(* suspended.  Two clocks: `now` is the wall clock the deadlines are on,   *)
(* `awake` the time the machine was running, on which the one timer of the *)
(* platform (realAt) counts; a suspension moves only the first.            *)
(***************************************************************************)
EXTENDS Integers, Sequences, SequencesExt, FiniteSets, FiniteSetsExt

CONSTANTS TIMER_CHECK_PERIOD,   \* TIMER_CHECK_PERIOD_MS
          Delay,                \* delays asked for
          MaxTimeouts,          \* bound: calls of setTimeout
          MaxAwake,             \* bound: how long the machine runs
          MaxJump               \* bound: how long it is suspended, in all

ASSUME CallbacksAssumption == /\ TIMER_CHECK_PERIOD \in Nat \ {0} /\ Delay \subseteq Nat
                              /\ {MaxTimeouts, MaxAwake, MaxJump} \subseteq Nat

VARIABLES now, awake, callbackList, realAt, toRun, timeouts, ranKeys, clearedKeys

timerVars == <<now, awake, callbackList, realAt, toRun, timeouts, ranKeys, clearedKeys>>

NoRealTimer == -1
Callback == [key : 1 .. MaxTimeouts, runAt : Nat]

\* Every part of the state has its type.
CallbacksTypeOK ==
    /\ Range(callbackList) \cup Range(toRun) \subseteq Callback
    /\ realAt \in Nat \cup {NoRealTimer}
    /\ awake <= now /\ timeouts \in 0 .. MaxTimeouts
    /\ ranKeys \subseteq 1 .. timeouts /\ clearedKeys \subseteq 1 .. timeouts

CallbacksInit ==
    /\ now = 0 /\ awake = 0
    /\ callbackList = <<>> /\ realAt = NoRealTimer /\ toRun = <<>>
    /\ timeouts = 0 /\ ranKeys = {} /\ clearedKeys = {}

\* binarySearch for the place of a callback due at runAt: the window of places
\* (counted from 0) from w[1] to w[2] is halved until it is empty.
binarySearch(list, runAt) ==
    LET search[w \in (0 .. Len(list)) \X (0 .. Len(list))] ==
          LET mid == (w[1] + w[2]) \div 2 IN
          IF w[1] >= w[2] THEN w[1]
          ELSE IF list[mid + 1].runAt > runAt THEN search[<<w[1], mid>>]
          ELSE search[<<mid + 1, w[2]>>]
    IN  search[<<0, Len(list)>>]

\* scheduleRealCallback: when the platform's timer will go off, given the list.
scheduleRealCallback(list) ==
    IF list = <<>> THEN NoRealTimer
    ELSE awake + Max({0, Min({Head(list).runAt - now, TIMER_CHECK_PERIOD})})

\* Mutant: the timer of the platform is left as it is set.
setTimeout_as_set(delay) ==
    LET cb == [key |-> timeouts + 1, runAt |-> now + delay]
        at == binarySearch(callbackList, cb.runAt) IN
    /\ timeouts < MaxTimeouts
    /\ timeouts' = timeouts + 1
    /\ callbackList' = InsertAt(callbackList, at + 1, cb)
    /\ realAt' = IF realAt = NoRealTimer THEN scheduleRealCallback(callbackList') ELSE realAt
    /\ UNCHANGED <<now, awake, toRun, ranKeys, clearedKeys>>

\* A callback is inserted after those due no later, and the timer is set anew.
setTimeout(delay) ==
    LET cb == [key |-> timeouts + 1, runAt |-> now + delay]
        at == binarySearch(callbackList, cb.runAt) IN
    /\ timeouts < MaxTimeouts
    /\ timeouts' = timeouts + 1
    /\ callbackList' = InsertAt(callbackList, at + 1, cb)
    /\ realAt' = scheduleRealCallback(callbackList')
    /\ UNCHANGED <<now, awake, toRun, ranKeys, clearedKeys>>

\* Only a callback that is first in the list changes when the timer goes off.
clearTimeout(key) ==
    LET places == {i \in DOMAIN callbackList : callbackList[i].key = key} IN
    /\ key \in 1 .. timeouts \ (ranKeys \cup clearedKeys)
    /\ clearedKeys' = clearedKeys \cup {key}
    /\ callbackList' = IF places = {} THEN callbackList ELSE RemoveAt(callbackList, Min(places))
    /\ realAt' = IF 1 \in places THEN scheduleRealCallback(callbackList') ELSE realAt
    /\ UNCHANGED <<now, awake, toRun, timeouts, ranKeys>>

\* The timer goes off: the callbacks before the first that is not due are taken
\* off the list, and the timer is set again.
runCallbacks ==
    /\ realAt # NoRealTimer /\ awake >= realAt /\ toRun = <<>>
    /\ \E n \in 0 .. Len(callbackList) :
         /\ \A i \in 1 .. n : callbackList[i].runAt <= now
         /\ n < Len(callbackList) => callbackList[n + 1].runAt > now
         /\ toRun' = SubSeq(callbackList, 1, n)
         /\ callbackList' = SubSeq(callbackList, n + 1, Len(callbackList))
    /\ realAt' = scheduleRealCallback(callbackList')
    /\ UNCHANGED <<now, awake, timeouts, ranKeys, clearedKeys>>

\* The functions run one after the other; each may set and clear timeouts.
callbackRuns ==
    /\ toRun # <<>>
    /\ ranKeys' = ranKeys \cup {Head(toRun).key}
    /\ toRun' = Tail(toRun)
    /\ UNCHANGED <<now, awake, callbackList, realAt, timeouts, clearedKeys>>

\* Time does not pass while functions run or the timer is due.
timePasses ==
    /\ toRun = <<>> /\ ~(realAt # NoRealTimer /\ awake >= realAt) /\ awake < MaxAwake
    /\ awake' = awake + 1 /\ now' = now + 1
    /\ UNCHANGED <<callbackList, realAt, toRun, timeouts, ranKeys, clearedKeys>>

systemSuspended ==
    /\ toRun = <<>> /\ now - awake < MaxJump
    /\ now' = now + 1
    /\ UNCHANGED <<awake, callbackList, realAt, toRun, timeouts, ranKeys, clearedKeys>>

CallbacksNext ==
    \/ \E delay \in Delay : setTimeout(delay)
    \/ \E key \in 1 .. MaxTimeouts : clearTimeout(key)
    \/ runCallbacks \/ callbackRuns \/ timePasses \/ systemSuspended

CallbacksSpec == CallbacksInit /\ [][CallbacksNext]_timerVars

----------------------------------------------------------------------------
(* Properties.                                                             *)

\* The timer of the platform goes off in time for every deadline, as far as no
\* suspension comes between, and is never further off than the period.
TimerIsSet ==
    callbackList # <<>> =>
      /\ realAt # NoRealTimer /\ realAt <= awake + TIMER_CHECK_PERIOD
      /\ \A cb \in Range(callbackList) : realAt - awake <= Max({0, cb.runAt - awake})

\* The list is in the order of the deadlines, and of the calls among equal ones.
InOrder ==
    \A i, j \in DOMAIN callbackList : i < j =>
      \/ callbackList[i].runAt < callbackList[j].runAt
      \/ callbackList[i].runAt = callbackList[j].runAt /\ callbackList[i].key < callbackList[j].key

\* A callback that has run is not kept.
RunsOnce == \A cb \in Range(callbackList) \cup Range(toRun) : cb.key \notin ranKeys

\* However setTimeout, clearTimeout, the timer and suspensions interleave, every
\* pending callback is met in time, in order and once.
TimersAreKept == CallbacksTypeOK /\ TimerIsSet /\ InOrder /\ RunsOnce
=============================================================================
