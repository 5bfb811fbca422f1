---------------------------- MODULE KeyRequests ----------------------------
(***************************************************************************)
(* crypto/OutgoingRoomKeyRequestManager.ts: requests for room keys, which  *)
(* live in a crypto store that several tabs share, are sent by a timer's   *)
(* loop or at once, and are cancelled and resent.  Every access to the     *)
(* store is a transaction of its own; a call reads a request and updates   *)
(* it, if it is still in the state it was read in, in a later one.         *)
(***************************************************************************)
EXTENDS Integers, FiniteSets

CONSTANTS
  Tabs, Bodies,     \* the tabs, and the keys they ask for
  Ops,              \* the calls that the application makes
  MaxCalls, MaxFailures, MaxReloads, MaxStops

ASSUME KeyRequestsAssumption ==
  /\ Ops \subseteq {"queue", "resend", "resendAll", "unwedge", "cancel"}
  /\ {MaxCalls, MaxFailures, MaxReloads, MaxStops} \subseteq Nat

VARIABLES
  row,        \* the store's table of outgoing requests
  calls,      \* calls between two of their transactions
  sends,      \* sendToDevice requests in flight
  timer,      \* sendOutgoingRoomKeyRequestsTimer: unset, set, or its loop runs
  immediate,  \* sendKeyRequestsImmediately
  running,    \* clientRunning
  next,       \* the next transaction id
  seen,       \* external: transactions the server knows
  held,       \* external: requests that the recipients hold
  used

tabVars == <<timer, immediate, running>>
server == <<seen, held>>
vars == <<row, calls, sends, tabVars, next, server, used>>

NoRow == [st |-> "none"]
RoomKeyRequestState == {"Unsent", "Sent", "CancellationPending", "CancellationPendingAndWillResend"}
Pending == RoomKeyRequestState \ {"Sent"}
Row == [st : RoomKeyRequestState, id : Nat, requestTxnId : Nat, cancellationTxnId : Nat]
Call == [tab : Tabs, op : Ops, body : Bodies, id : Nat,
         todo : {"read", "add", "uncancel", "resend", "delete", "cancel"}]
Message == [tab : Tabs, from : Ops \cup {"timer"}, body : Bodies, id : Nat, txn : Nat,
            action : {"request", "request_cancellation"}, andResend : BOOLEAN, arrived : BOOLEAN]
Spend(b) == used' = [used EXCEPT ![b] = @ + 1]

Init ==
  /\ row = [b \in Bodies |-> NoRow]
  /\ calls = {} /\ sends = {}
  /\ timer = [t \in Tabs |-> "null"]
  /\ immediate = [t \in Tabs |-> FALSE]
  /\ running = [t \in Tabs |-> TRUE]
  /\ next = 1 /\ seen = {} /\ held = {}
  /\ used = [calls |-> 0, failures |-> 0, reloads |-> 0, stops |-> 0]

-----------------------------------------------------------------------------
startTimer(t) == timer' = [timer EXCEPT ![t] = IF @ = "null" THEN "waiting" ELSE @]

\* requestRoomKey's then(): a call of cancelAndResendAllOutgoingRequests or of
\* cancelRoomKeyRequest has no such continuation.
Return(t, op) ==
  IF op \in {"queue", "resend", "unwedge"} /\ immediate[t] THEN startTimer(t) ELSE UNCHANGED timer

\* The row of the request b, if it still is request id in state st.
IsIn(b, id, st) == row[b] # NoRow /\ row[b].id = id /\ row[b].st = st

sendCancellation(t, from, b, r, andResend) ==
  [tab |-> t, from |-> from, body |-> b, id |-> r.id, txn |-> r.cancellationTxnId,
   action |-> "request_cancellation", andResend |-> andResend, arrived |-> FALSE]

\* sendOutgoingRoomKeyRequest.
requestTxn(r) == IF r.requestTxnId # 0 THEN r.requestTxnId ELSE r.id

sendRequest(t, b, r) ==
  [tab |-> t, from |-> "timer", body |-> b, id |-> r.id, txn |-> requestTxn(r),
   action |-> "request", andResend |-> FALSE, arrived |-> FALSE]

-----------------------------------------------------------------------------
(* The calls of the application.                                           *)

NewCall(t, op, b) == [tab |-> t, op |-> op, body |-> b, id |-> 0, todo |-> "read"]

\* queueRoomKeyRequest and cancelRoomKeyRequest read the request first.
RequestCall(t, op, b) ==
  /\ op \in Ops \ {"resendAll", "unwedge"}
  /\ used.calls < MaxCalls /\ Spend("calls")
  /\ \A c \in calls : <<c.tab, c.op, c.body>> # <<t, op, b>>
  /\ calls' = calls \cup {NewCall(t, op, b)}
  /\ UNCHANGED <<row, sends, tabVars, next, server>>

\* One call for every request in state Sent.
cancelAndResendAllOutgoingRequests(t) ==
  /\ "resendAll" \in Ops
  /\ used.calls < MaxCalls /\ Spend("calls")
  /\ \A c \in calls : <<c.tab, c.op>> # <<t, "resendAll">>
  /\ calls' = calls \cup {NewCall(t, "resendAll", b) : b \in {x \in Bodies : row[x].st = "Sent"}}
  /\ UNCHANGED <<row, sends, tabVars, next, server>>

\* getOutgoingRoomKeyRequestsByTarget: recipients.includes({ userId, deviceId })
\* looks for an object that was just created.
getOutgoingRoomKeyRequestsByTarget == {}

\* The end of onToDeviceBadEncrypted, after a new olm session was set up.
onToDeviceBadEncrypted(t) ==
  /\ "unwedge" \in Ops
  /\ used.calls < MaxCalls /\ Spend("calls")
  /\ calls' = calls \cup {NewCall(t, "unwedge", b) : b \in getOutgoingRoomKeyRequestsByTarget}
  /\ UNCHANGED <<row, sends, tabVars, next, server>>

\* What a call does about a request in state st.
Todo(op, st) ==
  CASE op = "cancel" /\ st = "Unsent" -> "delete"
    [] op = "cancel" /\ st = "Sent" -> "cancel"
    [] op # "cancel" /\ st = "none" -> "add"
    [] op # "cancel" /\ st = "CancellationPending" -> "uncancel"
    [] op \notin {"queue", "cancel"} /\ st = "Sent" -> "resend"
    [] OTHER -> "nothing"

getOutgoingRoomKeyRequest(c) ==
  /\ c.todo = "read"
  /\ LET r == row[c.body]
         todo == Todo(c.op, r.st)
     IN  IF todo = "nothing"
         THEN calls' = calls \ {c} /\ Return(c.tab, c.op)
         ELSE /\ calls' = (calls \ {c}) \cup
                          {[c EXCEPT !.todo = todo, !.id = IF r = NoRow THEN 0 ELSE r.id]}
              /\ UNCHANGED timer
  /\ UNCHANGED <<row, sends, immediate, running, next, server, used>>

getOrAddOutgoingRoomKeyRequest(c) ==
  /\ c.todo = "add"
  /\ calls' = calls \ {c}
  /\ Return(c.tab, c.op)
  /\ IF row[c.body] = NoRow
     THEN row' = [row EXCEPT ![c.body] = [st |-> "Unsent", id |-> next, requestTxnId |-> 0,
                                          cancellationTxnId |-> 0]]
     ELSE UNCHANGED row
  /\ next' = next + 1
  /\ UNCHANGED <<sends, immediate, running, server, used>>

\* A cancellation that is still pending is withdrawn, or turned into a resend.
uncancel(c) ==
  /\ c.todo = "uncancel"
  /\ calls' = calls \ {c}
  /\ Return(c.tab, c.op)
  /\ next' = next + 1
  /\ IF IsIn(c.body, c.id, "CancellationPending")
     THEN row' = [row EXCEPT ![c.body].st = IF c.op = "queue" THEN "Sent"
                                            ELSE "CancellationPendingAndWillResend",
                             ![c.body].cancellationTxnId = next]
     ELSE UNCHANGED row
  /\ UNCHANGED <<sends, immediate, running, server, used>>

\* A request that was sent is cancelled at once and will be sent again.
Resent(r) ==
  [r EXCEPT !.st = "CancellationPendingAndWillResend", !.cancellationTxnId = next,
            !.requestTxnId = next + 1]

resend(c) ==
  /\ c.todo = "resend"
  /\ IF IsIn(c.body, c.id, "Sent")
     THEN /\ row' = [row EXCEPT ![c.body] = Resent(@)]
          /\ calls' = calls \ {c}
          /\ sends' = sends \cup {sendCancellation(c.tab, c.op, c.body, row'[c.body], TRUE)}
     ELSE /\ calls' = (calls \ {c}) \cup {[c EXCEPT !.todo = "read"]}
          /\ UNCHANGED <<row, sends>>
  /\ next' = next + 2
  /\ UNCHANGED <<tabVars, server, used>>

\* The rest of cancelRoomKeyRequest.
deleteUnsent(c) ==
  /\ c.todo = "delete"
  /\ calls' = calls \ {c}
  /\ row' = IF IsIn(c.body, c.id, "Unsent") THEN [row EXCEPT ![c.body] = NoRow] ELSE row
  /\ UNCHANGED <<sends, tabVars, next, server, used>>

cancelSent(c) ==
  /\ c.todo = "cancel"
  /\ calls' = calls \ {c}
  /\ next' = next + 1
  /\ IF IsIn(c.body, c.id, "Sent")
     THEN /\ row' = [row EXCEPT ![c.body].st = "CancellationPending",
                                ![c.body].cancellationTxnId = next]
          /\ sends' = sends \cup {sendCancellation(c.tab, "cancel", c.body, row'[c.body], FALSE)}
     ELSE UNCHANGED <<row, sends>>
  /\ UNCHANGED <<tabVars, server, used>>

-----------------------------------------------------------------------------
(* The timer's loop, and the messages.                                     *)

TimerSends(t) == {m \in sends : m.tab = t /\ m.from = "timer"}

sendOutgoingRoomKeyRequests(t) ==
  /\ timer[t] \in {"waiting", "running"} /\ TimerSends(t) = {}
  /\ LET todo == {b \in Bodies : row[b].st \in Pending}
     IN  IF ~running[t] \/ todo = {}
         THEN timer' = [timer EXCEPT ![t] = "null"] /\ UNCHANGED sends
         ELSE /\ timer' = [timer EXCEPT ![t] = "running"]
              /\ \E b \in todo :
                   sends' = sends \cup {IF row[b].st = "Unsent" THEN sendRequest(t, b, row[b])
                     ELSE sendCancellation(t, "timer", b, row[b],
                                           row[b].st = "CancellationPendingAndWillResend")}
  /\ UNCHANGED <<row, calls, immediate, running, next, server, used>>

\* External: the server handles a transaction once, and passes the message on.
MessageArrives(m) ==
  /\ ~m.arrived
  /\ sends' = (sends \ {m}) \cup {[m EXCEPT !.arrived = TRUE]}
  /\ seen' = seen \cup {m.txn}
  /\ held' = CASE m.txn \in seen -> held
               [] m.txn \notin seen /\ m.action = "request" -> held \cup {m.id}
               [] OTHER -> held \ {m.id}
  /\ UNCHANGED <<row, calls, tabVars, next, used>>

\* The update of the store that follows a message's success.
updateAfter(m) ==
  CASE m.action = "request" /\ IsIn(m.body, m.id, "Unsent") -> [row EXCEPT ![m.body].st = "Sent"]
    [] m.andResend /\ IsIn(m.body, m.id, "CancellationPendingAndWillResend")
         -> [row EXCEPT ![m.body].st = "Unsent"]
    [] m.action = "request_cancellation" /\ ~m.andResend /\ IsIn(m.body, m.id, "CancellationPending")
         -> [row EXCEPT ![m.body] = NoRow]
    [] OTHER -> row

MessageSent(m) ==
  /\ m.arrived
  /\ sends' = sends \ {m}
  /\ row' = updateAfter(m)
  /\ Return(m.tab, m.from)
  /\ UNCHANGED <<calls, immediate, running, next, server, used>>

\* The loop ends when a message fails; a cancellation of cancelRoomKeyRequest
\* starts the timer.
AfterFailure(m) ==
  CASE m.from = "timer" -> timer' = [timer EXCEPT ![m.tab] = "null"]
    [] m.from = "cancel" -> startTimer(m.tab)
    [] OTHER -> Return(m.tab, m.from)

\* Mutant: a failed message counts as sent.
MessageFails_counts(m) ==
  /\ used.failures < MaxFailures /\ Spend("failures")
  /\ sends' = sends \ {m}
  /\ row' = updateAfter(m)
  /\ AfterFailure(m)
  /\ UNCHANGED <<calls, immediate, running, next, server>>

MessageFails(m) ==
  /\ used.failures < MaxFailures /\ Spend("failures")
  /\ sends' = sends \ {m}
  /\ AfterFailure(m)
  /\ UNCHANGED <<row, calls, immediate, running, next, server>>

-----------------------------------------------------------------------------
\* onSyncCompleted, when the client has caught up.
sendQueuedRequests(t) ==
  /\ ~immediate[t] \/ timer[t] = "null"
  /\ startTimer(t)
  /\ immediate' = [immediate EXCEPT ![t] = TRUE]
  /\ UNCHANGED <<row, calls, sends, running, next, server, used>>

stop(t) ==
  /\ running[t] /\ used.stops < MaxStops /\ Spend("stops")
  /\ running' = [running EXCEPT ![t] = FALSE]
  /\ UNCHANGED <<row, calls, sends, timer, immediate, next, server>>

start(t) ==
  /\ ~running[t]
  /\ running' = [running EXCEPT ![t] = TRUE]
  /\ UNCHANGED <<row, calls, sends, timer, immediate, next, server, used>>

\* A tab is reloaded: only the store remains.
reload(t) ==
  /\ used.reloads < MaxReloads /\ Spend("reloads")
  /\ calls' = {c \in calls : c.tab # t}
  /\ sends' = {m \in sends : m.tab # t}
  /\ timer' = [timer EXCEPT ![t] = "null"]
  /\ immediate' = [immediate EXCEPT ![t] = FALSE]
  /\ running' = [running EXCEPT ![t] = TRUE]
  /\ UNCHANGED <<row, next, server>>

CallStep(c) ==
  \/ getOutgoingRoomKeyRequest(c) \/ getOrAddOutgoingRoomKeyRequest(c)
  \/ uncancel(c) \/ resend(c) \/ deleteUnsent(c) \/ cancelSent(c)

Next ==
  \/ \E t \in Tabs : \/ \E op \in Ops, b \in Bodies : RequestCall(t, op, b)
                     \/ cancelAndResendAllOutgoingRequests(t)
                     \/ onToDeviceBadEncrypted(t)
                     \/ sendOutgoingRoomKeyRequests(t) \/ sendQueuedRequests(t)
                     \/ stop(t) \/ start(t) \/ reload(t)
  \/ \E c \in calls : CallStep(c)
  \/ \E m \in sends : MessageArrives(m) \/ MessageSent(m) \/ MessageFails(m)

Spec == Init /\ [][Next]_vars

-----------------------------------------------------------------------------
(* Properties.                                                             *)

\* Every part of the state has its type.
TypeOK ==
  /\ row \in [Bodies -> Row \cup {NoRow}]
  /\ calls \subseteq Call /\ sends \subseteq Message
  /\ timer \in [Tabs -> {"null", "waiting", "running"}]
  /\ immediate \in [Tabs -> BOOLEAN] /\ running \in [Tabs -> BOOLEAN]
  /\ next \in Nat /\ seen \subseteq Nat /\ held \subseteq Nat
  /\ used \in [calls : Nat, failures : Nat, reloads : Nat, stops : Nat]

\* "request sent, awaiting reply": the server has accepted the message of a
\* request that is in state Sent, through retries, resends and reloads.
SentWasAccepted == TypeOK /\ \A b \in Bodies : row[b].st = "Sent" => requestTxn(row[b]) \in seen

\* The answer m is to an earlier cancellation of the request b than the pending one.
IsLate(m, b) ==
  /\ m.body = b /\ m.id = row[b].id /\ m.action = "request_cancellation"
  /\ m.txn # row[b].cancellationTxnId

\* The store forgets a request whose cancellation was pending only when the
\* recipients no longer hold it, or when the answer to an earlier cancellation,
\* withdrawn since, comes after the request was sent again.
ForgottenIsCancelled ==
  [][\A b \in Bodies : row[b].st = "CancellationPending" /\ row'[b] = NoRow
       => row[b].id \notin held \/ \E m \in sends \ sends' : IsLate(m, b)]_vars

\* ... and every request that is to be sent, cancelled or resent is eventually,
\* whatever calls, timers, stops and reloads did to the loop that processes them.
RequestsSettle ==
  /\ ForgottenIsCancelled
  /\ \A b \in Bodies : row[b].st \in Pending ~> row[b].st \notin Pending
=============================================================================
