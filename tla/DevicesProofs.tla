---------------------------- MODULE DevicesProofs ---------------------------
(***************************************************************************)
(* Theorems about OlmSessions, OneTimeKeys, Verification and               *)
(* InteractiveAuth, which share no state.                                  *)
(*                                                                         *)
(* Olm sessions: SessionsAreSound, for any devices, calls, failures and    *)
(* losses.  It speaks of what is left when the calls have returned; the    *)
(* induction needs what every call is still responsible for at each of its *)
(* awaits (Concern, Knowing, Mending), and that of the prekey messages     *)
(* only the first is being decrypted (ChainIs).                            *)
(*                                                                         *)
(* Verification: VerifiedIsConfirmed and SidesAgree, for any devices,      *)
(* failures, timeouts, cancellations and messages that come twice.  What a *)
(* device knows of its partner it knows from messages.  So each message    *)
(* has to be tied to its sender's record from the moment it is made        *)
(* (Genuine) to the inbox (OnTheWire, InInbox), and each record to the     *)
(* messages it was built from (Sound, Fit).  Turn is what every callback   *)
(* does, shown for each of them; all else follows from it.                 *)
(* TellInv follows a cancellation on its way to whoever waits for it.      *)
(*                                                                         *)
(* One-time keys: every key has one place at a time (OnePlace): still to   *)
(* be uploaded, on the server, or in a message on its way.                 *)
(*                                                                         *)
(* Interactive auth: the call under way holds submitPromise.               *)
(***************************************************************************)
EXTENDS OlmSessions, OneTimeKeys, Verification, InteractiveAuth, FiniteSetTheorems, TLAPS

----------------------------------------------------------------------------
(* Olm sessions.                                                           *)

Working == {"wait", "read", "claim", "start", "hold", "send"}

TaskRecord ==
  [at : Working \cup {"new", "done"}, devices : Seq(Device), on : Task \cup {Nobody},
   mends : BOOLEAN, without : SUBSET Device, starting : SUBSET Device]

PrekeyRecord ==
  [from : Device, session : Nat, at : {"queued", "wait", "create"}, on : Task \cup {Nobody}]

SessionsType ==
  /\ sessions \in [Device -> [ids : SUBSET Nat, latest : Nat]]
  /\ lost \in [Device -> SUBSET (1 .. MaxSessions)]
  /\ forcedAt \in [Device -> BOOLEAN] /\ limited \in [Device -> BOOLEAN]
  /\ sentOn \in [Device -> 0 .. MaxSessions]
  /\ \A d \in Device : /\ sessions[d].ids \subseteq 1 .. made[d]
                       /\ sessions[d].latest \in sessions[d].ids \cup {NoSession}

TasksType ==
  /\ made \in [Device -> 0 .. MaxSessions]
  /\ marker \in [Device -> Task \cup {Nobody}]
  /\ ensuring \in [Task -> TaskRecord]
  /\ olmPlan \in OlmPlans
  /\ olmSpent \in [faults : 0 .. olmPlan.faults, losses : 0 .. olmPlan.losses,
                   prekeys : 0 .. olmPlan.prekeys]

\* A task's devices, and what a mending one still has to do for its one device.
TaskIs(k) ==
  /\ k.at # "new" => k.devices # <<>>
  /\ k.at = "new" => k.without = {} /\ k.starting = {} /\ ~k.mends
  /\ k.at = "claim" => k.without # {}
  /\ k.at = "start" => k.starting # {}
  /\ k.at \in {"hold", "send"} => k.mends
  /\ k.mends => /\ Len(k.devices) = 1
                /\ k.without \subseteq {k.devices[1]}
                /\ k.starting \subseteq {k.devices[1]}

\* The devices that the task in state k is still responsible for.
Concern(k) ==
  CASE k.at \in {"wait", "read"} -> Range(k.devices) \cup k.without
    [] k.at = "claim" -> k.without
    [] k.at = "start" -> k.starting
    [] OTHER -> {}

TasksAre ==
  /\ \A t \in Task : TaskIs(ensuring[t])
  /\ \A d \in Device, t \in Task : marker[d] = t => d \in Concern(ensuring[t])

\* The chain of prekey messages: only the first one is being decrypted, and its
\* session is not made behind its back.
ChainIs ==
  /\ prekeys \in Seq(PrekeyRecord)
  /\ unreadable = 0
  /\ \A i \in 1 .. Len(prekeys) :
       /\ prekeys[i].session \in 1 .. made[prekeys[i].from]
       /\ i # 1 => prekeys[i].at = "queued"
       /\ prekeys[i].at = "create" => prekeys[i].session \notin sessions[prekeys[i].from].ids

\* What task t, in state k, knows of its devices under the markers m, n sessions
\* having been made with each, while nothing goes wrong and no peer starts a session:
\* the device at hand is marked by whom it waits for or by itself, or has its
\* session; those without a session it has marked itself.
Knowing(t, k, m, n) ==
  /\ ~k.mends
  /\ k.at \in {"wait", "read"} => \A d \in Range(k.devices) : m[d] # Nobody \/ n[d] = 1
  /\ k.at = "wait" => /\ k.on \notin {t, Nobody}
                      /\ m[Head(k.devices)] = k.on \/ n[Head(k.devices)] = 1
  /\ k.at = "read" => m[Head(k.devices)] = t \/ n[Head(k.devices)] = 1
  /\ k.at \in {"wait", "read", "claim"} => \A d \in k.without : m[d] = t /\ n[d] = 0
  /\ k.at = "start" => \A d \in k.starting : m[d] = t /\ n[d] = 0

Calm == olmSpent.faults = 0 /\ olmSpent.losses = 0 /\ olmSpent.prekeys = 0

Single(d) == made[d] <= 1 /\ (sessions[d].ids = {} <=> made[d] = 0)

Alone ==
  Calm => /\ prekeys = <<>>
          /\ \A d \in Device : Single(d)
          /\ \A t \in Task : Knowing(t, ensuring[t], marker, made)

\* A mending task that has not made its session yet.
Mending(k, d) == k.mends /\ k.at \in {"wait", "read", "claim", "start"} /\ k.devices[1] = d

\* The session in use is the last one made; once a session was forced the peer
\* has it, until then somebody is going to force one.
Mended(d) ==
  /\ sessions[d].latest = made[d]
  /\ lost[d] \subseteq 1 .. made[d]
  /\ forcedAt[d] /\ ~limited[d] => made[d] \notin lost[d]
  /\ ~forcedAt[d] => sentOn[d] = NoSession
  /\ ~forcedAt[d] /\ made[d] \in lost[d] => \E t \in Task : Mending(ensuring[t], d)
  /\ ~limited[d] => sentOn[d] \notin lost[d]

Faultless == olmSpent.faults = 0 /\ olmPlan.prekeys = 0

Mends ==
  Faultless =>
    /\ prekeys = <<>>
    /\ \A d \in Device : Mended(d)
    /\ \A t \in Task : ensuring[t].at \in {"hold", "send"} => forcedAt[ensuring[t].devices[1]]

OlmInv == SessionsType /\ TasksType /\ TasksAre /\ ChainIs /\ Alone /\ Mends

-----------------------------------------------------------------------------
\* The devices of a call are its first and the others.
LEMMA FirstAndRest ==
  ASSUME NEW ds \in Seq(Device), ds # <<>>
  PROVE  /\ Head(ds) \in Device /\ Head(ds) = ds[1] /\ Head(ds) \in Range(ds)
         /\ Tail(ds) \in Seq(Device) /\ Range(ds) \subseteq Device
         /\ Range(Tail(ds)) \subseteq Range(ds)
         /\ \A d \in Range(ds) : d = Head(ds) \/ d \in Range(Tail(ds))
         /\ Len(ds) \in Nat /\ Len(ds) >= 1 /\ (Len(ds) = 1 => Range(ds) = {Head(ds)})
         /\ Len(ds) > 1 => Tail(ds) # <<>>
<1>1. Len(ds) \in Nat /\ Len(ds) >= 1 /\ DOMAIN ds = 1 .. Len(ds)
  OBVIOUS
<1>2. Head(ds) = ds[1] /\ ds[1] \in Device /\ \A i \in 1 .. Len(ds) : ds[i] \in Device
  BY <1>1
<1>3. Tail(ds) \in Seq(Device) /\ Len(Tail(ds)) = Len(ds) - 1
  OBVIOUS
<1>4. \A i \in 1 .. Len(ds) - 1 : Tail(ds)[i] = ds[i + 1]
  OBVIOUS
<1>5. \A d : d \in Range(ds) <=> \E i \in 1 .. Len(ds) : d = ds[i]
  BY <1>1 DEF Range
<1>6. \A d : d \in Range(Tail(ds)) <=> \E i \in 1 .. Len(ds) - 1 : d = ds[i + 1]
  <2>1. DOMAIN Tail(ds) = 1 .. Len(ds) - 1
    BY <1>1, <1>3
  <2> QED BY <1>4, <2>1 DEF Range
<1>7. Range(Tail(ds)) \subseteq Range(ds)
  BY <1>1, <1>5, <1>6
<1>8. ASSUME NEW d \in Range(ds) PROVE d = Head(ds) \/ d \in Range(Tail(ds))
  <2>1. PICK i \in 1 .. Len(ds) : d = ds[i]
    BY <1>5
  <2>2. CASE i # 1
    <3>1. i - 1 \in 1 .. Len(ds) - 1 /\ d = ds[(i - 1) + 1]
      BY <1>1, <2>1, <2>2
    <3> QED BY <1>6, <3>1
  <2> QED BY <1>2, <2>1, <2>2
<1>9. Len(ds) = 1 => Range(ds) = {Head(ds)}
  BY <1>1, <1>2, <1>5
<1>10. Len(ds) > 1 => Tail(ds) # <<>>
  <2>1. \A s \in Seq(Device) : Len(s) > 0 => s # <<>>
    OBVIOUS
  <2>2. Len(ds) > 1 => Len(Tail(ds)) > 0
    BY <1>1, <1>3
  <2> QED BY <1>3, <2>1, <2>2
<1> QED BY <1>1, <1>2, <1>3, <1>5, <1>7, <1>8, <1>9, <1>10

\* A call turns to a device.
LEMMA LooksAt ==
  ASSUME NEW t \in Task, NEW k \in TaskRecord, NEW ds \in Seq(Device), ds # <<>>,
         NEW m \in [Device -> Task \cup {Nobody}], NEW r, r = lookAt(t, k, ds, m)
  PROVE  /\ r \in TaskRecord /\ r.devices = ds /\ r.mends = k.mends
         /\ r.without = k.without /\ r.starting = k.starting
         /\ m[Head(ds)] \in {Nobody, t} => r.at = "read" /\ r.on = Nobody
         /\ m[Head(ds)] \notin {Nobody, t} => r.at = "wait" /\ r.on = m[Head(ds)]
<1>1. m[Head(ds)] \in Task \cup {Nobody}
  BY FirstAndRest
<1>2. PICK a \in {"wait", "read"} : a = IF heldUp(m, t, Head(ds)) THEN "wait" ELSE "read"
  OBVIOUS
<1>3. PICK o \in Task \cup {Nobody} : o = IF heldUp(m, t, Head(ds)) THEN m[Head(ds)] ELSE Nobody
  BY <1>1
<1>4. r = [k EXCEPT !.devices = ds, !.at = a, !.on = o]
  BY <1>2, <1>3 DEF lookAt
<1>5. /\ r \in TaskRecord /\ r.devices = ds /\ r.mends = k.mends
      /\ r.without = k.without /\ r.starting = k.starting /\ r.at = a /\ r.on = o
  BY <1>4 DEF TaskRecord, Working
<1> QED BY <1>2, <1>3, <1>5 DEF heldUp

\* A step of task t that leaves the others as they are, and of the markers changes
\* its own.
LEMMA TaskStep ==
  ASSUME TasksType, TasksAre, NEW t \in Task, NEW r \in TaskRecord, TaskIs(r),
         ensuring' = [ensuring EXCEPT ![t] = r],
         marker' \in [Device -> Task \cup {Nobody}],
         \A d \in Device : marker'[d] \in {marker[d], t, Nobody},
         \A d \in Device : marker'[d] = t => d \in Concern(r)
  PROVE  TasksAre' /\ ensuring' \in [Task -> TaskRecord]
<1>1. ensuring'[t] = r /\ \A x \in Task : x # t => ensuring'[x] = ensuring[x]
  BY DEF TasksType
<1>2. \A x \in Task : TaskIs(ensuring'[x])
  BY <1>1 DEF TasksAre
<1>3. ASSUME NEW d \in Device, NEW x \in Task, marker'[d] = x PROVE d \in Concern(ensuring'[x])
  <2>1. CASE x = t
    BY <1>1, <1>3, <2>1
  <2>2. CASE x # t
    <3>1. marker[d] = x
      BY <1>3, <2>2, OlmAssumption DEF Nobody
    <3> QED BY <1>1, <2>2, <3>1 DEF TasksAre
  <2> QED BY <2>1, <2>2
<1>4. TasksAre'
  BY <1>2, <1>3 DEF TasksAre
<1> QED BY <1>4 DEF TasksType

\* The others know what they knew: markers of t alone come and go, and go when the
\* device has its session.
LEMMA OthersKnow ==
  ASSUME NEW t \in Task, NEW x \in Task, x # t, NEW k \in TaskRecord, TaskIs(k),
         NEW m, NEW m2, NEW n, NEW n2,
         Knowing(x, k, m, n),
         \A d \in Device : \/ m2[d] = m[d]
                           \/ m[d] = Nobody /\ m2[d] = t
                           \/ m[d] = t /\ m2[d] = Nobody /\ n2[d] = 1,
         \A d \in Device : n2[d] = n[d] \/ (m[d] = t /\ n2[d] = 1)
  PROVE  Knowing(x, k, m2, n2)
<1>1. x # Nobody /\ t # Nobody
  BY OlmAssumption DEF Nobody
<1>2. k.devices \in Seq(Device) /\ k.without \subseteq Device /\ k.starting \subseteq Device
  BY DEF TaskRecord
<1>3. k.at \in {"wait", "read"} => Head(k.devices) \in Device /\ Range(k.devices) \subseteq Device
  BY <1>2, FirstAndRest DEF TaskIs
<1>4. k.at \in {"wait", "read"} => \A d \in Range(k.devices) : m2[d] # Nobody \/ n2[d] = 1
  BY <1>1, <1>3 DEF Knowing
<1>5. k.at = "wait" => /\ k.on \notin {x, Nobody}
                       /\ m2[Head(k.devices)] = k.on \/ n2[Head(k.devices)] = 1
  BY <1>1, <1>3 DEF Knowing
<1>6. k.at = "read" => m2[Head(k.devices)] = x \/ n2[Head(k.devices)] = 1
  BY <1>1, <1>3 DEF Knowing
<1>7. \A d \in Device : m[d] = x /\ n[d] = 0 => m2[d] = x /\ n2[d] = 0
  BY <1>1
<1>8. k.at \in {"wait", "read", "claim"} => \A d \in k.without : m2[d] = x /\ n2[d] = 0
  BY <1>2, <1>7 DEF Knowing
<1>9. k.at = "start" => \A d \in k.starting : m2[d] = x /\ n2[d] = 0
  BY <1>2, <1>7 DEF Knowing
<1> QED BY <1>4, <1>5, <1>6, <1>8, <1>9 DEF Knowing

\* A call marks its devices and turns to the first.
LEMMA Ensures ==
  ASSUME TasksType, TasksAre, NEW t \in Task, NEW ds \in Seq(Device), ds # <<>>, NEW b \in BOOLEAN,
         b => Len(ds) = 1, ensureOlmSessionsForDevices(t, ds, b)
  PROVE  /\ TasksAre' /\ ensuring' \in [Task -> TaskRecord]
         /\ marker' \in [Device -> Task \cup {Nobody}]
         /\ ensuring[t].at = "new" /\ ensuring'[t].at \in {"wait", "read"}
         /\ ensuring'[t].devices = ds /\ ensuring'[t].mends = b
         /\ \A x \in Task : x # t => ensuring'[x] = ensuring[x]
         /\ \A d \in Device : marker'[d] = marker[d] \/ (marker[d] = Nobody /\ marker'[d] = t)
         /\ \A n : ~b => Knowing(t, ensuring'[t], marker', n)
<1>1. ensuring[t] \in TaskRecord /\ TaskIs(ensuring[t]) /\ ensuring[t].at = "new"
  BY DEF TasksType, TasksAre, ensureOlmSessionsForDevices
<1>2. PICK k \in TaskRecord : k = [ensuring[t] EXCEPT !.mends = b]
  BY <1>1 DEF TaskRecord
<1>3. k.at = "new" /\ k.without = {} /\ k.starting = {} /\ k.mends = b
  BY <1>1, <1>2 DEF TaskRecord, TaskIs
<1>4. PICK m : m = mark(t, ds)
  OBVIOUS
<1>5. /\ m \in [Device -> Task \cup {Nobody}]
      /\ \A d \in Device : m[d] = IF d \in Range(ds) /\ marker[d] = Nobody THEN t ELSE marker[d]
  BY <1>4 DEF mark, TasksType
<1>6. PICK r : r = lookAt(t, k, ds, m)
  OBVIOUS
<1>7. marker' = m /\ ensuring' = [ensuring EXCEPT ![t] = r]
  BY <1>2, <1>4, <1>6 DEF ensureOlmSessionsForDevices
<1>8. /\ r \in TaskRecord /\ r.devices = ds /\ r.mends = b
      /\ r.without = {} /\ r.starting = {}
      /\ m[Head(ds)] \in {Nobody, t} => r.at = "read" /\ r.on = Nobody
      /\ m[Head(ds)] \notin {Nobody, t} => r.at = "wait" /\ r.on = m[Head(ds)]
  BY <1>3, <1>5, <1>6, LooksAt
<1>9. r.at \in {"wait", "read"} /\ TaskIs(r)
  BY <1>8 DEF TaskIs
<1>10. ASSUME NEW d \in Device, m[d] = t PROVE d \in Concern(r)
  <2>1. CASE marker[d] = t
    BY <1>1, <2>1 DEF TasksAre, Concern
  <2>2. CASE marker[d] # t
    BY <1>5, <1>8, <1>9, <1>10, <2>2 DEF Concern
  <2> QED BY <2>1, <2>2
<1>11. \A d \in Device : m[d] = marker[d] \/ (marker[d] = Nobody /\ m[d] = t)
  BY <1>5
<1>12. TasksAre' /\ ensuring' \in [Task -> TaskRecord]
  BY <1>5, <1>7, <1>8, <1>9, <1>10, <1>11, TaskStep
<1>13. ensuring'[t] = r /\ \A x \in Task : x # t => ensuring'[x] = ensuring[x]
  BY <1>7 DEF TasksType
<1>14. ASSUME NEW n, ~b PROVE Knowing(t, r, m, n)
  <2>1. t # Nobody
    BY OlmAssumption DEF Nobody
  <2>2. Head(ds) \in Range(ds) /\ Range(ds) \subseteq Device /\ Head(ds) \in Device
    BY FirstAndRest
  <2>3. \A d \in Range(ds) : m[d] # Nobody
    BY <1>5, <2>1, <2>2
  <2> QED BY <1>8, <1>9, <1>14, <2>1, <2>2, <2>3 DEF Knowing
<1> QED BY <1>1, <1>5, <1>7, <1>8, <1>9, <1>11, <1>12, <1>13, <1>14

\* A task that has not made its session yet stays so, whatever the others do.
LEMMA KeepsMending ==
  ASSUME NEW t \in Task, \A x \in Task : x # t => ensuring'[x] = ensuring[x],
         NEW d, \E x \in Task : Mending(ensuring[x], d),
         Mending(ensuring[t], d) => Mending(ensuring'[t], d)
  PROVE  \E x \in Task : Mending(ensuring'[x], d)
OBVIOUS

\* Mended depends on what was forced, lost and sent for the device, and on a task
\* that is going to force a session.
LEMMA StaysMended ==
  ASSUME NEW d, Mended(d),
         sessions'[d] = sessions[d], made'[d] = made[d], lost'[d] = lost[d], forcedAt'[d] = forcedAt[d],
         limited'[d] = limited[d], sentOn'[d] = sentOn[d],
         (\E x \in Task : Mending(ensuring[x], d)) => \E x \in Task : Mending(ensuring'[x], d)
  PROVE  Mended(d)'
BY DEF Mended

\* Keys are shared.
LEMMA ShareInv ==
  ASSUME OlmInv, NEW t \in Task, NEW ds \in Lists, shareKeys(t, ds)
  PROVE  OlmInv'
<1>1. ds \in Seq(Device) /\ ds # <<>>
  <2>1. PICK n \in 1 .. olmPlan.width : ds \in [1 .. n -> Device]
    BY DEF Lists
  <2>2. olmPlan.width \in Nat
    BY OlmAssumption DEF OlmInv, TasksType
  <2>3. n \in Nat /\ n >= 1 /\ Len(ds) = n /\ ds \in Seq(Device)
    BY <2>1, <2>2
  <2> QED BY <2>3
<1>2. /\ ensureOlmSessionsForDevices(t, ds, FALSE)
      /\ UNCHANGED <<sessions, made, lost, forcedAt, limited, sentOn, prekeys, unreadable, olmPlan, olmSpent>>
  BY DEF shareKeys
<1>3. /\ TasksAre' /\ ensuring' \in [Task -> TaskRecord]
      /\ marker' \in [Device -> Task \cup {Nobody}]
      /\ ensuring[t].at = "new" /\ ensuring'[t].at \in {"wait", "read"}
      /\ \A x \in Task : x # t => ensuring'[x] = ensuring[x]
      /\ \A d \in Device : marker'[d] = marker[d] \/ (marker[d] = Nobody /\ marker'[d] = t)
      /\ Knowing(t, ensuring'[t], marker', made)
  BY <1>1, <1>2, Ensures DEF OlmInv
<1>4. SessionsType' /\ TasksType' /\ ChainIs'
  BY <1>2, <1>3 DEF OlmInv, SessionsType, TasksType, ChainIs
<1>5. Alone'
  <2> SUFFICES ASSUME Calm PROVE \A x \in Task : Knowing(x, ensuring'[x], marker', made)
    BY <1>2 DEF OlmInv, Alone, Calm, Single
  <2>1. ASSUME NEW x \in Task, x # t PROVE Knowing(x, ensuring'[x], marker', made)
    <3>1. Knowing(x, ensuring[x], marker, made) /\ ensuring[x] \in TaskRecord /\ TaskIs(ensuring[x])
      BY DEF OlmInv, Alone, TasksType, TasksAre
    <3> QED BY <1>3, <2>1, <3>1, OthersKnow
  <2> QED BY <1>3, <2>1
<1>6. Mends'
  <2> SUFFICES ASSUME Faultless PROVE /\ \A d \in Device : Mended(d)'
                                     /\ \A x \in Task : ensuring'[x].at \in {"hold", "send"} =>
                                                          forcedAt'[ensuring'[x].devices[1]]
    BY <1>2 DEF OlmInv, Mends, Faultless
  <2>1. ASSUME NEW d \in Device PROVE Mended(d)'
    <3>1. Mended(d)
      BY DEF OlmInv, Mends
    <3>2. ~Mending(ensuring[t], d)
      BY <1>3 DEF Mending
    <3> QED BY <1>2, <1>3, <3>1, <3>2, StaysMended, KeepsMending
  <2>2. \A x \in Task : ensuring'[x].at \in {"hold", "send"} => forcedAt'[ensuring'[x].devices[1]]
    BY <1>2, <1>3 DEF OlmInv, Mends
  <2> QED BY <2>1, <2>2
<1> QED BY <1>3, <1>4, <1>5, <1>6 DEF OlmInv

\* One more of the bounded misfortunes.
LEMMA Spends ==
  ASSUME TasksType, NEW w \in {"faults", "losses", "prekeys"}, spend(w), olmPlan' = olmPlan
  PROVE  /\ olmSpent' \in [faults : 0 .. olmPlan.faults, losses : 0 .. olmPlan.losses,
                           prekeys : 0 .. olmPlan.prekeys]
         /\ ~Calm'
         /\ w = "faults" => ~Faultless'
         /\ w # "faults" => olmSpent'.faults = olmSpent.faults
         /\ w = "prekeys" => olmPlan.prekeys # 0
<1>1. PICK u : u = olmSpent
  OBVIOUS
<1>2. PICK p : p = olmPlan
  OBVIOUS
<1>3. /\ u \in [faults : 0 .. p.faults, losses : 0 .. p.losses, prekeys : 0 .. p.prekeys]
      /\ p.faults \in Nat /\ p.losses \in Nat /\ p.prekeys \in Nat
  BY <1>1, <1>2, OlmAssumption DEF TasksType
<1>4. u[w] < p[w] /\ olmSpent' = [u EXCEPT ![w] = u[w] + 1]
  BY <1>1, <1>2 DEF spend
<1>5. CASE w = "faults"
  <2>1. PICK v : v = [u EXCEPT !.faults = u.faults + 1]
    OBVIOUS
  <2>2. olmSpent' = v /\ u.faults < p.faults
    BY <1>4, <1>5, <2>1
  <2>3. /\ v \in [faults : 0 .. p.faults, losses : 0 .. p.losses, prekeys : 0 .. p.prekeys]
        /\ v.faults # 0
    BY ONLY <1>3, <2>1, <2>2
  <2> QED BY <1>2, <1>5, <2>2, <2>3 DEF Calm, Faultless
<1>6. CASE w = "losses"
  <2>1. PICK v : v = [u EXCEPT !.losses = u.losses + 1]
    OBVIOUS
  <2>2. olmSpent' = v /\ u.losses < p.losses
    BY <1>4, <1>6, <2>1
  <2>3. /\ v \in [faults : 0 .. p.faults, losses : 0 .. p.losses, prekeys : 0 .. p.prekeys]
        /\ v.losses # 0 /\ v.faults = u.faults
    BY ONLY <1>3, <2>1, <2>2
  <2> QED BY <1>1, <1>2, <1>6, <2>2, <2>3 DEF Calm
<1>7. CASE w = "prekeys"
  <2>1. PICK v : v = [u EXCEPT !.prekeys = u.prekeys + 1]
    OBVIOUS
  <2>2. olmSpent' = v /\ u.prekeys < p.prekeys
    BY <1>4, <1>7, <2>1
  <2>3. /\ v \in [faults : 0 .. p.faults, losses : 0 .. p.losses, prekeys : 0 .. p.prekeys]
        /\ v.prekeys # 0 /\ v.faults = u.faults /\ p.prekeys # 0
    BY ONLY <1>3, <2>1, <2>2
  <2> QED BY <1>1, <1>2, <1>7, <2>2, <2>3 DEF Calm
<1> QED BY <1>5, <1>6, <1>7

\* What stays when a call works on its devices and makes no session.
LEMMA NoSessionMade ==
  ASSUME OlmInv, NEW t \in Task, TasksAre', ensuring' \in [Task -> TaskRecord],
         marker' \in [Device -> Task \cup {Nobody}],
         \A x \in Task : x # t => ensuring'[x] = ensuring[x],
         \A d \in Device : \/ marker'[d] = marker[d]
                           \/ marker[d] = Nobody /\ marker'[d] = t
                           \/ marker[d] = t /\ marker'[d] = Nobody /\ (Calm => made[d] = 1),
         Calm => Knowing(t, ensuring'[t], marker', made),
         UNCHANGED <<sessions, made, lost, forcedAt, limited, sentOn, prekeys, unreadable, olmPlan, olmSpent>>,
         \A d \in Device : Mending(ensuring[t], d) => Mending(ensuring'[t], d),
         ensuring'[t].at \in {"hold", "send"} =>
           ensuring[t].at \in {"hold", "send"} /\ ensuring'[t].devices = ensuring[t].devices
  PROVE  OlmInv'
<1>1. SessionsType' /\ TasksType' /\ ChainIs'
  BY DEF OlmInv, SessionsType, TasksType, ChainIs
<1>2. Alone'
  <2> SUFFICES ASSUME Calm PROVE \A x \in Task : Knowing(x, ensuring'[x], marker', made)
    BY DEF OlmInv, Alone, Calm, Single
  <2>1. ASSUME NEW x \in Task, x # t PROVE Knowing(x, ensuring'[x], marker', made)
    <3>1. Knowing(x, ensuring[x], marker, made) /\ ensuring[x] \in TaskRecord /\ TaskIs(ensuring[x])
      BY DEF OlmInv, Alone, TasksType, TasksAre
    <3>2. Knowing(x, ensuring[x], marker', made)
      BY <2>1, <3>1, OthersKnow
    <3> QED BY <2>1, <3>2
  <2> QED BY <2>1
<1>3. Mends'
  <2> SUFFICES ASSUME Faultless PROVE /\ \A d \in Device : Mended(d)'
                                     /\ \A x \in Task : ensuring'[x].at \in {"hold", "send"} =>
                                                          forcedAt'[ensuring'[x].devices[1]]
    BY DEF OlmInv, Mends, Faultless
  <2>1. ASSUME NEW d \in Device PROVE Mended(d)'
    <3>1. Mended(d)
      BY DEF OlmInv, Mends
    <3> QED BY <3>1, StaysMended, KeepsMending
  <2>2. \A x \in Task : ensuring'[x].at \in {"hold", "send"} => forcedAt'[ensuring'[x].devices[1]]
    BY DEF OlmInv, Mends
  <2> QED BY <2>1, <2>2
<1> QED BY <1>1, <1>2, <1>3 DEF OlmInv

\* The promise a call waited for is resolved.
LEMMA PromiseInv ==
  ASSUME OlmInv, NEW t \in Task, promiseResolved(t)
  PROVE  OlmInv'
<1>1. PICK k \in TaskRecord : k = ensuring[t] /\ TaskIs(k)
  BY DEF OlmInv, TasksType, TasksAre
<1>2. k.at = "wait" /\ marker[Head(k.devices)] # k.on
  BY <1>1 DEF promiseResolved
<1>3. PICK r : r = [k EXCEPT !.at = "read", !.on = Nobody]
  OBVIOUS
<1>4. /\ r \in TaskRecord /\ r.at = "read" /\ r.devices = k.devices /\ r.mends = k.mends
      /\ r.without = k.without /\ r.starting = k.starting
  BY <1>3 DEF TaskRecord, Working
<1>5. /\ ensuring' = [ensuring EXCEPT ![t] = r]
      /\ UNCHANGED <<sessions, made, marker, lost, forcedAt, limited, sentOn, prekeys, unreadable, olmPlan, olmSpent>>
  BY <1>1, <1>2, <1>3 DEF promiseResolved, OlmInv, TasksType
<1>6. TaskIs(r) /\ Concern(r) = Concern(k)
  BY <1>1, <1>2, <1>4 DEF TaskIs, Concern
<1>7. ensuring'[t] = r /\ \A x \in Task : x # t => ensuring'[x] = ensuring[x]
  BY <1>5 DEF OlmInv, TasksType
<1>8. \A d \in Device : marker[d] = t => d \in Concern(r)
  BY <1>1, <1>6 DEF OlmInv, TasksAre
<1>9. marker' \in [Device -> Task \cup {Nobody}] /\ \A d \in Device : marker'[d] = marker[d]
  BY <1>5 DEF OlmInv, TasksType
<1>10. TasksAre' /\ ensuring' \in [Task -> TaskRecord]
  BY <1>4, <1>5, <1>6, <1>8, <1>9, TaskStep DEF OlmInv
<1>11. ASSUME Calm PROVE Knowing(t, r, marker', made)
  <2>1. Knowing(t, k, marker, made)
    BY <1>1, <1>11 DEF OlmInv, Alone
  <2> QED BY <1>2, <1>4, <1>5, <2>1 DEF Knowing
<1>12. \A d \in Device : Mending(k, d) => Mending(r, d)
  BY <1>4 DEF Mending
<1> QED BY <1>1, <1>4, <1>5, <1>7, <1>9, <1>10, <1>11, <1>12, NoSessionMade

\* A call takes its own markers away only.
LEMMA Resolves ==
  ASSUME TasksType, NEW t \in Task, NEW ds, NEW m, m = resolveSession(t, ds)
  PROVE  /\ m \in [Device -> Task \cup {Nobody}]
         /\ \A d \in Device : m[d] = IF d \in ds /\ marker[d] = t THEN Nobody ELSE marker[d]
BY DEF TasksType, resolveSession

\* The sessions of the device at hand have been read.
LEMMA ReadInv ==
  ASSUME OlmInv, NEW t \in Task, sessionInfoRead(t)
  PROVE  OlmInv'
<1>1. PICK k0 \in TaskRecord : k0 = ensuring[t] /\ TaskIs(k0) /\ k0.at = "read"
  BY DEF OlmInv, TasksType, TasksAre, sessionInfoRead
<1>2. PICK ds \in Seq(Device) : ds = k0.devices /\ ds # <<>>
  BY <1>1 DEF TaskRecord, TaskIs
<1>3. Len(ds) \in Nat /\ Len(ds) >= 1
  BY <1>2, FirstAndRest
<1>4. PICK d \in Device : d = Head(ds)
  BY <1>2, FirstAndRest
<1>5. PICK m : m = IF sessions[d].ids # {} THEN resolveSession(t, {d}) ELSE marker
  OBVIOUS
<1>6. /\ m \in [Device -> Task \cup {Nobody}]
      /\ \A x \in Device : m[x] = IF x = d /\ marker[x] = t /\ sessions[d].ids # {} THEN Nobody ELSE marker[x]
  BY <1>5, Resolves DEF OlmInv, TasksType
<1>7. PICK wo \in SUBSET Device : wo = IF sessions[d].ids = {} \/ k0.mends THEN k0.without \cup {d} ELSE k0.without
  BY DEF TaskRecord
<1>8. PICK k : k = [k0 EXCEPT !.without = wo]
  OBVIOUS
<1>9. /\ k \in TaskRecord /\ k.at = "read" /\ k.devices = ds /\ k.mends = k0.mends /\ k.without = wo
      /\ k.starting = k0.starting
  BY <1>1, <1>2, <1>8 DEF TaskRecord
<1>10. PICK r : r = IF Len(ds) > 1 THEN lookAt(t, k, Tail(ds), m)
                   ELSE [k EXCEPT !.at = IF k.without = {} THEN "done" ELSE "claim"]
  OBVIOUS
<1>11. /\ ensuring' = [ensuring EXCEPT ![t] = r] /\ marker' = m
       /\ UNCHANGED <<sessions, made, lost, forcedAt, limited, sentOn, prekeys, unreadable, olmPlan, olmSpent>>
  BY <1>1, <1>2, <1>4, <1>5, <1>7, <1>8, <1>9, <1>10 DEF sessionInfoRead
<1>12. t # Nobody /\ d \in Range(ds) /\ Range(ds) \subseteq Device /\ Head(ds) = ds[1]
  BY <1>2, <1>4, FirstAndRest, OlmAssumption DEF Nobody
<1>13. \A x \in Device : m[x] = t => x \in wo \/ (x \in Range(ds) /\ x # d)
  <2> SUFFICES ASSUME NEW x \in Device, m[x] = t PROVE x \in wo \/ (x \in Range(ds) /\ x # d)
    OBVIOUS
  <2>1. marker[x] = t /\ ~(x = d /\ sessions[d].ids # {})
    BY <1>6, <1>12
  <2>2. x \in Range(ds) \cup k0.without
    BY <1>1, <1>2, <2>1 DEF OlmInv, TasksAre, Concern
  <2> QED BY <1>7, <2>1, <2>2
<1>14. ASSUME Calm
       PROVE  /\ ~k0.mends
              /\ \A x \in Range(ds) : m[x] # Nobody \/ made[x] = 1
              /\ \A x \in wo : m[x] = t /\ made[x] = 0
              /\ \A x \in Device : \/ m[x] = marker[x]
                                   \/ marker[x] = t /\ m[x] = Nobody /\ made[x] = 1
  <2>1. Knowing(t, k0, marker, made) /\ \A x \in Device : Single(x)
    BY <1>1, <1>14 DEF OlmInv, Alone
  <2>2. made[d] \in Nat /\ made[d] <= 1 /\ (sessions[d].ids = {} <=> made[d] = 0)
    BY <2>1 DEF Single, OlmInv, TasksType
  <2>3. /\ ~k0.mends /\ (marker[d] = t \/ made[d] = 1)
        /\ \A x \in Range(ds) : marker[x] # Nobody \/ made[x] = 1
        /\ \A x \in k0.without : marker[x] = t /\ made[x] = 0
    BY <1>1, <1>2, <1>4, <2>1 DEF Knowing
  <2>4. \A x \in Range(ds) : m[x] # Nobody \/ made[x] = 1
    BY <1>6, <1>12, <2>2, <2>3
  <2>5. \A x \in wo : m[x] = t /\ made[x] = 0
    <3> SUFFICES ASSUME NEW x \in wo PROVE m[x] = t /\ made[x] = 0
      OBVIOUS
    <3>1. marker[x] = t /\ made[x] = 0
      BY <1>7, <2>2, <2>3
    <3>2. x = d => sessions[d].ids = {}
      BY <2>2, <3>1
    <3> QED BY <1>6, <1>7, <3>1, <3>2
  <2>6. sessions[d].ids # {} => made[d] = 1
    BY <2>2
  <2>7. \A x \in Device : m[x] = marker[x] \/ (marker[x] = t /\ m[x] = Nobody /\ made[x] = 1)
    BY <1>6, <2>6
  <2> QED BY <2>3, <2>4, <2>5, <2>7
<1>15. /\ r \in TaskRecord /\ TaskIs(r) /\ r.at \notin {"hold", "send"}
       /\ \A x \in Device : m[x] = t => x \in Concern(r)
       /\ Calm => Knowing(t, r, m, made)
       /\ \A x \in Device : Mending(k0, x) => Mending(r, x)
  <2>1. CASE Len(ds) > 1
    <3>1. PICK tl \in Seq(Device) : tl = Tail(ds) /\ tl # <<>> /\ Range(tl) \subseteq Range(ds)
                                   /\ (\A x \in Range(ds) : x = d \/ x \in Range(tl)) /\ Head(tl) \in Range(tl)
      <4>1. Tail(ds) \in Seq(Device) /\ Tail(ds) # <<>>
        BY <1>2, <2>1, FirstAndRest
      <4> QED BY <1>2, <1>4, <4>1, FirstAndRest
    <3>2. /\ r \in TaskRecord /\ r.devices = tl /\ r.mends = k0.mends /\ r.without = wo
          /\ m[Head(tl)] \in {Nobody, t} => r.at = "read" /\ r.on = Nobody
          /\ m[Head(tl)] \notin {Nobody, t} => r.at = "wait" /\ r.on = m[Head(tl)]
      <4>1. r = lookAt(t, k, tl, m)
        BY <1>10, <2>1, <3>1
      <4>2. tl # <<>> /\ k \in TaskRecord /\ m \in [Device -> Task \cup {Nobody}]
        BY <1>6, <1>9, <3>1
      <4>3. /\ r \in TaskRecord /\ r.devices = tl /\ r.mends = k.mends /\ r.without = k.without
            /\ m[Head(tl)] \in {Nobody, t} => r.at = "read" /\ r.on = Nobody
            /\ m[Head(tl)] \notin {Nobody, t} => r.at = "wait" /\ r.on = m[Head(tl)]
        BY <4>1, <4>2, LooksAt
      <4> QED BY <1>9, <4>3
    <3>3. ~k0.mends
      <4>1. Len(ds) # 1
        BY ONLY <1>3, <2>1
      <4> QED BY <1>1, <1>2, <4>1 DEF TaskIs
    <3>4. r.at \in {"wait", "read"} /\ TaskIs(r)
      BY <3>1, <3>2, <3>3 DEF TaskIs
    <3>5. \A x \in Device : m[x] = t => x \in Concern(r)
      BY <1>13, <3>1, <3>2, <3>4 DEF Concern
    <3>6. ASSUME Calm PROVE Knowing(t, r, m, made)
      BY <1>12, <1>14, <3>1, <3>2, <3>3, <3>4, <3>6 DEF Knowing
    <3> QED BY <3>2, <3>3, <3>4, <3>5, <3>6 DEF Mending
  <2>2. CASE ~(Len(ds) > 1)
    <3>1. Len(ds) = 1
      <4>1. \A n \in Nat : n >= 1 /\ ~(n > 1) => n = 1
        OBVIOUS
      <4> QED BY ONLY <1>3, <2>2, <4>1
    <3>2. Range(ds) = {d}
      BY <1>2, <1>4, <3>1, FirstAndRest
    <3>3. PICK a \in {"done", "claim"} : a = IF k.without = {} THEN "done" ELSE "claim"
      OBVIOUS
    <3>4. r = [k EXCEPT !.at = a]
      BY <1>10, <2>2, <3>3
    <3>5. /\ r \in TaskRecord /\ r.at = a /\ r.devices = ds /\ r.mends = k0.mends /\ r.without = wo
          /\ r.starting = k0.starting
      BY <1>9, <3>4, SMTT(30) DEF TaskRecord, Working
    <3>6. \A x \in Device : m[x] = t => x \in wo
      BY <1>13, <3>2
    <3>7. TaskIs(r)
      BY <1>1, <1>2, <1>4, <1>7, <1>9, <1>12, <3>1, <3>3, <3>5 DEF TaskIs
    <3>8. \A x \in Device : m[x] = t => x \in Concern(r)
      BY <1>9, <3>3, <3>5, <3>6 DEF Concern
    <3>9. ASSUME Calm PROVE Knowing(t, r, m, made)
      BY <1>14, <3>3, <3>5, <3>9 DEF Knowing
    <3>10. \A x \in Device : Mending(k0, x) => Mending(r, x)
      BY <1>1, <1>2, <1>7, <1>9, <3>3, <3>5 DEF Mending
    <3> QED BY <3>3, <3>5, <3>7, <3>8, <3>9, <3>10
  <2> QED BY <2>1, <2>2
<1>16. ensuring'[t] = r /\ \A x \in Task : x # t => ensuring'[x] = ensuring[x]
  BY <1>11 DEF OlmInv, TasksType
<1>17. \A x \in Device : m[x] \in {marker[x], t, Nobody}
  BY <1>6
<1>18. TasksAre' /\ ensuring' \in [Task -> TaskRecord]
  BY <1>6, <1>11, <1>15, <1>17, TaskStep DEF OlmInv
<1>19. \A x \in Device : \/ m[x] = marker[x]
                         \/ marker[x] = Nobody /\ m[x] = t
                         \/ marker[x] = t /\ m[x] = Nobody /\ (Calm => made[x] = 1)
  BY <1>6, <1>14
<1> QED BY <1>1, <1>6, <1>11, <1>15, <1>16, <1>18, <1>19, NoSessionMade

\* How a call goes on when the sessions of `left` are still to be made.
LEMMA GoesOn ==
  ASSUME OlmInv, NEW t \in Task, NEW left \in SUBSET Device, NEW m \in [Device -> Task \cup {Nobody}],
         ensuring[t].at \in {"claim", "start"},
         ensuring[t].mends => left \subseteq {ensuring[t].devices[1]},
         goOn(t, left, m)
  PROVE  \E r \in TaskRecord :
           /\ ensuring' = [ensuring EXCEPT ![t] = r]
           /\ ensuring'[t] = r
           /\ TaskIs(r) /\ r.mends = ensuring[t].mends /\ r.devices = ensuring[t].devices
           /\ r.starting = left /\ r.devices[1] \in Device
           /\ left # {} => r.at = "start" /\ forcedAt' = forcedAt
           /\ left = {} /\ ~r.mends => r.at = "done" /\ forcedAt' = forcedAt
           /\ left = {} /\ r.mends =>
                r.at \in {"hold", "send"} /\ forcedAt' = [forcedAt EXCEPT ![r.devices[1]] = TRUE]
<1>1. PICK k \in TaskRecord : k = ensuring[t] /\ TaskIs(k)
  BY DEF OlmInv, TasksType, TasksAre
<1>2. PICK d \in Device : d = Head(k.devices) /\ d = k.devices[1]
  <2>1. k.devices \in Seq(Device) /\ k.devices # <<>>
    BY <1>1 DEF TaskRecord, TaskIs
  <2> QED BY <2>1, FirstAndRest
<1>3. k.devices # <<>> /\ (k.mends => Len(k.devices) = 1 /\ k.without \subseteq {d} /\ left \subseteq {d})
  BY <1>1, <1>2 DEF TaskIs
<1>4. /\ ensuring' = [ensuring EXCEPT ![t] =
                  IF left # {} THEN [k EXCEPT !.at = "start", !.starting = left]
                  ELSE IF ~k.mends THEN [k EXCEPT !.at = "done", !.starting = {}]
                  ELSE IF heldUp(m, Nobody, d)
                       THEN [k EXCEPT !.at = "hold", !.starting = {}, !.on = m[d]]
                       ELSE [k EXCEPT !.at = "send", !.starting = {}]]
      /\ forcedAt' = IF left = {} /\ k.mends THEN [forcedAt EXCEPT ![d] = TRUE] ELSE forcedAt
  BY <1>1, <1>2 DEF goOn
<1>5. \A r : ensuring' = [ensuring EXCEPT ![t] = r] => ensuring'[t] = r
  BY DEF OlmInv, TasksType
<1>6. CASE left # {}
  <2>1. PICK r : r = [k EXCEPT !.at = "start", !.starting = left]
    OBVIOUS
  <2>2. /\ r \in TaskRecord /\ r.at = "start" /\ r.starting = left /\ r.mends = k.mends
        /\ r.devices = k.devices /\ r.without = k.without
    BY <2>1 DEF TaskRecord, Working
  <2>3. TaskIs(r)
    BY <1>2, <1>3, <1>6, <2>2 DEF TaskIs
  <2>4. ensuring' = [ensuring EXCEPT ![t] = r] /\ forcedAt' = forcedAt
    BY <1>4, <1>6, <2>1
  <2> QED BY <1>1, <1>2, <1>5, <1>6, <2>2, <2>3, <2>4
<1>7. CASE left = {} /\ ~k.mends
  <2>1. PICK r : r = [k EXCEPT !.at = "done", !.starting = {}]
    OBVIOUS
  <2>2. /\ r \in TaskRecord /\ r.at = "done" /\ r.starting = {} /\ r.mends = k.mends
        /\ r.devices = k.devices /\ r.without = k.without
    BY <2>1 DEF TaskRecord, Working
  <2>3. TaskIs(r)
    BY <1>2, <1>3, <1>7, <2>2 DEF TaskIs
  <2>4. ensuring' = [ensuring EXCEPT ![t] = r] /\ forcedAt' = forcedAt
    BY <1>4, <1>7, <2>1
  <2> QED BY <1>1, <1>2, <1>5, <1>7, <2>2, <2>3, <2>4, ZenonT(30)
<1>8. CASE left = {} /\ k.mends
  <2>1. PICK r : r = IF heldUp(m, Nobody, d) THEN [k EXCEPT !.at = "hold", !.starting = {}, !.on = m[d]]
                     ELSE [k EXCEPT !.at = "send", !.starting = {}]
    OBVIOUS
  <2>2. /\ r \in TaskRecord /\ r.at \in {"hold", "send"} /\ r.starting = {} /\ r.mends = k.mends
        /\ r.devices = k.devices /\ r.without = k.without
    <3>1. CASE heldUp(m, Nobody, d)
      BY <2>1, <3>1 DEF TaskRecord, Working
    <3>2. CASE ~heldUp(m, Nobody, d)
      BY <2>1, <3>2 DEF TaskRecord, Working
    <3> QED BY <3>1, <3>2
  <2>3. TaskIs(r)
    BY <1>2, <1>3, <1>8, <2>2 DEF TaskIs
  <2>4. ensuring' = [ensuring EXCEPT ![t] = r] /\ forcedAt' = [forcedAt EXCEPT ![d] = TRUE]
    BY <1>4, <1>8, <2>1
  <2> QED BY <1>1, <1>2, <1>5, <1>8, <2>2, <2>3, <2>4
<1> QED BY <1>6, <1>7, <1>8

\* After a failure the tasks are still in order.
LEMMA Faults ==
  ASSUME OlmInv, NEW t \in Task, NEW r \in TaskRecord, TaskIs(r),
         ensuring' = [ensuring EXCEPT ![t] = r],
         marker' \in [Device -> Task \cup {Nobody}],
         \A d \in Device : marker'[d] \in {marker[d], Nobody},
         \A d \in Device : marker'[d] = t => d \in Concern(r),
         spend("faults"), forcedAt' \in [Device -> BOOLEAN],
         UNCHANGED <<sessions, made, lost, limited, sentOn, prekeys, unreadable, olmPlan>>
  PROVE  OlmInv'
<1>1. TasksAre' /\ ensuring' \in [Task -> TaskRecord]
  BY TaskStep DEF OlmInv
<1>2. /\ olmSpent' \in [faults : 0 .. olmPlan.faults, losses : 0 .. olmPlan.losses, prekeys : 0 .. olmPlan.prekeys]
      /\ ~Calm' /\ ~Faultless'
  BY Spends DEF OlmInv
<1>3. SessionsType' /\ TasksType' /\ ChainIs'
  BY <1>1, <1>2 DEF OlmInv, SessionsType, TasksType, ChainIs
<1> QED BY <1>1, <1>2, <1>3 DEF OlmInv, Alone, Mends

\* A failed claim takes all markers of its call away.
LEMMA ClaimFailedInv ==
  ASSUME OlmInv, NEW t \in Task, claimFailed(t)
  PROVE  OlmInv'
<1>1. PICK k \in TaskRecord : k = ensuring[t] /\ TaskIs(k) /\ k.at = "claim"
  BY DEF OlmInv, TasksType, TasksAre, claimFailed
<1>2. PICK r : r = [k EXCEPT !.at = "done"]
  OBVIOUS
<1>3. r \in TaskRecord /\ TaskIs(r)
  BY <1>1, <1>2 DEF TaskRecord, TaskIs, Working
<1>4. /\ ensuring' = [ensuring EXCEPT ![t] = r] /\ marker' = resolveSession(t, Device) /\ spend("faults")
      /\ UNCHANGED <<sessions, made, lost, forcedAt, limited, sentOn, prekeys, unreadable, olmPlan>>
  BY <1>1, <1>2 DEF claimFailed, OlmInv, TasksType
<1>5. /\ marker' \in [Device -> Task \cup {Nobody}]
      /\ \A d \in Device : marker'[d] = IF marker[d] = t THEN Nobody ELSE marker[d]
  BY <1>4, Resolves DEF OlmInv
<1>6. t # Nobody
  BY OlmAssumption DEF Nobody
<1>7. /\ \A d \in Device : marker'[d] \in {marker[d], Nobody}
      /\ \A d \in Device : marker'[d] = t => d \in Concern(r)
      /\ forcedAt' \in [Device -> BOOLEAN]
  BY <1>4, <1>5, <1>6 DEF OlmInv, SessionsType
<1> QED BY <1>3, <1>4, <1>5, <1>7, Faults

\* The claim is answered, with a key of each device or not.
LEMMA ClaimedInv ==
  ASSUME OlmInv, NEW t \in Task, NEW got \in SUBSET Device, keysClaimed(t, got)
  PROVE  OlmInv'
<1>1. PICK k \in TaskRecord : k = ensuring[t] /\ TaskIs(k) /\ k.at = "claim" /\ got \subseteq k.without
  BY DEF OlmInv, TasksType, TasksAre, keysClaimed
<1>2. /\ marker' = resolveSession(t, k.without \ got) /\ goOn(t, got, marker')
      /\ UNCHANGED <<sessions, made, lost, limited, sentOn, prekeys, unreadable, olmPlan>>
      /\ IF got = k.without THEN UNCHANGED olmSpent ELSE spend("faults")
  BY <1>1 DEF keysClaimed
<1>3. PICK m \in [Device -> Task \cup {Nobody}] : m = marker' /\
        \A d \in Device : m[d] = IF d \in k.without \ got /\ marker[d] = t THEN Nobody ELSE marker[d]
  BY <1>2, Resolves DEF OlmInv
<1>4. k.mends => got \subseteq {k.devices[1]}
  BY <1>1 DEF TaskIs
<1>5. PICK r \in TaskRecord :
           /\ ensuring' = [ensuring EXCEPT ![t] = r]
           /\ ensuring'[t] = r
           /\ TaskIs(r) /\ r.mends = k.mends /\ r.devices = k.devices
           /\ r.starting = got /\ r.devices[1] \in Device
           /\ got # {} => r.at = "start" /\ forcedAt' = forcedAt
           /\ got = {} /\ ~r.mends => r.at = "done" /\ forcedAt' = forcedAt
           /\ got = {} /\ r.mends =>
                r.at \in {"hold", "send"} /\ forcedAt' = [forcedAt EXCEPT ![r.devices[1]] = TRUE]
  <2>1. goOn(t, got, m)
    BY <1>2, <1>3
  <2> QED BY <1>1, <1>4, <2>1, GoesOn, SMTT(30)
<1>6. t # Nobody
  BY OlmAssumption DEF Nobody
<1>7. ASSUME NEW d \in Device, m[d] = t PROVE d \in Concern(r)
  <2>1. marker[d] = t /\ d \notin k.without \ got
    BY <1>3, <1>6, <1>7
  <2>2. d \in k.without
    BY <1>1, <2>1 DEF OlmInv, TasksAre, Concern
  <2> QED BY <1>5, <2>1, <2>2 DEF Concern
<1>8. \A d \in Device : m[d] \in {marker[d], Nobody}
  BY <1>3
<1>9. CASE got # k.without
  <2>1. forcedAt' \in [Device -> BOOLEAN]
    BY <1>5 DEF OlmInv, SessionsType
  <2> QED BY <1>2, <1>3, <1>5, <1>7, <1>8, <1>9, <2>1, Faults
<1>10. CASE got = k.without
  <2>1. got # {} /\ r.at = "start" /\ forcedAt' = forcedAt /\ olmSpent' = olmSpent
    BY <1>1, <1>2, <1>5, <1>10 DEF TaskIs
  <2>2. \A d \in Device : m[d] = marker[d]
    BY <1>3, <1>10
  <2>3. TasksAre' /\ ensuring' \in [Task -> TaskRecord]
    BY <1>3, <1>5, <1>7, <1>8, TaskStep DEF OlmInv
  <2>4. \A x \in Task : x # t => ensuring'[x] = ensuring[x]
    BY <1>5 DEF OlmInv, TasksType
  <2>5. ASSUME Calm PROVE Knowing(t, r, m, made)
    <3>1. Knowing(t, k, marker, made)
      BY <1>1, <2>5 DEF OlmInv, Alone
    <3> QED BY <1>1, <1>5, <1>10, <2>1, <2>2, <3>1 DEF Knowing
  <2>6. \A d \in Device : Mending(k, d) => Mending(r, d)
    BY <1>5, <2>1 DEF Mending
  <2> QED BY <1>1, <1>2, <1>3, <1>5, <2>1, <2>2, <2>3, <2>4, <2>5, <2>6, NoSessionMade, ZenonT(30)
<1> QED BY <1>9, <1>10

\* A session of the next number is made with d.
LEMMA NewSession ==
  ASSUME OlmInv, NEW d \in Device, made[d] < MaxSessions, made' = [made EXCEPT ![d] = @ + 1],
         saveSession(d, made[d] + 1)
  PROVE  /\ made' \in [Device -> 0 .. MaxSessions] /\ made'[d] = made[d] + 1 /\ made[d] \in Nat
         /\ sessions' \in [Device -> [ids : SUBSET Nat, latest : Nat]]
         /\ sessions'[d].ids = sessions[d].ids \cup {made[d] + 1} /\ sessions'[d].latest = made[d] + 1
         /\ \A x \in Device : x # d => made'[x] = made[x] /\ sessions'[x] = sessions[x]
<1>1. PICK n \in Nat : n = made[d] /\ n < MaxSessions
  BY OlmAssumption DEF OlmInv, TasksType
<1>2. PICK s \in [ids : SUBSET Nat, latest : Nat] : s = [ids |-> sessions[d].ids \cup {n + 1}, latest |-> n + 1]
  <2>1. sessions[d].ids \in SUBSET Nat
    BY DEF OlmInv, SessionsType
  <2>2. n + 1 \in Nat
    BY <1>1
  <2>3. sessions[d].ids \cup {n + 1} \in SUBSET Nat
    BY ONLY <2>1, <2>2
  <2>4. PICK ids \in SUBSET Nat : ids = sessions[d].ids \cup {n + 1}
    BY <2>3
  <2>5. [ids |-> ids, latest |-> n + 1] \in [ids : SUBSET Nat, latest : Nat]
    OBVIOUS
  <2> QED BY <2>4, <2>5
<1>3. sessions' = [sessions EXCEPT ![d] = s]
  BY <1>1, <1>2 DEF saveSession
<1>4. /\ sessions' \in [Device -> [ids : SUBSET Nat, latest : Nat]] /\ sessions'[d] = s
      /\ \A x \in Device : x # d => sessions'[x] = sessions[x]
  BY <1>3 DEF OlmInv, SessionsType
<1>5. n + 1 \in 0 .. MaxSessions
  BY <1>1, OlmAssumption
<1>6. made' = [made EXCEPT ![d] = n + 1]
  BY <1>1
<1>7. made' \in [Device -> 0 .. MaxSessions] /\ made'[d] = n + 1 /\ \A x \in Device : x # d => made'[x] = made[x]
  BY <1>5, <1>6 DEF OlmInv, TasksType
<1> QED BY <1>1, <1>2, <1>4, <1>7

\* A session was made for d, or its key was no good.
LEMMA StartedInv ==
  ASSUME OlmInv, NEW t \in Task, NEW d \in Device, NEW good \in BOOLEAN, sessionStarted(t, d, good)
  PROVE  OlmInv'
<1>1. PICK k \in TaskRecord : k = ensuring[t] /\ TaskIs(k) /\ k.at = "start" /\ d \in k.starting
  BY DEF OlmInv, TasksType, TasksAre, sessionStarted
<1>2. PICK rest \in SUBSET Device : rest = k.starting \ {d}
  BY DEF TaskRecord
<1>3. /\ marker' = resolveSession(t, {d}) /\ goOn(t, rest, marker')
      /\ UNCHANGED <<lost, limited, sentOn, prekeys, unreadable, olmPlan>>
  BY <1>1, <1>2 DEF sessionStarted
<1>4. PICK m \in [Device -> Task \cup {Nobody}] : m = marker' /\
        \A x \in Device : m[x] = IF x = d /\ marker[x] = t THEN Nobody ELSE marker[x]
  BY <1>3, Resolves DEF OlmInv
<1>5. k.mends => rest \subseteq {k.devices[1]} /\ d = k.devices[1]
  BY <1>1, <1>2 DEF TaskIs
<1>6. PICK r \in TaskRecord :
           /\ ensuring' = [ensuring EXCEPT ![t] = r]
           /\ ensuring'[t] = r
           /\ TaskIs(r) /\ r.mends = k.mends /\ r.devices = k.devices
           /\ r.starting = rest /\ r.devices[1] \in Device
           /\ rest # {} => r.at = "start" /\ forcedAt' = forcedAt
           /\ rest = {} /\ ~r.mends => r.at = "done" /\ forcedAt' = forcedAt
           /\ rest = {} /\ r.mends =>
                r.at \in {"hold", "send"} /\ forcedAt' = [forcedAt EXCEPT ![r.devices[1]] = TRUE]
  <2>1. goOn(t, rest, m)
    BY <1>3, <1>4
  <2> QED BY <1>1, <1>5, <2>1, GoesOn
<1>7. t # Nobody
  BY OlmAssumption DEF Nobody
<1>8. ASSUME NEW x \in Device, m[x] = t PROVE x \in Concern(r)
  <2>1. marker[x] = t /\ x # d
    BY <1>4, <1>7, <1>8
  <2>2. x \in k.starting
    BY <1>1, <2>1 DEF OlmInv, TasksAre, Concern
  <2>3. rest # {} /\ x \in rest
    BY <1>2, <2>1, <2>2
  <2> QED BY <1>6, <2>3 DEF Concern
<1>9. \A x \in Device : m[x] \in {marker[x], Nobody}
  BY <1>4
<1>10. /\ forcedAt' \in [Device -> BOOLEAN]
       /\ \A x \in Device : forcedAt[x] => forcedAt'[x]
       /\ \A x \in Device : x # d => forcedAt'[x] = forcedAt[x]
       /\ r.at \in {"hold", "send"} => forcedAt'[r.devices[1]]
  <2>1. forcedAt \in [Device -> BOOLEAN]
    BY DEF OlmInv, SessionsType
  <2>2. CASE rest = {} /\ r.mends
    <3>1. forcedAt' = [forcedAt EXCEPT ![d] = TRUE] /\ d = r.devices[1]
      BY <1>5, <1>6, <2>2
    <3> QED BY <2>1, <3>1
  <2>3. CASE ~(rest = {} /\ r.mends)
    BY <1>6, <2>1, <2>3
  <2> QED BY <2>2, <2>3
<1>11. CASE ~good
  <2>1. spend("faults") /\ UNCHANGED <<made, sessions>>
    BY <1>11 DEF sessionStarted
  <2> QED BY <1>3, <1>4, <1>6, <1>8, <1>9, <1>10, <2>1, Faults
<1>12. CASE good
  <2>1. made[d] < MaxSessions /\ made' = [made EXCEPT ![d] = @ + 1] /\ saveSession(d, made[d] + 1) /\ UNCHANGED olmSpent
    BY <1>12 DEF sessionStarted
  <2>2. /\ made' \in [Device -> 0 .. MaxSessions] /\ made'[d] = made[d] + 1 /\ made[d] \in Nat
        /\ sessions' \in [Device -> [ids : SUBSET Nat, latest : Nat]]
        /\ sessions'[d].ids = sessions[d].ids \cup {made[d] + 1} /\ sessions'[d].latest = made[d] + 1
        /\ \A x \in Device : x # d => made'[x] = made[x] /\ sessions'[x] = sessions[x]
    BY <2>1, NewSession
  <2>3. TasksAre' /\ ensuring' \in [Task -> TaskRecord]
    BY <1>4, <1>6, <1>8, <1>9, TaskStep DEF OlmInv
  <2>4. \A x \in Device : /\ sessions'[x].ids \subseteq 1 .. made'[x]
                          /\ sessions'[x].latest \in sessions'[x].ids \cup {NoSession}
    <3>1. sessions[d].ids \subseteq 1 .. made[d]
      BY DEF OlmInv, SessionsType
    <3>2. sessions'[d].ids \subseteq 1 .. made'[d]
      BY <2>2, <3>1
    <3> QED BY <2>2, <3>2 DEF OlmInv, SessionsType
  <2>5. SessionsType' /\ TasksType'
    BY <1>3, <1>4, <1>10, <2>1, <2>2, <2>3, <2>4 DEF OlmInv, SessionsType, TasksType
  <2>6. ChainIs'
    <3> SUFFICES ASSUME NEW i \in 1 .. Len(prekeys)
                 PROVE  /\ prekeys[i].session \in 1 .. made'[prekeys[i].from]
                        /\ i # 1 => prekeys[i].at = "queued"
                        /\ prekeys[i].at = "create" => prekeys[i].session \notin sessions'[prekeys[i].from].ids
      BY <1>3 DEF OlmInv, ChainIs
    <3>1. PICK p \in PrekeyRecord : p = prekeys[i]
      BY DEF OlmInv, ChainIs
    <3>2. /\ p.from \in Device /\ p.session \in Nat /\ p.session \in 1 .. made[p.from]
          /\ p.at = "create" => p.session \notin sessions[p.from].ids
      BY <3>1 DEF OlmInv, ChainIs, PrekeyRecord
    <3>3. CASE p.from = d
      <4>1. p.session \in 1 .. made[d] + 1 /\ p.session # made[d] + 1
        BY <2>2, <3>2, <3>3
      <4> QED BY <2>2, <3>1, <3>2, <3>3, <4>1 DEF OlmInv, ChainIs
    <3>4. CASE p.from # d
      BY <2>2, <3>1, <3>2, <3>4 DEF OlmInv, ChainIs
    <3> QED BY <3>3, <3>4
  <2>7. Alone'
    <3> SUFFICES ASSUME Calm
                 PROVE  /\ prekeys' = <<>>
                        /\ \A x \in Device : Single(x)'
                        /\ \A x \in Task : Knowing(x, ensuring'[x], marker', made')
      BY <2>1 DEF Alone, Calm
    <3>1. Knowing(t, k, marker, made) /\ prekeys = <<>> /\ \A x \in Device : Single(x)
      BY <1>1 DEF OlmInv, Alone
    <3>2. marker[d] = t /\ made[d] = 0 /\ ~k.mends
      BY <1>1, <3>1 DEF Knowing
    <3>3. m[d] = Nobody /\ made'[d] = 1
      BY <1>4, <2>2, <3>2
    <3>4. \A x \in Device : Single(x)'
      <4>1. Single(d)'
        BY <2>2, <3>3 DEF Single
      <4>2. \A x \in Device : x # d => Single(x)'
        BY <2>2, <3>1 DEF Single
      <4> QED BY <4>1, <4>2
    <3>5. ASSUME NEW x \in Task, x # t PROVE Knowing(x, ensuring'[x], m, made')
      <4>1. Knowing(x, ensuring[x], marker, made) /\ ensuring[x] \in TaskRecord /\ TaskIs(ensuring[x])
        BY DEF OlmInv, Alone, TasksType, TasksAre
      <4>2. \A y \in Device : \/ m[y] = marker[y]
                              \/ marker[y] = t /\ m[y] = Nobody /\ made'[y] = 1
        BY <1>4, <3>3
      <4>3. \A y \in Device : made'[y] = made[y] \/ (marker[y] = t /\ made'[y] = 1)
        BY <2>2, <3>2, <3>3
      <4>4. Knowing(x, ensuring[x], m, made')
        BY <3>5, <4>1, <4>2, <4>3, OthersKnow
      <4>5. ensuring'[x] = ensuring[x]
        BY <1>6, <3>5 DEF OlmInv, TasksType
      <4> QED BY <4>4, <4>5
    <3>6. Knowing(t, r, m, made')
      <4>1. \A x \in rest : m[x] = t /\ made'[x] = 0
        BY <1>1, <1>2, <1>4, <2>2, <3>1 DEF Knowing
      <4> QED BY <1>6, <3>2, <4>1 DEF Knowing
    <3> QED BY <1>3, <1>4, <1>6, <3>1, <3>4, <3>5, <3>6
  <2>8. Mends'
    <3> SUFFICES ASSUME Faultless
                 PROVE  /\ \A x \in Device : Mended(x)'
                        /\ \A x \in Task : ensuring'[x].at \in {"hold", "send"} =>
                                             forcedAt'[ensuring'[x].devices[1]]
      BY <1>3, <2>1 DEF OlmInv, Mends, Faultless
    <3>1. ASSUME NEW x \in Task, ensuring'[x].at \in {"hold", "send"} PROVE forcedAt'[ensuring'[x].devices[1]]
      <4>1. CASE x = t
        BY <1>6, <1>10, <3>1, <4>1
      <4>2. CASE x # t
        <5>1. ensuring'[x] = ensuring[x]
          BY <1>6, <4>2 DEF OlmInv, TasksType
        <5>2. ensuring[x].devices[1] \in Device
          <6>1. ensuring[x].devices \in Seq(Device) /\ ensuring[x].devices # <<>>
            BY <3>1, <5>1 DEF OlmInv, TasksType, TasksAre, TaskRecord, TaskIs
          <6> QED BY <6>1, FirstAndRest
        <5>3. forcedAt[ensuring[x].devices[1]]
          BY <3>1, <5>1 DEF OlmInv, Mends
        <5> QED BY <1>10, <5>1, <5>2, <5>3
      <4> QED BY <4>1, <4>2
    <3>2. Mended(d)'
      <4>1. Mended(d)
        BY DEF OlmInv, Mends
      <4>2. made'[d] \notin lost[d] /\ lost[d] \subseteq 1 .. made'[d]
        BY <2>2, <4>1 DEF Mended
      <4>3. forcedAt[d] => forcedAt'[d]
        BY <1>10
      <4> QED BY <1>3, <2>2, <4>1, <4>2, <4>3 DEF Mended
    <3>3. ASSUME NEW x \in Device, x # d PROVE Mended(x)'
      <4>1. Mended(x)
        BY DEF OlmInv, Mends
      <4>2. ~Mending(k, x)
        BY <1>5, <3>3 DEF Mending
      <4>3. \A y \in Task : y # t => ensuring'[y] = ensuring[y]
        BY <1>6 DEF OlmInv, TasksType
      <4>4. (\E y \in Task : Mending(ensuring[y], x)) => \E y \in Task : Mending(ensuring'[y], x)
        BY <1>1, <4>2, <4>3
      <4> QED BY <1>3, <1>10, <2>2, <3>3, <4>1, <4>4, StaysMended
    <3> QED BY <3>1, <3>2, <3>3
  <2> QED BY <2>3, <2>5, <2>6, <2>7, <2>8 DEF OlmInv
<1> QED BY <1>11, <1>12

\* The peer lost its sessions: a new one is forced, or was forced within the hour.
LEMMA LossInv ==
  ASSUME OlmInv, NEW t \in Task, NEW d \in Device, onToDeviceBadEncrypted(t, d)
  PROVE  OlmInv'
<1>1. /\ spend("losses") /\ lost' = [lost EXCEPT ![d] = 1 .. made[d]]
      /\ UNCHANGED <<sessions, made, forcedAt, sentOn, prekeys, unreadable, olmPlan>>
      /\ IF forcedAt[d] THEN limited' = [limited EXCEPT ![d] = TRUE] /\ UNCHANGED <<marker, ensuring>>
         ELSE ensureOlmSessionsForDevices(t, <<d>>, TRUE) /\ UNCHANGED limited
  BY DEF onToDeviceBadEncrypted
<1>2. /\ olmSpent' \in [faults : 0 .. olmPlan.faults, losses : 0 .. olmPlan.losses, prekeys : 0 .. olmPlan.prekeys]
      /\ ~Calm' /\ olmSpent'.faults = olmSpent.faults
  BY <1>1, Spends DEF OlmInv
<1>3. made[d] \in 0 .. MaxSessions /\ MaxSessions \in Nat
  BY OlmAssumption DEF OlmInv, TasksType
<1>4. lost' \in [Device -> SUBSET (1 .. MaxSessions)] /\ lost'[d] = 1 .. made[d]
      /\ \A x \in Device : x # d => lost'[x] = lost[x]
  <2>1. PICK l \in SUBSET (1 .. MaxSessions) : l = 1 .. made[d]
    BY <1>3
  <2>2. lost' = [lost EXCEPT ![d] = l]
    BY <1>1, <2>1
  <2> QED BY <2>1, <2>2 DEF OlmInv, SessionsType
<1>5. ASSUME Faultless' PROVE \A x \in Device : Mended(x)
  BY <1>1, <1>2, <1>5 DEF Faultless, OlmInv, Mends
<1>6. CASE forcedAt[d]
  <2>1. limited' = [limited EXCEPT ![d] = TRUE] /\ UNCHANGED <<marker, ensuring>>
    BY <1>1, <1>6
  <2>2. limited' \in [Device -> BOOLEAN] /\ limited'[d] /\ \A x \in Device : x # d => limited'[x] = limited[x]
    BY <2>1 DEF OlmInv, SessionsType
  <2>3. SessionsType' /\ TasksType' /\ ChainIs' /\ TasksAre'
    BY <1>1, <1>2, <1>4, <2>1, <2>2 DEF OlmInv, SessionsType, TasksType, ChainIs, TasksAre
  <2>4. Mends'
    <3> SUFFICES ASSUME Faultless' PROVE \A x \in Device : Mended(x)'
      BY <1>1, <1>2, <2>1 DEF OlmInv, Mends, Faultless
    <3>1. Mended(d)'
      BY <1>1, <1>3, <1>4, <1>5, <1>6, <2>2 DEF Mended
    <3>2. ASSUME NEW x \in Device, x # d PROVE Mended(x)'
      BY <1>1, <1>4, <1>5, <2>1, <2>2, <3>2, StaysMended
    <3> QED BY <3>1, <3>2
  <2> QED BY <1>2, <2>3, <2>4 DEF OlmInv, Alone
<1>7. CASE ~forcedAt[d]
  <2>1. PICK ds \in Seq(Device) : ds = <<d>> /\ ds # <<>> /\ Len(ds) = 1 /\ ds[1] = d
    <3>1. <<d>> \in Seq(Device)
      OBVIOUS
    <3>2. Len(<<d>>) = 1 /\ <<d>>[1] = d
      OBVIOUS
    <3>3. \A s \in Seq(Device) : Len(s) = 1 => s # <<>>
      OBVIOUS
    <3> QED BY <3>1, <3>2, <3>3
  <2>2. ensureOlmSessionsForDevices(t, ds, TRUE) /\ UNCHANGED limited
    BY <1>1, <1>7, <2>1
  <2>3. /\ TasksAre' /\ ensuring' \in [Task -> TaskRecord]
        /\ marker' \in [Device -> Task \cup {Nobody}]
        /\ ensuring[t].at = "new" /\ ensuring'[t].at \in {"wait", "read"}
        /\ ensuring'[t].devices = ds /\ ensuring'[t].mends = TRUE
        /\ \A x \in Task : x # t => ensuring'[x] = ensuring[x]
    BY <2>1, <2>2, Ensures DEF OlmInv
  <2>4. SessionsType' /\ TasksType' /\ ChainIs'
    BY <1>1, <1>2, <1>4, <2>2, <2>3 DEF OlmInv, SessionsType, TasksType, ChainIs
  <2>5. Mends'
    <3> SUFFICES ASSUME Faultless'
                 PROVE  /\ \A x \in Device : Mended(x)'
                        /\ \A x \in Task : ensuring'[x].at \in {"hold", "send"} =>
                                             forcedAt'[ensuring'[x].devices[1]]
      BY <1>1, <1>2 DEF OlmInv, Mends, Faultless
    <3>1. Mended(d)'
      <4>1. Mending(ensuring'[t], d)
        BY <2>1, <2>3 DEF Mending
      <4>2. Mended(d)
        BY <1>5
      <4>3. sentOn[d] = 0
        BY <1>7, <4>2 DEF Mended, NoSession
      <4> QED BY <1>1, <1>3, <1>4, <1>7, <4>1, <4>2, <4>3 DEF Mended, NoSession
    <3>2. ASSUME NEW x \in Device, x # d PROVE Mended(x)'
      <4>1. ~Mending(ensuring[t], x)
        BY <2>3 DEF Mending
      <4> QED BY <1>1, <1>4, <1>5, <2>2, <2>3, <3>2, <4>1, StaysMended, KeepsMending
    <3>3. \A x \in Task : ensuring'[x].at \in {"hold", "send"} => forcedAt'[ensuring'[x].devices[1]]
      BY <1>1, <1>2, <2>3 DEF OlmInv, Mends, Faultless
    <3> QED BY <3>1, <3>2, <3>3
  <2> QED BY <1>2, <2>3, <2>4, <2>5 DEF OlmInv, Alone
<1> QED BY <1>6, <1>7

\* The promise that held up the message is resolved.
LEMMA SendPromiseInv ==
  ASSUME OlmInv, NEW t \in Task, sendPromiseResolved(t)
  PROVE  OlmInv'
<1>1. PICK k \in TaskRecord : k = ensuring[t] /\ TaskIs(k) /\ k.at = "hold"
  BY DEF OlmInv, TasksType, TasksAre, sendPromiseResolved
<1>2. PICK r : r = [k EXCEPT !.at = "send", !.on = Nobody]
  OBVIOUS
<1>3. /\ r \in TaskRecord /\ r.at = "send" /\ r.devices = k.devices /\ r.mends = k.mends
      /\ r.without = k.without /\ r.starting = k.starting
  BY <1>2 DEF TaskRecord, Working
<1>4. /\ ensuring' = [ensuring EXCEPT ![t] = r]
      /\ UNCHANGED <<sessions, made, marker, lost, forcedAt, limited, sentOn, prekeys, unreadable, olmPlan, olmSpent>>
  BY <1>1, <1>2 DEF sendPromiseResolved, OlmInv, TasksType
<1>5. TaskIs(r) /\ Concern(r) = Concern(k) /\ k.mends
  BY <1>1, <1>3 DEF TaskIs, Concern
<1>6. ensuring'[t] = r /\ \A x \in Task : x # t => ensuring'[x] = ensuring[x]
  BY <1>4 DEF OlmInv, TasksType
<1>7. \A d \in Device : marker[d] = t => d \in Concern(r)
  BY <1>1, <1>5 DEF OlmInv, TasksAre
<1>8. marker' \in [Device -> Task \cup {Nobody}] /\ \A d \in Device : marker'[d] = marker[d]
  BY <1>4 DEF OlmInv, TasksType
<1>9. TasksAre' /\ ensuring' \in [Task -> TaskRecord]
  BY <1>3, <1>4, <1>5, <1>7, <1>8, TaskStep DEF OlmInv
<1>10. ~Calm
  BY <1>1, <1>5 DEF OlmInv, Alone, Knowing
<1>11. \A d \in Device : ~Mending(k, d)
  BY <1>1 DEF Mending
<1> QED BY <1>1, <1>3, <1>4, <1>6, <1>8, <1>9, <1>10, <1>11, NoSessionMade

\* The blank message goes out on the session in use.
LEMMA EncryptInv ==
  ASSUME OlmInv, NEW t \in Task, encryptMessageForDevice(t)
  PROVE  OlmInv'
<1>1. PICK k \in TaskRecord : k = ensuring[t] /\ TaskIs(k) /\ k.at = "send"
  BY DEF OlmInv, TasksType, TasksAre, encryptMessageForDevice
<1>2. PICK d \in Device : d = Head(k.devices) /\ d = k.devices[1]
  <2>1. k.devices \in Seq(Device) /\ k.devices # <<>>
    BY <1>1 DEF TaskRecord, TaskIs
  <2> QED BY <2>1, FirstAndRest
<1>3. PICK r : r = [k EXCEPT !.at = "done"]
  OBVIOUS
<1>4. r \in TaskRecord /\ r.at = "done" /\ TaskIs(r) /\ k.mends
  BY <1>1, <1>3 DEF TaskRecord, TaskIs, Working
<1>5. /\ ensuring' = [ensuring EXCEPT ![t] = r] /\ sentOn' = [sentOn EXCEPT ![d] = sessions[d].latest]
      /\ UNCHANGED <<sessions, made, marker, lost, forcedAt, limited, prekeys, unreadable, olmPlan, olmSpent>>
  BY <1>1, <1>2, <1>3 DEF encryptMessageForDevice, getSessionIdForDevice, OlmInv, TasksType
<1>6. \A x \in Device : marker[x] # t
  BY <1>1 DEF OlmInv, TasksAre, Concern
<1>7. marker' \in [Device -> Task \cup {Nobody}] /\ \A x \in Device : marker'[x] = marker[x]
  BY <1>5 DEF OlmInv, TasksType
<1>8. TasksAre' /\ ensuring' \in [Task -> TaskRecord]
  BY <1>4, <1>5, <1>6, <1>7, TaskStep DEF OlmInv
<1>9. sessions[d].latest \in 0 .. MaxSessions
  <2>1. /\ sessions[d].ids \subseteq 1 .. made[d] /\ made[d] \in 0 .. MaxSessions
        /\ sessions[d].latest \in sessions[d].ids \cup {0} /\ MaxSessions \in Nat
    BY OlmAssumption DEF OlmInv, SessionsType, TasksType, NoSession
  <2> QED BY <2>1
<1>10. /\ sentOn' \in [Device -> 0 .. MaxSessions] /\ sentOn'[d] = sessions[d].latest
       /\ \A x \in Device : x # d => sentOn'[x] = sentOn[x]
  BY <1>5, <1>9 DEF OlmInv, SessionsType
<1>11. SessionsType' /\ TasksType' /\ ChainIs'
  BY <1>5, <1>8, <1>10 DEF OlmInv, SessionsType, TasksType, ChainIs
<1>12. ~Calm /\ ~Calm'
  BY <1>1, <1>4, <1>5 DEF OlmInv, Alone, Knowing, Calm
<1>13. ensuring'[t] = r /\ \A x \in Task : x # t => ensuring'[x] = ensuring[x]
  BY <1>5 DEF OlmInv, TasksType
<1>14. Mends'
  <2> SUFFICES ASSUME Faultless
               PROVE  /\ \A x \in Device : Mended(x)'
                      /\ \A x \in Task : ensuring'[x].at \in {"hold", "send"} =>
                                           forcedAt'[ensuring'[x].devices[1]]
    BY <1>5 DEF OlmInv, Mends, Faultless
  <2>1. \A x \in Device : Mended(x) /\ ~Mending(k, x)
    BY <1>1 DEF OlmInv, Mends, Mending
  <2>2. forcedAt[d]
    BY <1>1, <1>2 DEF OlmInv, Mends
  <2>3. Mended(d)'
    <3>1. sentOn'[d] = made[d]
      BY <1>10, <2>1 DEF Mended
    <3> QED BY <1>5, <2>1, <2>2, <3>1 DEF Mended
  <2>4. ASSUME NEW x \in Device, x # d PROVE Mended(x)'
    BY <1>1, <1>5, <1>10, <1>13, <2>1, <2>4, StaysMended, KeepsMending
  <2>5. \A x \in Task : ensuring'[x].at \in {"hold", "send"} => forcedAt'[ensuring'[x].devices[1]]
    BY <1>4, <1>5, <1>13 DEF OlmInv, Mends
  <2> QED BY <2>3, <2>4, <2>5
<1> QED BY <1>8, <1>11, <1>12, <1>14 DEF OlmInv, Alone

\* A prekey message joins the chain.
LEMMA ArrivesInv ==
  ASSUME OlmInv, NEW d \in Device, NEW again \in BOOLEAN, prekeyArrives(d, again)
  PROVE  OlmInv'
<1>1. PICK s : s = IF again THEN made[d] ELSE made[d] + 1
  OBVIOUS
<1>2. /\ spend("prekeys")
      /\ IF again THEN (\E i \in DOMAIN prekeys : prekeys[i].from = d /\ prekeys[i].session = s) /\ UNCHANGED made
         ELSE made[d] < MaxSessions /\ made' = [made EXCEPT ![d] = s]
      /\ prekeys' = Append(prekeys, [from |-> d, session |-> s, at |-> "queued", on |-> Nobody])
      /\ UNCHANGED <<sessions, marker, ensuring, lost, forcedAt, limited, sentOn, unreadable, olmPlan>>
  BY <1>1 DEF prekeyArrives
<1>3. /\ olmSpent' \in [faults : 0 .. olmPlan.faults, losses : 0 .. olmPlan.losses, prekeys : 0 .. olmPlan.prekeys]
      /\ ~Calm' /\ olmPlan.prekeys # 0
  BY <1>2, Spends DEF OlmInv
<1>4. /\ made \in [Device -> 0 .. MaxSessions] /\ MaxSessions \in Nat /\ made[d] \in 0 .. MaxSessions
      /\ prekeys \in Seq(PrekeyRecord) /\ DOMAIN prekeys = 1 .. Len(prekeys) /\ Len(prekeys) \in Nat
  BY OlmAssumption DEF OlmInv, TasksType, ChainIs
<1>5. /\ made' \in [Device -> 0 .. MaxSessions] /\ s \in 1 .. made'[d] /\ s \in Nat
      /\ \A x \in Device : made[x] <= made'[x] /\ made'[x] \in Nat /\ made[x] \in Nat
  <2>1. CASE again
    <3>1. PICK i \in 1 .. Len(prekeys) : prekeys[i].from = d /\ prekeys[i].session = s
      BY <1>2, <1>4, <2>1
    <3>2. s \in 1 .. made[d]
      BY <3>1 DEF OlmInv, ChainIs
    <3> QED BY <1>2, <1>4, <2>1, <3>2
  <2>2. CASE ~again
    <3>1. s \in 1 .. MaxSessions /\ s = made[d] + 1
      BY <1>1, <1>2, <1>4, <2>2
    <3>2. made' = [made EXCEPT ![d] = s]
      BY <1>2, <2>2
    <3> QED BY <1>4, <3>1, <3>2
  <2> QED BY <2>1, <2>2
<1>6. PICK q \in PrekeyRecord : q = [from |-> d, session |-> s, at |-> "queued", on |-> Nobody]
  BY <1>5 DEF PrekeyRecord
<1>7. /\ prekeys' \in Seq(PrekeyRecord) /\ Len(prekeys') = Len(prekeys) + 1
      /\ \A i \in 1 .. Len(prekeys) : prekeys'[i] = prekeys[i]
      /\ prekeys'[Len(prekeys) + 1] = q
  BY <1>2, <1>4, <1>6
<1>8. q.from = d /\ q.session = s /\ q.at = "queued"
  BY <1>6
<1>9. ASSUME NEW i \in 1 .. Len(prekeys')
      PROVE  /\ prekeys'[i].session \in 1 .. made'[prekeys'[i].from]
             /\ i # 1 => prekeys'[i].at = "queued"
             /\ prekeys'[i].at = "create" => prekeys'[i].session \notin sessions[prekeys'[i].from].ids
  <2>1. CASE i \in 1 .. Len(prekeys)
    <3>1. PICK p : p = prekeys[i] /\ p \in PrekeyRecord /\ p.from \in Device
      <4>1. prekeys[i] \in PrekeyRecord
        BY <1>4, <2>1
      <4> QED BY <4>1 DEF PrekeyRecord
    <3>2. p.session \in 1 .. made[p.from]
      BY <2>1, <3>1 DEF OlmInv, ChainIs
    <3>3. p.session \in 1 .. made'[p.from]
      BY <1>5, <3>1, <3>2
    <3>4. (i # 1 => p.at = "queued") /\ (p.at = "create" => p.session \notin sessions[p.from].ids)
      BY <2>1, <3>1 DEF OlmInv, ChainIs
    <3>5. prekeys'[i] = p
      BY <1>7, <2>1, <3>1
    <3> QED BY <3>3, <3>4, <3>5
  <2>2. CASE i = Len(prekeys) + 1
    BY <1>5, <1>7, <1>8, <2>2
  <2> QED BY <1>4, <1>7, <2>1, <2>2
<1>10. ChainIs'
  <2>1. unreadable' = 0 /\ sessions' = sessions
    BY <1>2 DEF OlmInv, ChainIs
  <2> QED BY <1>7, <1>9, <2>1 DEF ChainIs
<1>11. SessionsType'
  <2>1. \A x \in Device : sessions[x].ids \subseteq 1 .. made'[x]
    <3> SUFFICES ASSUME NEW x \in Device PROVE sessions[x].ids \subseteq 1 .. made'[x]
      OBVIOUS
    <3>1. sessions[x].ids \subseteq 1 .. made[x]
      BY DEF OlmInv, SessionsType
    <3> QED BY <1>5, <3>1
  <2> QED BY <1>2, <2>1 DEF OlmInv, SessionsType
<1>12. TasksType' /\ TasksAre'
  BY <1>2, <1>3, <1>5 DEF OlmInv, TasksType, TasksAre
<1>13. Mends'
  BY <1>2, <1>3 DEF Mends, Faultless
<1> QED BY <1>3, <1>10, <1>11, <1>12, <1>13 DEF OlmInv, Alone

\* The first message leaves the chain.
LEMMA Leaves ==
  ASSUME prekeys \in Seq(PrekeyRecord), prekeys # <<>>, leaveChain(1)
  PROVE  /\ prekeys' \in Seq(PrekeyRecord) /\ Len(prekeys) \in Nat /\ Len(prekeys) >= 1
         /\ Len(prekeys') = Len(prekeys) - 1
         /\ \A i \in 1 .. Len(prekeys') : prekeys'[i] = prekeys[i + 1]
<1>1. Len(prekeys) \in Nat /\ Len(prekeys) >= 1
  OBVIOUS
<1>2. PICK e : e = SubSeq(prekeys, 1, 0)
  OBVIOUS
<1>3. PICK r : r = SubSeq(prekeys, 2, Len(prekeys))
  OBVIOUS
<1>4. e \in Seq(PrekeyRecord) /\ Len(e) = 0
  BY <1>1, <1>2
<1>5. r \in Seq(PrekeyRecord) /\ Len(r) = Len(prekeys) - 1 /\ \A i \in 1 .. Len(r) : r[i] = prekeys[i + 1]
  <2>1. r \in Seq(PrekeyRecord)
    BY <1>1, <1>3
  <2>2. Len(r) = Len(prekeys) - 1
    <3>1. Len(prekeys) >= 2 => Len(r) = Len(prekeys) - 1
      BY <1>1, <1>3
    <3>2. Len(prekeys) = 1 => Len(r) = 0
      BY <1>3
    <3>3. \A n \in Nat : n >= 1 => n >= 2 \/ (n = 1 /\ n - 1 = 0)
      OBVIOUS
    <3> QED BY <1>1, <3>1, <3>2, <3>3
  <2>3. \A i \in 1 .. Len(prekeys) - 1 : SubSeq(prekeys, 2, Len(prekeys))[i] = prekeys[i + 1]
    BY <1>1
  <2> QED BY <1>3, <2>1, <2>2, <2>3
<1>6. prekeys' = e \o r
  BY <1>2, <1>3 DEF leaveChain
<1>7. e \o r \in Seq(PrekeyRecord) /\ Len(e \o r) = Len(r) /\ \A i \in 1 .. Len(r) : (e \o r)[i] = r[i]
  BY ONLY <1>4, <1>5
<1> QED BY <1>1, <1>5, <1>6, <1>7

\* The message at the head of the chain has been taken up, waits, or has left it.
LEMMA ChainStep ==
  ASSUME OlmInv, NEW p \in PrekeyRecord, prekeys # <<>>, p = prekeys[1],
         UNCHANGED <<made, marker, ensuring, lost, forcedAt, limited, sentOn, olmPlan, olmSpent>>,
         unreadable' = 0,
         \/ sessions' = sessions
         \/ saveSession(p.from, p.session),
         \/ leaveChain(1)
         \/ /\ sessions' = sessions
            /\ \E q \in PrekeyRecord :
                 /\ prekeys' = [prekeys EXCEPT ![1] = q]
                 /\ q.from = p.from /\ q.session = p.session
                 /\ q.at = "create" => p.session \notin sessions[p.from].ids
  PROVE  OlmInv'
<1>1. prekeys \in Seq(PrekeyRecord) /\ Len(prekeys) \in Nat /\ Len(prekeys) >= 1
  BY DEF OlmInv, ChainIs
<1>2. ~Calm /\ ~Faultless
  BY DEF OlmInv, Alone, Mends
<1>3. TasksType' /\ TasksAre' /\ Alone' /\ Mends'
  BY <1>2 DEF OlmInv, TasksType, TasksAre, Alone, Mends, Calm, Faultless
<1>4. p.from \in Device /\ p.session \in Nat /\ p.session \in 1 .. made[p.from]
  <2>1. 1 \in 1 .. Len(prekeys)
    BY <1>1
  <2> QED BY <2>1 DEF OlmInv, ChainIs, PrekeyRecord
<1>5. SessionsType'
  <2>1. CASE sessions' = sessions
    BY <2>1 DEF OlmInv, SessionsType
  <2>2. CASE saveSession(p.from, p.session)
    <3>1. PICK n : n = [ids |-> sessions[p.from].ids \cup {p.session}, latest |-> p.session]
      OBVIOUS
    <3>2. sessions' = [sessions EXCEPT ![p.from] = n]
      BY <2>2, <3>1 DEF saveSession
    <3>3. sessions[p.from] \in [ids : SUBSET Nat, latest : Nat] /\ sessions[p.from].ids \subseteq 1 .. made[p.from]
      BY <1>4 DEF OlmInv, SessionsType
    <3>4. /\ n \in [ids : SUBSET Nat, latest : Nat] /\ n.ids \subseteq 1 .. made[p.from]
          /\ n.latest \in n.ids
      BY <1>4, <3>1, <3>3
    <3>5. /\ sessions' \in [Device -> [ids : SUBSET Nat, latest : Nat]] /\ sessions'[p.from] = n
          /\ \A x \in Device : x # p.from => sessions'[x] = sessions[x]
      BY <1>4, <3>2, <3>4 DEF OlmInv, SessionsType
    <3>6. \A x \in Device : /\ sessions'[x].ids \subseteq 1 .. made[x]
                            /\ sessions'[x].latest \in sessions'[x].ids \cup {NoSession}
      BY <3>4, <3>5 DEF OlmInv, SessionsType
    <3> QED BY <3>5, <3>6 DEF OlmInv, SessionsType
  <2> QED BY <2>1, <2>2
<1>6. CASE leaveChain(1)
  <2>1. /\ prekeys' \in Seq(PrekeyRecord) /\ Len(prekeys') = Len(prekeys) - 1
        /\ \A i \in 1 .. Len(prekeys') : prekeys'[i] = prekeys[i + 1]
    BY <1>1, <1>6, Leaves
  <2>2. ASSUME NEW i \in 1 .. Len(prekeys')
        PROVE  /\ prekeys'[i].session \in 1 .. made[prekeys'[i].from]
               /\ prekeys'[i].at = "queued"
    <3>1. i + 1 \in 1 .. Len(prekeys) /\ i + 1 # 1 /\ prekeys'[i] = prekeys[i + 1]
      BY <1>1, <2>1
    <3> QED BY <3>1 DEF OlmInv, ChainIs
  <2>3. ChainIs'
    BY <2>1, <2>2 DEF ChainIs
  <2> QED BY <1>3, <1>5, <2>3 DEF OlmInv
<1>7. CASE ~leaveChain(1)
  <2>1. PICK q \in PrekeyRecord :
          /\ sessions' = sessions /\ prekeys' = [prekeys EXCEPT ![1] = q]
          /\ q.from = p.from /\ q.session = p.session
          /\ q.at = "create" => p.session \notin sessions[p.from].ids
    BY <1>7
  <2>2. /\ prekeys' \in Seq(PrekeyRecord) /\ Len(prekeys') = Len(prekeys) /\ prekeys'[1] = q
        /\ \A i \in 1 .. Len(prekeys) : i # 1 => prekeys'[i] = prekeys[i]
    BY <1>1, <2>1
  <2>3. ASSUME NEW i \in 1 .. Len(prekeys')
        PROVE  /\ prekeys'[i].session \in 1 .. made[prekeys'[i].from]
               /\ i # 1 => prekeys'[i].at = "queued"
               /\ prekeys'[i].at = "create" => prekeys'[i].session \notin sessions[prekeys'[i].from].ids
    <3>1. CASE i = 1
      BY <1>4, <2>1, <2>2, <3>1
    <3>2. CASE i # 1
      BY <2>2, <3>2 DEF OlmInv, ChainIs
    <3> QED BY <3>1, <3>2
  <2>4. ChainIs'
    BY <2>1, <2>2, <2>3 DEF ChainIs
  <2> QED BY <1>3, <1>5, <2>4 DEF OlmInv
<1> QED BY <1>6, <1>7

\* The message at the head of the chain is tried with the sessions there are.
LEMMA DecryptInv ==
  ASSUME OlmInv, NEW i \in DOMAIN prekeys, reallyDecryptMessage(i)
  PROVE  OlmInv'
<1>1. i = 1 /\ prekeys \in Seq(PrekeyRecord) /\ unreadable' = 0
  BY DEF reallyDecryptMessage, decryptMessageMay, OlmInv, ChainIs
<1>2. prekeys # <<>> /\ prekeys[1] \in PrekeyRecord
  BY <1>1
<1>3. PICK p \in PrekeyRecord : p = prekeys[1]
  BY <1>2
<1>4. UNCHANGED <<made, marker, ensuring, lost, forcedAt, limited, sentOn, olmPlan, olmSpent>>
  BY DEF reallyDecryptMessage
<1>5. CASE /\ p.at = "queued" /\ heldUp(marker, Nobody, p.from)
           /\ prekeys' = [prekeys EXCEPT ![1].at = "wait", ![1].on = marker[p.from]]
           /\ UNCHANGED sessions
  <2>1. marker[p.from] \in Task \cup {Nobody}
    BY DEF OlmInv, TasksType, PrekeyRecord
  <2>2. PICK q : q = [p EXCEPT !.at = "wait", !.on = marker[p.from]]
    OBVIOUS
  <2>3. q \in PrekeyRecord /\ q.from = p.from /\ q.session = p.session /\ q.at = "wait"
    BY <2>1, <2>2 DEF PrekeyRecord
  <2>4. prekeys' = [prekeys EXCEPT ![1] = q]
    BY <1>1, <1>2, <1>3, <1>5, <2>2
  <2> QED BY <1>1, <1>2, <1>3, <1>4, <1>5, <2>3, <2>4, ChainStep
<1>6. CASE p.session \in sessions[p.from].ids /\ saveSession(p.from, p.session) /\ leaveChain(1)
  BY <1>1, <1>2, <1>3, <1>4, <1>6, ChainStep
<1>7. CASE /\ p.session \notin sessions[p.from].ids
           /\ prekeys' = [prekeys EXCEPT ![1].at = "create"] /\ UNCHANGED sessions
  <2>1. PICK q : q = [p EXCEPT !.at = "create"]
    OBVIOUS
  <2>2. q \in PrekeyRecord /\ q.from = p.from /\ q.session = p.session
    BY <2>1 DEF PrekeyRecord
  <2>3. prekeys' = [prekeys EXCEPT ![1] = q]
    BY <1>1, <1>2, <1>3, <1>7, <2>1
  <2> QED BY <1>1, <1>2, <1>3, <1>4, <1>7, <2>2, <2>3, ChainStep
<1> QED BY <1>1, <1>3, <1>5, <1>6, <1>7, Zenon DEF reallyDecryptMessage

\* The message that fitted none makes its session.
LEMMA CreateInv ==
  ASSUME OlmInv, NEW i \in DOMAIN prekeys, createInboundSession(i)
  PROVE  OlmInv'
<1>1. prekeys \in Seq(PrekeyRecord) /\ i \in 1 .. Len(prekeys) /\ prekeys[i].at = "create"
  BY DEF createInboundSession, OlmInv, ChainIs
<1>2. i = 1 /\ prekeys[i].session \notin sessions[prekeys[i].from].ids
  BY <1>1 DEF OlmInv, ChainIs
<1>3. prekeys # <<>> /\ prekeys[1] \in PrekeyRecord
  BY <1>1, <1>2
<1>4. PICK p \in PrekeyRecord : p = prekeys[1]
  BY <1>3
<1>5. /\ leaveChain(1) /\ saveSession(p.from, p.session) /\ unreadable' = unreadable
      /\ UNCHANGED <<made, marker, ensuring, lost, forcedAt, limited, sentOn, olmPlan, olmSpent>>
  BY <1>2, <1>4 DEF createInboundSession
<1>6. unreadable' = 0
  BY <1>5 DEF OlmInv, ChainIs
<1> QED BY <1>3, <1>4, <1>5, <1>6, ChainStep

\* It holds before any call.
LEMMA OlmInitInv == OlmInit => OlmInv
<1> SUFFICES ASSUME OlmInit PROVE OlmInv
  OBVIOUS
<1>1. MaxSessions \in Nat /\ Nobody \notin Task
  BY OlmAssumption DEF Nobody
<1>2. SessionsType
  <2>1. \A d \in Device : sessions[d].ids = {} /\ sessions[d].latest = 0 /\ sessions[d] \in [ids : SUBSET Nat, latest : Nat]
    BY DEF OlmInit, NoSession
  <2>2. sessions \in [Device -> [ids : SUBSET Nat, latest : Nat]]
    BY <2>1 DEF OlmInit
  <2>3. /\ lost \in [Device -> SUBSET (1 .. MaxSessions)]
        /\ forcedAt \in [Device -> BOOLEAN] /\ limited \in [Device -> BOOLEAN]
        /\ sentOn \in [Device -> 0 .. MaxSessions]
    BY <1>1 DEF OlmInit, NoSession
  <2> QED BY <2>1, <2>2, <2>3 DEF SessionsType, NoSession
<1>3. NewTask \in TaskRecord
  BY DEF NewTask, TaskRecord, Working
<1>4. TasksType
  <2>1. olmPlan \in OlmPlans /\ olmPlan.faults \in Nat /\ olmPlan.losses \in Nat /\ olmPlan.prekeys \in Nat
    BY OlmAssumption DEF OlmInit
  <2>2. olmSpent \in [faults : 0 .. olmPlan.faults, losses : 0 .. olmPlan.losses, prekeys : 0 .. olmPlan.prekeys]
    BY <2>1 DEF OlmInit
  <2>3. /\ made \in [Device -> 0 .. MaxSessions] /\ marker \in [Device -> Task \cup {Nobody}]
        /\ ensuring \in [Task -> TaskRecord]
    BY <1>1, <1>3 DEF OlmInit
  <2> QED BY <2>1, <2>2, <2>3 DEF TasksType
<1>5. TasksAre
  <2>1. \A d \in Device, t \in Task : marker[d] # t
    BY <1>1 DEF OlmInit
  <2>2. \A t \in Task : TaskIs(ensuring[t])
    BY DEF OlmInit, NewTask, TaskIs
  <2> QED BY <2>1, <2>2 DEF TasksAre
<1>6. ChainIs
  <2>1. prekeys \in Seq(PrekeyRecord) /\ Len(prekeys) = 0 /\ unreadable = 0
    BY DEF OlmInit
  <2> QED BY <2>1 DEF ChainIs
<1>7. Alone
  <2>1. \A d \in Device : Single(d)
    BY DEF OlmInit, Single
  <2>2. \A t \in Task : Knowing(t, ensuring[t], marker, made)
    BY DEF OlmInit, NewTask, Knowing
  <2> QED BY <2>1, <2>2 DEF OlmInit, Alone
<1>8. Mends
  <2>1. \A d \in Device : Mended(d)
    BY DEF OlmInit, Mended, NoSession
  <2>2. \A t \in Task : ensuring[t].at \notin {"hold", "send"}
    BY DEF OlmInit, NewTask
  <2> QED BY <2>1, <2>2 DEF OlmInit, Mends
<1> QED BY <1>2, <1>4, <1>5, <1>6, <1>7, <1>8 DEF OlmInv

\* It says that the sessions are sound: nobody is mending when the calls have returned.
LEMMA InvIsSound == OlmInv => SessionsAreSound
<1> SUFFICES ASSUME OlmInv PROVE SessionsAreSound
  OBVIOUS
<1>1. OlmTypeOK
  BY DEF OlmInv, SessionsType, TasksType, OlmTypeOK
<1>2. NoStrayMarker
  <2> SUFFICES ASSUME NEW d \in Device, marker[d] # Nobody PROVE ~Ended(marker[d])
    BY DEF NoStrayMarker
  <2>1. PICK t \in Task : t = marker[d]
    BY DEF OlmInv, TasksType
  <2>2. d \in Concern(ensuring[t])
    BY <2>1 DEF OlmInv, TasksAre
  <2> QED BY <2>1, <2>2 DEF Concern, Ended
<1>3. OneSessionEach
  <2> SUFFICES ASSUME olmSpent.faults + olmSpent.losses + olmSpent.prekeys = 0
               PROVE  \A d \in Device : made[d] <= 1
    BY DEF OneSessionEach
  <2>1. \A a, b, c \in Nat : a + b + c = 0 => a = 0 /\ b = 0 /\ c = 0
    OBVIOUS
  <2>2. olmPlan.faults \in Nat /\ olmPlan.losses \in Nat /\ olmPlan.prekeys \in Nat
    BY OlmAssumption DEF OlmInv, TasksType
  <2>3. olmSpent.faults \in Nat /\ olmSpent.losses \in Nat /\ olmSpent.prekeys \in Nat
    BY <2>2 DEF OlmInv, TasksType
  <2>4. Calm
    BY <2>1, <2>3 DEF Calm
  <2> QED BY <2>4 DEF OlmInv, Alone, Single
<1>4. PrekeysAreRead
  BY DEF OlmInv, ChainIs, PrekeysAreRead
<1>5. WedgeIsMended
  <2> SUFFICES ASSUME NEW d \in Device, \A t \in Task : Ended(t), ~limited[d], Faultless
               PROVE  ~Wedged(d) /\ sentOn[d] \notin lost[d]
    BY DEF WedgeIsMended, Faultless
  <2>1. Mended(d)
    BY DEF OlmInv, Mends
  <2>2. \A t \in Task : ~Mending(ensuring[t], d)
    BY DEF Ended, Mending
  <2>3. sessions[d].latest \notin lost[d]
    BY <2>1, <2>2 DEF Mended
  <2> QED BY <2>1, <2>3 DEF Mended, Wedged, getSessionIdForDevice
<1> QED BY <1>1, <1>2, <1>3, <1>4, <1>5 DEF SessionsAreSound

\* Every step keeps it.
LEMMA OlmNextInv == OlmInv /\ [OlmNext]_olmVars => OlmInv'
<1> SUFFICES ASSUME OlmInv, [OlmNext]_olmVars PROVE OlmInv'
  OBVIOUS
<1>1. CASE UNCHANGED olmVars
  BY <1>1 DEF olmVars, OlmInv, SessionsType, TasksType, TasksAre, ChainIs, Alone, Mends, Calm, Single,
              Faultless, Mended
<1>2. ASSUME NEW t \in Task, NEW ds \in Lists, shareKeys(t, ds) PROVE OlmInv'
  BY <1>2, ShareInv
<1>3. ASSUME NEW t \in Task, NEW d \in Device, onToDeviceBadEncrypted(t, d) PROVE OlmInv'
  BY <1>3, LossInv
<1>4. ASSUME NEW t \in Task, EnsureSteps(t) PROVE OlmInv'
  <2>1. CASE promiseResolved(t)
    BY <2>1, PromiseInv
  <2>2. CASE sessionInfoRead(t)
    BY <2>2, ReadInv
  <2>3. ASSUME NEW got \in SUBSET Device, keysClaimed(t, got) PROVE OlmInv'
    BY <2>3, ClaimedInv
  <2>4. CASE claimFailed(t)
    BY <2>4, ClaimFailedInv
  <2>5. ASSUME NEW d \in Device, NEW good \in BOOLEAN, sessionStarted(t, d, good) PROVE OlmInv'
    BY <2>5, StartedInv
  <2>6. CASE sendPromiseResolved(t)
    BY <2>6, SendPromiseInv
  <2>7. CASE encryptMessageForDevice(t)
    BY <2>7, EncryptInv
  <2> QED BY <1>4, <2>1, <2>2, <2>3, <2>4, <2>5, <2>6, <2>7 DEF EnsureSteps
<1>5. ASSUME NEW d \in Device, NEW again \in BOOLEAN, prekeyArrives(d, again) PROVE OlmInv'
  BY <1>5, ArrivesInv
<1>6. CASE Decryption
  BY <1>6, DecryptInv, CreateInv DEF Decryption
<1> QED BY <1>1, <1>2, <1>3, <1>4, <1>5, <1>6 DEF OlmNext

\* The invariant of the Olm sessions, for any devices, calls and misfortunes.
THEOREM OlmInvHolds == OlmSpec => []OlmInv
<1>1. OlmInit => OlmInv
  BY OlmInitInv
<1>2. OlmInv /\ [OlmNext]_olmVars => OlmInv'
  BY OlmNextInv
<1> QED BY <1>1, <1>2, PTL DEF OlmSpec

\* No stray promise in sessionsInProgress, no second session by accident, no prekey
\* message made unreadable, and a wedged session mended (ensureOlmSessionsForDevices,
\* OlmDecryption, onToDeviceBadEncrypted).
THEOREM SessionsSound == OlmSpec => []SessionsAreSound
<1>1. OlmInv => SessionsAreSound
  BY InvIsSound
<1> QED BY <1>1, OlmInvHolds, PTL

-----------------------------------------------------------------------------
(* Device verification.                                                    *)

\* Whom a device can verify.
Peers(p) == IF p = Initiator THEN Devices ELSE {Initiator}

Early == {"none", "created", "downloading"}
Late  == {"sendAccept", "sendKey", "waitKey", "sas", "checking"}

Wire ==
  [from : Parties, to : SUBSET Parties, type : Types, start : Starts,
   echo : BOOLEAN, delivered : BOOLEAN]

State ==
  [eventsByUs : SUBSET Types, eventsByThem : SUBSET Types, phase : Phases,
   verifierHasFinished : BOOLEAN, cancelled : BOOLEAN, timeoutTimer : BOOLEAN,
   devices : SUBSET Parties, deviceId : Starts,
   place : Places, startEvent : Starts, expectedEvent : {"none", "accept", "key", "mac", "done"},
   waitingForAccept : BOOLEAN, promise : BOOLEAN, done : BOOLEAN, timer : BOOLEAN,
   commitment : Starts, gotMAC : BOOLEAN, confirmed : {"no", "sending", "yes"},
   out : SUBSET Wire]

\* A start event may be on its way, and a device that wins a race will not follow another.
Begun(p, s) == s.place \notin Early /\ ~(Smaller(p, s.deviceId) /\ s.startEvent # None)

\* The device follows its partner's start event, or its partner its own.
Settled(p, s) == s.startEvent # None \/ s.commitment = p

Over(s) == s.phase \in {"Cancelled", "Done"}
OwnCancel(s) == s.cancelled \/ "cancel" \in s.eventsByUs

\* The phase shows that the request is over.
Closed(p, s) ==
  /\ OwnCancel(s) \/ "cancel" \in s.eventsByThem => Over(s)
  /\ s.phase = "Cancelled" => OwnCancel(s) \/ "cancel" \in s.eventsByThem
  /\ s.phase = "Done" => isDone(p, s)

\* A message that the device p sent, its record being s now; k is what is true of its
\* partner (Known).
Genuine(p, m, s, k) ==
  /\ m.from = p /\ m.to \subseteq Peers(p)
  /\ m.type \in {"start", "accept", "key", "mac"} => s.deviceId # None /\ m.to = {s.deviceId}
  /\ m.type \in {"accept", "key", "mac"} => "chosen" \in k
  /\ m.type = "mac" => s.confirmed # "no"
  /\ m.type = "done" => "verified" \in k
  /\ m.type = "start" => Begun(p, s)
  /\ m.type = "request" => p = Initiator
  /\ m.type = "accept" => m.start # None /\ m.start = s.startEvent
  /\ m.type = "cancel" /\ m.echo =>
       IF s.deviceId = None THEN m.to = s.devices ELSE s.deviceId \in m.to
  /\ ~m.echo => m.type = "cancel" /\ s.deviceId \notin {None} \cup m.to

\* What the record says of the start event in force.
Fit(p, s, k) ==
  /\ s.startEvent \in {None, s.deviceId}
  /\ s.startEvent # None => s.place # "none"
  /\ s.place \in Early => ~s.waitingForAccept /\ "start" \notin s.eventsByUs
  /\ s.waitingForAccept /\ s.startEvent # None => Smaller(s.startEvent, p)
  /\ ("start" \in s.eventsByThem \/ s.startEvent # None) /\ Smaller(s.deviceId, p) => "begun" \in k
  /\ s.commitment = p => "follows" \in k /\ "accept" \in s.eventsByThem
  /\ s.place \in {"sas", "checking"} \/ s.expectedEvent = "mac" => Settled(p, s)

\* What it says of the partner, the confirmation and the verification.
Sound(p, s, k) ==
  /\ s.devices \subseteq Peers(p) /\ s.deviceId \in Peers(p) \cup {None}
  /\ s.place \in Late => "chosen" \in k
  /\ s.eventsByThem \cap {"start", "accept", "key", "mac"} # {} => "chosen" \in k
  /\ "mac" \in s.eventsByThem \/ s.gotMAC => "confirmed" \in k
  /\ s.place = "checking" => s.confirmed = "yes" /\ s.gotMAC
  /\ s.startEvent \notin {None, p} => "chosen" \in k
  /\ s.confirmed # "no" => "chosen" \in k
  /\ "done" \in s.eventsByUs \/ s.verifierHasFinished \/ s.phase = "Done" => "verified" \in k
  /\ s.phase = "Requested" \/ "request" \in s.eventsByUs => p = Initiator \/ s.deviceId # None
  /\ \/ "chosen" \in k \/ s.place # "none" \/ "start" \in s.eventsByUs
     \/ s.eventsByThem \cap {"request", "ready", "start"} # {}
     => s.deviceId # None

\* All devices of the partner's user are asked, or one has been chosen.
Whole(p, s) == s.devices \in {{}, Peers(p)} \/ s.deviceId # None

Good(p, s, k) ==
  /\ s \in State /\ Sound(p, s, k) /\ Fit(p, s, k)
  /\ \A m \in s.out : Genuine(p, m, s, k) /\ ~m.delivered

\* q has chosen p, and q's user has confirmed.
Chosen(p, q) == q # None /\ side[q].deviceId = p
HeardOf(p, q) == Chosen(p, q) /\ side[q].confirmed # "no"

\* What is true of q, as the partner of p: it has chosen p, its user has confirmed, it
\* has begun, it follows p's start event.
Of(p, q) ==
  {f \in {"chosen", "confirmed", "begun", "follows"} :
     /\ Chosen(p, q)
     /\ f = "confirmed" => side[q].confirmed # "no"
     /\ f = "begun" => Begun(q, side[q])
     /\ f = "follows" => side[q].startEvent = p}

\* What is true of p's partner, and whether p has marked it verified.
Known(p) == Of(p, side[p].deviceId) \cup {f \in {"verified"} : p \in verified}

\* Its partner has chosen the device, and has confirmed.
Bonded(p) == Chosen(p, side[p].deviceId)
Heard(p) == HeardOf(p, side[p].deviceId)

OnTheWire(m) == m \in Wire /\ Genuine(m.from, m, side[m.from], Known(m.from))

InInbox(p, m) ==
  /\ m.from \in Peers(p) /\ m.type \in Types /\ m.start \in Starts
  /\ m.type \in {"start", "accept", "key", "mac"} => side[m.from].deviceId = p
  /\ m.type \in {"accept", "key", "mac"} => Bonded(m.from)
  /\ m.type = "mac" => side[m.from].confirmed # "no"
  /\ m.type = "start" => Begun(m.from, side[m.from])
  /\ m.type = "accept" => m.start # None /\ m.start = side[m.from].startEvent

\* A device that has not heard of a request has done nothing.
Quiet(p) == side[p].devices = {} => side[p] = Fresh /\ \A m \in net : m.from # p

\* Troubles are counted.
Counted ==
  /\ used \in [{"failures", "stops", "duplicates"} -> Nat]
  /\ used.failures + used.stops + used.duplicates <= MaxTroubles

VerInv ==
  /\ side \in [Parties -> State]
  /\ \A p \in Parties : Good(p, side[p], Known(p)) /\ side[p].out = {}
  /\ \A p \in Parties : Closed(p, side[p]) /\ Quiet(p) /\ Whole(p, side[p])
  /\ \A m \in net : OnTheWire(m)
  /\ inbox \in [Parties -> Seq([from : Parties, type : Types, start : Starts])]
  /\ \A p \in Parties : \A i \in DOMAIN inbox[p] : InInbox(p, inbox[p][i])
  /\ verified \subseteq Parties
  /\ \A p \in Parties : p \in verified => side[p].confirmed = "yes" /\ Heard(p)
  /\ Counted

\* What a callback does to a device's record otherwise: nothing is taken back.
Near(p, s, t) ==
  /\ t.deviceId = s.deviceId /\ t.devices = s.devices
  /\ s.confirmed # "no" => t.confirmed # "no"
  /\ s.confirmed = "yes" => t.confirmed = "yes"
  /\ Begun(p, s) => Begun(p, t)
  /\ s.startEvent # None => t.startEvent = s.startEvent
  /\ s.out \subseteq t.out /\ \A m \in t.out : m.type = "request" => m \in s.out

\* The other side is told of a cancellation.
Announces(s, t) == t.cancelled => s.cancelled \/ \E m \in t.out : m.type = "cancel" /\ m.echo

\* The same, for what does not note an event.
Same(p, s, t) ==
  /\ Near(p, s, t) /\ Announces(s, t)
  /\ t.eventsByUs = s.eventsByUs /\ t.eventsByThem = s.eventsByThem
  /\ Closed(p, s) => Closed(p, t) /\ (Over(s) => Over(t))

-----------------------------------------------------------------------------
\* Who verifies whom.
LEMMA PeerFacts ==
  ASSUME NEW p \in Parties
  PROVE  /\ Peers(p) \subseteq Parties /\ p # None /\ None \notin Parties
         /\ \A q \in Peers(p) : p \in Peers(q) /\ q # p /\ q # None /\ (p = Initiator) # (q = Initiator)
BY VerificationAssumption DEF Peers, Parties

\* Either of two that verify each other sorts first.
LEMMA Sorted ==
  ASSUME NEW p \in Parties, NEW q \in Peers(p)
  PROVE  Smaller(p, q) = ~Smaller(q, p)
BY PeerFacts, VerificationAssumption DEF Smaller

\* One thing after another.
LEMMA NearAgain ==
  ASSUME NEW p, NEW r, NEW s, NEW t, Near(p, r, s), Near(p, s, t)
  PROVE  Near(p, r, t)
BY DEF Near

\* One thing after another, as far as the events go.
LEMMA SameAgain ==
  ASSUME NEW p, NEW r, NEW s, NEW t, Same(p, r, s), Same(p, s, t)
  PROVE  Same(p, r, t)
<1>1. Near(p, r, t)
  BY NearAgain DEF Same
<1>2. Announces(r, t)
  BY DEF Same, Near, Announces
<1> QED BY <1>1, <1>2 DEF Same

\* Nothing happens.
LEMMA SameSelf ==
  ASSUME NEW p, NEW s
  PROVE  Same(p, s, s)
BY DEF Same, Near, Announces

\* Whether the phase shows the end depends on a few fields.
LEMMA ClosedAs ==
  ASSUME NEW p, NEW s, NEW t,
         t.eventsByUs = s.eventsByUs, t.eventsByThem = s.eventsByThem, t.deviceId = s.deviceId,
         t.verifierHasFinished = s.verifierHasFinished
  PROVE  /\ Starters(p, t) = Starters(p, s) /\ isDone(p, t) = isDone(p, s)
         /\ t.phase = s.phase /\ t.cancelled = s.cancelled =>
              Closed(p, t) = Closed(p, s) /\ Over(t) = Over(s)
<1>1. Starters(p, t) = Starters(p, s)
  BY DEF Starters, isReady, hasRequest, hasRequestByThem
<1>2. isDone(p, t) = isDone(p, s)
  BY <1>1 DEF isDone
<1> QED BY <1>1, <1>2 DEF Closed, Over, OwnCancel

\* What is true of a message stays true.
LEMMA GenuineStays ==
  ASSUME NEW p, NEW m, NEW s, NEW t, NEW k, Genuine(p, m, s, k), Near(p, s, t)
  PROVE  Genuine(p, m, t, k)
<1>1. m.type = "accept" => m.start # None /\ m.start = t.startEvent
  BY DEF Genuine, Near
<1> QED BY <1>1 DEF Genuine, Near

\* A message is sent.
LEMMA Sends ==
  ASSUME NEW p \in Parties, NEW s, NEW k, Good(p, s, k), NEW type \in Types,
         type \notin {"request", "cancel"} => s.deviceId # None,
         type \in {"accept", "key", "mac"} => "chosen" \in k, type = "mac" => s.confirmed # "no",
         type = "done" => "verified" \in k, type = "start" => Begun(p, s),
         type = "accept" => s.startEvent # None, type = "request" => p = Initiator,
         NEW t, t = send(p, s, type)
  PROVE  /\ Good(p, t, k) /\ (type # "request" => Same(p, s, t))
         /\ t.place = s.place /\ t.eventsByThem = s.eventsByThem /\ t.eventsByUs = s.eventsByUs
         /\ t.cancelled = s.cancelled /\ t.devices = s.devices /\ t.deviceId = s.deviceId
         /\ t.verifierHasFinished = s.verifierHasFinished /\ t.phase = s.phase
         /\ type = "cancel" => \E m \in t.out : m.type = "cancel" /\ m.echo
<1>1. s \in State /\ s.devices \subseteq Peers(p) /\ s.deviceId \in Peers(p) \cup {None}
  BY DEF Good, Sound
<1>2. PICK to : to = IF type = "request" \/ (type = "cancel" /\ s.deviceId = None) THEN s.devices ELSE {s.deviceId}
  OBVIOUS
<1>3. PICK m : m = Message(p, to, type, s.startEvent, TRUE)
  OBVIOUS
<1>4. /\ m \in Wire /\ m.from = p /\ m.to = to /\ m.type = type /\ m.start = s.startEvent
      /\ m.echo /\ ~m.delivered
  BY <1>1, <1>2, <1>3, PeerFacts DEF Message, Wire, State, Starts
<1>5. Genuine(p, m, s, k)
  BY <1>1, <1>2, <1>4, PeerFacts DEF Genuine
<1>6. t = [s EXCEPT !.out = s.out \cup {m}]
  BY <1>2, <1>3 DEF send
<1>7. /\ t \in State /\ t.out = s.out \cup {m} /\ t.devices = s.devices /\ t.deviceId = s.deviceId
      /\ t.place = s.place /\ t.eventsByThem = s.eventsByThem /\ t.gotMAC = s.gotMAC
      /\ t.confirmed = s.confirmed /\ t.startEvent = s.startEvent /\ t.eventsByUs = s.eventsByUs
      /\ t.verifierHasFinished = s.verifierHasFinished /\ t.phase = s.phase
      /\ t.cancelled = s.cancelled /\ t.commitment = s.commitment
      /\ t.expectedEvent = s.expectedEvent /\ t.waitingForAccept = s.waitingForAccept
  BY <1>1, <1>4, <1>6 DEF State
<1>8. Sound(p, t, k) /\ Fit(p, t, k)
  BY <1>7 DEF Good, Sound, Fit, Settled
<1>9. Begun(p, s) = Begun(p, t) /\ t.out = s.out \cup {m}
  BY <1>7 DEF Begun
<1>10. \A n \in t.out : Genuine(p, n, s, k) /\ ~n.delivered
  BY <1>4, <1>5, <1>9 DEF Good
<1>11. \A n \in t.out : Genuine(p, n, t, k) /\ ~n.delivered
  BY <1>7, <1>9, <1>10 DEF Genuine
<1>12. type # "request" => Near(p, s, t)
  BY <1>4, <1>7, <1>9 DEF Near
<1>13. type # "request" => Same(p, s, t)
  BY <1>7, <1>12, ClosedAs DEF Same, Announces
<1> QED BY <1>4, <1>7, <1>8, <1>11, <1>13 DEF Good

\* The records agree on what Good speaks of, but for the place and the MAC.
Like(s, t) ==
  /\ t.devices = s.devices /\ t.deviceId = s.deviceId /\ t.eventsByThem = s.eventsByThem
  /\ t.eventsByUs = s.eventsByUs /\ t.phase = s.phase /\ t.verifierHasFinished = s.verifierHasFinished
  /\ t.startEvent = s.startEvent /\ t.confirmed = s.confirmed /\ t.out = s.out
  /\ t.commitment = s.commitment /\ t.cancelled = s.cancelled
  /\ t.waitingForAccept => s.waitingForAccept

\* The place may move to one that is allowed, and the MAC may have been received.
LEMMA Moves ==
  ASSUME NEW p, NEW s, NEW t \in State, NEW k, Good(p, s, k), Like(s, t),
         t.gotMAC = s.gotMAC \/ "confirmed" \in k,
         t.place = s.place \/ (t.place # "none" /\ s.deviceId # None),
         t.place = s.place \/ (t.place \in Late => "chosen" \in k),
         t.place \in Early => s.place \in Early,
         t.place = "checking" => t.confirmed = "yes" /\ t.gotMAC,
         t.place = s.place \/ t.place \notin {"sas", "checking"} \/ Settled(p, s),
         t.expectedEvent \in {s.expectedEvent, "none", "done"} \/ t.expectedEvent # "mac" \/ Settled(p, s)
  PROVE  Good(p, t, k) /\ Same(p, s, t)
<1>1. Sound(p, t, k)
  BY DEF Good, Sound, Like
<1>2. Fit(p, t, k)
  BY DEF Good, Fit, Like, Settled
<1>3. Begun(p, s) => Begun(p, t)
  BY DEF Begun, Like
<1>4. Near(p, s, t) /\ Announces(s, t)
  BY <1>3 DEF Near, Like, Announces
<1>5. \A m \in t.out : Genuine(p, m, t, k) /\ ~m.delivered
  BY <1>4, GenuineStays DEF Good, Like
<1>6. Same(p, s, t)
  BY <1>4, ClosedAs DEF Same, Like
<1> QED BY <1>1, <1>2, <1>5, <1>6 DEF Good

\* Nothing that Good speaks of has changed.
LEMMA Stays ==
  ASSUME NEW p, NEW s, NEW t \in State, NEW k, Good(p, s, k), Like(s, t),
         t.gotMAC = s.gotMAC, t.place = s.place, t.expectedEvent \in {s.expectedEvent, "none"}
  PROVE  Good(p, t, k) /\ Same(p, s, t)
<1>1. t.place = "checking" => t.confirmed = "yes" /\ t.gotMAC
  BY DEF Good, Sound, Like
<1> QED BY <1>1, Moves

\* The senders of the start events that count, and the one of them that wins.
LEMMA StartersAre ==
  ASSUME NEW p \in Parties, NEW s, NEW k, Good(p, s, k), Starters(p, s) # {}
  PROVE  /\ s.deviceId # None
         /\ startEventOf(p, s) \in {p, s.deviceId}
         /\ startEventOf(p, s) # p => "start" \in s.eventsByThem
         /\ startEventOf(p, s) = p => "start" \in s.eventsByUs
<1>1. s.deviceId \in Peers(p) \cup {None}
  BY DEF Good, Sound
<1>2. Starters(p, s) \subseteq {p, s.deviceId}
  BY DEF Starters
<1>3. s.deviceId \in Starters(p, s) => s.deviceId = p \/ "start" \in s.eventsByThem
  BY DEF Starters
<1>4. "start" \in s.eventsByThem \/ "start" \in s.eventsByUs
  BY DEF Starters
<1>5. s.deviceId # None
  BY <1>4 DEF Good, Sound
<1>6. s.deviceId \in Peers(p) /\ s.deviceId # p
  BY <1>1, <1>5, PeerFacts
<1>7. Smaller(p, s.deviceId) \/ Smaller(s.deviceId, p)
  BY <1>6, Sorted
<1>8. \E q \in Starters(p, s) : \A r \in Starters(p, s) : q = r \/ Smaller(q, r)
  BY <1>2, <1>7
<1>9. startEventOf(p, s) \in Starters(p, s)
  BY <1>8 DEF startEventOf
<1>10. p \in Starters(p, s) => "start" \in s.eventsByUs
  BY <1>6 DEF Starters
<1> QED BY <1>2, <1>3, <1>5, <1>6, <1>9, <1>10

\* The phase follows the events; the first start event makes the verifier.
LEMMA Applies ==
  ASSUME NEW p \in Parties, NEW s, NEW k, Good(p, s, k), NEW t, t = applyPhaseTransitions(p, s)
  PROVE  /\ Good(p, t, k) /\ Same(p, s, t) /\ Closed(p, t)
         /\ t.out = s.out /\ t.cancelled = s.cancelled
         /\ s.place # "none" => t.place = s.place
         /\ isDone(p, s) => t.phase = "Done"
<1>1. s \in State
  BY DEF Good
<1>2. PICK f \in Phases : f = calculatePhase(p, s)
  BY DEF calculatePhase, Phases
<1>3. f = "Done" <=> isDone(p, s)
  BY <1>2 DEF calculatePhase
<1>4. f = "Done" => "verified" \in k
  BY <1>3 DEF isDone, Good, Sound
<1>5. PICK c : c = (/\ s.phase \in {"Unsent", "Requested", "Ready"} /\ s.place = "none" /\ Starters(p, s) # {})
  OBVIOUS
<1>6. /\ t \in State /\ t.devices = s.devices /\ t.deviceId = s.deviceId /\ t.eventsByThem = s.eventsByThem
      /\ t.eventsByUs = s.eventsByUs /\ t.verifierHasFinished = s.verifierHasFinished
      /\ t.confirmed = s.confirmed /\ t.out = s.out /\ t.gotMAC = s.gotMAC
      /\ t.commitment = s.commitment /\ t.cancelled = s.cancelled
      /\ t.expectedEvent = s.expectedEvent /\ t.waitingForAccept = s.waitingForAccept
      /\ t.phase = f
      /\ c => t.place = "created" /\ t.startEvent = startEventOf(p, s)
      /\ ~c => t.place = s.place /\ t.startEvent = s.startEvent
  <2>1. CASE c
    <3>1. PICK e \in Starts : e = startEventOf(p, s)
      <4>1. Starters(p, s) # {}
        BY <1>5, <2>1
      <4> QED BY <1>1, <4>1, StartersAre DEF State, Starts
    <3>2. PICK u : u = [s EXCEPT !.place = "created", !.startEvent = e]
      OBVIOUS
    <3>3. t = [u EXCEPT !.phase = f]
      BY <1>2, <1>5, <2>1, <3>1, <3>2 DEF applyPhaseTransitions
    <3>4. /\ u \in State /\ u.devices = s.devices /\ u.deviceId = s.deviceId /\ u.eventsByThem = s.eventsByThem
          /\ u.eventsByUs = s.eventsByUs /\ u.verifierHasFinished = s.verifierHasFinished /\ u.startEvent = e
          /\ u.confirmed = s.confirmed /\ u.out = s.out /\ u.gotMAC = s.gotMAC /\ u.place = "created"
          /\ u.commitment = s.commitment /\ u.cancelled = s.cancelled
          /\ u.expectedEvent = s.expectedEvent /\ u.waitingForAccept = s.waitingForAccept
      BY <1>1, <3>2 DEF State, Places
    <3> QED BY <2>1, <3>1, <3>3, <3>4 DEF State
  <2>2. CASE ~c
    <3>1. t = [s EXCEPT !.phase = f]
      BY <1>2, <1>5, <2>2 DEF applyPhaseTransitions
    <3> QED BY <1>1, <2>2, <3>1 DEF State
  <2> QED BY <2>1, <2>2
<1>7. /\ c => t.startEvent = s.deviceId /\ s.deviceId # None /\ "start" \in s.eventsByThem /\ "chosen" \in k
      /\ c => s.place = "none" /\ s.startEvent = None
  <2> SUFFICES ASSUME c
               PROVE  /\ t.startEvent = s.deviceId /\ s.deviceId # None /\ "start" \in s.eventsByThem
                      /\ "chosen" \in k /\ s.place = "none" /\ s.startEvent = None
    OBVIOUS
  <2>1. s.place = "none" /\ Starters(p, s) # {}
    BY <1>5
  <2>2. "start" \notin s.eventsByUs /\ s.startEvent = None
    BY <2>1 DEF Good, Fit, Early
  <2>3. startEventOf(p, s) = s.deviceId /\ s.deviceId # None /\ "start" \in s.eventsByThem
    BY <2>1, <2>2, StartersAre
  <2> QED BY <1>6, <2>1, <2>2, <2>3 DEF Good, Sound
<1>8. Sound(p, t, k)
  <2>1. f = "Requested" => hasRequest(s)
    BY <1>2 DEF calculatePhase
  <2>2. f = "Requested" \/ "request" \in s.eventsByUs => p = Initiator \/ s.deviceId # None
    BY <2>1 DEF Good, Sound, hasRequest, hasRequestByThem
  <2> QED BY <1>4, <1>6, <1>7, <2>2 DEF Good, Sound, Late
<1>9. Fit(p, t, k)
  <2>1. CASE c
    BY <1>6, <1>7, <2>1 DEF Good, Fit, Settled, Early
  <2>2. CASE ~c
    BY <1>6, <2>2 DEF Good, Fit, Settled
  <2> QED BY <2>1, <2>2
<1>10. Begun(p, s) => Begun(p, t)
  BY <1>6, <1>7 DEF Begun, Early
<1>11. Near(p, s, t) /\ Announces(s, t)
  BY <1>6, <1>7, <1>10 DEF Near, Announces
<1>12. \A m \in t.out : Genuine(p, m, t, k) /\ ~m.delivered
  BY <1>6, <1>11, GenuineStays DEF Good
<1>13. isDone(p, t) = isDone(p, s)
  BY <1>6, ClosedAs
<1>14. Closed(p, t)
  BY <1>2, <1>6, <1>13 DEF Closed, calculatePhase, Over, OwnCancel
<1>15. Closed(p, s) /\ Over(s) => Over(t)
  BY <1>2, <1>6 DEF Closed, calculatePhase, Over, OwnCancel
<1>16. Good(p, t, k)
  BY <1>6, <1>8, <1>9, <1>12 DEF Good
<1>17. Same(p, s, t)
  BY <1>6, <1>11, <1>14, <1>15 DEF Same
<1> QED BY <1>3, <1>6, <1>7, <1>14, <1>16, <1>17

\* The verifier cancels.
LEMMA Cancels ==
  ASSUME NEW p \in Parties, NEW s, NEW k, Good(p, s, k), NEW t, t = verifierCancel(p, s)
  PROVE  Good(p, t, k) /\ Same(p, s, t)
<1>1. s \in State
  BY DEF Good
<1>2. CASE s.done
  <2>1. t = [s EXCEPT !.timer = FALSE]
    BY <1>2 DEF verifierCancel
  <2>2. t \in State /\ Like(s, t) /\ t.gotMAC = s.gotMAC /\ t.place = s.place /\ t.expectedEvent = s.expectedEvent
    BY <1>1, <2>1 DEF State, Like
  <2> QED BY <2>2, Stays
<1>3. CASE ~s.done
  <2>1. PICK d \in BOOLEAN : d = (s.place # "created")
    OBVIOUS
  <2>2. PICK u : u = [s EXCEPT !.timer = FALSE, !.cancelled = TRUE, !.promise = TRUE, !.done = d]
    OBVIOUS
  <2>3. /\ u \in State /\ u.devices = s.devices /\ u.deviceId = s.deviceId /\ u.eventsByThem = s.eventsByThem
        /\ u.eventsByUs = s.eventsByUs /\ u.verifierHasFinished = s.verifierHasFinished
        /\ u.startEvent = s.startEvent /\ u.place = s.place /\ u.phase = s.phase
        /\ u.confirmed = s.confirmed /\ u.out = s.out /\ u.gotMAC = s.gotMAC
        /\ u.commitment = s.commitment /\ u.cancelled = TRUE
        /\ u.expectedEvent = s.expectedEvent /\ u.waitingForAccept = s.waitingForAccept
    BY <1>1, <2>2 DEF State
  <2>4. Sound(p, u, k) /\ Fit(p, u, k) /\ Near(p, s, u)
    BY <2>3 DEF Good, Sound, Fit, Settled, Near, Begun
  <2>5. Good(p, u, k)
    BY <2>3, <2>4, GenuineStays DEF Good
  <2>6. PICK w : w = applyPhaseTransitions(p, u)
    OBVIOUS
  <2>7. Good(p, w, k) /\ Same(p, u, w) /\ Closed(p, w)
    BY <2>5, <2>6, Applies
  <2>8. t = send(p, w, "cancel")
    BY <1>3, <2>1, <2>2, <2>6 DEF verifierCancel
  <2>9. Good(p, t, k) /\ Same(p, w, t) /\ \E m \in t.out : m.type = "cancel" /\ m.echo
    BY <2>7, <2>8, Sends DEF Types
  <2>10. Near(p, s, t)
    BY <2>4, <2>7, <2>9, NearAgain DEF Same
  <2>11. Closed(p, s) /\ Over(s) => Closed(p, u) /\ Over(u)
    BY <2>3, ClosedAs DEF Closed, Over, OwnCancel
  <2>12. Closed(p, t) /\ (Closed(p, s) /\ Over(s) => Over(t))
    BY <2>7, <2>9, <2>11 DEF Same
  <2>13. t.eventsByUs = s.eventsByUs /\ t.eventsByThem = s.eventsByThem
    BY <2>3, <2>7, <2>9 DEF Same
  <2> QED BY <2>9, <2>10, <2>12, <2>13 DEF Same, Announces
<1> QED BY <1>2, <1>3

\* doVerification throws.
LEMMA Throws ==
  ASSUME NEW p \in Parties, NEW s, NEW k, Good(p, s, k), s.deviceId # None, NEW t, t = Throw(p, s)
  PROVE  Good(p, t, k) /\ Same(p, s, t)
<1>1. PICK u : u = [s EXCEPT !.place = "ended"]
  OBVIOUS
<1>2. u \in State /\ Like(s, u) /\ u.gotMAC = s.gotMAC /\ u.place = "ended" /\ u.expectedEvent = s.expectedEvent
  BY <1>1 DEF Good, State, Like, Places
<1>3. Good(p, u, k) /\ Same(p, s, u)
  BY <1>2, Moves DEF Late, Early
<1>4. t = verifierCancel(p, u)
  BY <1>1 DEF Throw
<1>5. Good(p, t, k) /\ Same(p, u, t)
  BY <1>3, <1>4, Cancels
<1> QED BY <1>3, <1>5, SameAgain

\* An event is waited for, or is there already.
LEMMA Waits ==
  ASSUME NEW p \in Parties, NEW s, NEW k, Good(p, s, k), s.deviceId # None,
         NEW type \in {"accept", "key", "mac"}, NEW place \in {"waitAccept", "waitKey", "sas"},
         place \in Late => "chosen" \in k, place = "sas" \/ type = "mac" => Settled(p, s), NEW then,
         type \in s.eventsByThem => Good(p, then, k) /\ Same(p, s, then),
         NEW t, t = waitForEvent(p, s, type, place, then)
  PROVE  Good(p, t, k) /\ Same(p, s, t)
<1>1. PICK u : u = [s EXCEPT !.expectedEvent = type, !.place = place]
  OBVIOUS
<1>2. s \in State /\ place \in Places /\ place \notin Early \cup {"none", "checking"}
  BY DEF Good, Places, Early
<1>3. /\ u \in State /\ u.gotMAC = s.gotMAC /\ u.place = place /\ u.expectedEvent = type
      /\ Like(s, u)
  BY <1>1, <1>2, ZenonT(30) DEF State, Like
<1>4. Good(p, u, k) /\ Same(p, s, u)
  BY <1>2, <1>3, Moves
<1>5. PICK x : x = Throw(p, s)
  OBVIOUS
<1>6. Good(p, x, k) /\ Same(p, s, x)
  BY <1>5, Throws
<1> QED BY <1>1, <1>4, <1>5, <1>6 DEF waitForEvent

\* The short string is shown.
LEMMA Shows ==
  ASSUME NEW p \in Parties, NEW s, NEW k, Good(p, s, k), "chosen" \in k, Settled(p, s),
         NEW t, t = showSAS(p, s)
  PROVE  Good(p, t, k) /\ Same(p, s, t)
<1>1. PICK u : u = [s EXCEPT !.place = "sas", !.gotMAC = TRUE, !.expectedEvent = "done"]
  OBVIOUS
<1>2. u \in State /\ Like(s, u) /\ u.gotMAC /\ u.place = "sas" /\ u.expectedEvent = "done"
  BY <1>1 DEF Good, State, Like, Places
<1>3. s.deviceId # None /\ ("mac" \in s.eventsByThem => "confirmed" \in k)
  BY DEF Good, Sound
<1>4. "mac" \in s.eventsByThem => Good(p, u, k) /\ Same(p, s, u)
  BY <1>2, <1>3, Moves DEF Early
<1>5. t = waitForEvent(p, s, "mac", "sas", u)
  BY <1>1 DEF showSAS
<1> QED BY <1>3, <1>4, <1>5, Waits

\* doVerification goes on to a place where it sends an event.
LEMMA SendsAt ==
  ASSUME NEW p \in Parties, NEW s, NEW k, Good(p, s, k), "chosen" \in k,
         NEW place \in {"sendKey", "sendAccept"}, NEW type \in {"key", "accept"},
         type = "accept" => s.startEvent # None,
         NEW waits \in BOOLEAN, waits => s.waitingForAccept,
         NEW t, t = send(p, [s EXCEPT !.place = place, !.waitingForAccept = waits], type)
  PROVE  Good(p, t, k) /\ Same(p, s, t)
<1>1. PICK u : u = [s EXCEPT !.place = place, !.waitingForAccept = waits]
  OBVIOUS
<1>2. /\ u \in State /\ Like(s, u) /\ u.gotMAC = s.gotMAC /\ u.place = place
      /\ u.expectedEvent = s.expectedEvent
  BY <1>1 DEF Good, State, Like, Places
<1>3. s.deviceId # None
  BY DEF Good, Sound
<1>4. Good(p, u, k) /\ Same(p, s, u)
  BY <1>2, <1>3, Moves DEF Early
<1>5. t = send(p, u, type) /\ u.deviceId # None /\ (type = "accept" => u.startEvent # None)
  BY <1>1, <1>2, <1>3 DEF Like
<1>6. Good(p, t, k) /\ Same(p, u, t)
  BY <1>4, <1>5, Sends DEF Types
<1> QED BY <1>4, <1>6, SameAgain

\* The accept event of the other side, its start event, and its key.
LEMMA KeyGoes ==
  ASSUME NEW p \in Parties, NEW s, NEW k, Good(p, s, k), "chosen" \in k
  PROVE  /\ \A t : t = gotAccept(p, s) => Good(p, t, k) /\ Same(p, s, t)
         /\ \A t : t = gotKey(p, s) => Good(p, t, k) /\ Same(p, s, t)
         /\ s.startEvent # None =>
              \A t : t = doRespondVerification(p, s) => Good(p, t, k) /\ Same(p, s, t)
<1>1. s \in State /\ s.deviceId # None /\ s.waitingForAccept \in BOOLEAN
  BY DEF Good, Sound, State
<1>3. ASSUME NEW t, t = gotAccept(p, s) PROVE Good(p, t, k) /\ Same(p, s, t)
  <2>1. PICK no \in BOOLEAN : ~no /\ no = FALSE
    OBVIOUS
  <2>2. t = send(p, [s EXCEPT !.place = "sendKey", !.waitingForAccept = no], "key")
    BY <1>3, <2>1 DEF gotAccept
  <2> QED BY <2>1, <2>2, SendsAt
<1>4. ASSUME NEW t, t = gotKey(p, s) PROVE Good(p, t, k) /\ Same(p, s, t)
  <2>1. CASE Starter(p, s) # p
    <3>1. [s EXCEPT !.place = "sendKey"] = [s EXCEPT !.place = "sendKey", !.waitingForAccept = s.waitingForAccept]
      BY <1>1 DEF State
    <3>2. t = send(p, [s EXCEPT !.place = "sendKey", !.waitingForAccept = s.waitingForAccept], "key")
      BY <1>4, <2>1, <3>1 DEF gotKey
    <3> QED BY <1>1, <3>2, SendsAt
  <2>2. CASE Starter(p, s) = p /\ s.commitment = p
    BY <1>4, <2>2, Shows DEF gotKey, Settled
  <2>3. CASE Starter(p, s) = p /\ s.commitment # p
    BY <1>1, <1>4, <2>3, Throws DEF gotKey
  <2> QED BY <2>1, <2>2, <2>3
<1>5. ASSUME s.startEvent # None, NEW t, t = doRespondVerification(p, s) PROVE Good(p, t, k) /\ Same(p, s, t)
  <2>1. [s EXCEPT !.place = "sendAccept"] = [s EXCEPT !.place = "sendAccept", !.waitingForAccept = s.waitingForAccept]
    BY <1>1 DEF State
  <2>2. t = send(p, [s EXCEPT !.place = "sendAccept", !.waitingForAccept = s.waitingForAccept], "accept")
    BY <1>5, <2>1 DEF doRespondVerification
  <2> QED BY <1>1, <1>5, <2>2, SendsAt
<1> QED BY <1>3, <1>4, <1>5

\* Somebody else's start event is followed only when the partner has chosen the device.
LEMMA StarterIs ==
  ASSUME NEW p \in Parties, NEW s, NEW k, Good(p, s, k)
  PROVE  /\ Starter(p, s) # p => "chosen" \in k
         /\ Starter(p, s) = p <=> s.startEvent = None
<1>1. s.startEvent # None => s.startEvent = s.deviceId /\ s.deviceId \in Peers(p)
  BY DEF Good, Fit, Sound
<1> QED BY <1>1, PeerFacts DEF Good, Sound, Starter

\* The MAC of the other side.
LEMMA MacComes ==
  ASSUME NEW p \in Parties, NEW s, NEW k, Good(p, s, k), "chosen" \in k, "confirmed" \in k, Settled(p, s),
         NEW t, t = gotMAC(p, s)
  PROVE  Good(p, t, k) /\ Same(p, s, t)
<1>1. PICK a \in {"checking", "sas"} : a = IF s.confirmed = "yes" THEN "checking" ELSE "sas"
  OBVIOUS
<1>2. t = [s EXCEPT !.gotMAC = TRUE, !.expectedEvent = "done", !.place = a]
  BY <1>1 DEF gotMAC
<1>3. /\ t \in State /\ Like(s, t) /\ t.gotMAC /\ t.place = a /\ t.confirmed = s.confirmed /\ s.deviceId # None
      /\ t.expectedEvent = "done"
  BY <1>2 DEF Good, Sound, State, Like, Places
<1> QED BY <1>1, <1>3, Moves DEF Early

\* The other side's key is awaited.
LEMMA KeyAwaited ==
  ASSUME NEW p \in Parties, NEW s, NEW k, Good(p, s, k), "chosen" \in k,
         NEW t, t = waitForEvent(p, s, "key", "waitKey", gotKey(p, s))
  PROVE  Good(p, t, k) /\ Same(p, s, t)
<1>1. s.deviceId # None
  BY DEF Good, Sound
<1>2. PICK g : g = gotKey(p, s)
  OBVIOUS
<1>3. Good(p, g, k) /\ Same(p, s, g)
  BY <1>2, KeyGoes
<1>4. t = waitForEvent(p, s, "key", "waitKey", g)
  BY <1>2
<1> QED BY <1>1, <1>3, <1>4, Waits

\* The answer to a send that doVerification awaited.
LEMMA GoesOnSent ==
  ASSUME NEW p \in Parties, NEW s, NEW k, Good(p, s, k), NEW t,
         \/ s.place = "sendStart" /\ t = startSent(p, s)
         \/ s.place = "sendAccept" /\ t = acceptSent(p, s)
         \/ s.place = "sendKey" /\ t = keySent(p, s)
         \/ s.confirmed = "sending" /\ t = macSent(s)
  PROVE  Good(p, t, k) /\ Same(p, s, t)
<1>1. s \in State /\ (s.place # "none" => s.deviceId # None) /\ (s.place \in Late => "chosen" \in k)
  BY DEF Good, Sound
<1>2. \A x \in {"accept", "key"} : x \in s.eventsByThem => "chosen" \in k
  BY DEF Good, Sound
<1>3. CASE s.place = "sendStart" /\ t = startSent(p, s)
  <2>1. CASE Starter(p, s) # p
    <3>1. "chosen" \in k /\ s.startEvent # None
      BY <2>1, StarterIs
    <3> QED BY <1>3, <2>1, <3>1, KeyGoes DEF startSent
  <2>2. CASE Starter(p, s) = p
    <3>1. PICK g : g = gotAccept(p, s)
      OBVIOUS
    <3>2. "accept" \in s.eventsByThem => Good(p, g, k) /\ Same(p, s, g)
      BY <1>2, <3>1, KeyGoes
    <3>3. t = waitForEvent(p, s, "accept", "waitAccept", g)
      BY <1>3, <2>2, <3>1 DEF startSent
    <3> QED BY <1>1, <1>3, <3>2, <3>3, Waits DEF Late
  <2> QED BY <2>1, <2>2
<1>4. CASE s.place = "sendAccept" /\ t = acceptSent(p, s)
  <2>1. "chosen" \in k
    BY <1>1, <1>4 DEF Late
  <2> QED BY <1>4, <2>1, KeyAwaited DEF acceptSent
<1>5. CASE s.place = "sendKey" /\ t = keySent(p, s)
  <2>1. "chosen" \in k
    BY <1>1, <1>5 DEF Late
  <2>2. Starter(p, s) # p => Settled(p, s)
    BY StarterIs DEF Settled
  <2> QED BY <1>5, <2>1, <2>2, KeyAwaited, Shows DEF keySent
<1>6. CASE s.confirmed = "sending" /\ t = macSent(s)
  <2>1. PICK a : a = IF s.place = "sas" /\ s.gotMAC THEN "checking" ELSE s.place
    OBVIOUS
  <2>2. t = [s EXCEPT !.confirmed = "yes", !.place = a]
    BY <1>6, <2>1 DEF macSent
  <2>3. a \in Places /\ "chosen" \in k /\ (a = "checking" => s.gotMAC)
    BY <1>1, <1>6, <2>1 DEF Good, Sound, State, Places
  <2>4. a = s.place \/ (a = "checking" /\ s.place = "sas")
    BY <2>1
  <2>5. /\ t \in State /\ t.gotMAC = s.gotMAC /\ t.place = a /\ t.confirmed = "yes"
        /\ t.devices = s.devices /\ t.deviceId = s.deviceId /\ t.eventsByThem = s.eventsByThem
        /\ t.eventsByUs = s.eventsByUs /\ t.phase = s.phase /\ t.verifierHasFinished = s.verifierHasFinished
        /\ t.startEvent = s.startEvent /\ t.out = s.out
        /\ t.commitment = s.commitment /\ t.cancelled = s.cancelled
        /\ t.expectedEvent = s.expectedEvent /\ t.waitingForAccept = s.waitingForAccept
    BY <1>1, <2>2, <2>3 DEF State
  <2>6. Sound(p, t, k)
    BY <2>3, <2>4, <2>5 DEF Good, Sound, Late
  <2>7. Fit(p, t, k)
    BY <2>4, <2>5 DEF Good, Fit, Settled, Early
  <2>8. Near(p, s, t) /\ Announces(s, t)
    BY <2>4, <2>5 DEF Near, Announces, Begun, Early
  <2>9. \A m \in t.out : Genuine(p, m, t, k) /\ ~m.delivered
    BY <2>5, <2>8, GenuineStays DEF Good
  <2> QED BY <2>5, <2>6, <2>7, <2>8, <2>9, ClosedAs DEF Good, Same
<1> QED BY <1>3, <1>4, <1>5, <1>6

\* An event of the other side reaches the verifier.
LEMMA VerifierHears ==
  ASSUME NEW p \in Parties, NEW s, NEW k, Good(p, s, k), s.place # "none",
         NEW type \in {"accept", "key", "mac", "cancel"}, type \in s.eventsByThem,
         NEW t, t = verifierHandleEvent(p, s, type)
  PROVE  Good(p, t, k) /\ Same(p, s, t)
<1>1. /\ s \in State /\ s.deviceId # None /\ (type # "cancel" => "chosen" \in k)
      /\ (type = "mac" => "confirmed" \in k)
  BY DEF Good, Sound
<1>2. CASE s.done
  BY <1>2, SameSelf DEF verifierHandleEvent
<1>3. CASE ~s.done /\ type = s.expectedEvent
  <2>1. PICK u : u = [s EXCEPT !.expectedEvent = "none", !.timer = TRUE]
    OBVIOUS
  <2>2. u \in State /\ Like(s, u) /\ u.gotMAC = s.gotMAC /\ u.place = s.place /\ u.expectedEvent = "none"
    BY <1>1, <2>1 DEF State, Like
  <2>3. Good(p, u, k) /\ Same(p, s, u)
    BY <2>2, Stays
  <2>4. type \in {"accept", "key", "mac"}
    BY <1>1, <1>3 DEF State
  <2>5. type = "mac" => Settled(p, u)
    BY <1>3, <2>2 DEF Good, Fit, Settled, Like
  <2>6. t = CASE type = "accept" -> gotAccept(p, u) [] type = "key" -> gotKey(p, u) [] type = "mac" -> gotMAC(p, u)
    BY <1>3, <2>1 DEF verifierHandleEvent
  <2>7. Good(p, t, k) /\ Same(p, u, t)
    BY <1>1, <2>3, <2>4, <2>5, <2>6, KeyGoes, MacComes
  <2> QED BY <2>3, <2>7, SameAgain
<1>4. CASE ~s.done /\ type # s.expectedEvent /\ type = "cancel"
  <2>1. PICK u : u = [s EXCEPT !.done = TRUE, !.timer = FALSE]
    OBVIOUS
  <2>2. /\ u \in State /\ Like(s, u) /\ u.gotMAC = s.gotMAC /\ u.place = s.place
        /\ u.expectedEvent = s.expectedEvent
    BY <1>1, <2>1 DEF State, Like
  <2>3. Good(p, u, k) /\ Same(p, s, u)
    BY <2>2, Stays
  <2> QED BY <1>4, <2>1, <2>3, SameSelf DEF verifierHandleEvent
<1>5. CASE ~s.done /\ type # s.expectedEvent /\ type # "cancel"
  <2>1. PICK a : a = IF canReject(s) THEN "ended" ELSE s.place
    OBVIOUS
  <2>2. PICK u : u = [s EXCEPT !.expectedEvent = "none", !.place = a]
    OBVIOUS
  <2>3. /\ u \in State /\ Like(s, u) /\ u.gotMAC = s.gotMAC /\ u.place = a /\ u.confirmed = s.confirmed
        /\ u.expectedEvent = "none"
    BY <1>1, <2>1, <2>2 DEF State, Like, Places
  <2>4. u.place = "checking" => u.confirmed = "yes" /\ u.gotMAC
    BY <2>1, <2>3 DEF Good, Sound
  <2>5. Good(p, u, k) /\ Same(p, s, u)
    BY <1>1, <2>1, <2>3, <2>4, Moves DEF Late, Early
  <2>6. PICK c : c = verifierCancel(p, u)
    OBVIOUS
  <2>7. Good(p, c, k) /\ Same(p, u, c)
    BY <2>5, <2>6, Cancels
  <2>8. Same(p, s, c)
    BY <2>5, <2>7, SameAgain
  <2> QED BY <1>5, <2>1, <2>2, <2>6, <2>7, <2>8, SameSelf DEF verifierHandleEvent
<1> QED BY <1>2, <1>3, <1>4, <1>5

\* The request is cancelled.
LEMMA RequestCancels ==
  ASSUME NEW p \in Parties, NEW s, NEW k, Good(p, s, k), NEW t, t = requestCancel(p, s)
  PROVE  Good(p, t, k) /\ Same(p, s, t)
<1>1. PICK u : u = send(p, s, "cancel")
  OBVIOUS
<1>2. Good(p, u, k) /\ Same(p, s, u)
  BY <1>1, Sends DEF Types
<1> QED BY <1>1, <1>2, SameSelf, Cancels DEF requestCancel

\* What an event may be: one of the device's own that is answered, or one that comes.
OwnEvent(p, s, m, k) ==
  /\ m.type = "start" => s.deviceId # None /\ s.place \notin Early
  /\ m.type = "done" => "verified" \in k
  /\ m.type = "request" => p = Initiator

TheirEvent(p, s, m, k) ==
  /\ m.start \in Starts
  /\ m.type \in {"start", "accept", "key", "mac"} => "chosen" \in k
  /\ m.type = "mac" => "confirmed" \in k
  /\ m.type \in {"request", "ready", "start"} => s.deviceId # None
  /\ m.type = "start" => m.from = s.deviceId /\ "begun" \in k
  /\ m.type = "accept" /\ m.start = p => "follows" \in k

\* An event of either side is noted.
LEMMA Notes ==
  ASSUME NEW p \in Parties, NEW s, NEW k, Good(p, s, k), NEW m, NEW us \in BOOLEAN, m.type \in Types,
         us => OwnEvent(p, s, m, k),
         ~us => TheirEvent(p, s, m, k) /\ m.type \notin s.eventsByThem,
         NEW t, t = addEvent(s, m, us)
  PROVE  /\ Good(p, t, k) /\ Near(p, s, t) /\ t.cancelled = s.cancelled /\ t.out = s.out
         /\ t.phase = s.phase
         /\ us => t.eventsByUs = s.eventsByUs \cup {m.type} /\ t.eventsByThem = s.eventsByThem
         /\ ~us => t.eventsByThem = s.eventsByThem \cup {m.type} /\ t.eventsByUs = s.eventsByUs
<1>1. s \in State
  BY DEF Good
<1>2. PICK c \in Starts : c = IF ~us /\ m.type = "accept" THEN m.start ELSE s.commitment
  BY <1>1 DEF State, TheirEvent
<1>3. /\ t \in State /\ t.gotMAC = s.gotMAC /\ t.place = s.place /\ t.confirmed = s.confirmed
      /\ t.devices = s.devices /\ t.deviceId = s.deviceId
      /\ t.eventsByUs = (IF us THEN s.eventsByUs \cup {m.type} ELSE s.eventsByUs)
      /\ t.eventsByThem = (IF us THEN s.eventsByThem ELSE s.eventsByThem \cup {m.type})
      /\ t.phase = s.phase /\ t.verifierHasFinished = s.verifierHasFinished
      /\ t.startEvent = s.startEvent /\ t.out = s.out
      /\ t.commitment = c /\ t.cancelled = s.cancelled
      /\ t.expectedEvent = s.expectedEvent /\ t.waitingForAccept = s.waitingForAccept
  <2>1. CASE us
    <3>1. PICK es \in SUBSET Types : es = s.eventsByUs \cup {m.type}
      BY <1>1 DEF State
    <3>2. t = [s EXCEPT !.eventsByUs = es]
      BY <2>1, <3>1 DEF addEvent
    <3>3. /\ t.gotMAC = s.gotMAC /\ t.place = s.place /\ t.confirmed = s.confirmed
          /\ t.devices = s.devices /\ t.deviceId = s.deviceId
          /\ t.eventsByUs = es /\ t.eventsByThem = s.eventsByThem
          /\ t.phase = s.phase /\ t.verifierHasFinished = s.verifierHasFinished
          /\ t.startEvent = s.startEvent /\ t.out = s.out
          /\ t.commitment = s.commitment /\ t.cancelled = s.cancelled
          /\ t.expectedEvent = s.expectedEvent /\ t.waitingForAccept = s.waitingForAccept
      BY <1>1, <3>2, ZenonT(30) DEF State
    <3>4. t \in State
      BY <1>1, <3>2, ZenonT(30) DEF State
    <3>5. s.commitment = c
      BY <1>2, <2>1
    <3> QED BY <2>1, <3>1, <3>3, <3>4, <3>5
  <2>2. CASE ~us
    <3>1. PICK es \in SUBSET Types : es = s.eventsByThem \cup {m.type}
      BY <1>1 DEF State
    <3>2. t = [s EXCEPT !.eventsByThem = es, !.commitment = c]
      BY <1>2, <2>2, <3>1 DEF addEvent
    <3>3. /\ t.gotMAC = s.gotMAC /\ t.place = s.place /\ t.confirmed = s.confirmed
          /\ t.devices = s.devices /\ t.deviceId = s.deviceId
          /\ t.eventsByUs = s.eventsByUs /\ t.eventsByThem = es
          /\ t.phase = s.phase /\ t.verifierHasFinished = s.verifierHasFinished
          /\ t.startEvent = s.startEvent /\ t.out = s.out
          /\ t.commitment = c /\ t.cancelled = s.cancelled
          /\ t.expectedEvent = s.expectedEvent /\ t.waitingForAccept = s.waitingForAccept
      BY <1>1, <3>2, ZenonT(30) DEF State
    <3>4. t \in State
      BY <1>1, <3>2, ZenonT(30) DEF State
    <3> QED BY <2>2, <3>1, <3>3, <3>4
  <2> QED BY <2>1, <2>2
<1>4. Sound(p, t, k)
  BY <1>3 DEF Good, Sound, OwnEvent, TheirEvent
<1>5. s.commitment = p => c = p
  BY <1>2, <1>3 DEF Good, Fit
<1>6. c = p => "follows" \in k /\ "accept" \in t.eventsByThem
  BY <1>2, <1>3 DEF Good, Fit, TheirEvent
<1>7. Fit(p, t, k)
  BY <1>3, <1>5, <1>6 DEF Good, Fit, Settled, OwnEvent, TheirEvent
<1>8. Near(p, s, t)
  BY <1>3 DEF Near, Begun
<1>9. \A n \in t.out : Genuine(p, n, t, k) /\ ~n.delivered
  BY <1>3, <1>8, GenuineStays DEF Good
<1>10. Good(p, t, k)
  BY <1>3, <1>4, <1>7, <1>9 DEF Good
<1> QED BY <1>3, <1>8, <1>10

\* The verifier turns to another start event.
LEMMA Switches ==
  ASSUME NEW p \in Parties, NEW s, NEW k, Good(p, s, k), s.place # "none", NEW m,
         m.from = s.deviceId, s.deviceId # None, Smaller(m.from, p), s.startEvent = None,
         "start" \in s.eventsByThem, NEW t, t = switchStartEvent(p, s, m)
  PROVE  Good(p, t, k) /\ Same(p, s, t)
<1>1. s \in State /\ m.from \in Starts /\ "chosen" \in k /\ s.deviceId \in Peers(p)
  BY DEF Good, Sound, State, Starts
<1>2. PICK u : u = [s EXCEPT !.startEvent = m.from]
  OBVIOUS
<1>3. /\ u \in State /\ u.gotMAC = s.gotMAC /\ u.place = s.place /\ u.confirmed = s.confirmed
      /\ u.devices = s.devices /\ u.deviceId = s.deviceId /\ u.eventsByThem = s.eventsByThem
      /\ u.eventsByUs = s.eventsByUs /\ u.phase = s.phase /\ u.startEvent = s.deviceId
      /\ u.verifierHasFinished = s.verifierHasFinished /\ u.out = s.out
      /\ u.commitment = s.commitment /\ u.cancelled = s.cancelled
      /\ u.expectedEvent = s.expectedEvent /\ u.waitingForAccept = s.waitingForAccept
  BY <1>1, <1>2 DEF State
<1>4. Sound(p, u, k) /\ Fit(p, u, k)
  BY <1>1, <1>3 DEF Good, Sound, Fit, Settled
<1>5. ~Smaller(p, s.deviceId)
  BY <1>1, Sorted
<1>6. Near(p, s, u) /\ Announces(s, u)
  BY <1>3, <1>5 DEF Near, Announces, Begun
<1>7. \A n \in u.out : Genuine(p, n, u, k) /\ ~n.delivered
  BY <1>3, <1>6, GenuineStays DEF Good
<1>8. Good(p, u, k)
  BY <1>3, <1>4, <1>7 DEF Good
<1>9. Same(p, s, u)
  BY <1>3, <1>6, ClosedAs DEF Same
<1>10. PICK w : w = [u EXCEPT !.waitingForAccept = FALSE]
  OBVIOUS
<1>11. w \in State /\ Like(u, w) /\ w.gotMAC = u.gotMAC /\ w.place = u.place /\ w.expectedEvent = u.expectedEvent
  BY <1>3, <1>10 DEF State, Like
<1>12. Good(p, w, k) /\ Same(p, u, w) /\ w.startEvent # None
  BY <1>3, <1>8, <1>11, Stays DEF Like
<1>13. PICK x : x = doRespondVerification(p, w)
  OBVIOUS
<1>14. Good(p, x, k) /\ Same(p, w, x)
  BY <1>1, <1>12, <1>13, KeyGoes
<1>15. Same(p, s, x)
  BY <1>9, <1>12, <1>14, SameAgain
<1> QED BY <1>2, <1>8, <1>9, <1>10, <1>13, <1>14, <1>15 DEF switchStartEvent

\* The verifier is told of an event.
LEMMA Hears ==
  ASSUME NEW p \in Parties, NEW s, NEW k, Good(p, s, k), NEW m, NEW echo \in BOOLEAN,
         echo => m.from = p,
         ~echo => m.type \in s.eventsByThem /\ (m.type = "start" => m.from = s.deviceId),
         NEW t, t = tellVerifier(p, s, m, echo)
  PROVE  Good(p, t, k) /\ Same(p, s, t)
<1>1. s.place = "none" => t = s
  BY DEF tellVerifier
<1>2. CASE s.place # "none" /\ isWinningStartRace(p, s, m) /\ s.waitingForAccept
  <2>1. s.deviceId # None /\ s.deviceId \in Peers(p)
    BY <1>2 DEF Good, Sound
  <2>2. m.type = "start" /\ Smaller(m.from, Starter(p, s))
    BY <1>2 DEF isWinningStartRace
  <2>3. s.startEvent = None
    <3>1. CASE s.startEvent # None
      <4>1. Starter(p, s) = s.deviceId /\ Smaller(s.deviceId, p)
        BY <1>2, <3>1 DEF Starter, Good, Fit
      <4>2. ~Smaller(p, s.deviceId) /\ ~Smaller(s.deviceId, s.deviceId)
        BY <2>1, <4>1, Sorted DEF Smaller
      <4> QED BY <2>2, <4>1, <4>2
    <3> QED BY <3>1
  <2>4. Starter(p, s) = p
    BY <2>3 DEF Starter
  <2>5. ~echo
    BY <2>2, <2>4 DEF Smaller
  <2>6. m.from = s.deviceId /\ "start" \in s.eventsByThem
    BY <2>2, <2>5
  <2>7. t = switchStartEvent(p, s, m)
    BY <1>2 DEF tellVerifier
  <2> QED BY <1>2, <2>1, <2>2, <2>3, <2>4, <2>6, <2>7, Switches
<1>3. CASE /\ s.place # "none" /\ ~(isWinningStartRace(p, s, m) /\ s.waitingForAccept)
           /\ ~echo /\ m.type \in {"accept", "key", "mac", "cancel"}
  <2>1. t = verifierHandleEvent(p, s, m.type)
    BY <1>3 DEF tellVerifier
  <2> QED BY <1>3, <2>1, VerifierHears
<1> QED BY <1>1, <1>2, <1>3, SameSelf DEF tellVerifier

\* The request handles an event.
LEMMA Handles ==
  ASSUME NEW p \in Parties, NEW s, NEW k, Good(p, s, k), NEW m, NEW echo \in BOOLEAN,
         m.type \in Types, echo => m.from = p /\ OwnEvent(p, s, m, k), ~echo => TheirEvent(p, s, m, k),
         NEW t, t = handleEvent(p, s, m, echo)
  PROVE  /\ Good(p, t, k) /\ Near(p, s, t) /\ Announces(s, t)
         /\ echo => t.eventsByUs \subseteq s.eventsByUs \cup {m.type} /\ t.eventsByThem = s.eventsByThem
         /\ ~echo => t.eventsByThem \subseteq s.eventsByThem \cup {m.type} /\ t.eventsByUs = s.eventsByUs
         /\ Closed(p, s) => Closed(p, t) /\ (Over(s) \/ m.type = "cancel" => Over(t))
<1>1. Same(p, s, s)
  BY SameSelf
<1>2. PICK e : e = addEvent(s, m, echo)
  OBVIOUS
<1>3. PICK f : f = applyPhaseTransitions(p, e)
  OBVIOUS
<1>4. PICK g : g = setupTimeout(s.phase, f)
  OBVIOUS
<1>5. PICK x : x = tellVerifier(p, g, m, echo)
  OBVIOUS
<1>6. PICK c : c = requestCancel(p, s)
  OBVIOUS
<1>7. t = IF Over(s) THEN s
          ELSE IF ~echo /\ isUnexpected(s, m.type) THEN c
          ELSE IF m.type \in (IF echo THEN s.eventsByUs ELSE s.eventsByThem) THEN s
          ELSE x
  BY <1>2, <1>3, <1>4, <1>5, <1>6 DEF handleEvent, Over
<1>8. CASE t = s /\ (Over(s) \/ m.type \in s.eventsByUs \cup s.eventsByThem)
  <2>1. Closed(p, s) /\ m.type = "cancel" => Over(s)
    BY <1>8 DEF Closed, OwnCancel
  <2> QED BY <1>1, <1>8, <2>1 DEF Same
<1>9. CASE t = c /\ isUnexpected(s, m.type)
  <2>1. Good(p, c, k) /\ Same(p, s, c)
    BY <1>6, RequestCancels
  <2>2. m.type # "cancel"
    BY <1>9 DEF isUnexpected
  <2> QED BY <1>9, <2>1, <2>2 DEF Same
<1>10. CASE t = x /\ m.type \notin (IF echo THEN s.eventsByUs ELSE s.eventsByThem)
  <2>1. /\ Good(p, e, k) /\ Near(p, s, e) /\ e.cancelled = s.cancelled /\ e.out = s.out
        /\ echo => e.eventsByUs = s.eventsByUs \cup {m.type} /\ e.eventsByThem = s.eventsByThem
        /\ ~echo => e.eventsByThem = s.eventsByThem \cup {m.type} /\ e.eventsByUs = s.eventsByUs
        /\ e.phase = s.phase
    BY <1>2, <1>10, Notes
  <2>2. Good(p, f, k) /\ Same(p, e, f) /\ Closed(p, f)
    BY <1>3, <2>1, Applies
  <2>3. Good(p, g, k) /\ Same(p, f, g)
    <3>1. PICK y \in BOOLEAN : y = (f.phase = "Requested")
      OBVIOUS
    <3>2. PICK w : w = [f EXCEPT !.timeoutTimer = y]
      OBVIOUS
    <3>3. w \in State /\ Like(f, w) /\ w.gotMAC = f.gotMAC /\ w.place = f.place /\ w.expectedEvent = f.expectedEvent
      BY <2>2, <3>2 DEF Good, State, Like
    <3>4. Good(p, w, k) /\ Same(p, f, w)
      BY <2>2, <3>3, Stays
    <3>5. g = f \/ g = w
      BY <1>4, <3>1, <3>2 DEF setupTimeout
    <3> QED BY <2>2, <3>4, <3>5, SameSelf
  <2>4. g.eventsByThem = e.eventsByThem /\ g.eventsByUs = e.eventsByUs /\ g.deviceId = s.deviceId
    BY <2>1, <2>2, <2>3 DEF Same, Near
  <2>5. Good(p, x, k) /\ Same(p, g, x)
    <3>1. ~echo => m.type \in g.eventsByThem /\ (m.type = "start" => m.from = g.deviceId)
      BY <2>1, <2>4 DEF TheirEvent
    <3> QED BY <1>5, <2>3, <3>1, Hears
  <2>6. Same(p, e, x)
    BY <2>2, <2>3, <2>5, SameAgain
  <2>7. Near(p, s, x)
    BY <2>1, <2>6, NearAgain DEF Same
  <2>8. Announces(s, x)
    BY <2>1, <2>6 DEF Same, Announces
  <2>9. Closed(p, x) /\ (Over(f) => Over(x))
    BY <2>2, <2>3, <2>5 DEF Same
  <2>10. m.type = "cancel" => Over(f)
    BY <2>1, <2>2 DEF Same, Closed, OwnCancel
  <2>11. Closed(p, s) /\ Over(s) => Over(x)
    <3>1. CASE Over(s)
      BY <1>1, <1>7, <1>10, <3>1
    <3> QED BY <3>1
  <2>12. x.eventsByUs = e.eventsByUs /\ x.eventsByThem = e.eventsByThem
    BY <2>6 DEF Same
  <2> QED BY <1>10, <2>1, <2>5, <2>7, <2>8, <2>9, <2>10, <2>11, <2>12
<1> QED BY <1>7, <1>8, <1>9, <1>10

\* The verifier is done.
LEMMA Finishes ==
  ASSUME NEW p \in Parties, NEW s, NEW k, Good(p, s, k), "verified" \in k, s.deviceId # None,
         NEW t, t = verifierDone(p, s)
  PROVE  Good(p, t, k) /\ Same(p, s, t)
<1>1. s \in State
  BY DEF Good
<1>2. CASE s.done
  <2>1. PICK u : u = [s EXCEPT !.timer = FALSE, !.place = "ended"]
    OBVIOUS
  <2>2. u \in State /\ Like(s, u) /\ u.gotMAC = s.gotMAC /\ u.place = "ended" /\ u.expectedEvent = s.expectedEvent
    BY <1>1, <2>1 DEF State, Like, Places
  <2>3. Good(p, u, k) /\ Same(p, s, u)
    BY <2>2, Moves DEF Late, Early
  <2> QED BY <1>2, <2>1, <2>3 DEF verifierDone
<1>3. CASE ~s.done
  <2>1. PICK u : u = [s EXCEPT !.timer = FALSE, !.place = "ended", !.done = TRUE, !.verifierHasFinished = TRUE]
    OBVIOUS
  <2>2. /\ u \in State /\ u.gotMAC = s.gotMAC /\ u.place = "ended" /\ u.confirmed = s.confirmed
        /\ u.devices = s.devices /\ u.deviceId = s.deviceId /\ u.eventsByThem = s.eventsByThem
        /\ u.eventsByUs = s.eventsByUs /\ u.phase = s.phase
        /\ u.startEvent = s.startEvent /\ u.out = s.out
        /\ u.commitment = s.commitment /\ u.cancelled = s.cancelled
        /\ u.expectedEvent = s.expectedEvent /\ u.waitingForAccept = s.waitingForAccept
        /\ u.verifierHasFinished
    BY <1>1, <2>1 DEF State, Places
  <2>3. Sound(p, u, k) /\ Fit(p, u, k) /\ Near(p, s, u)
    BY <2>2 DEF Good, Sound, Fit, Settled, Near, Begun, Late, Early
  <2>4. Good(p, u, k)
    BY <2>2, <2>3, GenuineStays DEF Good
  <2>5. PICK w : w = send(p, u, "done")
    OBVIOUS
  <2>6. Good(p, w, k) /\ Same(p, u, w) /\ w.verifierHasFinished
    BY <2>2, <2>4, <2>5, Sends DEF Types
  <2>7. t = applyPhaseTransitions(p, w)
    BY <1>3, <2>1, <2>5 DEF verifierDone
  <2>8. Good(p, t, k) /\ Same(p, w, t) /\ Closed(p, t) /\ (isDone(p, w) => t.phase = "Done")
    BY <2>6, <2>7, Applies
  <2>9. Near(p, s, t)
    BY <2>3, <2>6, <2>8, NearAgain DEF Same
  <2>10. Over(t)
    BY <2>6, <2>8 DEF isDone, Over
  <2>11. t.eventsByUs = s.eventsByUs /\ t.eventsByThem = s.eventsByThem
    BY <2>2, <2>6, <2>8 DEF Same
  <2>12. Announces(s, t)
    BY <2>2, <2>6, <2>8 DEF Same, Announces, Near
  <2> QED BY <2>8, <2>9, <2>10, <2>11, <2>12 DEF Same
<1> QED BY <1>2, <1>3

\* What the record says stays true when more has happened on the other side.
LEMMA Monotone ==
  ASSUME NEW p, NEW s, NEW k, Good(p, s, k), NEW k2, k \subseteq k2, "chosen" \in k2 => s.deviceId # None
  PROVE  Good(p, s, k2)
<1>1. Sound(p, s, k2) /\ Fit(p, s, k2)
  BY DEF Good, Sound, Fit
<1>2. \A m \in s.out : Genuine(p, m, s, k2) /\ ~m.delivered
  BY DEF Good, Genuine
<1> QED BY <1>1, <1>2 DEF Good

\* A device never changes its partner or takes a confirmation back; it goes on sending a
\* start event, and following one.
Kept(p, s, t) ==
  /\ IF s.deviceId # None THEN t.deviceId = s.deviceId ELSE t.deviceId \in {None} \cup t.devices
  /\ s.devices # {} => t.devices = s.devices
  /\ s.confirmed # "no" => t.confirmed # "no"
  /\ s.confirmed = "yes" => t.confirmed = "yes"
  /\ Begun(p, s) => Begun(p, t)
  /\ s.startEvent # None => t.startEvent = s.startEvent

\* The messages of p that leave the wire have been answered, or have failed.
Answers(p, t) ==
  \A m \in net \ net' :
    /\ m.from = p
    /\ used'.failures = 0 => m.delivered /\ (m.type = "cancel" /\ m.echo => Over(t))

\* At most the first message of the inbox is read, and perhaps taken.
Reads(p, t) ==
  LET s == side[p]
      m == Head(inbox[p])
  IN \/ inbox' = inbox /\ t.eventsByThem = s.eventsByThem
     \/ /\ inbox[p] # <<>> /\ inbox' \in {inbox, [inbox EXCEPT ![p] = Tail(@)]}
        /\ t.eventsByThem \subseteq s.eventsByThem \cup {m.type}
        /\ m.type = "request" => t.devices # {}
        /\ m.type = "cancel" /\ s.devices # {} => Over(t)

\* A step of the device p, whose record is t at the end of the callback.
Turn(p, t) ==
  LET s == side[p]
  IN /\ Good(p, t, Of(p, t.deviceId) \cup {f \in {"verified"} : p \in verified'})
     /\ Kept(p, s, t) /\ Announces(s, t) /\ (t.devices = {} => t = s)
     /\ Closed(p, t) /\ (Over(s) => Over(t)) /\ Whole(p, t)
     /\ \A e \in t.eventsByUs \ s.eventsByUs : \E m \in net : m.from = p /\ m.echo /\ m.type = e
     /\ \A m \in t.out : m.type = "request" => p = Initiator /\ s.devices = {}
     /\ side' = [side EXCEPT ![p] = [t EXCEPT !.out = {}]]
     /\ net' \subseteq net \cup t.out /\ t.out \subseteq net' /\ Answers(p, t)
     /\ Reads(p, t)
     /\ verified' \in {verified, verified \cup {p}}
     /\ p \in verified' => t.confirmed = "yes" /\ HeardOf(p, t.deviceId)
     /\ Counted' /\ (used.failures # 0 => used'.failures # 0)

\* What the inboxes hold stays true of those that remain.
LEMMA Dequeues ==
  ASSUME VerInv, NEW p \in Parties,
         inbox' = inbox \/ (inbox[p] # <<>> /\ inbox' = [inbox EXCEPT ![p] = Tail(@)])
  PROVE  /\ inbox' \in [Parties -> Seq([from : Parties, type : Types, start : Starts])]
         /\ \A q \in Parties : \A i \in DOMAIN inbox'[q] : InInbox(q, inbox'[q][i])
<1>1. /\ inbox \in [Parties -> Seq([from : Parties, type : Types, start : Starts])]
      /\ \A q \in Parties : \A i \in DOMAIN inbox[q] : InInbox(q, inbox[q][i])
  BY DEF VerInv
<1>2. CASE inbox' = inbox
  BY <1>1, <1>2
<1>3. CASE inbox[p] # <<>> /\ inbox' = [inbox EXCEPT ![p] = Tail(@)]
  <2>1. PICK M : M = [from : Parties, type : Types, start : Starts]
    OBVIOUS
  <2>2. PICK l : l = inbox[p]
    OBVIOUS
  <2>3. l \in Seq(M) /\ l # <<>>
    BY <1>1, <1>3, <2>1, <2>2
  <2>4. Tail(l) \in Seq(M) /\ \A i \in DOMAIN Tail(l) : i + 1 \in DOMAIN l /\ Tail(l)[i] = l[i + 1]
    BY <2>3
  <2>5. inbox' \in [Parties -> Seq(M)] /\ inbox'[p] = Tail(l) /\ \A q \in Parties : q # p => inbox'[q] = inbox[q]
    BY <1>1, <1>3, <2>1, <2>2, <2>4
  <2>6. \A i \in DOMAIN Tail(l) : InInbox(p, Tail(l)[i])
    BY <1>1, <2>2, <2>4
  <2>7. ASSUME NEW q \in Parties, NEW i \in DOMAIN inbox'[q] PROVE InInbox(q, inbox'[q][i])
    BY <1>1, <2>5, <2>6
  <2> QED BY <2>1, <2>5, <2>7
<1> QED BY <1>2, <1>3

\* A record that differs from another in nothing Good and Closed speak of.
Copy(t, r) ==
  /\ r.eventsByUs = t.eventsByUs /\ r.eventsByThem = t.eventsByThem /\ r.phase = t.phase
  /\ r.verifierHasFinished = t.verifierHasFinished /\ r.cancelled = t.cancelled /\ r.devices = t.devices
  /\ r.deviceId = t.deviceId /\ r.place = t.place /\ r.startEvent = t.startEvent
  /\ r.expectedEvent = t.expectedEvent /\ r.waitingForAccept = t.waitingForAccept
  /\ r.commitment = t.commitment /\ r.gotMAC = t.gotMAC /\ r.confirmed = t.confirmed

\* What a device's step does to the records.
LEMMA TurnSides ==
  ASSUME VerInv, NEW p \in Parties, NEW t, Turn(p, t)
  PROVE  /\ side' \in [Parties -> State] /\ \A q \in Parties : q # p => side'[q] = side[q]
         /\ side'[p] = [t EXCEPT !.out = {}] /\ t \in State
         /\ Copy(t, side'[p])
         /\ side'[p].out = {}
<1>1. t \in State /\ side \in [Parties -> State]
  BY DEF Turn, Good, VerInv
<1>2. PICK r : r = [t EXCEPT !.out = {}]
  OBVIOUS
<1>3. r \in State /\ r.out = {}
  BY <1>1, <1>2 DEF State
<1>4. Copy(t, r)
  BY <1>1, <1>2 DEF State, Copy
<1>5. side' = [side EXCEPT ![p] = r]
  BY <1>2 DEF Turn
<1>6. side' \in [Parties -> State] /\ side'[p] = r /\ \A q \in Parties : q # p => side'[q] = side[q]
  BY <1>1, <1>3, <1>5
<1> QED BY <1>1, <1>2, <1>3, <1>4, <1>6

\* What is true of a record is true of its copy.
LEMMA Copies ==
  ASSUME NEW p, NEW t, NEW r \in State, Copy(t, r)
  PROVE  /\ \A k : Good(p, t, k) /\ r.out = {} => Good(p, r, k)
         /\ \A m, k : Genuine(p, m, t, k) => Genuine(p, m, r, k)
         /\ Begun(p, t) = Begun(p, r) /\ Over(t) = Over(r) /\ OwnCancel(t) = OwnCancel(r)
         /\ (Closed(p, t) => Closed(p, r)) /\ Whole(p, t) = Whole(p, r)
<1>1. Begun(p, t) = Begun(p, r) /\ Over(t) = Over(r) /\ OwnCancel(t) = OwnCancel(r)
  BY DEF Copy, Begun, Over, OwnCancel
<1>2. ASSUME NEW k, Good(p, t, k), r.out = {} PROVE Good(p, r, k)
  <2>1. Sound(p, r, k)
    BY <1>2 DEF Copy, Good, Sound
  <2>2. Fit(p, r, k)
    BY <1>2 DEF Copy, Good, Fit, Settled
  <2> QED BY <1>2, <2>1, <2>2 DEF Good
<1>3. \A m, k : Genuine(p, m, t, k) => Genuine(p, m, r, k)
  BY <1>1 DEF Copy, Genuine
<1>4. Closed(p, t) => Closed(p, r)
  BY ClosedAs DEF Copy
<1>5. Whole(p, t) = Whole(p, r)
  BY DEF Copy, Whole
<1> QED BY <1>1, <1>2, <1>3, <1>4, <1>5

\* What is true of its partner stays true when a device goes on.
LEMMA KnownStays ==
  ASSUME VerInv, NEW p \in Parties, NEW t, Turn(p, t)
  PROVE  /\ Known(p)' = Of(p, t.deviceId) \cup {f \in {"verified"} : p \in verified'}
         /\ Known(p) \subseteq Known(p)'
         /\ \A q \in Parties : q # p => Known(q) \subseteq Known(q)'
<1>1. /\ side' \in [Parties -> State] /\ \A q \in Parties : q # p => side'[q] = side[q]
      /\ Copy(t, side'[p]) /\ t \in State
  BY TurnSides
<1>2. Begun(p, t) = Begun(p, side'[p])
  BY <1>1, Copies
<1>3. side[p].deviceId \in Peers(p) \cup {None} /\ t.deviceId \in Peers(p) \cup {None}
  BY DEF VerInv, Good, Sound, Turn
<1>4. \A x : x \in Peers(p) \cup {None} => Of(p, x)' = Of(p, x)
  BY <1>1, PeerFacts DEF Of, Chosen
<1>5. side'[p].deviceId = t.deviceId
  BY <1>1 DEF Copy
<1>6. Known(p)' = Of(p, t.deviceId) \cup {f \in {"verified"} : p \in verified'}
  <2>1. Known(p)' = Of(p, t.deviceId)' \cup {f \in {"verified"} : p \in verified'}
    BY <1>5 DEF Known, Of, Chosen
  <2> QED BY <1>3, <1>4, <2>1
<1>7. verified \subseteq verified'
  BY DEF Turn
<1>8. Known(p) \subseteq Known(p)'
  <2>1. CASE side[p].deviceId = None
    <3>1. Of(p, side[p].deviceId) = {}
      BY <2>1 DEF Of, Chosen
    <3> QED BY <1>6, <1>7, <3>1 DEF Known
  <2>2. CASE side[p].deviceId # None
    <3>1. t.deviceId = side[p].deviceId
      BY <2>2 DEF Turn, Kept
    <3> QED BY <1>6, <1>7, <3>1 DEF Known
  <2> QED BY <2>1, <2>2
<1>9. ASSUME NEW q \in Parties, q # p PROVE Known(q) \subseteq Known(q)'
  <2>1. side'[q] = side[q] /\ side[q].deviceId \in Peers(q) \cup {None}
    BY <1>1, <1>9 DEF VerInv, Good, Sound
  <2>2. CASE side[q].deviceId # p
    <3>1. side[q].deviceId # None => side'[side[q].deviceId] = side[side[q].deviceId]
      BY <1>1, <2>1, <2>2, <1>9, PeerFacts
    <3> QED BY <1>7, <2>1, <3>1 DEF Known, Of, Chosen
  <2>3. CASE side[q].deviceId = p
    <3>1. side[p].deviceId = q => t.deviceId = q
      <4>1. q # None
        BY <1>9, PeerFacts
      <4> QED BY <4>1 DEF Turn, Kept
    <3>2. /\ side[p].confirmed # "no" => t.confirmed # "no"
          /\ Begun(p, side[p]) => Begun(p, t)
          /\ side[p].startEvent = q => t.startEvent = q
      <4>1. q # None
        BY <1>9, PeerFacts
      <4> QED BY <4>1 DEF Turn, Kept
    <3>3. /\ side'[p].deviceId = t.deviceId /\ side'[p].confirmed = t.confirmed
          /\ side'[p].startEvent = t.startEvent
      BY <1>1 DEF Copy
    <3>4. Of(q, p) \subseteq Of(q, p)'
      BY <1>2, <3>1, <3>2, <3>3 DEF Of, Chosen
    <3> QED BY <1>7, <2>1, <2>3, <3>4 DEF Known, Of, Chosen
  <2> QED BY <2>2, <2>3
<1> QED BY <1>6, <1>8, <1>9

\* What is known of the partner, in words.
LEMMA KnownTells ==
  ASSUME NEW p
  PROVE  /\ Bonded(p) <=> "chosen" \in Known(p)
         /\ Heard(p) <=> "confirmed" \in Known(p)
         /\ Bonded(p)' <=> "chosen" \in Known(p)'
         /\ Heard(p)' <=> "confirmed" \in Known(p)'
<1>1. Bonded(p) <=> "chosen" \in Known(p)
  BY DEF Bonded, Known, Of
<1>2. Heard(p) <=> "confirmed" \in Known(p)
  BY DEF Heard, HeardOf, Known, Of
<1>3. Bonded(p)' <=> "chosen" \in Known(p)'
  BY DEF Bonded, Known, Of
<1>4. Heard(p)' <=> "confirmed" \in Known(p)'
  BY DEF Heard, HeardOf, Known, Of
<1> QED BY <1>1, <1>2, <1>3, <1>4

\* A message stays genuine when a device goes on.
LEMMA WireStays ==
  ASSUME VerInv, NEW p \in Parties, NEW t, Turn(p, t), NEW m \in net'
  PROVE  OnTheWire(m)'
<1>1. /\ side' \in [Parties -> State] /\ \A q \in Parties : q # p => side'[q] = side[q]
      /\ Copy(t, side'[p]) /\ t \in State
  BY TurnSides
<1>2. /\ Known(p)' = Of(p, t.deviceId) \cup {f \in {"verified"} : p \in verified'}
      /\ \A q \in Parties : Known(q) \subseteq Known(q)'
  BY KnownStays
<1>3. CASE m \in t.out
  <2>1. m \in Wire /\ Genuine(p, m, t, Known(p)')
    <3>1. PICK k : k = Known(p)'
      OBVIOUS
    <3>2. Good(p, t, k)
      BY <1>2, <3>1 DEF Turn
    <3>3. m \in Wire
      BY <1>1, <1>3 DEF State
    <3> QED BY <1>3, <3>1, <3>2, <3>3 DEF Good
  <2>2. Genuine(p, m, side'[p], Known(p)') /\ m.from = p
    <3>1. PICK r \in State : r = side'[p]
      BY <1>1
    <3>2. PICK k : k = Known(p)'
      OBVIOUS
    <3>3. Genuine(p, m, t, k) /\ Copy(t, r)
      BY <1>1, <2>1, <3>1, <3>2
    <3>4. Genuine(p, m, r, k)
      BY <3>3, Copies
    <3> QED BY <2>1, <3>1, <3>2, <3>4 DEF Genuine
  <2> QED BY <2>1, <2>2 DEF OnTheWire
<1>4. CASE m \notin t.out
  <2>1. m \in net /\ m \in Wire /\ Genuine(m.from, m, side[m.from], Known(m.from))
    BY <1>4 DEF Turn, VerInv, OnTheWire
  <2>2. PICK q \in Parties : q = m.from
    BY <2>1 DEF Wire
  <2>3. Genuine(q, m, side[q], Known(q)')
    BY <1>2, <2>1, <2>2 DEF Genuine
  <2>4. CASE q # p
    BY <1>1, <2>1, <2>2, <2>3, <2>4 DEF OnTheWire
  <2>5. CASE q = p
    <3>1. PICK s : s = side[p]
      OBVIOUS
    <3>2. PICK k : k = Known(p)'
      OBVIOUS
    <3>3. Kept(p, s, t) /\ Genuine(p, m, s, k) /\ s.devices # {}
      BY <2>1, <2>2, <2>3, <2>5, <3>1, <3>2 DEF Turn, VerInv, Quiet
    <3>4. IF s.deviceId # None THEN t.deviceId = s.deviceId ELSE t.deviceId \in {None} \cup s.devices
      BY <3>3 DEF Kept
    <3>5. m.from = p /\ m.to \subseteq Peers(p) /\ t.devices = s.devices
      BY <3>3 DEF Genuine, Kept
    <3>6. m.type = "cancel" /\ m.echo => IF t.deviceId = None THEN m.to = t.devices ELSE t.deviceId \in m.to
      BY <3>3, <3>4, <3>5 DEF Genuine
    <3>7. ~m.echo => m.type = "cancel" /\ t.deviceId \notin {None} \cup m.to
      BY <3>3, <3>4 DEF Genuine
    <3>8. /\ m.type \in {"start", "accept", "key", "mac"} => t.deviceId # None /\ m.to = {t.deviceId}
          /\ m.type = "mac" => t.confirmed # "no"
          /\ m.type = "start" => Begun(p, t)
          /\ m.type = "accept" => m.start # None /\ m.start = t.startEvent
      BY <3>3, <3>4 DEF Genuine, Kept
    <3>9. Genuine(p, m, t, k)
      BY <3>3, <3>5, <3>6, <3>7, <3>8 DEF Genuine
    <3>10. Genuine(p, m, side'[p], Known(p)')
      BY <1>1, <3>2, <3>9, Copies
    <3> QED BY <2>1, <2>2, <2>5, <3>10 DEF OnTheWire
  <2> QED BY <2>4, <2>5
<1> QED BY <1>3, <1>4

\* What an inbox holds stays true when a device goes on.
LEMMA InboxStays ==
  ASSUME VerInv, NEW p \in Parties, NEW t, Turn(p, t), NEW q \in Parties, NEW m, InInbox(q, m)
  PROVE  InInbox(q, m)'
<1>1. /\ side' \in [Parties -> State] /\ \A x \in Parties : x # p => side'[x] = side[x]
      /\ Copy(t, side'[p]) /\ t \in State
  BY TurnSides
<1>2. PICK x \in Parties : x = m.from
  BY PeerFacts DEF InInbox
<1>3. \A y \in Parties : Known(y) \subseteq Known(y)'
  BY KnownStays
<1>4. \A y \in Parties : (Bonded(y) <=> "chosen" \in Known(y)) /\ (Bonded(y)' <=> "chosen" \in Known(y)')
  BY KnownTells
<1>5. Bonded(x) => Bonded(x)'
  BY <1>3, <1>4
<1>6. q # None
  BY PeerFacts
<1>7. CASE x # p
  BY <1>1, <1>2, <1>5, <1>7 DEF InInbox
<1>8. CASE x = p
  <2>1. PICK s : s = side[p]
    OBVIOUS
  <2>2. Kept(p, s, t)
    BY <2>1 DEF Turn
  <2>3. s.deviceId = q => t.deviceId = q
    BY <1>6, <2>2 DEF Kept
  <2>4. /\ s.confirmed # "no" => t.confirmed # "no"
        /\ Begun(p, s) => Begun(p, t)
        /\ m.start # None /\ m.start = s.startEvent => m.start = t.startEvent
    BY <2>2 DEF Kept
  <2>5. /\ side'[p].deviceId = t.deviceId /\ side'[p].confirmed = t.confirmed
        /\ side'[p].startEvent = t.startEvent /\ Begun(p, side'[p]) = Begun(p, t)
    BY <1>1, Copies DEF Copy
  <2> QED BY <1>2, <1>5, <1>8, <2>1, <2>3, <2>4, <2>5 DEF InInbox
<1> QED BY <1>7, <1>8

\* The invariant survives a device's step.
LEMMA TurnKeeps ==
  ASSUME VerInv, NEW p \in Parties, NEW t, Turn(p, t)
  PROVE  VerInv'
<1>1. /\ side' \in [Parties -> State] /\ \A q \in Parties : q # p => side'[q] = side[q]
      /\ side'[p] = [t EXCEPT !.out = {}] /\ Copy(t, side'[p]) /\ t \in State /\ side'[p].out = {}
  BY TurnSides
<1>2. /\ Known(p)' = Of(p, t.deviceId) \cup {f \in {"verified"} : p \in verified'}
      /\ \A q \in Parties : Known(q) \subseteq Known(q)'
  BY KnownStays
<1>3. ASSUME NEW q \in Parties PROVE Good(q, side'[q], Known(q)') /\ side'[q].out = {}
  <2>1. PICK k : k = Known(q)'
    OBVIOUS
  <2>2. CASE q = p
    <3>1. Good(p, t, k)
      BY <1>2, <2>1, <2>2 DEF Turn
    <3> QED BY <1>1, <2>1, <2>2, <3>1, Copies
  <2>3. CASE q # p
    <3>1. PICK k0 : k0 = Known(q)
      OBVIOUS
    <3>2. PICK s : s = side[q]
      OBVIOUS
    <3>3. Good(q, s, k0) /\ side'[q] = s /\ s.out = {}
      BY <1>1, <2>3, <3>1, <3>2 DEF VerInv
    <3>4. "chosen" \in k => s.deviceId # None
      BY <2>1, <3>3 DEF Known, Of, Chosen
    <3>5. k0 \subseteq k
      BY <1>2, <2>1, <3>1
    <3>6. Good(q, s, k)
      BY <3>3, <3>4, <3>5, Monotone
    <3> QED BY <2>1, <3>3, <3>6
  <2> QED BY <2>2, <2>3
<1>4. ASSUME NEW q \in Parties PROVE Closed(q, side'[q]) /\ Quiet(q)' /\ Whole(q, side'[q])
  <2>1. CASE q = p
    <3>1. Closed(p, side'[p]) /\ Whole(p, side'[p])
      BY <1>1, Copies DEF Turn
    <3>2. ASSUME side'[p].devices = {} PROVE side'[p] = Fresh /\ \A m \in net' : m.from # p
      <4>1. t = side[p] /\ side[p].devices = {}
        BY <1>1, <3>2 DEF Copy, Turn
      <4>2. side[p] = Fresh /\ (\A m \in net : m.from # p) /\ t.out = {}
        BY <4>1 DEF VerInv, Quiet
      <4>3. [t EXCEPT !.out = {}] = t
        BY <1>1, <4>2 DEF State
      <4> QED BY <1>1, <4>1, <4>2, <4>3 DEF Turn
    <3> QED BY <2>1, <3>1, <3>2 DEF Quiet
  <2>2. CASE q # p
    <3>1. \A m \in t.out : m.from = p
      BY DEF Turn, Good, Genuine
    <3>2. \A m \in net' : m \in net \/ m \in t.out
      BY DEF Turn
    <3>3. side'[q] = side[q] /\ Closed(q, side[q]) /\ Quiet(q) /\ Whole(q, side[q])
      BY <1>1, <2>2 DEF VerInv
    <3>4. Quiet(q)'
      BY <2>2, <3>1, <3>2, <3>3 DEF Quiet
    <3> QED BY <3>3, <3>4
  <2> QED BY <2>1, <2>2
<1>5. ASSUME NEW m \in net' PROVE OnTheWire(m)'
  BY <1>5, WireStays
<1>6. /\ inbox' \in [Parties -> Seq([from : Parties, type : Types, start : Starts])]
      /\ \A q \in Parties : \A i \in DOMAIN inbox'[q] : InInbox(q, inbox'[q][i])
  <2>1. inbox' = inbox \/ (inbox[p] # <<>> /\ inbox' = [inbox EXCEPT ![p] = Tail(@)])
    BY DEF Turn, Reads
  <2> QED BY <2>1, Dequeues
<1>7. ASSUME NEW q \in Parties, NEW i \in DOMAIN inbox'[q] PROVE InInbox(q, inbox[q][i])'
  <2>1. PICK m : m = inbox'[q][i]
    OBVIOUS
  <2>2. InInbox(q, m)
    BY <1>6, <2>1
  <2>3. InInbox(q, m)'
    BY <2>2, InboxStays
  <2> QED BY <2>1, <2>3
<1>8. ASSUME NEW q \in Parties, q \in verified' PROVE side'[q].confirmed = "yes" /\ Heard(q)'
  <2>1. \A x \in Parties : (Heard(x) <=> "confirmed" \in Known(x)) /\ (Heard(x)' <=> "confirmed" \in Known(x)')
    BY KnownTells
  <2>2. CASE q = p
    <3>1. t.confirmed = "yes" /\ HeardOf(p, t.deviceId)
      BY <1>8, <2>2 DEF Turn
    <3>2. "confirmed" \in Known(p)'
      BY <1>2, <3>1 DEF HeardOf, Of
    <3> QED BY <1>1, <2>1, <2>2, <3>1, <3>2 DEF Copy
  <2>3. CASE q # p
    <3>1. q \in verified
      BY <1>8, <2>3 DEF Turn
    <3> QED BY <1>1, <1>2, <2>1, <2>3, <3>1 DEF VerInv
  <2> QED BY <2>2, <2>3
<1>9. \A q \in Parties : \A i \in DOMAIN inbox'[q] : InInbox(q, inbox[q][i])'
  BY <1>7
<1>10. Counted' /\ verified' \subseteq Parties
  BY DEF Turn, VerInv
<1> QED BY <1>1, <1>3, <1>4, <1>5, <1>6, <1>8, <1>9, <1>10 DEF VerInv

\* A trouble is one of the kind, and one more in all.
LEMMA TroubleIs ==
  ASSUME Counted, NEW kind \in {"failures", "stops", "duplicates"}, Trouble(kind)
  PROVE  /\ Counted' /\ used'[kind] = used[kind] + 1
         /\ \A other \in {"failures", "stops", "duplicates"} : other # kind => used'[other] = used[other]
<1>1. PICK f, s, d \in Nat : f = used.failures /\ s = used.stops /\ d = used.duplicates
  BY DEF Counted
<1>2. f + s + d < MaxTroubles
  BY <1>1 DEF Trouble
<1>3. PICK n \in Nat : n = used[kind] + 1
  BY DEF Counted
<1>4. used' = [used EXCEPT ![kind] = n]
  BY <1>3 DEF Trouble
<1>5. /\ used' \in [{"failures", "stops", "duplicates"} -> Nat] /\ used'[kind] = n
      /\ \A other \in {"failures", "stops", "duplicates"} : other # kind => used'[other] = used[other]
  BY <1>4 DEF Counted
<1>6. used'.failures + used'.stops + used'.duplicates = f + s + d + 1
  <2>1. CASE kind = "failures"
    BY <1>1, <1>3, <1>5, <2>1
  <2>2. CASE kind = "stops"
    BY <1>1, <1>3, <1>5, <2>2
  <2>3. CASE kind = "duplicates"
    BY <1>1, <1>3, <1>5, <2>3
  <2> QED BY <2>1, <2>2, <2>3
<1>7. used'.failures + used'.stops + used'.duplicates <= MaxTroubles
  BY <1>1, <1>2, <1>6, VerificationAssumption
<1> QED BY <1>3, <1>5, <1>7 DEF Counted

\* What the troubles are after a step.
LEMMA Counts ==
  ASSUME VerInv, \/ used' = used
                 \/ \E kind \in {"failures", "stops", "duplicates"} : Trouble(kind)
  PROVE  /\ Counted' /\ (used.failures # 0 => used'.failures # 0)
         /\ \/ used'.failures = used.failures
            \/ Trouble("failures") /\ used'.failures # 0
<1>1. Counted
  BY DEF VerInv
<1>2. CASE used' = used
  BY <1>1, <1>2 DEF Counted
<1>3. ASSUME NEW kind \in {"failures", "stops", "duplicates"}, Trouble(kind)
      PROVE  /\ Counted' /\ (used.failures # 0 => used'.failures # 0)
             /\ \/ used'.failures = used.failures
                \/ Trouble("failures") /\ used'.failures # 0
  <2>1. /\ Counted' /\ used'[kind] = used[kind] + 1
        /\ \A other \in {"failures", "stops", "duplicates"} : other # kind => used'[other] = used[other]
    BY <1>1, <1>3, TroubleIs
  <2>2. used.failures \in Nat /\ used.failures + 1 # 0
    BY <1>1 DEF Counted
  <2>3. CASE kind = "failures"
    BY <1>3, <2>1, <2>2, <2>3
  <2>4. CASE kind # "failures"
    BY <2>1, <2>4
  <2> QED BY <2>1, <2>3, <2>4
<1> QED BY <1>2, <1>3

\* What holds of a device's record before a callback.
LEMMA Before ==
  ASSUME VerInv, NEW p \in Parties, NEW s, s = side[p], NEW k, k = Known(p)
  PROVE  /\ Good(p, s, k) /\ s.out = {} /\ s \in State /\ Closed(p, s) /\ Whole(p, s)
         /\ s.devices = {} => s = Fresh
         /\ s.deviceId # None => s.devices # {}
         /\ p \in verified => s.confirmed = "yes" /\ "confirmed" \in k
BY KnownTells DEF VerInv, Quiet, Good, Fresh

\* A callback that chooses no partner is a step.
LEMMA Ordinary ==
  ASSUME VerInv, NEW p \in Parties, NEW s, s = side[p], NEW t, NEW k,
         k = Of(p, s.deviceId) \cup {f \in {"verified"} : p \in verified'},
         Good(p, t, k), Near(p, s, t), Announces(s, t), Closed(p, t), Over(s) => Over(t),
         \A e \in t.eventsByUs \ s.eventsByUs : \E m \in net : m.from = p /\ m.echo /\ m.type = e,
         s.devices # {} \/ t = s,
         side' = [side EXCEPT ![p] = [t EXCEPT !.out = {}]],
         net' \subseteq net \cup t.out, t.out \subseteq net', Answers(p, t), Reads(p, t),
         verified' \in {verified, verified \cup {p}},
         p \in verified' => p \in verified \/ (t.confirmed = "yes" /\ "confirmed" \in k),
         Counted', used.failures # 0 => used'.failures # 0
  PROVE  Turn(p, t)
<1>1. t.deviceId = s.deviceId /\ t.devices = s.devices
  BY DEF Near
<1>2. Kept(p, s, t)
  BY DEF Near, Kept
<1>3. s.out = {} /\ (p \in verified => s.confirmed = "yes" /\ Heard(p))
  BY DEF VerInv
<1>4. \A m \in t.out : m.type = "request" => p = Initiator /\ s.devices = {}
  BY <1>3 DEF Near
<1>5. p \in verified' => t.confirmed = "yes" /\ HeardOf(p, t.deviceId)
  <2>1. p \in verified => t.confirmed = "yes" /\ HeardOf(p, t.deviceId)
    BY <1>1, <1>3 DEF Near, Heard
  <2>2. "confirmed" \in k => HeardOf(p, t.deviceId)
    BY <1>1 DEF Of, HeardOf
  <2> QED BY <2>1, <2>2
<1>6. t.devices = {} => t = s
  BY <1>1
<1>8. Whole(p, t)
  BY <1>1 DEF VerInv, Whole
<1>7. Good(p, t, Of(p, t.deviceId) \cup {f \in {"verified"} : p \in verified'})
  BY <1>1
<1> QED BY <1>2, <1>4, <1>5, <1>6, <1>7, <1>8 DEF Turn

\* The same, for what reads no message, notes no event and verifies nobody.
LEMMA Plain ==
  ASSUME VerInv, NEW p \in Parties, NEW s, s = side[p], NEW t, NEW k, k = Known(p),
         Good(p, t, k), Same(p, s, t), s.devices # {} \/ t = s,
         side' = [side EXCEPT ![p] = [t EXCEPT !.out = {}]],
         net' \subseteq net \cup t.out, t.out \subseteq net', Answers(p, t),
         inbox' = inbox, verified' = verified, Counted', used.failures # 0 => used'.failures # 0
  PROVE  Turn(p, t)
<1>1. Closed(p, s)
  BY DEF VerInv
<1>2. k = Of(p, s.deviceId) \cup {f \in {"verified"} : p \in verified'}
  BY DEF Known
<1>3. /\ Near(p, s, t) /\ Announces(s, t) /\ t.eventsByUs = s.eventsByUs /\ t.eventsByThem = s.eventsByThem
      /\ Closed(p, t) /\ (Over(s) => Over(t))
  BY <1>1 DEF Same
<1>4. Reads(p, t)
  BY <1>3 DEF Reads
<1> QED BY <1>2, <1>3, <1>4, Ordinary

\* What a user or a timer does on a device.
LEMMA UserStep ==
  ASSUME VerInv, NEW p \in Parties,
         \/ accept(p) \/ beginKeyVerification(p) \/ verify(p) \/ confirm(p) \/ mismatch(p)
         \/ cancel(p) \/ cancelOnTimeout(p) \/ verifierTimeout(p)
  PROVE  \E t : Turn(p, t)
<1>1. PICK s : s = side[p]
  OBVIOUS
<1>2. PICK k : k = Known(p)
  OBVIOUS
<1>3. Good(p, s, k) /\ s \in State /\ (s.devices = {} => s = Fresh)
  BY <1>1, <1>2, Before
<1>4. s.devices # {}
  <2>1. s # Fresh
    BY <1>1 DEF accept, beginKeyVerification, verify, confirm, mismatch, cancel, cancelOnTimeout,
                verifierTimeout, Fresh
  <2> QED BY <1>3, <2>1
<1>5. PICK t : Good(p, t, k) /\ Same(p, s, t) /\ Step(p, t) /\ inbox' = inbox /\ verified' = verified
  <2>1. CASE accept(p)
    <3>1. s.deviceId # None /\ s.phase = "Requested" /\ p # Initiator
      BY <1>1, <1>3, <2>1 DEF accept, Good, Sound
    <3>2. PICK t : t = send(p, s, "ready")
      OBVIOUS
    <3>3. Good(p, t, k) /\ Same(p, s, t)
      BY <1>3, <3>1, <3>2, Sends DEF Types
    <3> QED BY <1>1, <2>1, <3>2, <3>3 DEF accept
  <2>2. CASE beginKeyVerification(p)
    <3>1. PICK t : t = [s EXCEPT !.place = "created"]
      OBVIOUS
    <3>2. t \in State /\ Like(s, t) /\ t.gotMAC = s.gotMAC /\ t.place = "created" /\ t.expectedEvent = s.expectedEvent
      BY <1>3, <3>1 DEF State, Like, Places
    <3>3. s.deviceId # None /\ s.place \in Early
      BY <1>1, <1>3, <2>2 DEF beginKeyVerification, Good, Sound, Early
    <3>4. Good(p, t, k) /\ Same(p, s, t)
      BY <1>3, <3>2, <3>3, Moves DEF Late
    <3> QED BY <1>1, <2>2, <3>1, <3>4 DEF beginKeyVerification
  <2>3. CASE verify(p)
    <3>1. PICK t : t = [s EXCEPT !.place = "downloading", !.promise = TRUE, !.timer = TRUE]
      OBVIOUS
    <3>2. /\ t \in State /\ Like(s, t) /\ t.gotMAC = s.gotMAC /\ t.place = "downloading"
          /\ t.expectedEvent = s.expectedEvent
      BY <1>3, <3>1 DEF State, Like, Places
    <3>3. s.deviceId # None /\ s.place \in Early
      BY <1>1, <1>3, <2>3 DEF verify, Good, Sound, Early
    <3>4. Good(p, t, k) /\ Same(p, s, t)
      BY <1>3, <3>2, <3>3, Moves DEF Late
    <3> QED BY <1>1, <2>3, <3>1, <3>4 DEF verify
  <2>4. CASE confirm(p)
    <3>1. PICK u : u = [s EXCEPT !.confirmed = "sending"]
      OBVIOUS
    <3>2. s.place = "sas" /\ s.confirmed = "no"
      BY <1>1, <2>4 DEF confirm
    <3>3. "chosen" \in k /\ s.deviceId # None
      BY <1>3, <3>2 DEF Good, Sound, Late
    <3>4. /\ u \in State /\ u.gotMAC = s.gotMAC /\ u.place = s.place /\ u.confirmed = "sending"
          /\ u.devices = s.devices /\ u.deviceId = s.deviceId /\ u.eventsByThem = s.eventsByThem
          /\ u.eventsByUs = s.eventsByUs /\ u.phase = s.phase /\ u.verifierHasFinished = s.verifierHasFinished
          /\ u.startEvent = s.startEvent /\ u.out = s.out
          /\ u.commitment = s.commitment /\ u.cancelled = s.cancelled
          /\ u.expectedEvent = s.expectedEvent /\ u.waitingForAccept = s.waitingForAccept
      BY <1>3, <3>1 DEF State
    <3>5. Sound(p, u, k) /\ Fit(p, u, k)
      BY <1>3, <3>2, <3>3, <3>4 DEF Good, Sound, Fit, Settled
    <3>6. Near(p, s, u) /\ Announces(s, u)
      BY <3>2, <3>4 DEF Near, Begun, Announces
    <3>7. Good(p, u, k)
      BY <1>3, <3>4, <3>5, <3>6, GenuineStays DEF Good
    <3>8. Same(p, s, u)
      BY <3>4, <3>6, ClosedAs DEF Same
    <3>9. PICK t : t = send(p, u, "mac")
      OBVIOUS
    <3>10. Good(p, t, k) /\ Same(p, u, t)
      BY <3>3, <3>4, <3>7, <3>9, Sends DEF Types
    <3>11. Same(p, s, t)
      BY <3>8, <3>10, SameAgain
    <3> QED BY <1>1, <2>4, <3>1, <3>9, <3>10, <3>11 DEF confirm
  <2>5. CASE mismatch(p)
    <3>1. s.deviceId # None
      BY <1>1, <1>3, <2>5 DEF mismatch, Good, Sound
    <3> QED BY <1>1, <1>3, <2>5, <3>1, Throws DEF mismatch
  <2>6. CASE cancel(p)
    BY <1>1, <1>3, <2>6, RequestCancels DEF cancel
  <2>7. CASE cancelOnTimeout(p)
    <3>1. PICK u : u = [s EXCEPT !.timeoutTimer = FALSE]
      OBVIOUS
    <3>2. u \in State /\ Like(s, u) /\ u.gotMAC = s.gotMAC /\ u.place = s.place /\ u.expectedEvent = s.expectedEvent
      BY <1>3, <3>1 DEF State, Like
    <3>3. Good(p, u, k) /\ Same(p, s, u)
      BY <1>3, <3>2, Stays
    <3>4. PICK t : t = requestCancel(p, u)
      OBVIOUS
    <3>5. Good(p, t, k) /\ Same(p, u, t)
      BY <3>3, <3>4, RequestCancels
    <3>6. Same(p, s, t)
      BY <3>3, <3>5, SameAgain
    <3> QED BY <1>1, <2>7, <3>1, <3>4, <3>5, <3>6 DEF cancelOnTimeout
  <2>8. CASE verifierTimeout(p)
    BY <1>1, <1>3, <2>8, Cancels DEF verifierTimeout
  <2> QED BY <2>1, <2>2, <2>3, <2>4, <2>5, <2>6, <2>7, <2>8
<1>6. /\ side' = [side EXCEPT ![p] = [t EXCEPT !.out = {}]]
      /\ net' \subseteq net \cup t.out /\ t.out \subseteq net' /\ Answers(p, t)
  BY <1>5 DEF Step, Answers
<1>7. Counted' /\ (used.failures # 0 => used'.failures # 0)
  <2>1. used' = used \/ Trouble("stops")
    BY DEF accept, beginKeyVerification, verify, confirm, mismatch, cancel, cancelOnTimeout, verifierTimeout
  <2> QED BY <2>1, Counts
<1> QED BY <1>1, <1>2, <1>4, <1>5, <1>6, <1>7, Plain

\* The keys of the other user have been downloaded, or could not be.
LEMMA DownloadStep ==
  ASSUME VerInv, NEW p \in Parties, downloaded(p) \/ downloadFails(p)
  PROVE  \E t : Turn(p, t)
<1>1. PICK s : s = side[p]
  OBVIOUS
<1>2. PICK k : k = Known(p)
  OBVIOUS
<1>3. Good(p, s, k) /\ s \in State /\ (s.devices = {} => s = Fresh)
  BY <1>1, <1>2, Before
<1>4. s.place = "downloading"
  BY <1>1 DEF downloaded, downloadFails
<1>5. s.deviceId # None /\ s.devices # {}
  BY <1>3, <1>4 DEF Good, Sound, Fresh
<1>6. ASSUME NEW t, Starter(p, s) # p, t = doRespondVerification(p, s) PROVE Good(p, t, k) /\ Same(p, s, t)
  BY <1>3, <1>6, StarterIs, KeyGoes
<1>7. ASSUME NEW t, Starter(p, s) = p, t = doSendVerification(p, s) PROVE Good(p, t, k) /\ Same(p, s, t)
  <2>1. PICK u : u = [s EXCEPT !.place = "sendStart", !.waitingForAccept = TRUE]
    OBVIOUS
  <2>2. /\ u \in State /\ u.gotMAC = s.gotMAC /\ u.place = "sendStart" /\ u.confirmed = s.confirmed
        /\ u.devices = s.devices /\ u.deviceId = s.deviceId /\ u.eventsByThem = s.eventsByThem
        /\ u.eventsByUs = s.eventsByUs /\ u.phase = s.phase /\ u.verifierHasFinished = s.verifierHasFinished
        /\ u.startEvent = s.startEvent /\ u.out = s.out
        /\ u.commitment = s.commitment /\ u.cancelled = s.cancelled
        /\ u.expectedEvent = s.expectedEvent /\ u.waitingForAccept
    BY <1>3, <2>1 DEF State, Places
  <2>3. s.startEvent = None
    BY <1>3, <1>7, StarterIs
  <2>4. Sound(p, u, k) /\ Fit(p, u, k)
    BY <1>3, <1>4, <1>5, <2>2, <2>3 DEF Good, Sound, Fit, Settled, Late, Early
  <2>5. Begun(p, u) /\ Near(p, s, u) /\ Announces(s, u)
    BY <2>2, <2>3 DEF Near, Begun, Announces, Early
  <2>6. Good(p, u, k)
    BY <1>3, <2>2, <2>4, <2>5, GenuineStays DEF Good
  <2>7. Same(p, s, u)
    BY <2>2, <2>5, ClosedAs DEF Same
  <2>8. t = send(p, u, "start")
    BY <1>7, <2>1 DEF doSendVerification
  <2>9. Good(p, t, k) /\ Same(p, u, t)
    BY <1>5, <2>2, <2>5, <2>6, <2>8, Sends DEF Types
  <2> QED BY <2>7, <2>9, SameAgain
<1>8. PICK t : Good(p, t, k) /\ Same(p, s, t) /\ Step(p, t) /\ inbox' = inbox /\ verified' = verified
  <2>1. CASE downloaded(p)
    BY <1>1, <1>6, <1>7, <2>1 DEF downloaded
  <2>2. CASE downloadFails(p)
    BY <1>1, <1>3, <1>5, <2>2, Throws DEF downloadFails
  <2> QED BY <2>1, <2>2
<1>9. /\ side' = [side EXCEPT ![p] = [t EXCEPT !.out = {}]]
      /\ net' \subseteq net \cup t.out /\ t.out \subseteq net' /\ Answers(p, t)
  BY <1>8 DEF Step, Answers
<1>10. Counted' /\ (used.failures # 0 => used'.failures # 0)
  <2>1. used' = used \/ Trouble("failures")
    BY DEF downloaded, downloadFails
  <2> QED BY <2>1, Counts
<1> QED BY <1>1, <1>2, <1>5, <1>8, <1>9, <1>10, Plain

\* The MAC is right and the device marked, or something fails on the way.
LEMMA CheckStep ==
  ASSUME VerInv, NEW p \in Parties, checked(p) \/ checkFails(p)
  PROVE  \E t : Turn(p, t)
<1>1. PICK s : s = side[p]
  OBVIOUS
<1>2. PICK k0 : k0 = Known(p)
  OBVIOUS
<1>3. /\ Good(p, s, k0) /\ s \in State /\ (s.devices = {} => s = Fresh) /\ Closed(p, s)
      /\ s.place = "checking"
  BY <1>1, <1>2, Before DEF checked, checkFails
<1>4. /\ "chosen" \in k0 /\ "confirmed" \in k0 /\ s.confirmed = "yes" /\ s.deviceId # None
      /\ s.devices # {}
  BY <1>3 DEF Good, Sound, Late, Fresh
<1>5. PICK k : k = Of(p, s.deviceId) \cup {f \in {"verified"} : p \in verified'}
  OBVIOUS
<1>6. verified' \in {verified, verified \cup {p}} /\ inbox' = inbox
  BY DEF checked, checkFails
<1>7. k0 \subseteq k
  BY <1>1, <1>2, <1>5, <1>6 DEF Known
<1>8. Good(p, s, k)
  BY <1>3, <1>4, <1>7, Monotone
<1>9. PICK t : Good(p, t, k) /\ Same(p, s, t) /\ Step(p, t)
  <2>1. CASE checked(p)
    <3>1. "verified" \in k
      BY <1>5, <2>1 DEF checked
    <3> QED BY <1>1, <1>4, <1>8, <2>1, <3>1, Finishes DEF checked
  <2>2. CASE checkFails(p)
    BY <1>1, <1>4, <1>8, <2>2, Throws DEF checkFails
  <2> QED BY <2>1, <2>2
<1>10. /\ side' = [side EXCEPT ![p] = [t EXCEPT !.out = {}]]
       /\ net' \subseteq net \cup t.out /\ t.out \subseteq net' /\ Answers(p, t)
  BY <1>9 DEF Step, Answers
<1>11. Counted' /\ (used.failures # 0 => used'.failures # 0)
  <2>1. used' = used \/ Trouble("failures")
    BY DEF checked, checkFails
  <2> QED BY <2>1, Counts
<1>12. /\ Near(p, s, t) /\ Announces(s, t) /\ t.eventsByUs = s.eventsByUs /\ t.eventsByThem = s.eventsByThem
       /\ Closed(p, t) /\ (Over(s) => Over(t))
  BY <1>3, <1>9 DEF Same
<1>13. t.confirmed = "yes" /\ "confirmed" \in k
  BY <1>4, <1>7, <1>12 DEF Near
<1>14. Reads(p, t)
  BY <1>1, <1>6, <1>12 DEF Reads
<1> QED BY <1>1, <1>4, <1>5, <1>6, <1>9, <1>10, <1>11, <1>12, <1>13, <1>14, Ordinary

\* A request is answered: the echo, and whoever awaited the send goes on.
LEMMA AnswerStep ==
  ASSUME VerInv, NEW m \in net, Answer(m)
  PROVE  \E t : Turn(m.from, t) /\ m.from \in Parties
<1>1. m \in Wire /\ m.from \in Parties /\ m.type \in Types /\ OnTheWire(m) /\ m.echo \in BOOLEAN
  BY DEF VerInv, OnTheWire, Wire
<1>2. PICK p \in Parties : p = m.from
  BY <1>1
<1>3. PICK r : r = side[p]
  OBVIOUS
<1>4. PICK k : k = Known(p)
  OBVIOUS
<1>5. Good(p, r, k) /\ r \in State /\ Closed(p, r) /\ r.devices # {}
  BY <1>2, <1>3, <1>4, Before DEF VerInv, Quiet
<1>6. OwnEvent(p, r, m, k)
  BY <1>1, <1>2, <1>3, <1>4 DEF OnTheWire, Genuine, OwnEvent, Begun
<1>7. PICK s : s = IF m.echo THEN handleEvent(p, r, m, TRUE) ELSE r
  OBVIOUS
<1>8. /\ Good(p, s, k) /\ Near(p, r, s) /\ Announces(r, s)
      /\ \A e \in s.eventsByUs \ r.eventsByUs : m.echo /\ e = m.type
      /\ s.eventsByThem = r.eventsByThem
      /\ Closed(p, s) /\ (Over(r) \/ (m.type = "cancel" /\ m.echo) => Over(s))
  <2>1. CASE m.echo
    <3>1. PICK echo \in BOOLEAN : echo = TRUE
      OBVIOUS
    <3>2. s = handleEvent(p, r, m, echo)
      BY <1>7, <2>1, <3>1
    <3>3. echo => m.from = p /\ OwnEvent(p, r, m, k)
      BY <1>2, <1>6
    <3>4. ~echo => TheirEvent(p, r, m, k)
      BY <3>1
    <3>5. /\ Good(p, s, k) /\ Near(p, r, s) /\ Announces(r, s)
          /\ echo => s.eventsByUs \subseteq r.eventsByUs \cup {m.type} /\ s.eventsByThem = r.eventsByThem
          /\ Closed(p, r) => Closed(p, s) /\ (Over(r) \/ m.type = "cancel" => Over(s))
      BY <1>1, <1>5, <3>2, <3>3, <3>4, Handles
    <3> QED BY <1>5, <2>1, <3>1, <3>5
  <2>2. CASE ~m.echo
    BY <1>5, <1>7, <2>2, SameSelf DEF Same
  <2> QED BY <2>1, <2>2
<1>9. PICK t : t = CASE m.type = "start" /\ s.place = "sendStart"   -> startSent(p, s)
                     [] m.type = "accept" /\ s.place = "sendAccept" -> acceptSent(p, s)
                     [] m.type = "key" /\ s.place = "sendKey"       -> keySent(p, s)
                     [] m.type = "mac" /\ s.confirmed = "sending"   -> macSent(s)
                     [] OTHER -> s
  OBVIOUS
<1>10. Good(p, t, k) /\ Same(p, s, t)
  <2>1. \/ s.place = "sendStart" /\ t = startSent(p, s)
        \/ s.place = "sendAccept" /\ t = acceptSent(p, s)
        \/ s.place = "sendKey" /\ t = keySent(p, s)
        \/ s.confirmed = "sending" /\ t = macSent(s)
        \/ t = s
    BY <1>9
  <2> QED BY <1>8, <2>1, SameSelf, GoesOnSent
<1>11. /\ Near(p, r, t) /\ t.eventsByUs = s.eventsByUs /\ t.eventsByThem = r.eventsByThem
       /\ Closed(p, t) /\ (Over(s) => Over(t))
  BY <1>8, <1>10, NearAgain DEF Same
<1>12. Announces(r, t)
  BY <1>8, <1>10 DEF Same, Announces, Near
<1>13. /\ side' = [side EXCEPT ![p] = [t EXCEPT !.out = {}]] /\ net' = (net \ {m}) \cup t.out
       /\ inbox' = inbox /\ verified' = verified
  BY <1>2, <1>3, <1>7, <1>9, ZenonT(30) DEF Answer
<1>14. m.delivered /\ used' = used
  BY DEF Answer
<1>15. Answers(p, t)
  BY <1>2, <1>8, <1>11, <1>13, <1>14 DEF Answers
<1>16. \A e \in t.eventsByUs \ r.eventsByUs : \E x \in net : x.from = p /\ x.echo /\ x.type = e
  BY <1>2, <1>8, <1>11
<1>17. Counted' /\ (used.failures # 0 => used'.failures # 0)
  BY <1>14, Counts
<1>18. Reads(p, t)
  BY <1>3, <1>11, <1>13 DEF Reads
<1>19. k = Of(p, r.deviceId) \cup {f \in {"verified"} : p \in verified'}
  BY <1>3, <1>4, <1>13 DEF Known
<1>20. Over(r) => Over(t)
  BY <1>8, <1>11
<1>21. Turn(p, t)
  BY <1>3, <1>5, <1>10, <1>11, <1>12, <1>13, <1>15, <1>16, <1>17, <1>18, <1>19, <1>20, Ordinary
<1> QED BY <1>2, <1>21

\* A request fails.
LEMMA FailStep ==
  ASSUME VerInv, NEW m \in net, Fail(m)
  PROVE  \E t : Turn(m.from, t) /\ m.from \in Parties
<1>1. PICK p \in Parties : p = m.from
  BY DEF VerInv, OnTheWire, Wire
<1>2. PICK k : k = Known(p)
  OBVIOUS
<1>3. PICK s : s = side[p]
  OBVIOUS
<1>4. Good(p, s, k) /\ s.devices # {}
  BY <1>1, <1>2, <1>3, Before DEF VerInv, Quiet
<1>5. PICK t : /\ t = s \/ (t = Throw(p, s) /\ s.place # "none")
               /\ side' = [side EXCEPT ![p] = [t EXCEPT !.out = {}]] /\ net' = (net \ {m}) \cup t.out
  <2>1. PICK awaited : awaited = (\/ m.type = "start" /\ side[p].place = "sendStart"
                                  \/ m.type = "accept" /\ side[p].place = "sendAccept"
                                  \/ m.type = "key" /\ side[p].place = "sendKey"
                                  \/ m.type = "mac" /\ side[p].place = "sas")
    OBVIOUS
  <2>2. PICK t : t = IF awaited THEN Throw(p, s) ELSE s
    OBVIOUS
  <2>3. side' = [side EXCEPT ![p] = [t EXCEPT !.out = {}]] /\ net' = (net \ {m}) \cup t.out
    BY <1>1, <1>3, <2>1, <2>2 DEF Fail
  <2>4. t = s \/ (t = Throw(p, s) /\ s.place # "none")
    BY <1>3, <2>1, <2>2
  <2> QED BY <2>3, <2>4
<1>6. Good(p, t, k) /\ Same(p, s, t)
  <2>1. s.place # "none" => s.deviceId # None
    BY <1>4 DEF Good, Sound
  <2> QED BY <1>4, <1>5, <2>1, SameSelf, Throws
<1>7. inbox' = inbox /\ verified' = verified /\ Trouble("failures")
  BY DEF Fail
<1>8. Counted' /\ (used.failures # 0 => used'.failures # 0) /\ used'.failures # 0
  <2>1. Counted
    BY DEF VerInv
  <2>2. Counted' /\ used'.failures = used.failures + 1 /\ used.failures \in Nat
    BY <1>7, <2>1, TroubleIs DEF Counted
  <2> QED BY <2>2
<1>9. Answers(p, t)
  BY <1>1, <1>5, <1>8 DEF Answers
<1>10. Turn(p, t)
  BY <1>2, <1>3, <1>4, <1>5, <1>6, <1>7, <1>8, <1>9, Plain
<1> QED BY <1>1, <1>10

\* Devices that do not take part are told so.
LEMMA SendsToDevices ==
  ASSUME NEW p \in Parties, NEW s, NEW k, Good(p, s, k), NEW to, to \subseteq Peers(p),
         s.deviceId \notin {None} \cup to, NEW t, t = sendToDevices(p, s, to)
  PROVE  Good(p, t, k) /\ Same(p, s, t)
<1>1. PICK m : m = Message(p, to, "cancel", None, FALSE)
  OBVIOUS
<1>2. m \in Wire /\ m.from = p /\ m.to = to /\ m.type = "cancel" /\ ~m.echo /\ ~m.delivered
  BY <1>1, PeerFacts DEF Message, Wire, Types, Starts
<1>3. Genuine(p, m, s, k)
  BY <1>2 DEF Genuine
<1>4. t = [s EXCEPT !.out = s.out \cup {m}]
  BY <1>1 DEF sendToDevices
<1>5. /\ t \in State /\ t.gotMAC = s.gotMAC /\ t.place = s.place /\ t.confirmed = s.confirmed
      /\ t.devices = s.devices /\ t.deviceId = s.deviceId /\ t.eventsByThem = s.eventsByThem
      /\ t.eventsByUs = s.eventsByUs /\ t.phase = s.phase /\ t.verifierHasFinished = s.verifierHasFinished
      /\ t.startEvent = s.startEvent /\ t.out = s.out \cup {m}
      /\ t.commitment = s.commitment /\ t.cancelled = s.cancelled
      /\ t.expectedEvent = s.expectedEvent /\ t.waitingForAccept = s.waitingForAccept
  BY <1>2, <1>4 DEF Good, State
<1>6. Sound(p, t, k) /\ Fit(p, t, k)
  BY <1>5 DEF Good, Sound, Fit, Settled
<1>7. Near(p, s, t) /\ Announces(s, t)
  BY <1>2, <1>5 DEF Near, Begun, Announces
<1>8. \A n \in t.out : Genuine(p, n, t, k) /\ ~n.delivered
  BY <1>2, <1>3, <1>5, <1>7, GenuineStays DEF Good
<1>9. Same(p, s, t)
  BY <1>5, <1>7, ClosedAs DEF Same
<1> QED BY <1>5, <1>6, <1>8, <1>9 DEF Good

\* A device that has not chosen a partner may choose one.
LEMMA Chooses ==
  ASSUME NEW p \in Parties, NEW s, NEW k, Good(p, s, k), s.deviceId = None, s.out = {}, Closed(p, s),
         NEW q \in Peers(p), q \in s.devices, NEW t, t = [s EXCEPT !.deviceId = q], NEW k2, k \subseteq k2
  PROVE  /\ Good(p, t, k2) /\ Kept(p, s, t) /\ Closed(p, t) /\ Over(t) = Over(s)
         /\ t.deviceId = q /\ t.out = {} /\ t.devices = s.devices /\ t.cancelled = s.cancelled
         /\ t.eventsByUs = s.eventsByUs /\ t.eventsByThem = s.eventsByThem
<1>1. s \in State /\ q # None /\ q \in Starts
  BY PeerFacts DEF Good, Starts
<1>2. /\ t \in State /\ t.gotMAC = s.gotMAC /\ t.place = s.place /\ t.confirmed = s.confirmed
      /\ t.devices = s.devices /\ t.deviceId = q /\ t.eventsByThem = s.eventsByThem
      /\ t.eventsByUs = s.eventsByUs /\ t.phase = s.phase /\ t.verifierHasFinished = s.verifierHasFinished
      /\ t.startEvent = s.startEvent /\ t.out = {}
      /\ t.commitment = s.commitment /\ t.cancelled = s.cancelled
      /\ t.expectedEvent = s.expectedEvent /\ t.waitingForAccept = s.waitingForAccept
  BY <1>1 DEF State
<1>3. /\ "chosen" \notin k /\ s.place = "none" /\ "start" \notin s.eventsByUs \cup s.eventsByThem
      /\ s.startEvent = None /\ s.confirmed = "no" /\ s.commitment # p
  BY DEF Good, Sound, Fit
<1>4. Sound(p, t, k2)
  <2>1. s.eventsByThem \cap {"start", "accept", "key", "mac"} = {}
    BY <1>3 DEF Good, Sound
  <2>2. /\ s.devices \subseteq Peers(p)
        /\ "mac" \in s.eventsByThem \/ s.gotMAC => "confirmed" \in k2
        /\ "done" \in s.eventsByUs \/ s.verifierHasFinished \/ s.phase = "Done" => "verified" \in k2
    BY DEF Good, Sound
  <2> QED BY <1>1, <1>2, <1>3, <2>1, <2>2 DEF Sound, Late
<1>5. Fit(p, t, k2)
  BY <1>2, <1>3 DEF Good, Fit, Settled
<1>6. Kept(p, s, t)
  BY <1>2, <1>3 DEF Kept, Begun, Early
<1>7. Starters(p, s) = {} /\ Starters(p, t) = {}
  BY <1>2, <1>3 DEF Starters
<1>8. isDone(p, s) = isDone(p, t)
  BY <1>2, <1>7 DEF isDone
<1>9. Closed(p, t) /\ Over(t) = Over(s)
  BY <1>2, <1>8 DEF Closed, Over, OwnCancel
<1> QED BY <1>2, <1>4, <1>5, <1>6, <1>9 DEF Good

\* What a message in the inbox tells of its sender, if that is the partner.
LEMMA InboxTells ==
  ASSUME VerInv, NEW p \in Parties, NEW m, InInbox(p, m), NEW c,
         m.type \in {"request", "ready", "start"} => c.deviceId = m.from,
         c.deviceId # None => c.deviceId = side[p].deviceId \/ c.deviceId = m.from,
         side[p].deviceId # None => c.deviceId = side[p].deviceId,
         NEW k, k = Of(p, c.deviceId) \cup {f \in {"verified"} : p \in verified}
  PROVE  TheirEvent(p, c, m, k)
<1>1. m.from \in Parties /\ m.from # None /\ p # None /\ m.start \in Starts
  BY PeerFacts DEF InInbox
<1>2. m.type \in {"accept", "key", "mac"} => c.deviceId = m.from
  BY <1>1 DEF InInbox, Bonded, Chosen
<1>3. m.type \in {"start", "accept", "key", "mac"} => c.deviceId = m.from /\ Chosen(p, c.deviceId)
  BY <1>1, <1>2 DEF InInbox, Chosen
<1>4. m.type \in {"start", "accept", "key", "mac"} => "chosen" \in k
  BY <1>3 DEF Of
<1>5. m.type = "mac" => "confirmed" \in k
  BY <1>3 DEF Of, InInbox
<1>6. m.type = "start" => "begun" \in k
  BY <1>3 DEF Of, InInbox
<1>7. m.type = "accept" /\ m.start = p => "follows" \in k
  BY <1>3 DEF Of, InInbox
<1> QED BY <1>1, <1>3, <1>4, <1>5, <1>6, <1>7 DEF TheirEvent

\* A message reaches the channel of a device, which may choose its sender.
LEMMA ChannelHears ==
  ASSUME VerInv, NEW p \in Parties, NEW m, InInbox(p, m), NEW s, s.out = {}, s.devices # {}, Closed(p, s),
         Whole(p, s) \/ (m.type \in {"request", "start"} /\ m.from \in s.devices),
         s.deviceId = side[p].deviceId, NEW k0, k0 = Known(p), Good(p, s, k0),
         NEW t, t = channelHandleEvent(p, s, m)
  PROVE  /\ Good(p, t, Of(p, t.deviceId) \cup {f \in {"verified"} : p \in verified})
         /\ Kept(p, s, t) /\ Announces(s, t) /\ Closed(p, t) /\ Whole(p, t) /\ t.devices = s.devices
         /\ Over(s) \/ m.type = "cancel" => Over(t)
         /\ t.eventsByUs = s.eventsByUs /\ t.eventsByThem \subseteq s.eventsByThem \cup {m.type}
         /\ \A n \in t.out : n.type # "request"
<1>1. m.from \in Parties /\ m.from \in Peers(p) /\ m.from # None /\ p # None /\ m.type \in Types
  BY PeerFacts DEF InInbox
<1>2. PICK names : names = (m.type \in {"request", "ready", "start"})
  OBVIOUS
<1>3. PICK c : c = IF names /\ s.deviceId = None /\ m.from \in s.devices
                   THEN [s EXCEPT !.deviceId = m.from] ELSE s
  OBVIOUS
<1>4. PICK k : k = Of(p, c.deviceId) \cup {f \in {"verified"} : p \in verified}
  OBVIOUS
<1>5. /\ Good(p, c, k) /\ Kept(p, s, c) /\ Closed(p, c) /\ Over(c) = Over(s) /\ c.out = {}
      /\ c.devices = s.devices /\ c.cancelled = s.cancelled
      /\ c.eventsByUs = s.eventsByUs /\ c.eventsByThem = s.eventsByThem
      /\ c.deviceId # None => c.deviceId = s.deviceId \/ c.deviceId = m.from
      /\ s.deviceId # None => c = s
  <2>1. CASE names /\ s.deviceId = None /\ m.from \in s.devices
    <3>1. c = [s EXCEPT !.deviceId = m.from]
      BY <1>3, <2>1
    <3>2. Of(p, s.deviceId) = {}
      BY <2>1 DEF Of, Chosen
    <3>3. k0 \subseteq k
      BY <1>4, <3>2 DEF Known
    <3> QED BY <1>1, <2>1, <3>1, <3>3, Chooses
  <2>2. CASE ~(names /\ s.deviceId = None /\ m.from \in s.devices)
    <3>1. c = s
      BY <1>3, <2>2
    <3>2. k = k0
      BY <1>4, <3>1 DEF Known
    <3> QED BY <3>1, <3>2 DEF Kept
  <2> QED BY <2>1, <2>2
<1>6. s.deviceId # None \/ m.from \in s.devices
  BY <1>1 DEF Whole
<1>7. CASE names /\ c.deviceId # m.from
  <2>1. t = sendToDevices(p, s, {m.from})
    BY <1>2, <1>3, <1>7 DEF channelHandleEvent
  <2>2. s.deviceId \notin {None, m.from} /\ c = s
    <3>1. CASE s.deviceId = None
      <4>1. c = [s EXCEPT !.deviceId = m.from] /\ s \in State
        BY <1>1, <1>3, <1>6, <1>7, <3>1 DEF Good
      <4>2. c.deviceId = m.from
        BY <4>1 DEF State
      <4> QED BY <1>7, <4>2
    <3>2. CASE s.deviceId # None
      BY <1>5, <1>7, <3>2
    <3> QED BY <3>1, <3>2
  <2>3. Good(p, t, k) /\ Same(p, s, t)
    BY <1>1, <1>5, <2>1, <2>2, SendsToDevices
  <2>4. Near(p, s, t)
    BY <2>3 DEF Same
  <2>5. t.deviceId = c.deviceId /\ t.devices = s.devices /\ Kept(p, s, t)
    BY <2>2, <2>4 DEF Near, Kept
  <2>6. m.type # "cancel"
    BY <1>2, <1>7
  <2>7. \A n \in t.out : n.type # "request"
    BY <2>4 DEF Near
  <2>8. Whole(p, t)
    BY <2>2, <2>4 DEF Whole, Near
  <2> QED BY <1>4, <2>3, <2>5, <2>6, <2>7, <2>8 DEF Same
<1>8. CASE ~(names /\ c.deviceId # m.from)
  <2>1. TheirEvent(p, c, m, k)
    <3>1. m.type \in {"request", "ready", "start"} => c.deviceId = m.from
      BY <1>2, <1>8
    <3> QED BY <1>4, <1>5, <3>1, InboxTells
  <2>2. PICK echo \in BOOLEAN : echo = FALSE
    OBVIOUS
  <2>3. PICK u : u = handleEvent(p, c, m, echo)
    OBVIOUS
  <2>4. /\ Good(p, u, k) /\ Near(p, c, u) /\ Announces(c, u)
        /\ ~echo => u.eventsByThem \subseteq c.eventsByThem \cup {m.type} /\ u.eventsByUs = c.eventsByUs
        /\ Closed(p, c) => Closed(p, u) /\ (Over(c) \/ m.type = "cancel" => Over(u))
    BY <1>1, <1>5, <2>1, <2>2, <2>3, Handles
  <2>5. /\ u.eventsByThem \subseteq s.eventsByThem \cup {m.type} /\ u.eventsByUs = s.eventsByUs
        /\ Closed(p, u) /\ (Over(s) \/ m.type = "cancel" => Over(u))
    BY <1>5, <2>2, <2>4
  <2>6. PICK others : others = u.devices \ {u.deviceId}
    OBVIOUS
  <2>7. PICK v : v = sendToDevices(p, u, others)
    OBVIOUS
  <2>8. t = u \/ (t = v /\ m.type \in {"start", "ready"})
    BY <1>2, <1>3, <1>8, <2>2, <2>3, <2>6, <2>7 DEF channelHandleEvent
  <2>9. Good(p, t, k) /\ Same(p, u, t)
    <3>1. CASE t = u
      BY <2>4, <3>1, SameSelf
    <3>2. CASE t = v /\ m.type \in {"start", "ready"}
      <4>1. u.deviceId = m.from
        BY <1>2, <1>8, <2>4, <3>2 DEF Near
      <4>2. others \subseteq Peers(p) /\ u.deviceId \notin {None} \cup others
        BY <1>1, <2>4, <2>6, <4>1 DEF Good, Sound
      <4> QED BY <2>4, <2>7, <3>2, <4>2, SendsToDevices
    <3> QED BY <2>8, <3>1, <3>2
  <2>10. Near(p, c, t)
    BY <2>4, <2>9, NearAgain DEF Same
  <2>11. t.deviceId = c.deviceId /\ t.devices = s.devices /\ Kept(p, s, t)
    BY <1>5, <2>10 DEF Near, Kept
  <2>12. Announces(s, t)
    BY <1>5, <2>4, <2>9 DEF Announces, Same, Near
  <2>13. \A n \in t.out : n.type # "request"
    BY <1>5, <2>10 DEF Near
  <2>14. Closed(p, t) /\ (Over(u) => Over(t)) /\ t.eventsByUs = u.eventsByUs /\ t.eventsByThem = u.eventsByThem
    BY <2>5, <2>9 DEF Same
  <2>15. Whole(p, t)
    <3>1. CASE names
      BY <1>1, <1>8, <2>11, <3>1 DEF Whole
    <3>2. CASE ~names
      <4>1. c = s /\ Whole(p, s)
        BY <1>2, <1>3, <3>2
      <4> QED BY <2>10, <4>1 DEF Whole, Near
    <3> QED BY <3>1, <3>2
  <2> QED BY <1>4, <2>5, <2>9, <2>11, <2>12, <2>13, <2>14, <2>15
<1> QED BY <1>7, <1>8

\* A message arrives.
LEMMA ReceiveStep ==
  ASSUME VerInv, NEW p \in Parties, Receive(p)
  PROVE  \E t : Turn(p, t)
<1>1. PICK m : m = Head(inbox[p])
  OBVIOUS
<1>2. inbox[p] # <<>> /\ inbox[p] \in Seq([from : Parties, type : Types, start : Starts])
  BY DEF Receive, VerInv
<1>3. InInbox(p, m)
  <2>1. 1 \in DOMAIN inbox[p] /\ m = inbox[p][1]
    BY <1>1, <1>2
  <2> QED BY <2>1 DEF VerInv
<1>4. PICK s : s = side[p]
  OBVIOUS
<1>5. PICK k0 : k0 = Known(p)
  OBVIOUS
<1>6. /\ Good(p, s, k0) /\ s.out = {} /\ s \in State /\ Closed(p, s) /\ Whole(p, s)
      /\ s.devices = {} => s = Fresh
  BY <1>4, <1>5, Before
<1>7. PICK t : t = handleVerificationEvent(p, s, m)
  OBVIOUS
<1>8. /\ Good(p, t, Of(p, t.deviceId) \cup {f \in {"verified"} : p \in verified})
      /\ Kept(p, s, t) /\ Announces(s, t) /\ Closed(p, t) /\ Whole(p, t) /\ (t.devices = {} => t = s)
      /\ Over(s) \/ (m.type = "cancel" /\ s.devices # {}) => Over(t)
      /\ m.type = "request" => t.devices # {}
      /\ t.eventsByUs = s.eventsByUs /\ t.eventsByThem \subseteq s.eventsByThem \cup {m.type}
      /\ \A n \in t.out : n.type # "request"
  <2>1. CASE s.devices # {}
    <3>1. t = channelHandleEvent(p, s, m)
      BY <1>7, <2>1 DEF handleVerificationEvent
    <3> QED BY <1>3, <1>4, <1>5, <1>6, <2>1, <3>1, ChannelHears
  <2>2. CASE s.devices = {} /\ m.type \in {"request", "start"}
    <3>1. PICK u : u = [s EXCEPT !.devices = {m.from}]
      OBVIOUS
    <3>2. m.from \in Peers(p) /\ m.from \in Parties /\ s = Fresh
      BY <1>3, <1>6, <2>2, PeerFacts DEF InInbox
    <3>3. /\ u \in State /\ u.gotMAC = s.gotMAC /\ u.place = s.place /\ u.confirmed = s.confirmed
          /\ u.devices = {m.from} /\ u.deviceId = s.deviceId /\ u.eventsByThem = s.eventsByThem
          /\ u.eventsByUs = s.eventsByUs /\ u.phase = s.phase /\ u.verifierHasFinished = s.verifierHasFinished
          /\ u.startEvent = s.startEvent /\ u.out = {}
          /\ u.commitment = s.commitment /\ u.cancelled = s.cancelled
          /\ u.expectedEvent = s.expectedEvent /\ u.waitingForAccept = s.waitingForAccept
      BY <1>6, <3>1, <3>2 DEF State
    <3>5. Sound(p, u, k0) /\ Fit(p, u, k0)
      BY <1>6, <3>2, <3>3 DEF Good, Sound, Fit, Settled
    <3>6. Good(p, u, k0)
      BY <3>3, <3>5 DEF Good
    <3>4. Kept(p, s, u)
      BY <2>2, <3>3 DEF Kept, Begun
    <3>7. Closed(p, u) /\ Over(u) = Over(s)
      BY <1>6, <3>3, ClosedAs
    <3>8. t = channelHandleEvent(p, u, m)
      BY <1>7, <2>2, <3>1 DEF handleVerificationEvent
    <3>9. /\ Good(p, t, Of(p, t.deviceId) \cup {f \in {"verified"} : p \in verified})
          /\ Kept(p, u, t) /\ Announces(u, t) /\ Closed(p, t) /\ Whole(p, t) /\ t.devices = u.devices
          /\ Over(u) \/ m.type = "cancel" => Over(t)
          /\ t.eventsByUs = u.eventsByUs /\ t.eventsByThem \subseteq u.eventsByThem \cup {m.type}
          /\ \A n \in t.out : n.type # "request"
      BY <1>3, <1>4, <1>5, <2>2, <3>3, <3>6, <3>7, <3>8, ChannelHears
    <3>10. Kept(p, s, t)
      BY <3>3, <3>4, <3>9 DEF Kept
    <3>11. Announces(s, t)
      BY <3>3, <3>9 DEF Announces
    <3> QED BY <3>3, <3>7, <3>9, <3>10, <3>11
  <2>3. CASE s.devices = {} /\ m.type \notin {"request", "start"}
    <3>1. t = s
      BY <1>7, <2>3 DEF handleVerificationEvent
    <3>2. k0 = Of(p, s.deviceId) \cup {f \in {"verified"} : p \in verified}
      BY <1>4, <1>5 DEF Known
    <3> QED BY <1>6, <2>3, <3>1, <3>2 DEF Kept, Announces
  <2> QED BY <2>1, <2>2, <2>3
<1>9. /\ side' = [side EXCEPT ![p] = [t EXCEPT !.out = {}]] /\ net' = net \cup t.out /\ verified' = verified
  BY <1>1, <1>4, <1>7 DEF Receive, Step
<1>10. inbox' = inbox \/ inbox' = [inbox EXCEPT ![p] = Tail(@)]
  BY DEF Receive
<1>11. p \in verified' => t.confirmed = "yes" /\ HeardOf(p, t.deviceId)
  <2>1. p \in verified => s.confirmed = "yes" /\ HeardOf(p, s.deviceId) /\ s.deviceId # None
    BY <1>4 DEF VerInv, Heard, HeardOf, Chosen
  <2> QED BY <1>8, <1>9, <2>1 DEF Kept
<1>12. Counted' /\ (used.failures # 0 => used'.failures # 0)
  <2>1. used' = used \/ Trouble("duplicates")
    BY DEF Receive
  <2> QED BY <2>1, Counts
<1>13. Answers(p, t)
  BY <1>9 DEF Answers
<1>14. Reads(p, t)
  BY <1>1, <1>2, <1>4, <1>8, <1>10 DEF Reads
<1> QED BY <1>4, <1>8, <1>9, <1>11, <1>12, <1>13, <1>14 DEF Turn

\* The application begins: with a request to all devices, or with one device.
LEMMA BeginsStep ==
  ASSUME VerInv, NEW p, p = Initiator, NEW k, k = Known(p), side[p] = Fresh, NEW t \in State,
         Good(p, t, Of(p, t.deviceId) \cup {f \in {"verified"} : p \in verified'}), Whole(p, t),
         t.deviceId \in {None} \cup t.devices, t.devices # {}, ~t.cancelled, Closed(p, t), t.eventsByUs = {},
         t.eventsByThem = {}, Step(p, t), inbox' = inbox, verified' = verified, used' = used
  PROVE  Turn(p, t)
<1>1. p \in Parties /\ Fresh \in State
  BY DEF VerInv, Parties
<1>2. Kept(p, Fresh, t) /\ Announces(Fresh, t) /\ ~Over(Fresh)
  BY DEF Kept, Fresh, Announces, Begun, Early, Over
<1>3. p \notin verified'
  BY <1>1 DEF VerInv, Fresh
<1>4. side' = [side EXCEPT ![p] = [t EXCEPT !.out = {}]] /\ net' = net \cup t.out
  BY DEF Step
<1>5. Answers(p, t)
  BY <1>4 DEF Answers
<1>6. Reads(p, t)
  BY DEF Reads, Fresh
<1>7. Counted' /\ (used.failures # 0 => used'.failures # 0)
  BY Counts
<1>8. Fresh.devices = {}
  BY DEF Fresh
<1> QED BY <1>2, <1>3, <1>4, <1>5, <1>6, <1>7, <1>8 DEF Turn

\* The application asks the devices of a user.
LEMMA SendRequestStep ==
  ASSUME VerInv, sendRequest
  PROVE  \E t : Turn(Initiator, t)
<1>1. PICK p \in Parties : p = Initiator
  BY DEF Parties
<1>2. PICK k : k = Known(p)
  OBVIOUS
<1>3. /\ Good(p, Fresh, k) /\ side[p] = Fresh /\ Closed(p, Fresh)
      /\ inbox' = inbox /\ verified' = verified /\ used' = used
  BY <1>1, <1>2, Before DEF sendRequest
<1>4. PICK u : u = [Fresh EXCEPT !.devices = Devices]
  OBVIOUS
<1>5. /\ u \in State /\ u.gotMAC = Fresh.gotMAC /\ u.place = Fresh.place /\ u.confirmed = Fresh.confirmed
      /\ u.devices = Devices /\ u.deviceId = Fresh.deviceId /\ u.eventsByThem = Fresh.eventsByThem
      /\ u.eventsByUs = Fresh.eventsByUs /\ u.phase = Fresh.phase
      /\ u.verifierHasFinished = Fresh.verifierHasFinished
      /\ u.startEvent = Fresh.startEvent /\ u.out = Fresh.out
      /\ u.commitment = Fresh.commitment /\ u.cancelled = Fresh.cancelled
      /\ u.expectedEvent = Fresh.expectedEvent /\ u.waitingForAccept = Fresh.waitingForAccept
  BY <1>3, <1>4 DEF Good, State, Parties, Fresh
<1>6. Sound(p, u, k) /\ Fit(p, u, k)
  BY <1>1, <1>3, <1>5 DEF Good, Sound, Fit, Settled, Peers
<1>7. Good(p, u, k)
  BY <1>5, <1>6 DEF Good, Fresh
<1>8. PICK t : t = send(p, u, "request")
  OBVIOUS
<1>9. /\ Good(p, t, k) /\ t.eventsByUs = u.eventsByUs /\ t.eventsByThem = u.eventsByThem
      /\ t.cancelled = u.cancelled /\ t.devices = u.devices /\ t.deviceId = u.deviceId
      /\ t.verifierHasFinished = u.verifierHasFinished /\ t.phase = u.phase
  BY <1>1, <1>7, <1>8, Sends DEF Types
<1>10. Closed(p, t)
  BY <1>3, <1>5, <1>9, ClosedAs
<1>11. t.deviceId = None /\ t.devices = Devices /\ ~t.cancelled /\ t.eventsByUs = {} /\ t.eventsByThem = {}
  BY <1>5, <1>9 DEF Fresh
<1>12. Whole(p, t) /\ t.devices # {}
  BY <1>1, <1>11, VerificationAssumption DEF Whole, Peers
<1>13. k = Of(p, t.deviceId) \cup {f \in {"verified"} : p \in verified'}
  BY <1>2, <1>3, <1>11 DEF Known, Fresh
<1>14. Step(p, t)
  BY <1>1, <1>4, <1>8 DEF sendRequest
<1>15. t \in State
  BY <1>9 DEF Good
<1>16. Turn(p, t)
  BY <1>1, <1>2, <1>3, <1>9, <1>10, <1>11, <1>12, <1>13, <1>14, <1>15, BeginsStep
<1> QED BY <1>1, <1>16

\* The application begins with one device.
LEMMA BeginWithoutRequestStep ==
  ASSUME VerInv, NEW d \in Devices, beginWithoutRequest(d)
  PROVE  \E t : Turn(Initiator, t)
<1>1. PICK p \in Parties : p = Initiator
  BY DEF Parties
<1>2. d \in Parties /\ d \in Peers(p) /\ d # None /\ d \in Starts
  BY <1>1, VerificationAssumption DEF Parties, Peers, Starts
<1>3. PICK k : k = Known(p)
  OBVIOUS
<1>4. /\ side[p] = Fresh /\ Closed(p, Fresh) /\ inbox' = inbox /\ verified' = verified /\ used' = used
  BY <1>1, <1>3, Before DEF beginWithoutRequest
<1>5. PICK t : t = [Fresh EXCEPT !.devices = {d}, !.deviceId = d, !.place = "created"]
  OBVIOUS
<1>6. Fresh \in State
  BY <1>4 DEF VerInv
<1>7. /\ t \in State /\ t.gotMAC = FALSE /\ t.place = "created" /\ t.confirmed = "no"
      /\ t.devices = {d} /\ t.deviceId = d /\ t.eventsByThem = {}
      /\ t.eventsByUs = {} /\ t.phase = "Unsent" /\ t.verifierHasFinished = FALSE
      /\ t.startEvent = None /\ t.out = {}
      /\ t.commitment = None /\ t.cancelled = FALSE
      /\ t.expectedEvent = "none" /\ t.waitingForAccept = FALSE
  <2>1. t \in State
    BY <1>2, <1>5, <1>6, ZenonT(30) DEF State, Places
  <2>2. /\ t.gotMAC = FALSE /\ t.place = "created" /\ t.confirmed = "no"
        /\ t.devices = {d} /\ t.deviceId = d /\ t.eventsByThem = {}
        /\ t.eventsByUs = {} /\ t.phase = "Unsent" /\ t.verifierHasFinished = FALSE
        /\ t.startEvent = None /\ t.out = {}
        /\ t.commitment = None /\ t.cancelled = FALSE
        /\ t.expectedEvent = "none" /\ t.waitingForAccept = FALSE
    BY <1>5, ZenonT(30) DEF Fresh
  <2> QED BY <2>1, <2>2
<1>8. \A x : Sound(p, t, x) /\ Fit(p, t, x)
  BY <1>2, <1>7, PeerFacts DEF Sound, Fit, Settled, Late, Early
<1>9. Good(p, t, Of(p, t.deviceId) \cup {f \in {"verified"} : p \in verified'})
  BY <1>7, <1>8 DEF Good
<1>10. Closed(p, t) /\ Whole(p, t)
  BY <1>2, <1>7 DEF Closed, OwnCancel, Whole
<1>11. Step(p, t)
  BY <1>1, <1>5 DEF beginWithoutRequest
<1>12. t.deviceId \in t.devices /\ t.devices # {} /\ ~t.cancelled
  BY <1>7
<1>13. Turn(p, t)
  BY <1>1, <1>3, <1>4, <1>7, <1>9, <1>10, <1>11, <1>12, BeginsStep
<1> QED BY <1>1, <1>13

\* The server puts a message in the inboxes of its recipients.
LEMMA DeliverStep ==
  ASSUME VerInv, NEW m \in net, Deliver(m)
  PROVE  VerInv'
<1>1. PICK n : n = [from |-> m.from, type |-> m.type, start |-> m.start]
  OBVIOUS
<1>2. PICK M : M = [from : Parties, type : Types, start : Starts]
  OBVIOUS
<1>3. PICK d : d = [m EXCEPT !.delivered = TRUE]
  OBVIOUS
<1>4. m \in Wire /\ OnTheWire(m)
  BY DEF VerInv, OnTheWire
<1>5. n \in M /\ n.from = m.from /\ n.type = m.type /\ n.start = m.start
  BY <1>1, <1>2, <1>4 DEF Wire
<1>6. /\ d \in Wire /\ d.from = m.from /\ d.to = m.to /\ d.type = m.type /\ d.start = m.start
      /\ d.echo = m.echo
  BY <1>3, <1>4 DEF Wire
<1>7. OnTheWire(d)
  BY <1>4, <1>6 DEF OnTheWire, Genuine
<1>8. /\ inbox \in [Parties -> Seq(M)]
      /\ \A p \in Parties : \A i \in DOMAIN inbox[p] : InInbox(p, inbox[p][i])
  BY <1>2 DEF VerInv
<1>9. inbox' = [p \in Parties |-> IF p \in m.to THEN Append(inbox[p], n) ELSE inbox[p]]
  BY <1>1 DEF Deliver
<1>10. net' = (net \ {m}) \cup {d} /\ side' = side /\ verified' = verified /\ used' = used
  BY <1>3 DEF Deliver
<1>11. ASSUME NEW p \in Parties, p \in m.to PROVE InInbox(p, n)
  <2>1. m.from \in Parties /\ m.type \in Types /\ m.start \in Starts /\ p # None
    BY <1>4, PeerFacts DEF Wire
  <2>2. p \in Peers(m.from)
    BY <1>4, <1>11, <2>1 DEF OnTheWire, Genuine
  <2>3. m.from \in Peers(p)
    BY <2>1, <2>2, PeerFacts
  <2>4. m.type \in {"start", "accept", "key", "mac"} => side[m.from].deviceId = p
    BY <1>4, <1>11 DEF OnTheWire, Genuine
  <2>5. (m.type \in {"accept", "key", "mac"} => Bonded(m.from)) /\ (m.type = "mac" => side[m.from].confirmed # "no")
    BY <1>4, KnownTells DEF OnTheWire, Genuine
  <2>6. /\ m.type = "start" => Begun(m.from, side[m.from])
        /\ m.type = "accept" => m.start # None /\ m.start = side[m.from].startEvent
    BY <1>4 DEF OnTheWire, Genuine
  <2> QED BY <1>5, <2>1, <2>3, <2>4, <2>5, <2>6 DEF InInbox
<1>12. ASSUME NEW p \in Parties PROVE inbox'[p] \in Seq(M) /\ \A i \in DOMAIN inbox'[p] : InInbox(p, inbox'[p][i])
  <2>1. CASE p \notin m.to
    BY <1>8, <1>9, <2>1
  <2>2. CASE p \in m.to
    <3>1. PICK l : l = inbox[p]
      OBVIOUS
    <3>2. l \in Seq(M) /\ \A i \in DOMAIN l : InInbox(p, l[i])
      BY <1>8, <3>1
    <3>3. /\ Append(l, n) \in Seq(M)
          /\ \A i \in DOMAIN Append(l, n) : (i \in DOMAIN l /\ Append(l, n)[i] = l[i]) \/ Append(l, n)[i] = n
      BY <1>5, <3>2
    <3>4. \A i \in DOMAIN Append(l, n) : InInbox(p, Append(l, n)[i])
      BY <1>11, <2>2, <3>2, <3>3
    <3>5. inbox'[p] = Append(l, n)
      BY <1>9, <2>2, <3>1
    <3> QED BY <3>3, <3>4, <3>5
  <2> QED BY <2>1, <2>2
<1>13. inbox' \in [Parties -> Seq(M)]
  BY <1>9, <1>12
<1>14. (\A q : (Bonded(q)' = Bonded(q)) /\ (Heard(q)' = Heard(q))) /\ \A q : Known(q)' = Known(q)
  <2>1. \A q : (Bonded(q)' = Bonded(q)) /\ (Heard(q)' = Heard(q))
    BY <1>10 DEF Bonded, Heard, Chosen, HeardOf
  <2>2. \A q : Known(q)' = Known(q)
    BY <1>10 DEF Known, Of, Chosen
  <2> QED BY <2>1, <2>2
<1>15. \A p \in Parties : \A i \in DOMAIN inbox'[p] : InInbox(p, inbox[p][i])'
  BY <1>10, <1>12, <1>14 DEF InInbox
<1>16. \A x \in net' : OnTheWire(x)'
  <2> TAKE x \in net'
  <2>1. OnTheWire(x)
    BY <1>7, <1>10 DEF VerInv
  <2> QED BY <1>10, <1>14, <2>1 DEF OnTheWire
<1>17. \A p \in Parties : Good(p, side'[p], Known(p)') /\ side'[p].out = {}
  BY <1>10, <1>14 DEF VerInv
<1>18. \A p \in Parties : p \in verified' => side'[p].confirmed = "yes" /\ Heard(p)'
  BY <1>10, <1>14 DEF VerInv
<1>19. side' \in [Parties -> State] /\ Counted' /\ verified' \subseteq Parties
  BY <1>10 DEF VerInv, Counted
<1>20. ASSUME NEW p \in Parties PROVE Closed(p, side'[p]) /\ Quiet(p)' /\ Whole(p, side'[p])
  <2>1. Closed(p, side[p]) /\ Quiet(p) /\ Whole(p, side[p])
    BY DEF VerInv
  <2>2. Quiet(p)'
    BY <1>6, <1>10, <2>1 DEF Quiet
  <2> QED BY <1>10, <2>1, <2>2
<1> QED BY <1>2, <1>13, <1>15, <1>16, <1>17, <1>18, <1>19, <1>20 DEF VerInv

\* The invariant holds at the start, when nothing is known.
LEMMA VerInitInv ==
  ASSUME Init
  PROVE  VerInv
<1>1. Fresh \in State /\ Fresh.out = {} /\ Fresh.deviceId = None
  BY DEF Fresh, State, Types, Phases, Places, Starts
<1>2. side \in [Parties -> State] /\ \A p \in Parties : side[p] = Fresh
  BY <1>1 DEF Init
<1>3. ASSUME NEW p \in Parties PROVE Good(p, side[p], Known(p)) /\ side[p].out = {}
  <2>1. PICK k : k = Known(p)
    OBVIOUS
  <2>2. "chosen" \notin k
    BY <1>1, <1>2, <2>1 DEF Known, Of, Chosen
  <2>3. Sound(p, Fresh, k) /\ Fit(p, Fresh, k)
    BY <2>2, PeerFacts DEF Sound, Fit, Settled, Fresh, Late
  <2> QED BY <1>1, <1>2, <2>1, <2>3 DEF Good
<1>4. /\ inbox \in [Parties -> Seq([from : Parties, type : Types, start : Starts])]
      /\ \A p \in Parties : DOMAIN inbox[p] = {}
  BY DEF Init
<1>5. \A p \in Parties : Closed(p, side[p]) /\ Quiet(p) /\ Whole(p, side[p])
  BY <1>2 DEF Closed, OwnCancel, Quiet, Whole, Fresh, Init
<1>6. Counted
  BY VerificationAssumption DEF Init, Counted
<1> QED BY <1>2, <1>3, <1>4, <1>5, <1>6 DEF VerInv, Init

\* A step is one of a device, or a message is delivered.
LEMMA EveryStep ==
  ASSUME VerInv, Next
  PROVE  \/ \E p \in Parties : \E t : Turn(p, t)
         \/ \E m \in net : Deliver(m)
<1>1. Initiator \in Parties
  BY DEF Parties
<1> QED BY <1>1, SendRequestStep, BeginWithoutRequestStep, UserStep, DownloadStep, CheckStep, ReceiveStep,
     AnswerStep, FailStep, ZenonT(30) DEF Next

\* The invariant is inductive.
LEMMA VerStep ==
  ASSUME VerInv, [Next]_vars
  PROVE  VerInv'
<1>1. CASE Next
  BY <1>1, EveryStep, TurnKeeps, DeliverStep
<1>2. CASE UNCHANGED vars
  <2>1. side' = side /\ net' = net /\ inbox' = inbox /\ verified' = verified /\ used' = used
    BY <1>2 DEF vars
  <2>2. \A q : (Bonded(q)' = Bonded(q)) /\ (Heard(q)' = Heard(q)) /\ (Known(q)' = Known(q))
    BY <2>1 DEF Bonded, Heard, Chosen, HeardOf, Known, Of
  <2>3. \A m \in net' : OnTheWire(m)'
    BY <2>1, <2>2 DEF VerInv, OnTheWire
  <2>4. \A p \in Parties : \A i \in DOMAIN inbox'[p] : InInbox(p, inbox[p][i])'
    BY <2>1, <2>2 DEF VerInv, InInbox
  <2>5. /\ side' \in [Parties -> State]
        /\ \A p \in Parties : Good(p, side'[p], Known(p)') /\ side'[p].out = {}
        /\ inbox' \in [Parties -> Seq([from : Parties, type : Types, start : Starts])]
        /\ verified' \subseteq Parties
        /\ \A p \in Parties : p \in verified' => side'[p].confirmed = "yes" /\ Heard(p)'
    BY <2>1, <2>2 DEF VerInv
  <2>6. (\A p \in Parties : Closed(p, side'[p]) /\ Quiet(p)' /\ Whole(p, side'[p])) /\ Counted'
    BY <2>1 DEF VerInv, Quiet, Counted
  <2> QED BY <2>3, <2>4, <2>5, <2>6 DEF VerInv
<1> QED BY <1>1, <1>2

\* Nobody is marked verified, and no request Done, without the confirmation of both
\* users, whatever the order of messages, failures, timeouts and cancellations.
THEOREM VerifiedConfirmed == Spec => []VerifiedIsConfirmed
<1>1. Init => VerInv
  BY VerInitInv
<1>2. VerInv /\ [Next]_vars => VerInv'
  BY VerStep
<1>3. VerInv => VerifiedIsConfirmed
  <2> SUFFICES ASSUME VerInv, NEW p \in Parties
               PROVE  /\ p \in verified => side[p].confirmed = "yes" /\ side[side[p].deviceId].confirmed # "no"
                      /\ side[p].phase = "Done" => p \in verified
    BY DEF VerifiedIsConfirmed
  <2>1. p \in verified => side[p].confirmed = "yes" /\ Heard(p)
    BY DEF VerInv
  <2>2. side[p].phase = "Done" => "verified" \in Known(p)
    BY DEF VerInv, Good, Sound
  <2>3. "verified" \in Known(p) => p \in verified
    BY DEF Known, Of
  <2> QED BY <2>1, <2>2, <2>3 DEF Heard, HeardOf
<1> QED BY <1>1, <1>2, <1>3, PTL DEF Spec

\* Two that verify each other follow one start event.
LEMMA SameStarts ==
  ASSUME VerInv
  PROVE  SameStart
<1>1. ASSUME NEW p \in Parties, NEW q \in Peers(p), Smaller(p, q), side[p].startEvent = q, side[q].startEvent = p
      PROVE  FALSE
  <2>1. p # None /\ q # None /\ q \in Parties
    BY PeerFacts
  <2>2. side[p].deviceId = q /\ side[q].deviceId = p
    BY <1>1, <2>1 DEF VerInv, Good, Fit
  <2>3. "begun" \in Known(q)
    BY <1>1, <2>1, <2>2 DEF VerInv, Good, Fit
  <2>4. Begun(p, side[p])
    BY <2>2, <2>3 DEF Known, Of
  <2> QED BY <1>1, <2>1, <2>2, <2>4 DEF Begun
<1>2. ASSUME NEW d \in Devices
      PROVE  ~(side[d].startEvent = Initiator /\ side[Initiator].startEvent = d)
  <2>1. d \in Parties /\ Initiator \in Parties /\ d \in Peers(Initiator) /\ Initiator \in Peers(d)
    BY VerificationAssumption DEF Parties, Peers
  <2> QED BY <1>1, <2>1, Sorted
<1>3. ASSUME NEW d \in Devices, Paired(d),
             {side[d].place, side[Initiator].place} \subseteq {"sas", "checking"}
      PROVE  Starter(d, side[d]) = Starter(Initiator, side[Initiator])
  <2>1. d \in Parties /\ Initiator \in Parties /\ d # None /\ Initiator # None /\ d # Initiator
    BY VerificationAssumption DEF Parties
  <2>2. side[Initiator].deviceId = d /\ side[d].deviceId = Initiator
    BY <1>3 DEF Paired
  <2>3. /\ Fit(d, side[d], Known(d)) /\ Settled(d, side[d]) /\ side[d].startEvent \in {None, Initiator}
        /\ Fit(Initiator, side[Initiator], Known(Initiator)) /\ Settled(Initiator, side[Initiator])
        /\ side[Initiator].startEvent \in {None, d}
    BY <1>3, <2>1, <2>2 DEF VerInv, Good, Fit
  <2>4. /\ side[d].commitment = d => side[Initiator].startEvent = d
        /\ side[Initiator].commitment = Initiator => side[d].startEvent = Initiator
    BY <2>2, <2>3 DEF Fit, Known, Of
  <2>5. ~(side[d].startEvent = Initiator /\ side[Initiator].startEvent = d)
    BY <1>2
  <2> QED BY <2>1, <2>3, <2>4, <2>5 DEF Settled, Starter
<1> QED BY <1>2, <1>3 DEF SameStart

-----------------------------------------------------------------------------
\* Whom a cancellation goes to.
Target(s) == IF s.deviceId = None THEN s.devices ELSE {s.deviceId}

\* A device has ended, or a cancellation is on its way to it.
CancelComes(q) ==
  \/ Over(side[q])
  \/ \E m \in net : m.type = "cancel" /\ q \in m.to /\ ~m.delivered
  \/ \E i \in DOMAIN inbox[q] : inbox[q][i].type = "cancel"

\* A device has cancelled or is about to, or verifies another than p.
Cancelling(q) == Over(side[q]) \/ \E m \in net : m.type = "cancel" /\ m.from = q /\ m.echo
Told(p, q) == Cancelling(q) \/ side[q].deviceId \notin {None, p}

\* A device knows of the request, or learns of it before anything else.
Contacted(p) == side[p].devices # {} \/ (inbox[p] # <<>> /\ Head(inbox[p]).type = "request")

Idle(s) ==
  /\ s.phase = "Unsent" /\ s.place = "none" /\ ~s.timeoutTimer /\ ~s.timer /\ ~s.cancelled
  /\ s.eventsByUs = {} /\ s.eventsByThem = {}

\* Nothing has been sent, or the request has not been delivered.
Unasked ==
  /\ \A p \in Parties : Idle(side[p]) /\ inbox[p] = <<>>
  /\ \/ side[Initiator] = Fresh /\ net = {}
     \/ /\ side[Initiator].devices # {}
        /\ \A m \in net : m.type = "request" /\ Devices \subseteq m.to /\ ~m.delivered

\* The verification has begun without a request.
NoRequest ==
  /\ side[Initiator].devices # {}
  /\ \A m \in net : m.type # "request"
  /\ \A p \in Parties : /\ "request" \notin side[p].eventsByUs \cup side[p].eventsByThem
                        /\ \A i \in DOMAIN inbox[p] : inbox[p][i].type # "request"

\* The request has been delivered, and so is what cancels it.
Asked ==
  /\ \A p \in Parties : Contacted(p)
  /\ \A p \in Parties : OwnCancel(side[p]) => \A q \in Target(side[p]) : CancelComes(q)
  /\ \A m \in net : m.type = "cancel" => \A q \in m.to \cap Parties : CancelComes(q)
  /\ \A p \in Parties : \A i \in DOMAIN inbox[p] : inbox[p][i].type = "cancel" => Told(p, inbox[p][i].from)
  /\ \A p \in Parties : "cancel" \in side[p].eventsByThem => \E q \in Peers(p) : Told(p, q)

TellInv == used.failures = 0 => Unasked \/ NoRequest \/ (side[Initiator].devices # {} /\ Asked)

\* What a device's step does to an inbox.
LEMMA InboxAfter ==
  ASSUME VerInv, NEW p \in Parties, NEW t, Turn(p, t), NEW q \in Parties
  PROVE  /\ inbox'[q] = inbox[q] \/ (q = p /\ inbox[q] # <<>> /\ inbox'[q] = Tail(inbox[q]))
         /\ \A i \in DOMAIN inbox'[q] : \E j \in DOMAIN inbox[q] : inbox'[q][i] = inbox[q][j]
         /\ inbox'[q] # inbox[q] =>
              \A j \in DOMAIN inbox[q] : inbox[q][j] = Head(inbox[q]) \/
                 \E i \in DOMAIN inbox'[q] : inbox'[q][i] = inbox[q][j]
<1>1. inbox \in [Parties -> Seq([from : Parties, type : Types, start : Starts])]
  BY DEF VerInv
<1>2. PICK M : M = [from : Parties, type : Types, start : Starts]
  OBVIOUS
<1>3. PICK l \in Seq(M) : l = inbox[q]
  BY <1>1, <1>2
<1>4. inbox'[q] = l \/ (q = p /\ l # <<>> /\ inbox'[q] = Tail(l))
  BY <1>1, <1>3 DEF Turn, Reads
<1>5. l # <<>> => \A i \in DOMAIN Tail(l) : i + 1 \in DOMAIN l /\ Tail(l)[i] = l[i + 1]
  OBVIOUS
<1>6. l # <<>> => \A j \in DOMAIN l : l[j] = Head(l) \/ (j - 1 \in DOMAIN Tail(l) /\ Tail(l)[j - 1] = l[j])
  OBVIOUS
<1>7. \A i \in DOMAIN inbox'[q] : \E j \in DOMAIN l : inbox'[q][i] = l[j]
  BY <1>4, <1>5
<1>8. inbox'[q] # l => \A j \in DOMAIN l : l[j] = Head(l) \/ \E i \in DOMAIN inbox'[q] : inbox'[q][i] = l[j]
  BY <1>4, <1>6
<1> QED BY <1>3, <1>4, <1>7, <1>8

\* A cancellation that comes still comes after a device's step.
LEMMA ComesStays ==
  ASSUME VerInv, NEW p \in Parties, NEW t, Turn(p, t), used'.failures = 0,
         NEW q \in Parties, Contacted(q), CancelComes(q)
  PROVE  CancelComes(q)'
<1>1. /\ side' \in [Parties -> State] /\ \A x \in Parties : x # p => side'[x] = side[x]
      /\ Copy(t, side'[p]) /\ t \in State
  BY TurnSides
<1>2. Over(side'[p]) = Over(t) /\ (Over(side[p]) => Over(t))
  BY <1>1, Copies DEF Turn
<1>3. CASE Over(side[q])
  BY <1>1, <1>2, <1>3 DEF CancelComes
<1>4. ASSUME NEW m \in net, m.type = "cancel", q \in m.to, ~m.delivered PROVE CancelComes(q)'
  <2>1. m \in net'
    BY <1>4 DEF Turn, Answers
  <2> QED BY <1>4, <2>1 DEF CancelComes
<1>5. ASSUME NEW j \in DOMAIN inbox[q], inbox[q][j].type = "cancel" PROVE CancelComes(q)'
  <2>1. CASE \E i \in DOMAIN inbox'[q] : inbox'[q][i] = inbox[q][j]
    BY <1>5, <2>1 DEF CancelComes
  <2>2. CASE ~\E i \in DOMAIN inbox'[q] : inbox'[q][i] = inbox[q][j]
    <3>1. q = p /\ inbox[q][j] = Head(inbox[q]) /\ inbox' # inbox
      BY <2>2, InboxAfter
    <3>2. side[q].devices # {}
      BY <1>5, <3>1 DEF Contacted
    <3>3. Over(t)
      BY <1>5, <3>1, <3>2 DEF Turn, Reads
    <3> QED BY <1>2, <3>1, <3>3 DEF CancelComes
  <2> QED BY <2>1, <2>2
<1> QED BY <1>3, <1>4, <1>5 DEF CancelComes

\* Who has been told, or verifies another, still has or does after a device's step.
LEMMA ToldStays ==
  ASSUME VerInv, NEW p \in Parties, NEW t, Turn(p, t), used'.failures = 0,
         NEW x \in Parties, NEW q \in Parties, Told(x, q)
  PROVE  Told(x, q)'
<1>1. /\ side' \in [Parties -> State] /\ \A y \in Parties : y # p => side'[y] = side[y]
      /\ Copy(t, side'[p]) /\ t \in State
  BY TurnSides
<1>2. Over(side'[p]) = Over(t) /\ (Over(side[p]) => Over(t))
  BY <1>1, Copies DEF Turn
<1>3. CASE Over(side[q])
  BY <1>1, <1>2, <1>3 DEF Told, Cancelling
<1>4. ASSUME NEW m \in net, m.type = "cancel", m.from = q, m.echo PROVE Told(x, q)'
  <2>1. CASE m \in net'
    BY <1>4, <2>1 DEF Told, Cancelling
  <2>2. CASE m \notin net'
    <3>1. q = p /\ Over(t)
      BY <1>4, <2>2 DEF Turn, Answers
    <3> QED BY <1>2, <3>1 DEF Told, Cancelling
  <2> QED BY <2>1, <2>2
<1>5. CASE side[q].deviceId \notin {None, x}
  <2>1. side'[q].deviceId = side[q].deviceId
    BY <1>1, <1>5 DEF Turn, Kept, Copy
  <2> QED BY <1>5, <2>1 DEF Told
<1> QED BY <1>3, <1>4, <1>5 DEF Told, Cancelling

\* A device that knows of the request, or is about to, goes on so.
LEMMA ContactedStays ==
  ASSUME VerInv, NEW p \in Parties, NEW t, Turn(p, t), NEW q \in Parties, Contacted(q)
  PROVE  Contacted(q)'
<1>1. /\ \A y \in Parties : y # p => side'[y] = side[y]
      /\ side'[p].devices = t.devices
  BY TurnSides DEF Copy
<1>2. side[q].devices # {} => side'[q].devices # {}
  BY <1>1 DEF Turn, Kept
<1>3. CASE inbox'[q] = inbox[q]
  BY <1>2, <1>3 DEF Contacted
<1>4. CASE inbox'[q] # inbox[q]
  <2>1. q = p
    BY <1>4, InboxAfter
  <2>2. Head(inbox[p]).type = "request" => t.devices # {}
    BY <1>4, <2>1 DEF Turn, Reads
  <2> QED BY <1>1, <1>2, <2>1, <2>2 DEF Contacted
<1> QED BY <1>3, <1>4

\* Nobody is left waiting by a device's step.
LEMMA AskedStays ==
  ASSUME VerInv, NEW p \in Parties, NEW t, Turn(p, t), used'.failures = 0, Asked
  PROVE  Asked'
<1>1. /\ side' \in [Parties -> State] /\ \A y \in Parties : y # p => side'[y] = side[y]
      /\ Copy(t, side'[p]) /\ t \in State
  BY TurnSides
<1>2. \A q \in Parties : Contacted(q) /\ Contacted(q)' /\ (CancelComes(q) => CancelComes(q)')
  BY ComesStays, ContactedStays DEF Asked
<1>3. \A x, q \in Parties : Told(x, q) => Told(x, q)'
  BY ToldStays
<1>4. ASSUME NEW m \in t.out, m.type = "cancel", NEW q \in m.to PROVE CancelComes(q)'
  <2>1. m \in net' /\ ~m.delivered
    BY DEF Turn, Good
  <2> QED BY <1>4, <2>1 DEF CancelComes
<1>5. ASSUME NEW m \in net', m.type = "cancel", NEW q \in m.to \cap Parties PROVE CancelComes(q)'
  <2>1. CASE m \in t.out
    BY <1>4, <1>5, <2>1
  <2>2. CASE m \in net
    BY <1>2, <1>5, <2>2 DEF Asked
  <2> QED BY <2>1, <2>2 DEF Turn
<1>6. \A x \in Parties : Target(side[x]) \subseteq Parties
  BY PeerFacts DEF VerInv, Good, Sound, Target
<1>7. Target(t) \subseteq Parties
  BY PeerFacts DEF Turn, Good, Sound, Target
<1>8. side[p].devices # {} => Target(t) \subseteq Target(side[p])
  BY DEF Turn, Kept, Target
<1>9. side[p].devices = {} => ~OwnCancel(side[p]) /\ \A m \in net : m.from # p
  BY DEF VerInv, Quiet, OwnCancel, Fresh
<1>10. ASSUME OwnCancel(t), NEW q \in Target(t) PROVE CancelComes(q)'
  <2>1. CASE OwnCancel(side[p])
    BY <1>2, <1>6, <1>8, <1>9, <1>10, <2>1 DEF Asked
  <2>2. CASE t.cancelled /\ ~side[p].cancelled
    <3>1. PICK m \in t.out : m.type = "cancel" /\ m.echo
      BY <2>2 DEF Turn, Announces
    <3>2. q \in m.to
      BY <1>10, <3>1 DEF Turn, Good, Genuine, Target
    <3> QED BY <1>4, <3>1, <3>2
  <2>3. CASE "cancel" \in t.eventsByUs /\ "cancel" \notin side[p].eventsByUs
    <3>1. PICK m \in net : m.from = p /\ m.echo /\ m.type = "cancel"
      BY <2>3 DEF Turn
    <3>2. Genuine(p, m, side[p], Known(p)) /\ side[p].devices # {}
      BY <1>9, <3>1 DEF VerInv, OnTheWire
    <3>3. q \in Target(side[p]) /\ q \in Parties
      BY <1>7, <1>8, <1>10, <3>2
    <3>4. q \in m.to
      BY <3>1, <3>2, <3>3 DEF Genuine, Target
    <3> QED BY <1>2, <3>1, <3>3, <3>4 DEF Asked
  <2> QED BY <1>10, <2>1, <2>2, <2>3 DEF OwnCancel
<1>11. ASSUME NEW x \in Parties, OwnCancel(side'[x]), NEW q \in Target(side'[x]) PROVE CancelComes(q)'
  <2>1. CASE x = p
    BY <1>1, <1>10, <1>11, <2>1 DEF Copy, OwnCancel, Target
  <2>2. CASE x # p
    BY <1>1, <1>2, <1>6, <1>11, <2>2 DEF Asked
  <2> QED BY <2>1, <2>2
<1>12. ASSUME NEW x \in Parties, NEW i \in DOMAIN inbox'[x], inbox'[x][i].type = "cancel"
       PROVE  Told(x, inbox[x][i].from)'
  <2>1. PICK j \in DOMAIN inbox[x] : inbox'[x][i] = inbox[x][j]
    BY InboxAfter
  <2>2. PICK q : q = inbox[x][j].from
    OBVIOUS
  <2>3. q \in Parties /\ Told(x, q)
    BY <1>12, <2>1, <2>2, PeerFacts DEF VerInv, InInbox, Asked
  <2>4. Told(x, q)'
    BY <1>3, <2>3
  <2> QED BY <2>1, <2>2, <2>4
<1>13. ASSUME NEW x \in Parties, "cancel" \in side'[x].eventsByThem PROVE \E q \in Peers(x) : Told(x, q)'
  <2>1. CASE "cancel" \in side[x].eventsByThem
    BY <1>3, <2>1, PeerFacts DEF Asked
  <2>2. CASE "cancel" \notin side[x].eventsByThem
    <3>1. x = p /\ "cancel" \in t.eventsByThem
      BY <1>1, <1>13, <2>2 DEF Copy
    <3>2. PICK m : m = Head(inbox[p])
      OBVIOUS
    <3>3. inbox[p] # <<>> /\ m.type = "cancel"
      BY <2>2, <3>1, <3>2 DEF Turn, Reads
    <3>4. PICK j \in DOMAIN inbox[p] : m = inbox[p][j]
      <4>1. inbox[p] \in Seq([from : Parties, type : Types, start : Starts])
        BY DEF VerInv
      <4> QED BY <3>2, <3>3, <4>1
    <3>5. m.from \in Peers(p) /\ Told(p, m.from)
      BY <3>3, <3>4 DEF VerInv, InInbox, Asked
    <3> QED BY <1>3, <3>1, <3>5, PeerFacts
  <2> QED BY <2>1, <2>2
<1>14. \A q \in Parties : Contacted(q)'
  BY <1>2
<1> QED BY <1>5, <1>11, <1>12, <1>13, <1>14 DEF Asked

\* What a delivery does to the inboxes and the wire.
LEMMA DeliverySends ==
  ASSUME VerInv, NEW m \in net, Deliver(m)
  PROVE  /\ \E d : /\ d.type = m.type /\ d.from = m.from /\ d.to = m.to /\ d.echo = m.echo
                   /\ net' = (net \ {m}) \cup {d}
         /\ side' = side /\ used' = used
         /\ \A q \in Parties : /\ inbox[q] # <<>> => inbox'[q] # <<>> /\ Head(inbox'[q]) = Head(inbox[q])
                               /\ \A j \in DOMAIN inbox[q] : \E i \in DOMAIN inbox'[q] : inbox'[q][i] = inbox[q][j]
                               /\ \A i \in DOMAIN inbox'[q] :
                                    \/ \E j \in DOMAIN inbox[q] : inbox'[q][i] = inbox[q][j]
                                    \/ q \in m.to /\ inbox'[q][i].type = m.type /\ inbox'[q][i].from = m.from
                               /\ q \in m.to => \E i \in DOMAIN inbox'[q] : inbox'[q][i].type = m.type
                               /\ q \in m.to /\ inbox[q] = <<>> =>
                                    inbox'[q] # <<>> /\ Head(inbox'[q]).type = m.type
<1>1. PICK n : n = [from |-> m.from, type |-> m.type, start |-> m.start]
  OBVIOUS
<1>2. PICK M : M = [from : Parties, type : Types, start : Starts]
  OBVIOUS
<1>3. m \in Wire
  BY DEF VerInv, OnTheWire
<1>4. n \in M /\ n.from = m.from /\ n.type = m.type
  BY <1>1, <1>2, <1>3 DEF Wire
<1>5. PICK d : d = [m EXCEPT !.delivered = TRUE]
  OBVIOUS
<1>6. d.from = m.from /\ d.to = m.to /\ d.type = m.type /\ d.echo = m.echo
  BY <1>3, <1>5 DEF Wire
<1>7. net' = (net \ {m}) \cup {d} /\ side' = side /\ used' = used
  BY <1>5 DEF Deliver
<1>8. ASSUME NEW q \in Parties
      PROVE  /\ inbox[q] # <<>> => inbox'[q] # <<>> /\ Head(inbox'[q]) = Head(inbox[q])
             /\ \A j \in DOMAIN inbox[q] : \E i \in DOMAIN inbox'[q] : inbox'[q][i] = inbox[q][j]
             /\ \A i \in DOMAIN inbox'[q] :
                  \/ \E j \in DOMAIN inbox[q] : inbox'[q][i] = inbox[q][j]
                  \/ q \in m.to /\ inbox'[q][i].type = m.type /\ inbox'[q][i].from = m.from
             /\ q \in m.to => \E i \in DOMAIN inbox'[q] : inbox'[q][i].type = m.type
             /\ q \in m.to /\ inbox[q] = <<>> => inbox'[q] # <<>> /\ Head(inbox'[q]).type = m.type
  <2>1. PICK l \in Seq(M) : l = inbox[q]
    BY <1>2 DEF VerInv
  <2>2. CASE q \notin m.to
    <3>1. inbox'[q] = l
      BY <1>1, <2>1, <2>2 DEF Deliver
    <3> QED BY <2>1, <2>2, <3>1
  <2>3. CASE q \in m.to
    <3>1. inbox'[q] = Append(l, n)
      BY <1>1, <2>1, <2>3 DEF Deliver
    <3>2. /\ \A j \in DOMAIN l : j \in DOMAIN Append(l, n) /\ Append(l, n)[j] = l[j]
          /\ \A i \in DOMAIN Append(l, n) : (i \in DOMAIN l /\ Append(l, n)[i] = l[i]) \/ Append(l, n)[i] = n
          /\ \E i \in DOMAIN Append(l, n) : Append(l, n)[i] = n
      <4>1. Append(l, n) \in Seq(M) /\ Len(Append(l, n)) = Len(l) + 1 /\ Len(l) \in Nat
        BY <1>4
      <4>2. DOMAIN l = 1 .. Len(l) /\ DOMAIN Append(l, n) = 1 .. (Len(l) + 1)
        BY <4>1
      <4>3. (\A j \in 1 .. Len(l) : Append(l, n)[j] = l[j]) /\ Append(l, n)[Len(l) + 1] = n
        BY <1>4
      <4> QED BY <4>1, <4>2, <4>3
    <3>3. /\ Append(l, n) # <<>> /\ (l # <<>> => Head(Append(l, n)) = Head(l))
          /\ l = <<>> => Head(Append(l, n)) = n
      BY <1>4
    <3> QED BY <1>4, <2>1, <2>3, <3>1, <3>2, <3>3
  <2> QED BY <2>2, <2>3
<1> QED BY <1>6, <1>7, <1>8

\* Nor by a delivery.
LEMMA AskedDelivered ==
  ASSUME VerInv, NEW m \in net, Deliver(m), Asked
  PROVE  Asked'
<1>1. PICK d : /\ d.type = m.type /\ d.from = m.from /\ d.to = m.to /\ d.echo = m.echo
               /\ net' = (net \ {m}) \cup {d}
  BY DeliverySends
<1>2. side' = side
  BY DeliverySends
<1>3. ASSUME NEW q \in Parties
      PROVE  /\ inbox[q] # <<>> => inbox'[q] # <<>> /\ Head(inbox'[q]) = Head(inbox[q])
             /\ \A j \in DOMAIN inbox[q] : \E i \in DOMAIN inbox'[q] : inbox'[q][i] = inbox[q][j]
             /\ \A i \in DOMAIN inbox'[q] :
                  \/ \E j \in DOMAIN inbox[q] : inbox'[q][i] = inbox[q][j]
                  \/ q \in m.to /\ inbox'[q][i].type = m.type /\ inbox'[q][i].from = m.from
             /\ q \in m.to => \E i \in DOMAIN inbox'[q] : inbox'[q][i].type = m.type
  BY <1>3, DeliverySends
<1>4. ASSUME NEW q \in Parties, CancelComes(q) PROVE CancelComes(q)'
  <2>1. CASE Over(side[q])
    BY <1>2, <2>1 DEF CancelComes
  <2>2. ASSUME NEW n \in net, n.type = "cancel", q \in n.to, ~n.delivered PROVE CancelComes(q)'
    <3>1. CASE n = m
      BY <1>3, <2>2, <3>1 DEF CancelComes
    <3>2. CASE n # m
      BY <1>1, <2>2, <3>2 DEF CancelComes
    <3> QED BY <3>1, <3>2
  <2>3. ASSUME NEW j \in DOMAIN inbox[q], inbox[q][j].type = "cancel" PROVE CancelComes(q)'
    BY <1>3, <2>3 DEF CancelComes
  <2> QED BY <1>4, <2>1, <2>2, <2>3 DEF CancelComes
<1>5. ASSUME NEW x, NEW q \in Parties, Told(x, q) PROVE Told(x, q)'
  <2>1. ASSUME NEW n \in net, n.type = "cancel", n.from = q, n.echo PROVE Told(x, q)'
    <3>1. CASE n = m
      BY <1>1, <2>1, <3>1 DEF Told, Cancelling
    <3>2. CASE n # m
      BY <1>1, <2>1, <3>2 DEF Told, Cancelling
    <3> QED BY <3>1, <3>2
  <2> QED BY <1>2, <1>5, <2>1 DEF Told, Cancelling
<1>6. \A q \in Parties : Contacted(q)'
  BY <1>2, <1>3 DEF Asked, Contacted
<1>7. ASSUME NEW x \in Parties, OwnCancel(side'[x]), NEW q \in Target(side'[x]) PROVE CancelComes(q)'
  <2>1. Target(side[x]) \subseteq Parties
    BY PeerFacts DEF VerInv, Good, Sound, Target
  <2> QED BY <1>2, <1>4, <1>7, <2>1 DEF Asked
<1>8. ASSUME NEW n \in net', n.type = "cancel", NEW q \in n.to \cap Parties PROVE CancelComes(q)'
  <2>1. CASE n = d
    BY <1>1, <1>4, <1>8, <2>1 DEF Asked
  <2>2. CASE n # d
    BY <1>1, <1>4, <1>8, <2>2 DEF Asked
  <2> QED BY <2>1, <2>2
<1>9. ASSUME NEW x \in Parties, NEW i \in DOMAIN inbox'[x], inbox'[x][i].type = "cancel"
      PROVE  Told(x, inbox[x][i].from)'
  <2>1. PICK q : q = inbox'[x][i].from
    OBVIOUS
  <2>2. CASE \E j \in DOMAIN inbox[x] : inbox'[x][i] = inbox[x][j]
    <3>1. PICK j \in DOMAIN inbox[x] : inbox'[x][i] = inbox[x][j]
      BY <2>2
    <3>2. q \in Parties /\ Told(x, q)
      BY <1>9, <2>1, <3>1, PeerFacts DEF VerInv, InInbox, Asked
    <3>3. Told(x, q)'
      BY <1>5, <3>2
    <3> QED BY <2>1, <3>3
  <2>3. CASE x \in m.to /\ m.type = "cancel" /\ q = m.from
    <3>1. CASE m.echo
      BY <1>1, <2>1, <2>3, <3>1 DEF Told, Cancelling
    <3>2. CASE ~m.echo
      <4>1. side[q].deviceId \notin {None, x}
        BY <2>3, <3>2 DEF VerInv, OnTheWire, Genuine
      <4> QED BY <1>2, <2>1, <4>1 DEF Told
    <3> QED BY <3>1, <3>2
  <2> QED BY <1>3, <1>9, <2>1, <2>2, <2>3
<1>10. ASSUME NEW x \in Parties, "cancel" \in side'[x].eventsByThem PROVE \E q \in Peers(x) : Told(x, q)'
  BY <1>2, <1>5, <1>10, PeerFacts DEF Asked
<1> QED BY <1>6, <1>7, <1>8, <1>9, <1>10 DEF Asked

\* Without a request there will be none.
LEMMA NoRequestStays ==
  ASSUME VerInv, NoRequest,
         \/ \E p \in Parties : \E t : Turn(p, t)
         \/ \E m \in net : Deliver(m)
  PROVE  NoRequest'
<1>1. ASSUME NEW p \in Parties, NEW t, Turn(p, t) PROVE NoRequest'
  <2>1. /\ \A y \in Parties : y # p => side'[y] = side[y]
        /\ Copy(t, side'[p])
    BY <1>1, TurnSides
  <2>2. side[Initiator].devices # {} => side'[Initiator].devices # {}
    BY <1>1, <2>1 DEF Turn, Kept, Copy, Parties
  <2>3. \A m \in net' : m.type # "request"
    BY <1>1 DEF Turn, NoRequest
  <2>4. \A q \in Parties : \A i \in DOMAIN inbox'[q] : inbox'[q][i].type # "request"
    BY <1>1, InboxAfter DEF NoRequest
  <2>5. "request" \notin t.eventsByUs
    BY <1>1 DEF Turn, NoRequest
  <2>6. "request" \notin t.eventsByThem
    <3>1. inbox[p] # <<>> => \E j \in DOMAIN inbox[p] : Head(inbox[p]) = inbox[p][j]
      <4>1. inbox[p] \in Seq([from : Parties, type : Types, start : Starts])
        BY DEF VerInv
      <4> QED BY <4>1
    <3> QED BY <1>1, <3>1 DEF Turn, Reads, NoRequest
  <2>7. \A q \in Parties : "request" \notin side'[q].eventsByUs \cup side'[q].eventsByThem
    BY <2>1, <2>5, <2>6 DEF NoRequest, Copy
  <2> QED BY <2>2, <2>3, <2>4, <2>7 DEF NoRequest
<1>2. ASSUME NEW m \in net, Deliver(m) PROVE NoRequest'
  <2>1. PICK d : d.type = m.type /\ net' = (net \ {m}) \cup {d}
    BY <1>2, DeliverySends
  <2>2. side' = side
    BY <1>2, DeliverySends
  <2>3. \A q \in Parties : \A i \in DOMAIN inbox'[q] :
           (\E j \in DOMAIN inbox[q] : inbox'[q][i] = inbox[q][j]) \/ inbox'[q][i].type = m.type
    BY <1>2, DeliverySends
  <2> QED BY <2>1, <2>2, <2>3 DEF NoRequest
<1> QED BY <1>1, <1>2

\* Before the request is made or delivered, and without trouble, only that happens.
LEMMA IdleRests ==
  ASSUME VerInv, Unasked, Next, used'.failures = 0
  PROVE  \/ sendRequest
         \/ \E d \in Devices : beginWithoutRequest(d)
         \/ \E m \in net : Deliver(m)
<1>1. ASSUME NEW p \in Parties
      PROVE  /\ ~accept(p) /\ ~beginKeyVerification(p) /\ ~mismatch(p) /\ ~cancel(p)
             /\ ~cancelOnTimeout(p) /\ ~verifierTimeout(p) /\ ~downloadFails(p) /\ ~checkFails(p)
             /\ ~verify(p) /\ ~confirm(p) /\ ~downloaded(p) /\ ~checked(p) /\ ~Receive(p)
  <2>1. Idle(side[p]) /\ inbox[p] = <<>>
    BY DEF Unasked
  <2>2. ~accept(p) /\ ~beginKeyVerification(p) /\ ~cancel(p)
    BY <2>1 DEF Idle, accept, beginKeyVerification, cancel
  <2>3. ~mismatch(p) /\ ~cancelOnTimeout(p) /\ ~verifierTimeout(p)
    BY <2>1 DEF Idle, mismatch, cancelOnTimeout, verifierTimeout
  <2>4. ~downloadFails(p) /\ ~checkFails(p) /\ ~verify(p) /\ ~confirm(p)
    BY <2>1 DEF Idle, downloadFails, checkFails, verify, confirm
  <2>5. ~downloaded(p) /\ ~checked(p) /\ ~Receive(p)
    BY <2>1 DEF Idle, downloaded, checked, Receive
  <2> QED BY <2>2, <2>3, <2>4, <2>5
<1>2. ASSUME NEW m \in net PROVE ~Answer(m)
  BY DEF Unasked, Answer
<1>3. ASSUME NEW m \in net PROVE ~Fail(m)
  <2>1. ASSUME Trouble("failures") PROVE used'.failures # 0
    <3>1. Counted
      BY DEF VerInv
    <3>2. used'.failures = used.failures + 1 /\ used.failures \in Nat
      BY <2>1, <3>1, TroubleIs DEF Counted
    <3> QED BY <3>2
  <2> QED BY <2>1 DEF Fail
<1> QED BY <1>1, <1>2, <1>3, ZenonT(30) DEF Next

\* The request goes on the wire.
LEMMA RequestGoes ==
  ASSUME VerInv, Unasked, sendRequest
  PROVE  Unasked'
<1>1. PICK u : u = [Fresh EXCEPT !.devices = Devices]
  OBVIOUS
<1>2. PICK m : m = Message(Initiator, Devices, "request", None, TRUE)
  OBVIOUS
<1>3. m.type = "request" /\ m.to = Devices /\ ~m.delivered
  BY <1>2 DEF Message
<1>4. PICK t : t = send(Initiator, u, "request")
  OBVIOUS
<1>5. u.out = {} /\ u.startEvent = None /\ u.devices = Devices
  BY <1>1 DEF Fresh
<1>6. t = [u EXCEPT !.out = u.out \cup {m}]
  BY <1>2, <1>4, <1>5 DEF send
<1>7. PICK r : r = [t EXCEPT !.out = {}]
  OBVIOUS
<1>8. Idle(r) /\ r.devices = Devices
  <2>1. r = [Fresh EXCEPT !.devices = Devices, !.out = {}]
    BY <1>1, <1>6, <1>7, ZenonT(30)
  <2> QED BY <2>1, ZenonT(30) DEF Fresh, Idle
<1>9. t.out = {m}
  <2>1. t.out = u.out \cup {m}
    BY <1>1, <1>6 DEF Fresh
  <2> QED BY <1>5, <2>1
<1>10. side' = [side EXCEPT ![Initiator] = r] /\ net = {} /\ net' = net \cup t.out /\ inbox' = inbox
  BY <1>1, <1>4, <1>7 DEF sendRequest, Step
<1>11. side \in [Parties -> State] /\ Initiator \in Parties
  BY DEF VerInv, Parties
<1>12. side'[Initiator] = r /\ \A p \in Parties : p # Initiator => side'[p] = side[p]
  BY <1>10, <1>11
<1>13. \A p \in Parties : Idle(side'[p]) /\ inbox'[p] = <<>>
  BY <1>8, <1>10, <1>12 DEF Unasked
<1>14. side'[Initiator].devices # {}
  BY <1>8, <1>12, VerificationAssumption
<1>15. \A n \in net' : n.type = "request" /\ Devices \subseteq n.to /\ ~n.delivered
  BY <1>3, <1>9, <1>10
<1> QED BY <1>13, <1>14, <1>15 DEF Unasked

\* The verification begins without one.
LEMMA BeginsWithout ==
  ASSUME VerInv, Unasked, NEW d \in Devices, beginWithoutRequest(d)
  PROVE  NoRequest'
<1>1. PICK t : t = [Fresh EXCEPT !.devices = {d}, !.deviceId = d, !.place = "created"]
  OBVIOUS
<1>2. t.eventsByUs = {} /\ t.eventsByThem = {} /\ t.devices = {d} /\ t.out = {}
  BY <1>1, ZenonT(30) DEF Fresh
<1>3. PICK r : r = [t EXCEPT !.out = {}]
  OBVIOUS
<1>4. r.eventsByUs = {} /\ r.eventsByThem = {} /\ r.devices = {d}
  <2>1. r = [Fresh EXCEPT !.devices = {d}, !.deviceId = d, !.place = "created", !.out = {}]
    BY <1>1, <1>3, ZenonT(30)
  <2> QED BY <2>1, ZenonT(30) DEF Fresh
<1>5. side' = [side EXCEPT ![Initiator] = r] /\ net = {} /\ net' = net \cup t.out /\ inbox' = inbox
  BY <1>1, <1>3 DEF beginWithoutRequest, Step
<1>6. side \in [Parties -> State] /\ Initiator \in Parties
  BY DEF VerInv, Parties
<1>7. side'[Initiator] = r /\ \A p \in Parties : p # Initiator => side'[p] = side[p]
  BY <1>5, <1>6
<1>8. \A p \in Parties : side'[p].eventsByUs = {} /\ side'[p].eventsByThem = {}
  BY <1>4, <1>7 DEF Unasked, Idle
<1>9. \A p \in Parties : DOMAIN inbox'[p] = {}
  BY <1>5 DEF Unasked
<1> QED BY <1>2, <1>4, <1>5, <1>7, <1>8, <1>9 DEF NoRequest

\* The request is delivered to all devices.
LEMMA RequestComes ==
  ASSUME VerInv, Unasked, NEW m \in net, Deliver(m)
  PROVE  Asked' /\ side'[Initiator].devices # {}
<1>1. PICK d : /\ d.type = m.type /\ d.from = m.from /\ d.to = m.to /\ d.echo = m.echo
               /\ net' = (net \ {m}) \cup {d}
  BY DeliverySends
<1>2. side' = side
  BY DeliverySends
<1>3. ASSUME NEW q \in Parties
      PROVE  /\ \A i \in DOMAIN inbox'[q] :
                  \/ \E j \in DOMAIN inbox[q] : inbox'[q][i] = inbox[q][j]
                  \/ q \in m.to /\ inbox'[q][i].type = m.type /\ inbox'[q][i].from = m.from
             /\ q \in m.to /\ inbox[q] = <<>> => inbox'[q] # <<>> /\ Head(inbox'[q]).type = m.type
  BY <1>3, DeliverySends
<1>4. /\ side[Initiator].devices # {} /\ m.type = "request" /\ Devices \subseteq m.to
      /\ \A n \in net : n.type = "request"
      /\ \A p \in Parties : Idle(side[p]) /\ inbox[p] = <<>>
  BY DEF Unasked
<1>5. \A q \in Parties : \A i \in DOMAIN inbox'[q] : inbox'[q][i].type = "request"
  <2>1. \A q \in Parties : DOMAIN inbox[q] = {}
    BY <1>4
  <2> QED BY <1>3, <1>4, <2>1
<1>6. \A q \in Parties : Contacted(q)'
  <2>1. \A q \in Devices : inbox'[q] # <<>> /\ Head(inbox'[q]).type = "request"
    BY <1>3, <1>4 DEF Parties
  <2> QED BY <1>2, <1>4, <2>1 DEF Contacted, Parties
<1>7. \A n \in net' : n.type = "request"
  BY <1>1, <1>4
<1>8. \A p \in Parties : ~OwnCancel(side'[p]) /\ side'[p].eventsByThem = {}
  BY <1>2, <1>4 DEF Idle, OwnCancel
<1>9. Asked'
  BY <1>5, <1>6, <1>7, <1>8 DEF Asked
<1> QED BY <1>2, <1>4, <1>9

\* Nothing has been asked at the start.
LEMMA TellInit ==
  ASSUME Init
  PROVE  TellInv
BY DEF Init, TellInv, Unasked, Idle, Fresh, Parties

\* The invariant is inductive.
LEMMA TellStep ==
  ASSUME VerInv, TellInv, [Next]_vars
  PROVE  TellInv'
<1>1. SUFFICES ASSUME used'.failures = 0
               PROVE  Unasked' \/ NoRequest' \/ (side'[Initiator].devices # {} /\ Asked')
  BY DEF TellInv
<1>2. CASE UNCHANGED vars
  <2>1. side' = side /\ net' = net /\ inbox' = inbox /\ used' = used
    BY <1>2 DEF vars
  <2>2. Unasked \/ NoRequest \/ (side[Initiator].devices # {} /\ Asked)
    BY <1>1, <2>1 DEF TellInv
  <2>3. Unasked => Unasked'
    BY <2>1 DEF Unasked
  <2>4. NoRequest => NoRequest'
    BY <2>1 DEF NoRequest
  <2>5. Asked => Asked'
    BY <2>1 DEF Asked, Contacted, CancelComes, Told, Cancelling
  <2> QED BY <2>1, <2>2, <2>3, <2>4, <2>5
<1>3. CASE Next
  <2>1. (\E p \in Parties : \E t : Turn(p, t)) \/ (\E m \in net : Deliver(m))
    BY <1>3, EveryStep
  <2>2. used.failures = 0
    <3>1. ASSUME NEW m \in net, Deliver(m) PROVE used' = used
      BY <3>1 DEF Deliver
    <3> QED BY <1>1, <2>1, <3>1 DEF Turn
  <2>3. CASE Unasked
    BY <1>1, <1>3, <2>3, IdleRests, RequestGoes, BeginsWithout, RequestComes
  <2>4. CASE NoRequest
    BY <2>1, <2>4, NoRequestStays
  <2>5. CASE side[Initiator].devices # {} /\ Asked
    <3>1. ASSUME NEW p \in Parties, NEW t, Turn(p, t)
          PROVE  side'[Initiator].devices # {} /\ Asked'
      <4>1. Asked'
        BY <1>1, <2>5, <3>1, AskedStays
      <4>2. (\A q \in Parties : q # p => side'[q] = side[q]) /\ side'[p].devices = t.devices
        BY <3>1, TurnSides DEF Copy
      <4>3. side[p].devices # {} => t.devices = side[p].devices
        BY <3>1 DEF Turn, Kept
      <4> QED BY <2>5, <4>1, <4>2, <4>3 DEF Parties
    <3>2. ASSUME NEW m \in net, Deliver(m)
          PROVE  side'[Initiator].devices # {} /\ Asked'
      BY <2>5, <3>2, AskedDelivered, DeliverySends
    <3> QED BY <2>1, <3>1, <3>2
  <2> QED BY <2>2, <2>3, <2>4, <2>5 DEF TellInv
<1> QED BY <1>2, <1>3

\* A cancellation is told to the side that waits.
LEMMA TellsCancel ==
  ASSUME VerInv, TellInv
  PROVE  CancelIsTold
<1> SUFFICES ASSUME NEW d \in Devices, NEW p \in {d, Initiator}, NEW q \in {d, Initiator},
                    Paired(d), side[p].phase = "Cancelled", ~Over(side[q]),
                    hasRequest(side[q]), used.failures = 0,
                    p = d \/ Devices = {d} \/ OwnCancel(side[p])
             PROVE  \/ \E m \in net : m.type = "cancel" /\ (m.from = q \/ (q \in m.to /\ ~m.delivered))
                    \/ \E i \in DOMAIN inbox[q] : inbox[q][i].type = "cancel"
  BY DEF CancelIsTold, Over, OwnCancel
<1>1. /\ p \in Parties /\ q \in Peers(p) /\ side[p].deviceId = q /\ side[q].deviceId = p
      /\ p # None /\ q # None
  BY VerificationAssumption DEF Paired, Parties, Peers, Over
<1>2. Asked
  <2>1. ~Unasked
    BY <1>1 DEF Unasked, Idle
  <2>2. ~NoRequest
    BY <1>1, PeerFacts DEF NoRequest, hasRequest, hasRequestByThem
  <2> QED BY <2>1, <2>2 DEF TellInv
<1>3. CASE OwnCancel(side[p])
  <2>1. CancelComes(q)
    BY <1>1, <1>2, <1>3 DEF Asked, Target
  <2> QED BY <2>1 DEF CancelComes
<1>4. CASE ~OwnCancel(side[p])
  <2>1. "cancel" \in side[p].eventsByThem
    BY <1>1, <1>4 DEF VerInv, Closed
  <2>2. Peers(p) = {q}
    BY <1>1, <1>4, VerificationAssumption DEF Peers
  <2>3. Told(p, q)
    BY <1>1, <1>2, <2>1, <2>2 DEF Asked
  <2> QED BY <1>1, <2>3 DEF Told, Cancelling
<1> QED BY <1>3, <1>4

\* The types follow.
LEMMA VerTypes ==
  ASSUME VerInv
  PROVE  TypeOK
<1>1. State \subseteq [eventsByUs : SUBSET Types, eventsByThem : SUBSET Types, phase : Phases,
        verifierHasFinished : BOOLEAN, cancelled : BOOLEAN, timeoutTimer : BOOLEAN,
        devices : SUBSET Parties, deviceId : Starts,
        place : Places, startEvent : Starts, expectedEvent : Types \cup {"none"},
        waitingForAccept : BOOLEAN, promise : BOOLEAN, done : BOOLEAN, timer : BOOLEAN,
        commitment : Starts, gotMAC : BOOLEAN, confirmed : {"no", "sending", "yes"},
        out : SUBSET Wire]
  BY DEF State, Types
<1>2. ASSUME NEW s \in State, s.out = {} PROVE s \in Record
  BY <1>1, <1>2 DEF Record
<1>3. side \in [Parties -> Record]
  BY <1>2 DEF VerInv
<1>4. \A m \in net : m.from \in Parties /\ m.to \subseteq Parties /\ m.type \in Types /\ m.start \in Starts
  BY DEF VerInv, OnTheWire, Wire
<1>5. used \in [{"failures", "stops", "duplicates"} -> 0 .. MaxTroubles]
  <2>1. used \in [{"failures", "stops", "duplicates"} -> Nat]
    BY DEF VerInv, Counted
  <2>2. PICK f, s, c \in Nat : f = used.failures /\ s = used.stops /\ c = used.duplicates
    BY <2>1
  <2>3. f + s + c <= MaxTroubles
    BY <2>2 DEF VerInv, Counted
  <2>4. {f, s, c} \subseteq 0 .. MaxTroubles
    BY <2>3, VerificationAssumption
  <2> QED BY <2>1, <2>2, <2>4
<1> QED BY <1>3, <1>4, <1>5 DEF VerInv, TypeOK

\* The two sides of a verification follow one start event, and without a failed message
\* neither is left waiting for one that has cancelled: whatever the number of devices, the
\* order of messages, duplicates, timeouts and cancellations.
THEOREM VerificationAgrees == Spec => []SidesAgree
<1>1. Init => VerInv /\ TellInv
  BY VerInitInv, TellInit
<1>2. VerInv /\ TellInv /\ [Next]_vars => VerInv' /\ TellInv'
  BY VerStep, TellStep
<1>3. VerInv /\ TellInv => SidesAgree
  BY VerTypes, SameStarts, TellsCancel DEF SidesAgree
<1> QED BY <1>1, <1>2, <1>3, PTL DEF Spec

----------------------------------------------------------------------------
(* One-time keys.                                                          *)

OpenerRecord == [by : Nat, key : 1 .. keysMade]
KeyRecord == [keys : SUBSET (1 .. keysMade), fallback : 0 .. fallbacks, unused : BOOLEAN]
UploadRecord ==
  [at : {"idle", "ask", "make", "read", "send", "mark"}, count : Nat,
   keys : SUBSET (1 .. keysMade), fallback : 0 .. fallbacks]

KeysType ==
  /\ keysMade \in 0 .. MaxKeys /\ fallbacks \in Nat /\ claims \in Nat /\ keyMishaps \in Nat
  /\ account \in Seq(1 .. keysMade) /\ Len(account) <= 2 * keyLimit
  /\ unpublished \subseteq 1 .. keysMade /\ dropped \subseteq 1 .. keysMade
  /\ needsNewFallback \in BOOLEAN
  /\ oneTimeKeyCount \in 0 .. MaxKeys \cup {Unknown}
  /\ keyCounts.count \in 0 .. MaxKeys \cup {Unknown}
  /\ upload \in UploadRecord /\ keyServer \in KeyRecord
  /\ openers \subseteq OpenerRecord

\* The private keys that the account has, or had to drop.
Private == Range(account) \cup dropped

\* The keys that the client may still upload for the first time.
Unsent == (IF upload.at = "mark" THEN {} ELSE unpublished)
            \cup (IF upload.at = "send" THEN upload.keys ELSE {})

\* The keys of messages that are on their way.
Claimed == {m.key : m \in openers}

\* A key is yet to be uploaded, or on the server, or in one message: the account keeps
\* its private half until the message comes.
OnePlace ==
  /\ Unsent \cup keyServer.keys \cup Claimed \subseteq Private
  /\ Unsent \cap keyServer.keys = {} /\ Unsent \cap Claimed = {}
  /\ keyServer.keys \cap Claimed = {}
  /\ \A m, n \in openers : m.key = n.key => m = n
  /\ \A m \in openers : m.by < claims

KeysInv == KeysType /\ (unpublished \subseteq Range(account)) /\ (keyMishaps = 0 => OnePlace)
\* Taking out the i-th element leaves all the others.
LEMMA RemoveKeeps ==
  ASSUME NEW S, NEW s \in Seq(S), NEW i \in DOMAIN s
  PROVE  /\ RemoveAt(s, i) \in Seq(S)
         /\ Len(RemoveAt(s, i)) = Len(s) - 1
         /\ Range(RemoveAt(s, i)) \subseteq Range(s)
         /\ \A x \in Range(s) : x # s[i] => x \in Range(RemoveAt(s, i))
<1> DEFINE a == SubSeq(s, 1, i - 1)  b == SubSeq(s, i + 1, Len(s))  r == a \o b
<1>0. /\ Len(s) \in Nat /\ i \in 1 .. Len(s) /\ DOMAIN s = 1 .. Len(s)
      /\ \A j \in 1 .. Len(s) : s[j] \in S
  OBVIOUS
<1>1. /\ a \in Seq(S) /\ Len(a) = i - 1 /\ \A j \in 1 .. i - 1 : a[j] = s[j]
      /\ b \in Seq(S) /\ Len(b) = Len(s) - i /\ \A j \in 1 .. Len(s) - i : b[j] = s[i + j]
  <2>1. a \in Seq(S) /\ Len(a) = i - 1 /\ \A j \in 1 .. i - 1 : a[j] = s[j]
    BY <1>0
  <2>2. b \in Seq(S) /\ Len(b) = Len(s) - i /\ \A j \in 1 .. Len(s) - i : b[j] = s[i + j]
    <3>1. \A t \in Seq(S) : \A lo \in 1 .. Len(t) + 1 :
            /\ SubSeq(t, lo, Len(t)) \in Seq(S)
            /\ Len(SubSeq(t, lo, Len(t))) = Len(t) - lo + 1
            /\ \A j \in 1 .. Len(t) - lo + 1 : SubSeq(t, lo, Len(t))[j] = t[lo + j - 1]
      BY SMTT(30)
    <3>2. PICK lo \in 1 .. Len(s) + 1 : lo = i + 1
      BY <1>0
    <3>3. b = SubSeq(s, lo, Len(s))
      BY <3>2
    <3> HIDE DEF b
    <3>4. /\ b \in Seq(S) /\ Len(b) = Len(s) - lo + 1
          /\ \A j \in 1 .. Len(s) - lo + 1 : b[j] = s[lo + j - 1]
      BY <3>1, <3>3
    <3>5. Len(s) - lo + 1 = Len(s) - i /\ \A j \in 1 .. Len(s) - i : lo + j - 1 = i + j
      BY <1>0, <3>2
    <3> QED BY <3>4, <3>5
  <2> QED BY <2>1, <2>2
<1> HIDE DEF a, b
<1>2. /\ r \in Seq(S) /\ Len(r) = Len(s) - 1 /\ DOMAIN r = 1 .. Len(s) - 1
      /\ \A j \in 1 .. i - 1 : r[j] = s[j]
      /\ \A j \in i .. Len(s) - 1 : r[j] = s[j + 1]
  <2>1. /\ r \in Seq(S) /\ Len(r) = Len(a) + Len(b)
        /\ \A j \in 1 .. Len(a) + Len(b) : r[j] = IF j <= Len(a) THEN a[j] ELSE b[j - Len(a)]
    <3>1. a \in Seq(S) /\ b \in Seq(S) BY <1>1
    <3> QED BY ONLY <3>1
  <2> HIDE DEF r
  <2>0. Len(r) = Len(s) - 1
    BY <2>1, <1>0, <1>1
  <2>2. Len(r) = Len(s) - 1 /\ DOMAIN r = 1 .. Len(s) - 1
    BY <2>0, <2>1
  <2>3. ASSUME NEW j \in 1 .. i - 1 PROVE r[j] = s[j]
    <3>1. j \in 1 .. Len(a) + Len(b) /\ j <= Len(a) BY <1>0, <1>1
    <3> QED BY <3>1, <2>1, <1>1
  <2>4. ASSUME NEW j \in i .. Len(s) - 1 PROVE r[j] = s[j + 1]
    <3>1. j \in 1 .. Len(a) + Len(b) /\ ~(j <= Len(a)) BY <1>0, <1>1
    <3>2. j - Len(a) \in 1 .. Len(s) - i /\ i + (j - Len(a)) = j + 1 BY <1>0, <1>1
    <3> QED BY <3>1, <3>2, <2>1, <1>1
  <2> QED BY <2>1, <2>2, <2>3, <2>4
<1>3. RemoveAt(s, i) = r
  BY DEF RemoveAt, a, b
<1> HIDE DEF r
<1>4. Range(r) \subseteq Range(s)
  <2> SUFFICES ASSUME NEW j \in 1 .. Len(s) - 1 PROVE r[j] \in Range(s)
    BY <1>2 DEF Range
  <2>1. CASE j < i
    <3>1. j \in 1 .. i - 1 /\ j \in 1 .. Len(s) BY <2>1, <1>0
    <3> QED BY <3>1, <1>0, <1>2 DEF Range
  <2>2. CASE j >= i
    <3>1. j \in i .. Len(s) - 1 /\ j + 1 \in 1 .. Len(s) BY <2>2, <1>0
    <3> QED BY <3>1, <1>0, <1>2 DEF Range
  <2> QED BY <2>1, <2>2, <1>0
<1>5. ASSUME NEW j \in 1 .. Len(s), s[j] # s[i] PROVE s[j] \in Range(r)
  <2>1. CASE j < i BY <2>1, <1>0, <1>2 DEF Range
  <2>2. CASE j > i
    <3>1. j - 1 \in i .. Len(s) - 1 /\ (j - 1) + 1 = j BY <2>2, <1>0
    <3>2. r[j - 1] = s[j] BY <3>1, <1>2
    <3> QED BY <3>1, <3>2, <1>0, <1>2 DEF Range
  <2> QED BY <2>1, <2>2, <1>5, <1>0
<1>6. \A x \in Range(s) : x # s[i] => x \in Range(r)
  <2> SUFFICES ASSUME NEW x \in Range(s), x # s[i] PROVE x \in Range(r)
    OBVIOUS
  <2>1. PICK j \in 1 .. Len(s) : x = s[j]
    BY <1>0, Zenon DEF Range
  <2> QED BY <1>5, <2>1
<1> QED BY <1>2, <1>3, <1>4, <1>6

\* A set of keys is finite, with no more members than keys were made.
LEMMA KeysCounted ==
  ASSUME KeysType, NEW K \in SUBSET (1 .. keysMade)
  PROVE  Cardinality(K) \in 0 .. MaxKeys
<1>1. keysMade \in Nat /\ keysMade <= MaxKeys /\ MaxKeys \in Nat
  BY OneTimeKeysAssumption DEF KeysType, OneTimeKeysAssumption
<1>2. IsFiniteSet(1 .. keysMade) /\ Cardinality(1 .. keysMade) <= keysMade
  BY <1>1, FS_Interval
<1>3. IsFiniteSet(K) /\ Cardinality(K) <= Cardinality(1 .. keysMade)
  BY <1>2, FS_Subset
<1>4. Cardinality(K) \in Nat /\ Cardinality(1 .. keysMade) \in Nat
  BY <1>2, <1>3, FS_CardinalityType
<1> QED BY <1>1, <1>2, <1>3, <1>4

\* Cutting a sequence in two loses nothing.
LEMMA CutKeeps ==
  ASSUME NEW S, NEW s \in Seq(S), NEW n \in 0 .. Len(s)
  PROVE  LET front == SubSeq(s, 1, n)  rest == SubSeq(s, n + 1, Len(s)) IN
         /\ rest \in Seq(S) /\ Len(rest) = Len(s) - n
         /\ Range(front) \cup Range(rest) = Range(s)
<1> DEFINE front == SubSeq(s, 1, n)  rest == SubSeq(s, n + 1, Len(s))
<1>0. /\ Len(s) \in Nat /\ DOMAIN s = 1 .. Len(s)
      /\ \A j \in 1 .. Len(s) : s[j] \in S
  OBVIOUS
<1>1. /\ front \in Seq(S) /\ Len(front) = n /\ \A j \in 1 .. n : front[j] = s[j]
      /\ rest \in Seq(S) /\ Len(rest) = Len(s) - n
      /\ \A j \in 1 .. Len(s) - n : rest[j] = s[n + j]
  <2>1. n \in Nat /\ n <= Len(s) BY <1>0
  <2>2. front \in Seq(S) /\ Len(front) = n /\ \A j \in 1 .. n : front[j] = s[j]
    BY <1>0, <2>1
  <2>3. /\ rest \in Seq(S) /\ Len(rest) = Len(s) - n
        /\ \A j \in 1 .. Len(s) - n : rest[j] = s[n + j]
    <3>1. \A t \in Seq(S) : \A lo \in 1 .. Len(t) + 1 :
            /\ SubSeq(t, lo, Len(t)) \in Seq(S)
            /\ Len(SubSeq(t, lo, Len(t))) = Len(t) - lo + 1
            /\ \A j \in 1 .. Len(t) - lo + 1 : SubSeq(t, lo, Len(t))[j] = t[lo + j - 1]
      BY SMTT(30)
    <3>2. PICK lo \in 1 .. Len(s) + 1 : lo = n + 1
      BY <1>0, <2>1
    <3>3. rest = SubSeq(s, lo, Len(s))
      BY <3>2
    <3> HIDE DEF rest
    <3>4. /\ rest \in Seq(S) /\ Len(rest) = Len(s) - lo + 1
          /\ \A j \in 1 .. Len(s) - lo + 1 : rest[j] = s[lo + j - 1]
      BY <3>1, <3>3
    <3>5. Len(s) - lo + 1 = Len(s) - n /\ \A j \in 1 .. Len(s) - n : lo + j - 1 = n + j
      BY <1>0, <2>1, <3>2
    <3> QED BY <3>4, <3>5
  <2> QED BY <2>2, <2>3
<1> HIDE DEF front, rest
<1>2. DOMAIN front = 1 .. n /\ DOMAIN rest = 1 .. Len(s) - n
  BY <1>1
<1>3. Range(front) \subseteq Range(s)
  BY <1>0, <1>1, <1>2 DEF Range
<1>4. Range(rest) \subseteq Range(s)
  <2> SUFFICES ASSUME NEW j \in 1 .. Len(s) - n PROVE rest[j] \in Range(s)
    BY <1>2 DEF Range
  <2>1. n + j \in 1 .. Len(s) BY <1>0
  <2> QED BY <2>1, <1>0, <1>1 DEF Range
<1>5. ASSUME NEW j \in 1 .. Len(s) PROVE s[j] \in Range(front) \cup Range(rest)
  <2>1. CASE j <= n
    <3>1. j \in 1 .. n BY <2>1, <1>0
    <3> QED BY <3>1, <1>1, <1>2 DEF Range
  <2>2. CASE j > n
    <3>1. j - n \in 1 .. Len(s) - n /\ n + (j - n) = j BY <2>2, <1>0
    <3> QED BY <3>1, <1>1, <1>2 DEF Range
  <2> QED BY <2>1, <2>2, <1>0
<1>6. Range(front) \cup Range(rest) = Range(s)
  BY <1>0, <1>3, <1>4, <1>5 DEF Range
<1> QED BY <1>1, <1>6 DEF front, rest

\* New keys are fresh, and the account has them or has dropped them.
LEMMA GeneratedKeys ==
  ASSUME KeysType, generateKeys
  PROVE  /\ keysMade' \in 0 .. MaxKeys /\ keysMade <= keysMade'
         /\ account' \in Seq(1 .. keysMade') /\ Len(account') <= 2 * keyLimit
         /\ dropped' \subseteq 1 .. keysMade'
         /\ Private' = Private \cup (keysMade + 1 .. keysMade')
         /\ unpublished' \subseteq Range(account') \cap (unpublished \cup (keysMade + 1 .. keysMade'))
         /\ fallbacks' \in Nat /\ fallbacks <= fallbacks'
<1> DEFINE n == IF keyLimit > upload.count THEN Min({keyLimit - upload.count, maxKeysPerCycle}) ELSE 0
           more == [i \in 1 .. n |-> keysMade + i]
           all == account \o more
           over == IF Len(all) > 2 * keyLimit THEN Len(all) - 2 * keyLimit ELSE 0
<1>0. /\ keyLimit \in Nat /\ maxKeysPerCycle \in Nat /\ MaxKeys \in Nat /\ upload.count \in Nat
      /\ keysMade \in Nat /\ fallbacks \in Nat /\ account \in Seq(1 .. keysMade)
      /\ Len(account) \in Nat
  BY OneTimeKeysAssumption DEF OneTimeKeysAssumption, KeysType, UploadRecord
<1>1. n \in Nat
  <2>1. ASSUME NEW a \in Nat, NEW b \in Nat PROVE Min({a, b}) \in {a, b}
    <3>1. \E x \in {a, b} : \A y \in {a, b} : x <= y
      <4>1. CASE a <= b BY <4>1
      <4>2. CASE ~(a <= b) BY <4>2
      <4> QED BY <4>1, <4>2
    <3> QED BY <3>1 DEF Min
  <2>2. CASE keyLimit > upload.count
    <3>1. keyLimit - upload.count \in Nat BY <1>0, <2>2
    <3>2. Min({keyLimit - upload.count, maxKeysPerCycle}) \in Nat
      BY <3>1, <2>1, <1>0
    <3> QED BY <3>2, <2>2
  <2> QED BY <2>2
<1>2. /\ keysMade' = keysMade + n /\ keysMade + n <= MaxKeys
      /\ account' = SubSeq(all, over + 1, Len(all))
      /\ dropped' = dropped \cup Range(SubSeq(all, 1, over))
      /\ unpublished' = (unpublished \cup (keysMade + 1 .. keysMade + n)) \cap Range(account')
      /\ fallbacks' = IF needsNewFallback THEN fallbacks + 1 ELSE fallbacks
  BY DEF generateKeys
<1> HIDE DEF n
<1>3. keysMade' \in 0 .. MaxKeys /\ keysMade' \in Nat /\ keysMade <= keysMade'
  BY <1>0, <1>1, <1>2
<1>4. /\ more \in Seq(keysMade + 1 .. keysMade') /\ Len(more) = n /\ DOMAIN more = 1 .. n
      /\ \A i \in 1 .. n : more[i] = keysMade + i
  BY <1>0, <1>1, <1>2
<1> HIDE DEF more
<1>5. Range(more) = keysMade + 1 .. keysMade'
  <2>1. Range(more) \subseteq keysMade + 1 .. keysMade'
    BY <1>0, <1>1, <1>2, <1>4 DEF Range
  <2>2. ASSUME NEW k \in keysMade + 1 .. keysMade' PROVE k \in Range(more)
    <3>1. k - keysMade \in 1 .. n /\ keysMade + (k - keysMade) = k BY <1>0, <1>1, <1>2
    <3> QED BY <3>1, <1>4 DEF Range
  <2> QED BY <2>1, <2>2
<1>6. account \in Seq(1 .. keysMade') /\ more \in Seq(1 .. keysMade')
  <2>1. 1 .. keysMade \subseteq 1 .. keysMade' /\ keysMade + 1 .. keysMade' \subseteq 1 .. keysMade'
    BY <1>0, <1>3
  <2>2. ASSUME NEW S, NEW T, S \subseteq T, NEW s \in Seq(S) PROVE s \in Seq(T)
    <3>1. \A i \in 1 .. Len(s) : s[i] \in T BY <2>2
    <3> QED BY <3>1, <2>2
  <2> QED BY <2>1, <2>2, <1>0, <1>4
<1> HIDE DEF over
<1>7. /\ all \in Seq(1 .. keysMade') /\ Len(all) = Len(account) + n
      /\ DOMAIN all = 1 .. Len(account) + n
      /\ \A i \in 1 .. Len(account) + n :
           all[i] = IF i <= Len(account) THEN account[i] ELSE more[i - Len(account)]
  <2>1. /\ all \in Seq(1 .. keysMade') /\ Len(all) = Len(account) + Len(more)
        /\ \A i \in 1 .. Len(account) + Len(more) :
             all[i] = IF i <= Len(account) THEN account[i] ELSE more[i - Len(account)]
    BY <1>6
  <2> HIDE DEF all
  <2>2. DOMAIN all = 1 .. Len(all)
    BY <2>1
  <2> QED BY <2>1, <2>2, <1>4
<1> HIDE DEF all
<1>8. Range(all) = Range(account) \cup Range(more)
  <2>0. DOMAIN account = 1 .. Len(account) BY <1>0
  <2>1. ASSUME NEW i \in 1 .. Len(account) + n PROVE all[i] \in Range(account) \cup Range(more)
    <3>1. CASE i <= Len(account)
      <4>1. i \in 1 .. Len(account) BY <3>1, <1>0, <1>1
      <4> QED BY <4>1, <3>1, <1>7, <2>0 DEF Range
    <3>2. CASE ~(i <= Len(account))
      <4>1. i - Len(account) \in 1 .. n BY <3>2, <1>0, <1>1
      <4> QED BY <4>1, <3>2, <1>7, <1>4 DEF Range
    <3> QED BY <3>1, <3>2
  <2>2. ASSUME NEW i \in 1 .. Len(account) PROVE account[i] \in Range(all)
    <3>1. i \in 1 .. Len(account) + n /\ i <= Len(account) BY <1>0, <1>1
    <3> QED BY <3>1, <1>7 DEF Range
  <2>3. ASSUME NEW i \in 1 .. n PROVE more[i] \in Range(all)
    <3>1. /\ Len(account) + i \in 1 .. Len(account) + n /\ ~(Len(account) + i <= Len(account))
          /\ (Len(account) + i) - Len(account) = i
      BY <1>0, <1>1
    <3> QED BY <3>1, <1>7 DEF Range
  <2> QED BY <2>0, <2>1, <2>2, <2>3, <1>4, <1>7 DEF Range
<1>9. over \in 0 .. Len(all) /\ Len(all) - over <= 2 * keyLimit
  <2>1. Len(all) \in Nat /\ 2 * keyLimit \in Nat
    BY <1>0, <1>1, <1>7
  <2>2. CASE Len(all) > 2 * keyLimit
    BY <2>1, <2>2 DEF over
  <2>3. CASE ~(Len(all) > 2 * keyLimit)
    BY <2>1, <2>3 DEF over
  <2> QED BY <2>2, <2>3
<1>10. /\ account' \in Seq(1 .. keysMade') /\ Len(account') <= 2 * keyLimit
       /\ Range(SubSeq(all, 1, over)) \cup Range(account') = Range(all)
  BY <1>2, <1>7, <1>9, CutKeeps
<1>11. Private' = Private \cup (keysMade + 1 .. keysMade')
  BY <1>2, <1>5, <1>8, <1>10 DEF Private
<1>12. dropped' \subseteq 1 .. keysMade'
  <2>0. ASSUME NEW S, NEW s \in Seq(S) PROVE \A i \in DOMAIN s : s[i] \in S
    OBVIOUS
  <2>1. \A i \in DOMAIN all : all[i] \in 1 .. keysMade' BY <2>0, <1>7
  <2>3. \A x \in Range(all) : x \in 1 .. keysMade' BY <2>1 DEF Range
  <2>2. dropped \subseteq 1 .. keysMade' BY <1>0, <1>3 DEF KeysType
  <2> QED BY <2>3, <2>2, <1>2, <1>10
<1> QED BY <1>0, <1>2, <1>3, <1>10, <1>11, <1>12

\* What the server has is counted by what was made.
LEMMA KeysTypeStep ==
  ASSUME KeysInv, OneTimeKeysNext
  PROVE  KeysType' /\ (unpublished \subseteq Range(account))'
<1> USE DEF KeysInv, KeysType, KeyRecord, UploadRecord, OpenerRecord
<1>0. MaxKeys \in Nat /\ 0 \in 0 .. fallbacks /\ Unknown \in Int
      /\ \A n \in Nat : n # Unknown
  BY OneTimeKeysAssumption DEF OneTimeKeysAssumption, Unknown
<1>1. \A K \in SUBSET (1 .. keysMade) : Cardinality(K) \in 0 .. MaxKeys
  BY KeysCounted
<1>2. ASSUME NEW n \in Nat PROVE uploadHead(n) \in UploadRecord
  BY <1>2, <1>0 DEF uploadHead, NoUpload
<1>3. NoUpload \in UploadRecord
  BY <1>0 DEF NoUpload
<1>4. CASE syncAnswers
  <2>1. keyCounts'.count \in 0 .. MaxKeys
    BY <1>4, <1>1 DEF syncAnswers
  <2> QED BY <1>4, <2>1 DEF syncAnswers, accountVars
<1>5. ASSUME NEW due \in BOOLEAN, syncProcessed(due)
      PROVE KeysType' /\ (unpublished \subseteq Range(account))'
  <2>1. upload' \in UploadRecord
    BY <1>5, <1>0 DEF syncProcessed, maybeUploadOneTimeKeys, NoUpload
  <2>2. keyCounts'.count \in 0 .. MaxKeys \cup {Unknown}
    BY <1>5 DEF syncProcessed, NoCounts
  <2> QED BY <1>5, <2>1, <2>2 DEF syncProcessed, accountVars
<1>6. CASE loopStarts
  <2>1. Cardinality(keyServer.keys) \in Nat
    BY <1>1
  <2>2. upload' \in UploadRecord
    <3>1. (IF oneTimeKeyCount = Unknown THEN Cardinality(keyServer.keys) ELSE oneTimeKeyCount) \in Nat
      BY <2>1, <1>0
    <3> QED BY <3>1, <1>2, <1>6 DEF loopStarts
  <2> QED BY <1>6, <2>2 DEF loopStarts, accountVars
<1>7. CASE generateKeys
  <2>0. /\ keysMade \in Nat /\ keysMade' \in Nat /\ keysMade <= keysMade'
        /\ fallbacks \in Nat /\ fallbacks' \in Nat /\ fallbacks <= fallbacks'
        /\ 1 .. keysMade \subseteq 1 .. keysMade' /\ 0 .. fallbacks \subseteq 0 .. fallbacks'
    BY <1>7, GeneratedKeys
  <2>1. upload' \in UploadRecord' /\ keyServer' \in KeyRecord' /\ openers' \subseteq OpenerRecord'
    <3>1. /\ upload' = [upload EXCEPT !.at = "read"]
          /\ UNCHANGED <<keyServer, openers>>
      BY <1>7 DEF generateKeys
    <3>2. upload' \in UploadRecord'
      BY <3>1, <2>0
    <3>3. keyServer' \in KeyRecord'
      BY <3>1, <2>0
    <3> QED BY <3>1, <3>2, <3>3, <2>0
  <2>2. unpublished' \subseteq 1 .. keysMade' /\ unpublished' \subseteq Range(account')
    <3>1. unpublished' \subseteq Range(account') \cap (unpublished \cup (keysMade + 1 .. keysMade'))
      BY <1>7, GeneratedKeys
    <3>2. keysMade + 1 .. keysMade' \subseteq 1 .. keysMade'
      BY <2>0
    <3> QED BY <3>1, <3>2, <2>0
  <2>3. UNCHANGED <<oneTimeKeyCount, needsNewFallback, keyServer, keyCounts, openers, claims,
                    keyMishaps>>
    BY <1>7 DEF generateKeys
  <2> QED BY <1>7, <2>1, <2>2, <2>3, GeneratedKeys
<1>8. CASE keysRead
  <2>1. upload' \in UploadRecord
    <3>1. (IF needsNewFallback THEN fallbacks ELSE 0) \in 0 .. fallbacks
      BY <1>0
    <3>2. upload' = [upload EXCEPT !.at = "send", !.keys = unpublished,
                                  !.fallback = IF needsNewFallback THEN fallbacks ELSE 0]
      BY <1>8 DEF keysRead
    <3> QED BY <3>1, <3>2
  <2> QED BY <1>8, <2>1 DEF keysRead, accountVars
<1>9. stored \in KeyRecord
  BY DEF stored
<1>10. CASE uploadAnswered
  <2>1. Cardinality(stored.keys) \in Nat
    BY <1>1, <1>9
  <2>2. upload' \in UploadRecord
    BY <1>10, <2>1 DEF uploadAnswered
  <2> QED BY <1>10, <1>9, <2>2 DEF uploadAnswered, accountVars
<1>11. ASSUME NEW taken \in BOOLEAN, uploadFailed(taken)
       PROVE KeysType' /\ (unpublished \subseteq Range(account))'
  <2>1. /\ UNCHANGED <<accountVars, needsNewFallback, keyCounts, openers, claims>>
        /\ keyMishaps' = keyMishaps + 1 /\ (keyServer' = stored \/ keyServer' = keyServer)
        /\ upload' = NoUpload /\ oneTimeKeyCount' = Unknown
    BY <1>11 DEF uploadFailed
  <2>2. /\ UNCHANGED <<account, unpublished, fallbacks, keysMade, dropped>>
        /\ UNCHANGED <<needsNewFallback, keyCounts, openers, claims>>
    BY <2>1 DEF accountVars
  <2>3. keyMishaps' \in Nat /\ oneTimeKeyCount' \in 0 .. MaxKeys \cup {Unknown}
    BY <2>1
  <2>4. keyServer' \in KeyRecord' /\ upload' \in UploadRecord' /\ openers' \subseteq OpenerRecord'
    <3>1. keyServer' \in KeyRecord /\ upload' \in UploadRecord
      BY <2>1, <1>3, <1>9
    <3> QED BY <3>1, <2>2
  <2> QED BY <2>2, <2>3, <2>4
<1>12. CASE markKeysAsPublished
  <2>1. upload' \in UploadRecord
    BY <1>12, <1>2, <1>3 DEF markKeysAsPublished
  <2> QED BY <1>12, <2>1 DEF markKeysAsPublished
<1>13. CASE clientRestarts
  <2>1. keyCounts'.count = Unknown
    BY <1>13 DEF clientRestarts, NoCounts
  <2>2. /\ UNCHANGED <<accountVars, keyServer, openers, claims>>
        /\ keyMishaps' = keyMishaps + 1 /\ upload' = NoUpload
        /\ oneTimeKeyCount' = Unknown /\ needsNewFallback' = FALSE
    BY <1>13 DEF clientRestarts
  <2>3. keyMishaps' \in Nat /\ upload' \in UploadRecord'
    BY <2>2, <1>3 DEF accountVars
  <2>4. /\ UNCHANGED <<keysMade, fallbacks, claims, dropped, unpublished, keyServer, openers>>
        /\ account' = account
    BY <2>2 DEF accountVars
  <2> QED BY <2>1, <2>2, <2>3, <2>4
<1>14. CASE keyClaimed
  <2>1. keyServer' \in KeyRecord
    <3>1. \/ \E k \in keyServer.keys : keyServer' = [keyServer EXCEPT !.keys = @ \ {k}]
          \/ keyServer' = [keyServer EXCEPT !.unused = FALSE]
      BY <1>14, Zenon DEF keyClaimed
    <3>2. keyServer \in KeyRecord
      OBVIOUS
    <3>3. ASSUME NEW k, keyServer' = [keyServer EXCEPT !.keys = @ \ {k}]
          PROVE keyServer' \in KeyRecord
      BY ONLY <3>2, <3>3 DEF KeyRecord
    <3>4. ASSUME keyServer' = [keyServer EXCEPT !.unused = FALSE]
          PROVE keyServer' \in KeyRecord
      BY ONLY <3>2, <3>4
    <3> QED BY <3>1, <3>3, <3>4, Zenon
  <2>2. openers' \subseteq OpenerRecord
    BY <1>14 DEF keyClaimed
  <2>3. /\ UNCHANGED <<account, unpublished, fallbacks, keysMade, dropped>>
        /\ UNCHANGED <<oneTimeKeyCount, needsNewFallback, upload, keyCounts, keyMishaps>>
        /\ claims' = claims + 1
    BY <1>14 DEF keyClaimed, accountVars
  <2>4. keyServer' \in KeyRecord' /\ upload' \in UploadRecord' /\ openers' \subseteq OpenerRecord'
    BY <2>1, <2>2, <2>3
  <2> QED BY <2>3, <2>4
<1>15. ASSUME NEW m \in openers, keyUsed(m)
       PROVE KeysType' /\ (unpublished \subseteq Range(account))'
  <2>1. PICK i \in DOMAIN account : account[i] = m.key /\ account' = RemoveAt(account, i)
    BY <1>15 DEF keyUsed
  <2>2. /\ account' \in Seq(1 .. keysMade) /\ Len(account') = Len(account) - 1
        /\ \A x \in Range(account) : x # m.key => x \in Range(account')
    BY <2>1, RemoveKeeps
  <2>3. Len(account') <= 2 * keyLimit
    <3>1. Len(account) \in Nat /\ keyLimit \in Nat /\ Len(account) <= 2 * keyLimit
      BY OneTimeKeysAssumption DEF OneTimeKeysAssumption
    <3> QED BY <3>1, <2>2
  <2>4. unpublished' = unpublished \ {m.key} /\ openers' = openers \ {m}
    BY <1>15 DEF keyUsed
  <2> QED BY <1>15, <2>2, <2>3, <2>4 DEF keyUsed
<1> QED
  BY <1>4, <1>5, <1>6, <1>7, <1>8, <1>10, <1>11, <1>12, <1>13, <1>14, <1>15
     DEF OneTimeKeysNext, KeyLoop

\* A key moves on from one place to the next.
LEMMA OnePlaceStep ==
  ASSUME KeysInv, keyMishaps = 0, OneTimeKeysNext, keyMishaps' = 0
  PROVE  OnePlace'
<1> USE DEF KeysInv, OnePlace
<1>1. CASE syncAnswers
  BY <1>1 DEF syncAnswers, accountVars, Unsent, Private, Claimed
<1>2. ASSUME NEW due \in BOOLEAN, syncProcessed(due) PROVE OnePlace'
  <2>1. \/ upload' = upload
        \/ upload.at = "idle" /\ upload'.at \in {"idle", "ask"}
    BY <1>2 DEF syncProcessed, maybeUploadOneTimeKeys, NoUpload
  <2>2. Unsent' = Unsent
    BY <1>2, <2>1 DEF syncProcessed, accountVars, Unsent
  <2> QED BY <1>2, <2>2 DEF syncProcessed, accountVars, Private, Claimed
<1>3. CASE loopStarts
  <2>1. upload'.at \notin {"send", "mark"} /\ upload.at = "ask"
    BY <1>3 DEF loopStarts, uploadHead, NoUpload
  <2>2. Unsent' = Unsent
    BY <1>3, <2>1 DEF loopStarts, accountVars, Unsent
  <2> QED BY <1>3, <2>2 DEF loopStarts, accountVars, Private, Claimed
<1>4. CASE generateKeys
  <2>1. upload.at = "make" /\ upload'.at = "read"
    BY <1>4 DEF generateKeys, KeysType, UploadRecord
  <2>2. UNCHANGED <<keyServer, openers, claims>> /\ Claimed' = Claimed
    BY <1>4 DEF generateKeys, Claimed
  <2>3. Unsent = unpublished /\ Unsent' = unpublished'
    BY <2>1 DEF Unsent
  <2>4. /\ unpublished' \subseteq unpublished \cup (keysMade + 1 .. keysMade')
        /\ Private' = Private \cup (keysMade + 1 .. keysMade')
        /\ unpublished' \subseteq Range(account') /\ Range(account') \subseteq Private'
    BY <1>4, GeneratedKeys DEF Private
  <2>5. /\ keyServer.keys \subseteq 1 .. keysMade /\ Claimed \subseteq 1 .. keysMade
        /\ keysMade \in Nat
    BY DEF KeysType, KeyRecord, OpenerRecord, Claimed
  <2>6. \A k \in keysMade + 1 .. keysMade' : k \notin 1 .. keysMade
    BY <2>5
  <2> QED BY <2>2, <2>3, <2>4, <2>5, <2>6
<1>5. CASE keysRead
  <2>1. upload.at = "read" /\ upload'.at = "send" /\ upload'.keys = unpublished
    BY <1>5 DEF keysRead, KeysType, UploadRecord
  <2>2. Unsent' = Unsent
    BY <1>5, <2>1 DEF keysRead, accountVars, Unsent
  <2> QED BY <1>5, <2>2 DEF keysRead, accountVars, Private, Claimed
<1>6. CASE uploadAnswered
  <2>1. upload.at = "send" /\ upload'.at = "mark" /\ keyServer'.keys = keyServer.keys \cup upload.keys
    BY <1>6 DEF uploadAnswered, KeysType, UploadRecord, stored
  <2>2. Unsent' = {} /\ upload.keys \subseteq Unsent
    BY <2>1 DEF Unsent
  <2> QED BY <1>6, <2>1, <2>2 DEF uploadAnswered, accountVars, Private, Claimed
<1>7. ASSUME NEW taken \in BOOLEAN, uploadFailed(taken) PROVE OnePlace'
  BY <1>7 DEF uploadFailed, KeysType
<1>8. CASE markKeysAsPublished
  <2>1. Unsent' = {}
    BY <1>8 DEF markKeysAsPublished, Unsent, uploadHead, NoUpload
  <2> QED BY <1>8, <2>1 DEF markKeysAsPublished, Private, Claimed
<1>9. CASE clientRestarts
  BY <1>9 DEF clientRestarts, KeysType
<1>10. CASE keyClaimed
  <2>1. Unsent' = Unsent /\ Private' = Private
    BY <1>10 DEF keyClaimed, accountVars, Unsent, Private
  <2>2. ASSUME NEW k \in keyServer.keys,
               keyServer' = [keyServer EXCEPT !.keys = @ \ {k}],
               openers' = openers \cup {[by |-> claims, key |-> k]}
        PROVE OnePlace'
    <3>0. keyServer'.keys = keyServer.keys \ {k}
      BY <2>2 DEF KeysType, KeyRecord
    <3>1. keyServer'.keys = keyServer.keys \ {k} /\ Claimed' = Claimed \cup {k}
      <4>1. ASSUME NEW x \in openers PROVE x.key \in Claimed'
        BY <2>2 DEF Claimed
      <4>2. k \in Claimed'
        <5>1. [by |-> claims, key |-> k] \in openers' /\ [by |-> claims, key |-> k].key = k
          BY <2>2
        <5> QED BY <5>1 DEF Claimed
      <4>3. ASSUME NEW x \in openers' PROVE x.key \in Claimed \cup {k}
        BY <2>2 DEF Claimed
      <4> QED BY <3>0, <4>1, <4>2, <4>3 DEF Claimed
    <3>2. \A m, n \in openers' : m.key = n.key => m = n
      BY <2>2 DEF Claimed
    <3>3. claims' = claims + 1 /\ claims \in Nat /\ \A m \in openers : m.by \in Nat
      BY <1>10 DEF keyClaimed, KeysType, OpenerRecord
    <3>4. \A m \in openers' : m.by < claims'
      BY <2>2, <3>3
    <3> QED BY <2>1, <3>1, <3>2, <3>4
  <2>3. ASSUME keyServer' = [keyServer EXCEPT !.unused = FALSE], openers' = openers
        PROVE OnePlace'
    <3>1. keyServer'.keys = keyServer.keys /\ Claimed' = Claimed
      BY <2>3 DEF Claimed, KeysType, KeyRecord
    <3>3. claims' = claims + 1 /\ claims \in Nat /\ \A m \in openers : m.by \in Nat
      BY <1>10 DEF keyClaimed, KeysType, OpenerRecord
    <3>4. \A m \in openers' : m.by < claims'
      BY <2>3, <3>3
    <3> QED BY <2>1, <2>3, <3>1, <3>4
  <2> QED BY <1>10, <2>2, <2>3 DEF keyClaimed
<1>11. ASSUME NEW m \in openers, keyUsed(m) PROVE OnePlace'
  <2>1. PICK i \in DOMAIN account : account[i] = m.key /\ account' = RemoveAt(account, i)
    BY <1>11 DEF keyUsed
  <2>2. \A x \in Range(account) : x # m.key => x \in Range(account')
    BY <2>1, RemoveKeeps DEF KeysType
  <2>3. /\ unpublished' = unpublished \ {m.key} /\ openers' = openers \ {m}
        /\ UNCHANGED <<upload, keyServer, dropped, claims>>
    BY <1>11 DEF keyUsed
  <2>4. m.key \notin Unsent \cup keyServer.keys /\ m.key \notin Claimed'
    BY <2>3 DEF Claimed
  <2>5. Unsent' \subseteq Unsent /\ Claimed' \subseteq Claimed
    BY <2>3 DEF Unsent, Claimed
  <2>6. \A x \in Private : x # m.key => x \in Private'
    BY <2>2, <2>3 DEF Private
  <2> QED BY <2>3, <2>4, <2>5, <2>6
<1> QED
  BY <1>1, <1>2, <1>3, <1>4, <1>5, <1>6, <1>7, <1>8, <1>9, <1>10, <1>11
     DEF OneTimeKeysNext, KeyLoop

LEMMA KeysInvHolds == OneTimeKeysSpec => []KeysInv
<1>1. OneTimeKeysInit => KeysInv
  <2> SUFFICES ASSUME OneTimeKeysInit PROVE KeysInv
    OBVIOUS
  <2>0. /\ keyLimit \in Nat /\ MaxKeys \in Nat
        /\ account = <<>> /\ account \in Seq(1 .. keysMade) /\ Len(account) = 0
    BY OneTimeKeysAssumption DEF OneTimeKeysAssumption, OneTimeKeysInit
  <2>1. KeysType
    <3>1. upload \in UploadRecord /\ keyServer \in KeyRecord
      BY <2>0 DEF OneTimeKeysInit, UploadRecord, KeyRecord, NoUpload
    <3>2. /\ keyCounts.count = Unknown /\ oneTimeKeyCount = Unknown /\ openers = {}
          /\ unpublished = {} /\ dropped = {} /\ needsNewFallback = FALSE
          /\ keysMade = 0 /\ fallbacks = 0 /\ claims = 0 /\ keyMishaps = 0
      BY DEF OneTimeKeysInit, NoCounts
    <3>3. /\ keysMade \in 0 .. MaxKeys /\ Len(account) <= 2 * keyLimit
          /\ oneTimeKeyCount \in 0 .. MaxKeys \cup {Unknown}
      BY <2>0, <3>2
    <3> QED BY <2>0, <3>1, <3>2, <3>3, Zenon DEF KeysType
  <2> QED
    BY <2>1 DEF OneTimeKeysInit, KeysInv, OnePlace, Unsent, Claimed, Private, NoUpload
<1>2. KeysInv /\ [OneTimeKeysNext]_otkVars => KeysInv'
  <2> SUFFICES ASSUME KeysInv, [OneTimeKeysNext]_otkVars PROVE KeysInv'
    OBVIOUS
  <2>1. CASE UNCHANGED otkVars
    <3>1. KeysType'
      BY <2>1 DEF otkVars, KeysInv, KeysType, KeyRecord, UploadRecord, OpenerRecord
    <3>2. (unpublished \subseteq Range(account))' /\ (keyMishaps' = keyMishaps)
      BY <2>1 DEF otkVars, KeysInv
    <3>3. OnePlace' = OnePlace
      BY <2>1 DEF otkVars, OnePlace, Unsent, Claimed, Private
    <3> QED BY <3>1, <3>2, <3>3 DEF KeysInv
  <2>2. CASE OneTimeKeysNext
    <3>1. keyMishaps' = 0 => keyMishaps = 0
      <4>1. keyMishaps \in Nat /\ (keyMishaps' = keyMishaps \/ keyMishaps' = keyMishaps + 1)
        BY <2>2 DEF OneTimeKeysNext, KeyLoop, syncAnswers, syncProcessed, loopStarts, generateKeys,
                    keysRead, uploadAnswered, uploadFailed, markKeysAsPublished, clientRestarts,
                    keyClaimed, keyUsed, KeysInv, KeysType
      <4> QED BY <4>1
    <3>2. KeysType' /\ (unpublished \subseteq Range(account))'
      BY <2>2, KeysTypeStep
    <3>3. keyMishaps' = 0 => OnePlace'
      BY <2>2, <3>1, OnePlaceStep
    <3> QED BY <3>2, <3>3 DEF KeysInv
  <2> QED BY <2>1, <2>2
<1> QED BY <1>1, <1>2, PTL DEF OneTimeKeysSpec

\* As long as no upload failed and the page was not reloaded, a key the server hands out and
\* a key a message was made with have their private half in the account, unless a full
\* account dropped it, and no key is handed out twice (uploadOneTimeKeys, markKeysAsPublished).
THEOREM KeysHeld == OneTimeKeysSpec => [](OneTimeKeysTypeOK /\ KeyIsHeld)
<1>1. KeysInv => OneTimeKeysTypeOK
  <2> SUFFICES ASSUME KeysInv PROVE OneTimeKeysTypeOK
    OBVIOUS
  <2>1. Range(account) \subseteq 1 .. keysMade
    <3>1. \A i \in DOMAIN account : account[i] \in 1 .. keysMade
      BY DEF KeysInv, KeysType
    <3> QED BY <3>1 DEF Range
  <2> QED BY <2>1 DEF KeysInv, KeysType, KeyRecord, UploadRecord, OneTimeKeysTypeOK
<1>2. KeysInv => KeyIsHeld
  BY DEF KeysInv, OnePlace, KeyIsHeld, Claimed, Private
<1> QED BY <1>1, <1>2, KeysInvHolds, PTL

----------------------------------------------------------------------------
(* Interactive auth.                                                       *)

\* A call's record has three fields; only where the call is matters here.
CallRecord(r) == DOMAIN r = {"at", "stage", "background"}

\* Who is under way holds submitPromise; the first request never waits and never holds it.
HoldsPromise ==
  /\ AuthTypeOK
  /\ submission = [c \in Calls |-> submission[c]]
  /\ \A c \in Calls : CallRecord(submission[c])
  /\ \A c \in Call : submission[c].at \in {"sent", "token"} => submitting = c
  /\ submission["first"].at # "waits" /\ submitting # "first"
\* A call that is moved on keeps its record's shape, and the others are as they were.
LEMMA MoveCall ==
  ASSUME HoldsPromise, NEW c \in Calls, NEW where,
         submission' = [submission EXCEPT ![c].at = where]
  PROVE  /\ submission' = [d \in Calls |-> submission'[d]]
         /\ \A d \in Calls : CallRecord(submission'[d])
         /\ submission'[c].at = where
         /\ \A d \in Calls \ {c} : submission'[d] = submission[d]
  BY DEF HoldsPromise, CallRecord

LEMMA BeginCall ==
  ASSUME NEW calls, calls = [d \in Calls |-> calls[d]], NEW c \in Calls, NEW stage, NEW bg, NEW s
  PROVE  /\ beginCall(calls, c, stage, bg, s) = [d \in Calls |-> beginCall(calls, c, stage, bg, s)[d]]
         /\ CallRecord(beginCall(calls, c, stage, bg, s)[c])
         /\ beginCall(calls, c, stage, bg, s)[c].at = IF s = Nothing THEN "sent" ELSE "waits"
         /\ \A d \in Calls \ {c} : beginCall(calls, c, stage, bg, s)[d] = calls[d]
  BY DEF beginCall, CallRecord

LEMMA PromiseStep == HoldsPromise /\ [AuthNext]_authVars => HoldsPromise'
<1> SUFFICES ASSUME HoldsPromise, [AuthNext]_authVars PROVE HoldsPromise'
  OBVIOUS
<1>0. "first" \notin Call /\ Nothing \notin Calls /\ Calls = Call \cup {"first"}
  BY InteractiveAuthAssumption DEF InteractiveAuthAssumption, Calls, Nothing
<1>1. CASE UNCHANGED authVars
  BY <1>1 DEF authVars, HoldsPromise, AuthTypeOK, CallRecord
\* A call that ends gives the promise back.
<1>2. ASSUME NEW c \in Calls, submission[c].at \in {"sent", "token"},
             submission' = [submission EXCEPT ![c].at = "over"], submitting' = release(c),
             attempt' \in {Nothing, "open", "resolved", "rejected"}, deferred' \in BOOLEAN
      PROVE  HoldsPromise'
  <2>1. /\ submission' = [d \in Calls |-> submission'[d]]
        /\ \A d \in Calls : CallRecord(submission'[d])
        /\ submission'[c].at = "over"
        /\ \A d \in Calls \ {c} : submission'[d] = submission[d]
    BY <1>2, MoveCall
  <2>2. \A d \in Calls : submission'[d].at \in {"over", submission[d].at}
    BY <2>1
  <2>3. ASSUME NEW d \in Call, submission'[d].at \in {"sent", "token"} PROVE submitting' = d
    <3>1. d # c /\ submission[d].at \in {"sent", "token"} BY <1>0, <2>1, <2>3
    <3> QED BY <3>1, <1>2 DEF HoldsPromise, release
  <2>4. AuthTypeOK'
    BY <1>2, <2>2 DEF HoldsPromise, AuthTypeOK, release
  <2>5. submission'["first"].at # "waits" /\ submitting' # "first"
    BY <1>0, <1>2, <2>2 DEF HoldsPromise, release, Nothing
  <2> QED BY <2>1, <2>3, <2>4, <2>5 DEF HoldsPromise
<1>3. CASE attemptAuth
  <2>1. /\ submission' = [d \in Calls |-> submission'[d]]
        /\ \A d \in Calls : CallRecord(submission'[d])
        /\ submission'["first"].at = "sent"
        /\ \A d \in Call : submission'[d] = submission[d]
    BY <1>0, <1>3 DEF attemptAuth, HoldsPromise, CallRecord, NewCall
  <2> QED BY <1>0, <1>3, <2>1 DEF attemptAuth, HoldsPromise, AuthTypeOK
<1>4. ASSUME NEW c \in Call, NEW background \in BOOLEAN, submitAuthDict(c, background)
      PROVE  HoldsPromise'
  <2>1. /\ submission' = [d \in Calls |-> submission'[d]]
        /\ \A d \in Calls : CallRecord(submission'[d])
        /\ submission'[c].at = IF submitting = Nothing THEN "sent" ELSE "waits"
        /\ \A d \in Calls \ {c} : submission'[d] = submission[d]
    <3>1. submission' = beginCall(submission, c, currentStage, background, submitting)
      BY <1>4 DEF submitAuthDict
    <3>2. /\ submission = [d \in Calls |-> submission[d]] /\ c \in Calls
          /\ \A d \in Calls : CallRecord(submission[d])
      BY <1>0 DEF HoldsPromise
    <3>3. /\ submission' = [d \in Calls |-> submission'[d]]
          /\ CallRecord(submission'[c])
          /\ submission'[c].at = IF submitting = Nothing THEN "sent" ELSE "waits"
          /\ \A d \in Calls \ {c} : submission'[d] = submission[d]
      BY ONLY <3>1, <3>2, BeginCall
    <3> QED BY <3>2, <3>3
  <2>2. /\ submitting' = IF submitting = Nothing THEN c ELSE submitting
        /\ UNCHANGED <<attempt, deferred>>
    BY <1>4 DEF submitAuthDict
  <2> QED BY <1>0, <2>1, <2>2 DEF HoldsPromise, AuthTypeOK
<1>5. ASSUME NEW c \in Calls, waitOver(c) PROVE HoldsPromise'
  BY <1>0, <1>5, MoveCall DEF waitOver, HoldsPromise, AuthTypeOK
<1>6. ASSUME NEW c \in Calls, authenticated(c) PROVE HoldsPromise'
  BY <1>2, <1>6 DEF authenticated, HoldsPromise, AuthTypeOK
<1>7. ASSUME NEW c \in Calls, NEW d \in Call, unauthenticated(c, d) PROVE HoldsPromise'
  <2> DEFINE token == chooseFlow # <<>> /\ Email \in Range(chooseFlow) /\ ~emailSid
                        /\ ~requestingEmailToken
             after == [submission EXCEPT ![c].at = IF token THEN "token" ELSE "over"]
             held == IF token THEN submitting ELSE release(c)
  <2>1. /\ submission[c].at = "sent"
        /\ attempt' \in {Nothing, "open", "resolved", "rejected"} /\ deferred' \in BOOLEAN
    BY <1>7 DEF unauthenticated, HoldsPromise, AuthTypeOK
  <2>2. \/ /\ submission[d].at = "new" /\ d # c
           /\ submission' = beginCall(after, d, Dummy, FALSE, submitting)
           /\ submitting' = IF submission'[d].at = "sent" THEN d ELSE held
        \/ submission' = after /\ submitting' = held
    BY <1>7, Zenon DEF unauthenticated
  <2>3. token \in BOOLEAN /\ d \in Calls
    BY <1>0
  <2> HIDE DEF token
  <2>4. /\ after = [e \in Calls |-> after[e]]
        /\ \A e \in Calls : CallRecord(after[e])
        /\ after[c].at \in {"token", "over"} /\ (after[c].at = "token" => token)
        /\ \A e \in Calls \ {c} : after[e] = submission[e]
    BY DEF HoldsPromise, CallRecord
  <2> HIDE DEF after
  <2>5. /\ held \in {submitting, Nothing} /\ (c \in Call => submitting = c)
        /\ (token => held = submitting) /\ (held # submitting => submitting = c)
    BY <1>0, <2>1 DEF release, HoldsPromise
  <2> HIDE DEF held
  <2>6. CASE submission' = after /\ submitting' = held
    BY <1>0, <2>1, <2>4, <2>5, <2>6 DEF HoldsPromise, AuthTypeOK
  <2>7. CASE /\ submission[d].at = "new" /\ d # c
             /\ submission' = beginCall(after, d, Dummy, FALSE, submitting)
             /\ submitting' = IF submission'[d].at = "sent" THEN d ELSE held
    <3>1. /\ submission' = [e \in Calls |-> submission'[e]]
          /\ CallRecord(submission'[d])
          /\ submission'[d].at = IF submitting = Nothing THEN "sent" ELSE "waits"
          /\ \A e \in Calls \ {d} : submission'[e] = after[e]
      <4>1. PICK calls : calls = after
        OBVIOUS
      <4>2. PICK call : call = [at |-> IF submitting = Nothing THEN "sent" ELSE "waits",
                                stage |-> Dummy, background |-> FALSE]
        OBVIOUS
      <4>3. submission' = [calls EXCEPT ![d] = call]
        BY <2>7, <4>1, <4>2 DEF beginCall
      <4>4. calls = [e \in Calls |-> calls[e]]
        BY <2>4, <4>1
      <4>5. CallRecord(call) /\ call.at = IF submitting = Nothing THEN "sent" ELSE "waits"
        BY <4>2 DEF CallRecord
      <4> QED BY <2>3, <4>1, <4>3, <4>4, <4>5
    <3>2. /\ \A e \in Calls : CallRecord(submission'[e])
          /\ submission'[c].at \in {"token", "over"} /\ (submission'[c].at = "token" => token)
          /\ \A e \in Calls \ {c, d} : submission'[e] = submission[e]
      BY <2>3, <2>4, <2>7, <3>1
    <3>3. AuthTypeOK'
      <4>1. \A e \in Calls : submission'[e].at \in {"new", "waits", "sent", "token", "over"}
        BY <3>1, <3>2 DEF HoldsPromise, AuthTypeOK
      <4> QED BY <1>0, <2>1, <2>5, <2>7, <4>1 DEF HoldsPromise, AuthTypeOK
    <3>4. submission'["first"].at # "waits" /\ submitting' # "first"
      BY <1>0, <2>3, <2>5, <2>7, <3>1, <3>2 DEF HoldsPromise, Nothing
    <3>5. ASSUME NEW e \in Call, submission'[e].at \in {"sent", "token"} PROVE submitting' = e
      <4>1. CASE e = d
        BY <4>1, <2>7, <3>1, <3>5
      <4>2. CASE e # d /\ e # c
        <5>1. submitting = e /\ e # Nothing
          BY <1>0, <3>2, <3>5, <4>2 DEF HoldsPromise
        <5>2. submitting' = held
          BY <5>1, <2>7, <3>1
        <5> QED BY <5>1, <5>2, <2>5, <4>2
      <4>3. CASE e = c /\ e # d
        <5>1. token /\ held = submitting /\ submitting = e /\ e # Nothing
          BY <1>0, <2>5, <3>2, <3>5, <4>3
        <5> QED BY <5>1, <2>7, <3>1
      <4> QED BY <4>1, <4>2, <4>3
    <3> QED BY <3>1, <3>2, <3>3, <3>4, <3>5 DEF HoldsPromise
  <2> QED BY <2>2, <2>6, <2>7
<1>8. ASSUME NEW c \in Calls, requestFailed(c) PROVE HoldsPromise'
  BY <1>2, <1>8 DEF requestFailed, HoldsPromise, AuthTypeOK
<1>9. ASSUME NEW c \in Calls, NEW good \in BOOLEAN, emailTokenAnswered(c, good) PROVE HoldsPromise'
  BY <1>2, <1>9 DEF emailTokenAnswered, HoldsPromise, AuthTypeOK
<1> QED
  BY <1>1, <1>3, <1>4, <1>5, <1>6, <1>7, <1>8, <1>9 DEF AuthNext, AuthProgress

\* However calls of submitAuthDict by the application, by polls and for the dummy stage
\* overlap, one at a time is under way, and submitPromise is its promise (interactive-auth.ts).
THEOREM OneAtATime == AuthSpec => [](AuthTypeOK /\ OneSubmission)
<1>1. AuthInit => HoldsPromise
  <2> SUFFICES ASSUME AuthInit PROVE HoldsPromise
    OBVIOUS
  <2>1. \A c \in Calls : submission[c] = NewCall
    BY DEF AuthInit
  <2>2. submission = [c \in Calls |-> submission[c]]
    BY DEF AuthInit
  <2>3. "first" \in Calls /\ Call \subseteq Calls /\ Nothing # "first"
    BY DEF Calls, Nothing
  <2>4. CallRecord(NewCall) /\ NewCall.at = "new"
    BY DEF CallRecord, NewCall
  <2> QED BY <2>1, <2>2, <2>3, <2>4 DEF AuthInit, HoldsPromise, AuthTypeOK
<1>2. HoldsPromise => OneSubmission
  <2> DEFINE atWork == {c \in Call : submission[c].at \in {"sent", "token"}}
  <2> SUFFICES ASSUME HoldsPromise PROVE Cardinality(atWork) <= 1
    BY DEF OneSubmission, HoldsPromise
  <2>1. atWork \in SUBSET {submitting}
    BY DEF HoldsPromise
  <2>2. IsFiniteSet({submitting}) /\ Cardinality({submitting}) = 1
    BY FS_Singleton
  <2> QED BY <2>1, <2>2, FS_Subset
<1> QED BY <1>1, <1>2, PromiseStep, PTL DEF AuthSpec, HoldsPromise
=============================================================================
