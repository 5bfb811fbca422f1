-------------------------- MODULE TimelinesProofs --------------------------
(***************************************************************************)
(* That no event of the room is lost, for rooms of any length, pages of    *)
(* any size and any number of requests, jumps, echoes and gaps.            *)
(*                                                                         *)
(* The invariant has two parts.  TypeInv holds always: the index agrees    *)
(* with the timelines.  WholeInv holds until a timeline is torn: the       *)
(* timelines since the last reset (those from oldest on) are Sound, that   *)
(* is                                                                      *)
(*   - Apart: an event is in one timeline, the one the index says, in the  *)
(*     order of the room, and a timeline has every event between two of    *)
(*     its own;                                                            *)
(*   - LinkedOk: a link is mutual and joins neighbours in the room;        *)
(*   - EndsOk: a token continues its timeline, and an end with neither     *)
(*     token nor link is an end of the room, or the live one.              *)
(*                                                                         *)
(* What a page will do when it comes depends on where it was asked for:    *)
(* RequestsStand, that what a request continues still is an end of its     *)
(* timeline or inside of it.  compareEventOrdering follows any number of   *)
(* links: that two timelines so joined are in the order of the room is     *)
(* shown by the number of links.                                           *)
(*                                                                         *)
(* addEventsToTimeline and addLiveEvents are loops, in the model functions *)
(* of how many events were taken.  Each is reasoned about by a relation    *)
(* between one turn and the next (Turn, LiveTurn); the lemmas on turns say *)
(* what it keeps, and UpFromZero carries that from the first turn to the   *)
(* last.  A timeline that is new has its token still to come: the x of     *)
(* EndsOk.                                                                 *)
(***************************************************************************)
EXTENDS Timelines, SequenceTheorems, WellFoundedInduction, TLAPS

-----------------------------------------------------------------------------
(* The invariant.                                                          *)

Token == 0 .. MaxHead \cup {None}

In(tl, e) == \E k \in DOMAIN tl.evs : tl.evs[k] = e

Holds(ts, i, e) == In(ts[i], e)

\* What a timeline is, of n.
Timeline(n) == [evs : Seq(Id), base : Nat, token : [Dir -> Token], next : [Dir -> 0 .. n]]

\* The timelines and the index of a client, torn or not.
Typed(ts, ix) ==
  /\ ts \in Seq(Timeline(Len(ts)))
  /\ \A i \in DOMAIN ts : ts[i].base <= Len(ts[i].evs)
  /\ ix \in [Id -> 0 .. Len(ts)]
  /\ \A e \in Id : ix[e] # NoTl => Holds(ts, ix[e], e)

\* Every timeline has an event of the server, except perhaps one that is new.
Filled(ts, new) == \A i \in DOMAIN ts : i # new => \E e \in Event : Holds(ts, i, e)

Ordered(es) == \A k, l \in DOMAIN es : k < l /\ Echo \notin {es[k], es[l]} => es[k] < es[l]

\* Position t is next to an event of timeline i.
Stands(ix, i, t) == \E e \in Event : ix[e] = i /\ e \in {t, t + 1}

\* The timelines that are not forgotten have each their own events, in order.
Apart(ts, ix, o) ==
  /\ \A e \in Event : ix[e] # NoTl => ix[e] >= o
  /\ \A i \in o .. Len(ts) : /\ Ordered(ts[i].evs)
                             /\ \A e \in Event : Holds(ts, i, e) => ix[e] = i
  /\ \A a, b, x \in Event : a <= x /\ x <= b /\ ix[a] # NoTl /\ ix[a] = ix[b] => ix[x] = ix[a]

\* Links are mutual and leave nothing out.
LinkedOk(ts, ix, o) ==
  \A i \in o .. Len(ts), d \in Dir :
    LET j == ts[i].next[d]
    IN  j # NoTl => /\ j >= o /\ j # i
                    /\ ts[j].next[Opposite(d)] = i
                    /\ d = "f" => \E x \in Event : x + 1 \in Event /\ ix[x] = i /\ ix[x + 1] = j

\* A token continues its timeline, and where there is neither token nor link
\* the room ends; x has its token still to come.
EndsOk(ts, ix, o, lv, x) ==
  \A i \in o .. Len(ts) :
    /\ \A d \in Dir : ts[i].token[d] # None => Stands(ix, i, ts[i].token[d])
    /\ i # x /\ ts[i].next["b"] = NoTl /\ ts[i].token["b"] = None => ix[1] = i
    /\ i # lv /\ ts[i].next["f"] = NoTl => ts[i].token["f"] # None
    /\ i = lv => ts[i].next["f"] = NoTl /\ ts[i].token["f"] = None

Sound(ts, ix, o, lv, x) == Apart(ts, ix, o) /\ LinkedOk(ts, ix, o) /\ EndsOk(ts, ix, o, lv, x)

Point(n) == [tl : 1 .. n, idx : Int, left : Int, on : 0 .. n]

Opened(n) == [open : {TRUE}, start : Point(n), end : Point(n), count : Int]

WindowType(w, n) == w = NoWindow \/ w \in Opened(n)

\* Requests, and the timelines they continue; the scrollback's is the live one
\* of then.
RequestsType(as, n, lv) ==
  \A r \in as : /\ r \in [tl : 0 .. n, dir : Dir, from : 0 .. MaxHead, at : Nat \ {0}]
                /\ r.tl = NoTl => r.dir = "b" /\ r.at <= lv

RequestsStand(as, ix, o, lv) ==
  \A r \in as : /\ r.tl >= o => Stands(ix, r.tl, r.from)
                /\ r.tl = NoTl /\ r.at = lv => Stands(ix, lv, r.from)

TypeInv ==
  /\ head \in Event /\ synced \in Event /\ synced <= head
  /\ plan \in Plans /\ head <= plan.head
  /\ style \in {"scrollback", "timelines"}
  /\ live \in DOMAIN tls /\ oldest \in 1 .. live
  /\ Typed(tls, index) /\ Filled(tls, NoTl)
  /\ RequestsType(requests, Len(tls), live)
  /\ \A r \in requests : r.tl = NoTl => style = "scrollback"
  /\ loading \subseteq [ev : Event, at : Event]
  /\ \A l \in loading : l.ev <= l.at
  /\ style = "scrollback" => loading = {}
  /\ WindowType(window, Len(tls))
  /\ echo \in BOOLEAN
  /\ upset \subseteq {"skipped", "refused", "forgotten", "overtaken", "removed"}

WholeInv ==
  /\ Sound(tls, index, oldest, live, NoTl)
  /\ \A i \in 1 .. oldest - 1 : Run(tls[i].evs)
  /\ index[synced] = live
  /\ RequestsStand(requests, index, oldest, live)
  /\ style = "scrollback" => oldest = Len(tls)

TimelinesInv == TypeInv /\ (~Torn => WholeInv)

-----------------------------------------------------------------------------
(* Numbers.                                                                *)

\* Numbers up to p have a greatest one.
LEMMA Greatest ==
  ASSUME NEW p \in Nat, NEW ks, ks \subseteq 1 .. p, ks # {}
  PROVE  \E k \in ks : \A j \in ks : j <= k
<1> DEFINE T == {p - k : k \in ks}
           R == {z \in Nat \X Nat : z[1] < z[2]}
<1>1. T \subseteq Nat /\ T # {}
  <2>1. \A k \in ks : p - k \in Nat
    OBVIOUS
  <2>2. PICK k \in ks : TRUE
    OBVIOUS
  <2>3. p - k \in T
    BY <2>2
  <2> QED BY <2>1, <2>3
<1>2. IsWellFoundedOn(R, Nat)
  BY NatLessThanWellFounded DEF OpToRel
<1>3. \E x \in T : \A y \in T : ~(<<y, x>> \in R)
  <2> HIDE DEF T, R
  <2> QED BY <1>1, <1>2, WFMin
<1>4. PICK x \in T : \A y \in T : ~(y < x)
  BY <1>1, <1>3
<1>5. PICK k \in ks : x = p - k
  BY <1>4
<1>6. ASSUME NEW j \in ks PROVE j <= k
  BY <1>4, <1>5, p - j \in T
<1> QED BY <1>6

\* Numbers up to p have a least one.
LEMMA Least ==
  ASSUME NEW p \in Nat, NEW ks, ks \subseteq 1 .. p, ks # {}
  PROVE  \E k \in ks : \A j \in ks : k <= j
<1> DEFINE T == {p + 1 - k : k \in ks}
<1>1. T \subseteq 1 .. p /\ T # {}
  <2>1. \A k \in ks : p + 1 - k \in 1 .. p
    OBVIOUS
  <2>2. PICK k \in ks : p + 1 - k \in T
    OBVIOUS
  <2> QED BY <2>1, <2>2
<1>2. PICK z \in T : \A j \in T : j <= z
  <2> HIDE DEF T
  <2> QED BY <1>1, Greatest
<1>3. PICK k \in ks : z = p + 1 - k
  OBVIOUS
<1>4. ASSUME NEW j \in ks PROVE k <= j
  <2>1. p + 1 - j \in T
    OBVIOUS
  <2> HIDE DEF T
  <2> QED BY <1>2, <1>3, <2>1
<1> QED BY <1>4

\* What holds of zero and of each next number holds of all.
LEMMA UpFromZero ==
  ASSUME NEW n \in Nat, NEW T, 0 \in T, \A k \in 0 .. n : k \in T /\ k < n => k + 1 \in T
  PROVE  n \in T
<1> SUFFICES ASSUME n \notin T PROVE FALSE
  OBVIOUS
<1> DEFINE ks == {k \in 1 .. n : k \notin T}
<1>1. n \in ks
  OBVIOUS
<1>2. PICK k \in ks : \A j \in ks : k <= j
  <2>1. ks \subseteq 1 .. n /\ ks # {}
    BY <1>1
  <2> HIDE DEF ks
  <2> QED BY <2>1, Least
<1>3. k - 1 \in T
  <2>1. CASE k = 1
    BY <2>1
  <2>2. CASE k # 1
    BY <1>2, <2>2
  <2> QED BY <2>1, <2>2
<1>4. k - 1 \in 0 .. n /\ k - 1 < n /\ (k - 1) + 1 = k
  OBVIOUS
<1> QED BY <1>3, <1>4

-----------------------------------------------------------------------------
(* One timeline.                                                           *)

\* Where tl2 has its events when e is put to the start or the end of tl.
Puts(tl, e, d, tl2) ==
  /\ Len(tl2.evs) = Len(tl.evs) + 1
  /\ d = "b" => tl2.evs[1] = e /\ \A k \in 2 .. Len(tl2.evs) : tl2.evs[k] = tl.evs[k - 1]
  /\ d = "f" => /\ tl2.evs[Len(tl2.evs)] = e
                 /\ \A k \in 1 .. Len(tl.evs) : tl2.evs[k] = tl.evs[k]

\* addEvent puts the event where it is told to and leaves the rest alone.
LEMMA AddEventIs ==
  ASSUME NEW n \in Nat, NEW tl \in Timeline(n), tl.base <= Len(tl.evs), NEW e \in Id,
         NEW d \in Dir
  PROVE  LET tl2 == addEvent(tl, e, d = "b")
         IN  /\ tl2 \in Timeline(n) /\ tl2.base <= Len(tl2.evs)
             /\ tl2.token = tl.token /\ tl2.next = tl.next
             /\ Puts(tl, e, d, tl2)
<1>1. /\ tl.evs \in Seq(Id) /\ tl.base \in Nat /\ Len(tl.evs) \in Nat
      /\ tl = [evs |-> tl.evs, base |-> tl.base, token |-> tl.token, next |-> tl.next]
      /\ tl.token \in [Dir -> Token] /\ tl.next \in [Dir -> 0 .. n]
  BY DEF Timeline
<1> DEFINE tl2 == addEvent(tl, e, d = "b")
<1>2. CASE d = "b"
  <2>1. tl2 = [evs |-> <<e>> \o tl.evs, base |-> tl.base + 1, token |-> tl.token, next |-> tl.next]
    BY <1>1, <1>2 DEF addEvent
  <2>2. /\ <<e>> \o tl.evs \in Seq(Id) /\ Len(<<e>> \o tl.evs) = Len(tl.evs) + 1
        /\ (<<e>> \o tl.evs)[1] = e
        /\ \A k \in 2 .. Len(tl.evs) + 1 : (<<e>> \o tl.evs)[k] = tl.evs[k - 1]
    BY <1>1
  <2> HIDE DEF tl2
  <2>3. /\ tl2.evs = <<e>> \o tl.evs /\ tl2.base = tl.base + 1
        /\ tl2.token = tl.token /\ tl2.next = tl.next
    BY <2>1
  <2>4. tl2 \in Timeline(n)
    BY <1>1, <2>1, <2>2 DEF Timeline
  <2>5. Len(tl2.evs) = Len(tl.evs) + 1 /\ tl2.evs[1] = e
    BY <2>2, <2>3
  <2>6. \A k \in 2 .. Len(tl2.evs) : tl2.evs[k] = tl.evs[k - 1]
    BY <2>2, <2>3, <2>5
  <2>7. tl2.base <= Len(tl2.evs)
    BY <1>1, <2>3, <2>5
  <2>8. Puts(tl, e, d, tl2)
    BY <1>2, <2>5, <2>6 DEF Puts
  <2> QED BY <2>3, <2>4, <2>7, <2>8 DEF tl2
<1>3. CASE d = "f"
  <2>1. tl2 = [evs |-> Append(tl.evs, e), base |-> tl.base, token |-> tl.token, next |-> tl.next]
    BY <1>1, <1>3 DEF addEvent
  <2> HIDE DEF tl2
  <2>2. /\ tl2.evs = Append(tl.evs, e) /\ tl2.base = tl.base
        /\ tl2.token = tl.token /\ tl2.next = tl.next
    BY <2>1
  <2>3. /\ Append(tl.evs, e) \in Seq(Id) /\ Len(Append(tl.evs, e)) = Len(tl.evs) + 1
        /\ Append(tl.evs, e)[Len(tl.evs) + 1] = e
        /\ \A k \in 1 .. Len(tl.evs) : Append(tl.evs, e)[k] = tl.evs[k]
    BY <1>1
  <2>4. tl2 \in Timeline(n)
    BY <1>1, <2>1, <2>3 DEF Timeline
  <2>5. Len(tl2.evs) = Len(tl.evs) + 1 /\ tl2.evs[Len(tl2.evs)] = e
    BY <2>2, <2>3
  <2>6. \A k \in 1 .. Len(tl.evs) : tl2.evs[k] = tl.evs[k]
    BY <2>2, <2>3
  <2>7. tl2.base <= Len(tl2.evs)
    BY <1>1, <2>2, <2>5
  <2>8. Puts(tl, e, d, tl2)
    BY <1>3, <2>5, <2>6 DEF Puts
  <2> QED BY <2>2, <2>4, <2>7, <2>8 DEF tl2
<1> QED BY <1>2, <1>3 DEF Dir

\* What is in it then.
LEMMA PutIn ==
  ASSUME NEW n \in Nat, NEW tl \in Timeline(n), NEW tl2 \in Timeline(n), NEW e, NEW d \in Dir,
         Puts(tl, e, d, tl2)
  PROVE  \A x : In(tl2, x) <=> x = e \/ In(tl, x)
<1>1. /\ tl.evs \in Seq(Id) /\ tl2.evs \in Seq(Id) /\ Len(tl.evs) \in Nat
      /\ DOMAIN tl.evs = 1 .. Len(tl.evs) /\ DOMAIN tl2.evs = 1 .. Len(tl.evs) + 1
  BY DEF Timeline, Puts
<1> SUFFICES ASSUME NEW x PROVE In(tl2, x) <=> x = e \/ In(tl, x)
  OBVIOUS
<1>2. CASE d = "b"
  <2>1. /\ tl2.evs[1] = e /\ \A k \in 1 .. Len(tl.evs) : tl2.evs[k + 1] = tl.evs[k]
        /\ \A k \in DOMAIN tl2.evs : k = 1 \/ (k - 1 \in DOMAIN tl.evs /\ tl2.evs[k] = tl.evs[k - 1])
    BY <1>1, <1>2 DEF Puts
  <2>2. ASSUME In(tl, x) PROVE In(tl2, x)
    <3>1. PICK k \in DOMAIN tl.evs : tl.evs[k] = x
      BY <2>2 DEF In
    <3>2. k + 1 \in DOMAIN tl2.evs /\ tl2.evs[k + 1] = x
      BY <1>1, <2>1, <3>1
    <3> QED BY <3>2 DEF In
  <2>3. In(tl2, e)
    BY <1>1, <2>1 DEF In
  <2>4. ASSUME In(tl2, x) PROVE x = e \/ In(tl, x)
    BY <1>1, <2>1, <2>4 DEF In
  <2> QED BY <2>2, <2>3, <2>4
<1>3. CASE d = "f"
  <2>1. tl2.evs[Len(tl.evs) + 1] = e /\ \A k \in 1 .. Len(tl.evs) : tl2.evs[k] = tl.evs[k]
    BY <1>1, <1>3 DEF Puts
  <2>2. ASSUME x = e \/ In(tl, x) PROVE In(tl2, x)
    BY <1>1, <2>1, <2>2 DEF In
  <2>3. ASSUME In(tl2, x) PROVE x = e \/ In(tl, x)
    BY <1>1, <2>1, <2>3 DEF In
  <2> QED BY <2>2, <2>3
<1> QED BY <1>2, <1>3 DEF Dir

\* It is in order if the event belongs there.
LEMMA PutOrder ==
  ASSUME NEW n \in Nat, NEW tl \in Timeline(n), NEW tl2 \in Timeline(n), NEW e, NEW d \in Dir,
         Puts(tl, e, d, tl2), Ordered(tl.evs),
         e = Echo \/ \A x \in Event : In(tl, x) => (d = "b" => e < x) /\ (d = "f" => x < e)
  PROVE  Ordered(tl2.evs)
<1>1. /\ tl.evs \in Seq(Id) /\ tl2.evs \in Seq(Id) /\ Len(tl.evs) \in Nat
      /\ DOMAIN tl.evs = 1 .. Len(tl.evs) /\ DOMAIN tl2.evs = 1 .. Len(tl.evs) + 1
      /\ \A k \in DOMAIN tl.evs : tl.evs[k] \in Id
  BY DEF Timeline, Puts
<1> SUFFICES ASSUME NEW k \in DOMAIN tl2.evs, NEW l \in DOMAIN tl2.evs, k < l,
                    Echo \notin {tl2.evs[k], tl2.evs[l]}
             PROVE  tl2.evs[k] < tl2.evs[l]
  BY DEF Ordered
<1>2. CASE d = "b"
  <2>1. /\ tl2.evs[1] = e
        /\ \A m \in DOMAIN tl2.evs : m = 1 \/ (m - 1 \in DOMAIN tl.evs /\ tl2.evs[m] = tl.evs[m - 1])
    <3>1. Len(tl2.evs) = Len(tl.evs) + 1 /\ tl2.evs[1] = e
      BY <1>2 DEF Puts
    <3>2. \A m \in 2 .. Len(tl.evs) + 1 : tl2.evs[m] = tl.evs[m - 1]
      BY <1>2, <3>1 DEF Puts
    <3>3. ASSUME NEW m \in 1 .. Len(tl.evs) + 1, m # 1
          PROVE  m - 1 \in 1 .. Len(tl.evs) /\ tl2.evs[m] = tl.evs[m - 1]
      <4>1. m \in 2 .. Len(tl.evs) + 1
        BY <1>1, <3>3
      <4> QED BY <1>1, <3>2, <4>1
    <3> QED BY <1>1, <3>1, <3>3
  <2>2. k \in Nat /\ l \in Nat /\ l - 1 \in DOMAIN tl.evs /\ tl2.evs[l] = tl.evs[l - 1]
    BY <1>1, <2>1
  <2>3. CASE k = 1
    <3>1. tl2.evs[k] = e /\ In(tl, tl2.evs[l]) /\ tl2.evs[l] \in Event
      BY <1>1, <2>1, <2>2, <2>3 DEF In, Id
    <3> QED BY <1>2, <3>1
  <2>4. CASE k # 1
    <3>1. k - 1 \in DOMAIN tl.evs /\ tl2.evs[k] = tl.evs[k - 1]
      BY <1>1, <2>1, <2>4
    <3>2. k - 1 < l - 1
      BY <2>2
    <3> QED BY <2>2, <3>1, <3>2 DEF Ordered
  <2> QED BY <2>3, <2>4
<1>3. CASE d = "f"
  <2>1. tl2.evs[Len(tl.evs) + 1] = e /\ \A m \in 1 .. Len(tl.evs) : tl2.evs[m] = tl.evs[m]
    BY <1>1, <1>3 DEF Puts
  <2>2. k \in DOMAIN tl.evs /\ tl2.evs[k] = tl.evs[k]
    BY <1>1, <2>1
  <2>3. CASE l = Len(tl.evs) + 1
    <3>1. tl2.evs[l] = e /\ In(tl, tl2.evs[k]) /\ tl2.evs[k] \in Event
      BY <1>1, <2>1, <2>2, <2>3 DEF In, Id
    <3> QED BY <1>3, <3>1
  <2>4. CASE l # Len(tl.evs) + 1
    BY <1>1, <2>1, <2>2, <2>4 DEF Ordered
  <2> QED BY <2>3, <2>4
<1> QED BY <1>2, <1>3 DEF Dir

-----------------------------------------------------------------------------
(* The timelines of a client.                                              *)

\* The ids.
LEMMA EventTypes ==
  /\ MaxHead \in Nat \ {0} /\ 1 \in Event /\ Event \subseteq Int /\ Event \subseteq Id /\ Echo \in Id
  /\ Echo \notin Event /\ Id \subseteq Nat /\ \A x \in Id : x # Echo => x \in Event
<1>1. MaxHead \in Nat \ {0}
  BY TimelinesAssumption
<1> QED BY <1>1 DEF Event, Id, Echo

\* What Typed says of each timeline.
LEMMA TypedFacts ==
  ASSUME NEW ts, NEW ix, Typed(ts, ix)
  PROVE  /\ Len(ts) \in Nat /\ DOMAIN ts = 1 .. Len(ts)
         /\ \A i \in 1 .. Len(ts) : ts[i] \in Timeline(Len(ts)) /\ ts[i].base <= Len(ts[i].evs)
         /\ ix \in [Id -> 0 .. Len(ts)]
         /\ \A e \in Id : ix[e] # NoTl => ix[e] \in 1 .. Len(ts) /\ Holds(ts, ix[e], e)
BY DEF Typed, NoTl

\* And conversely.
LEMMA TypedFrom ==
  ASSUME NEW n \in Nat, NEW ts \in Seq(Timeline(n)), Len(ts) = n, NEW ix \in [Id -> 0 .. n],
         \A i \in 1 .. n : ts[i].base <= Len(ts[i].evs),
         \A e \in Id : ix[e] # NoTl => Holds(ts, ix[e], e)
  PROVE  Typed(ts, ix)
BY DEF Typed

\* Timeline i gets event e at its start or its end, and the index says so.
Adds(ts, ix, i, e, d, ts2, ix2) ==
  /\ ts2 = [ts EXCEPT ![i] = addEvent(ts[i], e, d = "b")]
  /\ ix2 = [ix EXCEPT ![e] = i]

Added(ts, ix, i, e, d, ts2, ix2) ==
  /\ Len(ts2) = Len(ts)
  /\ \A j \in 1 .. Len(ts) : j # i => ts2[j] = ts[j]
  /\ ts2[i].token = ts[i].token /\ ts2[i].next = ts[i].next
  /\ Puts(ts[i], e, d, ts2[i])
  /\ \A j \in 1 .. Len(ts) : \A x : Holds(ts2, j, x) <=> Holds(ts, j, x) \/ (j = i /\ x = e)
  /\ ix2[e] = i /\ \A x \in Id : x # e => ix2[x] = ix[x]

\* What else changes then: nothing.
LEMMA AddKeeps ==
  ASSUME NEW ts, NEW ix, NEW ts2, NEW ix2, Typed(ts, ix), NEW i \in DOMAIN ts, NEW e \in Id,
         NEW d \in Dir, Adds(ts, ix, i, e, d, ts2, ix2)
  PROVE  Typed(ts2, ix2) /\ Added(ts, ix, i, e, d, ts2, ix2)
<1> DEFINE n == Len(ts)
<1>1. /\ n \in Nat /\ DOMAIN ts = 1 .. n /\ ts \in Seq(Timeline(n))
      /\ \A j \in 1 .. n : ts[j] \in Timeline(n) /\ ts[j].base <= Len(ts[j].evs)
      /\ ix \in [Id -> 0 .. n]
      /\ \A x \in Id : ix[x] # NoTl => ix[x] \in 1 .. n /\ Holds(ts, ix[x], x)
  BY TypedFacts DEF Typed
<1>2. /\ addEvent(ts[i], e, d = "b") \in Timeline(n)
      /\ addEvent(ts[i], e, d = "b").base <= Len(addEvent(ts[i], e, d = "b").evs)
      /\ addEvent(ts[i], e, d = "b").token = ts[i].token /\ addEvent(ts[i], e, d = "b").next = ts[i].next
      /\ Puts(ts[i], e, d, addEvent(ts[i], e, d = "b"))
  BY <1>1, AddEventIs
<1>3. /\ ts2 \in Seq(Timeline(n)) /\ Len(ts2) = n /\ ts2[i] = addEvent(ts[i], e, d = "b")
      /\ \A j \in 1 .. n : j # i => ts2[j] = ts[j]
  BY <1>1, <1>2 DEF Adds
<1>4. ix2 \in [Id -> 0 .. n] /\ ix2[e] = i /\ \A x \in Id : x # e => ix2[x] = ix[x]
  BY <1>1 DEF Adds
<1>5. \A x : In(ts2[i], x) <=> x = e \/ In(ts[i], x)
  BY <1>1, <1>2, <1>3, PutIn
<1>6. \A j \in 1 .. n : \A x : Holds(ts2, j, x) <=> Holds(ts, j, x) \/ (j = i /\ x = e)
  BY <1>3, <1>5 DEF Holds
<1>7. Typed(ts2, ix2)
  <2>1. \A j \in 1 .. n : ts2[j].base <= Len(ts2[j].evs)
    BY <1>1, <1>2, <1>3
  <2>2. \A x \in Id : ix2[x] # NoTl => Holds(ts2, ix2[x], x)
    BY <1>1, <1>4, <1>6
  <2> HIDE DEF n
  <2> QED BY <1>1, <1>3, <1>4, <2>1, <2>2, TypedFrom
<1> QED BY <1>1, <1>2, <1>3, <1>4, <1>6, <1>7 DEF Added

\* An event is put next to one of the timeline's events.
Beside(ix, i, e, d) == LET a == IF d = "b" THEN e + 1 ELSE e - 1 IN a \in Event /\ ix[a] = i

\* A new event beside one of its timeline tears nothing.
LEMMA AddSound ==
  ASSUME NEW ts, NEW ix, NEW ts2, NEW ix2, Typed(ts, ix), NEW o \in Nat \ {0}, NEW lv, NEW x,
         NEW i \in o .. Len(ts), NEW e \in Event, NEW d \in Dir, Adds(ts, ix, i, e, d, ts2, ix2),
         ix[e] = NoTl, Beside(ix, i, e, d), Sound(ts, ix, o, lv, x)
  PROVE  Sound(ts2, ix2, o, lv, x)
<1> USE DEF NoTl, None
<1>1. /\ Len(ts) \in Nat /\ DOMAIN ts = 1 .. Len(ts) /\ i \in DOMAIN ts /\ i # 0 /\ i \in Nat
      /\ \A j \in 1 .. Len(ts) : ts[j] \in Timeline(Len(ts))
      /\ ix \in [Id -> 0 .. Len(ts)] /\ Event \subseteq Id /\ Event \subseteq Int
  BY TypedFacts, EventTypes
<1>2. /\ Len(ts2) = Len(ts) /\ Typed(ts2, ix2)
      /\ \A j \in 1 .. Len(ts) : j # i => ts2[j] = ts[j]
      /\ ts2[i].token = ts[i].token /\ ts2[i].next = ts[i].next
      /\ Puts(ts[i], e, d, ts2[i])
      /\ \A j \in 1 .. Len(ts) : \A y : Holds(ts2, j, y) <=> Holds(ts, j, y) \/ (j = i /\ y = e)
      /\ ix2[e] = i /\ \A y \in Id : y # e => ix2[y] = ix[y]
  <2>1. e \in Id /\ i \in DOMAIN ts
    BY <1>1
  <2>2. Typed(ts, ix) /\ d \in Dir /\ Adds(ts, ix, i, e, d, ts2, ix2)
    OBVIOUS
  <2>3. Typed(ts2, ix2) /\ Added(ts, ix, i, e, d, ts2, ix2)
    BY <2>1, <2>2, AddKeeps
  <2> QED BY <2>3 DEF Added
<1>3. \A j \in o .. Len(ts) : ts2[j].token = ts[j].token /\ ts2[j].next = ts[j].next
  BY <1>2
<1>4. \A y \in Event : ix[y] # 0 => ix2[y] = ix[y]
  BY <1>1, <1>2
<1>5. Apart(ts, ix, o) /\ LinkedOk(ts, ix, o) /\ EndsOk(ts, ix, o, lv, x)
  BY DEF Sound
<1>6. Apart(ts2, ix2, o)
  <2>1. \A y \in Event : ix2[y] # 0 => ix2[y] >= o
    BY <1>1, <1>2, <1>5 DEF Apart
  <2>2. \A j \in o .. Len(ts) : \A y \in Event : Holds(ts2, j, y) => ix2[y] = j
    BY <1>1, <1>2, <1>5 DEF Apart
  <2>3. PICK a \in Event : ix[a] = i /\ (d = "b" => a = e + 1) /\ (d = "f" => a = e - 1)
    BY DEF Beside
  <2>4. \A y \in Event : ix[y] = i => (d = "b" => e < y) /\ (d = "f" => y < e)
    <3> SUFFICES ASSUME NEW y \in Event, ix[y] = i
                 PROVE  (d = "b" => e < y) /\ (d = "f" => y < e)
      OBVIOUS
    <3>1. \A b, c, z \in Event : b <= z /\ z <= c /\ ix[b] # 0 /\ ix[b] = ix[c] => ix[z] = ix[b]
      BY <1>5 DEF Apart
    <3>2. CASE d = "b"
      <4>1. ~(y <= e /\ e <= a)
        BY <1>1, <2>3, <3>1
      <4> QED BY <1>1, <2>3, <3>2, <4>1
    <3>3. CASE d = "f"
      <4>1. ~(a <= e /\ e <= y)
        BY <1>1, <2>3, <3>1
      <4> QED BY <1>1, <2>3, <3>3, <4>1
    <3> QED BY <3>2, <3>3 DEF Dir
  <2>5. \A j \in o .. Len(ts) : Ordered(ts2[j].evs)
    <3>1. \A y \in Event : In(ts[i], y) => (d = "b" => e < y) /\ (d = "f" => y < e)
      BY <1>1, <1>5, <2>4 DEF Apart, Holds
    <3>2. Ordered(ts[i].evs) /\ ts2[i] \in Timeline(Len(ts))
      BY <1>1, <1>2, <1>5, TypedFacts DEF Apart
    <3>3. Ordered(ts2[i].evs)
      <4>1. ts[i] \in Timeline(Len(ts)) /\ Puts(ts[i], e, d, ts2[i])
        BY <1>1, <1>2
      <4> QED BY <1>1, <3>1, <3>2, <4>1, PutOrder
    <3> QED BY <1>2, <1>5, <3>3 DEF Apart
  <2>6. \A b, c, z \in Event : b <= z /\ z <= c /\ ix2[b] # 0 /\ ix2[b] = ix2[c] => ix2[z] = ix2[b]
    <3> SUFFICES ASSUME NEW b \in Event, NEW c \in Event, NEW z \in Event, b <= z, z <= c, ix2[b] # 0,
                        ix2[b] = ix2[c]
                 PROVE  ix2[z] = ix2[b]
      OBVIOUS
    <3>1. \A u, v, w \in Event : u <= w /\ w <= v /\ ix[u] # 0 /\ ix[u] = ix[v] => ix[w] = ix[u]
      BY <1>5 DEF Apart
    <3>2. CASE z = b \/ z = c
      BY <3>2
    <3>3. CASE z # b /\ z # c /\ b # e /\ c # e
      <4>1. ix[z] = ix[b] /\ ix2[b] = ix[b]
        BY <1>1, <1>2, <3>1, <3>3
      <4> QED BY <1>4, <4>1
    <3>4. CASE z # b /\ b = e
      <4>1. c # e /\ ix[c] = i /\ c \in Int /\ e \in Int /\ z \in Int
        BY <1>1, <1>2, <3>4
      <4>2. d = "b" /\ a <= z
        BY <1>1, <2>3, <2>4, <3>4, <4>1 DEF Dir
      <4> QED BY <1>1, <1>2, <1>4, <2>3, <3>1, <3>4, <4>1, <4>2
    <3>5. CASE z # c /\ c = e /\ b # e
      <4>1. ix[b] = i /\ b \in Int /\ e \in Int /\ z \in Int
        BY <1>1, <1>2, <3>5
      <4>2. d = "f" /\ z <= a
        BY <1>1, <2>3, <2>4, <3>5, <4>1 DEF Dir
      <4> QED BY <1>1, <1>2, <1>4, <2>3, <3>1, <3>5, <4>1, <4>2
    <3> QED BY <3>2, <3>3, <3>4, <3>5
  <2> QED BY <1>2, <2>1, <2>2, <2>5, <2>6 DEF Apart
<1>7. LinkedOk(ts2, ix2, o)
  <2> SUFFICES ASSUME NEW j \in o .. Len(ts), NEW c \in Dir, ts[j].next[c] # 0
               PROVE  /\ ts[j].next[c] >= o /\ ts[j].next[c] # j /\ ts2[ts[j].next[c]].next[Opposite(c)] = j
                      /\ c = "f" => \E y \in Event : y + 1 \in Event /\ ix2[y] = j /\ ix2[y + 1] = ts[j].next[c]
    BY <1>2, <1>3 DEF LinkedOk
  <2> DEFINE k == ts[j].next[c]
  <2>1. j \in 1 .. Len(ts) /\ j # 0
    OBVIOUS
  <2>2. ts[j] \in Timeline(Len(ts))
    BY <1>1, <2>1
  <2>3. k \in 0 .. Len(ts)
    BY <2>2 DEF Timeline
  <2>4. /\ k >= o /\ k # j /\ ts[k].next[Opposite(c)] = j
        /\ c = "f" => \E y \in Event : y + 1 \in Event /\ ix[y] = j /\ ix[y + 1] = k
    BY <1>5 DEF LinkedOk
  <2>5. ts2[k].next = ts[k].next
    BY <1>3, <2>3, <2>4
  <2>6. c = "f" => \E y \in Event : y + 1 \in Event /\ ix2[y] = j /\ ix2[y + 1] = k
    BY <1>4, <2>1, <2>4
  <2> QED BY <2>4, <2>5, <2>6
<1>8. EndsOk(ts2, ix2, o, lv, x)
  <2>1. 1 \in Event
    BY TimelinesAssumption DEF Event
  <2>2. ASSUME NEW j \in o .. Len(ts), NEW t, Stands(ix, j, t) PROVE Stands(ix2, j, t)
    BY <1>4, <2>2 DEF Stands
  <2>3. \A j \in o .. Len(ts) : ix[1] = j => ix2[1] = j
    BY <1>4, <2>1
  <2> QED BY <1>2, <1>3, <1>5, <2>2, <2>3 DEF EndsOk
<1> QED BY <1>6, <1>7, <1>8 DEF Sound

\* Timelines i and j become neighbours.
Links(ts, i, j, d, ts2) ==
  ts2 = [ts EXCEPT ![i] = setNeighbouringTimeline(ts[i], j, d),
                   ![j] = setNeighbouringTimeline(ts[j], i, Opposite(d))]

Linked(ts, i, j, d, ts2) ==
  /\ Len(ts2) = Len(ts)
  /\ \A k \in 1 .. Len(ts) : ts2[k].evs = ts[k].evs
  /\ \A k \in 1 .. Len(ts), c \in Dir :
       LET n == IF k = i /\ c = d THEN j ELSE IF k = j /\ c # d THEN i ELSE NoTl
       IN  /\ n = NoTl => ts2[k].next[c] = ts[k].next[c] /\ ts2[k].token[c] = ts[k].token[c]
           /\ n # NoTl => ts2[k].next[c] = n /\ ts2[k].token[c] = None

\* A timeline with another end.
Neighboured(tl, m, c, tl2) ==
  /\ tl2.evs = tl.evs /\ tl2.base = tl.base
  /\ tl2.next = [tl.next EXCEPT ![c] = m] /\ tl2.token = [tl.token EXCEPT ![c] = None]

\* setNeighbouringTimeline changes one end.
LEMMA NeighbourIs ==
  ASSUME NEW n \in Nat, NEW tl \in Timeline(n), NEW m \in 1 .. n, NEW c \in Dir
  PROVE  /\ setNeighbouringTimeline(tl, m, c) \in Timeline(n)
         /\ Neighboured(tl, m, c, setNeighbouringTimeline(tl, m, c))
<1> DEFINE next2 == [tl.next EXCEPT ![c] = m]
           token2 == [tl.token EXCEPT ![c] = None]
<1>1. /\ tl = [evs |-> tl.evs, base |-> tl.base, token |-> tl.token, next |-> tl.next]
      /\ tl.evs \in Seq(Id) /\ tl.base \in Nat /\ tl.token \in [Dir -> Token]
      /\ tl.next \in [Dir -> 0 .. n]
  BY DEF Timeline
<1>2. next2 \in [Dir -> 0 .. n] /\ token2 \in [Dir -> Token]
  BY <1>1 DEF Token
<1>3. setNeighbouringTimeline(tl, m, c) = [tl EXCEPT !.next = next2, !.token = token2]
  BY <1>1 DEF setNeighbouringTimeline
<1> HIDE DEF next2, token2
<1>4. setNeighbouringTimeline(tl, m, c)
        = [evs |-> tl.evs, base |-> tl.base, token |-> token2, next |-> next2]
  BY <1>1, <1>3
<1> QED BY <1>1, <1>2, <1>4 DEF Timeline, Neighboured, next2, token2

\* Nothing but two of their ends changes then.
LEMMA LinkKeeps ==
  ASSUME NEW ts, NEW ix, NEW ts2, Typed(ts, ix), NEW i \in DOMAIN ts, NEW j \in DOMAIN ts, i # j,
         NEW d \in Dir, Links(ts, i, j, d, ts2)
  PROVE  Typed(ts2, ix) /\ Linked(ts, i, j, d, ts2)
<1> DEFINE n == Len(ts)
<1>1. /\ n \in Nat /\ DOMAIN ts = 1 .. n /\ ts \in Seq(Timeline(n))
      /\ \A k \in 1 .. n : ts[k] \in Timeline(n) /\ ts[k].base <= Len(ts[k].evs)
      /\ ix \in [Id -> 0 .. n]
      /\ \A x \in Id : ix[x] # NoTl => ix[x] \in 1 .. n /\ Holds(ts, ix[x], x)
  BY TypedFacts DEF Typed
<1>3. d \in Dir /\ Opposite(d) \in Dir /\ \A c \in Dir : c # d <=> c = Opposite(d)
  BY DEF Dir, Opposite
<1> DEFINE a == setNeighbouringTimeline(ts[i], j, d)
           b == setNeighbouringTimeline(ts[j], i, Opposite(d))
<1>4. /\ a \in Timeline(n) /\ a.evs = ts[i].evs /\ a.base = ts[i].base
      /\ a.next = [ts[i].next EXCEPT ![d] = j] /\ a.token = [ts[i].token EXCEPT ![d] = None]
  <2>1. n \in Nat /\ ts[i] \in Timeline(n) /\ j \in 1 .. n
    BY <1>1
  <2> HIDE DEF n
  <2>2. a \in Timeline(n) /\ Neighboured(ts[i], j, d, a)
    BY <2>1, NeighbourIs
  <2> QED BY <2>2 DEF Neighboured
<1>5. /\ b \in Timeline(n) /\ b.evs = ts[j].evs /\ b.base = ts[j].base
      /\ b.next = [ts[j].next EXCEPT ![Opposite(d)] = i]
      /\ b.token = [ts[j].token EXCEPT ![Opposite(d)] = None]
  <2>1. n \in Nat /\ ts[j] \in Timeline(n) /\ i \in 1 .. n /\ Opposite(d) \in Dir
    BY <1>1, <1>3
  <2> HIDE DEF n
  <2>2. b \in Timeline(n) /\ Neighboured(ts[j], i, Opposite(d), b)
    BY <2>1, NeighbourIs
  <2> QED BY <2>2 DEF Neighboured
<1>6. ts2 = [ts EXCEPT ![i] = a, ![j] = b]
  BY DEF Links
<1> HIDE DEF a, b
<1>7. /\ ts2 \in Seq(Timeline(n)) /\ Len(ts2) = n /\ ts2[i] = a /\ ts2[j] = b
      /\ \A k \in 1 .. n : k # i /\ k # j => ts2[k] = ts[k]
  BY <1>1, <1>4, <1>5, <1>6
<1>8. \A k \in 1 .. n : ts2[k].evs = ts[k].evs /\ ts2[k].base = ts[k].base
  BY <1>1, <1>4, <1>5, <1>7
<1>9. Typed(ts2, ix)
  <2>1. \A k \in 1 .. n : ts2[k].base <= Len(ts2[k].evs)
    BY <1>1, <1>8
  <2>2. \A x \in Id : ix[x] # NoTl => Holds(ts2, ix[x], x)
    BY <1>1, <1>8 DEF Holds, In
  <2> HIDE DEF n
  <2> QED BY <1>1, <1>7, <2>1, <2>2, TypedFrom
<1>10. \A k \in 1 .. n : ts[k].next \in [Dir -> 0 .. n] /\ ts[k].token \in [Dir -> Token]
  BY <1>1 DEF Timeline
<1>11. ASSUME NEW k \in 1 .. n, NEW c \in Dir
       PROVE  /\ k = i /\ c = d => ts2[k].next[c] = j /\ ts2[k].token[c] = None
              /\ k = j /\ c # d => ts2[k].next[c] = i /\ ts2[k].token[c] = None
              /\ ~(k = i /\ c = d) /\ ~(k = j /\ c # d)
                 => ts2[k].next[c] = ts[k].next[c] /\ ts2[k].token[c] = ts[k].token[c]
  BY <1>1, <1>3, <1>4, <1>5, <1>7, <1>10
<1>12. i # NoTl /\ j # NoTl
  BY <1>1 DEF NoTl
<1> QED BY <1>7, <1>8, <1>9, <1>11, <1>12 DEF Linked

\* Two timelines that meet at event e become neighbours; timeline x, if it is
\* the first of them, needs no token any more.
LEMMA LinkSound ==
  ASSUME NEW ts, NEW ix, NEW ts2, Typed(ts, ix), NEW o \in Nat \ {0}, NEW lv, NEW x, NEW x2,
         NEW i \in o .. Len(ts), NEW j \in o .. Len(ts), i # j, NEW d \in Dir, Links(ts, i, j, d, ts2),
         NEW e \in Event, ix[e] = j, Beside(ix, i, e, d), ts[i].next[d] = NoTl,
         ~(d = "b" /\ j = lv), ~(d = "f" /\ i = lv), x2 = x \/ (x = i /\ d = "b"),
         Sound(ts, ix, o, lv, x)
  PROVE  Sound(ts2, ix, o, lv, x2)
<1>1. /\ Len(ts) \in Nat /\ DOMAIN ts = 1 .. Len(ts) /\ i \in DOMAIN ts /\ j \in DOMAIN ts
      /\ i # 0 /\ j # 0 /\ NoTl = 0
      /\ \A k \in 1 .. Len(ts) : ts[k] \in Timeline(Len(ts))
      /\ ix \in [Id -> 0 .. Len(ts)] /\ Event \subseteq Int
  BY TypedFacts, EventTypes DEF NoTl
<1>2. Typed(ts2, ix) /\ Linked(ts, i, j, d, ts2)
  BY <1>1, LinkKeeps
<1>3. /\ Len(ts2) = Len(ts) /\ \A k \in 1 .. Len(ts) : ts2[k].evs = ts[k].evs
      /\ ts2[i].next[d] = j /\ ts2[i].token[d] = None
      /\ ts2[j].next[Opposite(d)] = i /\ ts2[j].token[Opposite(d)] = None
      /\ \A k \in 1 .. Len(ts), c \in Dir :
           ~(k = i /\ c = d) /\ ~(k = j /\ c # d)
           => ts2[k].next[c] = ts[k].next[c] /\ ts2[k].token[c] = ts[k].token[c]
  BY <1>1, <1>2 DEF Linked, Opposite, Dir
<1>4. Apart(ts, ix, o) /\ LinkedOk(ts, ix, o) /\ EndsOk(ts, ix, o, lv, x)
  BY DEF Sound
<1>5. Apart(ts2, ix, o)
  BY <1>3, <1>4 DEF Apart, Holds, In
<1>6. PICK a \in Event : ix[a] = i /\ (d = "b" => a = e + 1) /\ (d = "f" => a = e - 1)
  BY DEF Beside
<1>7. \A u, v, w \in Event : u <= w /\ w <= v /\ ix[u] # 0 /\ ix[u] = ix[v] => ix[w] = ix[u]
  BY <1>1, <1>4 DEF Apart
<1>8. \A k \in o .. Len(ts), c \in Dir :
        ts[k].next[c] # 0
        => /\ ts[k].next[c] \in o .. Len(ts) /\ ts[k].next[c] # k
           /\ ts[ts[k].next[c]].next[Opposite(c)] = k
           /\ c = "f" => \E y \in Event : y + 1 \in Event /\ ix[y] = k /\ ix[y + 1] = ts[k].next[c]
  <2> SUFFICES ASSUME NEW k \in o .. Len(ts), NEW c \in Dir, ts[k].next[c] # 0
               PROVE  /\ ts[k].next[c] \in o .. Len(ts) /\ ts[k].next[c] # k
                      /\ ts[ts[k].next[c]].next[Opposite(c)] = k
                      /\ c = "f" => \E y \in Event : y + 1 \in Event /\ ix[y] = k /\ ix[y + 1] = ts[k].next[c]
    OBVIOUS
  <2>1. ts[k].next[c] \in 0 .. Len(ts)
    BY <1>1 DEF Timeline
  <2> QED BY <1>1, <1>4, <2>1 DEF LinkedOk
<1>9. ts[j].next[Opposite(d)] = 0
  <2> SUFFICES ASSUME ts[j].next[Opposite(d)] # 0 PROVE FALSE
    OBVIOUS
  <2> DEFINE k == ts[j].next[Opposite(d)]
  <2>1. Opposite(d) \in Dir /\ Opposite(Opposite(d)) = d
    BY DEF Opposite, Dir
  <2>2. k \in o .. Len(ts) /\ k # j /\ k # 0 /\ ts[k].next[d] = j
    BY <1>8, <2>1
  <2>3. k # i
    BY <1>1, <2>2
  <2>4. CASE d = "b"
    <3>1. Opposite(d) = "f"
      BY <2>4 DEF Opposite
    <3>2. PICK y \in Event : y + 1 \in Event /\ ix[y] = j /\ ix[y + 1] = k
      BY <1>8, <2>1, <3>1
    <3>3. ~(e + 1 <= y) /\ ~(y + 1 <= e) /\ y # e
      BY <1>1, <1>6, <1>7, <2>2, <2>3, <2>4, <3>2
    <3> QED BY <1>1, <3>2, <3>3
  <2>5. CASE d = "f"
    <3>1. PICK y \in Event : y + 1 \in Event /\ ix[y] = k /\ ix[y + 1] = j
      <4>1. k \in o .. Len(ts) /\ "f" \in Dir /\ ts[k].next["f"] # 0 /\ ts[k].next["f"] = j
        BY <1>1, <2>2, <2>5
      <4> QED BY <1>8, <4>1
    <3>2. ~(y + 1 <= e - 1) /\ ~(e <= y) /\ y # e - 1
      BY <1>1, <1>6, <1>7, <2>2, <2>3, <2>5, <3>1
    <3> QED BY <1>1, <3>1, <3>2
  <2> QED BY <2>4, <2>5 DEF Dir
<1>10. LinkedOk(ts2, ix, o)
  <2> SUFFICES ASSUME NEW k \in o .. Len(ts), NEW c \in Dir, ts2[k].next[c] # 0
               PROVE  /\ ts2[k].next[c] >= o /\ ts2[k].next[c] # k
                      /\ ts2[ts2[k].next[c]].next[Opposite(c)] = k
                      /\ c = "f" => \E y \in Event : y + 1 \in Event /\ ix[y] = k /\ ix[y + 1] = ts2[k].next[c]
    BY <1>1, <1>3 DEF LinkedOk
  <2>1. CASE k = i /\ c = d
    <3>1. ts2[k].next[c] = j /\ ts2[j].next[Opposite(c)] = k /\ j >= o /\ j # k
      BY <1>1, <1>3, <2>1
    <3>2. c = "f" => a + 1 \in Event /\ ix[a] = k /\ ix[a + 1] = j
      BY <1>1, <1>6, <2>1
    <3> QED BY <1>6, <3>1, <3>2
  <2>2. CASE k = j /\ c # d
    <3>1. c = Opposite(d) /\ Opposite(c) = d
      BY <2>2 DEF Opposite, Dir
    <3>2. ts2[k].next[c] = i /\ ts2[i].next[Opposite(c)] = k /\ i >= o /\ i # k
      BY <1>1, <1>3, <2>2, <3>1
    <3>3. c = "f" => e + 1 \in Event /\ ix[e] = k /\ ix[e + 1] = i
      BY <1>1, <1>6, <2>2 DEF Dir
    <3> QED BY <3>2, <3>3
  <2>3. CASE ~(k = i /\ c = d) /\ ~(k = j /\ c # d)
    <3> DEFINE m == ts[k].next[c]
    <3>1. ts2[k].next[c] = m /\ m # 0
      BY <1>1, <1>3, <2>3
    <3>2. /\ m \in o .. Len(ts) /\ m # k /\ ts[m].next[Opposite(c)] = k
          /\ c = "f" => \E y \in Event : y + 1 \in Event /\ ix[y] = k /\ ix[y + 1] = m
      BY <1>8, <3>1
    <3>3. Opposite(c) \in Dir
      BY DEF Opposite, Dir
    <3>4. k # 0 /\ m \in 1 .. Len(ts)
      BY <3>2
    <3>5. ~(m = i /\ Opposite(c) = d)
      BY <1>1, <3>2, <3>4
    <3>6. ~(m = j /\ Opposite(c) # d)
      BY <1>9, <3>2, <3>4 DEF Opposite, Dir
    <3>7. ts2[m].next[Opposite(c)] = k
      BY <1>3, <3>2, <3>3, <3>4, <3>5, <3>6
    <3> QED BY <3>1, <3>2, <3>7
  <2> QED BY <2>1, <2>2, <2>3
<1>11. EndsOk(ts2, ix, o, lv, x2)
  <2> SUFFICES ASSUME NEW k \in o .. Len(ts)
               PROVE  /\ \A c \in Dir : ts2[k].token[c] # None => Stands(ix, k, ts2[k].token[c])
                      /\ k # x2 /\ ts2[k].next["b"] = 0 /\ ts2[k].token["b"] = None => ix[1] = k
                      /\ k # lv /\ ts2[k].next["f"] = 0 => ts2[k].token["f"] # None
                      /\ k = lv => ts2[k].next["f"] = 0 /\ ts2[k].token["f"] = None
    BY <1>1, <1>3 DEF EndsOk
  <2>1. /\ \A c \in Dir : ts[k].token[c] # None => Stands(ix, k, ts[k].token[c])
        /\ k # x /\ ts[k].next["b"] = 0 /\ ts[k].token["b"] = None => ix[1] = k
        /\ k # lv /\ ts[k].next["f"] = 0 => ts[k].token["f"] # None
        /\ k = lv => ts[k].next["f"] = 0 /\ ts[k].token["f"] = None
    BY <1>1, <1>4 DEF EndsOk
  <2>2. /\ k \in 1 .. Len(ts) /\ "b" \in Dir /\ "f" \in Dir
    BY <1>1 DEF Dir
  <2>3. \A c \in Dir : \/ ts2[k].next[c] # 0 /\ ts2[k].token[c] = None /\ ((k = i /\ c = d) \/ (k = j /\ c # d))
                       \/ /\ ts2[k].next[c] = ts[k].next[c] /\ ts2[k].token[c] = ts[k].token[c]
                          /\ ~(k = i /\ c = d)
    BY <1>1, <1>3, <2>2 DEF Dir, Opposite
  <2>4. \A c \in Dir : ts2[k].token[c] # None => Stands(ix, k, ts2[k].token[c])
    BY <2>1, <2>3
  <2>5. k # x2 /\ ts2[k].next["b"] = 0 /\ ts2[k].token["b"] = None => ix[1] = k
    BY <2>1, <2>2, <2>3
  <2>6. k # lv /\ ts2[k].next["f"] = 0 => ts2[k].token["f"] # None
    BY <2>1, <2>2, <2>3
  <2>7. k = lv => ts2[k].next["f"] = 0 /\ ts2[k].token["f"] = None
    BY <1>3, <2>1, <2>2, <2>3 DEF Dir
  <2> QED BY <2>4, <2>5, <2>6, <2>7
<1> QED BY <1>5, <1>10, <1>11 DEF Sound

\* Timeline i gets a token at one end.
SetsToken(ts, i, t, d, ts2) == ts2 = [ts EXCEPT ![i] = setPaginationToken(ts[i], t, d)]

Tokened(ts, i, t, d, ts2) ==
  /\ Len(ts2) = Len(ts)
  /\ \A k \in 1 .. Len(ts) : ts2[k].evs = ts[k].evs /\ ts2[k].next = ts[k].next
  /\ ts2[i].token[d] = t
  /\ \A k \in 1 .. Len(ts), c \in Dir : ~(k = i /\ c = d) => ts2[k].token[c] = ts[k].token[c]

\* setPaginationToken changes one token.
LEMMA TokenIs ==
  ASSUME NEW n \in Nat, NEW tl \in Timeline(n), NEW t \in Token, NEW c \in Dir
  PROVE  /\ setPaginationToken(tl, t, c) \in Timeline(n)
         /\ setPaginationToken(tl, t, c).evs = tl.evs /\ setPaginationToken(tl, t, c).base = tl.base
         /\ setPaginationToken(tl, t, c).next = tl.next
         /\ setPaginationToken(tl, t, c).token = [tl.token EXCEPT ![c] = t]
<1> DEFINE token2 == [tl.token EXCEPT ![c] = t]
<1>1. /\ tl = [evs |-> tl.evs, base |-> tl.base, token |-> tl.token, next |-> tl.next]
      /\ tl.evs \in Seq(Id) /\ tl.base \in Nat /\ tl.token \in [Dir -> Token]
      /\ tl.next \in [Dir -> 0 .. n]
  BY DEF Timeline
<1>2. token2 \in [Dir -> Token]
  BY <1>1
<1>3. setPaginationToken(tl, t, c) = [tl EXCEPT !.token = token2]
  BY <1>1 DEF setPaginationToken
<1> HIDE DEF token2
<1>4. setPaginationToken(tl, t, c) = [evs |-> tl.evs, base |-> tl.base, token |-> token2, next |-> tl.next]
  BY <1>1, <1>3
<1> QED BY <1>1, <1>2, <1>4 DEF Timeline, token2

\* Nothing else changes.
LEMMA TokenKeeps ==
  ASSUME NEW ts, NEW ix, NEW ts2, Typed(ts, ix), NEW i \in DOMAIN ts, NEW t \in Token, NEW d \in Dir,
         SetsToken(ts, i, t, d, ts2)
  PROVE  Typed(ts2, ix) /\ Tokened(ts, i, t, d, ts2)
<1> DEFINE n == Len(ts)
           a == setPaginationToken(ts[i], t, d)
<1>1. /\ n \in Nat /\ DOMAIN ts = 1 .. n /\ ts \in Seq(Timeline(n))
      /\ \A k \in 1 .. n : ts[k] \in Timeline(n) /\ ts[k].base <= Len(ts[k].evs)
      /\ ix \in [Id -> 0 .. n]
      /\ \A x \in Id : ix[x] # NoTl => ix[x] \in 1 .. n /\ Holds(ts, ix[x], x)
  BY TypedFacts DEF Typed
<1>2. /\ a \in Timeline(n) /\ a.evs = ts[i].evs /\ a.base = ts[i].base /\ a.next = ts[i].next
      /\ a.token = [ts[i].token EXCEPT ![d] = t]
  <2>1. n \in Nat /\ ts[i] \in Timeline(n)
    BY <1>1
  <2> HIDE DEF n
  <2> QED BY <2>1, TokenIs
<1>3. ts2 = [ts EXCEPT ![i] = a]
  BY DEF SetsToken
<1> HIDE DEF a
<1>4. /\ ts2 \in Seq(Timeline(n)) /\ Len(ts2) = n /\ ts2[i] = a
      /\ \A k \in 1 .. n : k # i => ts2[k] = ts[k]
  BY <1>1, <1>2, <1>3
<1>5. \A k \in 1 .. n : ts2[k].evs = ts[k].evs /\ ts2[k].base = ts[k].base /\ ts2[k].next = ts[k].next
  BY <1>1, <1>2, <1>4
<1>6. Typed(ts2, ix)
  <2>1. \A k \in 1 .. n : ts2[k].base <= Len(ts2[k].evs)
    BY <1>1, <1>5
  <2>2. \A x \in Id : ix[x] # NoTl => Holds(ts2, ix[x], x)
    BY <1>1, <1>5 DEF Holds, In
  <2> HIDE DEF n
  <2> QED BY <1>1, <1>4, <2>1, <2>2, TypedFrom
<1>7. ts[i].token \in [Dir -> Token]
  BY <1>1 DEF Timeline
<1>8. ts2[i].token[d] = t
  BY <1>2, <1>4, <1>7
<1>9. \A k \in 1 .. n, c \in Dir : ~(k = i /\ c = d) => ts2[k].token[c] = ts[k].token[c]
  BY <1>2, <1>4, <1>7
<1> QED BY <1>4, <1>5, <1>6, <1>8, <1>9 DEF Tokened

\* A token that continues the timeline, or none where the room starts, tears
\* nothing; timeline x has its token if this is it.
LEMMA TokenSound ==
  ASSUME NEW ts, NEW ix, NEW ts2, Typed(ts, ix), NEW o \in Nat \ {0}, NEW lv, NEW x, NEW x2,
         NEW i \in o .. Len(ts), NEW t \in Token, NEW d \in Dir, SetsToken(ts, i, t, d, ts2),
         IF t = None THEN d = "b" /\ ix[1] = i ELSE Stands(ix, i, t),
         ~(d = "f" /\ i = lv), x2 = x \/ (x = i /\ d = "b"), Sound(ts, ix, o, lv, x)
  PROVE  Sound(ts2, ix, o, lv, x2)
<1>1. /\ Len(ts) \in Nat /\ DOMAIN ts = 1 .. Len(ts) /\ i \in DOMAIN ts
      /\ \A k \in 1 .. Len(ts) : ts[k] \in Timeline(Len(ts))
  BY TypedFacts
<1>2. Typed(ts2, ix) /\ Tokened(ts, i, t, d, ts2)
  BY <1>1, TokenKeeps
<1>3. Apart(ts, ix, o) /\ LinkedOk(ts, ix, o) /\ EndsOk(ts, ix, o, lv, x)
  BY DEF Sound
<1>4. /\ Len(ts2) = Len(ts) /\ \A k \in 1 .. Len(ts) : ts2[k].evs = ts[k].evs /\ ts2[k].next = ts[k].next
      /\ ts2[i].token[d] = t
      /\ \A k \in 1 .. Len(ts), c \in Dir : ~(k = i /\ c = d) => ts2[k].token[c] = ts[k].token[c]
  BY <1>2 DEF Tokened
<1>5. Apart(ts2, ix, o)
  BY <1>3, <1>4 DEF Apart, Holds, In
<1>6. LinkedOk(ts2, ix, o)
  <2> SUFFICES ASSUME NEW k \in o .. Len(ts), NEW c \in Dir, ts[k].next[c] # NoTl
               PROVE  /\ ts[k].next[c] >= o /\ ts[k].next[c] # k
                      /\ ts2[ts[k].next[c]].next[Opposite(c)] = k
                      /\ c = "f" => \E y \in Event : y + 1 \in Event /\ ix[y] = k /\ ix[y + 1] = ts[k].next[c]
    BY <1>1, <1>4 DEF LinkedOk
  <2>1. ts[k].next[c] \in 1 .. Len(ts)
    BY <1>1 DEF Timeline, NoTl
  <2> QED BY <1>3, <1>4, <2>1 DEF LinkedOk
<1>7. EndsOk(ts2, ix, o, lv, x2)
  <2> SUFFICES ASSUME NEW k \in o .. Len(ts)
               PROVE  /\ \A c \in Dir : ts2[k].token[c] # None => Stands(ix, k, ts2[k].token[c])
                      /\ k # x2 /\ ts2[k].next["b"] = NoTl /\ ts2[k].token["b"] = None => ix[1] = k
                      /\ k # lv /\ ts2[k].next["f"] = NoTl => ts2[k].token["f"] # None
                      /\ k = lv => ts2[k].next["f"] = NoTl /\ ts2[k].token["f"] = None
    BY <1>1, <1>4 DEF EndsOk
  <2>1. /\ \A c \in Dir : ts[k].token[c] # None => Stands(ix, k, ts[k].token[c])
        /\ k # x /\ ts[k].next["b"] = NoTl /\ ts[k].token["b"] = None => ix[1] = k
        /\ k # lv /\ ts[k].next["f"] = NoTl => ts[k].token["f"] # None
        /\ k = lv => ts[k].next["f"] = NoTl /\ ts[k].token["f"] = None
    BY <1>1, <1>3 DEF EndsOk
  <2>2. k \in 1 .. Len(ts) /\ "b" \in Dir /\ "f" \in Dir /\ ts2[k].next = ts[k].next
    BY <1>1, <1>4 DEF Dir
  <2>3. \A c \in Dir : \/ k = i /\ c = d /\ ts2[k].token[c] = t
                       \/ ~(k = i /\ c = d) /\ ts2[k].token[c] = ts[k].token[c]
    BY <1>4, <2>2
  <2>4. \A c \in Dir : ts2[k].token[c] # None => Stands(ix, k, ts2[k].token[c])
    BY <2>1, <2>3
  <2>5. k # x2 /\ ts2[k].next["b"] = NoTl /\ ts2[k].token["b"] = None => ix[1] = k
    BY <2>1, <2>2, <2>3
  <2>6. k # lv /\ ts2[k].next["f"] = NoTl => ts2[k].token["f"] # None
    BY <2>1, <2>2, <2>3
  <2>7. k = lv => ts2[k].next["f"] = NoTl /\ ts2[k].token["f"] = None
    BY <2>1, <2>2, <2>3
  <2> QED BY <2>4, <2>5, <2>6, <2>7
<1> QED BY <1>5, <1>6, <1>7 DEF Sound

-----------------------------------------------------------------------------
(* The loop of addEventsToTimeline.                                        *)

\* The state of the loop.
IsTurn(st) ==
  st = [tls |-> st.tls, index |-> st.index, tl |-> st.tl, lastNew |-> st.lastNew,
        didUpdate |-> st.didUpdate, refused |-> st.refused]

SameTimelines(st, r) == r.tls = st.tls /\ r.index = st.index

TurnAdds(st, r, e, d) ==
  /\ st.index[e] = NoTl
  /\ Adds(st.tls, st.index, st.tl, e, d, r.tls, r.index)
  /\ r.tl = st.tl /\ r.lastNew = TRUE /\ r.didUpdate = TRUE /\ r.refused = st.refused

TurnStays(st, r, e) ==
  /\ st.index[e] = st.tl /\ st.tl # NoTl
  /\ SameTimelines(st, r)
  /\ r.tl = st.tl /\ r.lastNew = FALSE /\ r.didUpdate = st.didUpdate /\ r.refused = st.refused

TurnCrosses(st, r, e, d) ==
  /\ st.index[e] \notin {NoTl, st.tl} /\ st.tls[st.tl].next[d] # NoTl
  /\ SameTimelines(st, r)
  /\ r.tl = st.index[e] /\ r.lastNew = FALSE /\ r.didUpdate = st.didUpdate /\ r.refused = st.refused

TurnRefuses(st, r, e) ==
  /\ st.index[e] \notin {NoTl, st.tl}
  /\ SameTimelines(st, r)
  /\ r.tl = st.tl /\ r.lastNew = FALSE /\ r.didUpdate = st.didUpdate /\ r.refused = TRUE

TurnLinks(st, r, e, d, lv) ==
  /\ st.index[e] \notin {NoTl, st.tl} /\ st.tls[st.tl].next[d] = NoTl
  /\ ~(d = "b" /\ st.index[e] = lv) /\ ~(d = "f" /\ st.tl = lv)
  /\ Links(st.tls, st.tl, st.index[e], d, r.tls) /\ r.index = st.index
  /\ r.tl = st.index[e] /\ r.lastNew = FALSE /\ r.didUpdate = TRUE /\ r.refused = st.refused

\* addOne does one of five things.
LEMMA AddOneIs ==
  ASSUME NEW st, IsTurn(st), Typed(st.tls, st.index), st.tl \in DOMAIN st.tls, NEW e \in Event,
         NEW d \in Dir, NEW lv
  PROVE  LET r == addOne(st, e, d, lv)
         IN  /\ IsTurn(r)
             /\ \/ TurnAdds(st, r, e, d)
                \/ TurnStays(st, r, e)
                \/ TurnCrosses(st, r, e, d)
                \/ TurnRefuses(st, r, e)
                \/ TurnLinks(st, r, e, d, lv)
<1> DEFINE ex == st.index[e]
           r == addOne(st, e, d, lv)
<1>1. /\ Len(st.tls) \in Nat /\ DOMAIN st.tls = 1 .. Len(st.tls) /\ st.index \in [Id -> 0 .. Len(st.tls)]
      /\ e \in Id /\ ex \in 0 .. Len(st.tls) /\ st.tls \in Seq(Timeline(Len(st.tls))) /\ NoTl = 0
  BY TypedFacts, EventTypes DEF NoTl, Typed
<1>2. CASE ex = NoTl
  <2>1. r = [st EXCEPT !.tls[st.tl] = addEvent(@, e, d = "b"), !.index[e] = st.tl,
                       !.lastNew = TRUE, !.didUpdate = TRUE]
    BY <1>2 DEF addOne
  <2>2. r = [tls |-> [st.tls EXCEPT ![st.tl] = addEvent(st.tls[st.tl], e, d = "b")],
             index |-> [st.index EXCEPT ![e] = st.tl], tl |-> st.tl, lastNew |-> TRUE,
             didUpdate |-> TRUE, refused |-> st.refused]
    BY <1>1, <2>1 DEF IsTurn
  <2> HIDE DEF r
  <2>3. IsTurn(r) /\ TurnAdds(st, r, e, d)
    BY <1>2, <2>2 DEF IsTurn, TurnAdds, Adds
  <2> QED BY <2>3 DEF r
<1>3. CASE ex # NoTl /\ ex = st.tl
  <2>1. r = [st EXCEPT !.lastNew = FALSE]
    BY <1>3 DEF addOne
  <2>2. r = [tls |-> st.tls, index |-> st.index, tl |-> st.tl, lastNew |-> FALSE,
             didUpdate |-> st.didUpdate, refused |-> st.refused]
    BY <2>1 DEF IsTurn
  <2> HIDE DEF r
  <2>3. IsTurn(r) /\ TurnStays(st, r, e)
    BY <1>3, <2>2 DEF IsTurn, TurnStays, SameTimelines
  <2> QED BY <2>3 DEF r
<1>4. CASE ex # NoTl /\ ex # st.tl /\ st.tls[st.tl].next[d] # NoTl
  <2>1. r = [st EXCEPT !.lastNew = FALSE, !.tl = ex]
    BY <1>4 DEF addOne
  <2>2. r = [tls |-> st.tls, index |-> st.index, tl |-> ex, lastNew |-> FALSE,
             didUpdate |-> st.didUpdate, refused |-> st.refused]
    BY <2>1 DEF IsTurn
  <2> HIDE DEF r
  <2>3. IsTurn(r) /\ TurnCrosses(st, r, e, d)
    BY <1>4, <2>2 DEF IsTurn, TurnCrosses, SameTimelines
  <2> QED BY <2>3 DEF r
<1>5. CASE /\ ex # NoTl /\ ex # st.tl /\ st.tls[st.tl].next[d] = NoTl
           /\ (d = "b" /\ ex = lv) \/ (d = "f" /\ st.tl = lv)
  <2>1. r = [st EXCEPT !.lastNew = FALSE, !.refused = TRUE]
    BY <1>5 DEF addOne
  <2>2. r = [tls |-> st.tls, index |-> st.index, tl |-> st.tl, lastNew |-> FALSE,
             didUpdate |-> st.didUpdate, refused |-> TRUE]
    BY <2>1 DEF IsTurn
  <2> HIDE DEF r
  <2>3. IsTurn(r) /\ TurnRefuses(st, r, e)
    BY <1>5, <2>2 DEF IsTurn, TurnRefuses, SameTimelines
  <2> QED BY <2>3 DEF r
<1>6. CASE /\ ex # NoTl /\ ex # st.tl /\ st.tls[st.tl].next[d] = NoTl
           /\ ~(d = "b" /\ ex = lv) /\ ~(d = "f" /\ st.tl = lv)
  <2>1. r = [st EXCEPT !.lastNew = FALSE, !.didUpdate = TRUE, !.tl = ex,
                       !.tls[st.tl] = setNeighbouringTimeline(@, ex, d),
                       !.tls[ex] = setNeighbouringTimeline(@, st.tl, Opposite(d))]
    BY <1>6 DEF addOne
  <2>2. r = [tls |-> [st.tls EXCEPT ![st.tl] = setNeighbouringTimeline(st.tls[st.tl], ex, d),
                                    ![ex] = setNeighbouringTimeline(st.tls[ex], st.tl, Opposite(d))],
             index |-> st.index, tl |-> ex, lastNew |-> FALSE, didUpdate |-> TRUE, refused |-> st.refused]
    BY <1>1, <1>6, <2>1 DEF IsTurn
  <2> HIDE DEF r
  <2>3. IsTurn(r) /\ TurnLinks(st, r, e, d, lv)
    BY <1>6, <2>2 DEF IsTurn, TurnLinks, Links
  <2> QED BY <2>3 DEF r
<1> QED BY <1>2, <1>3, <1>4, <1>5, <1>6

\* One turn of the loop.
Turn(st, r, e, d, lv) ==
  \/ TurnAdds(st, r, e, d)
  \/ TurnStays(st, r, e)
  \/ TurnCrosses(st, r, e, d)
  \/ TurnRefuses(st, r, e)
  \/ TurnLinks(st, r, e, d, lv)

\* What events have a timeline keep it.
Grows(ts, ix, ts2, ix2) ==
  /\ Len(ts2) = Len(ts)
  /\ \A j \in 1 .. Len(ts) : \A x \in Id : Holds(ts, j, x) => Holds(ts2, j, x)
  /\ \A x \in Id : ix[x] # NoTl => ix2[x] = ix[x]

\* The loop's timelines have their types and only grow.
LEMMA TurnTyped ==
  ASSUME NEW st, Typed(st.tls, st.index), st.tl \in DOMAIN st.tls, NEW e \in Event, NEW d \in Dir,
         NEW lv, NEW r, Turn(st, r, e, d, lv)
  PROVE  /\ Typed(r.tls, r.index) /\ r.tl \in DOMAIN r.tls
         /\ Grows(st.tls, st.index, r.tls, r.index)
<1>1. /\ Len(st.tls) \in Nat /\ DOMAIN st.tls = 1 .. Len(st.tls) /\ st.index \in [Id -> 0 .. Len(st.tls)]
      /\ e \in Id /\ NoTl = 0 /\ (st.index[e] # NoTl => st.index[e] \in DOMAIN st.tls)
  BY TypedFacts, EventTypes DEF NoTl
<1>2. CASE SameTimelines(st, r) /\ (r.tl = st.tl \/ (r.tl = st.index[e] /\ st.index[e] # NoTl))
  BY <1>1, <1>2 DEF SameTimelines, Grows
<1>3. CASE TurnAdds(st, r, e, d)
  <2>1. Adds(st.tls, st.index, st.tl, e, d, r.tls, r.index) /\ r.tl = st.tl /\ st.index[e] = NoTl
    BY <1>3 DEF TurnAdds
  <2>2. Typed(r.tls, r.index) /\ Added(st.tls, st.index, st.tl, e, d, r.tls, r.index)
    BY <1>1, <2>1, AddKeeps
  <2>3. DOMAIN r.tls = 1 .. Len(r.tls) /\ Len(r.tls) = Len(st.tls)
    BY <2>2, TypedFacts DEF Added
  <2>4. Grows(st.tls, st.index, r.tls, r.index)
    BY <2>1, <2>2 DEF Added, Grows
  <2> QED BY <1>1, <2>1, <2>2, <2>3, <2>4
<1>4. CASE TurnLinks(st, r, e, d, lv)
  <2>1. /\ Links(st.tls, st.tl, st.index[e], d, r.tls) /\ r.index = st.index
        /\ st.index[e] \in DOMAIN st.tls /\ st.index[e] # st.tl /\ r.tl = st.index[e]
    BY <1>1, <1>4 DEF TurnLinks
  <2>2. Typed(r.tls, st.index) /\ Linked(st.tls, st.tl, st.index[e], d, r.tls)
    BY <2>1, LinkKeeps
  <2>3. DOMAIN r.tls = 1 .. Len(r.tls) /\ Len(r.tls) = Len(st.tls)
    BY <2>2, TypedFacts DEF Linked
  <2>4. Grows(st.tls, st.index, r.tls, r.index)
    BY <2>1, <2>2 DEF Linked, Grows, Holds, In
  <2> QED BY <1>1, <2>1, <2>2, <2>3, <2>4
<1>5. CASE TurnStays(st, r, e) \/ TurnCrosses(st, r, e, d) \/ TurnRefuses(st, r, e)
  <2>1. SameTimelines(st, r) /\ (r.tl = st.tl \/ (r.tl = st.index[e] /\ st.index[e] # NoTl))
    BY <1>5 DEF TurnStays, TurnCrosses, TurnRefuses
  <2> QED BY <1>2, <2>1
<1> QED BY <1>3, <1>4, <1>5 DEF Turn

\* The timeline that has its token still to come.
Awaits(st, d) == IF d = "b" /\ st.lastNew THEN st.tl ELSE NoTl

\* Nothing is torn so far.
Unhurt(st, d, o, lv) == Sound(st.tls, st.index, o, lv, Awaits(st, d)) /\ st.tl \in o .. Len(st.tls)

\* The next event is in its timeline or beside it.
Near(st, e, d) == st.index[e] = st.tl \/ Beside(st.index, st.tl, e, d)

\* Timelines that are forgotten stay as they are.
OldStay(ts, ts2, o) == \A i \in 1 .. o - 1 : ts2[i].evs = ts[i].evs

\* What a turn has done with event e.
TurnGoes(st, r, e, d, o, lv) ==
  /\ Unhurt(r, d, o, lv) /\ r.index[e] = r.tl /\ r.refused = st.refused
  /\ d = "b" /\ r.lastNew => \A a \in Event : r.index[a] = r.tl => e <= a
  /\ OldStay(st.tls, r.tls, o)

\* Unless it refuses a link, a turn tears nothing and goes to the timeline
\* that has the event.
LEMMA TurnSound ==
  ASSUME NEW st, Typed(st.tls, st.index), NEW e \in Event, NEW d \in Dir, NEW lv, NEW r,
         NEW o \in Nat \ {0}, Unhurt(st, d, o, lv), Near(st, e, d),
         d = "b" /\ st.lastNew => st.index[e] # st.tl,
         Turn(st, r, e, d, lv), ~TurnRefuses(st, r, e)
  PROVE  TurnGoes(st, r, e, d, o, lv)
<1>1. /\ Len(st.tls) \in Nat /\ DOMAIN st.tls = 1 .. Len(st.tls) /\ st.index \in [Id -> 0 .. Len(st.tls)]
      /\ e \in Id /\ NoTl = 0 /\ (st.index[e] # 0 => st.index[e] \in DOMAIN st.tls)
      /\ Event \subseteq Int /\ Event \subseteq Id
  BY TypedFacts, EventTypes DEF NoTl
<1>2. st.tl \in o .. Len(st.tls) /\ st.tl \in DOMAIN st.tls /\ st.tl # 0
  BY <1>1 DEF Unhurt
<1>3. /\ Sound(st.tls, st.index, o, lv, Awaits(st, d))
      /\ Apart(st.tls, st.index, o) /\ EndsOk(st.tls, st.index, o, lv, Awaits(st, d))
  BY DEF Unhurt, Sound
<1>4. st.index[e] # 0 => st.index[e] \in o .. Len(st.tls)
  BY <1>1, <1>3 DEF Apart
<1>5. CASE TurnAdds(st, r, e, d)
  <2>1. /\ Adds(st.tls, st.index, st.tl, e, d, r.tls, r.index) /\ st.index[e] = NoTl
        /\ r.tl = st.tl /\ r.lastNew = TRUE /\ r.refused = st.refused
    BY <1>5 DEF TurnAdds
  <2>2. Typed(r.tls, r.index) /\ Added(st.tls, st.index, st.tl, e, d, r.tls, r.index)
    BY <1>1, <1>2, <2>1, AddKeeps
  <2>3. Beside(st.index, st.tl, e, d)
    BY <1>1, <1>2, <2>1 DEF Near
  <2>4. Sound(r.tls, r.index, o, lv, Awaits(st, d))
    BY <1>2, <1>3, <2>1, <2>3, AddSound
  <2>5. Sound(r.tls, r.index, o, lv, Awaits(r, d))
    <3>1. Awaits(st, d) = Awaits(r, d) \/ Awaits(st, d) = NoTl
      BY <2>1 DEF Awaits
    <3>2. ASSUME Awaits(st, d) = NoTl PROVE Sound(r.tls, r.index, o, lv, Awaits(r, d))
      <4>1. \A i \in o .. Len(r.tls) : i # NoTl
        BY <1>1
      <4> QED BY <2>4, <3>2, <4>1 DEF Sound, EndsOk
    <3> QED BY <2>4, <3>1, <3>2
  <2>6. ASSUME d = "b", NEW a \in Event, r.index[a] = r.tl PROVE e <= a
    <3>1. a = e \/ st.index[a] = st.tl
      BY <1>1, <2>1, <2>2, <2>6 DEF Added
    <3>2. e + 1 \in Event /\ st.index[e + 1] = st.tl
      BY <2>3, <2>6 DEF Beside
    <3>3. \A u, v, w \in Event :
            u <= w /\ w <= v /\ st.index[u] # NoTl /\ st.index[u] = st.index[v] => st.index[w] = st.index[u]
      BY <1>3 DEF Apart
    <3>4. ASSUME st.index[a] = st.tl PROVE ~(a <= e)
      BY <1>1, <1>2, <2>1, <3>2, <3>3, <3>4
    <3> QED BY <1>1, <3>1, <3>4
  <2>7. OldStay(st.tls, r.tls, o)
    BY <1>1, <1>2, <2>2 DEF Added, OldStay
  <2>8. r.index[e] = r.tl /\ Len(r.tls) = Len(st.tls)
    BY <2>1, <2>2 DEF Added
  <2>9. Unhurt(r, d, o, lv)
    BY <1>2, <2>1, <2>5, <2>8 DEF Unhurt
  <2> QED BY <2>1, <2>6, <2>7, <2>8, <2>9 DEF TurnGoes
<1>6. CASE TurnStays(st, r, e)
  <2>1. /\ st.index[e] = st.tl /\ r.tls = st.tls /\ r.index = st.index
        /\ r.tl = st.tl /\ r.lastNew = FALSE /\ r.refused = st.refused
    BY <1>6 DEF TurnStays, SameTimelines
  <2>2. Awaits(st, d) = NoTl /\ Awaits(r, d) = NoTl
    BY <2>1 DEF Awaits
  <2> QED BY <1>2, <1>3, <2>1, <2>2 DEF Unhurt, OldStay, TurnGoes
<1>7. CASE TurnCrosses(st, r, e, d)
  <2>1. /\ st.index[e] # 0 /\ st.tls[st.tl].next[d] # NoTl /\ r.tls = st.tls /\ r.index = st.index
        /\ r.tl = st.index[e] /\ r.lastNew = FALSE /\ r.refused = st.refused
    BY <1>1, <1>7 DEF TurnCrosses, SameTimelines
  <2>2. Awaits(r, d) = NoTl
    BY <2>1 DEF Awaits
  <2>3. Awaits(st, d) = NoTl \/ (d = "b" /\ Awaits(st, d) = st.tl)
    BY DEF Awaits
  <2>4. EndsOk(st.tls, st.index, o, lv, NoTl)
    BY <1>3, <2>1, <2>3 DEF EndsOk
  <2> QED BY <1>3, <1>4, <2>1, <2>2, <2>4 DEF Unhurt, OldStay, Sound, TurnGoes
<1>8. CASE TurnLinks(st, r, e, d, lv)
  <2>1. /\ st.index[e] \in o .. Len(st.tls) /\ st.index[e] # st.tl /\ st.tls[st.tl].next[d] = NoTl
        /\ Links(st.tls, st.tl, st.index[e], d, r.tls) /\ r.index = st.index
        /\ ~(d = "b" /\ st.index[e] = lv) /\ ~(d = "f" /\ st.tl = lv)
        /\ r.tl = st.index[e] /\ r.lastNew = FALSE /\ r.refused = st.refused
    BY <1>1, <1>4, <1>8 DEF TurnLinks
  <2>2. Beside(st.index, st.tl, e, d)
    BY <2>1 DEF Near
  <2>3. Awaits(r, d) = Awaits(st, d) \/ (Awaits(st, d) = st.tl /\ d = "b")
    BY <2>1 DEF Awaits
  <2>4. Sound(r.tls, st.index, o, lv, Awaits(r, d))
    <3> DEFINE j == st.index[e]
               x == Awaits(st, d)
               x2 == Awaits(r, d)
    <3>1. j \in o .. Len(st.tls) /\ st.tl \in o .. Len(st.tls) /\ st.tl # j /\ (x2 = x \/ (x = st.tl /\ d = "b"))
      BY <1>2, <2>1, <2>3
    <3>2. Sound(st.tls, st.index, o, lv, x) /\ st.index[e] = j
      BY <1>3
    <3> HIDE DEF j, x, x2
    <3> QED BY <2>1, <2>2, <3>1, <3>2, LinkSound DEF j, x2
  <2>5. Linked(st.tls, st.tl, st.index[e], d, r.tls)
    <3>1. st.index[e] \in DOMAIN st.tls
      BY <1>1, <2>1
    <3> QED BY <1>2, <2>1, <3>1, LinkKeeps
  <2>6. Len(r.tls) = Len(st.tls) /\ OldStay(st.tls, r.tls, o)
    BY <1>1, <1>2, <2>5 DEF Linked, OldStay
  <2> QED BY <2>1, <2>4, <2>6 DEF Unhurt, TurnGoes
<1> QED BY <1>5, <1>6, <1>7, <1>8 DEF Turn

\* The loop before its first turn, its turns, and what follows the last.
LoopStart(ts, ix, tl) ==
  [tls |-> ts, index |-> ix, tl |-> tl, lastNew |-> FALSE, didUpdate |-> FALSE, refused |-> FALSE]

LoopOf(ts, ix, lv, es, d, tl, n, g) ==
  [k \in 0 .. n |-> IF k = 0 THEN LoopStart(ts, ix, tl) ELSE addOne(g[k - 1], es[k], d, lv)]

Closed(st, d, lv, token) ==
  IF (st.lastNew \/ ~st.didUpdate) /\ ~(d = "f" /\ st.tl = lv)
  THEN [st EXCEPT !.tls[st.tl] = setPaginationToken(@, token, d)] ELSE st

LoopRuns(ts, ix, lv, es, d, tl, g) ==
  /\ g[0] = LoopStart(ts, ix, tl)
  /\ \A k \in 1 .. Len(es) : g[k] = addOne(g[k - 1], es[k], d, lv)

\* There is a function with the equation of the loop.
LEMMA LoopExists ==
  ASSUME NEW ts, NEW ix, NEW lv, NEW es, NEW d, NEW tl, NEW n \in Nat
  PROVE  \E g : g = LoopOf(ts, ix, lv, es, d, tl, n, g)
<1> DEFINE T == {m \in Nat : \E g : g = LoopOf(ts, ix, lv, es, d, tl, m, g)}
<1>1. 0 \in T
  <2> DEFINE g == [k \in 0 .. 0 |-> LoopStart(ts, ix, tl)]
  <2>1. \A k \in 0 .. 0 : LoopOf(ts, ix, lv, es, d, tl, 0, g)[k] = LoopStart(ts, ix, tl)
    BY DEF LoopOf
  <2>2. LoopOf(ts, ix, lv, es, d, tl, 0, g) = [k \in 0 .. 0 |-> LoopOf(ts, ix, lv, es, d, tl, 0, g)[k]]
    BY DEF LoopOf
  <2>3. g = LoopOf(ts, ix, lv, es, d, tl, 0, g)
    BY <2>1, <2>2
  <2> QED BY <2>3
<1>2. ASSUME NEW m \in 0 .. n, m \in T, m < n PROVE m + 1 \in T
  <2>1. PICK g : g = LoopOf(ts, ix, lv, es, d, tl, m, g)
    BY <1>2
  <2> DEFINE last == addOne(g[m], es[m + 1], d, lv)
             h == [k \in 0 .. m + 1 |-> IF k <= m THEN g[k] ELSE last]
  <2>2. ASSUME NEW k \in 0 .. m + 1 PROVE h[k] = LoopOf(ts, ix, lv, es, d, tl, m + 1, h)[k]
    <3>1. LoopOf(ts, ix, lv, es, d, tl, m + 1, h)[k]
            = IF k = 0 THEN LoopStart(ts, ix, tl) ELSE addOne(h[k - 1], es[k], d, lv)
      BY DEF LoopOf
    <3>2. CASE k <= m
      <4>1. h[k] = g[k]
        BY <3>2
      <4>2. g[k] = IF k = 0 THEN LoopStart(ts, ix, tl) ELSE addOne(g[k - 1], es[k], d, lv)
        <5>1. k \in 0 .. m
          BY <3>2
        <5>2. LoopOf(ts, ix, lv, es, d, tl, m, g)[k]
                = IF k = 0 THEN LoopStart(ts, ix, tl) ELSE addOne(g[k - 1], es[k], d, lv)
          BY <5>1 DEF LoopOf
        <5> QED BY <2>1, <5>2
      <4>3. k = 0 \/ h[k - 1] = g[k - 1]
        BY <3>2
      <4> HIDE DEF h
      <4> QED BY <3>1, <4>1, <4>2, <4>3
    <3>3. CASE k = m + 1
      <4>1. h[k] = last /\ h[k - 1] = g[m] /\ k # 0
        BY <3>3
      <4> HIDE DEF h
      <4> QED BY <3>1, <3>3, <4>1
    <3> QED BY <3>2, <3>3
  <2>3. LoopOf(ts, ix, lv, es, d, tl, m + 1, h) = [k \in 0 .. m + 1 |-> LoopOf(ts, ix, lv, es, d, tl, m + 1, h)[k]]
    BY DEF LoopOf
  <2>4. h = [k \in 0 .. m + 1 |-> h[k]]
    OBVIOUS
  <2>5. h = LoopOf(ts, ix, lv, es, d, tl, m + 1, h)
    <3> HIDE DEF h
    <3> QED BY <2>2, <2>3, <2>4
  <2> HIDE DEF h
  <2> QED BY <2>5
<1>3. n \in T
  <2> HIDE DEF T
  <2> QED BY <1>1, <1>2, UpFromZero
<1> QED BY <1>3

\* addEventsToTimeline is that loop, closed.
LEMMA FillIs ==
  ASSUME NEW ts, NEW ix, NEW lv, NEW es \in Seq(Event), NEW d, NEW tl, NEW token
  PROVE  \E g : /\ LoopRuns(ts, ix, lv, es, d, tl, g)
                /\ addEventsToTimeline(ts, ix, lv, es, d, tl, token) = Closed(g[Len(es)], d, lv, token)
<1>1. PICK h : h = LoopOf(ts, ix, lv, es, d, tl, Len(es), h)
  <2> DEFINE n == Len(es)
  <2>1. n \in Nat
    OBVIOUS
  <2> HIDE DEF n
  <2>2. \E h : h = LoopOf(ts, ix, lv, es, d, tl, n, h)
    BY <2>1, LoopExists
  <2> QED BY <2>2 DEF n
<1>2. PICK g : /\ g = LoopOf(ts, ix, lv, es, d, tl, Len(es), g)
               /\ addEventsToTimeline(ts, ix, lv, es, d, tl, token) = Closed(g[Len(es)], d, lv, token)
  BY <1>1, Zenon DEF addEventsToTimeline, LoopOf, LoopStart, Closed
<1>3. ASSUME NEW k \in 0 .. Len(es)
      PROVE  g[k] = IF k = 0 THEN LoopStart(ts, ix, tl) ELSE addOne(g[k - 1], es[k], d, lv)
  <2>1. LoopOf(ts, ix, lv, es, d, tl, Len(es), g)[k]
          = IF k = 0 THEN LoopStart(ts, ix, tl) ELSE addOne(g[k - 1], es[k], d, lv)
    BY DEF LoopOf
  <2> QED BY <1>2, <2>1
<1>4. LoopRuns(ts, ix, lv, es, d, tl, g)
  BY <1>3 DEF LoopRuns
<1> QED BY <1>2, <1>4

\* Types in the loop.
TurnOk(st) ==
  /\ IsTurn(st) /\ Typed(st.tls, st.index) /\ st.tl \in DOMAIN st.tls
  /\ st.lastNew \in BOOLEAN /\ st.didUpdate \in BOOLEAN /\ st.refused \in BOOLEAN

\* Each turn is one of addOne, on a state of the right type.
LEMMA LoopTurns ==
  ASSUME NEW ts, NEW ix, Typed(ts, ix), NEW lv, NEW es \in Seq(Event), NEW d \in Dir,
         NEW tl \in DOMAIN ts, NEW g, LoopRuns(ts, ix, lv, es, d, tl, g)
  PROVE  /\ \A k \in 0 .. Len(es) : TurnOk(g[k]) /\ Grows(ts, ix, g[k].tls, g[k].index)
         /\ \A k \in 1 .. Len(es) : Turn(g[k - 1], g[k], es[k], d, lv)
<1> DEFINE T == {k \in Nat : TurnOk(g[k]) /\ Grows(ts, ix, g[k].tls, g[k].index)}
<1>0. /\ Len(es) \in Nat /\ \A k \in 1 .. Len(es) : es[k] \in Event
      /\ Len(ts) \in Nat /\ DOMAIN ts = 1 .. Len(ts)
  BY TypedFacts
<1>1. 0 \in T
  <2>1. g[0] = LoopStart(ts, ix, tl)
    BY DEF LoopRuns
  <2>2. /\ g[0].tls = ts /\ g[0].index = ix /\ g[0].tl = tl /\ g[0].lastNew = FALSE
        /\ g[0].didUpdate = FALSE /\ g[0].refused = FALSE /\ IsTurn(g[0])
    BY <2>1 DEF LoopStart, IsTurn
  <2>3. Grows(ts, ix, g[0].tls, g[0].index)
    BY <2>2 DEF Grows
  <2> QED BY <2>2, <2>3 DEF TurnOk
<1>2. ASSUME NEW k \in 0 .. Len(es), TurnOk(g[k]), k < Len(es)
      PROVE  /\ TurnOk(g[k + 1]) /\ Turn(g[k], g[k + 1], es[k + 1], d, lv)
             /\ Grows(g[k].tls, g[k].index, g[k + 1].tls, g[k + 1].index)
  <2> DEFINE st == g[k]
             e == es[k + 1]
             r == g[k + 1]
  <2>1. k + 1 \in 1 .. Len(es) /\ (k + 1) - 1 = k /\ e \in Event
    BY <1>0, <1>2
  <2>2. r = addOne(st, e, d, lv)
    BY <2>1 DEF LoopRuns
  <2>3. /\ IsTurn(st) /\ Typed(st.tls, st.index) /\ st.tl \in DOMAIN st.tls
        /\ st.lastNew \in BOOLEAN /\ st.didUpdate \in BOOLEAN /\ st.refused \in BOOLEAN
    BY <1>2 DEF TurnOk
  <2> HIDE DEF st, e, r
  <2>4. IsTurn(r) /\ Turn(st, r, e, d, lv)
    BY <2>1, <2>2, <2>3, AddOneIs DEF Turn
  <2>5. Typed(r.tls, r.index) /\ r.tl \in DOMAIN r.tls /\ Grows(st.tls, st.index, r.tls, r.index)
    BY <2>1, <2>3, <2>4, TurnTyped
  <2>6. r.lastNew \in BOOLEAN /\ r.didUpdate \in BOOLEAN /\ r.refused \in BOOLEAN
    BY <2>3, <2>4 DEF Turn, TurnAdds, TurnStays, TurnCrosses, TurnRefuses, TurnLinks
  <2>7. TurnOk(r)
    BY <2>4, <2>5, <2>6 DEF TurnOk
  <2> QED BY <2>4, <2>5, <2>7 DEF st, e, r
<1>3. ASSUME NEW k \in 0 .. Len(es), k \in T, k < Len(es) PROVE k + 1 \in T
  <2>1. TurnOk(g[k + 1]) /\ Grows(g[k].tls, g[k].index, g[k + 1].tls, g[k + 1].index)
    BY <1>2, <1>3
  <2>2. Grows(ts, ix, g[k].tls, g[k].index)
    BY <1>3
  <2>3. Grows(ts, ix, g[k + 1].tls, g[k + 1].index)
    BY <2>1, <2>2 DEF Grows
  <2> QED BY <2>1, <2>3
<1>4. \A k \in 0 .. Len(es) : k \in T
  <2> SUFFICES ASSUME NEW k \in 0 .. Len(es) PROVE k \in T
    OBVIOUS
  <2>1. k \in Nat /\ \A m \in 0 .. k : m \in T /\ m < k => m + 1 \in T
    BY <1>0, <1>3
  <2> HIDE DEF T
  <2> QED BY <1>1, <2>1, UpFromZero
<1>5. ASSUME NEW k \in 1 .. Len(es) PROVE Turn(g[k - 1], g[k], es[k], d, lv)
  <2>1. k - 1 \in 0 .. Len(es) /\ k - 1 < Len(es) /\ (k - 1) + 1 = k
    BY <1>0
  <2>2. TurnOk(g[k - 1])
    BY <1>4, <2>1
  <2>3. Turn(g[k - 1], g[(k - 1) + 1], es[(k - 1) + 1], d, lv)
    BY <1>2, <2>1, <2>2
  <2> QED BY <2>1, <2>3
<1> QED BY <1>4, <1>5

\* A page: each event is the one before or after the last.
IsPage(es, d) ==
  /\ es \in Seq(Event)
  /\ \A k \in 1 .. Len(es) - 1 : es[k + 1] = IF d = "b" THEN es[k] - 1 ELSE es[k] + 1

\* What holds after k turns unless a link was refused.
Follows(ts, g, k, es, d, o, lv) ==
  /\ Unhurt(g[k], d, o, lv) /\ OldStay(ts, g[k].tls, o)
  /\ k >= 1 => g[k].index[es[k]] = g[k].tl
  /\ d = "b" /\ g[k].lastNew => k >= 1 /\ \A a \in Event : g[k].index[a] = g[k].tl => es[k] <= a

\* The loop tears nothing from a turn on before which nothing was torn.
LEMMA LoopSound ==
  ASSUME NEW ts, NEW ix, Typed(ts, ix), NEW lv, NEW d \in Dir, NEW es, IsPage(es, d),
         NEW tl \in DOMAIN ts, NEW g, LoopRuns(ts, ix, lv, es, d, tl, g), NEW o \in Nat \ {0},
         o <= Len(ts), NEW m \in 0 .. Len(es), Follows(ts, g, m, es, d, o, lv),
         m < Len(es) => Near(g[m], es[m + 1], d)
  PROVE  g[Len(es)].refused \/ Follows(ts, g, Len(es), es, d, o, lv)
<1>0. /\ es \in Seq(Event) /\ Len(es) \in Nat /\ \A k \in 1 .. Len(es) : es[k] \in Event /\ es[k] \in Int
      /\ Len(ts) \in Nat /\ DOMAIN ts = 1 .. Len(ts)
      /\ \A k \in 1 .. Len(es) - 1 : es[k + 1] = IF d = "b" THEN es[k] - 1 ELSE es[k] + 1
  <2>1. /\ es \in Seq(Event)
        /\ \A k \in 1 .. Len(es) - 1 : es[k + 1] = IF d = "b" THEN es[k] - 1 ELSE es[k] + 1
    BY DEF IsPage
  <2>2. Len(es) \in Nat /\ \A k \in 1 .. Len(es) : es[k] \in Event /\ es[k] \in Int
    <3>1. Len(es) \in Nat /\ \A k \in 1 .. Len(es) : es[k] \in Event
      BY <2>1
    <3>2. Event \subseteq Int
      BY EventTypes
    <3> QED BY <3>1, <3>2
  <2> QED BY <2>1, <2>2, TypedFacts
<1>1. /\ \A k \in 0 .. Len(es) : TurnOk(g[k]) /\ Grows(ts, ix, g[k].tls, g[k].index)
      /\ \A k \in 1 .. Len(es) : Turn(g[k - 1], g[k], es[k], d, lv)
  BY <1>0, LoopTurns
<1>2. ASSUME NEW k \in 0 .. Len(es), k < Len(es), Follows(ts, g, k, es, d, o, lv), Near(g[k], es[k + 1], d)
      PROVE  g[k + 1].refused \/ Follows(ts, g, k + 1, es, d, o, lv)
  <2> DEFINE st == g[k]
             e == es[k + 1]
             r == g[k + 1]
  <2>1. k + 1 \in 1 .. Len(es) /\ (k + 1) - 1 = k /\ e \in Event
    BY <1>0, <1>2
  <2>2. Turn(st, r, e, d, lv)
    <3>1. Turn(g[(k + 1) - 1], g[k + 1], es[k + 1], d, lv)
      BY <1>1, <2>1
    <3> QED BY <2>1, <3>1
  <2>3. Typed(st.tls, st.index) /\ Unhurt(st, d, o, lv) /\ Near(st, e, d) /\ OldStay(ts, st.tls, o)
    BY <1>1, <1>2 DEF TurnOk, Follows
  <2>4. d = "b" /\ st.lastNew => st.index[e] # st.tl
    <3> SUFFICES ASSUME d = "b", st.lastNew, st.index[e] = st.tl PROVE FALSE
      OBVIOUS
    <3>1. k >= 1 /\ es[k] <= e
      BY <1>2, <2>1 DEF Follows
    <3>2. k \in 1 .. Len(es) - 1
      BY <1>0, <1>2, <3>1
    <3>3. e = es[k] - 1 /\ es[k] \in Int
      BY <1>0, <3>2
    <3> QED BY <3>1, <3>3
  <2>5. CASE TurnRefuses(st, r, e)
    BY <2>5 DEF TurnRefuses
  <2>6. CASE ~TurnRefuses(st, r, e)
    <3> HIDE DEF st, e, r
    <3>1. /\ Unhurt(r, d, o, lv) /\ r.index[e] = r.tl
          /\ d = "b" /\ r.lastNew => \A a \in Event : r.index[a] = r.tl => e <= a
          /\ OldStay(st.tls, r.tls, o)
      <4>1. TurnGoes(st, r, e, d, o, lv)
        BY <2>1, <2>2, <2>3, <2>4, <2>6, TurnSound
      <4> QED BY <4>1 DEF TurnGoes
    <3>2. OldStay(ts, r.tls, o)
      BY <2>3, <3>1 DEF OldStay
    <3> QED BY <2>1, <3>1, <3>2 DEF Follows, st, e, r
  <2> QED BY <2>5, <2>6
<1>3. ASSUME NEW k \in 1 .. Len(es), k < Len(es), Follows(ts, g, k, es, d, o, lv)
      PROVE  Near(g[k], es[k + 1], d)
  <2>1. k \in 1 .. Len(es) - 1
    BY <1>0, <1>3
  <2>2. g[k].index[es[k]] = g[k].tl
    BY <1>3 DEF Follows
  <2>3. es[k] = IF d = "b" THEN es[k + 1] + 1 ELSE es[k + 1] - 1
    <3>1. es[k + 1] = IF d = "b" THEN es[k] - 1 ELSE es[k] + 1
      BY <1>0, <2>1
    <3> QED BY <1>0, <3>1
  <2> QED BY <1>0, <2>2, <2>3 DEF Near, Beside
<1>4. ASSUME NEW k \in 1 .. Len(es), g[k - 1].refused PROVE g[k].refused
  <2>1. Turn(g[k - 1], g[k], es[k], d, lv)
    BY <1>1
  <2> QED BY <1>4, <2>1 DEF Turn, TurnAdds, TurnStays, TurnCrosses, TurnRefuses, TurnLinks
<1> DEFINE T == {j \in Nat : m + j <= Len(es) => g[m + j].refused \/ Follows(ts, g, m + j, es, d, o, lv)}
<1>5. 0 \in T
  <2>1. m + 0 = m
    OBVIOUS
  <2> QED BY <2>1
<1>6. ASSUME NEW j \in Nat, j \in T PROVE j + 1 \in T
  <2> DEFINE k == m + j
  <2> SUFFICES ASSUME m + (j + 1) <= Len(es)
               PROVE  g[m + (j + 1)].refused \/ Follows(ts, g, m + (j + 1), es, d, o, lv)
    OBVIOUS
  <2>1. m + (j + 1) = k + 1 /\ k \in 0 .. Len(es) /\ k < Len(es) /\ k + 1 \in 1 .. Len(es) /\ (k + 1) - 1 = k
    BY <1>0
  <2>2. g[k].refused \/ Follows(ts, g, k, es, d, o, lv)
    BY <1>6, <2>1
  <2>3. ASSUME Follows(ts, g, k, es, d, o, lv) PROVE Near(g[k], es[k + 1], d)
    <3>1. CASE k = m
      BY <2>1, <3>1
    <3>2. CASE k # m
      <4>1. k \in 1 .. Len(es)
        BY <2>1, <3>2
      <4> QED BY <1>3, <2>1, <2>3, <4>1
    <3> QED BY <3>1, <3>2
  <2> HIDE DEF k
  <2>4. g[k + 1].refused \/ Follows(ts, g, k + 1, es, d, o, lv)
    <3>1. ASSUME g[k].refused PROVE g[k + 1].refused
      <4>1. g[(k + 1) - 1].refused
        BY <2>1, <3>1
      <4> QED BY <1>4, <2>1, <4>1
    <3> QED BY <1>2, <2>1, <2>2, <2>3, <3>1
  <2> QED BY <2>1, <2>4
<1>7. Len(es) - m \in T
  <2>1. Len(es) - m \in Nat
    BY <1>0
  <2>2. \A j \in 0 .. Len(es) - m : j \in T /\ j < Len(es) - m => j + 1 \in T
    <3> HIDE DEF T
    <3> QED BY <1>6, <2>1
  <2> HIDE DEF T
  <2> QED BY <1>5, <2>1, <2>2, UpFromZero
<1>8. m + (Len(es) - m) = Len(es)
  BY <1>0
<1> QED BY <1>0, <1>7, <1>8

\* A token at the end, or not.
Closes(st, d, lv, token, res) ==
  /\ res.index = st.index /\ res.refused = st.refused /\ res.tl = st.tl
  /\ \/ /\ ~(d = "f" /\ st.tl = lv)
        /\ SetsToken(st.tls, st.tl, token, d, res.tls)
     \/ /\ st.lastNew = FALSE \/ (d = "f" /\ st.tl = lv)
        /\ res.tls = st.tls

\* What addEventsToTimeline does after its loop.
LEMMA ClosedIs ==
  ASSUME NEW st, TurnOk(st), NEW d, NEW lv, NEW token
  PROVE  Closes(st, d, lv, token, Closed(st, d, lv, token))
<1> DEFINE res == Closed(st, d, lv, token)
<1>1. IsTurn(st) /\ st.lastNew \in BOOLEAN
  BY DEF TurnOk
<1>2. CASE (st.lastNew \/ ~st.didUpdate) /\ ~(d = "f" /\ st.tl = lv)
  <2>1. res = [st EXCEPT !.tls[st.tl] = setPaginationToken(@, token, d)]
    BY <1>2 DEF Closed
  <2>2. res = [tls |-> [st.tls EXCEPT ![st.tl] = setPaginationToken(st.tls[st.tl], token, d)],
               index |-> st.index, tl |-> st.tl, lastNew |-> st.lastNew,
               didUpdate |-> st.didUpdate, refused |-> st.refused]
    BY <1>1, <2>1 DEF IsTurn
  <2> HIDE DEF res
  <2>3. /\ res.index = st.index /\ res.refused = st.refused /\ res.tl = st.tl
        /\ SetsToken(st.tls, st.tl, token, d, res.tls)
    BY <2>2 DEF SetsToken
  <2> QED BY <1>2, <2>3 DEF res, Closes
<1>3. CASE ~((st.lastNew \/ ~st.didUpdate) /\ ~(d = "f" /\ st.tl = lv))
  <2>1. res = st
    BY <1>3 DEF Closed
  <2>2. st.lastNew = FALSE \/ (d = "f" /\ st.tl = lv)
    BY <1>1, <1>3
  <2> QED BY <2>1, <2>2 DEF Closes
<1> QED BY <1>2, <1>3

\* What addEventsToTimeline returns, whatever the timelines are like.
FillOk(ts, ix, es, tl, res) ==
  /\ Typed(res.tls, res.index) /\ Grows(ts, ix, res.tls, res.index)
  /\ res.refused \in BOOLEAN
  /\ es # <<>> /\ ix[es[1]] = NoTl => res.index[es[1]] = tl

\* Any events can be filled in at any timeline, and the types stay.
LEMMA FillTyped ==
  ASSUME NEW ts, NEW ix, Typed(ts, ix), NEW lv, NEW es \in Seq(Event), NEW d \in Dir,
         NEW tl \in DOMAIN ts, NEW token \in Token
  PROVE  FillOk(ts, ix, es, tl, addEventsToTimeline(ts, ix, lv, es, d, tl, token))
<1> DEFINE res == addEventsToTimeline(ts, ix, lv, es, d, tl, token)
<1>0. /\ Len(es) \in Nat /\ \A k \in 1 .. Len(es) : es[k] \in Event
      /\ Len(ts) \in Nat /\ DOMAIN ts = 1 .. Len(ts) /\ Event \subseteq Id
  BY TypedFacts, EventTypes
<1>1. PICK g : LoopRuns(ts, ix, lv, es, d, tl, g) /\ res = Closed(g[Len(es)], d, lv, token)
  BY FillIs
<1>2. /\ \A k \in 0 .. Len(es) : TurnOk(g[k]) /\ Grows(ts, ix, g[k].tls, g[k].index)
      /\ \A k \in 1 .. Len(es) : Turn(g[k - 1], g[k], es[k], d, lv)
  BY <1>1, LoopTurns
<1> DEFINE st == g[Len(es)]
<1>3. TurnOk(st) /\ Grows(ts, ix, st.tls, st.index)
  BY <1>0, <1>2
<1> HIDE DEF st, res
<1>4. res = Closed(st, d, lv, token)
  BY <1>1 DEF st
<1>5. /\ res.index = st.index /\ res.refused = st.refused
      /\ SetsToken(st.tls, st.tl, token, d, res.tls) \/ res.tls = st.tls
  <2>1. Closes(st, d, lv, token, res)
    BY <1>3, <1>4, ClosedIs
  <2> QED BY <2>1 DEF Closes
<1>6. Typed(res.tls, res.index) /\ Grows(ts, ix, res.tls, res.index)
  <2>1. CASE SetsToken(st.tls, st.tl, token, d, res.tls)
    <3>1. Typed(res.tls, st.index) /\ Tokened(st.tls, st.tl, token, d, res.tls)
      BY <1>3, <2>1, TokenKeeps DEF TurnOk
    <3>2. Grows(ts, ix, res.tls, res.index)
      BY <1>3, <1>5, <3>1 DEF Grows, Tokened, Holds, In
    <3> QED BY <1>5, <3>1, <3>2
  <2>2. CASE res.tls = st.tls
    BY <1>3, <1>5, <2>2 DEF TurnOk
  <2> QED BY <1>5, <2>1, <2>2
<1>7. ASSUME es # <<>>, ix[es[1]] = NoTl PROVE res.index[es[1]] = tl
  <2>1. 1 \in 1 .. Len(es) /\ es[1] \in Event /\ es[1] \in Id
    BY <1>0, <1>7
  <2>2. Turn(g[0], g[1], es[1], d, lv)
    <3>1. Turn(g[1 - 1], g[1], es[1], d, lv)
      BY <1>2, <2>1
    <3> QED BY <3>1
  <2>3. g[0].tl = tl /\ g[0].index = ix
    BY <1>1 DEF LoopRuns, LoopStart
  <2>4. TurnAdds(g[0], g[1], es[1], d)
    BY <1>7, <2>2, <2>3 DEF Turn, TurnStays, TurnCrosses, TurnRefuses, TurnLinks
  <2>5. g[1].index[es[1]] = tl /\ tl # NoTl
    <3>1. g[1].index = [g[0].index EXCEPT ![es[1]] = tl] /\ ix \in [Id -> 0 .. Len(ts)]
      BY <2>3, <2>4, TypedFacts DEF TurnAdds, Adds
    <3> QED BY <1>0, <2>1, <2>3, <3>1 DEF NoTl
  <2> DEFINE T == {k \in Nat : k + 1 <= Len(es) => g[k + 1].index[es[1]] = tl}
  <2>6. 0 \in T
    BY <2>5
  <2>7. ASSUME NEW k \in Nat, k \in T PROVE k + 1 \in T
    <3> SUFFICES ASSUME (k + 1) + 1 <= Len(es) PROVE g[(k + 1) + 1].index[es[1]] = tl
      OBVIOUS
    <3> DEFINE m == k + 1
    <3>1. m \in 1 .. Len(es) /\ m + 1 \in 1 .. Len(es) /\ (m + 1) - 1 = m /\ m \in 0 .. Len(es)
      BY <1>0
    <3>2. g[m].index[es[1]] = tl
      BY <2>7, <3>1
    <3> HIDE DEF m
    <3>3. TurnOk(g[m]) /\ Turn(g[m], g[m + 1], es[m + 1], d, lv)
      <4>1. Turn(g[(m + 1) - 1], g[m + 1], es[m + 1], d, lv)
        BY <1>2, <3>1
      <4> QED BY <1>2, <3>1, <4>1
    <3>4. Grows(g[m].tls, g[m].index, g[m + 1].tls, g[m + 1].index)
      <4>1. es[m + 1] \in Event
        BY <1>0, <3>1
      <4> QED BY <3>3, <4>1, TurnTyped DEF TurnOk
    <3>5. g[m + 1].index[es[1]] = tl
      BY <2>1, <2>5, <3>2, <3>4 DEF Grows
    <3> QED BY <3>5 DEF m
  <2>8. Len(es) - 1 \in Nat /\ (Len(es) - 1) + 1 = Len(es)
    BY <1>0, <2>1
  <2>9. Len(es) - 1 \in T
    <3>1. \A k \in 0 .. Len(es) - 1 : k \in T /\ k < Len(es) - 1 => k + 1 \in T
      <4> HIDE DEF T
      <4> QED BY <2>7, <2>8
    <3> HIDE DEF T
    <3> QED BY <2>6, <2>8, <3>1, UpFromZero
  <2>10. st.index[es[1]] = tl
    BY <2>8, <2>9 DEF st
  <2> QED BY <1>5, <2>10
<1>8. res.refused \in BOOLEAN
  BY <1>3, <1>5 DEF TurnOk
<1> QED BY <1>6, <1>7, <1>8 DEF FillOk, res

\* The token at the end tears nothing where it continues the last timeline.
LEMMA CloseSound ==
  ASSUME NEW ts, NEW st, TurnOk(st), NEW d \in Dir, NEW lv, NEW o \in Nat \ {0}, Unhurt(st, d, o, lv),
         OldStay(ts, st.tls, o), NEW token \in 0 .. MaxHead, Stands(st.index, st.tl, token),
         NEW res, res = Closed(st, d, lv, token)
  PROVE  Sound(res.tls, res.index, o, lv, NoTl) /\ OldStay(ts, res.tls, o)
<1>1. /\ res.index = st.index
      /\ \/ ~(d = "f" /\ st.tl = lv) /\ SetsToken(st.tls, st.tl, token, d, res.tls)
         \/ (st.lastNew = FALSE \/ (d = "f" /\ st.tl = lv)) /\ res.tls = st.tls
  <2>1. Closes(st, d, lv, token, res)
    BY ClosedIs
  <2> QED BY <2>1 DEF Closes
<1>2. /\ Typed(st.tls, st.index) /\ Sound(st.tls, st.index, o, lv, Awaits(st, d))
      /\ st.tl \in o .. Len(st.tls) /\ st.tl \in DOMAIN st.tls
  BY DEF TurnOk, Unhurt
<1>3. CASE ~(d = "f" /\ st.tl = lv) /\ SetsToken(st.tls, st.tl, token, d, res.tls)
  <2>1. token \in Token /\ token # None
    BY TimelinesAssumption DEF Token, None
  <2>2. NoTl = Awaits(st, d) \/ (Awaits(st, d) = st.tl /\ d = "b")
    BY DEF Awaits
  <2>3. Sound(res.tls, st.index, o, lv, NoTl)
    <3> DEFINE x == Awaits(st, d)
    <3>1. Sound(st.tls, st.index, o, lv, x) /\ (NoTl = x \/ (x = st.tl /\ d = "b"))
      BY <1>2, <2>2
    <3> HIDE DEF x
    <3> QED BY <1>2, <1>3, <2>1, <3>1, TokenSound
  <2>4. Tokened(st.tls, st.tl, token, d, res.tls)
    BY <1>2, <1>3, <2>1, TokenKeeps
  <2>5. OldStay(ts, res.tls, o)
    <3>1. \A i \in 1 .. o - 1 : i \in 1 .. Len(st.tls)
      BY <1>2
    <3> QED BY <2>4, <3>1 DEF Tokened, OldStay
  <2> QED BY <1>1, <2>3, <2>5
<1>4. CASE (st.lastNew = FALSE \/ (d = "f" /\ st.tl = lv)) /\ res.tls = st.tls
  <2>1. Awaits(st, d) = NoTl
    BY <1>4 DEF Awaits
  <2> QED BY <1>1, <1>2, <1>4, <2>1
<1> QED BY <1>1, <1>3, <1>4

\* Where a page ends, and that it starts beside a timeline.
EndsPage(ix, es, d, tl, token) ==
  IF es = <<>> THEN Stands(ix, tl, token)
  ELSE /\ token = (IF d = "b" THEN es[Len(es)] - 1 ELSE es[Len(es)])
       /\ ix[es[1]] = tl \/ Beside(ix, tl, es[1], d)

\* A page that continues its timeline tears nothing, unless a link is refused.
FillSafe(ts, o, lv, res) ==
  ~res.refused => Sound(res.tls, res.index, o, lv, NoTl) /\ OldStay(ts, res.tls, o)

\* After the last turn the token continues the timeline.
LEMMA LastStands ==
  ASSUME NEW ts, NEW g, NEW es, NEW d \in Dir, IsPage(es, d), NEW o, NEW lv, es # <<>>,
         Follows(ts, g, Len(es), es, d, o, lv),
         NEW token, token = IF d = "b" THEN es[Len(es)] - 1 ELSE es[Len(es)]
  PROVE  Stands(g[Len(es)].index, g[Len(es)].tl, token)
<1>1. es \in Seq(Event)
  BY DEF IsPage
<1>2. Len(es) \in 1 .. Len(es) /\ Len(es) >= 1 /\ es[Len(es)] \in Event
  BY <1>1
<1>3. es[Len(es)] \in Int
  BY <1>2, EventTypes
<1>4. g[Len(es)].index[es[Len(es)]] = g[Len(es)].tl
  BY <1>2 DEF Follows
<1>5. es[Len(es)] \in {token, token + 1}
  BY <1>3
<1> QED BY <1>2, <1>4, <1>5 DEF Stands

\* A page that continues its timeline keeps the timelines sound.
LEMMA FillSound ==
  ASSUME NEW ts, NEW ix, Typed(ts, ix), NEW lv, NEW d \in Dir, NEW es, IsPage(es, d),
         NEW o \in Nat \ {0}, NEW tl \in o .. Len(ts), NEW token \in 0 .. MaxHead,
         EndsPage(ix, es, d, tl, token), Sound(ts, ix, o, lv, NoTl)
  PROVE  FillSafe(ts, o, lv, addEventsToTimeline(ts, ix, lv, es, d, tl, token))
<1> DEFINE res == addEventsToTimeline(ts, ix, lv, es, d, tl, token)
<1>0. /\ es \in Seq(Event) /\ Len(es) \in Nat
      /\ Len(ts) \in Nat /\ DOMAIN ts = 1 .. Len(ts) /\ tl \in DOMAIN ts /\ o <= Len(ts)
  <2>1. Len(ts) \in Nat /\ DOMAIN ts = 1 .. Len(ts)
    BY TypedFacts
  <2> QED BY <2>1 DEF IsPage
<1>1. PICK g : LoopRuns(ts, ix, lv, es, d, tl, g) /\ res = Closed(g[Len(es)], d, lv, token)
  BY <1>0, FillIs
<1>2. \A k \in 0 .. Len(es) : TurnOk(g[k])
  BY <1>0, <1>1, LoopTurns
<1> DEFINE st == g[Len(es)]
<1>3. TurnOk(st)
  BY <1>0, <1>2
<1>4. g[0].tls = ts /\ g[0].index = ix /\ g[0].tl = tl /\ g[0].lastNew = FALSE
  BY <1>1 DEF LoopRuns, LoopStart
<1>5. Follows(ts, g, 0, es, d, o, lv)
  <2>1. Awaits(g[0], d) = NoTl
    BY <1>4 DEF Awaits
  <2> QED BY <1>4, <2>1 DEF Follows, Unhurt, OldStay
<1>6. 0 < Len(es) => Near(g[0], es[0 + 1], d)
  BY <1>0, <1>4 DEF Near, EndsPage
<1>7. st.refused \/ Follows(ts, g, Len(es), es, d, o, lv)
  BY <1>0, <1>1, <1>5, <1>6, LoopSound
<1>8. Closes(st, d, lv, token, res)
  BY <1>1, <1>3, ClosedIs
<1>9. ASSUME ~st.refused PROVE Sound(res.tls, res.index, o, lv, NoTl) /\ OldStay(ts, res.tls, o)
  <2>1. Unhurt(st, d, o, lv) /\ OldStay(ts, st.tls, o)
    BY <1>7, <1>9 DEF Follows
  <2>2. Stands(st.index, st.tl, token)
    <3>1. CASE es = <<>>
      <4>1. Len(es) = 0
        BY <3>1
      <4> QED BY <1>4, <3>1, <4>1 DEF EndsPage
    <3>2. CASE es # <<>>
      BY <1>7, <1>9, <3>2, LastStands DEF EndsPage
    <3> QED BY <3>1, <3>2
  <2>3. res = Closed(st, d, lv, token)
    BY <1>1
  <2> HIDE DEF st, res
  <2> QED BY <1>3, <2>1, <2>2, <2>3, CloseSound
<1>10. res.refused = st.refused
  BY <1>8 DEF Closes
<1> QED BY <1>9, <1>10 DEF FillSafe

\* A new timeline, with one new event.
OneMore(ts, ix, e, ts2, ix2) ==
  LET n == Len(ts) + 1
  IN  /\ Len(ts2) = n /\ \A i \in 1 .. Len(ts) : ts2[i] = ts[i]
      /\ ts2[n].evs = <<e>>
      /\ \A d \in Dir : ts2[n].next[d] = NoTl /\ ts2[n].token[d] \in {None, e - 1, e}
      /\ ix2 = [ix EXCEPT ![e] = n]

\* It tears nothing.
LEMMA NewSound ==
  ASSUME NEW ts, NEW ix, Typed(ts, ix), NEW o \in 1 .. Len(ts) + 1, NEW e \in Event, ix[e] = NoTl,
         NEW ts2, NEW ix2, OneMore(ts, ix, e, ts2, ix2), NEW lv, NEW x, Sound(ts, ix, o, lv, x),
         Len(ts) + 1 # x /\ ts2[Len(ts) + 1].token["b"] = None => e = 1,
         ts2[Len(ts) + 1].token["f"] = None <=> Len(ts) + 1 = lv
  PROVE  Sound(ts2, ix2, o, lv, x)
<1> DEFINE n == Len(ts) + 1
<1>1. /\ Len(ts) \in Nat /\ \A i \in 1 .. Len(ts) : ts[i] \in Timeline(Len(ts))
      /\ ix \in [Id -> 0 .. Len(ts)] /\ Event \subseteq Id /\ Event \subseteq Int /\ NoTl = 0 /\ None = -1
      /\ Echo \notin Event
  BY TypedFacts, EventTypes DEF NoTl, None
<1>2. /\ Len(ts2) = n /\ \A i \in 1 .. Len(ts) : ts2[i] = ts[i]
      /\ ts2[n].evs = <<e>>
      /\ \A d \in Dir : ts2[n].next[d] = NoTl /\ ts2[n].token[d] \in {None, e - 1, e}
      /\ ix2[e] = n /\ \A y \in Id : y # e => ix2[y] = ix[y]
  BY <1>1 DEF OneMore
<1>3. Apart(ts, ix, o) /\ LinkedOk(ts, ix, o) /\ EndsOk(ts, ix, o, lv, x)
  BY DEF Sound
<1>4. \A i \in o .. n : i \in o .. Len(ts) \/ i = n
  BY <1>1
<1>5. \A y \in Event : ix2[y] = IF y = e THEN n ELSE ix[y]
  BY <1>1, <1>2
<1>6. \A y \in Event : ix[y] # n /\ (ix[y] # NoTl => ix2[y] = ix[y])
  <2>1. \A y \in Event : ix[y] \in 0 .. Len(ts)
    BY <1>1
  <2> QED BY <1>1, <1>5, <2>1
<1>7. Apart(ts2, ix2, o)
  <2>1. \A y \in Event : ix2[y] # NoTl => ix2[y] >= o
    BY <1>1, <1>3, <1>5 DEF Apart
  <2>2. ASSUME NEW i \in o .. n
        PROVE  Ordered(ts2[i].evs) /\ \A y \in Event : Holds(ts2, i, y) => ix2[y] = i
    <3>1. CASE i = n
      <4>1. ts2[i].evs = <<e>> /\ DOMAIN <<e>> = {1} /\ <<e>>[1] = e
        BY <1>2, <3>1
      <4>2. Ordered(ts2[i].evs)
        BY <4>1 DEF Ordered
      <4>3. \A y \in Event : Holds(ts2, i, y) => y = e
        BY <4>1 DEF Holds, In
      <4> QED BY <1>2, <3>1, <4>2, <4>3
    <3>2. CASE i \in o .. Len(ts)
      BY <1>1, <1>2, <1>3, <1>6, <3>2 DEF Apart, Holds
    <3> QED BY <1>4, <3>1, <3>2
  <2>3. \A a, b, y \in Event : a <= y /\ y <= b /\ ix2[a] # NoTl /\ ix2[a] = ix2[b] => ix2[y] = ix2[a]
    <3> SUFFICES ASSUME NEW a \in Event, NEW b \in Event, NEW y \in Event, a <= y, y <= b,
                        ix2[a] # NoTl, ix2[a] = ix2[b]
                 PROVE  ix2[y] = ix2[a]
      OBVIOUS
    <3>1. \A u, v, w \in Event : u <= w /\ w <= v /\ ix[u] # NoTl /\ ix[u] = ix[v] => ix[w] = ix[u]
      BY <1>3 DEF Apart
    <3>2. CASE a = e
      <4>1. b = e
        BY <1>5, <1>6, <3>2
      <4> QED BY <1>1, <3>2, <4>1
    <3>3. CASE a # e
      <4>1. b # e
        BY <1>5, <1>6, <3>3
      <4>2. ix[y] = ix[a] /\ ix2[a] = ix[a] /\ ix[a] # NoTl
        BY <1>5, <3>1, <3>3, <4>1
      <4> QED BY <1>6, <4>2
    <3> QED BY <3>2, <3>3
  <2> QED BY <1>2, <2>1, <2>2, <2>3 DEF Apart
<1>8. LinkedOk(ts2, ix2, o)
  <2> SUFFICES ASSUME NEW i \in o .. n, NEW d \in Dir, ts2[i].next[d] # NoTl
               PROVE  LET j == ts2[i].next[d]
                      IN  /\ j >= o /\ j # i /\ ts2[j].next[Opposite(d)] = i
                          /\ d = "f" => \E y \in Event : y + 1 \in Event /\ ix2[y] = i /\ ix2[y + 1] = j
    BY <1>2 DEF LinkedOk
  <2> DEFINE j == ts[i].next[d]
  <2>1. i \in o .. Len(ts) /\ i \in 1 .. Len(ts) /\ ts2[i].next[d] = j
    BY <1>1, <1>2, <1>4
  <2>2. j \in 1 .. Len(ts)
    BY <1>1, <2>1 DEF Timeline
  <2>3. /\ j >= o /\ j # i /\ ts[j].next[Opposite(d)] = i
        /\ d = "f" => \E y \in Event : y + 1 \in Event /\ ix[y] = i /\ ix[y + 1] = j
    BY <1>3, <2>1 DEF LinkedOk
  <2>4. d = "f" => \E y \in Event : y + 1 \in Event /\ ix2[y] = i /\ ix2[y + 1] = j
    BY <1>1, <1>6, <2>1, <2>2, <2>3
  <2> QED BY <1>2, <2>1, <2>2, <2>3, <2>4
<1>9. EndsOk(ts2, ix2, o, lv, x)
  <2> SUFFICES ASSUME NEW i \in o .. n
               PROVE  /\ \A d \in Dir : ts2[i].token[d] # None => Stands(ix2, i, ts2[i].token[d])
                      /\ i # x /\ ts2[i].next["b"] = NoTl /\ ts2[i].token["b"] = None => ix2[1] = i
                      /\ i # lv /\ ts2[i].next["f"] = NoTl => ts2[i].token["f"] # None
                      /\ i = lv => ts2[i].next["f"] = NoTl /\ ts2[i].token["f"] = None
    BY <1>2 DEF EndsOk
  <2>1. CASE i = n
    <3>1. ASSUME NEW t \in {e - 1, e} PROVE Stands(ix2, n, t)
      <4>1. e \in {t, t + 1}
        BY <1>1, <3>1
      <4> QED BY <1>2, <4>1 DEF Stands
    <3>2. "b" \in Dir /\ "f" \in Dir
      BY DEF Dir
    <3>3. ~(Len(ts) + 1 # x /\ ts2[n].token["b"] = None) \/ e = 1
      OBVIOUS
    <3>4. ts2[n].token["f"] = None <=> n = lv
      OBVIOUS
    <3> QED BY <1>2, <2>1, <3>1, <3>2, <3>3, <3>4
  <2>2. CASE i \in o .. Len(ts)
    <3>1. ts2[i] = ts[i] /\ i \in 1 .. Len(ts) /\ i # NoTl
      BY <1>1, <1>2, <2>2
    <3>2. ASSUME NEW t, Stands(ix, i, t) PROVE Stands(ix2, i, t)
      BY <1>6, <3>1, <3>2 DEF Stands
    <3>3. ix[1] = i => ix2[1] = i
      BY <1>6, <3>1, EventTypes
    <3>4. /\ \A d \in Dir : ts[i].token[d] # None => Stands(ix, i, ts[i].token[d])
          /\ i # x /\ ts[i].next["b"] = NoTl /\ ts[i].token["b"] = None => ix[1] = i
          /\ i # lv /\ ts[i].next["f"] = NoTl => ts[i].token["f"] # None
          /\ i = lv => ts[i].next["f"] = NoTl /\ ts[i].token["f"] = None
      BY <1>3, <2>2 DEF EndsOk
    <3> QED BY <3>1, <3>2, <3>3, <3>4
  <2> QED BY <1>4, <2>1, <2>2
<1> QED BY <1>7, <1>8, <1>9 DEF Sound

-----------------------------------------------------------------------------
(* A new timeline.                                                         *)

\* A timeline without events, with one token.
Fresh(t, d, tl) ==
  /\ tl \in [evs : {<<>>}, base : {0}, token : [Dir -> Token], next : [Dir -> {NoTl}]]
  /\ tl.token[d] = t /\ \A c \in Dir : c # d => tl.token[c] = None

\* That is what the code makes.
LEMMA FreshIs ==
  ASSUME NEW t \in Token, NEW d \in Dir
  PROVE  Fresh(t, d, setPaginationToken(Tl(<<>>), t, d))
<1> DEFINE tl == setPaginationToken(Tl(<<>>), t, d)
<1>1. tl = [evs |-> <<>>, base |-> 0, token |-> [[c \in Dir |-> None] EXCEPT ![d] = t],
            next |-> [c \in Dir |-> NoTl]]
  BY DEF setPaginationToken, Tl
<1>2. None \in Token
  BY DEF Token
<1> HIDE DEF tl
<1>3. /\ tl.evs = <<>> /\ tl.base = 0 /\ tl.token = [[c \in Dir |-> None] EXCEPT ![d] = t]
      /\ tl.next = [c \in Dir |-> NoTl]
  BY <1>1
<1>4. tl.token \in [Dir -> Token] /\ tl.token[d] = t /\ \A c \in Dir : c # d => tl.token[c] = None
  BY <1>2, <1>3
<1>5. tl \in [evs : {<<>>}, base : {0}, token : [Dir -> Token], next : [Dir -> {NoTl}]]
  BY <1>1, <1>2
<1> QED BY <1>4, <1>5 DEF Fresh, tl

\* With one more timeline the others are the same.
LEMMA AppendTyped ==
  ASSUME NEW ts, NEW ix, Typed(ts, ix), NEW t, NEW d \in Dir, NEW tl, Fresh(t, d, tl)
  PROVE  LET ts2 == Append(ts, tl)
         IN  /\ Typed(ts2, ix) /\ Len(ts2) = Len(ts) + 1 /\ ts2[Len(ts) + 1] = tl
             /\ \A i \in 1 .. Len(ts) : ts2[i] = ts[i]
<1> DEFINE n == Len(ts)
           m == n + 1
           ts2 == Append(ts, tl)
<1>1. /\ n \in Nat /\ DOMAIN ts = 1 .. n /\ ts \in Seq(Timeline(n))
      /\ \A i \in 1 .. n : ts[i] \in Timeline(n) /\ ts[i].base <= Len(ts[i].evs)
      /\ ix \in [Id -> 0 .. n] /\ \A e \in Id : ix[e] # NoTl => ix[e] \in 1 .. n /\ Holds(ts, ix[e], e)
  BY TypedFacts DEF Typed
<1> HIDE DEF n
<1>2. m \in Nat /\ 0 .. n \subseteq 0 .. m
  BY <1>1
<1> HIDE DEF m
<1>3. tl \in Timeline(m) /\ tl.base <= Len(tl.evs)
  <2>1. tl \in [evs : {<<>>}, base : {0}, token : [Dir -> Token], next : [Dir -> {NoTl}]]
    BY DEF Fresh
  <2>2. /\ tl = [evs |-> tl.evs, base |-> tl.base, token |-> tl.token, next |-> tl.next]
        /\ tl.evs = <<>> /\ tl.base = 0 /\ tl.token \in [Dir -> Token] /\ tl.next \in [Dir -> {NoTl}]
    BY <2>1
  <2>3. tl.next \in [Dir -> 0 .. m]
    BY <1>2, <2>2 DEF NoTl
  <2>4. tl.evs \in Seq(Id) /\ Len(tl.evs) = 0 /\ tl.base \in Nat
    BY <2>2
  <2>5. tl.base <= Len(tl.evs)
    BY <2>2, <2>4
  <2>6. [evs |-> tl.evs, base |-> tl.base, token |-> tl.token, next |-> tl.next] \in Timeline(m)
    BY <2>2, <2>3, <2>4 DEF Timeline
  <2>7. tl \in Timeline(m)
    BY <2>2, <2>6
  <2> QED BY <2>5, <2>7
<1>4. \A i \in 1 .. n : ts[i] \in Timeline(m)
  BY <1>1, <1>2 DEF Timeline
<1>5. ts \in Seq(Timeline(m)) /\ Len(ts) = n
  BY <1>1, <1>4 DEF n
<1>6. /\ ts2 \in Seq(Timeline(m)) /\ Len(ts2) = m /\ ts2[m] = tl
      /\ \A i \in 1 .. n : ts2[i] = ts[i]
  BY <1>1, <1>3, <1>5 DEF m
<1> HIDE DEF ts2
<1>7. \A i \in 1 .. m : i \in 1 .. n \/ i = m
  BY <1>1 DEF m
<1>8. \A i \in 1 .. m : ts2[i].base <= Len(ts2[i].evs)
  BY <1>1, <1>3, <1>6, <1>7
<1>9. \A e \in Id : ix[e] # NoTl => Holds(ts2, ix[e], e)
  BY <1>1, <1>6 DEF Holds
<1>10. ix \in [Id -> 0 .. m]
  BY <1>1, <1>2
<1>11. Typed(ts2, ix)
  BY <1>2, <1>6, <1>8, <1>9, <1>10, TypedFrom
<1> QED BY <1>6, <1>11 DEF ts2, m, n

\* A page around a new event tears nothing, unless a link is refused.
LEMMA NewFillSound ==
  ASSUME NEW ts, NEW ix, Typed(ts, ix), NEW o \in 1 .. Len(ts), NEW lv \in 1 .. Len(ts),
         NEW es, IsPage(es, "b"), es # <<>>, ix[es[1]] = NoTl, NEW tl, Fresh(es[1], "f", tl),
         NEW token \in 0 .. MaxHead, token = es[Len(es)] - 1, Sound(ts, ix, o, lv, NoTl)
  PROVE  FillSafe(Append(ts, tl), o, lv,
                  addEventsToTimeline(Append(ts, tl), ix, lv, es, "b", Len(ts) + 1, token))
<1> DEFINE n == Len(ts) + 1
           ts2 == Append(ts, tl)
           d == "b"
           e == es[1]
           res == addEventsToTimeline(ts2, ix, lv, es, d, n, token)
<1>1. /\ Len(ts) \in Nat /\ n \in Nat /\ n # 0 /\ NoTl = 0 /\ None = -1 /\ "f" \in Dir /\ d \in Dir
      /\ \A i \in 1 .. Len(ts) : i \in 1 .. n /\ i # n
      /\ o \in Nat \ {0} /\ o <= n /\ lv # n
  BY TypedFacts DEF NoTl, None, Dir
<1>2. Typed(ts2, ix) /\ Len(ts2) = n /\ ts2[n] = tl /\ \A i \in 1 .. Len(ts) : ts2[i] = ts[i]
  BY <1>1, AppendTyped
<1>3. /\ es \in Seq(Event) /\ Len(es) \in Nat /\ Len(es) >= 1 /\ 1 \in 1 .. Len(es) /\ e \in Event
      /\ e \in Id /\ e \in Int
  <2>1. es \in Seq(Event)
    BY DEF IsPage
  <2>2. Len(es) \in Nat /\ Len(es) >= 1 /\ 1 \in 1 .. Len(es) /\ e \in Event
    BY <2>1
  <2> QED BY <2>1, <2>2, EventTypes
<1>4. /\ tl.evs = <<>> /\ tl.base = 0 /\ tl.token["f"] = e /\ tl.token["b"] = None
      /\ tl.next["f"] = NoTl /\ tl.next["b"] = NoTl
  BY DEF Fresh, Dir
<1> HIDE DEF ts2, n, res, d, e
<1>5. n \in DOMAIN ts2
  BY <1>1, <1>2, TypedFacts
<1>6. PICK g : LoopRuns(ts2, ix, lv, es, d, n, g) /\ res = Closed(g[Len(es)], d, lv, token)
  BY <1>3, FillIs DEF res
<1>7. /\ \A k \in 0 .. Len(es) : TurnOk(g[k])
      /\ \A k \in 1 .. Len(es) : Turn(g[k - 1], g[k], es[k], d, lv)
  BY <1>1, <1>2, <1>3, <1>5, <1>6, LoopTurns
<1>8. TurnAdds(g[0], g[1], e, d) /\ g[0].tls = ts2 /\ g[0].index = ix /\ g[0].tl = n
  <2>1. g[0].tls = ts2 /\ g[0].index = ix /\ g[0].tl = n
    BY <1>6 DEF LoopRuns, LoopStart
  <2>2. Turn(g[1 - 1], g[1], es[1], d, lv)
    BY <1>3, <1>7
  <2>3. Turn(g[0], g[1], e, d, lv)
    BY <2>2 DEF e
  <2>4. ix[e] = NoTl
    BY DEF e
  <2> QED BY <2>1, <2>3, <2>4 DEF Turn, TurnStays, TurnCrosses, TurnRefuses, TurnLinks
<1>9. Added(ts2, ix, n, e, d, g[1].tls, g[1].index) /\ Adds(ts2, ix, n, e, d, g[1].tls, g[1].index)
  <2>1. Adds(ts2, ix, n, e, d, g[1].tls, g[1].index)
    BY <1>8 DEF TurnAdds
  <2> QED BY <1>1, <1>2, <1>3, <1>5, <2>1, AddKeeps
<1>10. g[1].tl = n /\ g[1].lastNew = TRUE
  BY <1>8 DEF TurnAdds
<1>11. Typed(g[1].tls, g[1].index)
  BY <1>3, <1>7 DEF TurnOk
<1>12. /\ Len(g[1].tls) = n /\ \A i \in 1 .. Len(ts) : g[1].tls[i] = ts[i]
       /\ g[1].tls[n].token = tl.token /\ g[1].tls[n].next = tl.next
       /\ g[1].tls[n].evs = <<e>>
       /\ g[1].index = [ix EXCEPT ![e] = n]
  <2>1. /\ Len(g[1].tls) = n /\ \A i \in 1 .. n : i # n => g[1].tls[i] = ts2[i]
        /\ g[1].tls[n].token = tl.token /\ g[1].tls[n].next = tl.next
        /\ Puts(tl, e, d, g[1].tls[n])
    BY <1>2, <1>9 DEF Added
  <2>2. Len(g[1].tls[n].evs) = 1 /\ g[1].tls[n].evs[1] = e
    BY <1>4, <2>1 DEF Puts, d
  <2>3. g[1].tls[n].evs \in Seq(Id)
    <3>1. g[1].tls[n] \in Timeline(n)
      BY <1>1, <1>2, <1>11, <2>1, <1>5, TypedFacts
    <3> QED BY <3>1 DEF Timeline
  <2>4. g[1].tls[n].evs = <<e>>
    <3> DEFINE q == g[1].tls[n].evs
    <3> HIDE DEF q
    <3>1. q \in Seq(Id) /\ Len(q) = 1 /\ q[1] = e
      BY <2>2, <2>3 DEF q
    <3>2. q = <<e>>
      BY <3>1
    <3> QED BY <3>2 DEF q
  <2> QED BY <1>1, <1>2, <1>9, <2>1, <2>4 DEF Adds
<1>13. OneMore(ts, ix, e, g[1].tls, g[1].index)
  BY <1>1, <1>4, <1>12 DEF OneMore, n, Dir
<1>14. Sound(ts, ix, o, lv, n)
  BY DEF Sound, EndsOk, NoTl
<1>15. Sound(g[1].tls, g[1].index, o, lv, n)
  <2>1. o \in 1 .. Len(ts) + 1 /\ ix[e] = NoTl
    BY <1>1 DEF e
  <2>2. /\ Len(ts) + 1 # n /\ g[1].tls[Len(ts) + 1].token["b"] = None => e = 1
        /\ g[1].tls[Len(ts) + 1].token["f"] = None <=> Len(ts) + 1 = lv
    <3>1. g[1].tls[n].token["f"] # None
      BY <1>1, <1>3, <1>4, <1>12 DEF Event
    <3> QED BY <1>1, <3>1 DEF n
  <2> QED BY <1>3, <1>13, <1>14, <2>1, <2>2, NewSound
<1>16. Follows(ts2, g, 1, es, d, o, lv)
  <2>1. Unhurt(g[1], d, o, lv)
    BY <1>1, <1>10, <1>12, <1>15 DEF Unhurt, Awaits, d
  <2>2. OldStay(ts2, g[1].tls, o)
    BY <1>1, <1>2, <1>12 DEF OldStay
  <2>3. g[1].index[e] = n /\ \A a \in Event : g[1].index[a] = n => a = e
    <3>1. ix \in [Id -> 0 .. Len(ts)] /\ Event \subseteq Id
      BY TypedFacts, EventTypes
    <3>2. \A a \in Event : ix[a] # n
      BY <1>1, <3>1 DEF n
    <3> QED BY <1>3, <1>12, <3>1, <3>2
  <2> QED BY <1>3, <1>10, <2>1, <2>2, <2>3 DEF Follows, e
<1>17. 1 < Len(es) => Near(g[1], es[1 + 1], d)
  <2> SUFFICES ASSUME 1 < Len(es) PROVE Near(g[1], es[2], d)
    OBVIOUS
  <2>1. es[1 + 1] = es[1] - 1
    <3>1. 1 \in 1 .. Len(es) - 1
      BY <1>3
    <3> QED BY <3>1 DEF IsPage
  <2>2. es[2] + 1 = e
    BY <1>3, <2>1 DEF e
  <2>3. g[1].index[e] = n
    BY <1>3, <1>9 DEF Added
  <2> QED BY <1>3, <1>10, <2>2, <2>3 DEF Near, Beside, d
<1> DEFINE st == g[Len(es)]
<1>18. st.refused \/ Follows(ts2, g, Len(es), es, d, o, lv)
  <2>1. 1 \in 0 .. Len(es) /\ o <= Len(ts2) /\ IsPage(es, d)
    BY <1>1, <1>2, <1>3 DEF d
  <2> QED BY <1>1, <1>2, <1>5, <1>6, <1>16, <1>17, <2>1, LoopSound
<1>19. TurnOk(st)
  BY <1>3, <1>7
<1>20. Closes(st, d, lv, token, res)
  BY <1>6, <1>19, ClosedIs
<1>21. ASSUME ~st.refused PROVE Sound(res.tls, res.index, o, lv, NoTl) /\ OldStay(ts2, res.tls, o)
  <2>1. Unhurt(st, d, o, lv) /\ OldStay(ts2, st.tls, o)
    BY <1>18, <1>21 DEF Follows
  <2>2. Stands(st.index, st.tl, token)
    <3>1. IsPage(es, d) /\ token = IF d = "b" THEN es[Len(es)] - 1 ELSE es[Len(es)]
      BY DEF d
    <3> QED BY <1>1, <1>18, <1>21, <3>1, LastStands
  <2>3. res = Closed(st, d, lv, token)
    BY <1>6
  <2> HIDE DEF st
  <2> QED BY <1>1, <1>19, <2>1, <2>2, <2>3, CloseSound
<1>22. res.refused = st.refused
  BY <1>20 DEF Closes
<1>23. FillSafe(ts2, o, lv, res)
  BY <1>21, <1>22 DEF FillSafe
<1> QED BY <1>23 DEF res, ts2, n, d

-----------------------------------------------------------------------------
(* The loop of addLiveEvents.                                              *)

\* The state of the loop.
IsLive(st) ==
  st = [tls |-> st.tls, live |-> st.live, oldest |-> st.oldest, index |-> st.index, skipped |-> st.skipped]

LiveOk(st) ==
  /\ IsLive(st) /\ Typed(st.tls, st.index) /\ st.live \in DOMAIN st.tls /\ st.skipped \in BOOLEAN

LiveTurn(st, r, e) ==
  /\ r.live = st.live /\ r.oldest = st.oldest
  /\ \/ /\ st.index[e] # NoTl /\ SameTimelines(st, r)
        /\ r.skipped = (st.skipped \/ st.index[e] # st.live)
     \/ /\ st.index[e] = NoTl /\ Adds(st.tls, st.index, st.live, e, "f", r.tls, r.index)
        /\ r.skipped = st.skipped

\* addLive adds the event or passes it over.
LEMMA AddLiveIs ==
  ASSUME NEW st, LiveOk(st), NEW e \in Event
  PROVE  LiveTurn(st, addLive(st, e), e) /\ IsLive(addLive(st, e))
<1> DEFINE r == addLive(st, e)
<1>1. st = [tls |-> st.tls, live |-> st.live, oldest |-> st.oldest, index |-> st.index, skipped |-> st.skipped]
  BY DEF LiveOk, IsLive
<1>2. CASE st.index[e] # NoTl
  <2>1. r = [st EXCEPT !.skipped = st.skipped \/ st.index[e] # st.live]
    BY <1>2 DEF addLive
  <2>2. r = [tls |-> st.tls, live |-> st.live, oldest |-> st.oldest, index |-> st.index,
             skipped |-> (st.skipped \/ st.index[e] # st.live)]
    BY <1>1, <2>1
  <2> HIDE DEF r
  <2>3. IsLive(r) /\ LiveTurn(st, r, e)
    BY <1>2, <2>2 DEF IsLive, LiveTurn, SameTimelines
  <2> QED BY <2>3 DEF r
<1>3. CASE st.index[e] = NoTl
  <2>1. r = [st EXCEPT !.tls[st.live] = addEvent(@, e, FALSE), !.index[e] = st.live]
    BY <1>3 DEF addLive
  <2>2. r = [tls |-> [st.tls EXCEPT ![st.live] = addEvent(st.tls[st.live], e, FALSE)], live |-> st.live,
             oldest |-> st.oldest, index |-> [st.index EXCEPT ![e] = st.live], skipped |-> st.skipped]
    BY <1>1, <2>1
  <2>3. ("f" = "b") = FALSE
    OBVIOUS
  <2> HIDE DEF r
  <2>4. IsLive(r) /\ r.live = st.live /\ r.oldest = st.oldest /\ r.skipped = st.skipped
    BY <2>2 DEF IsLive
  <2>5. Adds(st.tls, st.index, st.live, e, "f", r.tls, r.index)
    BY <2>2, <2>3 DEF Adds
  <2> QED BY <1>3, <2>4, <2>5 DEF r, LiveTurn
<1> QED BY <1>2, <1>3

LiveLoopOf(st, es, n, g) == [k \in 0 .. n |-> IF k = 0 THEN st ELSE addLive(g[k - 1], es[k])]

LiveRuns(st, es, g) ==
  /\ g[0] = st
  /\ \A k \in 1 .. Len(es) : g[k] = addLive(g[k - 1], es[k])

\* There is a function with the equation of the loop.
LEMMA LiveLoopExists ==
  ASSUME NEW st, NEW es, NEW n \in Nat
  PROVE  \E g : g = LiveLoopOf(st, es, n, g)
<1> DEFINE T == {m \in Nat : \E g : g = LiveLoopOf(st, es, m, g)}
<1>1. 0 \in T
  <2> DEFINE g == [k \in 0 .. 0 |-> st]
  <2>1. \A k \in 0 .. 0 : LiveLoopOf(st, es, 0, g)[k] = st
    BY DEF LiveLoopOf
  <2>2. LiveLoopOf(st, es, 0, g) = [k \in 0 .. 0 |-> LiveLoopOf(st, es, 0, g)[k]]
    BY DEF LiveLoopOf
  <2>3. g = LiveLoopOf(st, es, 0, g)
    BY <2>1, <2>2
  <2> QED BY <2>3
<1>2. ASSUME NEW m \in 0 .. n, m \in T, m < n PROVE m + 1 \in T
  <2>1. PICK g : g = LiveLoopOf(st, es, m, g)
    BY <1>2
  <2> DEFINE last == addLive(g[m], es[m + 1])
             h == [k \in 0 .. m + 1 |-> IF k <= m THEN g[k] ELSE last]
  <2>2. ASSUME NEW k \in 0 .. m + 1 PROVE h[k] = LiveLoopOf(st, es, m + 1, h)[k]
    <3>1. LiveLoopOf(st, es, m + 1, h)[k] = IF k = 0 THEN st ELSE addLive(h[k - 1], es[k])
      BY DEF LiveLoopOf
    <3>2. CASE k <= m
      <4>1. h[k] = g[k]
        BY <3>2
      <4>2. g[k] = IF k = 0 THEN st ELSE addLive(g[k - 1], es[k])
        <5>1. k \in 0 .. m
          BY <3>2
        <5>2. LiveLoopOf(st, es, m, g)[k] = IF k = 0 THEN st ELSE addLive(g[k - 1], es[k])
          BY <5>1 DEF LiveLoopOf
        <5> QED BY <2>1, <5>2
      <4>3. k = 0 \/ h[k - 1] = g[k - 1]
        BY <3>2
      <4> HIDE DEF h
      <4> QED BY <3>1, <4>1, <4>2, <4>3
    <3>3. CASE k = m + 1
      <4>1. h[k] = last /\ h[k - 1] = g[m] /\ k # 0
        BY <3>3
      <4> HIDE DEF h
      <4> QED BY <3>1, <3>3, <4>1
    <3> QED BY <3>2, <3>3
  <2>3. LiveLoopOf(st, es, m + 1, h) = [k \in 0 .. m + 1 |-> LiveLoopOf(st, es, m + 1, h)[k]]
    BY DEF LiveLoopOf
  <2>4. h = [k \in 0 .. m + 1 |-> h[k]]
    OBVIOUS
  <2>5. h = LiveLoopOf(st, es, m + 1, h)
    <3> HIDE DEF h
    <3> QED BY <2>2, <2>3, <2>4
  <2> HIDE DEF h
  <2> QED BY <2>5
<1>3. n \in T
  <2> HIDE DEF T
  <2> QED BY <1>1, <1>2, UpFromZero
<1> QED BY <1>3

\* addLiveEvents is that loop.
LEMMA LiveIs ==
  ASSUME NEW st, NEW es \in Seq(Event)
  PROVE  \E g : LiveRuns(st, es, g) /\ addLiveEvents(st, es) = g[Len(es)]
<1>1. PICK h : h = LiveLoopOf(st, es, Len(es), h)
  <2> DEFINE n == Len(es)
  <2>1. n \in Nat
    OBVIOUS
  <2> HIDE DEF n
  <2>2. \E h : h = LiveLoopOf(st, es, n, h)
    BY <2>1, LiveLoopExists
  <2> QED BY <2>2 DEF n
<1>2. PICK g : g = LiveLoopOf(st, es, Len(es), g) /\ addLiveEvents(st, es) = g[Len(es)]
  BY <1>1, Zenon DEF addLiveEvents, LiveLoopOf
<1>3. ASSUME NEW k \in 0 .. Len(es)
      PROVE  g[k] = IF k = 0 THEN st ELSE addLive(g[k - 1], es[k])
  <2>1. LiveLoopOf(st, es, Len(es), g)[k] = IF k = 0 THEN st ELSE addLive(g[k - 1], es[k])
    BY DEF LiveLoopOf
  <2> QED BY <1>2, <2>1
<1>4. LiveRuns(st, es, g)
  BY <1>3 DEF LiveRuns
<1> QED BY <1>2, <1>4

\* A turn keeps the types, and the timelines only grow.
LiveGoes(st, r) ==
  /\ LiveOk(r) /\ Grows(st.tls, st.index, r.tls, r.index) /\ r.live = st.live /\ r.oldest = st.oldest

\* A turn of addLiveEvents, whatever the timelines are like.
LEMMA LiveTurnTyped ==
  ASSUME NEW st, LiveOk(st), NEW e \in Event, NEW r, IsLive(r), LiveTurn(st, r, e)
  PROVE  LiveGoes(st, r)
<1>1. /\ Typed(st.tls, st.index) /\ st.live \in DOMAIN st.tls /\ st.skipped \in BOOLEAN
      /\ DOMAIN st.tls = 1 .. Len(st.tls) /\ e \in Id /\ "f" \in Dir
  BY TypedFacts, EventTypes DEF LiveOk, Dir
<1>2. r.live = st.live /\ r.oldest = st.oldest /\ r.skipped \in BOOLEAN
  BY <1>1 DEF LiveTurn
<1>3. CASE SameTimelines(st, r)
  BY <1>1, <1>2, <1>3 DEF SameTimelines, LiveGoes, LiveOk, Grows
<1>4. CASE st.index[e] = NoTl /\ Adds(st.tls, st.index, st.live, e, "f", r.tls, r.index)
  <2>1. Typed(r.tls, r.index) /\ Added(st.tls, st.index, st.live, e, "f", r.tls, r.index)
    BY <1>1, <1>4, AddKeeps
  <2>2. DOMAIN r.tls = 1 .. Len(r.tls) /\ Len(r.tls) = Len(st.tls)
    BY <2>1, TypedFacts DEF Added
  <2>3. Grows(st.tls, st.index, r.tls, r.index)
    BY <1>4, <2>1 DEF Added, Grows
  <2> QED BY <1>1, <1>2, <2>1, <2>2, <2>3 DEF LiveGoes, LiveOk
<1> QED BY <1>3, <1>4 DEF LiveTurn

\* Each turn is one of addLive, on a state of the right type.
LEMMA LiveTurns ==
  ASSUME NEW st, LiveOk(st), NEW es \in Seq(Event), NEW g, LiveRuns(st, es, g)
  PROVE  /\ \A k \in 0 .. Len(es) : LiveGoes(st, g[k])
         /\ \A k \in 1 .. Len(es) : LiveTurn(g[k - 1], g[k], es[k]) /\ LiveGoes(g[k - 1], g[k])
<1> DEFINE T == {k \in Nat : LiveGoes(st, g[k])}
<1>0. Len(es) \in Nat /\ \A k \in 1 .. Len(es) : es[k] \in Event
  OBVIOUS
<1>1. 0 \in T
  BY DEF LiveRuns, LiveGoes, Grows
<1>2. ASSUME NEW k \in 0 .. Len(es), LiveGoes(st, g[k]), k < Len(es)
      PROVE  /\ LiveGoes(st, g[k + 1])
             /\ LiveTurn(g[k], g[k + 1], es[k + 1]) /\ LiveGoes(g[k], g[k + 1])
  <2>1. k + 1 \in 1 .. Len(es) /\ (k + 1) - 1 = k /\ es[k + 1] \in Event
    BY <1>0, <1>2
  <2>2. g[k + 1] = addLive(g[k], es[k + 1])
    BY <2>1 DEF LiveRuns
  <2>3. LiveTurn(g[k], g[k + 1], es[k + 1]) /\ IsLive(g[k + 1])
    BY <1>2, <2>1, <2>2, AddLiveIs DEF LiveGoes
  <2>4. LiveGoes(g[k], g[k + 1])
    BY <1>2, <2>1, <2>3, LiveTurnTyped DEF LiveGoes
  <2>5. LiveGoes(st, g[k + 1])
    BY <1>2, <2>4 DEF LiveGoes, Grows
  <2> QED BY <2>3, <2>4, <2>5
<1>3. \A k \in 0 .. Len(es) : k \in T
  <2> SUFFICES ASSUME NEW k \in 0 .. Len(es) PROVE k \in T
    OBVIOUS
  <2>1. k \in Nat /\ \A m \in 0 .. k : m \in T /\ m < k => m + 1 \in T
    BY <1>0, <1>2
  <2> HIDE DEF T
  <2> QED BY <1>1, <2>1, UpFromZero
<1>4. ASSUME NEW k \in 1 .. Len(es) PROVE LiveTurn(g[k - 1], g[k], es[k]) /\ LiveGoes(g[k - 1], g[k])
  <2>1. k - 1 \in 0 .. Len(es) /\ k - 1 < Len(es) /\ (k - 1) + 1 = k
    BY <1>0
  <2>2. LiveGoes(st, g[k - 1])
    BY <1>3, <2>1
  <2>3. LiveTurn(g[k - 1], g[(k - 1) + 1], es[(k - 1) + 1]) /\ LiveGoes(g[k - 1], g[(k - 1) + 1])
    BY <1>2, <2>1, <2>2
  <2> QED BY <2>1, <2>3
<1> QED BY <1>3, <1>4

\* What holds after k turns unless an event was skipped.
LiveFollows(ts, g, k, es, o) ==
  /\ Sound(g[k].tls, g[k].index, o, g[k].live, NoTl) /\ g[k].live >= o /\ OldStay(ts, g[k].tls, o)
  /\ k >= 1 => g[k].index[es[k]] = g[k].live

\* The next event has a timeline, or is beside the last one.
LiveNear(st, e) == st.index[e] # NoTl \/ Beside(st.index, st.live, e, "f")

\* The loop tears nothing from a turn on before which nothing was torn.
LEMMA LiveSound ==
  ASSUME NEW st, LiveOk(st), NEW es, IsPage(es, "f"), NEW g, LiveRuns(st, es, g),
         NEW o \in Nat \ {0}, NEW ts, NEW m \in 0 .. Len(es), LiveFollows(ts, g, m, es, o),
         m < Len(es) => LiveNear(g[m], es[m + 1])
  PROVE  g[Len(es)].skipped \/ LiveFollows(ts, g, Len(es), es, o)
<1>0. /\ es \in Seq(Event) /\ Len(es) \in Nat /\ \A k \in 1 .. Len(es) : es[k] \in Event /\ es[k] \in Int
      /\ \A k \in 1 .. Len(es) - 1 : es[k + 1] = es[k] + 1
  <2>1. es \in Seq(Event) /\ \A k \in 1 .. Len(es) - 1 : es[k + 1] = es[k] + 1
    BY DEF IsPage
  <2>2. Len(es) \in Nat /\ \A k \in 1 .. Len(es) : es[k] \in Event
    BY <2>1
  <2> QED BY <2>1, <2>2, EventTypes
<1>1. /\ \A k \in 0 .. Len(es) : LiveGoes(st, g[k])
      /\ \A k \in 1 .. Len(es) : LiveTurn(g[k - 1], g[k], es[k]) /\ LiveGoes(g[k - 1], g[k])
  BY <1>0, LiveTurns
<1>2. ASSUME NEW k \in 0 .. Len(es), k < Len(es), LiveFollows(ts, g, k, es, o), LiveNear(g[k], es[k + 1])
      PROVE  g[k + 1].skipped \/ LiveFollows(ts, g, k + 1, es, o)
  <2> DEFINE q == g[k]
             e == es[k + 1]
             r == g[k + 1]
  <2>1. k + 1 \in 1 .. Len(es) /\ (k + 1) - 1 = k /\ e \in Event /\ "f" \in Dir
    BY <1>0, <1>2 DEF Dir
  <2>2. LiveTurn(q, r, e) /\ LiveGoes(q, r)
    <3>1. LiveTurn(g[(k + 1) - 1], g[k + 1], es[k + 1]) /\ LiveGoes(g[(k + 1) - 1], g[k + 1])
      BY <1>1, <2>1
    <3> QED BY <2>1, <3>1
  <2>3. /\ Typed(q.tls, q.index) /\ q.live \in DOMAIN q.tls /\ Sound(q.tls, q.index, o, q.live, NoTl)
        /\ q.live >= o /\ OldStay(ts, q.tls, o) /\ LiveNear(q, e)
    BY <1>1, <1>2 DEF LiveGoes, LiveOk, LiveFollows
  <2> SUFFICES ASSUME ~r.skipped PROVE LiveFollows(ts, g, k + 1, es, o)
    OBVIOUS
  <2>4. r.live = q.live
    BY <2>2 DEF LiveTurn
  <2>5. Sound(r.tls, r.index, o, r.live, NoTl) /\ OldStay(ts, r.tls, o) /\ r.index[e] = r.live
    <3> HIDE DEF q, e, r
    <3>1. CASE q.index[e] # NoTl
      <4>1. r.tls = q.tls /\ r.index = q.index /\ q.index[e] = q.live
        BY <2>2, <3>1 DEF LiveTurn, SameTimelines
      <4> QED BY <2>3, <2>4, <4>1
    <3>2. CASE q.index[e] = NoTl
      <4>1. Adds(q.tls, q.index, q.live, e, "f", r.tls, r.index)
        BY <2>2, <3>2 DEF LiveTurn
      <4>2. Beside(q.index, q.live, e, "f")
        BY <2>3, <3>2 DEF LiveNear
      <4>3. DOMAIN q.tls = 1 .. Len(q.tls) /\ Len(q.tls) \in Nat
        BY <2>3, TypedFacts
      <4>4. q.live \in o .. Len(q.tls)
        BY <2>3, <4>3
      <4>5. Sound(r.tls, r.index, o, q.live, NoTl)
        BY <2>1, <2>3, <3>2, <4>1, <4>2, <4>4, AddSound
      <4>6. Added(q.tls, q.index, q.live, e, "f", r.tls, r.index)
        BY <2>1, <2>3, <4>1, AddKeeps, EventTypes
      <4>7. \A i \in 1 .. o - 1 : i \in 1 .. Len(q.tls) /\ i # q.live
        BY <4>3, <4>4
      <4>8. OldStay(ts, r.tls, o)
        BY <2>3, <4>6, <4>7 DEF Added, OldStay
      <4> QED BY <2>4, <4>5, <4>6, <4>8 DEF Added
    <3> QED BY <3>1, <3>2
  <2> QED BY <2>3, <2>4, <2>5 DEF LiveFollows
<1>3. ASSUME NEW k \in 1 .. Len(es), k < Len(es), LiveFollows(ts, g, k, es, o)
      PROVE  LiveNear(g[k], es[k + 1])
  <2>1. k \in 1 .. Len(es) - 1
    BY <1>0, <1>3
  <2>2. g[k].index[es[k]] = g[k].live
    BY <1>3 DEF LiveFollows
  <2>3. es[k + 1] = es[k] + 1
    BY <1>0, <2>1
  <2>4. es[k] = es[k + 1] - 1
    BY <1>0, <2>3
  <2> QED BY <1>0, <2>2, <2>4 DEF LiveNear, Beside
<1>4. ASSUME NEW k \in 1 .. Len(es), g[k - 1].skipped PROVE g[k].skipped
  <2>1. LiveTurn(g[k - 1], g[k], es[k])
    BY <1>1
  <2> QED BY <1>4, <2>1 DEF LiveTurn
<1> DEFINE T == {j \in Nat : m + j <= Len(es) => g[m + j].skipped \/ LiveFollows(ts, g, m + j, es, o)}
<1>5. 0 \in T
  <2>1. m + 0 = m
    OBVIOUS
  <2> QED BY <2>1
<1>6. ASSUME NEW j \in Nat, j \in T PROVE j + 1 \in T
  <2> DEFINE k == m + j
  <2> SUFFICES ASSUME m + (j + 1) <= Len(es)
               PROVE  g[m + (j + 1)].skipped \/ LiveFollows(ts, g, m + (j + 1), es, o)
    OBVIOUS
  <2>1. m + (j + 1) = k + 1 /\ k \in 0 .. Len(es) /\ k < Len(es) /\ k + 1 \in 1 .. Len(es) /\ (k + 1) - 1 = k
    BY <1>0
  <2>2. g[k].skipped \/ LiveFollows(ts, g, k, es, o)
    BY <1>6, <2>1
  <2>3. ASSUME LiveFollows(ts, g, k, es, o) PROVE LiveNear(g[k], es[k + 1])
    <3>1. CASE k = m
      BY <2>1, <3>1
    <3>2. CASE k # m
      <4>1. k \in 1 .. Len(es)
        BY <2>1, <3>2
      <4> QED BY <1>3, <2>1, <2>3, <4>1
    <3> QED BY <3>1, <3>2
  <2> HIDE DEF k
  <2>4. g[k + 1].skipped \/ LiveFollows(ts, g, k + 1, es, o)
    <3>1. ASSUME g[k].skipped PROVE g[k + 1].skipped
      <4>1. g[(k + 1) - 1].skipped
        BY <2>1, <3>1
      <4> QED BY <1>4, <2>1, <4>1
    <3> QED BY <1>2, <2>1, <2>2, <2>3, <3>1
  <2> QED BY <2>1, <2>4
<1>7. Len(es) - m \in T
  <2>1. Len(es) - m \in Nat
    BY <1>0
  <2>2. \A j \in 0 .. Len(es) - m : j \in T /\ j < Len(es) - m => j + 1 \in T
    <3> HIDE DEF T
    <3> QED BY <1>6, <2>1
  <2> HIDE DEF T
  <2> QED BY <1>5, <2>1, <2>2, UpFromZero
<1>8. m + (Len(es) - m) = Len(es)
  BY <1>0
<1> QED BY <1>0, <1>7, <1>8

-----------------------------------------------------------------------------
(* Pages.                                                                  *)

\* Numbers that go up or down by one are a page.
IsRun(es, d, a, n) ==
  /\ IsPage(es, d) /\ Len(es) = n
  /\ n > 0 => es # <<>> /\ es[1] = a /\ es[n] = IF d = "b" THEN a - (n - 1) ELSE a + (n - 1)
  /\ n = 0 => es = <<>>

\* Upwards.
LEMMA UpRun ==
  ASSUME NEW a \in Int, NEW n \in Nat, n > 0 => a >= 1 /\ a + (n - 1) <= MaxHead,
         NEW es, es = [k \in 1 .. n |-> a + (k - 1)]
  PROVE  IsRun(es, "f", a, n)
<1>1. MaxHead \in Nat
  BY TimelinesAssumption
<1>2. \A k \in 1 .. n : es[k] = a + (k - 1) /\ es[k] \in Event
  BY <1>1 DEF Event
<1>3. es = [k \in 1 .. n |-> es[k]]
  BY <1>2
<1>4. es \in Seq(Event) /\ Len(es) = n
  BY <1>2, <1>3
<1>5. \A k \in 1 .. Len(es) - 1 : es[k + 1] = es[k] + 1
  BY <1>2, <1>4
<1>6. IsPage(es, "f")
  BY <1>4, <1>5 DEF IsPage
<1>7. n > 0 => es # <<>> /\ es[1] = a /\ es[n] = a + (n - 1)
  BY <1>2, <1>4
<1>8. n = 0 => es = <<>>
  BY <1>4
<1> QED BY <1>4, <1>6, <1>7, <1>8 DEF IsRun

\* Downwards.
LEMMA DownRun ==
  ASSUME NEW a \in Int, NEW n \in Nat, n > 0 => a <= MaxHead /\ a - (n - 1) >= 1,
         NEW es, es = [k \in 1 .. n |-> a - (k - 1)]
  PROVE  IsRun(es, "b", a, n)
<1>1. MaxHead \in Nat
  BY TimelinesAssumption
<1>2. \A k \in 1 .. n : es[k] = a - (k - 1) /\ es[k] \in Event
  BY <1>1 DEF Event
<1>3. es = [k \in 1 .. n |-> es[k]]
  BY <1>2
<1>4. es \in Seq(Event) /\ Len(es) = n
  BY <1>2, <1>3
<1>5. \A k \in 1 .. Len(es) - 1 : es[k + 1] = es[k] - 1
  BY <1>2, <1>4
<1>6. IsPage(es, "b")
  BY <1>4, <1>5 DEF IsPage
<1>7. n > 0 => es # <<>> /\ es[1] = a /\ es[n] = a - (n - 1)
  BY <1>2, <1>4
<1>8. n = 0 => es = <<>>
  BY <1>4
<1> QED BY <1>4, <1>6, <1>7, <1>8 DEF IsRun

\* How many events a page has, and which is the first.
PageLength(t, d, n, h) == IF d = "b" THEN lo(n, t) ELSE IF h > t THEN lo(n, h - t) ELSE 0
PageFirst(t, d) == IF d = "b" THEN t ELSE t + 1

\* A page of /messages.
LEMMA PageIs ==
  ASSUME NEW t \in 0 .. MaxHead, NEW d \in Dir, NEW n \in Nat \ {0}, NEW h \in Event
  PROVE  /\ PageLength(t, d, n, h) \in Nat
         /\ IsRun(Page(t, d, n, h), d, PageFirst(t, d), PageLength(t, d, n, h))
         /\ Beyond(t, d, Page(t, d, n, h)) \in 0 .. MaxHead
<1> DEFINE es == Page(t, d, n, h)
           m == PageLength(t, d, n, h)
<1>1. MaxHead \in Nat /\ t \in Nat /\ h \in Nat /\ h <= MaxHead
  BY TimelinesAssumption DEF Event
<1>2. CASE d = "b"
  <2>1. m \in Nat /\ m <= t /\ m = lo(n, t)
    BY <1>1, <1>2 DEF PageLength, lo
  <2>2. es = [k \in 1 .. m |-> t - (k - 1)]
    <3>1. es = [k \in 1 .. lo(n, t) |-> t - k + 1]
      BY <1>2 DEF Page
    <3>2. \A k \in 1 .. m : t - k + 1 = t - (k - 1)
      BY <1>1, <2>1
    <3> HIDE DEF es, m
    <3> QED BY <2>1, <3>1, <3>2
  <2> HIDE DEF es, m
  <2>3. IsRun(es, d, t, m)
    BY <1>1, <1>2, <2>1, <2>2, DownRun
  <2>4. Beyond(t, d, es) \in 0 .. MaxHead
    BY <1>1, <1>2, <2>1, <2>3 DEF Beyond, IsRun
  <2> QED BY <1>2, <2>1, <2>3, <2>4 DEF es, m, PageFirst
<1>3. CASE d = "f"
  <2>1. m \in Nat /\ (m > 0 => t + m <= h) /\ 1 .. m = 1 .. lo(n, h - t)
    BY <1>1, <1>3 DEF PageLength, lo
  <2>2. es = [k \in 1 .. m |-> (t + 1) + (k - 1)]
    <3>1. es = [k \in 1 .. lo(n, h - t) |-> t + k]
      BY <1>3 DEF Page
    <3>2. \A k \in 1 .. m : t + k = (t + 1) + (k - 1)
      BY <1>1, <2>1
    <3> HIDE DEF es, m
    <3> QED BY <2>1, <3>1, <3>2
  <2> HIDE DEF es, m
  <2>3. IsRun(es, d, t + 1, m)
    BY <1>1, <1>3, <2>1, <2>2, UpRun
  <2>4. Beyond(t, d, es) \in 0 .. MaxHead
    BY <1>1, <1>3, <2>1, <2>3 DEF Beyond, IsRun
  <2> QED BY <1>3, <2>1, <2>3, <2>4 DEF es, m, PageFirst
<1> QED BY <1>2, <1>3 DEF Dir

\* A page from a token that continues a timeline starts and ends as
\* addEventsToTimeline needs it.
LEMMA PageEnds ==
  ASSUME NEW ts, NEW ix, Typed(ts, ix), NEW o, Apart(ts, ix, o), NEW t \in 0 .. MaxHead, NEW d \in Dir,
         NEW n \in Nat \ {0}, NEW h \in Event, NEW tl \in Nat \ {0}, Stands(ix, tl, t)
  PROVE  EndsPage(ix, Page(t, d, n, h), d, tl, Beyond(t, d, Page(t, d, n, h)))
<1> DEFINE es == Page(t, d, n, h)
           m == PageLength(t, d, n, h)
           a == PageFirst(t, d)
           token == Beyond(t, d, es)
<1>1. m \in Nat /\ IsRun(es, d, a, m)
  BY PageIs
<1> HIDE DEF m, a, es
<1>2. token = IF d = "b" THEN t - Len(es) ELSE t + Len(es)
  BY DEF Beyond
<1>3. a = (IF d = "b" THEN t ELSE t + 1) /\ t \in Nat
  BY TimelinesAssumption DEF a, PageFirst
<1>4. CASE es = <<>>
  <2>1. Len(es) = 0
    BY <1>4
  <2>2. token = t
    BY <1>2, <1>3, <2>1
  <2> QED BY <1>4, <2>2 DEF EndsPage, es
<1>5. CASE es # <<>>
  <2>1. /\ Len(es) = m /\ m > 0 /\ es[1] = a /\ es[m] = IF d = "b" THEN a - (m - 1) ELSE a + (m - 1)
        /\ es \in Seq(Event)
    BY <1>1, <1>5 DEF IsRun, IsPage
  <2>2. token = IF d = "b" THEN es[Len(es)] - 1 ELSE es[Len(es)]
    BY <1>1, <1>2, <1>3, <2>1
  <2>3. a \in Event /\ a \in Int
    <3>1. es[1] \in Event
      BY <1>1, <2>1
    <3> QED BY <2>1, <3>1, EventTypes
  <2>4. PICK e \in Event : ix[e] = tl /\ e \in {t, t + 1}
    BY DEF Stands
  <2>5. ix[a] = tl \/ Beside(ix, tl, a, d)
    BY <1>3, <2>3, <2>4 DEF Beside
  <2> QED BY <1>5, <2>1, <2>2, <2>5 DEF EndsPage, es
<1> QED BY <1>4, <1>5

-----------------------------------------------------------------------------
(* The window.                                                             *)

\* Moving an end of a window keeps its type.
LEMMA OpenedWith ==
  ASSUME NEW n \in Nat, NEW w \in Opened(n), NEW d \in Dir, NEW p \in Point(n), NEW c \in Int
  PROVE  /\ At(w, d) \in Point(n) /\ w.open = TRUE /\ w.count \in Int
         /\ [w EXCEPT ![End(d)] = p, !.count = c] \in Opened(n)
         /\ [w EXCEPT ![End(d)] = p] \in Opened(n)
         /\ [w EXCEPT ![End(d)] = p, !.count = c].count = c
         /\ At([w EXCEPT ![End(d)] = p], d) = p
         /\ At([w EXCEPT ![End(d)] = p, !.count = c], d) = p
<1>1. w = [open |-> TRUE, start |-> w.start, end |-> w.end, count |-> w.count]
  BY DEF Opened
<1>2. w.start \in Point(n) /\ w.end \in Point(n) /\ w.count \in Int /\ w.open = TRUE
  BY DEF Opened
<1>3. CASE d = "b"
  BY <1>1, <1>2, <1>3 DEF End, At, Opened
<1>4. CASE d = "f"
  BY <1>1, <1>2, <1>4 DEF End, At, Opened
<1> QED BY <1>3, <1>4 DEF Dir

\* advance takes an index to an index.
LEMMA AdvanceIs ==
  ASSUME NEW ts, NEW ix, Typed(ts, ix), NEW p \in Point(Len(ts)), NEW d \in Dir, NEW delta \in Int
  PROVE  /\ advance(ts, p, d, delta).at \in Point(Len(ts))
         /\ advance(ts, p, d, delta).by \in Int
<1> DEFINE n == Len(ts)
           m == ts[p.tl].next[d]
           q == [p EXCEPT !.tl = m, !.idx = IF d = "f" THEN minIndex(ts, m) ELSE maxIndex(ts, m)]
           step(r) == [at |-> Moved(r, d, lo(delta, Room(ts, r, d))), by |-> lo(delta, Room(ts, r, d))]
<1>1. /\ n \in Nat /\ \A i \in 1 .. n : ts[i] \in Timeline(n)
  BY TypedFacts
<1>2. \A i \in 1 .. n : minIndex(ts, i) \in Int /\ maxIndex(ts, i) \in Int
  BY <1>1 DEF minIndex, maxIndex, Timeline
<1>3. p \in Point(n) /\ p.tl \in 1 .. n /\ m \in 0 .. n
  <2>1. p \in Point(n) /\ p.tl \in 1 .. n
    BY DEF Point
  <2> QED BY <1>1, <2>1 DEF Timeline
<1> HIDE DEF n
<1>4. ASSUME NEW r \in Point(n) PROVE step(r).at \in Point(n) /\ step(r).by \in Int
  <2>1. r.tl \in 1 .. n /\ r.idx \in Int
    BY DEF Point
  <2>2. Room(ts, r, d) \in Int
    BY <1>2, <2>1 DEF Room
  <2>3. lo(delta, Room(ts, r, d)) \in Int
    BY <2>2 DEF lo
  <2> DEFINE b == lo(delta, Room(ts, r, d))
  <2> HIDE DEF b
  <2>4. b \in Int
    BY <2>3 DEF b
  <2>5. Moved(r, d, b) \in Point(n)
    BY <2>1, <2>4 DEF Moved, Point
  <2> QED BY <2>4, <2>5 DEF b
<1>5. m # NoTl => q \in Point(n)
  <2> SUFFICES ASSUME m # NoTl PROVE q \in Point(n)
    OBVIOUS
  <2> DEFINE z == IF d = "f" THEN minIndex(ts, m) ELSE maxIndex(ts, m)
  <2>1. m \in 1 .. n
    BY <1>1, <1>3 DEF NoTl
  <2>2. z \in Int
    BY <1>2, <2>1
  <2>3. q = [p EXCEPT !.tl = m, !.idx = z]
    OBVIOUS
  <2> HIDE DEF z, q, m
  <2> QED BY <1>3, <2>1, <2>2, <2>3 DEF Point
<1>6. \/ advance(ts, p, d, delta) = step(p)
      \/ m # NoTl /\ advance(ts, p, d, delta) = step(q)
      \/ advance(ts, p, d, delta) = [at |-> p, by |-> 0]
  BY DEF advance
<1> HIDE DEF step, q, m
<1>7. CASE advance(ts, p, d, delta) = step(p)
  BY <1>3, <1>4, <1>7 DEF n
<1>8. CASE m # NoTl /\ advance(ts, p, d, delta) = step(q)
  BY <1>5, <1>4, <1>8 DEF n
<1>9. CASE advance(ts, p, d, delta) = [at |-> p, by |-> 0]
  BY <1>3, <1>9 DEF n
<1> QED BY <1>6, <1>7, <1>8, <1>9

\* One step of unpaginate.
Dropped(ts, s, d) ==
  LET m == advance(ts, At(s.w, d), Opposite(d), s.left)
  IN  [w |-> [s.w EXCEPT ![End(d)] = m.at, !.count = @ - m.by], left |-> s.left - m.by]

DropOf(ts, w, delta, d, n, g) ==
  [k \in 0 .. n |-> IF k = 0 THEN [w |-> w, left |-> delta] ELSE Dropped(ts, g[k - 1], d)]

\* There is a function with the equation of unpaginate.
LEMMA DropExists ==
  ASSUME NEW ts, NEW w, NEW delta, NEW d, NEW n \in Nat
  PROVE  \E g : g = DropOf(ts, w, delta, d, n, g)
<1> DEFINE Body(m, g) == DropOf(ts, w, delta, d, m, g)
           base == [w |-> w, left |-> delta]
           T == {m \in Nat : \E g : g = Body(m, g)}
<1>1. 0 \in T
  <2> DEFINE g == [k \in 0 .. 0 |-> base]
  <2>1. \A k \in 0 .. 0 : Body(0, g)[k] = base
    BY DEF DropOf
  <2>2. Body(0, g) = [k \in 0 .. 0 |-> Body(0, g)[k]]
    BY DEF DropOf
  <2>3. g = Body(0, g)
    BY <2>1, <2>2
  <2> QED BY <2>3
<1>2. ASSUME NEW m \in 0 .. n, m \in T, m < n PROVE m + 1 \in T
  <2>1. PICK g : g = Body(m, g)
    BY <1>2
  <2> DEFINE last == Dropped(ts, g[m], d)
             h == [k \in 0 .. m + 1 |-> IF k <= m THEN g[k] ELSE last]
  <2>2. ASSUME NEW k \in 0 .. m + 1 PROVE h[k] = Body(m + 1, h)[k]
    <3>1. Body(m + 1, h)[k] = IF k = 0 THEN base ELSE Dropped(ts, h[k - 1], d)
      BY DEF DropOf
    <3>2. CASE k <= m
      <4>1. h[k] = g[k]
        BY <3>2
      <4>2. g[k] = IF k = 0 THEN base ELSE Dropped(ts, g[k - 1], d)
        <5>1. k \in 0 .. m
          BY <3>2
        <5>2. Body(m, g)[k] = IF k = 0 THEN base ELSE Dropped(ts, g[k - 1], d)
          BY <5>1 DEF DropOf
        <5> HIDE DEF Body
        <5> QED BY <2>1, <5>2
      <4>3. k = 0 \/ h[k - 1] = g[k - 1]
        BY <3>2
      <4> HIDE DEF h, Body
      <4> QED BY <3>1, <4>1, <4>2, <4>3
    <3>3. CASE k = m + 1
      <4>1. h[k] = last /\ h[k - 1] = g[m] /\ k # 0
        BY <3>3
      <4> HIDE DEF h, Body
      <4> QED BY <3>1, <3>3, <4>1
    <3> QED BY <3>2, <3>3
  <2>3. Body(m + 1, h) = [k \in 0 .. m + 1 |-> Body(m + 1, h)[k]]
    BY DEF DropOf
  <2>4. h = [k \in 0 .. m + 1 |-> h[k]]
    OBVIOUS
  <2>5. h = Body(m + 1, h)
    <3> HIDE DEF h, Body
    <3> QED BY <2>2, <2>3, <2>4
  <2> HIDE DEF h, Body
  <2> QED BY <2>5
<1>3. n \in T
  <2> HIDE DEF T
  <2> QED BY <1>1, <1>2, UpFromZero
<1> QED BY <1>3

\* unpaginate takes a window to a window.
LEMMA UnpaginateIs ==
  ASSUME NEW ts, NEW ix, Typed(ts, ix), NEW w \in Opened(Len(ts)), NEW delta \in Nat,
         NEW startOfTimeline \in BOOLEAN
  PROVE  unpaginate(ts, w, delta, startOfTimeline) \in Opened(Len(ts))
<1> DEFINE d == IF startOfTimeline THEN "b" ELSE "f"
<1>1. d \in Dir /\ Opposite(d) \in Dir /\ Len(ts) \in Nat
  BY TypedFacts DEF Dir, Opposite
<1>2. PICK h : h = DropOf(ts, w, delta, d, delta, h)
  <2> HIDE DEF d
  <2> QED BY DropExists
<1>3. PICK g : g = DropOf(ts, w, delta, d, delta, g) /\ unpaginate(ts, w, delta, startOfTimeline) = g[delta].w
  BY <1>2, Zenon DEF unpaginate, DropOf, Dropped
<1> HIDE DEF d
<1>4. ASSUME NEW k \in 0 .. delta
      PROVE  g[k] = IF k = 0 THEN [w |-> w, left |-> delta] ELSE Dropped(ts, g[k - 1], d)
  <2>1. DropOf(ts, w, delta, d, delta, g)[k]
          = IF k = 0 THEN [w |-> w, left |-> delta] ELSE Dropped(ts, g[k - 1], d)
    BY DEF DropOf
  <2> QED BY <1>3, <2>1
<1> DEFINE T == {k \in Nat : g[k].w \in Opened(Len(ts)) /\ g[k].left \in Int}
<1>5. 0 \in T
  BY <1>4
<1>6. ASSUME NEW k \in 0 .. delta, k \in T, k < delta PROVE k + 1 \in T
  <2> DEFINE s == g[k]
             m == advance(ts, At(s.w, d), Opposite(d), s.left)
  <2>1. g[k + 1] = Dropped(ts, s, d)
    <3>1. k + 1 \in 0 .. delta /\ k + 1 # 0 /\ (k + 1) - 1 = k
      BY <1>6
    <3> QED BY <1>4, <3>1
  <2>2. s.w \in Opened(Len(ts)) /\ s.left \in Int
    BY <1>6
  <2> HIDE DEF s
  <2>3. At(s.w, d) \in Point(Len(ts)) /\ s.w.count \in Int
    <3>1. /\ At(s.w, d) \in Point(Len(ts)) /\ s.w.count \in Int
      BY <1>1, <2>2 DEF Opened, At, End, Dir
    <3> QED BY <3>1
  <2>4. m.at \in Point(Len(ts)) /\ m.by \in Int
    BY <1>1, <2>2, <2>3, AdvanceIs
  <2> HIDE DEF m
  <2>5. [s.w EXCEPT ![End(d)] = m.at, !.count = s.w.count - m.by] \in Opened(Len(ts))
    <3>1. s.w.count - m.by \in Int
      BY <2>3, <2>4
    <3> QED BY <1>1, <2>2, <2>4, <3>1, OpenedWith
  <2>6. g[k + 1] = [w |-> [s.w EXCEPT ![End(d)] = m.at, !.count = s.w.count - m.by], left |-> s.left - m.by]
    <3>1. [s.w EXCEPT ![End(d)] = m.at, !.count = s.w.count - m.by] = [s.w EXCEPT ![End(d)] = m.at, !.count = @ - m.by]
      BY <1>1 DEF Dir, End
    <3> QED BY <2>1, <3>1 DEF Dropped, m
  <2>7. g[k + 1].w \in Opened(Len(ts)) /\ g[k + 1].left \in Int
    <3> DEFINE v == [s.w EXCEPT ![End(d)] = m.at, !.count = s.w.count - m.by]
    <3>0. v \in Opened(Len(ts)) /\ g[k + 1] = [w |-> v, left |-> s.left - m.by]
      BY <2>5, <2>6
    <3>2. s.left - m.by \in Int
      BY <2>2, <2>4
    <3>1. v \in Opened(Len(ts)) /\ g[k + 1] = [w |-> v, left |-> s.left - m.by] /\ s.left - m.by \in Int
      BY <3>0, <3>2
    <3> HIDE DEF v
    <3> QED BY <3>1
  <2> QED BY <2>7
<1>7. delta \in T
  <2> HIDE DEF T
  <2> QED BY <1>5, <1>6, UpFromZero
<1> QED BY <1>3, <1>7

\* extend takes a window to a window.
LEMMA ExtendIs ==
  ASSUME NEW ts, NEW ix, Typed(ts, ix), NEW w \in Opened(Len(ts)), NEW d \in Dir, NEW size \in Int
  PROVE  extend(ts, w, d, size).win \in Opened(Len(ts))
<1> DEFINE m == advance(ts, At(w, d), d, size)
           grown == [w EXCEPT ![End(d)] = m.at, !.count = w.count + m.by]
           over == grown.count - WindowLimit
<1>1. /\ Len(ts) \in Nat /\ WindowLimit \in Nat
  BY TypedFacts, TimelinesAssumption
<1>2. At(w, d) \in Point(Len(ts)) /\ w.count \in Int
  <2>1. 0 \in Int
    OBVIOUS
  <2> QED BY <1>1 DEF Opened, At, End, Dir
<1>3. m.at \in Point(Len(ts)) /\ m.by \in Int
  BY <1>2, AdvanceIs
<1>4. grown = [w EXCEPT ![End(d)] = m.at, !.count = @ + m.by]
  BY DEF Dir, End
<1>5. extend(ts, w, d, size).win
        = IF m.by > 0 /\ grown.count > WindowLimit THEN unpaginate(ts, grown, over, d = "f") ELSE grown
  BY <1>4, Zenon DEF extend
<1> HIDE DEF m
<1>6. grown \in Opened(Len(ts)) /\ grown.count \in Int
  <2>1. w.count + m.by \in Int
    BY <1>2, <1>3
  <2> QED BY <1>1, <1>3, <2>1, OpenedWith
<1> HIDE DEF grown
<1>7. CASE m.by > 0 /\ grown.count > WindowLimit
  <2>1. over \in Nat /\ (d = "f") \in BOOLEAN
    BY <1>1, <1>6, <1>7
  <2> HIDE DEF over
  <2> QED BY <1>5, <1>6, <1>7, <2>1, UnpaginateIs
<1>8. CASE ~(m.by > 0 /\ grown.count > WindowLimit)
  BY <1>5, <1>6, <1>8
<1> QED BY <1>7, <1>8

\* What the requests are like after something was asked for.
Asked(as, as2, ts, ix, lv) ==
  /\ RequestsType(as, Len(ts), lv) => RequestsType(as2, Len(ts), lv)
  /\ \A o \in 1 .. lv : EndsOk(ts, ix, o, lv, NoTl) /\ RequestsStand(as, ix, o, lv) => RequestsStand(as2, ix, o, lv)
  /\ \A r \in as2 : r.tl = NoTl => r \in as \/ style = "scrollback"

\* A request continues its timeline.
LEMMA StartRequestIs ==
  ASSUME NEW ts, NEW ix, Typed(ts, ix), NEW as, NEW i \in 1 .. Len(ts), NEW d \in Dir, NEW h \in Event, NEW lv
  PROVE  Asked(as, startRequest(as, ts, i, d, h), ts, ix, lv)
<1>1. /\ ts[i].token[d] \in Token /\ Len(ts) \in Nat /\ i # NoTl /\ h \in Nat \ {0} /\ NoTl = 0
      /\ i \in 0 .. Len(ts)
  <2>1. Len(ts) \in Nat /\ ts[i] \in Timeline(Len(ts))
    BY TypedFacts
  <2>2. MaxHead \in Nat
    BY TimelinesAssumption
  <2> QED BY <2>1, <2>2 DEF Timeline, NoTl, Event
<1> DEFINE new == [tl |-> i, dir |-> d, from |-> ts[i].token[d], at |-> h]
           as2 == startRequest(as, ts, i, d, h)
<1>2. as2 = as \/ (ts[i].token[d] # None /\ as2 = as \cup {new})
  BY DEF startRequest
<1> HIDE DEF as2
<1>3. CASE as2 = as
  BY <1>3 DEF Asked, as2
<1>4. CASE ts[i].token[d] # None /\ as2 = as \cup {new}
  <2>1. new.tl = i /\ new.dir = d /\ new.from = ts[i].token[d] /\ new.at = h
    OBVIOUS
  <2>2. ts[i].token[d] \in 0 .. MaxHead
    BY <1>1, <1>4 DEF Token
  <2>3. new \in [tl : 0 .. Len(ts), dir : Dir, from : 0 .. MaxHead, at : Nat \ {0}]
    BY <1>1, <2>2
  <2> HIDE DEF new
  <2>4. RequestsType(as, Len(ts), lv) => RequestsType(as2, Len(ts), lv)
    BY <1>1, <1>4, <2>1, <2>3 DEF RequestsType
  <2>5. ASSUME NEW o \in 1 .. lv, EndsOk(ts, ix, o, lv, NoTl), RequestsStand(as, ix, o, lv)
        PROVE  RequestsStand(as2, ix, o, lv)
    <3>1. i >= o => Stands(ix, i, ts[i].token[d])
      <4> SUFFICES ASSUME i >= o PROVE Stands(ix, i, ts[i].token[d])
        OBVIOUS
      <4>1. i \in o .. Len(ts)
        BY <1>1
      <4> QED BY <1>4, <2>5, <4>1 DEF EndsOk
    <3> QED BY <1>1, <1>4, <2>1, <2>5, <3>1 DEF RequestsStand
  <2>6. Asked(as, as2, ts, ix, lv)
    BY <1>1, <1>4, <2>1, <2>4, <2>5 DEF Asked
  <2> QED BY <2>6 DEF as2
<1> QED BY <1>2, <1>3, <1>4

\* What a window does leaves it a window, and asks for what continues.
Paged(as, ts, ix, lv, res) == WindowType(res.win, Len(ts)) /\ Asked(as, res.requests, ts, ix, lv)

\* The parts of that.
LEMMA PagedBy ==
  ASSUME NEW ts, NEW ix, NEW as, NEW as2, NEW lv, NEW w, NEW res, res = [win |-> w, requests |-> as2],
         WindowType(w, Len(ts)), Asked(as, as2, ts, ix, lv)
  PROVE  Paged(as, ts, ix, lv, res)
BY DEF Paged

\* paginate does.
LEMMA PaginateIs ==
  ASSUME NEW ts, NEW ix, Typed(ts, ix), NEW w \in Opened(Len(ts)), NEW as, NEW d \in Dir,
         NEW limit \in Int, head \in Event, NEW lv
  PROVE  Paged(as, ts, ix, lv, paginate(w, as, ts, d, limit))
<1> DEFINE f == End(d)
           e == extend(ts, w, d, PageSize)
           v == e.win
           i == v[f].tl
           v2 == [v EXCEPT ![f].left = limit - 1, ![f].on = i]
           res == paginate(w, as, ts, d, limit)
<1>1. PageSize \in Int /\ Len(ts) \in Nat
  BY TypedFacts, TimelinesAssumption
<1>2. v \in Opened(Len(ts))
  BY <1>1, ExtendIs
<1>3. \/ res = [win |-> w, requests |-> as]
      \/ res = [win |-> v, requests |-> as]
      \/ res = [win |-> v2, requests |-> startRequest(as, ts, i, d, head)]
  BY Zenon DEF paginate
<1>4. Asked(as, as, ts, ix, lv)
  BY DEF Asked
<1> HIDE DEF e
<1>5. v[f] \in Point(Len(ts)) /\ i \in 1 .. Len(ts)
  BY <1>2 DEF Opened, Point, End, Dir
<1>6. v2 \in Opened(Len(ts))
  <2> DEFINE q == [v[f] EXCEPT !.left = limit - 1, !.on = i]
  <2>1. q \in Point(Len(ts))
    <3> HIDE DEF v, f
    <3>1. limit - 1 \in Int /\ i \in 0 .. Len(ts)
      BY <1>1, <1>5
    <3> DEFINE p == v[f]
    <3>2. p \in Point(Len(ts)) /\ i \in Int
      BY <1>5, <3>1
    <3>3. q = [p EXCEPT !.left = limit - 1, !.on = i]
      OBVIOUS
    <3> HIDE DEF p, q, i
    <3> QED BY <3>1, <3>2, <3>3 DEF Point
  <2>2. v2 = [v EXCEPT ![f] = q]
    BY <1>2 DEF Opened, End, Dir
  <2> HIDE DEF q, v, v2
  <2>3. [v EXCEPT ![End(d)] = q] \in Opened(Len(ts))
    <3>1. 0 \in Int
      OBVIOUS
    <3> QED BY <1>1, <1>2, <2>1, <3>1, OpenedWith DEF v
  <2> QED BY <2>2, <2>3 DEF v2
<1>7. Asked(as, startRequest(as, ts, i, d, head), ts, ix, lv)
  <2> HIDE DEF i
  <2> QED BY <1>5, StartRequestIs
<1>8. WindowType(w, Len(ts)) /\ WindowType(v, Len(ts)) /\ WindowType(v2, Len(ts))
  BY <1>2, <1>6 DEF WindowType
<1> HIDE DEF v, v2, i, f, res
<1> QED BY <1>3, <1>4, <1>7, <1>8, PagedBy DEF res

\* So does what it does when a request is over.
LEMMA ResumeIs ==
  ASSUME NEW ts, NEW ix, Typed(ts, ix), NEW w, WindowType(w, Len(ts)), NEW as, NEW i, NEW d \in Dir,
         NEW ok \in BOOLEAN, head \in Event, NEW lv
  PROVE  Paged(as, ts, ix, lv, resume(w, as, ts, i, d, ok))
<1> DEFINE f == End(d)
           v == [w EXCEPT ![f].left = None]
           res == resume(w, as, ts, i, d, ok)
<1>1. Asked(as, as, ts, ix, lv)
  BY DEF Asked
<1>2. \/ res = [win |-> w, requests |-> as]
      \/ w.open /\ res = [win |-> v, requests |-> as]
      \/ w.open /\ res = paginate(v, as, ts, d, At(w, d).left)
  BY Zenon DEF resume
<1>3. w.open => v \in Opened(Len(ts)) /\ At(w, d).left \in Int
  <2> SUFFICES ASSUME w.open PROVE v \in Opened(Len(ts)) /\ At(w, d).left \in Int
    OBVIOUS
  <2>1. w \in Opened(Len(ts)) /\ Len(ts) \in Nat
    BY TypedFacts DEF WindowType, NoWindow
  <2>2. w[f] \in Point(Len(ts)) /\ At(w, d) = w[f]
    BY <2>1 DEF Opened, At, End, Dir
  <2> DEFINE q == [w[f] EXCEPT !.left = None]
  <2>3. q \in Point(Len(ts))
    <3> HIDE DEF f
    <3>1. w[f] = [tl |-> w[f].tl, idx |-> w[f].idx, left |-> w[f].left, on |-> w[f].on]
      BY <2>2 DEF Point
    <3>2. w[f].tl \in 1 .. Len(ts) /\ w[f].idx \in Int /\ w[f].on \in 0 .. Len(ts) /\ None \in Int
      BY <2>2 DEF Point, None
    <3>3. q = [tl |-> w[f].tl, idx |-> w[f].idx, left |-> None, on |-> w[f].on]
      BY <3>1
    <3> QED BY <3>2, <3>3 DEF Point
  <2>4. v = [w EXCEPT ![f] = q]
    BY <2>1 DEF Opened, End, Dir
  <2> HIDE DEF q, v
  <2>5. [w EXCEPT ![End(d)] = q] \in Opened(Len(ts))
    <3>1. 0 \in Int
      OBVIOUS
    <3> QED BY <2>1, <2>3, <3>1, OpenedWith
  <2>6. At(w, d).left \in Int
    BY <2>2 DEF Point
  <2> QED BY <2>4, <2>5, <2>6
<1> HIDE DEF v, f
<1>4. CASE w.open /\ res = paginate(v, as, ts, d, At(w, d).left)
  BY <1>3, <1>4, PaginateIs
<1>5. CASE ~(w.open /\ res = paginate(v, as, ts, d, At(w, d).left))
  <2>1. w.open => WindowType(v, Len(ts))
    BY <1>3 DEF WindowType
  <2> HIDE DEF res
  <2> QED BY <1>1, <1>2, <1>5, <2>1, PagedBy DEF res
<1> QED BY <1>4, <1>5

\* The window of a load.
LEMMA InitFieldsIs ==
  ASSUME NEW ts, NEW ix, Typed(ts, ix), NEW i \in 1 .. Len(ts), NEW k \in Int
  PROVE  WindowType(initFields(ts, i, k), Len(ts))
<1> DEFINE b == lo(Len(ts[i].evs), k + (PageSize + 1) \div 2)
           a == IF b > PageSize THEN b - PageSize ELSE 0
           at(x) == [tl |-> i, idx |-> x - ts[i].base, left |-> None, on |-> NoTl]
<1>1. /\ Len(ts) \in Nat /\ ts[i].base \in Nat /\ Len(ts[i].evs) \in Nat /\ NoTl \in 0 .. Len(ts)
      /\ None \in Int /\ PageSize \in Nat
  <2>1. Len(ts) \in Nat /\ ts[i] \in Timeline(Len(ts))
    BY TypedFacts
  <2> QED BY <2>1, TimelinesAssumption DEF Timeline, NoTl, None
<1>2. b \in Int /\ a \in Int
  BY <1>1 DEF lo
<1>3. initFields(ts, i, k) = [open |-> TRUE, start |-> at(a), end |-> at(b), count |-> b - a]
  BY Zenon DEF initFields
<1> HIDE DEF a, b
<1>4. at(a) \in Point(Len(ts)) /\ at(b) \in Point(Len(ts)) /\ b - a \in Int
  BY <1>1, <1>2 DEF Point
<1> HIDE DEF at
<1>5. initFields(ts, i, k) \in Opened(Len(ts))
  BY <1>3, <1>4 DEF Opened
<1> QED BY <1>5 DEF WindowType

-----------------------------------------------------------------------------
(* What grows keeps.                                                       *)

\* A window is one of more timelines, too.
LEMMA WindowMore ==
  ASSUME NEW n \in Nat, NEW m \in Nat, n <= m, NEW w, WindowType(w, n)
  PROVE  WindowType(w, m)
<1>1. 1 .. n \subseteq 1 .. m /\ 0 .. n \subseteq 0 .. m
  OBVIOUS
<1>2. Point(n) \subseteq Point(m)
  BY <1>1 DEF Point
<1> QED BY <1>2 DEF WindowType, Opened

\* So are requests.
LEMMA RequestsMore ==
  ASSUME NEW n \in Nat, NEW m \in Nat, n <= m, NEW lv \in Nat, NEW lv2 \in Nat, lv <= lv2, NEW as, NEW as2,
         as2 \subseteq as, RequestsType(as, n, lv)
  PROVE  RequestsType(as2, m, lv2)
<1> SUFFICES ASSUME NEW r \in as2
             PROVE  /\ r \in [tl : 0 .. m, dir : Dir, from : 0 .. MaxHead, at : Nat \ {0}]
                    /\ r.tl = NoTl => r.dir = "b" /\ r.at <= lv2
  BY DEF RequestsType
<1>1. /\ r \in [tl : 0 .. n, dir : Dir, from : 0 .. MaxHead, at : Nat \ {0}]
      /\ r.tl = NoTl => r.dir = "b" /\ r.at <= lv
  BY DEF RequestsType
<1>2. 0 .. n \subseteq 0 .. m
  OBVIOUS
<1>3. r \in [tl : 0 .. m, dir : Dir, from : 0 .. MaxHead, at : Nat \ {0}]
  BY <1>1, <1>2
<1>4. r.at \in Nat
  BY <1>1
<1> QED BY <1>1, <1>3, <1>4

\* Requests continue what has grown.
LEMMA RequestsGrow ==
  ASSUME NEW ts, NEW ix, NEW ts2, NEW ix2, Grows(ts, ix, ts2, ix2), NEW o \in Nat \ {0},
         NEW lv \in Nat \ {0}, NEW as, NEW as2, as2 \subseteq as, RequestsType(as, Len(ts), lv),
         RequestsStand(as, ix, o, lv), Len(ts) \in Nat
  PROVE  RequestsStand(as2, ix2, o, lv)
<1>1. \A i \in Nat \ {0} : \A t : Stands(ix, i, t) => Stands(ix2, i, t)
  BY EventTypes DEF Stands, Grows, NoTl
<1> SUFFICES ASSUME NEW r \in as2
             PROVE  /\ r.tl >= o => Stands(ix2, r.tl, r.from)
                    /\ r.tl = NoTl /\ r.at = lv => Stands(ix2, lv, r.from)
  BY DEF RequestsStand
<1>2. r \in as /\ r.tl \in 0 .. Len(ts)
  BY DEF RequestsType
<1>3. r.tl >= o => r.tl \in Nat \ {0}
  BY <1>2
<1> QED BY <1>1, <1>2, <1>3 DEF RequestsStand

\* Timelines that have an event keep it.
LEMMA FilledGrows ==
  ASSUME NEW ts, NEW ix, NEW ts2, NEW ix2, Typed(ts, ix), Typed(ts2, ix2), Grows(ts, ix, ts2, ix2),
         NEW new, Filled(ts, new), NEW new2, new2 = new \/ \E e \in Event : ix2[e] = new /\ new # NoTl
  PROVE  Filled(ts2, new2)
<1>1. /\ DOMAIN ts = 1 .. Len(ts) /\ DOMAIN ts2 = 1 .. Len(ts2) /\ Len(ts2) = Len(ts) /\ Event \subseteq Id
      /\ \A e \in Id : ix2[e] # NoTl => Holds(ts2, ix2[e], e)
  BY TypedFacts, EventTypes DEF Grows
<1> SUFFICES ASSUME NEW i \in DOMAIN ts2, i # new2 PROVE \E e \in Event : Holds(ts2, i, e)
  BY DEF Filled
<1>2. CASE i # new
  <2>1. PICK e \in Event : Holds(ts, i, e)
    BY <1>1, <1>2 DEF Filled
  <2> QED BY <1>1, <2>1 DEF Grows
<1>3. CASE i = new
  BY <1>1, <1>3
<1> QED BY <1>2, <1>3

\* A timeline that is not forgotten is a run of the room's events.
LEMMA RunOf ==
  ASSUME NEW ts, NEW ix, Typed(ts, ix), NEW o \in Nat \ {0}, Apart(ts, ix, o), NEW i \in o .. Len(ts)
  PROVE  Run(ts[i].evs)
<1> DEFINE es == ts[i].evs
<1>1. /\ Len(ts) \in Nat /\ i \in 1 .. Len(ts) /\ ts[i] \in Timeline(Len(ts)) /\ i # NoTl
      /\ Event \subseteq Int /\ Echo \notin Event /\ \A x \in Id : x # Echo => x \in Event
  BY TypedFacts, EventTypes DEF NoTl
<1>2. es \in Seq(Id) /\ DOMAIN es = 1 .. Len(es) /\ Len(es) \in Nat /\ \A k \in DOMAIN es : es[k] \in Id
  <2>1. es \in Seq(Id)
    BY <1>1 DEF Timeline
  <2> QED BY <2>1
<1>3. /\ Ordered(es)
      /\ \A e \in Event : Holds(ts, i, e) => ix[e] = i
      /\ \A a, b, x \in Event : a <= x /\ x <= b /\ ix[a] # NoTl /\ ix[a] = ix[b] => ix[x] = ix[a]
  BY DEF Apart
<1>4. \A e \in Event : ix[e] = i => \E m \in DOMAIN es : es[m] = e
  <2> SUFFICES ASSUME NEW e \in Event, ix[e] = i PROVE \E m \in DOMAIN es : es[m] = e
    OBVIOUS
  <2>1. Holds(ts, i, e)
    BY <1>1, TypedFacts, EventTypes
  <2> QED BY <2>1 DEF Holds, In
<1>5. \A k \in DOMAIN es : Holds(ts, i, es[k])
  BY DEF Holds, In
<1> HIDE DEF es
<1> SUFFICES ASSUME NEW k \in DOMAIN es, NEW l \in DOMAIN es, k < l, Echo \notin {es[k], es[l]},
                    \A m \in k + 1 .. l - 1 : es[m] = Echo
             PROVE  es[l] = es[k] + 1
  BY DEF Run, es
<1>6. es[k] \in Event /\ es[l] \in Event /\ es[k] \in Int /\ es[l] \in Int /\ es[k] < es[l]
  BY <1>1, <1>2, <1>3 DEF Ordered
<1>7. ix[es[k]] = i /\ ix[es[l]] = i
  BY <1>3, <1>5, <1>6
<1> SUFFICES ASSUME es[k] + 1 < es[l] PROVE FALSE
  BY <1>6
<1> DEFINE x == es[k] + 1
<1>8. x \in Event /\ es[k] <= x /\ x <= es[l]
  BY <1>6, EventTypes DEF Event
<1>9. PICK m \in DOMAIN es : es[m] = x
  BY <1>1, <1>3, <1>4, <1>6, <1>7, <1>8
<1>10. m \in Nat /\ k \in Nat /\ l \in Nat /\ es[m] # Echo
  BY <1>1, <1>2, <1>8, <1>9
<1>11. k < m
  <2>1. ~(m < k)
    BY <1>3, <1>6, <1>9, <1>10 DEF Ordered
  <2>2. m # k
    BY <1>6, <1>9
  <2> QED BY <1>10, <2>1, <2>2
<1>12. m < l
  <2>1. ~(l < m)
    BY <1>3, <1>6, <1>9, <1>10 DEF Ordered
  <2>2. m # l
    BY <1>6, <1>9
  <2> QED BY <1>10, <2>1, <2>2
<1> QED BY <1>10, <1>11, <1>12

\* When the old live timeline gets its token and a new one follows, nothing
\* is torn.
LEMMA RetireSound ==
  ASSUME NEW ts, NEW ix, NEW ts2, Typed(ts, ix), NEW o \in 1 .. Len(ts), NEW lv \in o .. Len(ts),
         NEW t \in 0 .. MaxHead, Stands(ix, lv, t), SetsToken(ts, lv, t, "f", ts2),
         Sound(ts, ix, o, lv, NoTl)
  PROVE  Sound(ts2, ix, o, Len(ts) + 1, NoTl)
<1>1. /\ Len(ts) \in Nat /\ DOMAIN ts = 1 .. Len(ts) /\ lv \in DOMAIN ts /\ "f" \in Dir /\ "b" \in Dir
      /\ t \in Token /\ t # None /\ o \in Nat \ {0} /\ NoTl = 0
      /\ \A k \in 1 .. Len(ts) : ts[k] \in Timeline(Len(ts))
  <2>1. MaxHead \in Nat
    BY TimelinesAssumption
  <2> QED BY <2>1, TypedFacts DEF Dir, Token, None, NoTl
<1>2. Tokened(ts, lv, t, "f", ts2)
  BY <1>1, TokenKeeps
<1>3. Apart(ts, ix, o) /\ LinkedOk(ts, ix, o) /\ EndsOk(ts, ix, o, lv, NoTl)
  BY DEF Sound
<1>4. /\ Len(ts2) = Len(ts) /\ \A k \in 1 .. Len(ts) : ts2[k].evs = ts[k].evs /\ ts2[k].next = ts[k].next
      /\ ts2[lv].token["f"] = t
      /\ \A k \in 1 .. Len(ts), c \in Dir : ~(k = lv /\ c = "f") => ts2[k].token[c] = ts[k].token[c]
  BY <1>2 DEF Tokened
<1>5. Apart(ts2, ix, o)
  BY <1>3, <1>4 DEF Apart, Holds, In
<1>6. LinkedOk(ts2, ix, o)
  <2> SUFFICES ASSUME NEW k \in o .. Len(ts), NEW c \in Dir, ts[k].next[c] # NoTl
               PROVE  /\ ts[k].next[c] >= o /\ ts[k].next[c] # k
                      /\ ts2[ts[k].next[c]].next[Opposite(c)] = k
                      /\ c = "f" => \E y \in Event : y + 1 \in Event /\ ix[y] = k /\ ix[y + 1] = ts[k].next[c]
    BY <1>1, <1>4 DEF LinkedOk
  <2>1. ts[k].next[c] \in 1 .. Len(ts)
    BY <1>1 DEF Timeline
  <2> QED BY <1>3, <1>4, <2>1 DEF LinkedOk
<1>7. EndsOk(ts2, ix, o, Len(ts) + 1, NoTl)
  <2> SUFFICES ASSUME NEW k \in o .. Len(ts)
               PROVE  /\ \A c \in Dir : ts2[k].token[c] # None => Stands(ix, k, ts2[k].token[c])
                      /\ k # NoTl /\ ts2[k].next["b"] = NoTl /\ ts2[k].token["b"] = None => ix[1] = k
                      /\ k # Len(ts) + 1 /\ ts2[k].next["f"] = NoTl => ts2[k].token["f"] # None
                      /\ k = Len(ts) + 1 => ts2[k].next["f"] = NoTl /\ ts2[k].token["f"] = None
    BY <1>1, <1>4 DEF EndsOk
  <2>1. /\ \A c \in Dir : ts[k].token[c] # None => Stands(ix, k, ts[k].token[c])
        /\ k # NoTl /\ ts[k].next["b"] = NoTl /\ ts[k].token["b"] = None => ix[1] = k
        /\ k # lv /\ ts[k].next["f"] = NoTl => ts[k].token["f"] # None
        /\ k = lv => ts[k].next["f"] = NoTl /\ ts[k].token["f"] = None
    BY <1>1, <1>3 DEF EndsOk
  <2>2. k \in 1 .. Len(ts) /\ ts2[k].next = ts[k].next /\ k # Len(ts) + 1
    BY <1>1, <1>4
  <2>3. \A c \in Dir : \/ k = lv /\ c = "f" /\ ts2[k].token[c] = t
                       \/ ~(k = lv /\ c = "f") /\ ts2[k].token[c] = ts[k].token[c]
    BY <1>4, <2>2
  <2>4. \A c \in Dir : ts2[k].token[c] # None => Stands(ix, k, ts2[k].token[c])
    BY <2>1, <2>3
  <2>5. k # NoTl /\ ts2[k].next["b"] = NoTl /\ ts2[k].token["b"] = None => ix[1] = k
    BY <1>1, <2>1, <2>2, <2>3
  <2>6. ts2[k].next["f"] = NoTl => ts2[k].token["f"] # None
    BY <1>1, <2>1, <2>2, <2>3
  <2> QED BY <2>2, <2>4, <2>5, <2>6
<1> QED BY <1>5, <1>6, <1>7 DEF Sound

-----------------------------------------------------------------------------
(* The actions.                                                            *)

\* The numbers and timelines of a state.
LEMMA StateFacts ==
  ASSUME TypeInv
  PROVE  /\ Len(tls) \in Nat \ {0} /\ DOMAIN tls = 1 .. Len(tls) /\ live \in 1 .. Len(tls)
         /\ oldest \in Nat \ {0} /\ oldest <= live /\ oldest <= Len(tls) /\ oldest \in 1 .. live
         /\ live \in Nat \ {0} /\ live \in oldest .. Len(tls)
         /\ head \in Event /\ synced \in Event /\ head \in Nat /\ synced \in Nat /\ synced <= head
         /\ Typed(tls, index) /\ NoTl = 0
<1>1. Typed(tls, index) /\ live \in DOMAIN tls /\ oldest \in 1 .. live
  BY DEF TypeInv
<1>2. head \in Event /\ synced \in Event /\ synced <= head
  BY DEF TypeInv
<1>3. DOMAIN tls = 1 .. Len(tls) /\ Len(tls) \in Nat
  BY <1>1, TypedFacts
<1>4. Event \subseteq Nat
  BY DEF Event
<1>5. NoTl = 0
  BY DEF NoTl
<1> QED BY <1>1, <1>2, <1>3, <1>4, <1>5

\* The answer of a page goes to its timeline.
LEMMA MessagesKeep ==
  ASSUME TimelinesInv, NEW r \in requests, onMessages(r)
  PROVE  TimelinesInv'
<1>1. TypeInv /\ (~Torn => WholeInv)
  BY DEF TimelinesInv
<1>2. PICK h \in r.at .. head, n \in 1 .. PageSize :
        LET es == Page(r.from, r.dir, n, h)
            st == addEventsToTimeline(tls, index, live, es, r.dir, r.tl, Beyond(r.from, r.dir, es))
            ts == IF r.dir = "b" /\ es = <<>> THEN [st.tls EXCEPT ![r.tl] = setPaginationToken(@, None, "b")]
                  ELSE st.tls
            next == resume(window, requests \ {r}, ts, r.tl, r.dir, TRUE)
        IN  /\ r.tl # NoTl
            /\ tls' = ts
            /\ index' = st.index
            /\ window' = next.win
            /\ requests' = next.requests
            /\ upset' = upset \cup (IF st.refused THEN {"refused"} ELSE {})
                              \cup (IF r.tl < oldest THEN {"forgotten"} ELSE {})
            /\ UNCHANGED <<head, synced, style, oldest, live, loading, echo, plan, used>>
  BY DEF onMessages
<1> DEFINE es == Page(r.from, r.dir, n, h)
           token == Beyond(r.from, r.dir, es)
           st == addEventsToTimeline(tls, index, live, es, r.dir, r.tl, token)
           ts == IF r.dir = "b" /\ es = <<>> THEN [st.tls EXCEPT ![r.tl] = setPaginationToken(@, None, "b")]
                 ELSE st.tls
           rest == requests \ {r}
           next == resume(window, rest, ts, r.tl, r.dir, TRUE)
           d == r.dir
           i == r.tl
           t == r.from
<1>3. /\ i # NoTl /\ tls' = ts /\ index' = st.index /\ window' = next.win /\ requests' = next.requests
      /\ upset' = upset \cup (IF st.refused THEN {"refused"} ELSE {})
                        \cup (IF r.tl < oldest THEN {"forgotten"} ELSE {})
      /\ head' = head /\ synced' = synced /\ style' = style /\ oldest' = oldest /\ live' = live
      /\ loading' = loading /\ echo' = echo /\ plan' = plan
  BY <1>2
<1>4. /\ RequestsType(requests, Len(tls), live)
      /\ d \in Dir /\ i \in 1 .. Len(tls) /\ i \in DOMAIN tls /\ i \in Nat \ {0} /\ t \in 0 .. MaxHead
  <2>1. RequestsType(requests, Len(tls), live)
    BY <1>1 DEF TypeInv
  <2>2. r \in [tl : 0 .. Len(tls), dir : Dir, from : 0 .. MaxHead, at : Nat \ {0}]
    BY <2>1 DEF RequestsType
  <2>3. i \in 0 .. Len(tls) /\ i # 0 /\ Len(tls) \in Nat /\ DOMAIN tls = 1 .. Len(tls)
    BY <1>1, <1>3, <2>2, StateFacts
  <2> QED BY <2>1, <2>2, <2>3
<1>5. h \in Event /\ n \in Nat \ {0}
  <2>1. r.at \in Nat \ {0}
    BY <1>1 DEF TypeInv, RequestsType
  <2>2. head \in Nat /\ head <= MaxHead /\ MaxHead \in Nat /\ PageSize \in Nat
    BY <1>1, StateFacts, TimelinesAssumption DEF Event
  <2> QED BY <2>1, <2>2 DEF Event
<1>6. /\ IsRun(es, d, PageFirst(t, d), PageLength(t, d, n, h)) /\ PageLength(t, d, n, h) \in Nat
      /\ token \in 0 .. MaxHead
  <2> HIDE DEF d, t
  <2> QED BY <1>4, <1>5, PageIs DEF d, t
<1>7. IsPage(es, d) /\ es \in Seq(Event) /\ token \in Token
  BY <1>6 DEF IsRun, IsPage, Token
<1>8. Typed(tls, index) /\ Filled(tls, NoTl)
  BY <1>1 DEF TypeInv
<1>9. FillOk(tls, index, es, i, st)
  <2> HIDE DEF es, token, i, d
  <2> QED BY <1>4, <1>7, <1>8, FillTyped DEF st, d, i
<1>10. Typed(st.tls, st.index) /\ Grows(tls, index, st.tls, st.index) /\ st.refused \in BOOLEAN
  BY <1>9 DEF FillOk
<1> HIDE DEF st, es, token
<1>11. Len(st.tls) = Len(tls) /\ DOMAIN st.tls = 1 .. Len(tls) /\ i \in DOMAIN st.tls
  BY <1>4, <1>10, TypedFacts DEF Grows
<1>12. \/ ~(d = "b" /\ es = <<>>) /\ ts = st.tls
       \/ d = "b" /\ es = <<>> /\ SetsToken(st.tls, i, None, "b", ts)
  BY DEF SetsToken
<1> HIDE DEF ts
<1>13. /\ Typed(ts, st.index) /\ Grows(tls, index, ts, st.index)
       /\ \A j \in 1 .. Len(tls) : ts[j].evs = st.tls[j].evs
  <2>1. CASE ts = st.tls
    BY <1>10, <2>1
  <2>2. CASE SetsToken(st.tls, i, None, "b", ts)
    <3>1. None \in Token /\ "b" \in Dir
      BY DEF Token, Dir
    <3>2. Typed(ts, st.index) /\ Tokened(st.tls, i, None, "b", ts)
      BY <1>10, <1>11, <2>2, <3>1, TokenKeeps
    <3>3. Len(ts) = Len(tls) /\ \A j \in 1 .. Len(tls) : ts[j].evs = st.tls[j].evs
      BY <1>11, <3>2 DEF Tokened
    <3>4. Grows(tls, index, ts, st.index)
      BY <1>10, <3>3 DEF Grows, Holds, In
    <3> QED BY <3>2, <3>3, <3>4
  <2> QED BY <1>12, <2>1, <2>2
<1>14. Len(ts) = Len(tls) /\ DOMAIN ts = 1 .. Len(tls)
  BY <1>13, TypedFacts DEF Grows
<1>15. Paged(rest, ts, st.index, live, next)
  <2>1. WindowType(window, Len(ts)) /\ head \in Event
    BY <1>1, <1>14 DEF TypeInv
  <2> HIDE DEF rest
  <2> QED BY <1>4, <1>13, <2>1, ResumeIs
<1> HIDE DEF next
<1>16. RequestsType(next.requests, Len(tls), live) /\ WindowType(next.win, Len(tls))
  <2>1. RequestsType(rest, Len(tls), live)
    <3>1. rest \subseteq requests
      OBVIOUS
    <3> HIDE DEF rest
    <3> QED BY <1>1, <1>4, <3>1, StateFacts, RequestsMore
  <2> QED BY <1>14, <1>15, <2>1 DEF Paged, Asked
<1>17. TypeInv'
  <2>1. Filled(ts, NoTl)
    BY <1>8, <1>13, FilledGrows
  <2>2. live \in DOMAIN ts
    BY <1>1, <1>14, StateFacts
  <2> HIDE DEF rest, d, i, t
  <2>3. Typed(tls, index)' /\ Filled(tls, NoTl)' /\ RequestsType(requests, Len(tls), live)' /\ WindowType(window, Len(tls))'
    BY <1>3, <1>13, <1>14, <1>16, <2>1
  <2>4. upset' \subseteq {"skipped", "refused", "forgotten", "overtaken", "removed"}
    BY <1>1, <1>3 DEF TypeInv
  <2>5. \A q \in requests' : q.tl = NoTl => style = "scrollback"
    BY <1>1, <1>3, <1>15 DEF TypeInv, Paged, Asked, rest
  <2> QED BY <1>1, <1>3, <2>2, <2>3, <2>4, <2>5 DEF TypeInv
<1>18. ASSUME ~Torn' PROVE WholeInv'
  <2>1. WholeInv /\ ~st.refused /\ ~(i < oldest)
    <3>1. upset \subseteq upset' /\ (st.refused => "refused" \in upset') /\ (i < oldest => "forgotten" \in upset')
      BY <1>3
    <3>2. upset' \subseteq {"removed"}
      BY <1>18 DEF Torn
    <3> QED BY <1>1, <3>1, <3>2 DEF Torn
  <2>2. /\ Sound(tls, index, oldest, live, NoTl) /\ Stands(index, i, t) /\ index[synced] = live
        /\ RequestsStand(requests, index, oldest, live) /\ i \in oldest .. Len(tls)
    <3>1. i >= oldest /\ i \in oldest .. Len(tls)
      BY <1>1, <1>4, <2>1, StateFacts
    <3> QED BY <2>1, <3>1 DEF WholeInv, RequestsStand
  <2>3. EndsPage(index, es, d, i, token)
    <3>1. Apart(tls, index, oldest)
      BY <2>2 DEF Sound
    <3> HIDE DEF d, i, t
    <3> QED BY <1>4, <1>5, <1>8, <2>2, <3>1, PageEnds DEF es, token, d, i, t
  <2>4. Sound(st.tls, st.index, oldest, live, NoTl) /\ OldStay(tls, st.tls, oldest)
    <3>1. FillSafe(tls, oldest, live, st)
      <4>1. oldest \in Nat \ {0}
        BY <1>1, StateFacts
      <4> HIDE DEF d, i
      <4> QED BY <1>4, <1>6, <1>7, <1>8, <2>2, <2>3, <4>1, FillSound DEF st, d, i
    <3> QED BY <2>1, <3>1 DEF FillSafe
  <2>5. Sound(ts, st.index, oldest, live, NoTl)
    <3>1. CASE ts = st.tls
      BY <2>4, <3>1
    <3>2. CASE d = "b" /\ es = <<>> /\ SetsToken(st.tls, i, None, "b", ts)
      <4>1. t = 0
        <5>1. PageLength(t, d, n, h) = 0
          <6>1. Len(es) = 0
            BY <3>2
          <6> QED BY <1>6, <6>1 DEF IsRun
        <5>2. lo(n, t) = 0 /\ n > 0 /\ t \in Nat
          BY <1>4, <1>5, <3>2, <5>1, TimelinesAssumption DEF PageLength
        <5> QED BY <1>5, <5>2 DEF lo
      <4>2. index[1] = i
        <5>1. PICK e \in Event : index[e] = i /\ e \in {0, 0 + 1}
          BY <2>2, <4>1 DEF Stands
        <5> QED BY <5>1 DEF Event
      <4>3. st.index[1] = i
        <5>1. 1 \in Id
          BY EventTypes
        <5> QED BY <1>3, <1>10, <4>2, <5>1 DEF Grows
      <4>4. oldest \in Nat \ {0} /\ None \in Token /\ "b" \in Dir /\ i \in oldest .. Len(st.tls)
        BY <1>1, <1>11, <2>2, StateFacts DEF Token, Dir
      <4> QED BY <1>10, <2>4, <3>2, <4>3, <4>4, TokenSound
    <3> QED BY <1>12, <3>1, <3>2
  <2>6. \A j \in 1 .. oldest - 1 : Run(ts[j].evs)
    <3> SUFFICES ASSUME NEW j \in 1 .. oldest - 1 PROVE Run(ts[j].evs)
      OBVIOUS
    <3>1. j \in 1 .. Len(tls)
      BY <1>1, StateFacts
    <3>2. ts[j].evs = tls[j].evs
      BY <1>13, <2>4, <3>1 DEF OldStay
    <3> QED BY <2>1, <3>2 DEF WholeInv
  <2>7. st.index[synced] = live
    <3>1. synced \in Id /\ live # NoTl
      BY <1>1, StateFacts, EventTypes
    <3> QED BY <1>10, <2>2, <3>1 DEF Grows
  <2>8. RequestsStand(next.requests, st.index, oldest, live)
    <3>1. RequestsStand(rest, st.index, oldest, live)
      <4>1. rest \subseteq requests
        OBVIOUS
      <4> HIDE DEF rest
      <4> QED BY <1>1, <1>4, <1>13, <2>2, <4>1, StateFacts, RequestsGrow
    <3>2. EndsOk(ts, st.index, oldest, live, NoTl)
      BY <2>5 DEF Sound
    <3> QED BY <1>1, <1>15, <3>1, <3>2, StateFacts DEF Paged, Asked
  <2>9. style = "scrollback" => oldest = Len(tls)
    BY <2>1 DEF WholeInv
  <2> HIDE DEF rest, d, i, t
  <2>10. /\ Sound(tls, index, oldest, live, NoTl)' /\ RequestsStand(requests, index, oldest, live)'
         /\ (\A j \in 1 .. oldest - 1 : Run(tls[j].evs))' /\ (index[synced] = live)'
    BY <1>3, <2>5, <2>6, <2>7, <2>8
  <2>11. (style = "scrollback" => oldest = Len(tls))'
    BY <1>3, <1>14, <2>9
  <2> QED BY <2>10, <2>11 DEF WholeInv
<1> QED BY <1>17, <1>18 DEF TimelinesInv

\* Requests that are left stay as they are.
LEMMA AskedLess ==
  ASSUME NEW as, NEW as2, as2 \subseteq as, NEW ts, NEW ix, NEW lv, NEW as3, Asked(as2, as3, ts, ix, lv)
  PROVE  Asked(as, as3, ts, ix, lv) /\ Asked(as, as2, ts, ix, lv)
BY DEF Asked, RequestsType, RequestsStand

LoadingOk ==
  /\ loading \subseteq [ev : Event, at : Event]
  /\ \A l \in loading : l.ev <= l.at
  /\ style = "scrollback" => loading = {}

\* A step that changes no timeline keeps the invariant if what it asks for
\* continues a timeline.
LEMMA QuietKeeps ==
  ASSUME TimelinesInv, UNCHANGED <<synced, style, tls, oldest, live, index, echo, plan, upset>>,
         head' \in Event, head <= head', head' <= plan.head, WindowType(window', Len(tls)),
         Asked(requests, requests', tls, index, live), LoadingOk'
  PROVE  TimelinesInv'
<1>1. TypeInv /\ (~Torn => WholeInv)
  BY DEF TimelinesInv
<1>2. synced \in Nat /\ head \in Nat /\ head' \in Nat /\ synced <= head /\ oldest \in Nat \ {0}
  BY <1>1, StateFacts DEF Event
<1>3. TypeInv'
  <2>1. Typed(tls, index)' /\ Filled(tls, NoTl)' /\ WindowType(window, Len(tls))'
    BY <1>1 DEF TypeInv
  <2>2. RequestsType(requests, Len(tls), live)'
    <3>1. RequestsType(requests', Len(tls), live)
      BY <1>1 DEF TypeInv, Asked
    <3> QED BY <3>1
  <2>3. synced' <= head'
    BY <1>2
  <2>4. \A q \in requests' : q.tl = NoTl => style = "scrollback"
    BY <1>1 DEF TypeInv, Asked
  <2> QED BY <1>1, <2>1, <2>2, <2>3, <2>4 DEF TypeInv, LoadingOk
<1>4. ASSUME ~Torn' PROVE WholeInv'
  <2>1. WholeInv
    BY <1>1, <1>4 DEF Torn
  <2>2. RequestsStand(requests', index, oldest, live)
    BY <1>1, <2>1, StateFacts DEF WholeInv, Asked, Sound
  <2>3. Sound(tls, index, oldest, live, NoTl)' /\ RequestsStand(requests, index, oldest, live)'
    BY <2>1, <2>2 DEF WholeInv
  <2> QED BY <2>1, <2>3 DEF WholeInv
<1> QED BY <1>3, <1>4 DEF TimelinesInv

\* What is known of the loads.
LEMMA LoadingFacts ==
  ASSUME TypeInv
  PROVE  LoadingOk /\ head <= plan.head /\ plan.head \in Nat /\ plan.head <= MaxHead /\ head <= head
<1>1. plan \in Plans /\ head <= plan.head /\ head \in Event
  BY DEF TypeInv
<1>2. plan.head \in Nat /\ plan.head <= MaxHead /\ head \in Nat
  BY <1>1, TimelinesAssumption DEF Event
<1> QED BY <1>1, <1>2 DEF TypeInv, LoadingOk

\* A new event.
LEMMA ServerEventKeeps ==
  ASSUME TimelinesInv, ServerEvent
  PROVE  TimelinesInv'
<1>1. TypeInv
  BY DEF TimelinesInv
<1>2. /\ head < plan.head /\ head' = head + 1 /\ window' = window /\ requests' = requests /\ loading' = loading
      /\ UNCHANGED <<synced, style, tls, oldest, live, index, echo, plan, upset>>
  BY DEF ServerEvent
<1>3. head' \in Event /\ head <= head' /\ head' <= plan.head
  <2>1. /\ head \in Nat /\ head \in Event /\ plan.head \in Nat /\ plan.head <= MaxHead /\ MaxHead \in Nat
        /\ head < plan.head /\ head' = head + 1
    BY <1>1, <1>2, StateFacts, LoadingFacts, TimelinesAssumption
  <2> QED BY <2>1 DEF Event
<1>4. WindowType(window', Len(tls)) /\ LoadingOk'
  BY <1>1, <1>2, LoadingFacts DEF TypeInv, LoadingOk
<1>5. Asked(requests, requests', tls, index, live)
  BY <1>2 DEF Asked
<1> QED BY <1>2, <1>3, <1>4, <1>5, QuietKeeps

\* A request for a page of a timeline.
LEMMA PaginateKeeps ==
  ASSUME TimelinesInv, NEW i \in DOMAIN tls, NEW d \in Dir, paginateEventTimeline(i, d)
  PROVE  TimelinesInv'
<1>1. TypeInv
  BY DEF TimelinesInv
<1>2. /\ requests' = startRequest(requests, tls, i, d, head)
      /\ head' = head /\ window' = window /\ loading' = loading
      /\ UNCHANGED <<synced, style, tls, oldest, live, index, echo, plan, upset>>
  BY DEF paginateEventTimeline
<1>3. WindowType(window', Len(tls)) /\ LoadingOk'
  BY <1>1, <1>2, LoadingFacts DEF TypeInv, LoadingOk
<1>4. Asked(requests, requests', tls, index, live)
  BY <1>1, <1>2, StateFacts, StartRequestIs
<1>5. head' \in Event /\ head <= head' /\ head' <= plan.head
  BY <1>1, <1>2, StateFacts, LoadingFacts
<1> QED BY <1>2, <1>3, <1>4, <1>5, QuietKeeps

\* A request of scrollback.
LEMMA ScrollbackKeeps ==
  ASSUME TimelinesInv, scrollback
  PROVE  TimelinesInv'
<1>1. TypeInv
  BY DEF TimelinesInv
<1> DEFINE new == [tl |-> NoTl, dir |-> "b", from |-> tls[live].token["b"], at |-> live]
<1>2. /\ tls[live].token["b"] # None /\ requests' = {new}
      /\ head' = head /\ window' = window /\ loading' = loading
      /\ UNCHANGED <<synced, style, tls, oldest, live, index, echo, plan, upset>>
  BY DEF scrollback
<1>3. WindowType(window', Len(tls)) /\ LoadingOk'
  BY <1>1, <1>2, LoadingFacts DEF TypeInv, LoadingOk
<1>4. Asked(requests, requests', tls, index, live)
  <2>1. new.tl = NoTl /\ new.dir = "b" /\ new.from = tls[live].token["b"] /\ new.at = live
    OBVIOUS
  <2>2. /\ NoTl \in 0 .. Len(tls) /\ "b" \in Dir /\ live \in Nat \ {0} /\ live <= live
        /\ live \in oldest .. Len(tls)
    BY <1>1, StateFacts DEF Dir
  <2>3. tls[live].token["b"] \in 0 .. MaxHead
    <3>1. tls[live] \in Timeline(Len(tls))
      BY <1>1, StateFacts, TypedFacts
    <3> QED BY <1>2, <2>2, <3>1 DEF Timeline, Token
  <2>4. new \in [tl : 0 .. Len(tls), dir : Dir, from : 0 .. MaxHead, at : Nat \ {0}]
    BY <2>2, <2>3
  <2> HIDE DEF new
  <2>5. RequestsType({new}, Len(tls), live)
    BY <2>1, <2>2, <2>4 DEF RequestsType
  <2>6. ASSUME NEW o \in 1 .. live, EndsOk(tls, index, o, live, NoTl) PROVE RequestsStand({new}, index, o, live)
    <3>1. live \in o .. Len(tls) /\ ~(NoTl >= o)
      BY <1>1, <2>2, StateFacts
    <3>2. Stands(index, live, new.from)
      BY <1>2, <2>1, <2>2, <2>6, <3>1 DEF EndsOk
    <3> QED BY <2>1, <3>1, <3>2 DEF RequestsStand
  <2>7. style = "scrollback"
    BY DEF scrollback
  <2> QED BY <1>2, <2>5, <2>6, <2>7 DEF Asked
<1>5. head' \in Event /\ head <= head' /\ head' <= plan.head
  BY <1>1, <1>2, StateFacts, LoadingFacts
<1> QED BY <1>2, <1>3, <1>4, <1>5, QuietKeeps

\* A request that fails.
LEMMA FailKeeps ==
  ASSUME TimelinesInv, NEW r \in requests, requestFails(r)
  PROVE  TimelinesInv'
<1>1. TypeInv
  BY DEF TimelinesInv
<1> DEFINE rest == requests \ {r}
           next == resume(window, rest, tls, r.tl, r.dir, FALSE)
<1>2. /\ requests' = next.requests /\ window' = next.win /\ head' = head /\ loading' = loading
      /\ UNCHANGED <<synced, style, tls, oldest, live, index, echo, plan, upset>>
  BY DEF requestFails
<1>3. Paged(rest, tls, index, live, next)
  <2>1. r.dir \in Dir
    BY <1>1 DEF TypeInv, RequestsType
  <2>2. Typed(tls, index) /\ WindowType(window, Len(tls)) /\ head \in Event
    BY <1>1 DEF TypeInv
  <2> HIDE DEF rest
  <2> QED BY <2>1, <2>2, ResumeIs
<1> HIDE DEF next
<1>4. WindowType(window', Len(tls)) /\ LoadingOk'
  BY <1>1, <1>2, <1>3, LoadingFacts DEF Paged, LoadingOk
<1>5. Asked(requests, requests', tls, index, live)
  <2>1. rest \subseteq requests /\ Asked(rest, requests', tls, index, live)
    BY <1>2, <1>3 DEF Paged
  <2> HIDE DEF rest
  <2> QED BY <2>1, AskedLess
<1>6. head' \in Event /\ head <= head' /\ head' <= plan.head
  BY <1>1, <1>2, StateFacts, LoadingFacts
<1> QED BY <1>2, <1>4, <1>5, <1>6, QuietKeeps

\* The loads of the window.
LEMMA LoadLiveKeeps ==
  ASSUME TimelinesInv, loadLive
  PROVE  TimelinesInv'
<1>1. TypeInv
  BY DEF TimelinesInv
<1>2. /\ window' = initFields(tls, live, Len(tls[live].evs))
      /\ head' = head /\ requests' = requests /\ loading' = loading
      /\ UNCHANGED <<synced, style, tls, oldest, live, index, echo, plan, upset>>
  BY DEF loadLive
<1>3. WindowType(window', Len(tls))
  <2>1. Len(tls[live].evs) \in Int
    <3>1. tls[live] \in Timeline(Len(tls))
      BY <1>1, StateFacts, TypedFacts
    <3> QED BY <3>1 DEF Timeline
  <2> QED BY <1>1, <1>2, <2>1, StateFacts, InitFieldsIs
<1>4. LoadingOk' /\ Asked(requests, requests', tls, index, live)
  BY <1>1, <1>2, LoadingFacts DEF LoadingOk, Asked
<1>5. head' \in Event /\ head <= head' /\ head' <= plan.head
  BY <1>1, <1>2, StateFacts, LoadingFacts
<1> QED BY <1>2, <1>3, <1>4, <1>5, QuietKeeps

\* Where an event is.
PlaceIn(es, e) == CHOOSE k \in DOMAIN es : es[k] = e

\* It is there.
LEMMA PlaceIs ==
  ASSUME NEW ts, NEW ix, Typed(ts, ix), NEW e \in Id, ix[e] # NoTl
  PROVE  /\ PlaceIn(ts[ix[e]].evs, e) \in DOMAIN ts[ix[e]].evs
         /\ PlaceIn(ts[ix[e]].evs, e) \in Nat \ {0}
         /\ ts[ix[e]].evs[PlaceIn(ts[ix[e]].evs, e)] = e
<1> DEFINE es == ts[ix[e]].evs
<1>1. \E k \in DOMAIN es : es[k] = e
  BY TypedFacts DEF Holds, In
<1>2. es \in Seq(Id)
  BY TypedFacts DEF Timeline
<1>3. DOMAIN es \subseteq Nat \ {0}
  BY <1>2
<1> HIDE DEF es
<1>4. PlaceIn(es, e) \in DOMAIN es /\ es[PlaceIn(es, e)] = e
  BY <1>1 DEF PlaceIn
<1> QED BY <1>3, <1>4 DEF es

\* load.
LEMMA LoadKeeps ==
  ASSUME TimelinesInv, NEW e \in Event, load(e)
  PROVE  TimelinesInv'
<1>1. TypeInv
  BY DEF TimelinesInv
<1>2. /\ e <= head /\ style = "timelines"
      /\ head' = head /\ requests' = requests
      /\ UNCHANGED <<synced, style, tls, oldest, live, index, echo, plan, upset>>
  BY DEF load
<1>3. CASE index[e] # NoTl
  <2>1. window' = initFields(tls, index[e], Place(index[e], e) - 1) /\ loading' = loading
    BY <1>3 DEF load
  <2>2. Place(index[e], e) - 1 \in Int /\ index[e] \in 1 .. Len(tls)
    <3>1. Typed(tls, index) /\ e \in Id
      BY <1>1, StateFacts, EventTypes
    <3>2. PlaceIn(tls[index[e]].evs, e) \in Nat \ {0}
      BY <1>3, <3>1, PlaceIs
    <3>3. Place(index[e], e) \in Nat
      BY <3>2 DEF Place, PlaceIn
    <3>4. index[e] \in 1 .. Len(tls)
      BY <1>3, <3>1, TypedFacts
    <3> QED BY <3>3, <3>4
  <2>3. WindowType(window', Len(tls))
    BY <1>1, <2>1, <2>2, StateFacts, InitFieldsIs
  <2>4. LoadingOk' /\ Asked(requests, requests', tls, index, live)
    BY <1>1, <1>2, <2>1, LoadingFacts DEF LoadingOk, Asked
  <2>5. head' \in Event /\ head <= head' /\ head' <= plan.head
    BY <1>1, <1>2, StateFacts, LoadingFacts
  <2> QED BY <1>2, <2>3, <2>4, <2>5, QuietKeeps
<1>4. CASE index[e] = NoTl
  <2>1. loading' = loading \cup {[ev |-> e, at |-> head]} /\ window' = window
    BY <1>4 DEF load
  <2>2. WindowType(window', Len(tls))
    BY <1>1, <2>1 DEF TypeInv
  <2>3. LoadingOk'
    BY <1>1, <1>2, <2>1, LoadingFacts, StateFacts DEF LoadingOk
  <2>4. Asked(requests, requests', tls, index, live)
    BY <1>2 DEF Asked
  <2>5. head' \in Event /\ head <= head' /\ head' <= plan.head
    BY <1>1, <1>2, StateFacts, LoadingFacts
  <2> QED BY <1>2, <2>2, <2>3, <2>4, <2>5, QuietKeeps
<1> QED BY <1>3, <1>4

\* paginate of the window.
LEMMA WindowPaginateKeeps ==
  ASSUME TimelinesInv, NEW d \in Dir, windowPaginate(d)
  PROVE  TimelinesInv'
<1>1. TypeInv
  BY DEF TimelinesInv
<1> DEFINE next == paginate(window, requests, tls, d, RequestLimit)
<1>2. /\ window.open /\ window' = next.win /\ requests' = next.requests /\ head' = head /\ loading' = loading
      /\ UNCHANGED <<synced, style, tls, oldest, live, index, echo, plan, upset>>
  BY DEF windowPaginate
<1>3. Paged(requests, tls, index, live, next)
  <2>1. window \in Opened(Len(tls)) /\ head \in Event /\ RequestLimit \in Int
    BY <1>1, <1>2, TimelinesAssumption DEF TypeInv, WindowType, NoWindow
  <2> QED BY <1>1, <2>1, StateFacts, PaginateIs
<1> HIDE DEF next
<1>4. WindowType(window', Len(tls)) /\ LoadingOk' /\ Asked(requests, requests', tls, index, live)
  BY <1>1, <1>2, <1>3, LoadingFacts DEF Paged, LoadingOk
<1>5. head' \in Event /\ head <= head' /\ head' <= plan.head
  BY <1>1, <1>2, StateFacts, LoadingFacts
<1> QED BY <1>2, <1>4, <1>5, QuietKeeps

\* unpaginate of the window.
LEMMA WindowUnpaginateKeeps ==
  ASSUME TimelinesInv, NEW b \in BOOLEAN, windowUnpaginate(b)
  PROVE  TimelinesInv'
<1>1. TypeInv
  BY DEF TimelinesInv
<1>2. /\ window.open /\ window' = unpaginate(tls, window, 1, b) /\ requests' = requests
      /\ head' = head /\ loading' = loading
      /\ UNCHANGED <<synced, style, tls, oldest, live, index, echo, plan, upset>>
  BY DEF windowUnpaginate
<1>3. WindowType(window', Len(tls))
  <2>1. window \in Opened(Len(tls)) /\ 1 \in Nat
    BY <1>1, <1>2 DEF TypeInv, WindowType, NoWindow
  <2> QED BY <1>1, <1>2, <2>1, StateFacts, UnpaginateIs DEF WindowType
<1>4. LoadingOk' /\ Asked(requests, requests', tls, index, live)
  BY <1>1, <1>2, LoadingFacts DEF LoadingOk, Asked
<1>5. head' \in Event /\ head <= head' /\ head' <= plan.head
  BY <1>1, <1>2, StateFacts, LoadingFacts
<1> QED BY <1>2, <1>3, <1>4, <1>5, QuietKeeps

\* Of two tokens set after each other the second is left.
LEMMA TokenTwice ==
  ASSUME NEW n \in Nat, NEW ts \in Seq(Timeline(n)), NEW i \in DOMAIN ts, NEW d \in Dir, NEW t1 \in Token,
         NEW t2 \in Token, NEW ts2, SetsToken(ts, i, t1, d, ts2), NEW ts3, SetsToken(ts2, i, t2, d, ts3)
  PROVE  SetsToken(ts, i, t2, d, ts3)
<1> DEFINE a == setPaginationToken(ts[i], t1, d)
<1>1. ts[i] \in Timeline(n) /\ DOMAIN ts = 1 .. Len(ts)
  OBVIOUS
<1>2. ts2 = [ts EXCEPT ![i] = a] /\ ts3 = [ts2 EXCEPT ![i] = setPaginationToken(ts2[i], t2, d)]
  BY DEF SetsToken
<1>3. setPaginationToken(a, t2, d) = setPaginationToken(ts[i], t2, d)
  BY <1>1 DEF setPaginationToken, Timeline
<1> HIDE DEF a
<1>4. ts2[i] = a
  BY <1>2
<1>5. ts3 = [ts2 EXCEPT ![i] = setPaginationToken(ts[i], t2, d)]
  BY <1>2, <1>3, <1>4
<1>6. ts3 = [ts EXCEPT ![i] = setPaginationToken(ts[i], t2, d)]
  BY <1>2, <1>5
<1> QED BY <1>6 DEF SetsToken

\* Where there is one timeline only, no link is refused.
LEMMA OneRefusesNot ==
  ASSUME NEW ts, NEW ix, Typed(ts, ix), NEW lv, NEW es \in Seq(Event), NEW d \in Dir,
         NEW o \in DOMAIN ts, \A e \in Event : ix[e] \in {NoTl, o}, NEW g, LoopRuns(ts, ix, lv, es, d, o, g)
  PROVE  ~g[Len(es)].refused /\ g[Len(es)].tl = o
<1> DEFINE P(k) == ~g[k].refused /\ g[k].tl = o /\ \A e \in Event : g[k].index[e] \in {NoTl, o}
           T == {k \in Nat : k <= Len(es) => P(k)}
<1>0. Len(es) \in Nat /\ (\A k \in 1 .. Len(es) : es[k] \in Event) /\ Event \subseteq Id
  BY EventTypes
<1>1. 0 \in T
  BY DEF LoopRuns, LoopStart
<1>2. ASSUME NEW k \in 0 .. Len(es), k \in T, k < Len(es) PROVE k + 1 \in T
  <2> DEFINE m == k + 1
             e == es[m]
  <2>1. m \in 1 .. Len(es) /\ m - 1 = k /\ P(k) /\ e \in Event
    BY <1>0, <1>2
  <2>2. Turn(g[k], g[m], e, d, lv) /\ TurnOk(g[k])
    <3>1. Turn(g[m - 1], g[m], es[m], d, lv)
      <4> HIDE DEF m
      <4> QED BY <2>1, LoopTurns
    <3>2. TurnOk(g[k])
      BY LoopTurns
    <3> QED BY <2>1, <3>1, <3>2
  <2> HIDE DEF m, e
  <2>3. TurnAdds(g[k], g[m], e, d) \/ TurnStays(g[k], g[m], e)
    BY <2>1, <2>2 DEF Turn, TurnCrosses, TurnRefuses, TurnLinks
  <2>4. P(m)
    <3>1. g[m].tl = o /\ ~g[m].refused
      BY <2>1, <2>3 DEF TurnAdds, TurnStays
    <3>2. CASE TurnStays(g[k], g[m], e)
      BY <2>1, <3>1, <3>2 DEF TurnStays, SameTimelines
    <3>3. CASE TurnAdds(g[k], g[m], e, d)
      <4>1. g[m].index = [g[k].index EXCEPT ![e] = o]
        BY <2>1, <3>3 DEF TurnAdds, Adds
      <4>2. g[k].index \in [Id -> 0 .. Len(g[k].tls)]
        BY <2>2, TypedFacts DEF TurnOk
      <4>3. \A x \in Event : g[m].index[x] \in {NoTl, o}
        BY <1>0, <2>1, <4>1, <4>2
      <4> QED BY <3>1, <4>3
    <3> QED BY <2>3, <3>2, <3>3
  <2>5. m \in Nat
    BY <2>1
  <2> QED BY <2>4, <2>5 DEF m
<1>3. Len(es) \in T
  <2>1. Len(es) \in Nat /\ \A k \in 0 .. Len(es) : k \in T /\ k < Len(es) => k + 1 \in T
    BY <1>0, <1>2
  <2> DEFINE n == Len(es)
  <2>2. n \in Nat /\ \A k \in 0 .. n : k \in T /\ k < n => k + 1 \in T
    BY <2>1
  <2> HIDE DEF T, n
  <2>3. n \in T
    BY <1>1, <2>2, UpFromZero
  <2> QED BY <2>3 DEF n
<1> QED BY <1>0, <1>3

\* A page of scrollback tears nothing.
LEMMA ScrollSound ==
  ASSUME NEW ts, NEW ix, Typed(ts, ix), NEW o \in DOMAIN ts, o = Len(ts), NEW es, IsPage(es, "b"),
         NEW token \in 0 .. MaxHead, EndsPage(ix, es, "b", o, token), es = <<>> => ix[1] = o,
         Sound(ts, ix, o, o, NoTl), NEW st, st = addEventsToTimeline(ts, ix, o, es, "b", o, None),
         NEW end, end = IF es = <<>> THEN None ELSE token, NEW ts2, SetsToken(st.tls, o, end, "b", ts2)
  PROVE  Sound(ts2, st.index, o, o, NoTl) /\ OldStay(ts, ts2, o)
<1> DEFINE d == "b"
<1>0. /\ es \in Seq(Event) /\ Len(es) \in Nat /\ d \in Dir /\ None \in Token /\ end \in Token
      /\ Len(ts) \in Nat /\ DOMAIN ts = 1 .. Len(ts) /\ o \in Nat \ {0} /\ o <= Len(ts) /\ NoTl = 0
      /\ (end = None <=> es = <<>>)
  <2>1. Len(ts) \in Nat /\ DOMAIN ts = 1 .. Len(ts)
    BY TypedFacts
  <2>2. MaxHead \in Nat
    BY TimelinesAssumption
  <2> QED BY <2>1, <2>2 DEF IsPage, Dir, Token, NoTl, None
<1>1. PICK g : LoopRuns(ts, ix, o, es, d, o, g) /\ st = Closed(g[Len(es)], d, o, None)
  BY <1>0, FillIs
<1> HIDE DEF d
<1> DEFINE q == g[Len(es)]
<1>2. TurnOk(q) /\ Grows(ts, ix, q.tls, q.index)
  <2>1. \A k \in 0 .. Len(es) : TurnOk(g[k]) /\ Grows(ts, ix, g[k].tls, g[k].index)
    BY <1>0, <1>1, LoopTurns
  <2> QED BY <1>0, <2>1
<1>3. ~q.refused /\ q.tl = o
  <2>1. \A e \in Event : ix[e] \in {NoTl, o}
    <3>1. \A e \in Event : ix[e] # NoTl => ix[e] >= o
      BY DEF Sound, Apart
    <3>2. \A e \in Event : ix[e] \in 0 .. Len(ts)
      <4>1. ix \in [Id -> 0 .. Len(ts)]
        BY TypedFacts
      <4>2. Event \subseteq Id
        BY EventTypes
      <4> QED BY <4>1, <4>2
    <3> QED BY <1>0, <3>1, <3>2
  <2> QED BY <1>0, <1>1, <2>1, OneRefusesNot
<1>4. Follows(ts, g, Len(es), es, d, o, o)
  <2>1. g[0].tls = ts /\ g[0].index = ix /\ g[0].tl = o /\ g[0].lastNew = FALSE
    BY <1>1 DEF LoopRuns, LoopStart
  <2>2. Follows(ts, g, 0, es, d, o, o)
    <3>1. Awaits(g[0], d) = NoTl
      BY <2>1 DEF Awaits
    <3> QED BY <1>0, <2>1, <3>1 DEF Follows, Unhurt, OldStay
  <2>3. 0 < Len(es) => Near(g[0], es[0 + 1], d)
    BY <1>0, <2>1 DEF Near, EndsPage, d
  <2>4. 0 \in 0 .. Len(es) /\ IsPage(es, d)
    BY <1>0 DEF d
  <2> QED BY <1>0, <1>1, <1>3, <2>2, <2>3, <2>4, LoopSound
<1>5. /\ Sound(q.tls, q.index, o, o, Awaits(q, d)) /\ OldStay(ts, q.tls, o)
      /\ Typed(q.tls, q.index) /\ Len(q.tls) = Len(ts) /\ o \in DOMAIN q.tls /\ o \in o .. Len(q.tls)
  BY <1>0, <1>2, <1>3, <1>4 DEF Follows, Unhurt, TurnOk, Grows
<1>6. es # <<>> => Stands(q.index, o, token)
  <2> SUFFICES ASSUME es # <<>> PROVE Stands(q.index, o, token)
    OBVIOUS
  <2>1. token = IF d = "b" THEN es[Len(es)] - 1 ELSE es[Len(es)]
    BY DEF EndsPage, d
  <2>2. IsPage(es, d)
    BY DEF d
  <2>3. Stands(q.index, q.tl, token)
    BY <1>0, <1>4, <2>1, <2>2, LastStands
  <2> QED BY <1>3, <2>3
<1>7. st.index = q.index /\ SetsToken(q.tls, o, end, d, ts2)
  <2>1. Closes(q, d, o, None, st)
    BY <1>1, <1>2, ClosedIs
  <2>2. /\ st.index = q.index
        /\ SetsToken(q.tls, o, None, d, st.tls) \/ st.tls = q.tls
    BY <1>3, <2>1 DEF Closes
  <2>3. SetsToken(st.tls, o, end, d, ts2)
    BY DEF d
  <2>4. q.tls \in Seq(Timeline(Len(q.tls))) /\ Len(q.tls) \in Nat
    BY <1>5, TypedFacts DEF Typed
  <2>5. ASSUME SetsToken(q.tls, o, None, d, st.tls) PROVE SetsToken(q.tls, o, end, d, ts2)
    <3> DEFINE ts1 == q.tls
               n == Len(q.tls)
    <3>1. n \in Nat /\ ts1 \in Seq(Timeline(n)) /\ o \in DOMAIN ts1 /\ SetsToken(ts1, o, None, d, st.tls)
      BY <1>5, <2>4, <2>5
    <3> HIDE DEF ts1, n
    <3>2. SetsToken(ts1, o, end, d, ts2)
      BY <1>0, <2>3, <3>1, TokenTwice
    <3> QED BY <3>2 DEF ts1
  <2> QED BY <2>2, <2>3, <2>5
<1> HIDE DEF q
<1>8. Sound(ts2, q.index, o, o, NoTl)
  <2> DEFINE x == Awaits(q, d)
  <2>1. NoTl = x \/ (x = o /\ d = "b")
    BY <1>3 DEF Awaits
  <2>2. IF end = None THEN d = "b" /\ q.index[1] = o ELSE Stands(q.index, o, end)
    <3>1. CASE end = None
      <4>1. ix[1] = o /\ 1 \in Id /\ o # NoTl
        BY <1>0, <3>1, EventTypes
      <4> QED BY <1>2, <3>1, <4>1 DEF Grows, d
    <3>2. CASE end # None
      BY <1>0, <1>6, <3>2
    <3> QED BY <3>1, <3>2
  <2>3. Sound(q.tls, q.index, o, o, x) /\ ~(d = "f" /\ o = o)
    BY <1>5 DEF d
  <2> HIDE DEF x
  <2> QED BY <1>0, <1>5, <1>7, <2>1, <2>2, <2>3, TokenSound
<1>9. OldStay(ts, ts2, o)
  <2>1. Tokened(q.tls, o, end, d, ts2)
    BY <1>0, <1>5, <1>7, TokenKeeps
  <2>2. \A i \in 1 .. o - 1 : i \in 1 .. Len(q.tls)
    BY <1>0, <1>5
  <2> QED BY <1>5, <2>1, <2>2 DEF Tokened, OldStay
<1> QED BY <1>7, <1>8, <1>9

\* The answer of scrollback goes to the live timeline.
LEMMA AnswerKeeps ==
  ASSUME TimelinesInv, NEW r \in requests, onScrollback(r)
  PROVE  TimelinesInv'
<1>1. TypeInv /\ (~Torn => WholeInv)
  BY DEF TimelinesInv
<1>2. PICK n \in 1 .. PageSize :
        LET es == Page(r.from, "b", n, head)
            st == addEventsToTimeline(tls, index, live, es, "b", live, None)
            end == IF es = <<>> THEN None ELSE Beyond(r.from, "b", es)
        IN  /\ r.tl = NoTl
            /\ tls' = [st.tls EXCEPT ![live] = setPaginationToken(@, end, "b")]
            /\ index' = st.index
            /\ requests' = requests \ {r}
            /\ upset' = IF r.at # live THEN upset \cup {"overtaken"} ELSE upset
            /\ UNCHANGED <<head, synced, style, oldest, live, loading, window, echo, plan, used>>
  BY DEF onScrollback
<1> DEFINE t == r.from
           es == Page(t, "b", n, head)
           token == Beyond(t, "b", es)
           st == addEventsToTimeline(tls, index, live, es, "b", live, None)
           end == IF es = <<>> THEN None ELSE token
           ts == [st.tls EXCEPT ![live] = setPaginationToken(@, end, "b")]
           rest == requests \ {r}
<1>3. /\ r.tl = NoTl /\ tls' = ts /\ index' = st.index /\ requests' = rest
      /\ upset' = IF r.at # live THEN upset \cup {"overtaken"} ELSE upset
      /\ head' = head /\ synced' = synced /\ style' = style /\ oldest' = oldest /\ live' = live
      /\ loading' = loading /\ window' = window /\ echo' = echo /\ plan' = plan
  BY <1>2
<1>4. /\ RequestsType(requests, Len(tls), live) /\ t \in 0 .. MaxHead /\ style = "scrollback"
      /\ "b" \in Dir /\ None \in Token
  <2>1. RequestsType(requests, Len(tls), live) /\ style = "scrollback"
    BY <1>1, <1>3 DEF TypeInv
  <2>2. r \in [tl : 0 .. Len(tls), dir : Dir, from : 0 .. MaxHead, at : Nat \ {0}]
    BY <2>1 DEF RequestsType
  <2> QED BY <2>1, <2>2 DEF Dir, Token
<1>5. head \in Event /\ n \in Nat \ {0}
  BY <1>1, StateFacts, TimelinesAssumption
<1>6. /\ IsRun(es, "b", PageFirst(t, "b"), PageLength(t, "b", n, head)) /\ PageLength(t, "b", n, head) \in Nat
      /\ token \in 0 .. MaxHead
  <2> HIDE DEF t
  <2> QED BY <1>4, <1>5, PageIs
<1>7. IsPage(es, "b") /\ es \in Seq(Event) /\ token \in Token /\ end \in Token
  BY <1>4, <1>6 DEF IsRun, IsPage, Token
<1>8. Typed(tls, index) /\ Filled(tls, NoTl) /\ live \in DOMAIN tls
  BY <1>1 DEF TypeInv
<1>9. FillOk(tls, index, es, live, st)
  <2> HIDE DEF es
  <2> QED BY <1>4, <1>7, <1>8, FillTyped
<1>10. Typed(st.tls, st.index) /\ Grows(tls, index, st.tls, st.index)
  BY <1>9 DEF FillOk
<1> HIDE DEF st, es, token, t
<1>11. Len(st.tls) = Len(tls) /\ DOMAIN st.tls = 1 .. Len(tls) /\ live \in DOMAIN st.tls
  BY <1>1, <1>10, TypedFacts, StateFacts DEF Grows
<1>12. SetsToken(st.tls, live, end, "b", ts)
  BY DEF SetsToken
<1> HIDE DEF ts, end
<1>13. Typed(ts, st.index) /\ Grows(tls, index, ts, st.index)
  <2>1. Typed(ts, st.index) /\ Tokened(st.tls, live, end, "b", ts)
    BY <1>4, <1>7, <1>10, <1>11, <1>12, TokenKeeps
  <2>2. Len(ts) = Len(tls) /\ \A j \in 1 .. Len(tls) : ts[j].evs = st.tls[j].evs
    BY <1>11, <2>1 DEF Tokened
  <2> QED BY <1>10, <2>1, <2>2 DEF Grows, Holds, In
<1>14. Len(ts) = Len(tls) /\ DOMAIN ts = 1 .. Len(tls) /\ rest \subseteq requests
  BY <1>13, TypedFacts DEF Grows
<1>15. TypeInv'
  <2>1. Filled(ts, NoTl)
    BY <1>8, <1>13, FilledGrows
  <2>2. RequestsType(rest, Len(tls), live) /\ \A q \in rest : q.tl = NoTl => style = "scrollback"
    <3> HIDE DEF rest
    <3> QED BY <1>1, <1>4, <1>14, StateFacts, RequestsMore
  <2> HIDE DEF rest
  <2>3. /\ Typed(tls, index)' /\ Filled(tls, NoTl)' /\ RequestsType(requests, Len(tls), live)'
        /\ WindowType(window, Len(tls))'
    BY <1>1, <1>3, <1>13, <1>14, <2>1, <2>2 DEF TypeInv
  <2>4. upset' \subseteq {"skipped", "refused", "forgotten", "overtaken", "removed"}
    BY <1>1, <1>3 DEF TypeInv
  <2>5. live \in DOMAIN ts
    BY <1>8, <1>14, TypedFacts
  <2> QED BY <1>1, <1>3, <2>2, <2>3, <2>4, <2>5 DEF TypeInv
<1>16. ASSUME ~Torn' PROVE WholeInv'
  <2>1. WholeInv /\ r.at = live
    <3>1. upset \subseteq upset' /\ (r.at # live => "overtaken" \in upset')
      BY <1>3
    <3>2. upset' \subseteq {"removed"}
      BY <1>16 DEF Torn
    <3> QED BY <1>1, <3>1, <3>2 DEF Torn
  <2>2. /\ Sound(tls, index, oldest, live, NoTl) /\ Stands(index, live, t) /\ index[synced] = live
        /\ RequestsStand(requests, index, oldest, live) /\ oldest = live /\ live = Len(tls)
    <3>1. Stands(index, live, t)
      BY <1>3, <2>1 DEF WholeInv, RequestsStand, t
    <3>2. oldest = Len(tls)
      BY <1>4, <2>1 DEF WholeInv
    <3> QED BY <1>1, <2>1, <3>1, <3>2, StateFacts DEF WholeInv
  <2>3. EndsPage(index, es, "b", live, token)
    <3>1. Apart(tls, index, oldest) /\ live \in Nat \ {0}
      BY <1>1, <2>2, StateFacts DEF Sound
    <3> QED BY <1>4, <1>5, <1>8, <2>2, <3>1, PageEnds DEF es, token
  <2>4. es = <<>> => index[1] = live
    <3> SUFFICES ASSUME es = <<>> PROVE index[1] = live
      OBVIOUS
    <3>1. PageLength(t, "b", n, head) = 0
      <4>1. Len(es) = 0
        OBVIOUS
      <4> QED BY <1>6, <4>1 DEF IsRun
    <3>2. lo(n, t) = 0 /\ n > 0 /\ t \in Nat
      BY <1>4, <1>5, <3>1, TimelinesAssumption DEF PageLength
    <3>3. t = 0
      BY <1>5, <3>2 DEF lo
    <3>4. PICK e \in Event : index[e] = live /\ e \in {0, 0 + 1}
      BY <2>2, <3>3 DEF Stands
    <3> QED BY <3>4 DEF Event
  <2>5. Sound(ts, st.index, live, live, NoTl) /\ OldStay(tls, ts, live)
    <3>1. Sound(tls, index, live, live, NoTl)
      BY <2>2
    <3> QED BY <1>6, <1>7, <1>8, <1>12, <2>2, <2>3, <2>4, <3>1, ScrollSound DEF st, end
  <2>6. \A j \in 1 .. oldest - 1 : Run(ts[j].evs)
    BY <2>1, <2>2, <2>5 DEF WholeInv, OldStay
  <2>7. st.index[synced] = live
    <3>1. synced \in Id /\ live # NoTl
      BY <1>1, StateFacts, EventTypes
    <3> QED BY <1>10, <2>2, <3>1 DEF Grows
  <2>8. RequestsStand(rest, st.index, oldest, live)
    <3> HIDE DEF rest
    <3> QED BY <1>1, <1>4, <1>13, <1>14, <2>2, StateFacts, RequestsGrow
  <2> HIDE DEF rest
  <2>9. /\ Sound(tls, index, oldest, live, NoTl)' /\ RequestsStand(requests, index, oldest, live)'
        /\ (\A j \in 1 .. oldest - 1 : Run(tls[j].evs))' /\ (index[synced] = live)'
    BY <1>3, <2>2, <2>5, <2>6, <2>7, <2>8
  <2>10. (style = "scrollback" => oldest = Len(tls))'
    BY <1>3, <1>14, <2>2
  <2> QED BY <2>9, <2>10 DEF WholeInv
<1> QED BY <1>15, <1>16 DEF TimelinesInv

\* Timelines that differ in local echoes only.
EchoesApart(ts, ix, ts2, ix2) ==
  /\ Len(ts2) = Len(ts)
  /\ \A j \in 1 .. Len(ts) : /\ ts2[j].next = ts[j].next /\ ts2[j].token = ts[j].token
                             /\ \A x \in Event : Holds(ts2, j, x) <=> Holds(ts, j, x)
                             /\ Ordered(ts[j].evs) => Ordered(ts2[j].evs)
  /\ \A x \in Event : ix2[x] = ix[x]

\* Local echoes tear nothing.
LEMMA EchoSound ==
  ASSUME NEW ts, NEW ix, NEW ts2, NEW ix2, Typed(ts, ix), EchoesApart(ts, ix, ts2, ix2), NEW o \in Nat \ {0},
         NEW lv, NEW x, Sound(ts, ix, o, lv, x)
  PROVE  Sound(ts2, ix2, o, lv, x)
<1>1. /\ Len(ts) \in Nat /\ \A j \in 1 .. Len(ts) : ts[j] \in Timeline(Len(ts))
      /\ \A j \in o .. Len(ts) : j \in 1 .. Len(ts)
  BY TypedFacts
<1>2. /\ Len(ts2) = Len(ts)
      /\ \A j \in 1 .. Len(ts) : ts2[j].next = ts[j].next /\ ts2[j].token = ts[j].token
      /\ \A j \in 1 .. Len(ts) : \A e \in Event : Holds(ts2, j, e) <=> Holds(ts, j, e)
      /\ \A j \in 1 .. Len(ts) : Ordered(ts[j].evs) => Ordered(ts2[j].evs)
      /\ \A e \in Event : ix2[e] = ix[e]
  BY DEF EchoesApart
<1>3. Apart(ts, ix, o) /\ LinkedOk(ts, ix, o) /\ EndsOk(ts, ix, o, lv, x)
  BY DEF Sound
<1>4. Apart(ts2, ix2, o)
  <2>1. \A j \in o .. Len(ts2) : Ordered(ts2[j].evs) /\ \A e \in Event : Holds(ts2, j, e) => ix2[e] = j
    BY <1>1, <1>2, <1>3 DEF Apart
  <2>2. \A e \in Event : ix2[e] # NoTl => ix2[e] >= o
    BY <1>2, <1>3 DEF Apart
  <2>3. \A a, b, y \in Event : a <= y /\ y <= b /\ ix2[a] # NoTl /\ ix2[a] = ix2[b] => ix2[y] = ix2[a]
    BY <1>2, <1>3 DEF Apart
  <2> QED BY <2>1, <2>2, <2>3 DEF Apart
<1>5. LinkedOk(ts2, ix2, o)
  <2> SUFFICES ASSUME NEW k \in o .. Len(ts), NEW c \in Dir, ts[k].next[c] # NoTl
               PROVE  LET j == ts[k].next[c]
                      IN  /\ j >= o /\ j # k /\ ts2[j].next[Opposite(c)] = k
                          /\ c = "f" => \E y \in Event : y + 1 \in Event /\ ix2[y] = k /\ ix2[y + 1] = j
    BY <1>1, <1>2 DEF LinkedOk
  <2>1. ts[k].next[c] \in 1 .. Len(ts)
    BY <1>1 DEF Timeline, NoTl
  <2> QED BY <1>2, <1>3, <2>1 DEF LinkedOk
<1>6. EndsOk(ts2, ix2, o, lv, x)
  <2>1. \A i, t : Stands(ix, i, t) => Stands(ix2, i, t)
    BY <1>2 DEF Stands
  <2>2. 1 \in Event
    BY EventTypes
  <2> QED BY <1>1, <1>2, <1>3, <2>1, <2>2 DEF EndsOk
<1> QED BY <1>4, <1>5, <1>6 DEF Sound

\* A local echo is not one of the server's events.
LEMMA EchoKeeps ==
  ASSUME TimelinesInv, addPendingEvent
  PROVE  TimelinesInv'
<1>1. TypeInv /\ (~Torn => WholeInv)
  BY DEF TimelinesInv
<1>2. /\ echo' = TRUE /\ tls' = [tls EXCEPT ![live] = addEvent(@, Echo, FALSE)]
      /\ index' = [index EXCEPT ![Echo] = live]
      /\ head' = head /\ synced' = synced /\ style' = style /\ oldest' = oldest /\ live' = live
      /\ requests' = requests /\ loading' = loading /\ window' = window /\ plan' = plan /\ upset' = upset
  BY DEF addPendingEvent
<1> DEFINE ts == [tls EXCEPT ![live] = addEvent(@, Echo, FALSE)]
           ix == [index EXCEPT ![Echo] = live]
<1>3. /\ Typed(tls, index) /\ Filled(tls, NoTl) /\ live \in DOMAIN tls /\ Echo \in Id /\ "f" \in Dir
      /\ Len(tls) \in Nat /\ DOMAIN tls = 1 .. Len(tls) /\ Echo \notin Event /\ Event \subseteq Id
      /\ live \in 1 .. Len(tls) /\ index \in [Id -> 0 .. Len(tls)]
  BY <1>1, TypedFacts, EventTypes DEF TypeInv, Dir
<1>4. Adds(tls, index, live, Echo, "f", ts, ix)
  <2>1. ("f" = "b") = FALSE
    OBVIOUS
  <2> QED BY <2>1 DEF Adds
<1> HIDE DEF ts, ix
<1>5. Typed(ts, ix) /\ Added(tls, index, live, Echo, "f", ts, ix)
  BY <1>3, <1>4, AddKeeps
<1>6. /\ Len(ts) = Len(tls) /\ \A j \in 1 .. Len(tls) : j # live => ts[j] = tls[j]
      /\ ts[live].token = tls[live].token /\ ts[live].next = tls[live].next
      /\ Puts(tls[live], Echo, "f", ts[live])
      /\ \A j \in 1 .. Len(tls) : \A x \in Event : Holds(ts, j, x) <=> Holds(tls, j, x)
      /\ \A x \in Event : ix[x] = index[x]
  BY <1>3, <1>5 DEF Added
<1>7. DOMAIN ts = 1 .. Len(tls)
  BY <1>5, <1>6, TypedFacts
<1>8. TypeInv'
  <2>1. Filled(ts, NoTl)
    BY <1>3, <1>6, <1>7 DEF Filled
  <2>2. /\ Typed(tls, index)' /\ Filled(tls, NoTl)' /\ RequestsType(requests, Len(tls), live)'
        /\ WindowType(window, Len(tls))'
    BY <1>1, <1>2, <1>5, <1>6, <2>1 DEF TypeInv, ts, ix
  <2>3. live \in DOMAIN ts
    BY <1>3, <1>7
  <2> QED BY <1>1, <1>2, <2>2, <2>3 DEF TypeInv, ts
<1>9. ASSUME ~Torn' PROVE WholeInv'
  <2>1. WholeInv
    BY <1>1, <1>2, <1>9 DEF Torn
  <2>2. oldest \in Nat \ {0} /\ oldest <= live /\ live \in oldest .. Len(tls)
    BY <1>1, StateFacts
  <2>3. \A j \in 1 .. Len(tls) : Ordered(tls[j].evs) => Ordered(ts[j].evs)
    <3>1. ASSUME Ordered(tls[live].evs) PROVE Ordered(ts[live].evs)
      <4>1. tls[live] \in Timeline(Len(tls)) /\ ts[live] \in Timeline(Len(tls))
        BY <1>3, <1>5, <1>6, TypedFacts
      <4> QED BY <1>3, <1>6, <3>1, <4>1, PutOrder
    <3> QED BY <1>6, <3>1
  <2>4. EchoesApart(tls, index, ts, ix)
    BY <1>6, <2>3 DEF EchoesApart
  <2>9. Sound(ts, ix, oldest, live, NoTl)
    BY <1>3, <2>1, <2>2, <2>4, EchoSound DEF WholeInv
  <2>10. \A j \in 1 .. oldest - 1 : Run(ts[j].evs)
    <3>1. \A j \in 1 .. oldest - 1 : j \in 1 .. Len(tls) /\ j # live
      BY <2>2
    <3> QED BY <1>6, <2>1, <3>1 DEF WholeInv
  <2>11. RequestsStand(requests, ix, oldest, live)
    BY <1>6, <2>1 DEF WholeInv, RequestsStand, Stands
  <2>12. ix[synced] = live
    BY <1>1, <1>6, <2>1 DEF WholeInv, TypeInv
  <2>13. /\ Sound(tls, index, oldest, live, NoTl)' /\ RequestsStand(requests, index, oldest, live)'
         /\ (\A j \in 1 .. oldest - 1 : Run(tls[j].evs))' /\ (index[synced] = live)'
    BY <1>2, <2>9, <2>10, <2>11, <2>12 DEF ts, ix
  <2>14. (style = "scrollback" => oldest = Len(tls))'
    BY <1>2, <1>6, <2>1 DEF WholeInv, ts
  <2> QED BY <2>13, <2>14 DEF WholeInv
<1> QED BY <1>8, <1>9 DEF TimelinesInv

\* Where tl2 has its events when the one at i is taken out of tl.
Cuts(tl, i, tl2) ==
  /\ i \in 1 .. Len(tl.evs) /\ tl.evs[i] = Echo /\ Len(tl2.evs) = Len(tl.evs) - 1
  /\ \A k \in 1 .. Len(tl2.evs) : tl2.evs[k] = tl.evs[IF k < i THEN k ELSE k + 1]

\* What is left is the same but for the echo.
Spares(tl, tl2) ==
  /\ tl2.token = tl.token /\ tl2.next = tl.next
  /\ \A x \in Event : In(tl2, x) <=> In(tl, x)
  /\ Ordered(tl.evs) => Ordered(tl2.evs)
  /\ Run(tl.evs) => Run(tl2.evs)

\* removeEventFrom takes one echo out.
LEMMA RemoveIs ==
  ASSUME NEW n \in Nat, NEW tl \in Timeline(n), tl.base <= Len(tl.evs), In(tl, Echo)
  PROVE  LET tl2 == removeEventFrom(tl, Echo)
         IN  /\ tl2 \in Timeline(n) /\ tl2.base <= Len(tl2.evs)
             /\ tl2.token = tl.token /\ tl2.next = tl.next
             /\ \E i : Cuts(tl, i, tl2)
<1> DEFINE es == tl.evs
           i == CHOOSE k \in DOMAIN es : es[k] = Echo
           tl2 == removeEventFrom(tl, Echo)
           b == IF i <= tl.base THEN tl.base - 1 ELSE tl.base
           rs == RemoveAt(es, i)
<1>1. /\ tl = [evs |-> tl.evs, base |-> tl.base, token |-> tl.token, next |-> tl.next]
      /\ tl.base \in Nat /\ tl.token \in [Dir -> Token] /\ tl.next \in [Dir -> 0 .. n] /\ es \in Seq(Id)
  BY DEF Timeline
<1>2. i \in DOMAIN es /\ es[i] = Echo
  BY DEF In
<1> HIDE DEF i
<1>3. i \in 1 .. Len(es) /\ Len(es) \in Nat
  BY <1>1, <1>2
<1>4. /\ rs \in Seq(Id) /\ Len(rs) = Len(es) - 1
      /\ \A k \in 1 .. Len(es) - 1 : rs[k] = es[IF k < i THEN k ELSE k + 1]
  <2> HIDE DEF es
  <2> DEFINE s1 == SubSeq(es, 1, i - 1)
             s2 == SubSeq(es, i + 1, Len(es))
  <2>1. rs = s1 \o s2
    BY DEF RemoveAt
  <2>2. s1 \in Seq(Id) /\ Len(s1) = i - 1 /\ \A k \in 1 .. i - 1 : s1[k] = es[k]
    BY <1>1, <1>3
  <2>3. /\ s2 \in Seq(Id) /\ Len(s2) = Len(es) - i
        /\ \A k \in 1 .. Len(es) - i : s2[k] = es[i + k]
    BY <1>1, <1>3
  <2> HIDE DEF s1, s2, rs
  <2>0. s1 \in Seq(Id) /\ s2 \in Seq(Id) /\ Len(s1) = i - 1 /\ Len(s2) = Len(es) - i
    BY <2>2, <2>3
  <2>4. rs \in Seq(Id) /\ Len(rs) = Len(es) - 1
    <3>1. s1 \o s2 \in Seq(Id) /\ Len(s1 \o s2) = Len(s1) + Len(s2)
      BY <2>0, ConcatProperties
    <3> QED BY <1>3, <2>0, <2>1, <3>1
  <2>5. \A k \in 1 .. Len(es) - 1 : rs[k] = IF k <= Len(s1) THEN s1[k] ELSE s2[k - Len(s1)]
    <3>1. \A k \in 1 .. Len(s1) + Len(s2) : (s1 \o s2)[k] = IF k <= Len(s1) THEN s1[k] ELSE s2[k - Len(s1)]
      BY <2>0, ConcatProperties
    <3>2. Len(s1) + Len(s2) = Len(es) - 1
      BY <1>3, <2>0
    <3> QED BY <2>1, <3>1, <3>2
  <2>6. ASSUME NEW k \in 1 .. Len(es) - 1 PROVE rs[k] = es[IF k < i THEN k ELSE k + 1]
    <3>1. CASE k < i
      BY <1>3, <2>2, <2>5, <3>1
    <3>2. CASE ~(k < i)
      <4>1. k - Len(s1) \in 1 .. Len(es) - i /\ i + (k - Len(s1)) = k + 1 /\ ~(k <= Len(s1))
        BY <1>3, <2>2, <3>2
      <4>2. rs[k] = s2[k - Len(s1)] /\ s2[k - Len(s1)] = es[i + (k - Len(s1))]
        BY <2>3, <2>5, <4>1
      <4> QED BY <3>2, <4>1, <4>2
    <3> QED BY <3>1, <3>2
  <2> QED BY <2>4, <2>6
<1>5. b \in Nat /\ b <= Len(rs)
  BY <1>1, <1>3, <1>4
<1>6. tl2 = [evs |-> rs, base |-> b, token |-> tl.token, next |-> tl.next]
  <2>1. tl2 = [tl EXCEPT !.evs = RemoveAt(@, i), !.base = IF i <= @ THEN @ - 1 ELSE @]
    BY Zenon DEF removeEventFrom, i
  <2> QED BY <1>1, <2>1
<1> HIDE DEF tl2, rs, b
<1>7. tl2.evs = rs /\ tl2.base = b /\ tl2.token = tl.token /\ tl2.next = tl.next
  BY <1>6
<1>8. tl2 \in Timeline(n)
  BY <1>1, <1>4, <1>5, <1>6 DEF Timeline
<1>9. Cuts(tl, i, tl2)
  <2>1. Len(tl2.evs) = Len(tl.evs) - 1
    BY <1>4, <1>7
  <2>2. \A k \in 1 .. Len(tl2.evs) : tl2.evs[k] = tl.evs[IF k < i THEN k ELSE k + 1]
    BY <1>4, <1>7, <2>1
  <2> QED BY <1>2, <1>3, <2>1, <2>2 DEF Cuts
<1> QED BY <1>5, <1>7, <1>8, <1>9 DEF tl2

\* Without it, what was in order is.
LEMMA CutSpares ==
  ASSUME NEW n \in Nat, NEW tl \in Timeline(n), NEW tl2 \in Timeline(n), tl2.token = tl.token, tl2.next = tl.next,
         NEW i, Cuts(tl, i, tl2)
  PROVE  Spares(tl, tl2)
<1> DEFINE f(k) == IF k < i THEN k ELSE k + 1
<1>1. /\ tl.evs \in Seq(Id) /\ tl2.evs \in Seq(Id) /\ Len(tl.evs) \in Nat
      /\ DOMAIN tl.evs = 1 .. Len(tl.evs) /\ DOMAIN tl2.evs = 1 .. Len(tl.evs) - 1
      /\ i \in 1 .. Len(tl.evs) /\ tl.evs[i] = Echo /\ Echo \notin Event
      /\ \A k \in DOMAIN tl2.evs : tl2.evs[k] = tl.evs[f(k)]
  <2>1. tl.evs \in Seq(Id) /\ tl2.evs \in Seq(Id)
    BY DEF Timeline
  <2>2. /\ i \in 1 .. Len(tl.evs) /\ tl.evs[i] = Echo /\ Len(tl2.evs) = Len(tl.evs) - 1
        /\ \A k \in 1 .. Len(tl2.evs) : tl2.evs[k] = tl.evs[f(k)]
    BY DEF Cuts
  <2> HIDE DEF f
  <2>3. Len(tl.evs) \in Nat /\ DOMAIN tl.evs = 1 .. Len(tl.evs) /\ DOMAIN tl2.evs = 1 .. Len(tl2.evs)
    BY <2>1
  <2>4. DOMAIN tl2.evs = 1 .. Len(tl.evs) - 1
    BY <2>2, <2>3
  <2> QED BY <2>1, <2>2, <2>3, <2>4, EventTypes
<1>2. /\ \A k \in DOMAIN tl2.evs : f(k) \in DOMAIN tl.evs /\ f(k) \in Nat /\ k \in Nat
      /\ \A k, l \in DOMAIN tl2.evs : k < l => f(k) < f(l)
  BY <1>1
<1>3. ASSUME NEW m \in DOMAIN tl.evs, m # i PROVE \E k \in DOMAIN tl2.evs : f(k) = m
  <2>1. CASE m < i
    <3>1. m \in DOMAIN tl2.evs /\ f(m) = m
      BY <1>1, <2>1
    <3> QED BY <3>1
  <2>2. CASE ~(m < i)
    <3>1. m - 1 \in DOMAIN tl2.evs /\ f(m - 1) = m
      BY <1>1, <1>3, <2>2
    <3> QED BY <3>1
  <2> QED BY <2>1, <2>2
<1>4. ASSUME NEW k \in DOMAIN tl2.evs, NEW l \in DOMAIN tl2.evs, NEW m \in DOMAIN tl2.evs, f(k) < f(m), f(m) < f(l)
      PROVE  k < m /\ m < l
  BY <1>1, <1>4
<1> HIDE DEF f
<1>5. \A x \in Event : In(tl2, x) <=> In(tl, x)
  <2> SUFFICES ASSUME NEW x \in Event PROVE In(tl2, x) <=> In(tl, x)
    OBVIOUS
  <2>1. ASSUME In(tl, x) PROVE In(tl2, x)
    <3>1. PICK m \in DOMAIN tl.evs : tl.evs[m] = x
      BY <2>1 DEF In
    <3>2. PICK k \in DOMAIN tl2.evs : f(k) = m
      BY <1>1, <1>3, <3>1
    <3> QED BY <1>1, <3>1, <3>2 DEF In
  <2> QED BY <1>1, <1>2, <2>1 DEF In
<1>6. ASSUME Ordered(tl.evs) PROVE Ordered(tl2.evs)
  BY <1>1, <1>2, <1>6 DEF Ordered
<1>7. ASSUME Run(tl.evs) PROVE Run(tl2.evs)
  <2> SUFFICES ASSUME NEW k \in DOMAIN tl2.evs, NEW l \in DOMAIN tl2.evs, k < l, Echo \notin {tl2.evs[k], tl2.evs[l]},
                      \A m \in k + 1 .. l - 1 : tl2.evs[m] = Echo
               PROVE  tl2.evs[l] = tl2.evs[k] + 1
    BY DEF Run
  <2>1. \A m \in f(k) + 1 .. f(l) - 1 : tl.evs[m] = Echo
    <3> SUFFICES ASSUME NEW m \in f(k) + 1 .. f(l) - 1, m # i PROVE tl.evs[m] = Echo
      BY <1>1
    <3>1. m \in DOMAIN tl.evs /\ f(k) < m /\ m < f(l)
      BY <1>1, <1>2
    <3>2. PICK p \in DOMAIN tl2.evs : f(p) = m
      BY <1>3, <3>1
    <3>3. p \in k + 1 .. l - 1
      BY <1>2, <1>4, <3>1, <3>2
    <3> QED BY <1>1, <3>2, <3>3
  <2>2. f(k) \in DOMAIN tl.evs /\ f(l) \in DOMAIN tl.evs /\ f(k) < f(l)
    BY <1>2
  <2>3. tl2.evs[k] = tl.evs[f(k)] /\ tl2.evs[l] = tl.evs[f(l)]
    BY <1>1
  <2> QED BY <1>7, <2>1, <2>2, <2>3 DEF Run
<1> QED BY <1>5, <1>6, <1>7 DEF Spares

\* Cancelling an event takes its echo out of the timeline that has it.
LEMMA RemoveKeeps ==
  ASSUME TimelinesInv, removeEvent
  PROVE  TimelinesInv'
<1>1. TypeInv /\ (~Torn => WholeInv)
  BY DEF TimelinesInv
<1> DEFINE i == index[Echo]
           ix == [index EXCEPT ![Echo] = NoTl]
           ts == IF i = NoTl THEN tls ELSE [tls EXCEPT ![i] = removeEventFrom(@, Echo)]
<1>2. /\ echo' = FALSE /\ tls' = ts /\ index' = ix
      /\ upset' = IF window.open /\ i # NoTl THEN upset \cup {"removed"} ELSE upset
      /\ head' = head /\ synced' = synced /\ style' = style /\ oldest' = oldest /\ live' = live
      /\ requests' = requests /\ loading' = loading /\ window' = window /\ plan' = plan
  BY DEF removeEvent
<1>3. /\ Typed(tls, index) /\ Filled(tls, NoTl) /\ live \in DOMAIN tls /\ Echo \in Id
      /\ Len(tls) \in Nat /\ DOMAIN tls = 1 .. Len(tls) /\ Echo \notin Event /\ Event \subseteq Id
      /\ live \in 1 .. Len(tls) /\ index \in [Id -> 0 .. Len(tls)]
      /\ \A j \in 1 .. Len(tls) : tls[j] \in Timeline(Len(tls)) /\ tls[j].base <= Len(tls[j].evs)
      /\ i # NoTl => i \in 1 .. Len(tls) /\ Holds(tls, i, Echo)
  BY <1>1, TypedFacts, EventTypes DEF TypeInv
<1>4. /\ ix \in [Id -> 0 .. Len(tls)] /\ ix[Echo] = NoTl /\ \A x \in Id : x # Echo => ix[x] = index[x]
  BY <1>3 DEF NoTl
<1>5. \A x \in Event : ix[x] = index[x]
  BY <1>3, <1>4
<1>6. /\ ts \in Seq(Timeline(Len(tls))) /\ Len(ts) = Len(tls)
      /\ \A j \in 1 .. Len(tls) : ts[j] \in Timeline(Len(tls)) /\ ts[j].base <= Len(ts[j].evs) /\ Spares(tls[j], ts[j])
  <2>1. \A j \in 1 .. Len(tls) : Spares(tls[j], tls[j])
    BY DEF Spares
  <2>2. tls \in Seq(Timeline(Len(tls)))
    BY <1>3 DEF Typed
  <2>3. CASE i = NoTl
    BY <1>3, <2>1, <2>2, <2>3
  <2>4. CASE i # NoTl
    <3> DEFINE tl2 == removeEventFrom(tls[i], Echo)
    <3>1. /\ tl2 \in Timeline(Len(tls)) /\ tl2.base <= Len(tl2.evs)
          /\ tl2.token = tls[i].token /\ tl2.next = tls[i].next
          /\ \E k : Cuts(tls[i], k, tl2)
      <4>1. i \in 1 .. Len(tls) /\ tls[i] \in Timeline(Len(tls)) /\ tls[i].base <= Len(tls[i].evs) /\ In(tls[i], Echo)
        BY <1>3, <2>4 DEF Holds
      <4> HIDE DEF i
      <4> QED BY <1>3, <4>1, RemoveIs
    <3>2. Spares(tls[i], tl2)
      <4>1. i \in 1 .. Len(tls) /\ tls[i] \in Timeline(Len(tls))
        BY <1>3, <2>4
      <4> HIDE DEF i, tl2
      <4> QED BY <1>3, <3>1, <4>1, CutSpares
    <3>3. ts = [tls EXCEPT ![i] = tl2]
      BY <2>4
    <3> HIDE DEF tl2, ts, i
    <3> QED BY <1>3, <2>1, <2>2, <2>4, <3>1, <3>2, <3>3
  <2> QED BY <2>3, <2>4
<1> HIDE DEF ts, ix
<1>7. \A j \in 1 .. Len(tls) :
         /\ ts[j].token = tls[j].token /\ ts[j].next = tls[j].next
         /\ \A x \in Event : Holds(ts, j, x) <=> Holds(tls, j, x)
         /\ Ordered(tls[j].evs) => Ordered(ts[j].evs)
         /\ Run(tls[j].evs) => Run(ts[j].evs)
  BY <1>6 DEF Spares, Holds
<1>8. Typed(ts, ix)
  <2>1. \A x \in Id : ix[x] # NoTl => Holds(ts, ix[x], x)
    <3> SUFFICES ASSUME NEW x \in Id, ix[x] # NoTl PROVE Holds(ts, ix[x], x)
      OBVIOUS
    <3>1. x \in Event /\ ix[x] = index[x] /\ index[x] # NoTl
      BY <1>4, EventTypes
    <3>2. index[x] \in 1 .. Len(tls) /\ Holds(tls, index[x], x)
      BY <1>3, <3>1, TypedFacts
    <3> QED BY <1>7, <3>1, <3>2
  <2> QED BY <1>3, <1>4, <1>6, <2>1, TypedFrom
<1>9. DOMAIN ts = 1 .. Len(tls)
  BY <1>6, <1>8, TypedFacts
<1>10. TypeInv'
  <2>1. Filled(ts, NoTl)
    BY <1>3, <1>7, <1>9 DEF Filled
  <2>2. /\ Typed(tls, index)' /\ Filled(tls, NoTl)' /\ RequestsType(requests, Len(tls), live)'
        /\ WindowType(window, Len(tls))'
    BY <1>1, <1>2, <1>6, <1>8, <2>1 DEF TypeInv
  <2>3. live \in DOMAIN ts
    BY <1>3, <1>9
  <2>4. upset' \subseteq {"skipped", "refused", "forgotten", "overtaken", "removed"}
    BY <1>1, <1>2 DEF TypeInv
  <2> QED BY <1>1, <1>2, <2>2, <2>3, <2>4 DEF TypeInv
<1>11. ASSUME ~Torn' PROVE WholeInv'
  <2>1. WholeInv
    BY <1>1, <1>2, <1>11 DEF Torn
  <2>2. oldest \in Nat \ {0} /\ oldest <= live /\ live \in oldest .. Len(tls)
    BY <1>1, StateFacts
  <2>3. EchoesApart(tls, index, ts, ix)
    BY <1>5, <1>6, <1>7 DEF EchoesApart
  <2>4. Sound(ts, ix, oldest, live, NoTl)
    BY <1>3, <2>1, <2>2, <2>3, EchoSound DEF WholeInv
  <2>5. \A j \in 1 .. oldest - 1 : Run(ts[j].evs)
    <3>1. \A j \in 1 .. oldest - 1 : j \in 1 .. Len(tls)
      BY <2>2
    <3> QED BY <1>7, <2>1, <3>1 DEF WholeInv
  <2>6. RequestsStand(requests, ix, oldest, live)
    BY <1>5, <2>1 DEF WholeInv, RequestsStand, Stands
  <2>7. ix[synced] = live
    BY <1>1, <1>5, <2>1 DEF WholeInv, TypeInv
  <2>8. /\ Sound(tls, index, oldest, live, NoTl)' /\ RequestsStand(requests, index, oldest, live)'
        /\ (\A j \in 1 .. oldest - 1 : Run(tls[j].evs))' /\ (index[synced] = live)'
    BY <1>2, <2>4, <2>5, <2>6, <2>7
  <2>9. (style = "scrollback" => oldest = Len(tls))'
    BY <1>2, <1>6, <2>1 DEF WholeInv
  <2> QED BY <2>8, <2>9 DEF WholeInv
<1> QED BY <1>10, <1>11 DEF TimelinesInv

-----------------------------------------------------------------------------
(* The events around one.                                                  *)

\* After the loop every event of the page has a timeline.
LEMMA FillHas ==
  ASSUME NEW ts, NEW ix, Typed(ts, ix), NEW lv, NEW es \in Seq(Event), NEW d \in Dir,
         NEW tl \in DOMAIN ts, NEW token, NEW k \in 1 .. Len(es)
  PROVE  addEventsToTimeline(ts, ix, lv, es, d, tl, token).index[es[k]] # NoTl
<1> DEFINE res == addEventsToTimeline(ts, ix, lv, es, d, tl, token)
           n == Len(es) - k
<1>0. /\ Len(es) \in Nat /\ \A m \in 1 .. Len(es) : es[m] \in Event /\ es[m] \in Id
      /\ Len(ts) \in Nat /\ DOMAIN ts = 1 .. Len(ts) /\ NoTl = 0 /\ n \in Nat /\ k + n = Len(es)
  <2>1. Len(es) \in Nat /\ \A m \in 1 .. Len(es) : es[m] \in Event
    OBVIOUS
  <2>2. n \in Nat /\ k + n = Len(es)
    BY <2>1
  <2> HIDE DEF n
  <2> QED BY <2>1, <2>2, TypedFacts, EventTypes DEF NoTl
<1>1. PICK g : LoopRuns(ts, ix, lv, es, d, tl, g) /\ res = Closed(g[Len(es)], d, lv, token)
  BY FillIs
<1>2. /\ \A m \in 0 .. Len(es) : TurnOk(g[m])
      /\ \A m \in 1 .. Len(es) : Turn(g[m - 1], g[m], es[m], d, lv)
  BY <1>1, LoopTurns
<1> HIDE DEF res, n
<1>3. ASSUME NEW m \in 1 .. Len(es)
      PROVE  /\ g[m].index[es[m]] # NoTl
             /\ Grows(g[m - 1].tls, g[m - 1].index, g[m].tls, g[m].index)
  <2> DEFINE st == g[m - 1]
             r == g[m]
  <2>1. TurnOk(st) /\ Turn(st, r, es[m], d, lv) /\ es[m] \in Event /\ es[m] \in Id
    <3>1. m - 1 \in 0 .. Len(es)
      BY <1>0
    <3> QED BY <1>0, <1>2, <3>1
  <2> HIDE DEF st, r
  <2>2. Grows(st.tls, st.index, r.tls, r.index) /\ Typed(st.tls, st.index) /\ st.tl \in 1 .. Len(st.tls)
    BY <2>1, TurnTyped, TypedFacts DEF TurnOk
  <2>3. r.index[es[m]] # NoTl
    <3>1. CASE TurnAdds(st, r, es[m], d)
      <4>1. r.index = [st.index EXCEPT ![es[m]] = st.tl] /\ st.index \in [Id -> 0 .. Len(st.tls)]
        BY <2>2, <3>1, TypedFacts DEF TurnAdds, Adds
      <4> QED BY <1>0, <2>1, <2>2, <4>1
    <3>2. CASE st.index[es[m]] # NoTl
      BY <2>1, <2>2, <3>2 DEF Grows
    <3> QED BY <2>1, <3>1, <3>2 DEF Turn, TurnStays, TurnCrosses, TurnRefuses, TurnLinks
  <2> QED BY <2>2, <2>3 DEF st, r
<1> DEFINE T == {j \in Nat : k + j <= Len(es) => g[k + j].index[es[k]] # NoTl}
<1>4. 0 \in T
  <2>1. k + 0 = k
    OBVIOUS
  <2> QED BY <1>3, <2>1
<1>5. ASSUME NEW j \in Nat, j \in T PROVE j + 1 \in T
  <2> DEFINE m == k + (j + 1)
  <2> SUFFICES ASSUME m <= Len(es) PROVE g[m].index[es[k]] # NoTl
    OBVIOUS
  <2>1. m \in 1 .. Len(es) /\ m - 1 = k + j /\ k + j <= Len(es)
    BY <1>0
  <2>2. g[m - 1].index[es[k]] # NoTl
    BY <1>5, <2>1
  <2> HIDE DEF m
  <2> QED BY <1>0, <1>3, <2>1, <2>2 DEF Grows
<1>6. n \in T
  <2>1. \A j \in 0 .. n : j \in T /\ j < n => j + 1 \in T
    <3> HIDE DEF T
    <3> QED BY <1>0, <1>5
  <2> HIDE DEF T
  <2> QED BY <1>0, <1>4, <2>1, UpFromZero
<1>7. g[Len(es)].index[es[k]] # NoTl
  BY <1>0, <1>6
<1> DEFINE st == g[Len(es)]
<1>8. TurnOk(st)
  BY <1>0, <1>2
<1> HIDE DEF st
<1>9. res.index = st.index
  <2>1. Closes(st, d, lv, token, res)
    BY <1>1, <1>8, ClosedIs DEF st
  <2> QED BY <2>1 DEF Closes
<1> QED BY <1>7, <1>9 DEF st, res

\* What the answer of a load has done.
Loaded(ts, ix, e, o, lv, st) ==
  /\ Typed(st.tls, st.index) /\ Filled(st.tls, NoTl) /\ Len(st.tls) \in {Len(ts), Len(ts) + 1}
  /\ \A x \in Id : ix[x] # NoTl => st.index[x] = ix[x]
  /\ st.index[e] # NoTl /\ st.refused \in BOOLEAN
  /\ Sound(ts, ix, o, lv, NoTl) => FillSafe(ts, o, lv, st)

\* It goes to the timeline that has its newest event.
LEMMA LoadsOld ==
  ASSUME NEW ts, NEW ix, Typed(ts, ix), Filled(ts, NoTl), NEW o \in 1 .. Len(ts), NEW lv \in 1 .. Len(ts),
         NEW es, IsPage(es, "b"), es # <<>>, NEW k \in 1 .. Len(es), ix[es[1]] # NoTl,
         NEW token \in 0 .. MaxHead, token = es[Len(es)] - 1
  PROVE  Loaded(ts, ix, es[k], o, lv, addEventsToTimeline(ts, ix, lv, es, "b", ix[es[1]], token))
<1> DEFINE i == ix[es[1]]
           st == addEventsToTimeline(ts, ix, lv, es, "b", i, token)
<1>1. /\ es \in Seq(Event) /\ "b" \in Dir /\ token \in Token
      /\ Len(ts) \in Nat /\ DOMAIN ts = 1 .. Len(ts) /\ o \in Nat \ {0}
  BY TypedFacts DEF IsPage, Dir, Token
<1>2. 1 \in 1 .. Len(es) /\ es[1] \in Event /\ es[1] \in Id
  <2>1. 1 \in 1 .. Len(es) /\ es[1] \in Event
    BY <1>1
  <2> QED BY <2>1, EventTypes
<1>3. i \in DOMAIN ts
  BY <1>1, <1>2, TypedFacts
<1> HIDE DEF st, i
<1>4. FillOk(ts, ix, es, i, st)
  BY <1>1, <1>3, FillTyped DEF st
<1>5. st.index[es[k]] # NoTl
  BY <1>1, <1>3, FillHas DEF st
<1>6. Typed(st.tls, st.index) /\ Grows(ts, ix, st.tls, st.index) /\ st.refused \in BOOLEAN
  BY <1>4 DEF FillOk
<1>7. Filled(st.tls, NoTl)
  BY <1>6, FilledGrows
<1>8. ASSUME Sound(ts, ix, o, lv, NoTl) PROVE FillSafe(ts, o, lv, st)
  <2>1. i \in o .. Len(ts)
    <3>1. i >= o
      BY <1>2, <1>8 DEF Sound, Apart, i
    <3> QED BY <1>1, <1>3, <3>1
  <2>2. EndsPage(ix, es, "b", i, token)
    BY DEF EndsPage, i
  <2> QED BY <1>1, <1>8, <2>1, <2>2, FillSound DEF st
<1>9. Len(st.tls) \in {Len(ts), Len(ts) + 1} /\ \A x \in Id : ix[x] # NoTl => st.index[x] = ix[x]
  BY <1>6 DEF Grows
<1>10. Loaded(ts, ix, es[k], o, lv, st)
  BY <1>5, <1>6, <1>7, <1>8, <1>9 DEF Loaded
<1> QED BY <1>10 DEF st, i

\* Or to a new one.
LEMMA LoadsNew ==
  ASSUME NEW ts, NEW ix, Typed(ts, ix), Filled(ts, NoTl), NEW o \in 1 .. Len(ts), NEW lv \in 1 .. Len(ts),
         NEW es, IsPage(es, "b"), es # <<>>, NEW k \in 1 .. Len(es), ix[es[1]] = NoTl,
         NEW token \in 0 .. MaxHead, token = es[Len(es)] - 1, NEW tl, Fresh(es[1], "f", tl)
  PROVE  Loaded(ts, ix, es[k], o, lv, addEventsToTimeline(Append(ts, tl), ix, lv, es, "b", Len(ts) + 1, token))
<1> DEFINE n == Len(ts) + 1
           ts2 == Append(ts, tl)
           st == addEventsToTimeline(ts2, ix, lv, es, "b", n, token)
<1>1. /\ es \in Seq(Event) /\ "b" \in Dir /\ "f" \in Dir /\ token \in Token /\ NoTl = 0
      /\ Len(ts) \in Nat /\ DOMAIN ts = 1 .. Len(ts) /\ o \in Nat \ {0} /\ n \in Nat
  BY TypedFacts DEF IsPage, Dir, Token, NoTl
<1>2. 1 \in 1 .. Len(es) /\ es[1] \in Event /\ es[1] \in Id
  <2>1. 1 \in 1 .. Len(es) /\ es[1] \in Event
    BY <1>1
  <2> QED BY <2>1, EventTypes
<1>3. Typed(ts2, ix) /\ Len(ts2) = n /\ \A i \in 1 .. Len(ts) : ts2[i] = ts[i]
  BY <1>1, AppendTyped
<1>4. FillSafe(ts2, o, lv, st) \/ ~Sound(ts, ix, o, lv, NoTl)
  BY NewFillSound
<1> HIDE DEF st, ts2
<1>5. n \in DOMAIN ts2 /\ DOMAIN ts2 = 1 .. n
  BY <1>1, <1>3, TypedFacts
<1> HIDE DEF n
<1>6. FillOk(ts2, ix, es, n, st)
  BY <1>1, <1>3, <1>5, FillTyped DEF st
<1>7. st.index[es[k]] # NoTl
  BY <1>1, <1>3, <1>5, FillHas DEF st
<1>8. Typed(st.tls, st.index) /\ Grows(ts2, ix, st.tls, st.index) /\ st.refused \in BOOLEAN /\ st.index[es[1]] = n
  BY <1>6 DEF FillOk
<1>9. Filled(st.tls, NoTl)
  <2>1. Filled(ts2, n)
    <3> SUFFICES ASSUME NEW i \in DOMAIN ts2, i # n PROVE \E e \in Event : Holds(ts2, i, e)
      BY DEF Filled
    <3>1. i \in DOMAIN ts /\ ts2[i] = ts[i] /\ i # NoTl
      BY <1>1, <1>3, <1>5 DEF n
    <3> QED BY <3>1 DEF Filled, Holds
  <2>2. \E e \in Event : st.index[e] = n /\ n # NoTl
    BY <1>1, <1>2, <1>8 DEF n
  <2> QED BY <1>3, <1>8, <2>1, <2>2, FilledGrows
<1>10. Len(st.tls) \in {Len(ts), Len(ts) + 1} /\ \A x \in Id : ix[x] # NoTl => st.index[x] = ix[x]
  BY <1>3, <1>8 DEF Grows, n
<1>11. ASSUME Sound(ts, ix, o, lv, NoTl) PROVE FillSafe(ts, o, lv, st)
  <2>1. FillSafe(ts2, o, lv, st)
    BY <1>4, <1>11
  <2>2. \A i \in 1 .. o - 1 : ts2[i] = ts[i]
    BY <1>1, <1>3
  <2> QED BY <2>1, <2>2 DEF FillSafe, OldStay
<1>12. Loaded(ts, ix, es[k], o, lv, st)
  BY <1>7, <1>8, <1>9, <1>10, <1>11 DEF Loaded
<1> QED BY <1>12 DEF st, ts2, n

\* The events around e, up to event number last.
Around(es, e, last, first) ==
  /\ IsPage(es, "b") /\ es # <<>> /\ last \in Event /\ es[1] = last
  /\ first - 1 \in 0 .. MaxHead /\ first - 1 = es[Len(es)] - 1
  /\ \E k \in 1 .. Len(es) : es[k] = e

\* That is what /context answers.
LEMMA AroundIs ==
  ASSUME NEW e \in Event, NEW h \in Event, e <= h, NEW last, last = lo(e + 1, h),
         NEW first, first = IF e > 1 THEN e - 1 ELSE 1,
         NEW es, es = [k \in 1 .. last - first + 1 |-> last - k + 1]
  PROVE  Around(es, e, last, first)
<1>1. MaxHead \in Nat /\ e \in Int /\ h \in Int /\ 1 <= e /\ h <= MaxHead
  BY TimelinesAssumption DEF Event
<1>2. last \in Int /\ e <= last /\ last <= e + 1 /\ last <= MaxHead
  BY <1>1 DEF lo
<1>3. first \in Int /\ 1 <= first /\ first <= e
  BY <1>1
<1> DEFINE n == last - first + 1
<1>4. n \in Nat /\ n > 0 /\ last - (n - 1) = first
  BY <1>1, <1>2, <1>3
<1>5. es = [k \in 1 .. n |-> last - (k - 1)]
  <2>1. \A k \in 1 .. n : last - k + 1 = last - (k - 1)
    BY <1>2, <1>4
  <2> HIDE DEF n
  <2>2. es = [k \in 1 .. n |-> last - k + 1]
    BY DEF n
  <2> QED BY <2>1, <2>2
<1> HIDE DEF n
<1>6. IsRun(es, "b", last, n)
  <2>1. n > 0 => last <= MaxHead /\ last - (n - 1) >= 1
    BY <1>2, <1>3, <1>4
  <2> QED BY <1>2, <1>4, <1>5, <2>1, DownRun
<1>7. IsPage(es, "b") /\ Len(es) = n /\ es # <<>> /\ es[1] = last /\ es[n] = first
  BY <1>4, <1>6 DEF IsRun
<1>8. \E k \in 1 .. Len(es) : es[k] = e
  <2> DEFINE x == last - e + 1
  <2>1. x \in Int /\ 1 <= x /\ x <= last - first + 1 /\ last - (x - 1) = e
    BY <1>1, <1>2, <1>3
  <2>2. x \in 1 .. n
    BY <1>4, <2>1 DEF n
  <2> HIDE DEF x
  <2>3. es[x] = e
    BY <1>5, <2>1, <2>2
  <2> QED BY <1>7, <2>2, <2>3
<1>9. last \in Event /\ first - 1 \in 0 .. MaxHead /\ first - 1 = es[Len(es)] - 1
  BY <1>1, <1>2, <1>3, <1>7 DEF Event
<1> QED BY <1>7, <1>8, <1>9 DEF Around

\* The answer of a load goes to the timelines.
LEMMA ContextKeeps ==
  ASSUME TimelinesInv, NEW l \in loading, onContext(l)
  PROVE  TimelinesInv'
<1>1. TypeInv /\ (~Torn => WholeInv)
  BY DEF TimelinesInv
<1>2. PICK h \in l.at .. head, show \in BOOLEAN :
        LET e == l.ev
            last == lo(e + 1, h)
            first == IF e > 1 THEN e - 1 ELSE 1
            es == [k \in 1 .. last - first + 1 |-> last - k + 1]
            isNew == index[last] = NoTl
            i == IF isNew THEN Len(tls) + 1 ELSE index[last]
            ts == IF isNew THEN Append(tls, setPaginationToken(Tl(<<>>), last, "f")) ELSE tls
            st == IF index[e] # NoTl THEN [tls |-> tls, index |-> index, refused |-> FALSE]
                  ELSE addEventsToTimeline(ts, index, live, es, "b", i, first - 1)
            k == CHOOSE x \in DOMAIN st.tls[st.index[e]].evs : st.tls[st.index[e]].evs[x] = e
        IN  /\ loading' = loading \ {l}
            /\ tls' = st.tls
            /\ index' = st.index
            /\ upset' = IF st.refused THEN upset \cup {"refused"} ELSE upset
            /\ show => window = NoWindow
            /\ window' = IF show THEN initFields(st.tls, st.index[e], k - 1) ELSE window
            /\ UNCHANGED <<head, synced, style, oldest, live, requests, echo, plan, used>>
  BY DEF onContext
<1> DEFINE e == l.ev
           last == lo(e + 1, h)
           first == IF e > 1 THEN e - 1 ELSE 1
           es == [k \in 1 .. last - first + 1 |-> last - k + 1]
           isNew == index[last] = NoTl
           i == IF isNew THEN Len(tls) + 1 ELSE index[last]
           tl == setPaginationToken(Tl(<<>>), last, "f")
           ts == IF isNew THEN Append(tls, tl) ELSE tls
           st == IF index[e] # NoTl THEN [tls |-> tls, index |-> index, refused |-> FALSE]
                 ELSE addEventsToTimeline(ts, index, live, es, "b", i, first - 1)
           k == PlaceIn(st.tls[st.index[e]].evs, e)
<1>3. /\ loading' = loading \ {l} /\ tls' = st.tls /\ index' = st.index
      /\ upset' = (IF st.refused THEN upset \cup {"refused"} ELSE upset)
      /\ window' = (IF show THEN initFields(st.tls, st.index[e], k - 1) ELSE window)
      /\ head' = head /\ synced' = synced /\ style' = style /\ oldest' = oldest /\ live' = live
      /\ requests' = requests /\ echo' = echo /\ plan' = plan
  BY <1>2 DEF PlaceIn
<1>4. /\ Typed(tls, index) /\ Filled(tls, NoTl) /\ NoTl = 0 /\ Len(tls) \in Nat /\ DOMAIN tls = 1 .. Len(tls)
      /\ live \in 1 .. Len(tls) /\ oldest \in 1 .. Len(tls) /\ oldest <= live /\ oldest \in Nat \ {0}
      /\ RequestsType(requests, Len(tls), live) /\ style = "timelines"
  BY <1>1, StateFacts DEF TypeInv
<1>5. e \in Event /\ e \in Id /\ h \in Event /\ e <= h
  <2>1. l \in [ev : Event, at : Event] /\ l.ev <= l.at
    BY <1>1 DEF TypeInv
  <2>2. head \in Event /\ Event \subseteq Id
    BY <1>1, EventTypes DEF TypeInv
  <2> QED BY <2>1, <2>2, TimelinesAssumption DEF Event
<1> HIDE DEF e
<1>6. Around(es, e, last, first)
  <2> HIDE DEF es, last, first
  <2>1. last = lo(e + 1, h) /\ first = (IF e > 1 THEN e - 1 ELSE 1) /\ es = [x \in 1 .. last - first + 1 |-> last - x + 1]
    BY DEF last, first, es
  <2> QED BY <1>5, <2>1, AroundIs
<1> HIDE DEF es, last, first
<1>7. /\ IsPage(es, "b") /\ es # <<>> /\ last \in Event /\ es[1] = last
      /\ first - 1 \in 0 .. MaxHead /\ first - 1 = es[Len(es)] - 1
  BY <1>6 DEF Around
<1>8. Loaded(tls, index, e, oldest, live, st)
  <2>1. CASE index[e] # NoTl
    <3>1. st.tls = tls /\ st.index = index /\ st.refused = FALSE
      BY <2>1
    <3> HIDE DEF st
    <3> QED BY <1>4, <2>1, <3>1 DEF Loaded, FillSafe, OldStay
  <2>2. CASE index[e] = NoTl /\ isNew
    <3>1. st = addEventsToTimeline(Append(tls, tl), index, live, es, "b", Len(tls) + 1, first - 1)
      BY <2>2
    <3>2. Fresh(last, "f", tl)
      <4>1. last \in Token /\ "f" \in Dir
        BY <1>7 DEF Event, Token, Dir
      <4> QED BY <4>1, FreshIs
    <3>3. index[es[1]] = NoTl
      BY <1>7, <2>2
    <3>4. PICK x \in 1 .. Len(es) : es[x] = e
      BY <1>6 DEF Around
    <3> HIDE DEF st, tl
    <3>5. Loaded(tls, index, es[x], oldest, live, st)
      BY <1>4, <1>7, <3>1, <3>2, <3>3, LoadsNew
    <3> QED BY <3>4, <3>5
  <2>3. CASE index[e] = NoTl /\ ~isNew
    <3>1. st = addEventsToTimeline(tls, index, live, es, "b", index[es[1]], first - 1)
      BY <1>7, <2>3
    <3>2. index[es[1]] # NoTl
      BY <1>7, <2>3
    <3>3. PICK x \in 1 .. Len(es) : es[x] = e
      BY <1>6 DEF Around
    <3> HIDE DEF st, tl
    <3>4. Loaded(tls, index, es[x], oldest, live, st)
      BY <1>4, <1>7, <3>1, <3>2, LoadsOld
    <3> QED BY <3>3, <3>4
  <2> QED BY <2>1, <2>2, <2>3
<1> HIDE DEF st
<1>9. /\ Typed(st.tls, st.index) /\ Filled(st.tls, NoTl) /\ Len(st.tls) \in {Len(tls), Len(tls) + 1}
      /\ \A x \in Id : index[x] # NoTl => st.index[x] = index[x]
      /\ st.index[e] # NoTl /\ st.refused \in BOOLEAN
  BY <1>8 DEF Loaded
<1>10. Len(st.tls) \in Nat /\ Len(tls) <= Len(st.tls) /\ DOMAIN st.tls = 1 .. Len(st.tls)
  BY <1>4, <1>9, TypedFacts
<1>11. TypeInv'
  <2>1. WindowType(window', Len(st.tls))
    <3>1. CASE show
      <4>1. st.index[e] \in 1 .. Len(st.tls)
        BY <1>5, <1>9, TypedFacts
      <4>2. k \in Nat \ {0}
        BY <1>5, <1>9, PlaceIs
      <4>3. k - 1 \in Int
        BY <4>2
      <4> HIDE DEF k
      <4>4. WindowType(initFields(st.tls, st.index[e], k - 1), Len(st.tls))
        BY <1>9, <4>1, <4>3, InitFieldsIs
      <4> QED BY <1>3, <3>1, <4>4
    <3>2. CASE ~show
      <4>1. WindowType(window, Len(tls))
        BY <1>1 DEF TypeInv
      <4>2. WindowType(window, Len(st.tls))
        BY <1>4, <1>10, <4>1, WindowMore
      <4> QED BY <1>3, <3>2, <4>2
    <3> QED BY <3>1, <3>2
  <2>2. RequestsType(requests, Len(st.tls), live)
    <3>1. live \in Nat /\ live <= live
      BY <1>4
    <3> QED BY <1>4, <1>10, <3>1, RequestsMore
  <2>3. /\ Typed(tls, index)' /\ Filled(tls, NoTl)' /\ RequestsType(requests, Len(tls), live)'
        /\ WindowType(window, Len(tls))'
    BY <1>3, <1>9, <2>1, <2>2
  <2>4. upset' \subseteq {"skipped", "refused", "forgotten", "overtaken", "removed"}
    BY <1>1, <1>3 DEF TypeInv
  <2>5. live \in DOMAIN st.tls
    BY <1>4, <1>10
  <2>6. LoadingOk'
    BY <1>1, <1>3, <1>4 DEF TypeInv, LoadingOk
  <2> HIDE DEF k, e
  <2> QED BY <1>1, <1>3, <2>3, <2>4, <2>5, <2>6 DEF TypeInv, LoadingOk
<1>12. ASSUME ~Torn' PROVE WholeInv'
  <2>1. WholeInv /\ ~st.refused
    <3>1. upset \subseteq upset' /\ (st.refused => "refused" \in upset')
      BY <1>3
    <3>2. upset' \subseteq {"removed"}
      BY <1>12 DEF Torn
    <3> QED BY <1>1, <3>1, <3>2 DEF Torn
  <2>2. Sound(st.tls, st.index, oldest, live, NoTl) /\ OldStay(tls, st.tls, oldest)
    BY <1>8, <2>1 DEF WholeInv, Loaded, FillSafe
  <2>3. \A j \in 1 .. oldest - 1 : Run(st.tls[j].evs)
    BY <2>1, <2>2 DEF WholeInv, OldStay
  <2>4. RequestsStand(requests, st.index, oldest, live)
    <3>1. \A j, t : j # NoTl /\ Stands(index, j, t) => Stands(st.index, j, t)
      BY <1>9, EventTypes DEF Stands
    <3>2. \A r \in requests : r.tl \in Nat /\ (r.tl >= oldest => r.tl # NoTl)
      BY <1>4 DEF RequestsType
    <3>3. live # NoTl
      BY <1>4
    <3> QED BY <2>1, <3>1, <3>2, <3>3 DEF WholeInv, RequestsStand
  <2>5. st.index[synced] = live
    <3>1. synced \in Id /\ live # NoTl
      BY <1>1, <1>4, EventTypes DEF TypeInv
    <3> QED BY <1>9, <2>1, <3>1 DEF WholeInv
  <2>6. /\ Sound(tls, index, oldest, live, NoTl)' /\ RequestsStand(requests, index, oldest, live)'
        /\ (\A j \in 1 .. oldest - 1 : Run(tls[j].evs))' /\ (index[synced] = live)'
    BY <1>3, <2>2, <2>3, <2>4, <2>5
  <2>7. (style = "scrollback" => oldest = Len(tls))'
    BY <1>3, <1>4
  <2> QED BY <2>6, <2>7 DEF WholeInv
<1> QED BY <1>11, <1>12 DEF TimelinesInv

-----------------------------------------------------------------------------
(* Sync.                                                                   *)

\* From each turn of the loop to its end the timelines only grow.
LEMMA LiveGrows ==
  ASSUME NEW st, LiveOk(st), NEW es \in Seq(Event), NEW g, LiveRuns(st, es, g), NEW k \in 0 .. Len(es)
  PROVE  Grows(g[k].tls, g[k].index, g[Len(es)].tls, g[Len(es)].index)
<1> DEFINE n == Len(es) - k
           T == {j \in Nat : k + j <= Len(es) => Grows(g[k].tls, g[k].index, g[k + j].tls, g[k + j].index)}
<1>1. Len(es) \in Nat /\ n \in Nat /\ k + n = Len(es)
  OBVIOUS
<1> HIDE DEF n
<1>2. \A m \in 1 .. Len(es) : LiveGoes(g[m - 1], g[m])
  BY LiveTurns
<1>3. 0 \in T
  <2>1. k + 0 = k
    OBVIOUS
  <2>2. Grows(g[k].tls, g[k].index, g[k].tls, g[k].index)
    BY DEF Grows
  <2> QED BY <2>1, <2>2
<1>4. ASSUME NEW j \in Nat, j \in T PROVE j + 1 \in T
  <2> DEFINE m == k + (j + 1)
  <2> SUFFICES ASSUME m <= Len(es) PROVE Grows(g[k].tls, g[k].index, g[m].tls, g[m].index)
    OBVIOUS
  <2>1. m \in 1 .. Len(es) /\ m - 1 = k + j /\ k + j <= Len(es)
    BY <1>1
  <2>2. Grows(g[k].tls, g[k].index, g[m - 1].tls, g[m - 1].index)
    BY <1>4, <2>1
  <2> HIDE DEF m
  <2>3. Grows(g[m - 1].tls, g[m - 1].index, g[m].tls, g[m].index)
    BY <1>2, <2>1 DEF LiveGoes
  <2> QED BY <2>2, <2>3 DEF Grows
<1>5. n \in T
  <2>1. \A j \in 0 .. n : j \in T /\ j < n => j + 1 \in T
    <3> HIDE DEF T
    <3> QED BY <1>1, <1>4
  <2> HIDE DEF T
  <2> QED BY <1>1, <1>3, <2>1, UpFromZero
<1> QED BY <1>1, <1>5

\* What a sync up to event h has done.
Received(st, h) ==
  /\ LiveOk(st) /\ Filled(st.tls, NoTl)
  /\ Len(tls) <= Len(st.tls) /\ st.oldest \in 1 .. st.live /\ live <= st.live
  /\ WholeInv /\ ~st.skipped =>
       /\ Sound(st.tls, st.index, st.oldest, st.live, NoTl)
       /\ \A j \in 1 .. st.oldest - 1 : Run(st.tls[j].evs)
       /\ RequestsStand(requests, st.index, st.oldest, st.live)
       /\ st.index[h] = st.live
       /\ style = "scrollback" => st.oldest = Len(st.tls)

\* Without a reset the live timeline goes on.
Current == [tls |-> tls, oldest |-> oldest, live |-> live, index |-> index, skipped |-> FALSE]

\* A page of a response that follows on is received without a reset.
LEMMA StaysReceived ==
  ASSUME TypeInv, NEW es, IsPage(es, "f"), es # <<>>, WholeInv => LiveNear(Current, es[1])
  PROVE  Received(addLiveEvents(Current, es), es[Len(es)])
<1> DEFINE st == addLiveEvents(Current, es)
           b == Current
<1>1. /\ es \in Seq(Event) /\ Len(es) \in Nat /\ Len(es) >= 1 /\ Len(es) \in 1 .. Len(es) /\ Len(es) \in 0 .. Len(es)
      /\ 0 \in 0 .. Len(es)
  <2>1. es \in Seq(Event)
    BY DEF IsPage
  <2> QED BY <2>1
<1>2. /\ Typed(tls, index) /\ Filled(tls, NoTl) /\ NoTl = 0 /\ Len(tls) \in Nat /\ DOMAIN tls = 1 .. Len(tls)
      /\ live \in 1 .. Len(tls) /\ live \in DOMAIN tls /\ oldest \in 1 .. live /\ oldest <= live /\ oldest \in Nat \ {0}
      /\ live \in Nat \ {0} /\ RequestsType(requests, Len(tls), live)
  BY StateFacts DEF TypeInv
<1>3. /\ b.tls = tls /\ b.index = index /\ b.live = live /\ b.oldest = oldest /\ b.skipped = FALSE /\ IsLive(b)
  BY DEF Current, IsLive
<1> HIDE DEF b, st
<1>4. LiveOk(b)
  BY <1>2, <1>3 DEF LiveOk
<1>5. PICK g : LiveRuns(b, es, g) /\ st = g[Len(es)]
  BY <1>1, LiveIs DEF st, b
<1>6. LiveGoes(b, st)
  BY <1>1, <1>4, <1>5, LiveTurns
<1>7. /\ LiveOk(st) /\ Grows(tls, index, st.tls, st.index) /\ st.live = live /\ st.oldest = oldest
      /\ Typed(st.tls, st.index) /\ st.skipped \in BOOLEAN
  BY <1>3, <1>6 DEF LiveGoes, LiveOk
<1>8. Filled(st.tls, NoTl)
  BY <1>2, <1>7, FilledGrows
<1>9. Len(st.tls) = Len(tls)
  BY <1>7 DEF Grows
<1>10. ASSUME WholeInv, ~st.skipped
       PROVE  /\ Sound(st.tls, st.index, st.oldest, st.live, NoTl)
              /\ \A j \in 1 .. st.oldest - 1 : Run(st.tls[j].evs)
              /\ RequestsStand(requests, st.index, st.oldest, st.live)
              /\ st.index[es[Len(es)]] = st.live
              /\ style = "scrollback" => st.oldest = Len(st.tls)
  <2>1. g[0] = b
    BY <1>5 DEF LiveRuns
  <2>2. LiveFollows(tls, g, 0, es, oldest)
    <3>1. Sound(tls, index, oldest, live, NoTl) /\ OldStay(tls, tls, oldest)
      BY <1>10 DEF WholeInv, OldStay
    <3>2. g[0].tls = tls /\ g[0].index = index /\ g[0].live = live
      BY <1>3, <2>1
    <3>3. ~(0 >= 1) /\ live >= oldest
      BY <1>2
    <3> QED BY <3>1, <3>2, <3>3 DEF LiveFollows
  <2>3. LiveNear(g[0], es[0 + 1])
    <3>1. 0 + 1 = 1
      OBVIOUS
    <3> QED BY <1>10, <2>1, <3>1 DEF b
  <2>4. g[Len(es)].skipped \/ LiveFollows(tls, g, Len(es), es, oldest)
    BY <1>1, <1>2, <1>4, <1>5, <2>2, <2>3, LiveSound
  <2>5. Sound(st.tls, st.index, oldest, live, NoTl) /\ OldStay(tls, st.tls, oldest) /\ st.index[es[Len(es)]] = live
    BY <1>1, <1>5, <1>7, <1>10, <2>4 DEF LiveFollows
  <2>6. \A j \in 1 .. oldest - 1 : Run(st.tls[j].evs)
    BY <1>10, <2>5 DEF WholeInv, OldStay
  <2>7. RequestsStand(requests, index, oldest, live) /\ (style = "scrollback" => oldest = Len(tls))
    BY <1>10 DEF WholeInv
  <2>8. RequestsStand(requests, st.index, oldest, live)
    BY <1>2, <1>7, <2>7, RequestsGrow
  <2> QED BY <1>7, <1>9, <2>5, <2>6, <2>7, <2>8
<1>11. Received(st, es[Len(es)])
  <2>1. Len(tls) <= Len(st.tls) /\ st.oldest \in 1 .. st.live /\ live <= st.live
    BY <1>2, <1>7, <1>9
  <2> QED BY <1>7, <1>8, <1>10, <2>1 DEF Received
<1> QED BY <1>11 DEF st, b

\* What the reset makes of the old timelines.
Retired(all, ts1, ix1) ==
  /\ Typed(ts1, ix1) /\ Len(ts1) = Len(tls) /\ \A j \in 1 .. Len(tls) : ts1[j].evs = tls[j].evs
  /\ ix1 = IF all THEN [x \in Id |-> NoTl] ELSE index
  /\ WholeInv => Sound(ts1, ix1, IF all THEN Len(tls) + 1 ELSE oldest, Len(tls) + 1, NoTl)

\* With a token the old live timeline can be continued, without one every
\* timeline is forgotten.
LEMMA RetiredIs ==
  ASSUME TypeInv, NEW fwd \in {None, synced}, NEW all, all = resetAll(fwd),
         NEW old, old = IF fwd # None THEN setPaginationToken(tls[live], fwd, "f") ELSE tls[live]
  PROVE  Retired(all, [tls EXCEPT ![live] = old], IF all THEN [x \in Id |-> NoTl] ELSE index)
<1> DEFINE ts1 == [tls EXCEPT ![live] = old]
           ix1 == IF all THEN [x \in Id |-> NoTl] ELSE index
           o == IF all THEN Len(tls) + 1 ELSE oldest
<1>1. /\ Typed(tls, index) /\ NoTl = 0 /\ Len(tls) \in Nat /\ DOMAIN tls = 1 .. Len(tls)
      /\ live \in 1 .. Len(tls) /\ live \in DOMAIN tls /\ oldest \in 1 .. Len(tls) /\ live \in oldest .. Len(tls)
      /\ synced \in Event /\ synced \in 0 .. MaxHead /\ synced \in Token /\ synced # None /\ "f" \in Dir
      /\ all \in BOOLEAN
  BY StateFacts DEF Event, Token, None, Dir, resetAll
<1>2. \/ fwd = None /\ ts1 = tls /\ all = TRUE
      \/ fwd = synced /\ SetsToken(tls, live, synced, "f", ts1)
  <2>1. CASE fwd = None
    <3>1. tls \in Seq(Timeline(Len(tls)))
      BY <1>1 DEF Typed
    <3>2. old = tls[live]
      BY <2>1
    <3>3. ts1 = tls
      BY <1>1, <3>1, <3>2
    <3> QED BY <2>1, <3>3 DEF resetAll
  <2>2. CASE fwd # None
    <3>1. fwd = synced /\ old = setPaginationToken(tls[live], synced, "f")
      BY <2>2
    <3> QED BY <3>1 DEF SetsToken
  <2> QED BY <2>1, <2>2
<1> HIDE DEF ts1
<1>3. Typed(ts1, index) /\ Len(ts1) = Len(tls) /\ \A j \in 1 .. Len(tls) : ts1[j].evs = tls[j].evs
  <2>1. CASE ts1 = tls
    BY <1>1, <2>1
  <2>2. CASE SetsToken(tls, live, synced, "f", ts1)
    <3>1. Typed(ts1, index) /\ Tokened(tls, live, synced, "f", ts1)
      BY <1>1, <2>2, TokenKeeps
    <3> QED BY <3>1 DEF Tokened
  <2> QED BY <1>2, <2>1, <2>2
<1>4. Typed(ts1, ix1)
  <2>1. CASE all
    <3>1. /\ ts1 \in Seq(Timeline(Len(ts1))) /\ \A i \in 1 .. Len(ts1) : ts1[i].base <= Len(ts1[i].evs)
          /\ ix1 \in [Id -> 0 .. Len(ts1)] /\ \A x \in Id : ix1[x] = NoTl
      <4>1. ts1 \in Seq(Timeline(Len(ts1))) /\ \A i \in 1 .. Len(ts1) : ts1[i].base <= Len(ts1[i].evs)
        BY <1>3, TypedFacts DEF Typed
      <4>2. ix1 = [x \in Id |-> 0]
        BY <1>1, <2>1
      <4> HIDE DEF ix1
      <4>3. ix1 \in [Id -> 0 .. Len(ts1)] /\ \A x \in Id : ix1[x] = 0
        BY <1>1, <1>3, <4>2
      <4> QED BY <1>1, <4>1, <4>3
    <3> HIDE DEF ix1
    <3> QED BY <1>1, <1>3, <3>1, TypedFrom
  <2>2. CASE ~all
    BY <1>3, <2>2
  <2> QED BY <2>1, <2>2
<1>5. ASSUME WholeInv PROVE Sound(ts1, ix1, o, Len(tls) + 1, NoTl)
  <2>1. CASE all
    <3>1. o = Len(tls) + 1 /\ \A i \in o .. Len(ts1) : FALSE
      BY <1>1, <1>3, <2>1
    <3>2. \A x \in Event : ix1[x] = NoTl
      BY <2>1, EventTypes
    <3> HIDE DEF o, ix1
    <3> QED BY <3>1, <3>2 DEF Sound, Apart, LinkedOk, EndsOk
  <2>2. CASE ~all
    <3>1. o = oldest /\ ix1 = index /\ SetsToken(tls, live, synced, "f", ts1)
      BY <1>2, <2>2
    <3>2. Stands(index, live, synced) /\ Sound(tls, index, oldest, live, NoTl)
      BY <1>1, <1>5 DEF WholeInv, Stands
    <3> HIDE DEF o, ix1
    <3>3. Sound(ts1, index, oldest, Len(tls) + 1, NoTl)
      BY <1>1, <3>1, <3>2, RetireSound
    <3> QED BY <3>1, <3>3
  <2> QED BY <1>1, <2>1, <2>2
<1> HIDE DEF ix1
<1>6. ix1 = IF all THEN [x \in Id |-> NoTl] ELSE index
  BY DEF ix1
<1> QED BY <1>3, <1>4, <1>5, <1>6 DEF Retired, ts1, ix1

\* With a reset the events go to a new timeline.
LEMMA ResetReceived ==
  ASSUME TypeInv, NEW es, IsPage(es, "f"), es # <<>>, index[es[1]] = NoTl, NEW fwd \in {None, synced}
  PROVE  Received(addLiveEvents(resetLiveTimeline(es[1] - 1, fwd), es), es[Len(es)])
<1> DEFINE e == es[1]
           b == resetLiveTimeline(e - 1, fwd)
           st == addLiveEvents(b, es)
           all == resetAll(fwd)
           old == IF fwd # None THEN setPaginationToken(tls[live], fwd, "f") ELSE tls[live]
           ts1 == [tls EXCEPT ![live] = old]
           ix1 == IF all THEN [x \in Id |-> NoTl] ELSE index
           tl == setPaginationToken(Tl(<<>>), e - 1, "b")
           n == Len(tls) + 1
           o == IF all THEN n ELSE oldest
<1>1. /\ es \in Seq(Event) /\ Len(es) \in Nat /\ Len(es) >= 1 /\ Len(es) \in 1 .. Len(es) /\ Len(es) \in 0 .. Len(es)
      /\ 0 \in 0 .. Len(es) /\ 1 \in 0 .. Len(es) /\ 1 \in 1 .. Len(es) /\ e \in Event
      /\ \A k \in 1 .. Len(es) - 1 : es[k + 1] = es[k] + 1
  <2>1. es \in Seq(Event) /\ \A k \in 1 .. Len(es) - 1 : es[k + 1] = es[k] + 1
    BY DEF IsPage
  <2> QED BY <2>1
<1>2. /\ Typed(tls, index) /\ Filled(tls, NoTl) /\ NoTl = 0 /\ Len(tls) \in Nat /\ DOMAIN tls = 1 .. Len(tls)
      /\ live \in 1 .. Len(tls) /\ oldest \in 1 .. Len(tls) /\ oldest <= live
      /\ RequestsType(requests, Len(tls), live) /\ e \in Id /\ e \in Int /\ e - 1 \in Token /\ e - 1 # None
      /\ "b" \in Dir /\ "f" \in Dir /\ all \in BOOLEAN
  <2>1. e \in Int /\ e - 1 \in 0 .. MaxHead /\ e - 1 # None /\ e \in Id
    BY <1>1, TimelinesAssumption, EventTypes DEF Event, None
  <2> HIDE DEF e
  <2> QED BY <2>1, StateFacts DEF TypeInv, Token, Dir, resetAll
<1>3. b = [tls |-> Append(ts1, tl), live |-> n, oldest |-> o, index |-> ix1, skipped |-> FALSE]
  BY Zenon DEF resetLiveTimeline
<1> HIDE DEF b, st, e
<1>4. Retired(all, ts1, ix1)
  <2> HIDE DEF all, old, ts1, ix1
  <2>1. all = resetAll(fwd) /\ old = (IF fwd # None THEN setPaginationToken(tls[live], fwd, "f") ELSE tls[live])
    BY DEF all, old
  <2>2. Retired(all, [tls EXCEPT ![live] = old], IF all THEN [x \in Id |-> NoTl] ELSE index)
    BY <2>1, RetiredIs
  <2> QED BY <2>2 DEF ts1, ix1
<1>5. Fresh(e - 1, "b", tl)
  BY <1>2, FreshIs
<1> HIDE DEF tl
<1>6. ix1 \in [Id -> 0 .. Len(tls)] /\ ix1[e] = NoTl /\ (~all => ix1 = index) /\ (all => \A x \in Id : ix1[x] = NoTl)
  <2>1. index \in [Id -> 0 .. Len(tls)] /\ index[e] = NoTl
    BY <1>2, TypedFacts DEF e
  <2> HIDE DEF all
  <2> QED BY <1>2, <2>1
<1> HIDE DEF all, old, ts1, ix1
<1>7. /\ Typed(ts1, ix1) /\ Len(ts1) = Len(tls) /\ \A j \in 1 .. Len(tls) : ts1[j].evs = tls[j].evs
      /\ WholeInv => Sound(ts1, ix1, o, n, NoTl)
  BY <1>4 DEF Retired
<1> DEFINE ts2 == Append(ts1, tl)
<1>8. /\ Typed(ts2, ix1) /\ Len(ts2) = n /\ ts2[n] = tl /\ \A j \in 1 .. Len(tls) : ts2[j] = ts1[j]
  <2> HIDE DEF n
  <2>1. /\ Typed(ts2, ix1) /\ Len(ts2) = Len(ts1) + 1 /\ ts2[Len(ts1) + 1] = tl
        /\ \A j \in 1 .. Len(ts1) : ts2[j] = ts1[j]
    <3>1. PICK t : Fresh(t, "b", tl)
      BY <1>5
    <3>2. Typed(ts1, ix1) /\ "b" \in Dir
      BY <1>2, <1>7
    <3> QED BY <3>1, <3>2, AppendTyped
  <2>2. Len(ts1) + 1 = n
    BY <1>7 DEF n
  <2> QED BY <1>7, <2>1, <2>2
<1> HIDE DEF ts2
<1>9. /\ b.tls = ts2 /\ b.live = n /\ b.oldest = o /\ b.index = ix1 /\ b.skipped = FALSE /\ IsLive(b)
  <2> HIDE DEF n, o
  <2> QED BY <1>3 DEF IsLive, ts2
<1>10. n \in Nat /\ n \in 1 .. n /\ n > Len(tls) /\ DOMAIN ts2 = 1 .. n /\ n \in DOMAIN ts2
       /\ o \in 1 .. n /\ o \in Nat \ {0} /\ (o = n \/ o <= Len(tls)) /\ live <= n /\ n # NoTl
  BY <1>2, <1>8, TypedFacts
<1>11. LiveOk(b)
  <2> HIDE DEF n, o
  <2> QED BY <1>8, <1>9, <1>10 DEF LiveOk
<1> HIDE DEF n, o
<1>12. PICK g : LiveRuns(b, es, g) /\ st = g[Len(es)]
  BY <1>1, LiveIs DEF st
<1>13. /\ \A k \in 0 .. Len(es) : LiveGoes(b, g[k])
       /\ LiveTurn(g[0], g[1], e) /\ g[0] = b
       /\ Grows(g[1].tls, g[1].index, st.tls, st.index)
  <2>1. g[0] = b
    BY <1>12 DEF LiveRuns
  <2>2. /\ \A k \in 0 .. Len(es) : LiveGoes(b, g[k])
        /\ \A k \in 1 .. Len(es) : LiveTurn(g[k - 1], g[k], es[k])
    BY <1>1, <1>11, <1>12, LiveTurns
  <2>3. LiveTurn(g[1 - 1], g[1], es[1])
    BY <1>1, <2>2
  <2>4. Grows(g[1].tls, g[1].index, g[Len(es)].tls, g[Len(es)].index)
    BY <1>1, <1>11, <1>12, LiveGrows
  <2> QED BY <1>12, <2>1, <2>2, <2>3, <2>4 DEF e
<1>14. /\ LiveOk(st) /\ Grows(ts2, ix1, st.tls, st.index) /\ st.live = n /\ st.oldest = o
       /\ Typed(st.tls, st.index) /\ st.skipped \in BOOLEAN
  <2>1. LiveGoes(b, st)
    BY <1>1, <1>12, <1>13
  <2> QED BY <1>9, <2>1 DEF LiveGoes, LiveOk
<1>15. g[1].live = n /\ Adds(ts2, ix1, n, e, "f", g[1].tls, g[1].index) /\ LiveOk(g[1])
  <2>1. LiveGoes(b, g[1])
    BY <1>1, <1>13
  <2> QED BY <1>6, <1>9, <1>13, <2>1 DEF LiveGoes, LiveTurn
<1>16. Added(ts2, ix1, n, e, "f", g[1].tls, g[1].index) /\ Typed(g[1].tls, g[1].index)
  BY <1>2, <1>8, <1>10, <1>15, AddKeeps
<1>17. g[1].index[e] = n /\ st.index[e] = n
  <2>1. g[1].index[e] = n
    BY <1>16 DEF Added
  <2> QED BY <1>2, <1>10, <1>13, <2>1 DEF Grows
<1>18. Filled(st.tls, NoTl)
  <2>1. Filled(ts2, n)
    <3> SUFFICES ASSUME NEW j \in DOMAIN ts2, j # n PROVE \E x \in Event : Holds(ts2, j, x)
      BY DEF Filled
    <3>1. j \in DOMAIN tls /\ ts2[j].evs = tls[j].evs /\ j # NoTl
      <4>1. j \in 1 .. Len(tls)
        BY <1>2, <1>10 DEF n
      <4> QED BY <1>2, <1>7, <1>8, <4>1
    <3>2. PICK x \in Event : Holds(tls, j, x)
      BY <1>2, <3>1 DEF Filled
    <3> QED BY <3>1, <3>2 DEF Holds, In
  <2>2. \E x \in Event : st.index[x] = n /\ n # NoTl
    BY <1>1, <1>10, <1>17
  <2> QED BY <1>8, <1>14, <2>1, <2>2, FilledGrows
<1>19. Len(st.tls) = n /\ Len(tls) <= Len(st.tls) /\ st.oldest \in 1 .. st.live /\ live <= st.live
  BY <1>2, <1>8, <1>10, <1>14 DEF Grows
<1>20. ASSUME WholeInv, ~st.skipped
       PROVE  /\ Sound(st.tls, st.index, st.oldest, st.live, NoTl)
              /\ \A j \in 1 .. st.oldest - 1 : Run(st.tls[j].evs)
              /\ RequestsStand(requests, st.index, st.oldest, st.live)
              /\ st.index[es[Len(es)]] = st.live
              /\ style = "scrollback" => st.oldest = Len(st.tls)
  <2>1. OneMore(ts1, ix1, e, g[1].tls, g[1].index)
    <3>1. /\ Len(g[1].tls) = n /\ \A j \in 1 .. n : j # n => g[1].tls[j] = ts2[j]
          /\ g[1].tls[n].token = tl.token /\ g[1].tls[n].next = tl.next /\ Puts(tl, e, "f", g[1].tls[n])
      BY <1>8, <1>16 DEF Added
    <3>2. \A j \in 1 .. Len(tls) : j \in 1 .. n /\ j # n
      BY <1>2, <1>10
    <3>3. \A j \in 1 .. Len(tls) : g[1].tls[j] = ts1[j]
      BY <1>8, <3>1, <3>2
    <3>4. /\ tl.evs = <<>> /\ tl.token["b"] = e - 1 /\ tl.token["f"] = None
          /\ tl.next["f"] = NoTl /\ tl.next["b"] = NoTl
      BY <1>5 DEF Fresh, Dir
    <3>5. g[1].tls[n].evs = <<e>>
      <4>1. Len(g[1].tls[n].evs) = 1 /\ g[1].tls[n].evs[1] = e
        BY <3>1, <3>4 DEF Puts
      <4>2. g[1].tls[n] \in Timeline(Len(g[1].tls))
        BY <1>10, <1>16, <3>1, TypedFacts
      <4>3. g[1].tls[n].evs \in Seq(Id)
        BY <4>2 DEF Timeline
      <4> QED BY <4>1, <4>3
    <3>6. g[1].index = [ix1 EXCEPT ![e] = n]
      BY <1>15 DEF Adds
    <3>7. \A d \in Dir : g[1].tls[n].next[d] = NoTl /\ g[1].tls[n].token[d] \in {None, e - 1, e}
      BY <3>1, <3>4 DEF Dir
    <3>8. n = Len(ts1) + 1
      BY <1>7 DEF n
    <3> HIDE DEF n
    <3> QED BY <1>7, <3>1, <3>3, <3>5, <3>6, <3>7, <3>8 DEF OneMore
  <2>2. g[1].tls[n].token["b"] = e - 1 /\ g[1].tls[n].token["f"] = None
    <3>1. g[1].tls[n].token = tl.token
      BY <1>8, <1>16 DEF Added
    <3> QED BY <1>5, <3>1 DEF Fresh, Dir
  <2>3. Sound(g[1].tls, g[1].index, o, n, NoTl)
    <3>1. n = Len(ts1) + 1 /\ o \in 1 .. Len(ts1) + 1
      BY <1>7, <1>10 DEF n
    <3>2. Sound(ts1, ix1, o, n, NoTl)
      BY <1>7, <1>20
    <3>3. /\ Len(ts1) + 1 # NoTl /\ g[1].tls[Len(ts1) + 1].token["b"] = None => e = 1
          /\ g[1].tls[Len(ts1) + 1].token["f"] = None <=> Len(ts1) + 1 = n
      BY <1>2, <2>2, <3>1
    <3> QED BY <1>1, <1>6, <1>7, <2>1, <3>1, <3>2, <3>3, NewSound
  <2>4. LiveFollows(tls, g, 1, es, o)
    <3>1. OldStay(tls, g[1].tls, o)
      <4> SUFFICES ASSUME NEW j \in 1 .. o - 1 PROVE g[1].tls[j].evs = tls[j].evs
        BY DEF OldStay
      <4>1. j \in 1 .. Len(tls)
        BY <1>2, <1>10 DEF n
      <4> QED BY <1>7, <2>1, <4>1 DEF OneMore
    <3>2. g[1].live >= o /\ g[1].index[es[1]] = n
      BY <1>10, <1>15, <1>17 DEF e
    <3> QED BY <1>15, <2>3, <3>1, <3>2 DEF LiveFollows
  <2>5. 1 < Len(es) => LiveNear(g[1], es[1 + 1])
    <3> SUFFICES ASSUME 1 < Len(es) PROVE LiveNear(g[1], es[1 + 1])
      OBVIOUS
    <3>1. es[1 + 1] = e + 1
      <4>1. 1 \in 1 .. Len(es) - 1
        BY <1>1
      <4> QED BY <1>1, <4>1 DEF e
    <3>2. (e + 1) - 1 = e
      BY <1>2
    <3> QED BY <1>1, <1>15, <1>17, <3>1, <3>2 DEF LiveNear, Beside
  <2>6. g[Len(es)].skipped \/ LiveFollows(tls, g, Len(es), es, o)
    BY <1>1, <1>10, <1>11, <1>12, <2>4, <2>5, LiveSound
  <2>7. Sound(st.tls, st.index, o, n, NoTl) /\ OldStay(tls, st.tls, o) /\ st.index[es[Len(es)]] = n
    BY <1>1, <1>12, <1>14, <1>20, <2>6 DEF LiveFollows
  <2>8. \A j \in 1 .. o - 1 : Run(st.tls[j].evs)
    <3> SUFFICES ASSUME NEW j \in 1 .. o - 1 PROVE Run(st.tls[j].evs)
      OBVIOUS
    <3>1. j \in 1 .. Len(tls) /\ (j \in 1 .. oldest - 1 \/ j \in oldest .. Len(tls))
      BY <1>2, <1>10 DEF n
    <3>2. Run(tls[j].evs)
      <4>1. CASE j \in 1 .. oldest - 1
        BY <1>20, <4>1 DEF WholeInv
      <4>2. CASE j \in oldest .. Len(tls)
        <5>1. oldest \in Nat \ {0}
          BY <1>2
        <5>2. Apart(tls, index, oldest)
          BY <1>20 DEF WholeInv, Sound
        <5> QED BY <1>2, <4>2, <5>1, <5>2, RunOf
      <4> QED BY <3>1, <4>1, <4>2
    <3> QED BY <2>7, <3>2 DEF OldStay
  <2>9. RequestsStand(requests, st.index, o, n)
    <3> SUFFICES ASSUME NEW r \in requests
                 PROVE  /\ r.tl >= o => Stands(st.index, r.tl, r.from)
                        /\ r.tl = NoTl /\ r.at = n => Stands(st.index, n, r.from)
      BY DEF RequestsStand
    <3>1. r.tl \in 0 .. Len(tls) /\ (r.tl = NoTl => r.at <= live)
      BY <1>2 DEF RequestsType
    <3>2. ~(r.tl = NoTl /\ r.at = n)
      BY <1>2, <3>1 DEF n
    <3>3. ASSUME r.tl >= o PROVE Stands(st.index, r.tl, r.from)
      <4>1. o = oldest /\ ix1 = index /\ r.tl # NoTl
        BY <1>2, <1>6, <1>10, <3>1, <3>3 DEF o, n
      <4>2. PICK x \in Event : index[x] = r.tl /\ x \in {r.from, r.from + 1}
        BY <1>20, <3>3, <4>1 DEF WholeInv, RequestsStand, Stands
      <4>3. st.index[x] = r.tl
        BY <1>14, <4>1, <4>2, EventTypes DEF Grows
      <4> QED BY <4>2, <4>3 DEF Stands
    <3> QED BY <3>2, <3>3
  <2>10. style = "scrollback" => o = n
    BY DEF o, all, resetAll
  <2> QED BY <1>14, <1>19, <2>7, <2>8, <2>9, <2>10
<1>21. Received(st, es[Len(es)])
  BY <1>14, <1>18, <1>19, <1>20 DEF Received
<1> QED BY <1>21 DEF st, b, e

\* The events from a to h.
FromTo(es, a, h) == es = [k \in 1 .. h - a + 1 |-> a + k - 1]

\* They are a page.
LEMMA SyncPage ==
  ASSUME NEW a \in Event, NEW h \in Event, a <= h, NEW es, FromTo(es, a, h)
  PROVE  IsPage(es, "f") /\ es # <<>> /\ es[1] = a /\ es[Len(es)] = h
<1> DEFINE n == h - a + 1
<1>1. a \in Int /\ h \in Int /\ 1 <= a /\ h <= MaxHead /\ MaxHead \in Int
  BY TimelinesAssumption DEF Event
<1>2. n \in Nat /\ n > 0 /\ a + (n - 1) = h
  BY <1>1
<1>3. es = [k \in 1 .. n |-> a + (k - 1)]
  <2>1. \A k \in 1 .. n : a + k - 1 = a + (k - 1)
    BY <1>1, <1>2
  <2>2. es = [k \in 1 .. n |-> a + k - 1]
    BY DEF FromTo
  <2> HIDE DEF n
  <2> QED BY <2>1, <2>2
<1> HIDE DEF n
<1>4. IsRun(es, "f", a, n)
  BY <1>1, <1>2, <1>3, UpRun
<1> QED BY <1>2, <1>4 DEF IsRun

\* A sync adds what is new of the room.
LEMMA SyncKeeps ==
  ASSUME TimelinesInv, processSync
  PROVE  TimelinesInv'
<1>1. TypeInv /\ (~Torn => WholeInv)
  BY DEF TimelinesInv
<1>2. PICK h \in synced + 1 .. head, entire \in BOOLEAN :
        LET limited == h - synced > SyncLimit
            from == IF limited THEN h - SyncLimit + 1 ELSE synced + 1
            known == {e \in from .. h : index[e] # NoTl}
            reset == limited /\ known = {}
            first == IF limited /\ known # {} THEN Max(known) ELSE from
            fwd == IF entire THEN None ELSE synced
            base == IF reset THEN resetLiveTimeline(from - 1, fwd)
                    ELSE [tls |-> tls, oldest |-> oldest, live |-> live, index |-> index, skipped |-> FALSE]
            st == addLiveEvents(base, [k \in 1 .. h - first + 1 |-> first + k - 1])
        IN  /\ reset \/ ~entire
            /\ tls[live].token["f"] = None /\ tls[live].next["f"] = NoTl
            /\ tls' = st.tls
            /\ live' = st.live
            /\ oldest' = st.oldest
            /\ index' = st.index
            /\ synced' = h
            /\ upset' = IF st.skipped THEN upset \cup {"skipped"} ELSE upset
            /\ UNCHANGED <<head, style, requests, loading, window, echo, plan, used>>
  BY DEF processSync
<1> DEFINE limited == h - synced > SyncLimit
           from == IF limited THEN h - SyncLimit + 1 ELSE synced + 1
           known == {e \in from .. h : index[e] # NoTl}
           reset == limited /\ known = {}
           first == IF limited /\ known # {} THEN Max(known) ELSE from
           fwd == IF entire THEN None ELSE synced
           base == IF reset THEN resetLiveTimeline(from - 1, fwd) ELSE Current
           es == [k \in 1 .. h - first + 1 |-> first + k - 1]
           st == addLiveEvents(base, es)
<1>3. /\ tls' = st.tls /\ live' = st.live /\ oldest' = st.oldest /\ index' = st.index /\ synced' = h
      /\ upset' = (IF st.skipped THEN upset \cup {"skipped"} ELSE upset)
      /\ head' = head /\ style' = style /\ requests' = requests /\ loading' = loading /\ window' = window
      /\ echo' = echo /\ plan' = plan
  BY <1>2 DEF Current
<1>4. /\ synced \in Event /\ head \in Event /\ h \in Event /\ h <= head /\ synced < h /\ synced \in Int /\ h \in Int
      /\ SyncLimit \in Nat \ {0} /\ limited \in BOOLEAN
  <2>1. synced \in Event /\ head \in Event /\ SyncLimit \in Nat \ {0}
    BY <1>1, StateFacts, TimelinesAssumption
  <2>2. synced \in Int /\ head \in Int /\ 1 <= synced /\ head <= MaxHead /\ MaxHead \in Int
    BY <2>1, TimelinesAssumption DEF Event
  <2> QED BY <2>1, <2>2 DEF Event
<1>5. from \in Event /\ from <= h /\ from \in Int /\ (~limited => from = synced + 1)
  <2>1. from \in Int /\ synced < from /\ from <= h
    BY <1>4
  <2> HIDE DEF from
  <2>2. from \in Event
    BY <1>4, <2>1, EventTypes DEF Event
  <2>3. ~limited => from = synced + 1
    BY DEF from
  <2> QED BY <2>1, <2>2, <2>3
<1> HIDE DEF from, limited
<1>6. /\ first \in Event /\ from <= first /\ first <= h
      /\ ~limited => first = synced + 1
      /\ limited /\ known # {} => index[first] # NoTl
      /\ reset => first = from /\ index[from] = NoTl
  <2>1. CASE limited /\ known # {}
    <3>1. known \subseteq 1 .. h /\ h \in Nat
      BY <1>4, <1>5 DEF Event
    <3>2. PICK k \in known : \A j \in known : j <= k
      <4> HIDE DEF known
      <4> QED BY <2>1, <3>1, Greatest
    <3>3. Max(known) \in known
      <4>1. \A j \in known : k >= j
        BY <3>1, <3>2
      <4> HIDE DEF known
      <4> QED BY <3>2, <4>1 DEF Max
    <3>4. first = Max(known)
      BY <2>1
    <3>5. first \in from .. h /\ index[first] # NoTl
      <4> HIDE DEF first
      <4> QED BY <3>3, <3>4
    <3> HIDE DEF first
    <3>6. first \in Event /\ from <= first /\ first <= h
      BY <1>4, <1>5, <3>5, EventTypes DEF Event
    <3> QED BY <2>1, <3>5, <3>6
  <2>2. CASE ~(limited /\ known # {})
    <3>1. first = from
      BY <2>2
    <3>2. reset => index[from] = NoTl
      <4>1. from \in from .. h
        BY <1>4, <1>5
      <4> QED BY <4>1
    <3> HIDE DEF first
    <3> QED BY <1>4, <1>5, <2>2, <3>1, <3>2 DEF Event
  <2> QED BY <2>1, <2>2
<1>7. IsPage(es, "f") /\ es # <<>> /\ es[1] = first /\ es[Len(es)] = h
  <2>1. FromTo(es, first, h)
    BY DEF FromTo
  <2>2. first \in Event /\ first <= h /\ h \in Event
    BY <1>4, <1>6
  <2> HIDE DEF es, first
  <2> QED BY <2>1, <2>2, SyncPage
<1>8. Received(st, h)
  <2>1. CASE reset
    <3>1. first = from /\ index[from] = NoTl /\ base = resetLiveTimeline(from - 1, fwd) /\ fwd \in {None, synced}
      BY <1>6, <2>1
    <3>2. es[1] = from
      BY <1>7, <3>1
    <3> HIDE DEF es, first, base, fwd, reset, known
    <3>3. Received(addLiveEvents(resetLiveTimeline(es[1] - 1, fwd), es), es[Len(es)])
      BY <1>1, <1>7, <3>1, <3>2, ResetReceived
    <3> QED BY <1>7, <3>1, <3>2, <3>3
  <2>2. CASE ~reset
    <3>1. base = Current
      BY <2>2
    <3>2. WholeInv => LiveNear(Current, first)
      <4> SUFFICES ASSUME WholeInv PROVE LiveNear(Current, first)
        OBVIOUS
      <4>1. CASE limited
        <5>1. index[first] # NoTl
          BY <1>6, <2>2, <4>1
        <5> HIDE DEF first
        <5> QED BY <5>1 DEF LiveNear, Current
      <4>2. CASE ~limited
        <5>1. first - 1 = synced /\ index[synced] = live
          BY <1>4, <1>6, <4>2 DEF WholeInv
        <5> HIDE DEF first
        <5> QED BY <1>4, <5>1 DEF LiveNear, Current, Beside
      <4> QED BY <4>1, <4>2
    <3> HIDE DEF es, first, base, reset, known
    <3>3. Received(addLiveEvents(Current, es), es[Len(es)])
      BY <1>1, <1>7, <3>2, StaysReceived
    <3> QED BY <1>7, <3>1, <3>3
  <2> QED BY <2>1, <2>2
<1> HIDE DEF st
<1>9. /\ LiveOk(st) /\ Filled(st.tls, NoTl) /\ Typed(st.tls, st.index) /\ st.live \in DOMAIN st.tls
      /\ Len(tls) <= Len(st.tls) /\ st.oldest \in 1 .. st.live /\ live <= st.live
      /\ WholeInv /\ ~st.skipped =>
           /\ Sound(st.tls, st.index, st.oldest, st.live, NoTl)
           /\ \A j \in 1 .. st.oldest - 1 : Run(st.tls[j].evs)
           /\ RequestsStand(requests, st.index, st.oldest, st.live)
           /\ st.index[h] = st.live
           /\ style = "scrollback" => st.oldest = Len(st.tls)
  BY <1>8 DEF Received, LiveOk
<1>10. TypeInv'
  <2>1. /\ Len(tls) \in Nat /\ Len(st.tls) \in Nat /\ live \in Nat /\ st.live \in Nat
    BY <1>1, <1>9, StateFacts, TypedFacts
  <2>2. RequestsType(requests, Len(tls), live) /\ WindowType(window, Len(tls))
    BY <1>1 DEF TypeInv
  <2>3. RequestsType(requests, Len(st.tls), st.live)
    BY <1>9, <2>1, <2>2, RequestsMore
  <2>4. WindowType(window, Len(st.tls))
    BY <1>9, <2>1, <2>2, WindowMore
  <2>5. /\ Typed(tls, index)' /\ Filled(tls, NoTl)' /\ RequestsType(requests, Len(tls), live)'
        /\ WindowType(window, Len(tls))'
    BY <1>3, <1>9, <2>3, <2>4
  <2>6. upset' \subseteq {"skipped", "refused", "forgotten", "overtaken", "removed"}
    BY <1>1, <1>3 DEF TypeInv
  <2>7. LoadingOk' /\ (\A r \in requests : r.tl = NoTl => style = "scrollback")'
    BY <1>1, <1>3 DEF TypeInv, LoadingOk
  <2> QED BY <1>1, <1>3, <1>4, <1>9, <2>5, <2>6, <2>7 DEF TypeInv, LoadingOk
<1>11. ASSUME ~Torn' PROVE WholeInv'
  <2>1. WholeInv /\ ~st.skipped
    <3>1. upset \subseteq upset' /\ (st.skipped => "skipped" \in upset')
      BY <1>3
    <3>2. upset' \subseteq {"removed"}
      BY <1>11 DEF Torn
    <3> QED BY <1>1, <3>1, <3>2 DEF Torn
  <2>2. /\ Sound(tls, index, oldest, live, NoTl)' /\ RequestsStand(requests, index, oldest, live)'
        /\ (\A j \in 1 .. oldest - 1 : Run(tls[j].evs))' /\ (index[synced] = live)'
        /\ (style = "scrollback" => oldest = Len(tls))'
    BY <1>3, <1>9, <2>1
  <2> QED BY <2>2 DEF WholeInv
<1> QED BY <1>10, <1>11 DEF TimelinesInv

-----------------------------------------------------------------------------
(* Every step.                                                             *)

\* A client that joins has the newest event.
LEMMA InitInv == TimelinesInit => TimelinesInv
<1> SUFFICES ASSUME TimelinesInit PROVE TimelinesInv
  OBVIOUS
<1> DEFINE tl == setPaginationToken(Tl(<<Start>>), Start - 1, "b")
           ix == [e \in Id |-> IF e = Start THEN 1 ELSE NoTl]
           none == [e \in Id |-> NoTl]
<1>1. /\ Start \in Event /\ Start \in Id /\ Start \in Nat /\ Start - 1 \in 0 .. MaxHead /\ Start - 1 \in Token
      /\ Start - 1 # None /\ NoTl = 0 /\ None \in Token /\ "b" \in Dir /\ "f" \in Dir
  BY TimelinesAssumption, EventTypes DEF Event, Token, None, NoTl, Dir
<1>2. /\ head = Start /\ synced = Start /\ style \in {"scrollback", "timelines"} /\ tls = <<tl>> /\ oldest = 1 /\ live = 1
      /\ index = ix /\ requests = {} /\ loading = {} /\ window = NoWindow /\ echo = FALSE /\ plan \in Plans /\ upset = {}
  BY DEF TimelinesInit
<1>3. /\ tl.evs = <<Start>> /\ tl.base = 0 /\ \A d \in Dir : tl.next[d] = NoTl
      /\ tl.token["b"] = Start - 1 /\ tl.token["f"] = None /\ tl \in Timeline(1)
  <2> DEFINE f == Tl(<<Start>>)
  <2>1. /\ f = [evs |-> f.evs, base |-> f.base, token |-> f.token, next |-> f.next]
        /\ f.evs = <<Start>> /\ f.base = 0 /\ f.token = [d \in Dir |-> None] /\ f.next = [d \in Dir |-> NoTl]
    BY DEF Tl
  <2> HIDE DEF f, tl
  <2>2. f.evs \in Seq(Id) /\ f.base \in Nat /\ f.token \in [Dir -> Token] /\ f.next \in [Dir -> 0 .. 1]
    BY <1>1, <2>1
  <2>3. f \in Timeline(1)
    BY <2>1, <2>2 DEF Timeline
  <2>4. /\ tl \in Timeline(1) /\ tl.evs = f.evs /\ tl.base = f.base /\ tl.next = f.next
        /\ tl.token = [f.token EXCEPT !["b"] = Start - 1]
    BY <1>1, <2>3, TokenIs DEF tl, f
  <2> QED BY <1>1, <2>1, <2>4 DEF Dir
<1> HIDE DEF tl, ix, none
<1> DEFINE ts == <<tl>>
<1>4. ts \in Seq(Timeline(1)) /\ Len(ts) = 1 /\ DOMAIN ts = {1} /\ 1 .. 1 = {1} /\ ts[1] = tl
  BY <1>3
<1> HIDE DEF ts
<1>5. Holds(ts, 1, Start) /\ Len(tl.evs) = 1
  BY <1>3, <1>4 DEF Holds, In
<1>6. ix \in [Id -> 0 .. 1] /\ ix[Start] = 1 /\ \A e \in Id : ix[e] # NoTl => e = Start
  <2>1. ix = [e \in Id |-> IF e = Start THEN 1 ELSE 0]
    BY <1>1 DEF ix
  <2> QED BY <1>1, <2>1
<1>7. Typed(ts, ix)
  <2>1. \A j \in 1 .. 1 : ts[j].base <= Len(ts[j].evs)
    BY <1>3, <1>4, <1>5
  <2>2. \A e \in Id : ix[e] # NoTl => Holds(ts, ix[e], e)
    BY <1>5, <1>6
  <2> QED BY <1>4, <1>6, <2>1, <2>2, TypedFrom
<1>8. Filled(ts, NoTl)
  BY <1>1, <1>4, <1>5 DEF Filled
<1>9. Sound(ts, ix, 1, 1, NoTl)
  <2> DEFINE old == <<>>
  <2>1. none = [e \in Id |-> 0] /\ none \in [Id -> 0 .. 0] /\ \A e \in Id : none[e] = 0
    BY <1>1 DEF none
  <2>2. Len(old) = 0 /\ old \in Seq(Timeline(0)) /\ 1 .. 0 = {} /\ DOMAIN old = {}
    OBVIOUS
  <2> HIDE DEF old
  <2>3. Typed(old, none)
    BY <1>1, <2>1, <2>2, TypedFrom
  <2>4. Sound(old, none, 1, 1, NoTl)
    <3>1. \A e \in Event : none[e] = NoTl
      BY <1>1, <2>1, EventTypes
    <3> QED BY <2>2, <3>1 DEF Sound, Apart, LinkedOk, EndsOk
  <2>5. OneMore(old, none, Start, ts, ix)
    <3>1. ix = [none EXCEPT ![Start] = 1]
      BY <1>1, <2>1 DEF ix
    <3>2. Len(old) + 1 = 1
      BY <2>2
    <3>3. \A d \in Dir : ts[1].next[d] = NoTl /\ ts[1].token[d] \in {None, Start - 1, Start}
      BY <1>3, <1>4 DEF Dir
    <3> QED BY <1>3, <1>4, <2>2, <3>1, <3>2, <3>3 DEF OneMore
  <2>6. /\ Len(old) + 1 # NoTl /\ ts[Len(old) + 1].token["b"] = None => Start = 1
        /\ ts[Len(old) + 1].token["f"] = None <=> Len(old) + 1 = 1
        /\ 1 \in 1 .. Len(old) + 1
    BY <1>1, <1>3, <1>4, <2>2
  <2>7. none[Start] = NoTl
    BY <1>1, <2>1
  <2> QED BY <1>1, <2>3, <2>4, <2>5, <2>6, <2>7, NewSound
<1>10. tls = ts
  BY <1>2 DEF ts
<1>11. TypeInv
  <2>1. plan.head \in Start .. MaxHead
    BY <1>2, TimelinesAssumption
  <2>2. RequestsType(requests, Len(tls), live) /\ WindowType(window, Len(tls))
    BY <1>2 DEF RequestsType, WindowType
  <2>3. head <= plan.head /\ synced <= head
    BY <1>1, <1>2, <2>1
  <2>4. live \in DOMAIN tls /\ oldest \in 1 .. live
    BY <1>2, <1>4, <1>10
  <2>5. Typed(tls, index) /\ Filled(tls, NoTl)
    BY <1>2, <1>7, <1>8, <1>10
  <2> QED BY <1>1, <1>2, <2>2, <2>3, <2>4, <2>5 DEF TypeInv
<1>12. WholeInv
  <2>1. Sound(tls, index, oldest, live, NoTl) /\ index[synced] = live /\ oldest = Len(tls)
    BY <1>2, <1>4, <1>6, <1>9, <1>10
  <2>2. \A j \in 1 .. oldest - 1 : Run(tls[j].evs)
    BY <1>2
  <2>3. RequestsStand(requests, index, oldest, live)
    BY <1>2 DEF RequestsStand
  <2> QED BY <2>1, <2>2, <2>3 DEF WholeInv
<1> QED BY <1>11, <1>12 DEF TimelinesInv

\* Every step keeps the invariant.
LEMMA NextInv == TimelinesInv /\ [TimelinesNext]_tlVars => TimelinesInv'
<1> SUFFICES ASSUME TimelinesInv, [TimelinesNext]_tlVars PROVE TimelinesInv'
  OBVIOUS
<1>1. CASE ServerEvent
  BY <1>1, ServerEventKeeps
<1>2. CASE processSync
  BY <1>2, SyncKeeps
<1>3. ASSUME NEW i \in DOMAIN tls, NEW d \in Dir, paginateEventTimeline(i, d) PROVE TimelinesInv'
  BY <1>3, PaginateKeeps
<1>4. ASSUME NEW r \in requests, onMessages(r) PROVE TimelinesInv'
  BY <1>4, MessagesKeep
<1>5. CASE scrollback
  BY <1>5, ScrollbackKeeps
<1>6. ASSUME NEW r \in requests, onScrollback(r) PROVE TimelinesInv'
  BY <1>6, AnswerKeeps
<1>7. ASSUME NEW r \in requests, requestFails(r) PROVE TimelinesInv'
  BY <1>7, FailKeeps
<1>8. CASE loadLive
  BY <1>8, LoadLiveKeeps
<1>9. ASSUME NEW e \in Event, load(e) PROVE TimelinesInv'
  BY <1>9, LoadKeeps
<1>10. ASSUME NEW l \in loading, onContext(l) PROVE TimelinesInv'
  BY <1>10, ContextKeeps
<1>11. ASSUME NEW d \in Dir, windowPaginate(d) PROVE TimelinesInv'
  BY <1>11, WindowPaginateKeeps
<1>12. ASSUME NEW b \in BOOLEAN, windowUnpaginate(b) PROVE TimelinesInv'
  BY <1>12, WindowUnpaginateKeeps
<1>13. CASE addPendingEvent
  BY <1>13, EchoKeeps
<1>14. CASE removeEvent
  BY <1>14, RemoveKeeps
<1>15. CASE UNCHANGED tlVars
  <2>1. /\ head' = head /\ synced' = synced /\ style' = style /\ tls' = tls /\ oldest' = oldest /\ live' = live
        /\ index' = index /\ requests' = requests /\ loading' = loading /\ window' = window /\ echo' = echo
        /\ plan' = plan /\ used' = used /\ upset' = upset
    BY <1>15 DEF tlVars
  <2>2. TypeInv' = TypeInv
    BY <2>1 DEF TypeInv
  <2>3. WholeInv' = WholeInv /\ Torn' = Torn
    BY <2>1 DEF WholeInv, Torn
  <2> QED BY <2>2, <2>3 DEF TimelinesInv
<1> QED BY <1>1, <1>2, <1>3, <1>4, <1>5, <1>6, <1>7, <1>8, <1>9, <1>10, <1>11, <1>12, <1>13, <1>14, <1>15 DEF TimelinesNext

-----------------------------------------------------------------------------
(* What the invariant says of the ends of the timelines and of the order.  *)

\* Timeline j begins where timeline i ends, with event x.
MeetAt(ix, i, j, x) ==
  /\ x \in Event /\ x + 1 \in Event /\ ix[x] = i /\ ix[x + 1] = j
  /\ \A a \in Event : (ix[a] = i => a <= x) /\ (ix[a] = j => a >= x + 1)

\* Neighbours meet.
LEMMA NeighboursMeet ==
  ASSUME NEW ts, NEW ix, Typed(ts, ix), NEW o \in Nat \ {0}, Apart(ts, ix, o), LinkedOk(ts, ix, o),
         NEW j \in o .. Len(ts), NEW d \in Dir, NEW k, k = ts[j].next[d], k # NoTl
  PROVE  /\ k \in o .. Len(ts)
         /\ \E x : IF d = "f" THEN MeetAt(ix, j, k, x) ELSE MeetAt(ix, k, j, x)
<1>1. /\ Len(ts) \in Nat /\ j \in 1 .. Len(ts) /\ ts[j] \in Timeline(Len(ts)) /\ NoTl = 0
      /\ Event \subseteq Int /\ j # NoTl
  BY TypedFacts, EventTypes DEF NoTl
<1>2. k \in 0 .. Len(ts)
  BY <1>1 DEF Timeline
<1>3. k >= o /\ j # k /\ ts[k].next[Opposite(d)] = j /\ k \in o .. Len(ts)
  BY <1>1, <1>2 DEF LinkedOk
<1>4. ASSUME NEW p \in {j, k}, NEW q \in {j, k}, p # q, NEW x \in Event, x + 1 \in Event, ix[x] = p, ix[x + 1] = q
      PROVE  MeetAt(ix, p, q, x)
  <2>1. p # NoTl /\ q # NoTl
    BY <1>1, <1>4
  <2>2. \A a, b, y \in Event : a <= y /\ y <= b /\ ix[a] # NoTl /\ ix[a] = ix[b] => ix[y] = ix[a]
    BY DEF Apart
  <2>3. ASSUME NEW a \in Event, ix[a] = p PROVE a <= x
    <3> SUFFICES ASSUME a >= x + 1 PROVE FALSE
      BY <1>1
    <3>1. x <= x + 1
      BY <1>1
    <3>2. ix[x + 1] = ix[x]
      BY <1>4, <2>1, <2>2, <2>3, <3>1
    <3> QED BY <1>4, <3>2
  <2>4. ASSUME NEW a \in Event, ix[a] = q PROVE a >= x + 1
    <3> SUFFICES ASSUME a <= x PROVE FALSE
      BY <1>1
    <3>1. x <= x + 1
      BY <1>1
    <3>2. ix[x] = ix[a]
      BY <1>4, <2>1, <2>2, <2>4, <3>1
    <3> QED BY <1>4, <2>4, <3>2
  <2> QED BY <1>4, <2>3, <2>4 DEF MeetAt
<1>5. CASE d = "f"
  <2>1. PICK x \in Event : x + 1 \in Event /\ ix[x] = j /\ ix[x + 1] = k
    BY <1>5 DEF LinkedOk
  <2>2. MeetAt(ix, j, k, x)
    BY <1>3, <1>4, <2>1
  <2> QED BY <1>3, <1>5, <2>2
<1>6. CASE d = "b"
  <2>1. ts[k].next["f"] = j /\ "f" \in Dir
    BY <1>3, <1>6 DEF Opposite, Dir
  <2>2. PICK x \in Event : x + 1 \in Event /\ ix[x] = k /\ ix[x + 1] = j
    BY <1>1, <1>3, <2>1 DEF LinkedOk
  <2>3. MeetAt(ix, k, j, x)
    BY <1>3, <1>4, <2>2
  <2> QED BY <1>3, <1>6, <2>3
<1> QED BY <1>5, <1>6 DEF Dir

\* What stands of a timeline that is not forgotten.
LEMMA ShownIs ==
  ASSUME TypeInv, Apart(tls, index, oldest), NEW i \in oldest .. Len(tls)
  PROVE  /\ \A e \in Event : e \in Shown(i) <=> index[e] = i
         /\ Shown(i) \subseteq Event
         /\ Min(Shown(i)) \in Shown(i) /\ \A e \in Shown(i) : Min(Shown(i)) <= e
         /\ Max(Shown(i)) \in Shown(i) /\ \A e \in Shown(i) : e <= Max(Shown(i))
<1>1. /\ Typed(tls, index) /\ Len(tls) \in Nat /\ i \in 1 .. Len(tls) /\ i \in DOMAIN tls /\ i # NoTl
      /\ tls[i] \in Timeline(Len(tls)) /\ Echo \notin Event /\ \A x \in Id : x # Echo => x \in Event
  BY StateFacts, TypedFacts, EventTypes
<1>2. \A k \in DOMAIN tls[i].evs : tls[i].evs[k] \in Id
  BY <1>1 DEF Timeline
<1>3. \A e \in Event : e \in Shown(i) <=> Holds(tls, i, e)
  BY <1>1 DEF Shown, Holds, In
<1>4. Shown(i) \subseteq Event
  BY <1>1, <1>2 DEF Shown
<1>5. \A e \in Event : Holds(tls, i, e) <=> index[e] = i
  BY <1>1, TypedFacts, EventTypes DEF Apart
<1>6. Shown(i) # {}
  <2>1. PICK e \in Event : Holds(tls, i, e)
    BY <1>1 DEF TypeInv, Filled
  <2> QED BY <1>3, <2>1
<1> DEFINE S == Shown(i)
<1>7. S \subseteq 1 .. MaxHead /\ S # {} /\ MaxHead \in Nat /\ S \subseteq Int
  BY <1>4, <1>6, EventTypes DEF Event
<1> HIDE DEF S
<1>8. Min(S) \in S /\ \A e \in S : Min(S) <= e
  <2>1. PICK k \in S : \A j \in S : k <= j
    BY <1>7, Least
  <2> QED BY <2>1 DEF Min
<1>9. Max(S) \in S /\ \A e \in S : e <= Max(S)
  <2>1. PICK k \in S : \A j \in S : j <= k
    BY <1>7, Greatest
  <2>2. \A j \in S : k >= j
    BY <1>7, <2>1
  <2>3. Max(S) \in S /\ \A e \in S : Max(S) >= e
    BY <2>2 DEF Max
  <2> QED BY <1>7, <2>3
<1> QED BY <1>3, <1>4, <1>5, <1>8, <1>9 DEF S

\* What the property says of both ends of a timeline.
EndsMeet(i) ==
  LET first == Min(Shown(i))
      last  == Max(Shown(i))
  IN
  /\ IF tls[i].next["b"] # NoTl THEN first = Max(Shown(tls[i].next["b"])) + 1
     ELSE IF tls[i].token["b"] # None THEN tls[i].token["b"] >= first - 1
     ELSE first = 1
  /\ IF tls[i].next["f"] # NoTl THEN last = Min(Shown(tls[i].next["f"])) - 1
     ELSE IF i = live THEN last >= synced
     ELSE tls[i].token["f"] # None /\ tls[i].token["f"] <= last

\* It holds.
LEMMA EndsAre ==
  ASSUME TypeInv, WholeInv, NEW i \in oldest .. Len(tls)
  PROVE  EndsMeet(i)
<1> DEFINE first == Min(Shown(i))
           last  == Max(Shown(i))
           tl == tls[i]
<1>1. /\ Apart(tls, index, oldest) /\ LinkedOk(tls, index, oldest) /\ EndsOk(tls, index, oldest, live, NoTl)
      /\ index[synced] = live
  BY DEF WholeInv, Sound
<1>2. /\ Typed(tls, index) /\ oldest \in Nat \ {0} /\ synced \in Event /\ "b" \in Dir /\ "f" \in Dir /\ i # NoTl
      /\ Event \subseteq Int /\ 1 \in Event /\ NoTl = 0 /\ i \in 1 .. Len(tls) /\ tl \in Timeline(Len(tls))
      /\ Len(tls) \in Nat
  BY StateFacts, EventTypes, TypedFacts DEF Dir
<1>3. /\ \A e \in Event : e \in Shown(i) <=> index[e] = i
      /\ Shown(i) \subseteq Event
      /\ first \in Shown(i) /\ \A e \in Shown(i) : first <= e
      /\ last \in Shown(i) /\ \A e \in Shown(i) : e <= last
  BY <1>1, ShownIs
<1>4. first \in Event /\ last \in Event /\ first \in Int /\ last \in Int /\ index[first] = i /\ index[last] = i
  BY <1>2, <1>3
<1> HIDE DEF first, last
<1>5. ASSUME NEW d \in Dir, NEW k, k = tl.next[d], k # NoTl
      PROVE  IF d = "f" THEN last = Min(Shown(k)) - 1 ELSE first = Max(Shown(k)) + 1
  <2>1. /\ k \in oldest .. Len(tls)
        /\ \E x : IF d = "f" THEN MeetAt(index, i, k, x) ELSE MeetAt(index, k, i, x)
    BY <1>1, <1>2, <1>5, NeighboursMeet
  <2>2. PICK x : IF d = "f" THEN MeetAt(index, i, k, x) ELSE MeetAt(index, k, i, x)
    BY <2>1
  <2> DEFINE kmin == Min(Shown(k))
             kmax == Max(Shown(k))
  <2>3. /\ \A e \in Event : e \in Shown(k) <=> index[e] = k
        /\ Shown(k) \subseteq Event
        /\ kmin \in Shown(k) /\ \A e \in Shown(k) : kmin <= e
        /\ kmax \in Shown(k) /\ \A e \in Shown(k) : e <= kmax
    BY <1>1, <2>1, ShownIs
  <2> HIDE DEF kmin, kmax
  <2>4. kmin \in Int /\ kmax \in Int /\ kmin \in Event /\ kmax \in Event /\ index[kmin] = k /\ index[kmax] = k
    BY <1>2, <2>3
  <2>5. CASE d = "f"
    <3>1. /\ x \in Event /\ x + 1 \in Event /\ index[x] = i /\ index[x + 1] = k
          /\ \A a \in Event : (index[a] = i => a <= x) /\ (index[a] = k => a >= x + 1)
      BY <2>2, <2>5 DEF MeetAt
    <3>2. last <= x /\ x <= last /\ kmin >= x + 1 /\ kmin <= x + 1
      BY <1>3, <1>4, <2>3, <2>4, <3>1
    <3>3. last = kmin - 1
      BY <1>2, <1>4, <2>4, <3>1, <3>2
    <3> QED BY <2>5, <3>3 DEF kmin
  <2>6. CASE d # "f"
    <3>1. /\ x \in Event /\ x + 1 \in Event /\ index[x] = k /\ index[x + 1] = i
          /\ \A a \in Event : (index[a] = k => a <= x) /\ (index[a] = i => a >= x + 1)
      BY <2>2, <2>6 DEF MeetAt
    <3>2. kmax <= x /\ x <= kmax /\ first >= x + 1 /\ first <= x + 1
      BY <1>3, <1>4, <2>3, <2>4, <3>1
    <3>3. first = kmax + 1
      BY <1>2, <1>4, <2>4, <3>1, <3>2
    <3> QED BY <2>6, <3>3 DEF kmax
  <2> QED BY <2>5, <2>6
<1>6. ASSUME NEW d \in Dir, tl.token[d] # None PROVE tl.token[d] >= first - 1 /\ tl.token[d] <= last
  <2>1. PICK e \in Event : index[e] = i /\ e \in {tl.token[d], tl.token[d] + 1}
    BY <1>1, <1>6 DEF EndsOk, Stands
  <2>2. first <= e /\ e <= last /\ e \in Int
    BY <1>2, <1>3, <2>1
  <2>3. tl.token[d] \in Int
    BY <1>2, <1>6, EventTypes DEF Timeline, Token
  <2> QED BY <1>4, <2>1, <2>2, <2>3
<1>7. IF tl.next["b"] # NoTl THEN first = Max(Shown(tl.next["b"])) + 1
      ELSE IF tl.token["b"] # None THEN tl.token["b"] >= first - 1
      ELSE first = 1
  <2>1. CASE tl.next["b"] # NoTl
    <3>1. ("b" = "f") = FALSE
      OBVIOUS
    <3> QED BY <1>2, <1>5, <2>1, <3>1
  <2>2. CASE tl.next["b"] = NoTl /\ tl.token["b"] # None
    BY <1>2, <1>6, <2>2
  <2>3. CASE tl.next["b"] = NoTl /\ tl.token["b"] = None
    <3>1. index[1] = i
      BY <1>1, <1>2, <2>3 DEF EndsOk
    <3>2. first <= 1
      BY <1>2, <1>3, <3>1
    <3>3. first >= 1
      BY <1>4 DEF Event
    <3> QED BY <1>4, <2>3, <3>2, <3>3
  <2> QED BY <2>1, <2>2, <2>3
<1>8. IF tl.next["f"] # NoTl THEN last = Min(Shown(tl.next["f"])) - 1
      ELSE IF i = live THEN last >= synced
      ELSE tl.token["f"] # None /\ tl.token["f"] <= last
  <2>1. CASE tl.next["f"] # NoTl
    BY <1>2, <1>5, <2>1
  <2>2. CASE tl.next["f"] = NoTl /\ i = live
    <3>1. synced <= last
      BY <1>1, <1>2, <1>3, <2>2
    <3> QED BY <1>2, <1>4, <2>2, <3>1
  <2>3. CASE tl.next["f"] = NoTl /\ i # live
    <3>1. tl.token["f"] # None
      BY <1>1, <1>2, <2>3 DEF EndsOk
    <3> QED BY <1>2, <1>6, <2>3, <3>1
  <2> QED BY <2>1, <2>2, <2>3
<1> QED BY <1>7, <1>8 DEF EndsMeet, first, last

\* The walk along the links.
Step(d, s) == s \cup ({tls[j].next[d] : j \in s} \ {NoTl})

ReachOf(i, d, n, g) == [k \in 0 .. n |-> IF k = 0 THEN {i} ELSE Step(d, g[k - 1])]

\* There is a function with the equation of the walk.
LEMMA ReachExists ==
  ASSUME NEW i, NEW d, NEW n \in Nat
  PROVE  \E g : g = ReachOf(i, d, n, g)
<1> DEFINE T == {m \in Nat : \E g : g = ReachOf(i, d, m, g)}
<1>1. 0 \in T
  <2> DEFINE g == [k \in 0 .. 0 |-> {i}]
  <2>1. \A k \in 0 .. 0 : ReachOf(i, d, 0, g)[k] = {i}
    BY DEF ReachOf
  <2>2. ReachOf(i, d, 0, g) = [k \in 0 .. 0 |-> ReachOf(i, d, 0, g)[k]]
    BY DEF ReachOf
  <2>3. g = ReachOf(i, d, 0, g)
    BY <2>1, <2>2
  <2> QED BY <2>3
<1>2. ASSUME NEW m \in 0 .. n, m \in T, m < n PROVE m + 1 \in T
  <2>1. PICK g : g = ReachOf(i, d, m, g)
    BY <1>2
  <2> DEFINE last == Step(d, g[m])
             h == [k \in 0 .. m + 1 |-> IF k <= m THEN g[k] ELSE last]
  <2>2. ASSUME NEW k \in 0 .. m + 1 PROVE h[k] = ReachOf(i, d, m + 1, h)[k]
    <3>1. ReachOf(i, d, m + 1, h)[k] = IF k = 0 THEN {i} ELSE Step(d, h[k - 1])
      BY DEF ReachOf
    <3>2. CASE k <= m
      <4>1. h[k] = g[k]
        BY <3>2
      <4>2. g[k] = IF k = 0 THEN {i} ELSE Step(d, g[k - 1])
        <5>1. k \in 0 .. m
          BY <3>2
        <5>2. ReachOf(i, d, m, g)[k] = IF k = 0 THEN {i} ELSE Step(d, g[k - 1])
          BY <5>1 DEF ReachOf
        <5> QED BY <2>1, <5>2
      <4>3. k = 0 \/ h[k - 1] = g[k - 1]
        BY <3>2
      <4> HIDE DEF h
      <4> QED BY <3>1, <4>1, <4>2, <4>3
    <3>3. CASE k = m + 1
      <4>1. h[k] = last /\ h[k - 1] = g[m] /\ k # 0
        BY <3>3
      <4> HIDE DEF h
      <4> QED BY <3>1, <3>3, <4>1
    <3> QED BY <3>2, <3>3
  <2>3. ReachOf(i, d, m + 1, h) = [k \in 0 .. m + 1 |-> ReachOf(i, d, m + 1, h)[k]]
    BY DEF ReachOf
  <2>4. h = [k \in 0 .. m + 1 |-> h[k]]
    OBVIOUS
  <2>5. h = ReachOf(i, d, m + 1, h)
    <3> HIDE DEF h
    <3> QED BY <2>2, <2>3, <2>4
  <2> HIDE DEF h
  <2> QED BY <2>5
<1>3. n \in T
  <2> HIDE DEF T
  <2> QED BY <1>1, <1>2, UpFromZero
<1> QED BY <1>3

\* The events of timeline j come after those of timeline i, or before them.
Passes(i, j, d) ==
  \A a, b \in Event : index[a] = i /\ index[b] = j => IF d = "f" THEN a < b ELSE b < a

Reached(i, d) == {j \in oldest .. Len(tls) : j = i \/ Passes(i, j, d)}

\* One step of the walk.
LEMMA StepPasses ==
  ASSUME TypeInv, WholeInv, NEW i, NEW d \in Dir, NEW j \in Reached(i, d), tls[j].next[d] # NoTl
  PROVE  tls[j].next[d] \in Reached(i, d)
<1> DEFINE k == tls[j].next[d]
<1>1. /\ Apart(tls, index, oldest) /\ LinkedOk(tls, index, oldest)
      /\ Typed(tls, index) /\ oldest \in Nat \ {0} /\ Event \subseteq Int /\ NoTl = 0
  BY StateFacts, EventTypes DEF WholeInv, Sound
<1>2. j \in oldest .. Len(tls) /\ (j = i \/ Passes(i, j, d))
  BY DEF Reached
<1>3. k \in oldest .. Len(tls) /\ \E x : IF d = "f" THEN MeetAt(index, j, k, x) ELSE MeetAt(index, k, j, x)
  BY <1>1, <1>2, NeighboursMeet
<1>4. PICK x : IF d = "f" THEN MeetAt(index, j, k, x) ELSE MeetAt(index, k, j, x)
  BY <1>3
<1> HIDE DEF k
<1>5. ASSUME k # i PROVE Passes(i, k, d)
  <2> SUFFICES ASSUME NEW a \in Event, NEW b \in Event, index[a] = i, index[b] = k
               PROVE  IF d = "f" THEN a < b ELSE b < a
    BY DEF Passes
  <2>1. CASE d = "f"
    <3>1. /\ x \in Event /\ x + 1 \in Event /\ index[x] = j
          /\ \A c \in Event : (index[c] = j => c <= x) /\ (index[c] = k => c >= x + 1)
      BY <1>4, <2>1 DEF MeetAt
    <3>2. a <= x
      <4>1. CASE j = i
        BY <3>1, <4>1
      <4>2. CASE Passes(i, j, d)
        <5>1. a < x
          BY <2>1, <3>1, <4>2 DEF Passes
        <5> QED BY <1>1, <3>1, <5>1
      <4> QED BY <1>2, <4>1, <4>2
    <3>3. b >= x + 1
      BY <3>1
    <3> QED BY <1>1, <2>1, <3>1, <3>2, <3>3
  <2>2. CASE d # "f"
    <3>1. /\ x \in Event /\ x + 1 \in Event /\ index[x + 1] = j
          /\ \A c \in Event : (index[c] = k => c <= x) /\ (index[c] = j => c >= x + 1)
      BY <1>4, <2>2 DEF MeetAt
    <3>2. a >= x + 1
      <4>1. CASE j = i
        BY <3>1, <4>1
      <4>2. CASE Passes(i, j, d)
        <5>1. x + 1 < a
          BY <2>2, <3>1, <4>2 DEF Passes
        <5> QED BY <1>1, <3>1, <5>1
      <4> QED BY <1>2, <4>1, <4>2
    <3>3. b <= x
      BY <3>1
    <3> QED BY <1>1, <2>2, <3>1, <3>2, <3>3
  <2> QED BY <2>1, <2>2
<1> QED BY <1>3, <1>5 DEF Reached, k

\* So the walk stays on its side.
LEMMA AlongPasses ==
  ASSUME TypeInv, WholeInv, NEW i \in oldest .. Len(tls), NEW d \in Dir
  PROVE  Along(i, d) \subseteq Reached(i, d)
<1> DEFINE n == Len(tls)
<1>1. n \in Nat
  BY StateFacts
<1>2. PICK h : h = ReachOf(i, d, n, h)
  <2> HIDE DEF n
  <2> QED BY <1>1, ReachExists
<1>3. PICK g : g = ReachOf(i, d, n, g) /\ Along(i, d) = g[n]
  BY <1>2, Zenon DEF Along, ReachOf, Step
<1> HIDE DEF n
<1>4. ASSUME NEW k \in 0 .. n PROVE g[k] = IF k = 0 THEN {i} ELSE Step(d, g[k - 1])
  <2>1. ReachOf(i, d, n, g)[k] = IF k = 0 THEN {i} ELSE Step(d, g[k - 1])
    BY DEF ReachOf
  <2> QED BY <1>3, <2>1
<1> DEFINE T == {m \in Nat : m <= n => g[m] \subseteq Reached(i, d)}
<1>5. 0 \in T
  <2>1. g[0] = {i}
    BY <1>1, <1>4
  <2> QED BY <2>1 DEF Reached
<1>6. ASSUME NEW m \in 0 .. n, m \in T, m < n PROVE m + 1 \in T
  <2>1. m \in Nat /\ m + 1 \in 0 .. n /\ (m + 1) - 1 = m /\ m + 1 # 0
    BY <1>1, <1>6
  <2>2. g[m] \subseteq Reached(i, d)
    BY <1>6
  <2>3. g[m + 1] = Step(d, g[m])
    BY <1>4, <2>1
  <2>4. Step(d, g[m]) \subseteq Reached(i, d)
    BY <2>2, StepPasses DEF Step
  <2> QED BY <2>1, <2>3, <2>4
<1>7. n \in T
  <2> HIDE DEF T
  <2> QED BY <1>1, <1>5, <1>6, UpFromZero
<1> QED BY <1>1, <1>3, <1>7

\* compareEventOrdering tells the order in the room.
LEMMA OrderIs ==
  ASSUME TypeInv, WholeInv, NEW e1 \in Event, NEW e2 \in Event
  PROVE  /\ compareEventOrdering(e1, e2) = 1 => e1 < e2
         /\ compareEventOrdering(e1, e2) = 2 => e1 > e2
<1> DEFINE i == index[e1]
           j == index[e2]
           c == compareEventOrdering(e1, e2)
<1>1. c = IF e1 = e2 THEN 0
          ELSE IF NoTl \in {i, j} THEN None
          ELSE IF i = j THEN (IF PlaceIn(tls[i].evs, e1) < PlaceIn(tls[i].evs, e2) THEN 1 ELSE 2)
          ELSE IF j \in Along(i, "f") THEN 1
          ELSE IF j \in Along(i, "b") THEN 2
          ELSE None
  BY Zenon DEF compareEventOrdering, Place, PlaceIn
<1>2. /\ Apart(tls, index, oldest) /\ Typed(tls, index) /\ Len(tls) \in Nat /\ oldest \in Nat \ {0}
      /\ e1 \in Id /\ e2 \in Id /\ e1 \in Int /\ e2 \in Int /\ None = -1 /\ "b" \in Dir /\ "f" \in Dir
      /\ Echo \notin Event
  BY StateFacts, EventTypes DEF WholeInv, Sound, None, Dir
<1> HIDE DEF i, j, c
<1>3. CASE e1 = e2 \/ NoTl \in {i, j}
  <2>1. c = 0 \/ c = -1
    BY <1>1, <1>2, <1>3
  <2> QED BY <2>1 DEF c
<1> SUFFICES ASSUME e1 # e2, i # NoTl, j # NoTl PROVE (c = 1 => e1 < e2) /\ (c = 2 => e1 > e2)
  BY <1>3 DEF c
<1>4. i \in oldest .. Len(tls) /\ j \in oldest .. Len(tls) /\ i \in 1 .. Len(tls)
  <2>1. i \in 1 .. Len(tls) /\ j \in 1 .. Len(tls)
    BY <1>2, TypedFacts DEF i, j
  <2>2. i >= oldest /\ j >= oldest
    BY <1>2 DEF Apart, i, j
  <2> QED BY <1>2, <2>1, <2>2
<1>5. CASE i = j
  <2> DEFINE p1 == PlaceIn(tls[i].evs, e1)
             p2 == PlaceIn(tls[i].evs, e2)
  <2>1. /\ p1 \in DOMAIN tls[i].evs /\ p1 \in Nat \ {0} /\ tls[i].evs[p1] = e1
        /\ p2 \in DOMAIN tls[i].evs /\ p2 \in Nat \ {0} /\ tls[i].evs[p2] = e2
    <3>1. /\ PlaceIn(tls[index[e1]].evs, e1) \in DOMAIN tls[index[e1]].evs
          /\ PlaceIn(tls[index[e1]].evs, e1) \in Nat \ {0}
          /\ tls[index[e1]].evs[PlaceIn(tls[index[e1]].evs, e1)] = e1
      BY <1>2, PlaceIs DEF i
    <3>2. /\ PlaceIn(tls[index[e2]].evs, e2) \in DOMAIN tls[index[e2]].evs
          /\ PlaceIn(tls[index[e2]].evs, e2) \in Nat \ {0}
          /\ tls[index[e2]].evs[PlaceIn(tls[index[e2]].evs, e2)] = e2
      BY <1>2, PlaceIs DEF j
    <3> QED BY <1>5, <3>1, <3>2 DEF i, j
  <2>2. c = IF p1 < p2 THEN 1 ELSE 2
    BY <1>1, <1>5
  <2> HIDE DEF p1, p2
  <2>3. Ordered(tls[i].evs)
    BY <1>2, <1>4 DEF Apart
  <2>4. CASE p1 < p2
    <3>1. e1 < e2
      BY <1>2, <2>1, <2>3, <2>4 DEF Ordered
    <3> QED BY <2>2, <2>4, <3>1
  <2>5. CASE ~(p1 < p2)
    <3>1. p2 < p1
      BY <2>1, <2>5
    <3>2. e2 < e1
      BY <1>2, <2>1, <2>3, <3>1 DEF Ordered
    <3> QED BY <1>2, <2>2, <2>5, <3>2
  <2> QED BY <2>4, <2>5
<1>6. CASE i # j
  <2>1. c = 1 => j \in Along(i, "f")
    BY <1>1, <1>2, <1>6
  <2>2. c = 2 => j \in Along(i, "b")
    BY <1>1, <1>2, <1>6
  <2>3. c = 1 => e1 < e2
    <3> SUFFICES ASSUME c = 1 PROVE e1 < e2
      OBVIOUS
    <3>1. Passes(i, j, "f")
      BY <1>2, <1>4, <1>6, <2>1, AlongPasses DEF Reached
    <3> QED BY <3>1 DEF Passes, i, j
  <2>4. c = 2 => e1 > e2
    <3> SUFFICES ASSUME c = 2 PROVE e1 > e2
      OBVIOUS
    <3>1. Passes(i, j, "b")
      BY <1>2, <1>4, <1>6, <2>2, AlongPasses DEF Reached
    <3>2. e2 < e1
      BY <3>1 DEF Passes, i, j
    <3> QED BY <1>2, <3>2
  <2> QED BY <2>3, <2>4
<1> QED BY <1>5, <1>6

-----------------------------------------------------------------------------
(* The property.                                                           *)

\* The types of the model follow from the invariant.
LEMMA TypesHold == TypeInv => TimelinesTypeOK
<1> SUFFICES ASSUME TypeInv PROVE TimelinesTypeOK
  OBVIOUS
<1>1. Typed(tls, index) /\ Len(tls) \in Nat /\ DOMAIN tls = 1 .. Len(tls) /\ NoTl = 0
  BY StateFacts
<1>2. ASSUME NEW i \in DOMAIN tls
      PROVE  /\ tls[i].evs \in Seq(Id) /\ tls[i].evs # <<>>
             /\ tls[i].base \in 0 .. Len(tls[i].evs)
             /\ \A d \in Dir : /\ tls[i].token[d] \in 0 .. MaxHead \cup {None}
                               /\ tls[i].next[d] \in DOMAIN tls \cup {NoTl}
  <2>1. tls[i] \in Timeline(Len(tls)) /\ tls[i].base <= Len(tls[i].evs) /\ i # NoTl
    BY <1>1, TypedFacts
  <2>2. /\ tls[i].evs \in Seq(Id) /\ tls[i].base \in Nat /\ tls[i].token \in [Dir -> Token]
        /\ tls[i].next \in [Dir -> 0 .. Len(tls)]
    BY <2>1 DEF Timeline
  <2>3. tls[i].evs # <<>>
    <3>1. \E k \in DOMAIN tls[i].evs : TRUE
      BY <2>1 DEF TypeInv, Filled, Holds, In
    <3> QED BY <3>1
  <2>4. tls[i].base \in 0 .. Len(tls[i].evs)
    BY <2>1, <2>2
  <2> QED BY <1>1, <2>2, <2>3, <2>4 DEF Token
<1>3. index \in [Id -> DOMAIN tls \cup {NoTl}]
  <2>1. index \in [Id -> 0 .. Len(tls)] /\ 0 .. Len(tls) = DOMAIN tls \cup {NoTl}
    BY <1>1, TypedFacts
  <2> QED BY <2>1
<1> QED BY <1>2, <1>3 DEF TypeInv, TimelinesTypeOK

\* What is claimed follows from the invariant.
LEMMA InvSuffices == TimelinesInv => NothingIsLost
<1> SUFFICES ASSUME TimelinesInv PROVE NothingIsLost
  OBVIOUS
<1>1. TypeInv /\ (~Torn => WholeInv)
  BY DEF TimelinesInv
<1>2. TimelinesTypeOK
  BY <1>1, TypesHold
<1>3. ASSUME ~Torn, NEW e1 \in Event, NEW e2 \in Event
      PROVE  /\ compareEventOrdering(e1, e2) = 1 => e1 < e2
             /\ compareEventOrdering(e1, e2) = 2 => e1 > e2
  BY <1>1, <1>3, OrderIs
<1>4. ASSUME ~Torn, NEW i \in DOMAIN tls PROVE Run(tls[i].evs)
  <2>1. WholeInv /\ Apart(tls, index, oldest)
    BY <1>1, <1>4 DEF WholeInv, Sound
  <2>2. i \in 1 .. oldest - 1 \/ i \in oldest .. Len(tls)
    BY <1>1, StateFacts
  <2>3. CASE i \in 1 .. oldest - 1
    BY <2>1, <2>3 DEF WholeInv
  <2>4. CASE i \in oldest .. Len(tls)
    BY <1>1, <2>1, <2>4, StateFacts, RunOf
  <2> QED BY <2>2, <2>3, <2>4
<1>5. ASSUME ~Torn, NEW i \in oldest .. Len(tls) PROVE EndsMeet(i)
  BY <1>1, <1>5, EndsAre
<1> QED BY <1>2, <1>3, <1>4, <1>5, Zenon DEF NothingIsLost, EndsMeet

\* Whatever the room, the pages and the order of calls and answers are,
\* unless one of four sequences of calls has torn a timeline, no event of
\* the room can be missed by scrolling, and two events of linked timelines
\* are compared as the room has them.
THEOREM NothingLost == TimelinesSpec => []NothingIsLost
<1>1. TimelinesSpec => []TimelinesInv
  BY InitInv, NextInv, PTL DEF TimelinesSpec
<1> QED BY <1>1, InvSuffices, PTL
=============================================================================
