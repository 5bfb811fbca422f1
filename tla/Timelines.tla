----------------------------- MODULE Timelines -----------------------------
(***************************************************************************)
(* The timelines of one room, and a window that shows a part of them.      *)
(*                                                                         *)
(* The server's room is the sequence of events 1, 2, ..., head.  The       *)
(* client holds runs of it: the live timeline, which /sync appends to, and *)
(* older ones, left behind by a limited sync or loaded around an event.    *)
(* A timeline is filled at both ends with the pagination tokens the server *)
(* gave (token t stands between event t and event t + 1); when it meets    *)
(* another one the two are linked as neighbours.  A TimelineWindow walks   *)
(* along the links.                                                        *)
(*                                                                         *)
(* The application uses either scrollback() on a client without timeline   *)
(* support, or paginateEventTimeline(), getEventTimeline() and a window.   *)
(* Room state, filtered timeline sets, threads and the notification        *)
(* timeline are not in this module.                                        *)
(***************************************************************************)
EXTENDS Integers, Sequences, FiniteSets, SequencesExt

CONSTANTS
  MaxHead,        \* events the room ever has
  Start,          \* events it has when the client joins
  PageSize,       \* most events in one page of /messages
  SyncLimit,      \* most events of a room in one /sync
  WindowLimit,    \* windowLimit of the window
  RequestLimit,   \* DEFAULT_PAGINATE_LOOP_LIMIT
  Plans           \* bounds of a behaviour: the events the room gets, and the loads,
                  \* local echoes and failed requests there are

ASSUME TimelinesAssumption ==
  /\ {MaxHead, Start, PageSize, SyncLimit, WindowLimit, RequestLimit} \subseteq Nat \ {0}
  /\ Start <= MaxHead
  /\ \A p \in Plans : p.head \in Start .. MaxHead /\ p.extras \in Nat

VARIABLES
  head,     \* events on the server
  synced,   \* the position of the sync token
  style,    \* which API the application uses
  tls,      \* every timeline object made so far
  oldest,   \* the first of them that is in this.timelines
  live,     \* this.liveTimeline
  index,    \* _eventIdToTimeline
  requests,    \* paginationRequests, and the scrollback, with the head they were made at
  loading,  \* /context requests under way
  window,   \* the TimelineWindow
  echo,     \* is there a local echo
  plan,     \* the bounds of this behaviour
  used,     \* loads, local echoes and failed requests so far
  upset     \* what has happened that can tear a timeline

tlVars == <<head, synced, style, tls, oldest, live, index, requests, loading, window, echo, plan, used, upset>>

None == -1
NoTl == 0
Echo == 0          \* the id of a local echo
Event == 1 .. MaxHead
Id == Event \cup {Echo}
Dir == {"b", "f"}
Opposite(d) == IF d = "b" THEN "f" ELSE "b"

Tl(evs) == [evs |-> evs, base |-> 0, token |-> [d \in Dir |-> None], next |-> [d \in Dir |-> NoTl]]

NoWindow == [open |-> FALSE]

-----------------------------------------------------------------------------
(* EventTimeline                                                           *)

\* Mutant: an event at the start shifts the others' indexes.
addEvent_no_base(tl, e, atStart) ==
  [tl EXCEPT !.evs = IF atStart THEN <<e>> \o @ ELSE Append(@, e)]

\* addEvent: the events already there keep their index, which is counted
\* from baseIndex.
addEvent(tl, e, atStart) ==
  IF atStart THEN [tl EXCEPT !.evs = <<e>> \o @, !.base = @ + 1]
             ELSE [tl EXCEPT !.evs = Append(@, e)]

removeEventFrom(tl, e) ==
  LET i == CHOOSE k \in DOMAIN tl.evs : tl.evs[k] = e
  IN  [tl EXCEPT !.evs = RemoveAt(@, i), !.base = IF i <= @ THEN @ - 1 ELSE @]

setPaginationToken(tl, t, d) == [tl EXCEPT !.token[d] = t]

\* The neighbour takes the place of the token.
setNeighbouringTimeline(tl, n, d) == [tl EXCEPT !.next[d] = n, !.token[d] = None]

-----------------------------------------------------------------------------
(* EventTimelineSet                                                        *)

\* One turn of the loop of addEventsToTimeline.  st.tl is the timeline the
\* next event goes to.
addOne(st, e, d, lv) ==
  LET ex == st.index[e]
      isNeighbour == st.tls[st.tl].next[d] # NoTl
      refuse == (d = "b" /\ ex = lv) \/ (d = "f" /\ st.tl = lv)
  IN  IF ex = NoTl
      THEN [st EXCEPT !.tls[st.tl] = addEvent(@, e, d = "b"), !.index[e] = st.tl,
                      !.lastNew = TRUE, !.didUpdate = TRUE]
      ELSE IF ex = st.tl THEN [st EXCEPT !.lastNew = FALSE]
      ELSE IF isNeighbour THEN [st EXCEPT !.lastNew = FALSE, !.tl = ex]
      ELSE IF refuse THEN [st EXCEPT !.lastNew = FALSE, !.refused = TRUE]
      ELSE [st EXCEPT !.lastNew = FALSE, !.didUpdate = TRUE, !.tl = ex,
                      !.tls[st.tl] = setNeighbouringTimeline(@, ex, d),
                      !.tls[ex] = setNeighbouringTimeline(@, st.tl, Opposite(d))]

\* The events in the order they were given: newest first when they go to
\* the start.  The live timeline never gets a forwards token.
addEventsToTimeline(ts, ix, lv, es, d, tl, token) ==
  LET after[n \in 0 .. Len(es)] ==
        IF n = 0 THEN [tls |-> ts, index |-> ix, tl |-> tl, lastNew |-> FALSE,
                       didUpdate |-> FALSE, refused |-> FALSE]
        ELSE addOne(after[n - 1], es[n], d, lv)
      st == after[Len(es)]
  IN  IF (st.lastNew \/ ~st.didUpdate) /\ ~(d = "f" /\ st.tl = lv)
      THEN [st EXCEPT !.tls[st.tl] = setPaginationToken(@, token, d)]
      ELSE st

\* Without a token for the old live timeline every timeline is forgotten.
resetAll(fwd) == style = "scrollback" \/ fwd = None

\* Mutant: the old timeline cannot be continued.
resetLiveTimeline_no_token(back, fwd) ==
  [tls |-> Append(tls, setPaginationToken(Tl(<<>>), back, "b")), live |-> Len(tls) + 1,
   oldest |-> IF resetAll(fwd) THEN Len(tls) + 1 ELSE oldest,
   index |-> IF resetAll(fwd) THEN [e \in Id |-> NoTl] ELSE index, skipped |-> FALSE]

resetLiveTimeline(back, fwd) ==
  LET old == IF fwd # None THEN setPaginationToken(tls[live], fwd, "f") ELSE tls[live]
      new == setPaginationToken(Tl(<<>>), back, "b")
  IN  [tls |-> Append([tls EXCEPT ![live] = old], new), live |-> Len(tls) + 1,
       oldest |-> IF resetAll(fwd) THEN Len(tls) + 1 ELSE oldest,
       index |-> IF resetAll(fwd) THEN [e \in Id |-> NoTl] ELSE index, skipped |-> FALSE]

\* addLiveEvents: an event some timeline has is passed over.
addLive(st, e) ==
  IF st.index[e] # NoTl
  THEN [st EXCEPT !.skipped = @ \/ st.index[e] # st.live]
  ELSE [st EXCEPT !.tls[st.live] = addEvent(@, e, FALSE), !.index[e] = st.live]

addLiveEvents(st, es) ==
  LET after[n \in 0 .. Len(es)] == IF n = 0 THEN st ELSE addLive(after[n - 1], es[n])
  IN  after[Len(es)]

\* compareEventOrdering: by the place in one timeline, or by the links.
Along(i, d) ==
  LET reach[n \in 0 .. Len(tls)] == IF n = 0 THEN {i}
                                   ELSE reach[n - 1] \cup ({tls[j].next[d] : j \in reach[n - 1]} \ {NoTl})
  IN  reach[Len(tls)]

Place(i, e) == CHOOSE k \in DOMAIN tls[i].evs : tls[i].evs[k] = e

compareEventOrdering(e1, e2) ==
  LET i == index[e1]
      j == index[e2]
  IN  IF e1 = e2 THEN 0
      ELSE IF NoTl \in {i, j} THEN None
      ELSE IF i = j THEN (IF Place(i, e1) < Place(i, e2) THEN 1 ELSE 2)
      ELSE IF j \in Along(i, "f") THEN 1
      ELSE IF j \in Along(i, "b") THEN 2
      ELSE None

-----------------------------------------------------------------------------
(* TimelineWindow                                                          *)

minIndex(ts, i) == -ts[i].base
maxIndex(ts, i) == Len(ts[i].evs) - ts[i].base
lo(a, b) == IF a < b THEN a ELSE b

\* How far the index p can move in its timeline.
Room(ts, p, d) == IF d = "f" THEN maxIndex(ts, p.tl) - p.idx ELSE p.idx - minIndex(ts, p.tl)

Moved(p, d, n) == [p EXCEPT !.idx = IF d = "f" THEN @ + n ELSE @ - n]

\* advance and retreat: in the timeline of the index if there is room, else
\* from the near end of its neighbour.
advance(ts, p, d, delta) ==
  LET n == ts[p.tl].next[d]
      q == [p EXCEPT !.tl = n, !.idx = IF d = "f" THEN minIndex(ts, n) ELSE maxIndex(ts, n)]
      step(r) == [at |-> Moved(r, d, lo(delta, Room(ts, r, d))), by |-> lo(delta, Room(ts, r, d))]
  IN  IF delta > 0 /\ Room(ts, p, d) > 0 THEN step(p)
      ELSE IF delta > 0 /\ n # NoTl THEN step(q)
      ELSE [at |-> p, by |-> 0]

End(d) == IF d = "b" THEN "start" ELSE "end"
At(w, d) == w[End(d)]

\* unpaginate: drops delta events at one end; a step of it stops at the end
\* of a timeline.
unpaginate(ts, w, delta, startOfTimeline) ==
  LET d == IF startOfTimeline THEN "b" ELSE "f"
      drop[k \in 0 .. delta] ==
        IF k = 0 THEN [w |-> w, left |-> delta]
        ELSE LET s == drop[k - 1]
                 m == advance(ts, At(s.w, d), Opposite(d), s.left)
             IN  [w |-> [s.w EXCEPT ![End(d)] = m.at, !.count = @ - m.by],
                  left |-> s.left - m.by]
  IN  drop[delta].w

\* extend: moves one end out, and the other in when the window is too big.
extend(ts, w, d, size) ==
  LET m == advance(ts, At(w, d), d, size)
      grown == [w EXCEPT ![End(d)] = m.at, !.count = @ + m.by]
  IN  [done |-> m.by > 0,
       win  |-> IF m.by > 0 /\ grown.count > WindowLimit
                THEN unpaginate(ts, grown, grown.count - WindowLimit, d = "f") ELSE grown]

\* getEvents of the window.
getEvents(ts, w) ==
  LET from(i) == IF i = w.start.tl THEN w.start.idx + ts[i].base + 1 ELSE 1
      to(i)   == IF i = w.end.tl THEN w.end.idx + ts[i].base ELSE Len(ts[i].evs)
      part(i) == [k \in 1 .. (to(i) - from(i) + 1) |->
                    IF from(i) + k - 1 \in DOMAIN ts[i].evs
                    THEN ts[i].evs[from(i) + k - 1] ELSE None]
      walk[n \in 0 .. Len(ts)] ==
        IF n = 0 THEN [tl |-> w.start.tl, got |-> part(w.start.tl)]
        ELSE LET s == walk[n - 1]
                 i == ts[s.tl].next["f"]
             IN  IF s.tl = w.end.tl \/ i = NoTl THEN s
                 ELSE [tl |-> i, got |-> s.got \o part(i)]
  IN  walk[Len(ts)].got

-----------------------------------------------------------------------------
(* Requests                                                                *)

\* /messages from token t, when the server has h events.
Page(t, d, n, h) ==
  IF d = "b" THEN [k \in 1 .. lo(n, t) |-> t - k + 1]
             ELSE [k \in 1 .. lo(n, h - t) |-> t + k]

Beyond(t, d, es) == IF d = "b" THEN t - Len(es) ELSE t + Len(es)

\* paginateEventTimeline: nothing without a token, and one request at a
\* time for each end.
startRequest(as, ts, i, d, h) ==
  IF ts[i].token[d] # None /\ ~ \E r \in as : r.tl = i /\ r.dir = d
  THEN as \cup {[tl |-> i, dir |-> d, from |-> ts[i].token[d], at |-> h]} ELSE as

\* paginate of the window: move its end if there are events to move over,
\* else ask for more and come back.
paginate(w, as, ts, d, limit) ==
  LET p == At(w, d)
      e == extend(ts, w, d, PageSize)
  IN  IF p.left # None THEN [win |-> w, requests |-> as]
      ELSE IF e.done THEN [win |-> e.win, requests |-> as]
      ELSE IF limit = 0 \/ ts[e.win[End(d)].tl].token[d] = None THEN [win |-> e.win, requests |-> as]
      ELSE [win |-> [e.win EXCEPT ![End(d)].left = limit - 1, ![End(d)].on = e.win[End(d)].tl],
            requests |-> startRequest(as, ts, e.win[End(d)].tl, d, head)]

\* The request of timeline i, end d, is over: a window that waited for it
\* goes on, unless it failed.
resume(w, as, ts, i, d, ok) ==
  IF w.open /\ At(w, d).left # None /\ At(w, d).on = i
  THEN LET v == [w EXCEPT ![End(d)].left = None]
       IN  IF ok THEN paginate(v, as, ts, d, At(w, d).left) ELSE [win |-> v, requests |-> as]
  ELSE [win |-> w, requests |-> as]

-----------------------------------------------------------------------------
(* Actions                                                                 *)

TimelinesInit ==
  /\ head = Start
  /\ synced = Start
  /\ style \in {"scrollback", "timelines"}
  /\ tls = <<setPaginationToken(Tl(<<Start>>), Start - 1, "b")>>
  /\ oldest = 1
  /\ live = 1
  /\ index = [e \in Id |-> IF e = Start THEN 1 ELSE NoTl]
  /\ requests = {}
  /\ loading = {}
  /\ window = NoWindow
  /\ echo = FALSE
  /\ plan \in Plans
  /\ used = 0
  /\ upset = {}

\* Somebody sends an event to the room.
ServerEvent ==
  /\ head < plan.head
  /\ head' = head + 1
  /\ UNCHANGED <<synced, style, tls, oldest, live, index, requests, loading, window, echo, plan, used, upset>>

\* The room in a /sync answer made when the server had h events: a limited
\* one resets the live timeline unless the client has one of its events.
processSync ==
  \E h \in synced + 1 .. head, entire \in BOOLEAN :
    LET limited == h - synced > SyncLimit
        from == IF limited THEN h - SyncLimit + 1 ELSE synced + 1
        known == {e \in from .. h : index[e] # NoTl}
        reset == limited /\ known = {}
        first == IF limited /\ known # {} THEN Max(known) ELSE from
        fwd == IF entire THEN None ELSE synced
        base == IF reset THEN resetLiveTimeline(from - 1, fwd)
                ELSE [tls |-> tls, oldest |-> oldest, live |-> live, index |-> index, skipped |-> FALSE]
        st == addLiveEvents(base, [k \in 1 .. h - first + 1 |-> first + k - 1])
    IN  /\ reset \/ ~entire
        /\ tls[live].token["f"] = None /\ tls[live].next["f"] = NoTl
        /\ tls' = st.tls
        /\ live' = st.live
        /\ oldest' = st.oldest
        /\ index' = st.index
        /\ synced' = h
        /\ upset' = IF st.skipped THEN upset \cup {"skipped"} ELSE upset
        /\ UNCHANGED <<head, style, requests, loading, window, echo, plan, used>>

\* paginateEventTimeline, called by the application.
paginateEventTimeline(i, d) ==
  /\ style = "timelines"
  /\ requests' = startRequest(requests, tls, i, d, head)
  /\ requests' # requests
  /\ UNCHANGED <<head, synced, style, tls, oldest, live, index, loading, window, echo, plan, used, upset>>

\* Its answer.  At the start of the room the server has nothing more, and
\* the token goes.
onMessages(r) ==
  \E h \in r.at .. head, n \in 1 .. PageSize :
    LET es == Page(r.from, r.dir, n, h)
        st == addEventsToTimeline(tls, index, live, es, r.dir, r.tl, Beyond(r.from, r.dir, es))
        ts == IF r.dir = "b" /\ es = <<>> THEN [st.tls EXCEPT ![r.tl] = setPaginationToken(@, None, "b")]
              ELSE st.tls
        next == resume(window, requests \ {r}, ts, r.tl, r.dir, TRUE)
    IN  /\ r.tl # NoTl
        /\ tls' = ts
        /\ index' = st.index
        /\ window' = next.win
        /\ requests' = next.requests
        /\ upset' = upset \cup (IF st.refused THEN {"refused"} ELSE {})
                          \cup (IF r.tl < oldest THEN {"forgotten"} ELSE {})
        /\ UNCHANGED <<head, synced, style, oldest, live, loading, echo, plan, used>>

\* scrollback, one at a time, from the start of the live timeline.
scrollback ==
  /\ style = "scrollback"
  /\ requests = {}
  /\ tls[live].token["b"] # None
  /\ requests' = {[tl |-> NoTl, dir |-> "b", from |-> tls[live].token["b"], at |-> live]}
  /\ UNCHANGED <<head, synced, style, tls, oldest, live, index, loading, window, echo, plan, used, upset>>

\* Its answer goes to the timeline that is live by then.
onScrollback(r) ==
  \E n \in 1 .. PageSize :
    LET es == Page(r.from, "b", n, head)
        st == addEventsToTimeline(tls, index, live, es, "b", live, None)
        end == IF es = <<>> THEN None ELSE Beyond(r.from, "b", es)
    IN  /\ r.tl = NoTl
        /\ tls' = [st.tls EXCEPT ![live] = setPaginationToken(@, end, "b")]
        /\ index' = st.index
        /\ requests' = requests \ {r}
        /\ upset' = IF r.at # live THEN upset \cup {"overtaken"} ELSE upset
        /\ UNCHANGED <<head, synced, style, oldest, live, loading, window, echo, plan, used>>

requestFails(r) ==
  LET next == resume(window, requests \ {r}, tls, r.tl, r.dir, FALSE)
  IN  /\ used < plan.extras
      /\ used' = used + 1
      /\ requests' = next.requests
      /\ window' = next.win
      /\ UNCHANGED <<head, synced, style, tls, oldest, live, index, loading, echo, plan, upset>>

\* initFields of load: event number k of timeline i in the middle.
initFields(ts, i, k) ==
  LET to   == lo(Len(ts[i].evs), k + (PageSize + 1) \div 2)
      from == IF to > PageSize THEN to - PageSize ELSE 0
      at(x) == [tl |-> i, idx |-> x - ts[i].base, left |-> None, on |-> NoTl]
  IN  [open |-> TRUE, start |-> at(from), end |-> at(to), count |-> to - from]

\* load of the window without an event: the end of the live timeline.
loadLive ==
  /\ style = "timelines"
  /\ window = NoWindow
  /\ window' = initFields(tls, live, Len(tls[live].evs))
  /\ UNCHANGED <<head, synced, style, tls, oldest, live, index, requests, loading, echo, plan, used, upset>>

\* load around an event, and getEventTimeline of it: at once if a timeline
\* has it, else with a request.
load(e) ==
  /\ style = "timelines"
  /\ used < plan.extras
  /\ used' = used + 1
  /\ e <= head
  /\ IF index[e] # NoTl
     THEN /\ window = NoWindow
          /\ window' = initFields(tls, index[e], Place(index[e], e) - 1)
          /\ UNCHANGED loading
     ELSE /\ loading' = loading \cup {[ev |-> e, at |-> head]}
          /\ UNCHANGED window
  /\ UNCHANGED <<head, synced, style, tls, oldest, live, index, requests, echo, plan, upset>>

\* The /context answer: the event with its two neighbours, newest first.
\* The event may have come by another way meanwhile.
onContext(l) ==
  \E h \in l.at .. head, show \in BOOLEAN :
    LET e == l.ev
        last == lo(e + 1, h)
        first == IF e > 1 THEN e - 1 ELSE 1
        es == [k \in 1 .. last - first + 1 |-> last - k + 1]
        isNew == index[last] = NoTl
        i == IF isNew THEN Len(tls) + 1 ELSE index[last]
        ts == IF isNew THEN Append(tls, setPaginationToken(Tl(<<>>), last, "f")) ELSE tls
        st == IF index[e] # NoTl THEN [tls |-> tls, index |-> index, refused |-> FALSE]
              ELSE addEventsToTimeline(ts, index, live, es, "b", i, first - 1)
        k == CHOOSE x \in DOMAIN st.tls[st.index[e]].evs : st.tls[st.index[e]].evs[x] = e
    IN  /\ loading' = loading \ {l}
        /\ tls' = st.tls
        /\ index' = st.index
        /\ upset' = IF st.refused THEN upset \cup {"refused"} ELSE upset
        /\ show => window = NoWindow
        /\ window' = IF show THEN initFields(st.tls, st.index[e], k - 1) ELSE window
        /\ UNCHANGED <<head, synced, style, oldest, live, requests, echo, plan, used>>

\* paginate of the window, called by the application.
windowPaginate(d) ==
  LET next == paginate(window, requests, tls, d, RequestLimit)
  IN  /\ window.open
      /\ window' = next.win
      /\ requests' = next.requests
      /\ UNCHANGED <<head, synced, style, tls, oldest, live, index, loading, echo, plan, used, upset>>

\* unpaginate of the window, called by the application.
windowUnpaginate(startOfTimeline) ==
  /\ window.open
  /\ window.count > 1
  /\ window' = unpaginate(tls, window, 1, startOfTimeline)
  /\ UNCHANGED <<head, synced, style, tls, oldest, live, index, requests, loading, echo, plan, used, upset>>

\* A local echo at the end of the live timeline (chronological ordering),
\* and its removal when the event is cancelled.
addPendingEvent ==
  /\ used < plan.extras
  /\ used' = used + 1
  /\ ~echo
  /\ echo' = TRUE
  /\ tls' = [tls EXCEPT ![live] = addEvent(@, Echo, FALSE)]
  /\ index' = [index EXCEPT ![Echo] = live]
  /\ UNCHANGED <<head, synced, style, oldest, live, requests, loading, window, plan, upset>>

removeEvent ==
  /\ echo
  /\ echo' = FALSE
  /\ tls' = IF index[Echo] = NoTl THEN tls
            ELSE [tls EXCEPT ![index[Echo]] = removeEventFrom(@, Echo)]
  /\ index' = [index EXCEPT ![Echo] = NoTl]
  /\ upset' = IF window.open /\ index[Echo] # NoTl THEN upset \cup {"removed"} ELSE upset
  /\ UNCHANGED <<head, synced, style, oldest, live, requests, loading, window, plan, used>>

TimelinesNext ==
  \/ ServerEvent
  \/ processSync
  \/ \E i \in DOMAIN tls, d \in Dir : paginateEventTimeline(i, d)
  \/ \E r \in requests : onMessages(r)
  \/ scrollback
  \/ \E r \in requests : onScrollback(r)
  \/ \E r \in requests : requestFails(r)
  \/ loadLive
  \/ \E e \in Event : load(e)
  \/ \E l \in loading : onContext(l)
  \/ \E d \in Dir : windowPaginate(d)
  \/ \E b \in BOOLEAN : windowUnpaginate(b)
  \/ addPendingEvent
  \/ removeEvent

TimelinesSpec == TimelinesInit /\ [][TimelinesNext]_tlVars

-----------------------------------------------------------------------------
(* Properties.                                                             *)

\* Every part of the state has its type.
TimelinesTypeOK ==
  /\ head \in Event /\ synced \in Event
  /\ style \in {"scrollback", "timelines"}
  /\ live \in DOMAIN tls /\ oldest \in 1 .. live
  /\ \A i \in DOMAIN tls :
       /\ tls[i].evs \in Seq(Id) /\ tls[i].evs # <<>>
       /\ tls[i].base \in 0 .. Len(tls[i].evs)
       /\ \A d \in Dir : /\ tls[i].token[d] \in 0 .. MaxHead \cup {None}
                         /\ tls[i].next[d] \in DOMAIN tls \cup {NoTl}
  /\ index \in [Id -> DOMAIN tls \cup {NoTl}]
  /\ upset \subseteq {"skipped", "refused", "forgotten", "overtaken", "removed"}

\* The server's events in a timeline; when a list of events is a run of the
\* room's events, local echoes apart.
Shown(i) == {tls[i].evs[k] : k \in DOMAIN tls[i].evs} \ {Echo}
Run(es) ==
  \A k, l \in DOMAIN es :
    k < l /\ Echo \notin {es[k], es[l]} /\ (\A m \in k + 1 .. l - 1 : es[m] = Echo) => es[l] = es[k] + 1

\* One of the four sequences of calls that tear a timeline (see the README).
Torn == upset \ {"removed"} # {}

\* No event of the room can be missed by scrolling: unless torn, a timeline
\* is a run of the room's events; at each end it meets the neighbour it is
\* linked to without a gap or an overlap, or has a token that continues where
\* it ends, or is at the start of the room, or is live and reaches the sync
\* token (addEventsToTimeline, resetLiveTimeline, addLiveEvents, scrollback).
\* And what compareEventOrdering says of two events, over however many linked
\* timelines, is their order in the room: receipts rely on it.
NothingIsLost ==
  /\ TimelinesTypeOK
  /\ ~Torn =>
       /\ \A e1, e2 \in Event : /\ compareEventOrdering(e1, e2) = 1 => e1 < e2
                               /\ compareEventOrdering(e1, e2) = 2 => e1 > e2
       /\ \A i \in DOMAIN tls : Run(tls[i].evs)
       /\ \A i \in oldest .. Len(tls) :
            LET first == Min(Shown(i))
                last  == Max(Shown(i))
            IN
            /\ IF tls[i].next["b"] # NoTl THEN first = Max(Shown(tls[i].next["b"])) + 1
               ELSE IF tls[i].token["b"] # None THEN tls[i].token["b"] >= first - 1
               ELSE first = 1
            /\ IF tls[i].next["f"] # NoTl THEN last = Min(Shown(tls[i].next["f"])) - 1
               ELSE IF i = live THEN last >= synced
               ELSE tls[i].token["f"] # None /\ tls[i].token["f"] <= last

\* A window shows a run of events, as many as it counts, whatever pages were
\* put before or after its indexes and whatever timelines were linked since
\* they were taken.
WindowIsWhole ==
  window.open /\ upset = {} =>
    LET es == getEvents(tls, window) IN
    /\ Len(es) = window.count
    /\ Run(es)
=============================================================================
