------------------------ MODULE MegolmOutboundProofs ------------------------
(***************************************************************************)
(* Theorems about MegolmOutbound: OutInv holds throughout, and with it     *)
(* OutboundIsSound, OnlyRecipientsReadWhenSmooth and EncryptedWhenServed.  *)
(*                                                                         *)
(* None of these is inductive.  That a discard is respected rests on what  *)
(* the chain of set-ups holds (Tally counts the discards before each       *)
(* place), that a session is not overused on the calls that have chosen it *)
(* but not used it yet (RotationInv), that a message can be read on the    *)
(* parts of the set-up that carry each device's key (ServedInv), and that  *)
(* nobody else reads it on what was shared of the session (QuietInv).      *)
(***************************************************************************)
EXTENDS MegolmOutbound, FiniteSetTheorems, TLAPS

InSetup(c) == pc[c] \in {"queued", "creating", "sharing"}

\* A set-up hangs in the chain once; the first one is at work.
ChainInv ==
  /\ \A i \in DOMAIN chain : chain[i] # Discard => InSetup(chain[i])
  /\ \A i, j \in DOMAIN chain : chain[i] = chain[j] /\ chain[i] # Discard => i = j
  /\ \A c \in AllCalls : pc[c] \in {"creating", "sharing"} => chain # <<>> /\ chain[1] = c

\* A part that a set-up waits for belongs to the one at work, and to its session.
JobsInv ==
  \A j \in jobs : j.call # NoCall => pc[j.call] = "sharing" /\ j.session = sess[j.call]

\* f counts the discards that are done before each place of the chain: all that
\* were asked for when a call began come before its set-up.
Tally(f) ==
  /\ f[0] = used.discarded /\ f[Len(chain)] = used.asked
  /\ \A i \in 1..Len(chain) :
       /\ f[i] = f[i - 1] + IF chain[i] = Discard THEN 1 ELSE 0
       /\ chain[i] # Discard => need[chain[i]] <= f[i]

DiscardsInv ==
  /\ \E f \in [0..Len(chain) -> 0..used.asked] : Tally(f)
  /\ \A c \in AllCalls : need[c] <= used.asked

\* The session at hand was made after the last discard, and so was the one that a
\* call has got, as seen from the call.
BornInv ==
  /\ cur # NoSession => born[cur] = used.discarded
  /\ \A c \in AllCalls : pc[c] = "sharing" => /\ sess[c] \in Sessions
                                              /\ born[sess[c]] = used.discarded
  /\ \A c \in AllCalls : pc[c] = "ready" => sess[c] \in Sessions /\ born[sess[c]] >= need[c]
  /\ DiscardIsRespected

\* The calls that are about to use a session.
UsersOf(s) == {c \in Call : pc[c] \in {"sharing", "ready"} /\ sess[c] = s}
RotationInv ==
  \A s \in Sessions : index[s] + Cardinality(UsersOf(s)) <= RotationMsgs + Cardinality(Call) - 1

\* A device that a call is meant for has the key, or is in a part that one of the
\* owners waits for.
Cover(c, owners) ==
  \A d \in want[c] :
    \/ shared[sess[c]][d] # None
    \/ \E j \in jobs : /\ j.call \in owners /\ j.session = sess[c] /\ j.stage # "notify"
                       /\ d \in j.todo \cup j.errs
ServedInv ==
  \A c \in AllCalls : /\ pc[c] = "sharing" => Cover(c, {c, NoCall})
                      /\ pc[c] = "ready" => Cover(c, {NoCall})

\* One call at a time, no request fails and no key is left for the background.
Quiet == Cardinality(Call) = 1 /\ used.preps + used.failures + used.noOlm = 0
QuietInv ==
  /\ pc[Prep] = "idle"
  /\ \A j \in jobs : /\ j.call \in Call /\ j.errs = {} /\ j.down = {}
                     /\ j.stage \in {"share", "claim"} => j.todo \subseteq want[j.call]
                     /\ j.index = index[j.session]
  /\ \A s \in Sessions, d \in Device :
       /\ holds[s][d] = None <=> shared[s][d] = None
       /\ holds[s][d] <= shared[s][d] /\ shared[s][d] <= index[s]
  /\ \A c \in Call : pc[c] \in {"sharing", "ready"} =>
       \A d \in Device : shared[sess[c]][d] # None => d \in want[c]
  /\ \A m \in msgs : m.index < index[m.session]
  /\ OnlyRecipientsRead

Structure == TypeOK /\ ChainInv /\ JobsInv
OutInv == /\ Structure /\ DiscardsInv /\ BornInv /\ RotationInv /\ ServedInv
          /\ (Quiet => QuietInv)

USE DEF callVars, setupVars, shareVars, NoSession, None, PcType, UsedType

-----------------------------------------------------------------------------
(* The chain.                                                              *)

\* What a sequence is made of.
LEMMA SeqFacts ==
  ASSUME NEW S, NEW q \in Seq(S)
  PROVE  /\ Len(q) \in Nat /\ DOMAIN q = 1..Len(q) /\ \A i \in 1..Len(q) : q[i] \in S
         /\ \A x \in S : /\ Append(q, x) \in Seq(S) /\ Len(Append(q, x)) = Len(q) + 1
                         /\ \A i \in 1..Len(q) : Append(q, x)[i] = q[i]
                         /\ Append(q, x)[Len(q) + 1] = x
         /\ q # <<>> => /\ Len(q) > 0 /\ Head(q) = q[1] /\ Tail(q) \in Seq(S)
                        /\ Len(Tail(q)) = Len(q) - 1
                        /\ \A i \in 1..(Len(q) - 1) : Tail(q)[i] = q[i + 1]
OBVIOUS

\* The other calls keep their place, but for those that wait for a preparation.
Others(c) ==
  \A d \in AllCalls \ {c} : pc'[d] = pc[d] \/ (pc[d] = "waitPrep" /\ pc'[d] = "devices")

\* The set-up at work is over.
Leaves(c) ==
  /\ c \in AllCalls /\ chain # <<>> /\ chain[1] = c /\ chain' = Tail(chain)
  /\ Others(c) /\ pc'[c] \in {"idle", "ready"}

\* The next one is first then.
LEMMA PopChain ==
  ASSUME CallType, SetupType, ChainInv, NEW c, Leaves(c)
  PROVE  /\ chain' \in Seq(AllCalls \cup {Discard}) /\ ChainInv'
         /\ \A d \in AllCalls : pc'[d] \notin {"creating", "sharing"}
<1>1. c # Discard /\ chain \in Seq(AllCalls \cup {Discard})
  BY MegolmOutboundAssumption DEF Leaves, SetupType, AllCalls, Discard
<1>2. /\ Len(chain) \in Nat \ {0} /\ DOMAIN chain = 1..Len(chain)
      /\ chain' \in Seq(AllCalls \cup {Discard}) /\ DOMAIN chain' = 1..(Len(chain) - 1)
      /\ \A i \in 1..(Len(chain) - 1) : chain'[i] = chain[i + 1]
      /\ \A i \in 1..Len(chain) : chain[i] \in AllCalls \cup {Discard}
  BY <1>1, SeqFacts DEF Leaves
<1>3. \A d \in AllCalls : pc'[d] \notin {"creating", "sharing"}
  <2> SUFFICES ASSUME NEW d \in AllCalls, pc'[d] \in {"creating", "sharing"} PROVE FALSE
    OBVIOUS
  <2>1. d # c /\ pc[d] = pc'[d]
    BY DEF Leaves, Others
  <2> QED BY <2>1 DEF ChainInv, Leaves
<1>4. ASSUME NEW i \in 1..(Len(chain) - 1), chain'[i] # Discard PROVE InSetup(chain[i])'
  <2>1. chain'[i] = chain[i + 1] /\ i + 1 \in DOMAIN chain /\ 1 \in DOMAIN chain /\ i + 1 # 1
    BY <1>2
  <2>2. chain[i + 1] # c /\ chain[i + 1] \in AllCalls /\ InSetup(chain[i + 1])
    BY <1>2, <1>4, <2>1 DEF ChainInv, Leaves
  <2> QED BY <2>1, <2>2 DEF Leaves, Others, InSetup
<1>5. ASSUME NEW i \in 1..(Len(chain) - 1), NEW j \in 1..(Len(chain) - 1),
             chain'[i] = chain'[j], chain'[i] # Discard
      PROVE  i = j
  <2>1. i + 1 = j + 1
    BY <1>2, <1>5 DEF ChainInv
  <2> QED BY <2>1
<1> QED BY <1>2, <1>3, <1>4, <1>5 DEF ChainInv

\* The head of the chain has seen all discards it needs.
LEMMA HeadNeeds ==
  ASSUME Structure, DiscardsInv, chain # <<>>, Head(chain) # Discard
  PROVE  /\ need[Head(chain)] <= used.discarded /\ used.discarded \in Nat
         /\ need[Head(chain)] \in Nat
<1>1. PICK f \in [0..Len(chain) -> 0..used.asked] : Tally(f)
  BY DEF DiscardsInv
<1>2. /\ Len(chain) \in Nat \ {0} /\ Head(chain) = chain[1] /\ 1 \in 1..Len(chain)
      /\ chain[1] \in AllCalls
  BY SeqFacts DEF Structure, TypeOK, SetupType
<1>3. f[1] = f[0] + 0 /\ f[0] \in Int
  BY <1>1, <1>2 DEF Tally, Structure, TypeOK, RestType
<1> QED BY <1>1, <1>2, <1>3 DEF Tally, Structure, TypeOK, CallType, RestType

\* Taking the head off the chain keeps the tally.
LEMMA PopTally ==
  ASSUME Structure, DiscardsInv, chain # <<>>, chain' = Tail(chain), UNCHANGED need,
         used'.asked = used.asked,
         used'.discarded = used.discarded + IF Head(chain) = Discard THEN 1 ELSE 0
  PROVE  DiscardsInv'
<1>1. PICK f \in [0..Len(chain) -> 0..used.asked] : Tally(f)
  BY DEF DiscardsInv
<1>2. /\ Len(chain) \in Nat \ {0} /\ Len(chain') = Len(chain) - 1 /\ Head(chain) = chain[1]
      /\ \A i \in 1..(Len(chain) - 1) : chain'[i] = chain[i + 1]
  BY SeqFacts DEF Structure, TypeOK, SetupType
<1> DEFINE g == [i \in 0..(Len(chain) - 1) |-> f[i + 1]]
<1>3. g \in [0..Len(chain') -> 0..used'.asked]
  BY <1>1, <1>2
<1>4. g[0] = used'.discarded /\ g[Len(chain')] = used'.asked
  BY <1>1, <1>2 DEF Tally
<1>5. ASSUME NEW i \in 1..Len(chain')
      PROVE  /\ g[i] = g[i - 1] + IF chain'[i] = Discard THEN 1 ELSE 0
             /\ chain'[i] # Discard => need'[chain'[i]] <= g[i]
  <2>1. /\ i + 1 \in 1..Len(chain) /\ g[i] = f[i + 1] /\ g[i - 1] = f[i]
        /\ chain'[i] = chain[i + 1] /\ (i + 1) - 1 = i
    BY <1>2
  <2>2. /\ f[i + 1] = f[(i + 1) - 1] + IF chain[i + 1] = Discard THEN 1 ELSE 0
        /\ chain[i + 1] # Discard => need[chain[i + 1]] <= f[i + 1]
    BY <1>1, <2>1 DEF Tally
  <2> HIDE DEF g
  <2> QED BY <2>1, <2>2
<1>6. PICK h : h = g
  OBVIOUS
<1>7. Tally(h)'
  BY <1>4, <1>5, <1>6 DEF Tally
<1> QED BY <1>3, <1>6, <1>7 DEF DiscardsInv

\* So does adding a call that was counted, or a discard that is counted now.
LEMMA PushTally ==
  ASSUME Structure, DiscardsInv, UNCHANGED need, used'.discarded = used.discarded,
         used'.asked \in Nat,
         NEW x \in AllCalls \cup {Discard}, chain' = Append(chain, x),
         used'.asked = used.asked + IF x = Discard THEN 1 ELSE 0
  PROVE  DiscardsInv'
<1>1. PICK f \in [0..Len(chain) -> 0..used.asked] : Tally(f)
  BY DEF DiscardsInv
<1>2. /\ Len(chain) \in Nat /\ Len(chain') = Len(chain) + 1 /\ used.asked \in Nat
      /\ \A i \in 1..Len(chain) : chain'[i] = chain[i]
      /\ chain'[Len(chain) + 1] = x
  BY SeqFacts DEF Structure, TypeOK, SetupType, RestType
<1> DEFINE g == [i \in 0..(Len(chain) + 1) |-> IF i = Len(chain) + 1 THEN used'.asked ELSE f[i]]
<1>3. g \in [0..Len(chain') -> 0..used'.asked]
  BY <1>1, <1>2
<1>4. g[0] = used'.discarded /\ g[Len(chain')] = used'.asked
  BY <1>1, <1>2 DEF Tally
<1>5. ASSUME NEW i \in 1..Len(chain')
      PROVE  /\ g[i] = g[i - 1] + IF chain'[i] = Discard THEN 1 ELSE 0
             /\ chain'[i] # Discard => need'[chain'[i]] <= g[i]
  <2>1. CASE i \in 1..Len(chain)
    <3>1. g[i] = f[i] /\ g[i - 1] = f[i - 1] /\ chain'[i] = chain[i]
      BY <1>2, <2>1
    <3> HIDE DEF g
    <3> QED BY <1>1, <2>1, <3>1 DEF Tally
  <2>2. CASE i = Len(chain) + 1
    <3>1. g[i] = used'.asked /\ g[i - 1] = f[Len(chain)] /\ chain'[i] = x
      BY <1>2, <2>2
    <3>2. x # Discard => need[x] <= used.asked
      BY DEF DiscardsInv
    <3> HIDE DEF g
    <3> QED BY <1>1, <1>2, <3>1, <3>2 DEF Tally
  <2> QED BY <1>2, <2>1, <2>2
<1>6. PICK h : h = g
  OBVIOUS
<1>7. Tally(h)'
  BY <1>4, <1>5, <1>6 DEF Tally
<1>8. \A c \in AllCalls : need'[c] <= used'.asked
  BY <1>2 DEF DiscardsInv, Structure, TypeOK, CallType
<1> QED BY <1>3, <1>6, <1>7, <1>8 DEF DiscardsInv

-----------------------------------------------------------------------------
(* The parts of a set-up.                                                  *)

\* What is known of a part.
LEMMA JobFacts ==
  ASSUME Structure, NEW j \in jobs
  PROVE  /\ j \in JobType /\ j.call \in AllCalls \cup {NoCall} /\ j.session \in Sessions
         /\ NoCall \notin AllCalls
         /\ j.call # NoCall => /\ j.call \in AllCalls /\ pc[j.call] = "sharing"
                               /\ j.session = sess[j.call]
                               /\ chain # <<>> /\ chain[1] = j.call
<1>1. j \in JobType
  BY DEF Structure, TypeOK, RestType
<1>2. j.call \in AllCalls \cup {NoCall} /\ j.session \in Sessions
  BY <1>1 DEF JobType
<1>3. NoCall \notin AllCalls
  BY MegolmOutboundAssumption DEF AllCalls
<1> QED BY <1>1, <1>2, <1>3 DEF Structure, JobsInv, ChainInv

\* The set-up of c is over, with its session, and what is left of it is in the
\* background.
Over(c) ==
  /\ Leaves(c) /\ pc[c] = "sharing" /\ cur' = sess[c]
  /\ \A k \in jobs' : k.call = NoCall

\* A part goes on: its set-up too, or it is done.
LEMMA BecomesStep ==
  ASSUME Structure, NEW j \in jobs, NEW next \in SUBSET JobType, Becomes(j, next),
         \A n \in next : n.call \in {j.call, NoCall} /\ n.session = j.session,
         UNCHANGED <<sess, index>>
  PROVE  /\ jobs' = (jobs \ {j}) \cup next /\ jobs' \subseteq JobType'
         /\ JobsInv' /\ ChainInv'
         /\ PcType'
         /\ chain' \in Seq(AllCalls \cup {Discard}) /\ cur' \in Sessions \cup {NoSession}
         /\ \/ UNCHANGED <<pc, chain, cur>>
            \/ j.call # NoCall /\ Over(j.call)
<1>1. /\ jobs' = (jobs \ {j}) \cup next /\ jobs \subseteq JobType
      /\ JobType' = JobType /\ Sessions' = Sessions
  BY DEF Becomes, Structure, TypeOK, RestType, JobType, Sessions
<1>2. CASE UNCHANGED <<pc, chain, cur>>
  <2>1. JobsInv'
    BY <1>1, <1>2, JobFacts DEF Structure, JobsInv
  <2>2. ChainInv'
    BY <1>2 DEF Structure, ChainInv, InSetup
  <2> QED BY <1>1, <1>2, <2>1, <2>2 DEF Structure, TypeOK, CallType, SetupType
<1>3. CASE ~UNCHANGED <<pc, chain, cur>>
  <2> DEFINE c == j.call
  <2>1. /\ c # NoCall /\ \A k \in jobs' : k.call # c
        /\ pc' = (IF c = Prep THEN Ended(Prep) ELSE [pc EXCEPT ![c] = "ready"])
        /\ chain' = Tail(chain) /\ cur' = j.session
    BY <1>1, <1>3 DEF Becomes
  <2>2. /\ c \in AllCalls /\ pc[c] = "sharing" /\ j.session = sess[c] /\ j.session \in Sessions
        /\ chain # <<>> /\ chain[1] = c
    BY <2>1, JobFacts
  <2>3. /\ PcType'
        /\ Others(c) /\ pc'[c] \in {"idle", "ready"}
    BY <2>1, <2>2 DEF Structure, TypeOK, CallType, Ended, Others
  <2>4. Leaves(c)
    BY <2>1, <2>2, <2>3 DEF Leaves
  <2>5. ASSUME NEW k \in jobs' PROVE k.call = NoCall
    <3>1. CASE k \in jobs
      <4>1. k.call # NoCall => chain[1] = k.call
        BY <3>1, JobFacts
      <4> QED BY <2>1, <2>2, <4>1
    <3>2. CASE k \in next
      BY <2>1, <3>2
    <3> QED BY <1>1, <3>1, <3>2
  <2>6. ChainInv' /\ chain' \in Seq(AllCalls \cup {Discard})
    BY <2>4, PopChain DEF Structure, TypeOK
  <2>7. Over(c)
    BY <2>1, <2>2, <2>4, <2>5 DEF Over
  <2> QED BY <1>1, <2>1, <2>2, <2>3, <2>5, <2>6, <2>7 DEF JobsInv
<1> QED BY <1>2, <1>3

\* Budgets are counted, and nothing else is changed by that.
LEMMA Spends ==
  ASSUME RestType,
         NEW b \in {"changes", "failures", "noOlm", "asked", "discarded", "preps", "reshares", "old"},
         Spend(b)
  PROVE  /\ UsedType'
         /\ used'.asked = used.asked + IF b = "asked" THEN 1 ELSE 0
         /\ used'.discarded = used.discarded + IF b = "discarded" THEN 1 ELSE 0
         /\ Quiet' => Quiet /\ b \notin {"preps", "failures", "noOlm"}
<1> USE DEF RestType, Spend, Quiet
<1>1. CASE b = "changes"
  BY <1>1
<1>2. CASE b = "failures"
  BY <1>2
<1>3. CASE b = "noOlm"
  BY <1>3
<1>4. CASE b = "asked"
  BY <1>4
<1>5. CASE b = "discarded"
  BY <1>5
<1>6. CASE b = "preps"
  BY <1>6
<1>7. CASE b = "reshares"
  BY <1>7
<1>8. CASE b = "old"
  BY <1>8
<1> QED BY <1>1, <1>2, <1>3, <1>4, <1>5, <1>6, <1>7, <1>8

\* A part fails: in the background, or with its set-up.
LEMMA FailsStep ==
  ASSUME Structure, NEW j \in jobs, Fails(j), UNCHANGED <<sess, index>>
  PROVE  /\ jobs' \subseteq JobType'
         /\ JobsInv' /\ ChainInv'
         /\ PcType'
         /\ chain' \in Seq(AllCalls \cup {Discard}) /\ cur' \in Sessions \cup {NoSession}
         /\ \/ /\ UNCHANGED <<pc, chain, cur>> /\ j.call = NoCall
               /\ jobs' = (jobs \ {j}) \cup {[j EXCEPT !.stage = "failed"]}
            \/ /\ j.call # NoCall /\ Over(j.call) /\ pc'[j.call] = "idle"
               /\ \A k \in jobs : k.call = NoCall => k \in jobs'
         /\ UsedType'
         /\ used'.asked = used.asked /\ used'.discarded = used.discarded /\ ~Quiet'
<1>1. JobType' = JobType /\ Sessions' = Sessions /\ jobs \subseteq JobType
  BY DEF Structure, TypeOK, RestType, JobType, Sessions
<1>2. /\ UsedType'
      /\ used'.asked = used.asked /\ used'.discarded = used.discarded /\ ~Quiet'
  <2>1. used.asked \in Nat /\ used.discarded \in Nat
    BY DEF Structure, TypeOK, RestType
  <2> QED BY <2>1, Spends DEF Fails, Fail, Structure, TypeOK
<1>3. CASE j.call = NoCall
  <2>1. /\ jobs' = (jobs \ {j}) \cup {[j EXCEPT !.stage = "failed"]}
        /\ UNCHANGED <<pc, chain, cur>>
    BY <1>3 DEF Fails
  <2>2. [j EXCEPT !.stage = "failed"] \in JobType /\ [j EXCEPT !.stage = "failed"].call = NoCall
    BY <1>1, <1>3 DEF JobType
  <2>3. JobsInv' /\ ChainInv'
    BY <2>1, <2>2 DEF Structure, JobsInv, ChainInv, InSetup
  <2> QED BY <1>1, <1>2, <1>3, <2>1, <2>2, <2>3 DEF Structure, TypeOK, CallType, SetupType
<1>4. CASE j.call # NoCall
  <2> DEFINE c == j.call
  <2>1. /\ jobs' = {IF k.call = c THEN [k EXCEPT !.call = NoCall] ELSE k : k \in jobs \ {j}}
        /\ pc' = Ended(c) /\ chain' = Tail(chain) /\ cur' = j.session
    BY <1>4 DEF Fails
  <2>2. /\ c \in AllCalls /\ pc[c] = "sharing" /\ j.session = sess[c] /\ j.session \in Sessions
        /\ chain # <<>> /\ chain[1] = c
    BY <1>4, JobFacts
  <2>3. /\ PcType'
        /\ Others(c) /\ pc'[c] = "idle"
    BY <2>1, <2>2 DEF Structure, TypeOK, CallType, Ended, Others
  <2>4. Leaves(c)
    BY <2>1, <2>2, <2>3 DEF Leaves
  <2>5. ASSUME NEW k \in jobs' PROVE k.call = NoCall /\ k \in JobType
    <3>1. PICK l \in jobs : k = IF l.call = c THEN [l EXCEPT !.call = NoCall] ELSE l
      BY <2>1
    <3>2. l \in JobType /\ (l.call # NoCall => l.call = c)
      BY <2>2, JobFacts
    <3>3. [l EXCEPT !.call = NoCall] \in JobType /\ [l EXCEPT !.call = NoCall].call = NoCall
      BY <3>2 DEF JobType
    <3> QED BY <3>1, <3>2, <3>3
  <2>6. ASSUME NEW k \in jobs, k.call = NoCall PROVE k \in jobs'
    BY <1>4, <2>1, <2>6
  <2>7. ChainInv' /\ chain' \in Seq(AllCalls \cup {Discard})
    BY <2>4, PopChain DEF Structure, TypeOK
  <2>8. Over(c)
    BY <2>1, <2>2, <2>4, <2>5 DEF Over
  <2> QED BY <1>1, <1>2, <1>4, <2>1, <2>2, <2>3, <2>5, <2>6, <2>7, <2>8 DEF JobsInv
<1> QED BY <1>3, <1>4

\* A finite set of users: fewer of them, and one less.
LEMMA Counting ==
  ASSUME NEW S \in SUBSET Call
  PROVE  /\ IsFiniteSet(S) /\ Cardinality(S) \in Nat /\ Cardinality(S) <= Cardinality(Call)
         /\ Cardinality(Call) \in Nat
         /\ \A T \in SUBSET S : Cardinality(T) \in Nat /\ Cardinality(T) <= Cardinality(S)
         /\ \A x \in S : Cardinality(S \ {x}) = Cardinality(S) - 1
<1>1. IsFiniteSet(Call)
  BY MegolmOutboundAssumption
<1>2. IsFiniteSet(S) /\ Cardinality(S) <= Cardinality(Call)
  BY <1>1, FS_Subset
<1>3. \A T \in SUBSET S : IsFiniteSet(T) /\ Cardinality(T) <= Cardinality(S)
  BY <1>2, FS_Subset
<1> QED BY <1>1, <1>2, <1>3, FS_CardinalityType, FS_RemoveElement

\* A part's step does nothing else to calls, sessions and discards.
LEMMA PartKeeps ==
  ASSUME OutInv, CallType', NEW c,
         UNCHANGED <<pc, chain, cur>> \/ Over(c),
         UNCHANGED <<sess, need, index, born, msgs>>,
         used'.asked = used.asked, used'.discarded = used.discarded
  PROVE  DiscardsInv' /\ BornInv' /\ RotationInv'
<1>1. CASE UNCHANGED <<pc, chain, cur>>
  <2>1. DiscardsInv'
    BY <1>1 DEF OutInv, DiscardsInv, Tally
  <2>2. BornInv'
    BY <1>1 DEF OutInv, BornInv, DiscardIsRespected, Sessions
  <2>3. RotationInv'
    BY <1>1 DEF OutInv, RotationInv, UsersOf, Sessions
  <2> QED BY <2>1, <2>2, <2>3
<1>2. CASE Over(c)
  <2>1. /\ c \in AllCalls /\ pc[c] = "sharing" /\ Others(c) /\ chain # <<>> /\ chain[1] = c
        /\ chain' = Tail(chain) /\ cur' = sess[c] /\ pc'[c] \in {"idle", "ready"}
    BY <1>2 DEF Over, Leaves
  <2>2. Head(chain) = c /\ Head(chain) # Discard
    BY <2>1, MegolmOutboundAssumption, SeqFacts
       DEF OutInv, Structure, TypeOK, SetupType, AllCalls, Discard
  <2>3. DiscardsInv'
    BY <2>1, <2>2, PopTally DEF OutInv, Structure, TypeOK, RestType
  <2>4. need[c] <= used.discarded /\ need[c] \in Nat /\ used.discarded \in Nat
    BY <2>1, <2>2, HeadNeeds DEF OutInv
  <2>5. sess[c] \in Sessions /\ born[sess[c]] = used.discarded
    BY <2>1 DEF OutInv, BornInv
  <2>6. BornInv'
    <3>1. \A d \in AllCalls : pc'[d] # "sharing"
      BY <1>2, PopChain DEF Over, OutInv, Structure, TypeOK
    <3>2. ASSUME NEW d \in AllCalls, pc'[d] = "ready"
          PROVE  sess[d] \in Sessions /\ born[sess[d]] >= need[d]
      BY <2>1, <2>4, <2>5, <3>2 DEF Others, OutInv, BornInv
    <3> QED BY <2>1, <2>5, <3>1, <3>2 DEF OutInv, BornInv, DiscardIsRespected, Sessions
  <2>7. RotationInv'
    <3> SUFFICES ASSUME NEW s \in Sessions
                 PROVE  index[s] + Cardinality(UsersOf(s)') <= RotationMsgs + Cardinality(Call) - 1
      BY DEF RotationInv, Sessions
    <3>1. UsersOf(s)' \subseteq UsersOf(s) /\ UsersOf(s) \subseteq Call
      BY <2>1 DEF UsersOf, Others, AllCalls
    <3>2. /\ Cardinality(UsersOf(s)') <= Cardinality(UsersOf(s))
          /\ Cardinality(UsersOf(s)) \in Nat /\ Cardinality(UsersOf(s)') \in Nat
          /\ Cardinality(Call) \in Nat
      BY <3>1, Counting
    <3>3. index[s] \in Nat /\ RotationMsgs \in Nat
      BY MegolmOutboundAssumption, SMTT(30) DEF OutInv, Structure, TypeOK, SetupType, Sessions
    <3>4. index[s] + Cardinality(UsersOf(s)) <= RotationMsgs + Cardinality(Call) - 1
      BY DEF OutInv, RotationInv
    <3> QED BY <3>2, <3>3, <3>4
  <2> QED BY <2>3, <2>6, <2>7
<1> QED BY <1>1, <1>2

\* The devices of a part keep being served, by the key or by the part it becomes.
LEMMA PartServes ==
  ASSUME OutInv, NEW j \in jobs, UNCHANGED <<want, sess, index>>,
         UNCHANGED <<pc, chain, cur>> \/ Over(j.call),
         \A s \in Sessions, d \in Device : shared[s][d] # None => shared'[s][d] # None,
         \A k \in jobs \ {j} : k \in jobs',
         j.stage # "notify" =>
           \A d \in j.todo \cup j.errs :
             \/ shared'[j.session][d] # None
             \/ \E k \in jobs' : /\ k.call \in {j.call, NoCall} /\ k.session = j.session
                                 /\ k.stage # "notify" /\ d \in k.todo \cup k.errs
  PROVE  ServedInv'
<1>1. ASSUME NEW c \in AllCalls, NEW owners, Cover(c, owners), sess[c] \in Sessions,
             j.call \in owners => {j.call, NoCall} \subseteq owners
      PROVE  Cover(c, owners)'
  <2> SUFFICES ASSUME NEW d \in want[c], shared'[sess[c]][d] = None
               PROVE  \E k \in jobs' : /\ k.call \in owners /\ k.session = sess[c]
                                       /\ k.stage # "notify" /\ d \in k.todo \cup k.errs
    BY DEF Cover
  <2>1. d \in Device /\ shared[sess[c]][d] = None
    BY <1>1 DEF OutInv, Structure, TypeOK, CallType
  <2>2. PICK k \in jobs : /\ k.call \in owners /\ k.session = sess[c] /\ k.stage # "notify"
                          /\ d \in k.todo \cup k.errs
    BY <1>1, <2>1 DEF Cover
  <2>3. CASE k # j
    BY <2>2, <2>3
  <2>4. CASE k = j
    BY <1>1, <2>2, <2>4
  <2> QED BY <2>3, <2>4
<1>2. ASSUME NEW c \in AllCalls, pc'[c] = "sharing" PROVE Cover(c, {c, NoCall})'
  <2>1. pc[c] = "sharing"
    BY <1>2, PopChain DEF Over, OutInv, Structure, TypeOK
  <2> QED BY <1>1, <2>1 DEF OutInv, ServedInv, BornInv
<1>3. ASSUME NEW c \in AllCalls, pc'[c] = "ready" PROVE Cover(c, {NoCall})'
  <2>1. CASE pc[c] = "ready"
    BY <1>1, <2>1 DEF OutInv, ServedInv, BornInv
  <2>2. CASE pc[c] # "ready"
    <3>1. Over(j.call) /\ c = j.call /\ pc[c] = "sharing" /\ \A k \in jobs' : k.call = NoCall
      BY <1>3, <2>2 DEF Over, Leaves, Others
    <3>2. Cover(c, {c, NoCall})'
      BY <1>1, <3>1 DEF OutInv, ServedInv, BornInv
    <3> QED BY <3>1, <3>2 DEF Cover
  <2> QED BY <2>1, <2>2
<1> QED BY <1>2, <1>3 DEF ServedInv

\* A part that fails leaves its devices to the background, or ends its call.
LEMMA FailureServes ==
  ASSUME OutInv, NEW j \in jobs, Fails(j), UNCHANGED <<want, sess, index, shared>>
  PROVE  ServedInv'
<1>1. CASE j.call = NoCall
  <2>1. /\ UNCHANGED <<pc, chain, cur>>
        /\ jobs' = (jobs \ {j}) \cup {[j EXCEPT !.stage = "failed"]}
    BY <1>1, FailsStep DEF OutInv
  <2>2. j \in JobType
    BY JobFacts DEF OutInv
  <2> DEFINE k == [j EXCEPT !.stage = "failed"]
  <2>3. /\ k.call = j.call /\ k.session = j.session /\ k.stage # "notify"
        /\ k.todo = j.todo /\ k.errs = j.errs /\ k \in jobs'
    BY <2>1, <2>2 DEF JobType
  <2> HIDE DEF k
  <2> QED BY <2>1, <2>3, PartServes
<1>2. CASE j.call # NoCall
  <2>1. /\ Over(j.call) /\ pc'[j.call] = "idle" /\ \A k \in jobs : k.call = NoCall => k \in jobs'
    BY <1>2, FailsStep DEF OutInv
  <2>2. \A c \in AllCalls : pc'[c] # "sharing"
    BY <2>1, PopChain DEF Over, OutInv, Structure, TypeOK
  <2>3. ASSUME NEW c \in AllCalls, pc'[c] = "ready" PROVE Cover(c, {NoCall})'
    <3>1. pc[c] = "ready"
      BY <2>1, <2>3 DEF Over, Leaves, Others
    <3> QED BY <2>1, <3>1 DEF OutInv, ServedInv, Cover
  <2> QED BY <2>2, <2>3 DEF ServedInv
<1> QED BY <1>1, <1>2

\* With one call at a time, a part reaches only the devices of that call, with the
\* index that the session has.
LEMMA QuietPart ==
  ASSUME OutInv, Quiet, NEW j \in jobs, UNCHANGED <<want, sess, index, msgs>>,
         UNCHANGED <<pc, chain, cur>> \/ Over(j.call),
         \A k \in jobs' :
           \/ k \in jobs
           \/ /\ k.call = j.call /\ k.errs = {} /\ k.down = {} /\ k.index = j.index
              /\ k.session = j.session
              /\ k.stage \in {"share", "claim"} => k.todo \subseteq want[j.call],
         \A s \in Sessions, d \in Device :
           \/ shared'[s][d] = shared[s][d] /\ holds'[s][d] = holds[s][d]
           \/ /\ s = j.session /\ d \in want[j.call] /\ shared'[s][d] = index[s]
              /\ holds'[s][d] = IF holds[s][d] = None THEN index[s] ELSE holds[s][d]
  PROVE  QuietInv'
<1>1. QuietInv /\ j.call \in Call /\ j.call # NoCall /\ j.call \in AllCalls
  BY MegolmOutboundAssumption DEF OutInv, QuietInv, AllCalls
<1>2. /\ pc[j.call] = "sharing" /\ j.session = sess[j.call] /\ j.session \in Sessions
      /\ Sessions' = Sessions
  BY <1>1, JobFacts DEF OutInv, Sessions
<1>3. \A c \in Call : c = j.call
  BY <1>1, FS_Singleton, MegolmOutboundAssumption DEF Quiet
<1>4. pc'[Prep] = "idle"
  <2>1. Prep # j.call /\ Prep \in AllCalls
    BY <1>1, MegolmOutboundAssumption DEF AllCalls
  <2> QED BY <1>1, <2>1 DEF QuietInv, Over, Leaves, Others
<1>5. \A k \in jobs' : /\ k.call \in Call /\ k.errs = {} /\ k.down = {}
                       /\ k.stage \in {"share", "claim"} => k.todo \subseteq want'[k.call]
                       /\ k.index = index'[k.session]
  BY <1>1 DEF QuietInv
<1>6. \A s \in Sessions, d \in Device : /\ shared[s][d] \in Nat \cup {None}
                                        /\ holds[s][d] \in Nat \cup {None} /\ index[s] \in Nat
  BY DEF OutInv, Structure, TypeOK, ShareType, SetupType, Sessions
<1>7. \A s \in Sessions, d \in Device :
        /\ holds'[s][d] = None <=> shared'[s][d] = None
        /\ holds'[s][d] <= shared'[s][d] /\ shared'[s][d] <= index[s]
  BY <1>1, <1>6 DEF QuietInv
<1>8. ASSUME NEW c \in Call, pc'[c] \in {"sharing", "ready"}, NEW d \in Device,
             shared'[sess[c]][d] # None
      PROVE  d \in want[c]
  BY <1>1, <1>2, <1>3, <1>8 DEF QuietInv
<1>9. ASSUME NEW m \in msgs, NEW d \in Device, CanRead(d, m)' PROVE d \in m.to
  <2>1. m.session \in Sessions /\ m.index \in Nat /\ m.index < index[m.session]
    BY <1>1 DEF QuietInv, OutInv, Structure, TypeOK, RestType
  <2>2. holds'[m.session][d] # None /\ holds'[m.session][d] <= m.index
    BY <1>9 DEF CanRead
  <2>3. holds[m.session][d] = holds'[m.session][d]
    BY <1>6, <2>1, <2>2
  <2> QED BY <1>1, <2>2, <2>3 DEF QuietInv, OnlyRecipientsRead, CanRead
<1>10. \A m \in msgs' : m.index < index'[m.session]
  BY <1>1 DEF QuietInv
<1>11. OnlyRecipientsRead'
  BY <1>9 DEF OnlyRecipientsRead
<1> QED BY <1>2, <1>4, <1>5, <1>7, <1>8, <1>10, <1>11 DEF QuietInv

\* What the next indices are, of keys noted as shared and of keys delivered.
MarkedAt(s, devs, i) ==
  \A t \in Sessions, d \in Device :
    shared'[t][d] = IF t = s /\ d \in devs THEN i ELSE shared[t][d]
DeliveredAt(s, devs, i) ==
  \A t \in Sessions, d \in Device :
    holds'[t][d] = IF t = s /\ d \in devs /\ (holds[t][d] = None \/ i < holds[t][d])
                   THEN i ELSE holds[t][d]

\* Noting that devices have a key.
LEMMA MarkedFacts ==
  ASSUME ShareType, NEW s \in Sessions, NEW devs \in SUBSET Device, NEW i \in Nat,
         Marked(s, devs, i)
  PROVE  /\ shared' \in Seq([Device -> Nat \cup {None}]) /\ Len(shared') = Len(shared)
         /\ MarkedAt(s, devs, i)
<1>1. /\ shared \in Seq([Device -> Nat \cup {None}]) /\ Len(shared) = Len(index)
      /\ s \in 1..Len(shared) /\ Sessions = 1..Len(shared)
  BY DEF ShareType, Sessions
<1> DEFINE v == [d \in Device |-> IF d \in devs THEN i ELSE shared[s][d]]
<1>2. v \in [Device -> Nat \cup {None}]
  BY <1>1
<1>3. shared' = [shared EXCEPT ![s] = v]
  BY DEF Marked
<1>4. \A d \in Device : v[d] = IF d \in devs THEN i ELSE shared[s][d]
  OBVIOUS
<1> HIDE DEF v
<1>5. shared' \in Seq([Device -> Nat \cup {None}]) /\ Len(shared') = Len(shared)
  BY <1>1, <1>2, <1>3
<1>6. \A t \in Sessions : shared'[t] = IF t = s THEN v ELSE shared[t]
  BY <1>1, <1>3
<1> QED BY <1>4, <1>5, <1>6 DEF MarkedAt

\* The devices that a key is delivered to keep the better of two indices.
LEMMA DeliveredFacts ==
  ASSUME ShareType, NEW s \in Sessions, NEW devs \in SUBSET Device, NEW i \in Nat,
         Delivered(s, devs, i)
  PROVE  /\ holds' \in Seq([Device -> Nat \cup {None}]) /\ Len(holds') = Len(holds)
         /\ DeliveredAt(s, devs, i)
<1>1. /\ holds \in Seq([Device -> Nat \cup {None}]) /\ Len(holds) = Len(index)
      /\ s \in 1..Len(holds) /\ Sessions = 1..Len(holds)
  BY DEF ShareType, Sessions
<1> DEFINE Gets(d) == d \in devs /\ (holds[s][d] = None \/ i < holds[s][d])
           v == [d \in Device |-> IF Gets(d) THEN i ELSE holds[s][d]]
<1>2. v \in [Device -> Nat \cup {None}]
  BY <1>1
<1>3. holds' = [holds EXCEPT ![s] = v]
  BY DEF Delivered
<1>4. \A d \in Device : v[d] = IF Gets(d) THEN i ELSE holds[s][d]
  OBVIOUS
<1> HIDE DEF v
<1>5. holds' \in Seq([Device -> Nat \cup {None}]) /\ Len(holds') = Len(holds)
  BY <1>1, <1>2, <1>3
<1>6. \A t \in Sessions : holds'[t] = IF t = s THEN v ELSE holds[t]
  BY <1>1, <1>3
<1> QED BY <1>4, <1>5, <1>6 DEF DeliveredAt

\* What the steps of a part have in common.
LEMMA PartStructure ==
  ASSUME OutInv, Rest,
         jobs' \subseteq JobType', JobsInv', ChainInv',
         PcType',
         chain' \in Seq(AllCalls \cup {Discard}), cur' \in Sessions \cup {NoSession},
         olm' \subseteq Device, ShareType',
         UsedType'
  PROVE  Structure'
<1>1. CallType' /\ SetupType'
  BY DEF Rest, OutInv, Structure, TypeOK, CallType, SetupType, Sessions
<1>2. RestType'
  BY DEF Rest, OutInv, Structure, TypeOK, RestType, Sessions
<1> QED BY <1>1, <1>2 DEF Structure, TypeOK

\* A part fails, whatever it was doing.
LEMMA FailureInv ==
  ASSUME OutInv, NEW j \in jobs, Fails(j), Rest, olm' \subseteq Device, ShareType',
         UNCHANGED shared
  PROVE  OutInv'
<1> USE FailsStep DEF Rest
<1>1. Structure'
  BY PartStructure DEF OutInv
<1>2. DiscardsInv' /\ BornInv' /\ RotationInv'
  BY <1>1, PartKeeps DEF OutInv, Structure, TypeOK
<1>3. ServedInv'
  BY FailureServes
<1>4. ~Quiet'
  BY DEF OutInv
<1> QED BY <1>1, <1>2, <1>3, <1>4 DEF OutInv

\* A part goes on as the parts in next: its devices have the key or are in them,
\* and with one call at a time they are devices of that call.
LEMMA PartInv ==
  ASSUME OutInv, NEW j \in jobs, NEW next \in SUBSET JobType, Becomes(j, next), Rest,
         \A n \in next : n.call \in {j.call, NoCall} /\ n.session = j.session,
         olm' \subseteq Device, ShareType',
         UsedType',
         used'.asked = used.asked, used'.discarded = used.discarded, Quiet' => Quiet,
         \A s \in Sessions, d \in Device : shared[s][d] # None => shared'[s][d] # None,
         j.stage # "notify" =>
           \A d \in j.todo \cup j.errs :
             \/ shared'[j.session][d] # None
             \/ \E n \in next : n.stage # "notify" /\ d \in n.todo \cup n.errs,
         Quiet' /\ QuietInv =>
           /\ \A n \in next : /\ n.call = j.call /\ n.errs = {} /\ n.down = {} /\ n.index = j.index
                              /\ n.stage \in {"share", "claim"} => n.todo \subseteq want[j.call]
           /\ \A s \in Sessions, d \in Device :
                \/ shared'[s][d] = shared[s][d] /\ holds'[s][d] = holds[s][d]
                \/ /\ s = j.session /\ d \in want[j.call] /\ shared'[s][d] = index[s]
                   /\ holds'[s][d] = IF holds[s][d] = None THEN index[s] ELSE holds[s][d]
  PROVE  OutInv'
<1>1. Structure /\ UNCHANGED <<sess, index, want, need, born, msgs>>
  BY DEF OutInv, Rest
<1>2. /\ jobs' = (jobs \ {j}) \cup next /\ jobs' \subseteq JobType' /\ JobsInv' /\ ChainInv'
      /\ PcType'
      /\ chain' \in Seq(AllCalls \cup {Discard}) /\ cur' \in Sessions \cup {NoSession}
      /\ UNCHANGED <<pc, chain, cur>> \/ Over(j.call)
  BY <1>1, BecomesStep
<1>3. Structure'
  BY <1>2, PartStructure
<1>4. DiscardsInv' /\ BornInv' /\ RotationInv'
  BY <1>1, <1>2, <1>3, PartKeeps DEF Structure, TypeOK
<1>5. ServedInv'
  <2>1. ASSUME j.stage # "notify", NEW d \in j.todo \cup j.errs, shared'[j.session][d] = None
        PROVE  \E k \in jobs' : /\ k.call \in {j.call, NoCall} /\ k.session = j.session
                                /\ k.stage # "notify" /\ d \in k.todo \cup k.errs
    BY <1>2, <2>1
  <2> QED BY <1>1, <1>2, <2>1, PartServes
<1>6. ASSUME Quiet' PROVE QuietInv'
  <2>1. Quiet /\ QuietInv
    BY <1>6 DEF OutInv
  <2>2. \A k \in jobs' :
          \/ k \in jobs
          \/ /\ k.call = j.call /\ k.errs = {} /\ k.down = {} /\ k.index = j.index
             /\ k.session = j.session
             /\ k.stage \in {"share", "claim"} => k.todo \subseteq want[j.call]
    BY <1>2, <1>6, <2>1
  <2> QED BY <1>1, <1>2, <1>6, <2>1, <2>2, QuietPart
<1> QED BY <1>3, <1>4, <1>5, <1>6 DEF OutInv

\* What is known of a part that takes a step, and of the rest.
LEMMA PartFacts ==
  ASSUME OutInv, NEW j \in jobs
  PROVE  /\ j \in JobType /\ j.session \in Sessions /\ j.index \in Nat
         /\ j.todo \subseteq Device /\ j.errs \subseteq Device /\ j.down \subseteq Device
         /\ ShareType /\ olm \subseteq Device /\ Structure
         /\ UsedType
         /\ QuietInv => /\ j.errs = {} /\ j.down = {} /\ j.index = index[j.session]
                        /\ j.call \in Call /\ j.call # NoCall
                        /\ j.stage \in {"share", "claim"} => j.todo \subseteq want[j.call]
<1>1. NoCall \notin Call
  BY MegolmOutboundAssumption
<1> QED BY <1>1, JobFacts DEF OutInv, Structure, TypeOK, RestType, JobType, QuietInv

\* encryptAndSendKeysToDevices.
LEMMA SendKeysInv ==
  ASSUME OutInv, NEW j \in jobs, encryptAndSendKeysToDevices(j)
  PROVE  OutInv'
<1>1. PICK slice \in SUBSET j.todo :
        \/ /\ Delivered(j.session, slice, j.index) /\ Marked(j.session, slice, j.index)
           /\ Becomes(j, {[j EXCEPT !.todo = @ \ slice]})
           /\ UNCHANGED used
        \/ /\ Fails(j)
           /\ Delivered(j.session, slice, j.index) \/ UNCHANGED holds
           /\ UNCHANGED shared
  BY DEF encryptAndSendKeysToDevices
<1>2. j.stage = "share" /\ UNCHANGED <<olm, notified, index>> /\ Rest
  BY DEF encryptAndSendKeysToDevices, Rest
<1>3. slice \in SUBSET Device
  BY PartFacts
<1> USE PartFacts
<1>4. CASE Fails(j) /\ UNCHANGED shared /\ (Delivered(j.session, slice, j.index) \/ UNCHANGED holds)
  <2>1. ShareType'
    BY <1>2, <1>3, <1>4, DeliveredFacts DEF ShareType
  <2> QED BY <1>2, <1>4, <2>1, FailureInv
<1>5. CASE /\ Delivered(j.session, slice, j.index) /\ Marked(j.session, slice, j.index)
           /\ Becomes(j, {[j EXCEPT !.todo = @ \ slice]})
           /\ UNCHANGED used
  <2> DEFINE n == [j EXCEPT !.todo = @ \ slice]
  <2>1. /\ n \in JobType /\ n.call = j.call /\ n.session = j.session /\ n.stage = j.stage
        /\ n.todo = j.todo \ slice /\ n.errs = j.errs /\ n.down = j.down /\ n.index = j.index
    BY DEF JobType
  <2>2. Becomes(j, {n})
    BY <1>5
  <2> HIDE DEF n
  <2>3. /\ shared' \in Seq([Device -> Nat \cup {None}]) /\ Len(shared') = Len(shared)
        /\ holds' \in Seq([Device -> Nat \cup {None}]) /\ Len(holds') = Len(holds)
        /\ MarkedAt(j.session, slice, j.index) /\ DeliveredAt(j.session, slice, j.index)
    BY <1>3, <1>5, DeliveredFacts, MarkedFacts
  <2>4. ShareType'
    BY <1>2, <2>3 DEF ShareType
  <2>5. \A s \in Sessions, d \in Device :
          shared'[s][d] = IF s = j.session /\ d \in slice THEN j.index ELSE shared[s][d]
    BY <2>3 DEF MarkedAt
  <2>6. \A s \in Sessions, d \in Device : shared[s][d] # None => shared'[s][d] # None
    BY <2>5
  <2>7. ASSUME NEW d \in j.todo \cup j.errs
        PROVE  shared'[j.session][d] # None \/ d \in n.todo \cup n.errs
    BY <1>3, <2>1, <2>5, <2>7
  <2>8. ASSUME QuietInv, NEW s \in Sessions, NEW d \in Device
        PROVE  \/ shared'[s][d] = shared[s][d] /\ holds'[s][d] = holds[s][d]
               \/ /\ s = j.session /\ d \in want[j.call] /\ shared'[s][d] = index[s]
                  /\ holds'[s][d] = IF holds[s][d] = None THEN index[s] ELSE holds[s][d]
    <3>1. /\ shared[s][d] \in Nat \cup {None} /\ holds[s][d] \in Nat \cup {None}
          /\ index[s] \in Nat
      BY ONLY OutInv, <2>8 DEF OutInv, Structure, TypeOK, ShareType, SetupType, Sessions
    <3>2. holds[s][d] <= shared[s][d] /\ shared[s][d] <= index[s]
      BY <2>8 DEF QuietInv
    <3>3. holds[s][d] <= index[s]
      BY ONLY <3>1, <3>2
    <3>4. holds'[s][d] = IF s = j.session /\ d \in slice
                              /\ (holds[s][d] = None \/ j.index < holds[s][d])
                         THEN j.index ELSE holds[s][d]
      BY <2>3 DEF DeliveredAt
    <3> QED BY <1>1, <1>2, <2>5, <2>8, <3>1, <3>4, <3>3
  <2>9. Quiet' => Quiet
    BY <1>5 DEF Quiet
  <2> QED BY <1>2, <1>5, <2>1, <2>2, <2>4, <2>6, <2>7, <2>8, <2>9, PartInv
<1> QED BY <1>1, <1>4, <1>5

\* ensureOlmSessionsForDevices.
LEMMA ClaimInv ==
  ASSUME OutInv, NEW j \in jobs, ensureOlmSessionsForDevices(j)
  PROVE  OutInv'
<1>1. j.stage = "claim" /\ UNCHANGED <<shared, notified, holds, index>> /\ Rest
  <2>1. j.stage = "claim" /\ UNCHANGED <<shared, notified, holds>> /\ Rest
    BY Zenon DEF ensureOlmSessionsForDevices
  <2> QED BY <2>1 DEF Rest
<1> USE PartFacts
<1>2. ShareType'
  BY <1>1 DEF ShareType
<1>3. CASE Fails(j) /\ UNCHANGED olm
  BY <1>1, <1>2, <1>3, FailureInv
<1>4. ASSUME NEW got \in SUBSET j.todo, NEW down \in SUBSET (j.todo \ got),
             \/ got = j.todo /\ UNCHANGED used
             \/ got # j.todo /\ used.noOlm < MaxNoOlm /\ Spend("noOlm"),
             Becomes(j, {[j EXCEPT !.stage = "share", !.todo = got, !.down = down,
                                   !.errs = @ \cup (j.todo \ got)]}),
             olm' = olm \cup got
      PROVE  OutInv'
  <2> DEFINE n == [j EXCEPT !.stage = "share", !.todo = got, !.down = down,
                            !.errs = @ \cup (j.todo \ got)]
  <2>1. /\ n \in JobType /\ n.call = j.call /\ n.session = j.session /\ n.stage = "share"
        /\ n.todo = got /\ n.errs = j.errs \cup (j.todo \ got) /\ n.down = down
        /\ n.index = j.index
    BY DEF JobType
  <2>2. Becomes(j, {n})
    BY <1>4
  <2> HIDE DEF n
  <2>3. /\ UsedType'
        /\ used'.asked = used.asked /\ used'.discarded = used.discarded
        /\ Quiet' => Quiet /\ got = j.todo
    <3>1. used.asked \in Nat /\ used.discarded \in Nat /\ RestType
      BY DEF Structure, TypeOK, RestType
    <3>2. CASE UNCHANGED used /\ got = j.todo
      BY <3>2 DEF Quiet
    <3>3. CASE Spend("noOlm")
      BY <3>1, <3>3, Spends
    <3> QED BY <1>4, <3>2, <3>3
  <2>4. \A d \in j.todo \cup j.errs : d \in n.todo \cup n.errs
    BY <2>1
  <2>5. Quiet' /\ QuietInv => n.errs = {} /\ n.down = {} /\ n.todo \subseteq want[j.call]
    BY <1>1, <1>4, <2>1, <2>3
  <2>6. olm' \subseteq Device
    BY <1>4
  <2> QED BY <1>1, <1>2, <2>1, <2>2, <2>3, <2>4, <2>5, <2>6, PartInv
<1> QED BY <1>3, <1>4, Zenon DEF ensureOlmSessionsForDevices

\* notifyBlockedDevices.
LEMMA NotifyInv ==
  ASSUME OutInv, NEW j \in jobs, notifyBlockedDevices(j)
  PROVE  OutInv'
<1>1. j.stage = "notify" /\ UNCHANGED <<olm, shared, holds, index>> /\ Rest
  BY DEF notifyBlockedDevices, Rest
<1> USE PartFacts
<1>2. CASE Fails(j) /\ UNCHANGED notified
  BY <1>1, <1>2, FailureInv DEF ShareType
<1>3. CASE /\ notified' = [notified EXCEPT ![j.session] = @ \cup j.todo]
           /\ Becomes(j, {}) /\ UNCHANGED used
  <2>1. notified' \in Seq(SUBSET Device) /\ Len(notified') = Len(notified)
    <3>1. /\ notified \in Seq(SUBSET Device) /\ j.session \in 1..Len(notified)
          /\ notified[j.session] \cup j.todo \in SUBSET Device
      BY DEF ShareType, Sessions
    <3> QED BY <1>3, <3>1
  <2>2. ShareType'
    BY <1>1, <2>1 DEF ShareType
  <2>3. Quiet' => Quiet
    BY <1>3 DEF Quiet
  <2> QED BY <1>1, <1>3, <2>2, <2>3, PartInv
<1> QED BY <1>1, <1>2, <1>3 DEF notifyBlockedDevices

\* The keys are sent.
LEMMA KeysSentInv ==
  ASSUME OutInv, NEW j \in jobs, KeysSent(j)
  PROVE  OutInv'
<1>1. /\ j.stage = "share" /\ j.todo = {} /\ UNCHANGED <<olm, notified, used, index>> /\ Rest
  BY Zenon DEF KeysSent, Rest
<1>2. Quiet' => Quiet
  BY <1>1 DEF Quiet
<1> USE PartFacts
<1>3. used'.asked = used.asked /\ used'.discarded = used.discarded /\ olm' \subseteq Device
  BY <1>1
<1>4. CASE j.errs = {} /\ Becomes(j, {}) /\ UNCHANGED <<shared, holds>>
  BY <1>1, <1>2, <1>3, <1>4, PartInv DEF ShareType
<1>5. ASSUME NEW n \in JobType, j.errs # {}, Handled(j, j.errs), Becomes(j, {n}),
             n.call \in {j.call, NoCall}, n.session = j.session, n.stage = "notify"
      PROVE  OutInv'
  <2>1. /\ shared' \in Seq([Device -> Nat \cup {None}]) /\ Len(shared') = Len(shared)
        /\ MarkedAt(j.session, j.errs, j.index) /\ UNCHANGED holds
    BY <1>5, MarkedFacts DEF Handled
  <2>2. ShareType'
    BY <1>1, <2>1 DEF ShareType
  <2>3. \A s \in Sessions, d \in Device : shared[s][d] # None => shared'[s][d] # None
    BY <2>1 DEF MarkedAt
  <2>4. \A d \in j.todo \cup j.errs : shared'[j.session][d] # None
    BY <1>1, <2>1 DEF MarkedAt
  <2>5. ~QuietInv
    BY <1>5
  <2> QED BY <1>1, <1>2, <1>3, <1>5, <2>2, <2>3, <2>4, <2>5, PartInv
<1>6. CASE j.errs # {} /\ Handled(j, j.errs) /\ Becomes(j, {Notify(j, j.errs)})
  <2> DEFINE n == Notify(j, j.errs)
  <2>1. n \in JobType /\ n.call = j.call /\ n.session = j.session /\ n.stage = "notify"
    BY DEF JobType, Notify
  <2> HIDE DEF n
  <2> QED BY <1>5, <1>6, <2>1 DEF n
<1>7. CASE /\ j.errs # {} /\ Handled(j, j.errs)
           /\ Becomes(j, {[Notify(j, j.errs) EXCEPT !.call = NoCall]})
  <2> DEFINE n == [Notify(j, j.errs) EXCEPT !.call = NoCall]
  <2>1. n \in JobType /\ n.call = NoCall /\ n.session = j.session /\ n.stage = "notify"
    BY DEF JobType, Notify
  <2>2. Becomes(j, {n})
    BY <1>7
  <2> HIDE DEF n
  <2> QED BY <1>5, <1>7, <2>1, <2>2
<1>8. CASE /\ j.down # {}
           /\ Becomes(j, {[j EXCEPT !.call = NoCall, !.kind = "retry", !.stage = "claim",
                                    !.todo = j.down, !.errs = @ \ j.down, !.down = {}]})
           /\ UNCHANGED <<shared, holds>>
  <2> DEFINE n == [j EXCEPT !.call = NoCall, !.kind = "retry", !.stage = "claim",
                            !.todo = j.down, !.errs = @ \ j.down, !.down = {}]
  <2>1. /\ n \in JobType /\ n.call = NoCall /\ n.session = j.session /\ n.stage = "claim"
        /\ n.todo = j.down /\ n.errs = j.errs \ j.down
    BY DEF JobType
  <2>2. Becomes(j, {n})
    BY <1>8
  <2> HIDE DEF n
  <2>3. ShareType' /\ ~QuietInv
    BY <1>1, <1>8 DEF ShareType
  <2>4. \A d \in j.todo \cup j.errs : d \in n.todo \cup n.errs
    BY <1>1, <2>1
  <2> QED BY <1>1, <1>2, <1>3, <1>8, <2>1, <2>2, <2>3, <2>4, PartInv
<1> QED BY <1>4, <1>6, <1>7, <1>8, Zenon DEF KeysSent

-----------------------------------------------------------------------------
(* Steps outside the chain, and steps that lengthen or shorten it.         *)

HIDE DEF UsedType

\* Calls that are not in a set-up move on, and other things change that no set-up
\* depends on.
LEMMA Outside ==
  ASSUME OutInv, UNCHANGED <<want, blocked, sess, setupVars, shared, jobs, msgs>>,
         CallType', ShareType', UsedType',
         room' \in [Device -> {"in", "out", "blocked"}], olm' \subseteq Device,
         \A c \in AllCalls : \/ pc'[c] = pc[c]
                             \/ /\ pc[c] \in {"idle", "waitPrep", "devices"}
                                /\ pc'[c] \in {"idle", "waitPrep", "devices"},
         \A c \in AllCalls : need'[c] = need[c] \/ (pc[c] = "idle" /\ need'[c] = used.asked),
         used'.asked = used.asked, used'.discarded = used.discarded,
         Quiet' => Quiet /\ (QuietInv => pc'[Prep] = "idle"),
         QuietInv => \A s \in Sessions, d \in Device : holds'[s][d] = holds[s][d]
  PROVE  OutInv'
<1>1. Sessions' = Sessions /\ JobType' = JobType
  BY DEF Sessions, JobType
<1>2. SetupType'
  BY <1>1 DEF OutInv, Structure, TypeOK, SetupType
<1>3. RestType'
  BY <1>1 DEF OutInv, Structure, TypeOK, RestType, UsedType
<1>4. \A c \in AllCalls : pc'[c] \in {"queued", "creating", "sharing", "ready"} \/
                          pc[c] \in {"queued", "creating", "sharing", "ready"}
                          => pc'[c] = pc[c] /\ need'[c] = need[c]
  OBVIOUS
<1>5. \A i \in DOMAIN chain : chain[i] # Discard => chain[i] \in AllCalls /\ InSetup(chain[i])
  BY SeqFacts DEF OutInv, Structure, TypeOK, SetupType, ChainInv
<1>6. ChainInv'
  BY <1>4, <1>5 DEF OutInv, Structure, ChainInv, InSetup
<1>7. JobsInv'
  <2> SUFFICES ASSUME NEW j \in jobs, j.call # NoCall
               PROVE  pc'[j.call] = "sharing" /\ j.session = sess[j.call]
    BY DEF JobsInv
  <2> QED BY <1>4, JobFacts DEF OutInv
<1>8. DiscardsInv'
  <2>1. PICK f \in [0..Len(chain) -> 0..used.asked] : Tally(f)
    BY DEF OutInv, DiscardsInv
  <2>2. ASSUME NEW i \in 1..Len(chain), chain[i] # Discard PROVE need'[chain[i]] = need[chain[i]]
    <3>1. i \in DOMAIN chain
      BY SeqFacts DEF OutInv, Structure, TypeOK, SetupType
    <3> QED BY <1>4, <1>5, <2>2, <3>1 DEF InSetup
  <2>3. Tally(f)'
    BY <2>1, <2>2 DEF Tally
  <2>4. \A c \in AllCalls : need'[c] <= used'.asked
    <3>1. used.asked \in Nat
      BY DEF OutInv, Structure, TypeOK, RestType
    <3> QED BY <3>1 DEF OutInv, DiscardsInv
  <2> QED BY <2>3, <2>4 DEF DiscardsInv
<1>9. BornInv'
  BY <1>1, <1>4 DEF OutInv, BornInv, DiscardIsRespected
<1>10. RotationInv'
  <2>1. \A s \in Sessions : UsersOf(s)' = UsersOf(s)
    BY <1>4 DEF UsersOf, AllCalls
  <2> QED BY <1>1, <2>1 DEF OutInv, RotationInv
<1>11. ServedInv'
  BY <1>4 DEF OutInv, ServedInv, Cover
<1>12. ASSUME Quiet' PROVE QuietInv'
  <2>1. QuietInv /\ pc'[Prep] = "idle"
    BY <1>12 DEF OutInv
  <2>2. \A m \in msgs : m.session \in Sessions
    BY DEF OutInv, Structure, TypeOK, RestType
  <2>3. OnlyRecipientsRead'
    BY <2>1, <2>2 DEF QuietInv, OnlyRecipientsRead, CanRead
  <2>4. \A c \in Call : pc'[c] \in {"sharing", "ready"} =>
          \A d \in Device : shared[sess[c]][d] # None => d \in want[c]
    BY <1>4, <2>1 DEF QuietInv, AllCalls
  <2> QED BY <1>1, <2>1, <2>3, <2>4 DEF QuietInv
<1> QED BY <1>2, <1>3, <1>6, <1>7, <1>8, <1>9, <1>10, <1>11, <1>12 DEF OutInv, Structure, TypeOK

\* What is known of the calls and budgets when a call is made.
LEMMA OutFacts ==
  ASSUME OutInv
  PROVE  /\ CallType /\ SetupType /\ ShareType /\ RestType /\ ChainInv /\ JobsInv /\ Structure
         /\ used.asked \in Nat /\ used.discarded \in Nat /\ UsedType
         /\ Prep \in AllCalls /\ Call \subseteq AllCalls /\ Prep \notin Call
         /\ NoCall \notin AllCalls /\ Discard \notin AllCalls
         /\ Quiet => QuietInv
BY MegolmOutboundAssumption
   DEF OutInv, Structure, TypeOK, RestType, UsedType, AllCalls, Discard

\* encryptMessage, up to its first wait.
LEMMA EncryptMessageInv ==
  ASSUME OutInv, NEW c \in Call, encryptMessage(c)
  PROVE  OutInv'
<1> USE OutFacts
<1>1. /\ pc[c] = "idle" /\ need' = [need EXCEPT ![c] = used.asked]
      /\ pc' = [pc EXCEPT ![c] = IF pc[Prep] = "idle" THEN "devices" ELSE "waitPrep"]
      /\ UNCHANGED <<room, olm, want, blocked, sess, setupVars, shareVars, jobs, msgs, used>>
  BY DEF encryptMessage
<1>2. CallType' /\ ShareType' /\ UsedType'
  BY <1>1 DEF CallType, ShareType, UsedType, Sessions
<1>3. room' \in [Device -> {"in", "out", "blocked"}] /\ olm' \subseteq Device
  BY <1>1 DEF RestType
<1>4. \A d \in AllCalls : \/ pc'[d] = pc[d]
                          \/ /\ pc[d] \in {"idle", "waitPrep", "devices"}
                             /\ pc'[d] \in {"idle", "waitPrep", "devices"}
  BY <1>1 DEF CallType
<1>5. \A d \in AllCalls : need'[d] = need[d] \/ (pc[d] = "idle" /\ need'[d] = used.asked)
  BY <1>1 DEF CallType
<1>6. pc'[Prep] = pc[Prep]
  BY <1>1 DEF CallType
<1>7. Quiet' => Quiet /\ (QuietInv => pc'[Prep] = "idle")
  BY <1>1, <1>6 DEF Quiet, QuietInv
<1> QED BY <1>1, <1>2, <1>3, <1>4, <1>5, <1>7, Outside

\* prepareToEncrypt.
LEMMA PrepareToEncryptInv ==
  ASSUME OutInv, prepareToEncrypt
  PROVE  OutInv'
<1> USE OutFacts
<1>1. /\ pc[Prep] = "idle" /\ Spend("preps") /\ pc' = [pc EXCEPT ![Prep] = "devices"]
      /\ UNCHANGED <<room, olm, want, blocked, sess, need, setupVars, shareVars, jobs, msgs>>
  BY DEF prepareToEncrypt
<1>2. UsedType' /\ used'.asked = used.asked /\ used'.discarded = used.discarded /\ ~Quiet'
  BY <1>1, Spends DEF UsedType
<1>3. CallType' /\ ShareType'
  BY <1>1 DEF CallType, ShareType, Sessions
<1>4. room' \in [Device -> {"in", "out", "blocked"}] /\ olm' \subseteq Device
  BY <1>1 DEF RestType
<1>5. \A d \in AllCalls : \/ pc'[d] = pc[d]
                          \/ /\ pc[d] \in {"idle", "waitPrep", "devices"}
                             /\ pc'[d] \in {"idle", "waitPrep", "devices"}
  BY <1>1 DEF CallType
<1> QED BY <1>1, <1>2, <1>3, <1>4, <1>5, Outside

\* A device changes what it is to the room.
LEMMA DeviceChangesInv ==
  ASSUME OutInv, NEW d \in Device, DeviceChanges(d)
  PROVE  OutInv'
<1> USE OutFacts
<1>1. /\ Spend("changes") /\ \E r \in {"in", "out", "blocked"} : room' = [room EXCEPT ![d] = r]
      /\ UNCHANGED <<olm, callVars, setupVars, shareVars, jobs, msgs>>
  BY DEF DeviceChanges
<1>2. /\ UsedType' /\ used'.asked = used.asked /\ used'.discarded = used.discarded
      /\ Quiet' => Quiet
  BY <1>1, Spends DEF UsedType
<1>3. CallType' /\ ShareType'
  BY <1>1 DEF CallType, ShareType, Sessions
<1>4. room' \in [Device -> {"in", "out", "blocked"}] /\ olm' \subseteq Device
  BY <1>1 DEF RestType
<1>5. QuietInv => pc'[Prep] = "idle"
  BY <1>1 DEF QuietInv
<1> QED BY <1>1, <1>2, <1>3, <1>4, <1>5, Outside

\* reshareKeyWithDevice: what a device holds is as good already.
LEMMA ReshareInv ==
  ASSUME OutInv, NEW s \in Sessions, NEW d \in Device, reshareKeyWithDevice(s, d)
  PROVE  OutInv'
<1> USE OutFacts
<1>1. /\ Spend("reshares") /\ shared[s][d] # None /\ Delivered(s, {d}, shared[s][d])
      /\ olm' = olm \cup {d}
      /\ UNCHANGED <<room, callVars, setupVars, shared, notified, jobs, msgs>>
  BY DEF reshareKeyWithDevice, Rest
<1>2. /\ UsedType' /\ used'.asked = used.asked /\ used'.discarded = used.discarded
      /\ Quiet' => Quiet
  BY <1>1, Spends DEF UsedType
<1>3. shared[s][d] \in Nat
  BY <1>1 DEF ShareType, Sessions
<1>4. PICK i : i = shared[s][d]
  OBVIOUS
<1>5. /\ holds' \in Seq([Device -> Nat \cup {None}]) /\ Len(holds') = Len(holds)
      /\ DeliveredAt(s, {d}, i)
  BY <1>1, <1>3, <1>4, DeliveredFacts
<1>6. CallType' /\ ShareType'
  BY <1>1, <1>5 DEF CallType, ShareType, Sessions
<1>7. room' \in [Device -> {"in", "out", "blocked"}] /\ olm' \subseteq Device
  BY <1>1 DEF RestType
<1>8. ASSUME QuietInv, NEW t \in Sessions, NEW e \in Device PROVE holds'[t][e] = holds[t][e]
  <2>1. holds[s][d] # None /\ holds[s][d] <= i
    BY <1>1, <1>4, <1>8 DEF QuietInv
  <2>2. holds[s][d] \in Nat \cup {None} /\ i \in Nat
    BY <1>3, <1>4 DEF ShareType, Sessions
  <2>3. ~(i < holds[s][d])
    BY <2>1, <2>2
  <2> QED BY <1>5, <2>1, <2>3 DEF DeliveredAt
<1>9. QuietInv => pc'[Prep] = "idle"
  BY <1>1 DEF QuietInv
<1> QED BY <1>1, <1>2, <1>6, <1>7, <1>8, <1>9, Outside

\* A call's set-up or a discard is hung on the chain.
LEMMA PushChain ==
  ASSUME SetupType, ChainInv, Discard \notin AllCalls,
         NEW x \in AllCalls \cup {Discard}, chain' = Append(chain, x),
         x # Discard => ~InSetup(x) /\ pc'[x] = "queued",
         \A d \in AllCalls \ {x} : pc'[d] = pc[d]
  PROVE  chain' \in Seq(AllCalls \cup {Discard}) /\ ChainInv'
<1>1. /\ Len(chain) \in Nat /\ DOMAIN chain = 1..Len(chain)
      /\ chain' \in Seq(AllCalls \cup {Discard}) /\ DOMAIN chain' = 1..(Len(chain) + 1)
      /\ \A i \in 1..Len(chain) : chain'[i] = chain[i] /\ chain[i] \in AllCalls \cup {Discard}
      /\ chain'[Len(chain) + 1] = x
      /\ chain # <<>> => 1 \in 1..Len(chain)
      /\ chain' # <<>>
  <2>1. /\ chain \in Seq(AllCalls \cup {Discard})
        /\ chain' \in Seq(AllCalls \cup {Discard})
    BY SeqFacts DEF SetupType
  <2> QED BY <2>1, SeqFacts
<1>2. ASSUME NEW i \in 1..Len(chain), chain[i] # Discard
      PROVE  chain[i] # x /\ chain[i] \in AllCalls /\ InSetup(chain[i])
  BY <1>1, <1>2 DEF ChainInv
<1>3. ASSUME NEW i \in 1..(Len(chain) + 1), chain'[i] # Discard PROVE InSetup(chain[i])'
  <2>1. CASE i \in 1..Len(chain)
    BY <1>1, <1>2, <1>3, <2>1 DEF InSetup
  <2>2. CASE i = Len(chain) + 1
    BY <1>1, <1>3, <2>2 DEF InSetup
  <2> QED BY <1>1, <2>1, <2>2
<1>4. ASSUME NEW i \in 1..(Len(chain) + 1), NEW j \in 1..(Len(chain) + 1),
             chain'[i] = chain'[j], chain'[i] # Discard
      PROVE  i = j
  <2>1. CASE i \in 1..Len(chain) /\ j \in 1..Len(chain)
    BY <1>1, <1>4, <2>1 DEF ChainInv
  <2>2. CASE i = Len(chain) + 1 /\ j # i
    BY <1>1, <1>2, <1>4, <2>2
  <2>3. CASE j = Len(chain) + 1 /\ j # i
    BY <1>1, <1>2, <1>4, <2>3
  <2> QED BY <1>1, <2>1, <2>2, <2>3
<1>5. ASSUME NEW d \in AllCalls, pc'[d] \in {"creating", "sharing"}
      PROVE  chain' # <<>> /\ chain'[1] = d
  <2>1. pc[d] = pc'[d]
    BY <1>5
  <2> QED BY <1>1, <1>5, <2>1 DEF ChainInv
<1> QED BY <1>1, <1>3, <1>4, <1>5 DEF ChainInv

\* A discard is taken off the chain: nobody was at work.
LEMMA PopDiscard ==
  ASSUME SetupType, ChainInv, Discard \notin AllCalls, chain # <<>>, Head(chain) = Discard,
         chain' = Tail(chain), UNCHANGED pc
  PROVE  /\ chain' \in Seq(AllCalls \cup {Discard}) /\ ChainInv'
         /\ \A d \in AllCalls : pc[d] \notin {"creating", "sharing"}
<1>1. /\ Len(chain) \in Nat \ {0} /\ DOMAIN chain = 1..Len(chain) /\ chain[1] = Discard
      /\ chain' \in Seq(AllCalls \cup {Discard}) /\ DOMAIN chain' = 1..(Len(chain) - 1)
      /\ \A i \in 1..(Len(chain) - 1) : chain'[i] = chain[i + 1] /\ i + 1 \in DOMAIN chain
  <2>1. chain \in Seq(AllCalls \cup {Discard})
    BY DEF SetupType
  <2> QED BY <2>1, SeqFacts
<1>2. \A d \in AllCalls : pc[d] \notin {"creating", "sharing"}
  BY <1>1 DEF ChainInv
<1>3. ASSUME NEW i \in 1..(Len(chain) - 1), chain'[i] # Discard PROVE InSetup(chain[i])'
  BY <1>1, <1>3 DEF ChainInv, InSetup
<1>4. ASSUME NEW i \in 1..(Len(chain) - 1), NEW j \in 1..(Len(chain) - 1),
             chain'[i] = chain'[j], chain'[i] # Discard
      PROVE  i = j
  <2>1. i + 1 = j + 1
    BY <1>1, <1>4 DEF ChainInv
  <2> QED BY <2>1
<1> QED BY <1>1, <1>2, <1>3, <1>4 DEF ChainInv

\* getDevicesInRoom.
LEMMA GetDevicesInv ==
  ASSUME OutInv, NEW c \in AllCalls, getDevicesInRoom(c)
  PROVE  OutInv'
<1> USE OutFacts
<1>1. /\ pc[c] = "devices"
      /\ UNCHANGED <<room, olm, sess, need, cur, index, born, shareVars, jobs, msgs>>
      /\ Sessions' = Sessions /\ JobType' = JobType
  BY DEF getDevicesInRoom, Sessions, JobType
<1>2. CASE Fail /\ pc' = Ended(c) /\ UNCHANGED <<want, blocked, chain>>
  <2>1. UsedType' /\ used'.asked = used.asked /\ used'.discarded = used.discarded /\ ~Quiet'
    BY <1>2, Spends DEF UsedType, Fail
  <2>2. CallType' /\ ShareType'
    BY <1>1, <1>2 DEF CallType, ShareType, Ended
  <2>3. \A d \in AllCalls : \/ pc'[d] = pc[d]
                            \/ /\ pc[d] \in {"idle", "waitPrep", "devices"}
                               /\ pc'[d] \in {"idle", "waitPrep", "devices"}
    BY <1>1, <1>2 DEF Ended
  <2>4. room' \in [Device -> {"in", "out", "blocked"}] /\ olm' \subseteq Device
    BY <1>1 DEF RestType
  <2> QED BY <1>1, <1>2, <2>1, <2>2, <2>3, <2>4, Outside
<1>3. CASE /\ pc' = [pc EXCEPT ![c] = "queued"] /\ chain' = Append(chain, c) /\ UNCHANGED used
           /\ want' = [want EXCEPT ![c] = {d \in Device : room[d] = "in"}]
           /\ blocked' = [blocked EXCEPT ![c] = {d \in Device : room[d] = "blocked"}]
  <2>1. CallType' /\ ShareType' /\ RestType'
    BY <1>1, <1>3 DEF CallType, ShareType, RestType, UsedType
  <2>2. /\ pc'[c] = "queued" /\ ~InSetup(c)
        /\ \A d \in AllCalls \ {c} : pc'[d] = pc[d] /\ want'[d] = want[d]
    BY <1>1, <1>3 DEF CallType, InSetup
  <2>3. chain' \in Seq(AllCalls \cup {Discard}) /\ ChainInv'
    BY <1>3, <2>2, PushChain
  <2>4. SetupType'
    BY <1>1, <2>3 DEF SetupType
  <2>5. JobsInv'
    <3> SUFFICES ASSUME NEW j \in jobs, j.call # NoCall
                 PROVE  pc'[j.call] = "sharing" /\ j.session = sess[j.call]
      BY <1>1 DEF JobsInv
    <3> QED BY <1>1, <2>2, JobFacts
  <2>6. DiscardsInv'
    BY <1>1, <1>3, PushTally DEF OutInv
  <2>7. \A d \in AllCalls : pc'[d] \in {"sharing", "ready"} => d # c /\ pc'[d] = pc[d]
    BY <2>2
  <2>8. BornInv'
    BY <1>1, <1>3, <2>7 DEF OutInv, BornInv, DiscardIsRespected
  <2>9. RotationInv'
    <3>1. \A s \in Sessions : UsersOf(s)' = UsersOf(s)
      BY <1>1, <2>2 DEF UsersOf
    <3> QED BY <1>1, <3>1 DEF OutInv, RotationInv
  <2>10. ServedInv'
    BY <1>1, <2>2, <2>7 DEF OutInv, ServedInv, Cover
  <2>11. ASSUME Quiet' PROVE QuietInv'
    <3>1. QuietInv
      BY <1>3, <2>11 DEF Quiet
    <3>2. c # Prep /\ pc'[Prep] = "idle"
      BY <1>1, <2>2, <3>1 DEF QuietInv
    <3>3. \A j \in jobs : j.call \in AllCalls /\ j.call # c
      BY <1>1, <3>1, JobFacts DEF QuietInv
    <3>4. OnlyRecipientsRead'
      BY <1>1, <3>1 DEF QuietInv, OnlyRecipientsRead, CanRead
    <3> QED BY <1>1, <2>2, <2>7, <3>1, <3>2, <3>3, <3>4 DEF QuietInv
  <2> QED BY <2>1, <2>3, <2>4, <2>5, <2>6, <2>8, <2>9, <2>10, <2>11 DEF OutInv, Structure, TypeOK
<1> QED BY <1>2, <1>3 DEF getDevicesInRoom

\* What a step of the chain alone keeps.
LEMMA ChainOnly ==
  ASSUME OutInv, UNCHANGED <<room, olm, callVars, index, born, shareVars, jobs, msgs>>,
         chain' \in Seq(AllCalls \cup {Discard}), ChainInv', cur' \in {cur, NoSession},
         UsedType', DiscardsInv', BornInv', Quiet' => Quiet
  PROVE  OutInv'
<1> USE OutFacts
<1>1. Sessions' = Sessions /\ JobType' = JobType
  BY DEF Sessions, JobType
<1>2. CallType' /\ SetupType' /\ ShareType' /\ RestType'
  BY <1>1 DEF CallType, SetupType, ShareType, RestType, UsedType
<1>3. JobsInv' /\ RotationInv' /\ ServedInv'
  BY <1>1 DEF OutInv, JobsInv, RotationInv, UsersOf, ServedInv, Cover
<1>4. QuietInv => QuietInv'
  BY <1>1 DEF QuietInv, OnlyRecipientsRead, CanRead
<1> QED BY <1>2, <1>3, <1>4 DEF OutInv, Structure, TypeOK

\* forceDiscardSession.
LEMMA ForceDiscardInv ==
  ASSUME OutInv, forceDiscardSession
  PROVE  OutInv'
<1> USE OutFacts
<1>1. /\ Spend("asked") /\ chain' = Append(chain, Discard)
      /\ UNCHANGED <<room, olm, callVars, cur, index, born, shareVars, jobs, msgs>>
  BY DEF forceDiscardSession
<1>2. /\ UsedType' /\ used'.asked = used.asked + 1 /\ used'.discarded = used.discarded
      /\ Quiet' => Quiet
  BY <1>1, Spends DEF UsedType
<1>3. chain' \in Seq(AllCalls \cup {Discard}) /\ ChainInv'
  BY <1>1, PushChain
<1>4. DiscardsInv'
  BY <1>1, <1>2, PushTally DEF OutInv, UsedType
<1>5. BornInv'
  BY <1>1, <1>2 DEF OutInv, BornInv, DiscardIsRespected, Sessions
<1> QED BY <1>1, <1>2, <1>3, <1>4, <1>5, ChainOnly

\* The discard's turn comes.
LEMMA DiscardSessionInv ==
  ASSUME OutInv, DiscardSession
  PROVE  OutInv'
<1> USE OutFacts
<1>1. /\ chain # <<>> /\ Head(chain) = Discard /\ chain' = Tail(chain) /\ cur' = NoSession
      /\ Spend("discarded")
      /\ UNCHANGED <<room, olm, callVars, index, born, shareVars, jobs, msgs>>
  BY DEF DiscardSession
<1>2. /\ UsedType' /\ used'.asked = used.asked /\ used'.discarded = used.discarded + 1
      /\ Quiet' => Quiet
  BY <1>1, Spends DEF UsedType
<1>3. /\ chain' \in Seq(AllCalls \cup {Discard}) /\ ChainInv'
      /\ \A d \in AllCalls : pc[d] \notin {"creating", "sharing"}
  BY <1>1, PopDiscard
<1>4. DiscardsInv'
  BY <1>1, <1>2, PopTally DEF OutInv
<1>5. BornInv'
  BY <1>1, <1>3 DEF OutInv, BornInv, DiscardIsRespected, Sessions
<1> QED BY <1>1, <1>2, <1>3, <1>4, <1>5, ChainOnly

\* encryptGroupMessage: one user of the session less, one message more.
LEMMA EncryptGroupMessageInv ==
  ASSUME OutInv, NEW c \in Call, encryptGroupMessage(c)
  PROVE  OutInv'
<1> USE OutFacts
<1>1. PICK s, m : s = sess[c] /\ m = [session |-> s, index |-> index[s], to |-> want[c],
                                      need |-> need[c]]
  OBVIOUS
<1>2. /\ pc[c] = "ready" /\ msgs' = msgs \cup {m} /\ index' = [index EXCEPT ![s] = @ + 1]
      /\ pc' = [pc EXCEPT ![c] = "idle"]
      /\ UNCHANGED <<room, olm, want, blocked, sess, need, chain, cur, born, shareVars, jobs, used>>
  BY <1>1 DEF encryptGroupMessage
<1>3. s \in Sessions /\ born[s] >= need[c]
  BY <1>1, <1>2 DEF OutInv, BornInv
<1>4. /\ index' \in Seq(Nat) /\ Len(index') = Len(index) /\ Sessions' = Sessions
      /\ JobType' = JobType /\ index[s] \in Nat /\ index'[s] = index[s] + 1
      /\ \A t \in Sessions : index[t] \in Nat /\ (t # s => index'[t] = index[t])
  <2>1. index \in Seq(Nat) /\ s \in 1..Len(index)
    BY <1>3 DEF SetupType, Sessions
  <2>2. index' \in Seq(Nat) /\ Len(index') = Len(index)
    BY <1>2, <2>1
  <2>3. Sessions' = Sessions /\ JobType' = JobType
    BY <2>2 DEF Sessions, JobType
  <2>4. \A t \in 1..Len(index) : index[t] \in Nat /\ index'[t] = IF t = s THEN index[s] + 1 ELSE index[t]
    BY ONLY <1>2, <2>1
  <2> QED BY ONLY <2>1, <2>2, <2>3, <2>4 DEF Sessions
<1>5. /\ m.session = s /\ m.index = index[s] /\ m.to = want[c] /\ m.need = need[c]
      /\ m \in [session : Sessions, index : Nat, to : SUBSET Device, need : Nat]
  BY <1>1, <1>3, <1>4 DEF CallType
<1>6. /\ \A d \in AllCalls : d # c => pc'[d] = pc[d]
      /\ pc'[c] = "idle" /\ PcType'
  BY <1>2 DEF CallType
<1>7. CallType' /\ SetupType' /\ ShareType'
  BY <1>2, <1>4, <1>6 DEF CallType, SetupType, ShareType
<1>8. RestType'
  BY <1>2, <1>4, <1>5 DEF RestType, UsedType
<1>9. ChainInv'
  <2>1. \A i \in DOMAIN chain : chain[i] # Discard => chain[i] \in AllCalls /\ chain[i] # c
    <3>1. \A i \in DOMAIN chain : chain[i] \in AllCalls \cup {Discard}
      BY SeqFacts DEF SetupType
    <3> QED BY <1>2, <3>1 DEF ChainInv, InSetup
  <2> QED BY <1>2, <1>6, <2>1 DEF ChainInv, InSetup
<1>10. JobsInv'
  <2> SUFFICES ASSUME NEW j \in jobs, j.call # NoCall
               PROVE  pc'[j.call] = "sharing" /\ j.session = sess[j.call]
    BY <1>2 DEF JobsInv
  <2> QED BY <1>2, <1>6, JobFacts
<1>11. DiscardsInv'
  BY <1>2 DEF OutInv, DiscardsInv, Tally
<1>12. BornInv'
  <2>1. DiscardIsRespected'
    BY <1>2, <1>3, <1>5 DEF OutInv, BornInv, DiscardIsRespected
  <2> QED BY <1>2, <1>4, <1>6, <2>1 DEF OutInv, BornInv
<1>13. RotationInv'
  <2> SUFFICES ASSUME NEW t \in Sessions
               PROVE  index'[t] + Cardinality(UsersOf(t)') <= RotationMsgs + Cardinality(Call) - 1
    BY <1>4 DEF RotationInv
  <2>1. index[t] + Cardinality(UsersOf(t)) <= RotationMsgs + Cardinality(Call) - 1
    BY DEF OutInv, RotationInv
  <2>2. CASE t = s
    <3>1. UsersOf(s)' = UsersOf(s) \ {c} /\ c \in UsersOf(s) /\ UsersOf(s) \subseteq Call
      BY <1>1, <1>2, <1>6 DEF UsersOf
    <3>2. /\ Cardinality(UsersOf(s)') = Cardinality(UsersOf(s)) - 1
          /\ Cardinality(UsersOf(s)) \in Nat
      BY <3>1, Counting
    <3>3. PICK k \in Nat, n \in Nat : k = Cardinality(UsersOf(s)) /\ n = index[s]
      BY <1>4, <3>2
    <3>4. index'[t] = n + 1 /\ Cardinality(UsersOf(t)') = k - 1 /\ index[t] = n
      BY <1>4, <2>2, <3>2, <3>3
    <3> QED BY <2>1, <2>2, <3>3, <3>4
  <2>3. CASE t # s
    <3>1. UsersOf(t)' = UsersOf(t)
      BY <1>1, <1>2, <1>6, <2>3 DEF UsersOf
    <3> QED BY <1>4, <2>1, <2>3, <3>1
  <2> QED BY <2>2, <2>3
<1>14. ServedInv'
  BY <1>2, <1>6 DEF OutInv, ServedInv, Cover
<1>15. ASSUME Quiet' PROVE QuietInv'
  <2>1. QuietInv
    BY <1>2, <1>15 DEF Quiet
  <2>2. \A d \in Call : d = c
    BY <1>15, FS_Singleton, MegolmOutboundAssumption DEF Quiet
  <2>3. jobs = {}
    <3> SUFFICES ASSUME NEW j \in jobs PROVE FALSE
      OBVIOUS
    <3>1. j.call \in Call /\ j.call # NoCall
      BY <2>1 DEF QuietInv
    <3> QED BY <1>2, <2>2, <3>1, JobFacts
  <2>4. \A t \in Sessions, d \in Device :
          /\ holds[t][d] = None <=> shared[t][d] = None
          /\ holds[t][d] <= shared[t][d] /\ shared[t][d] <= index'[t]
    <3> TAKE t \in Sessions, d \in Device
    <3>1. shared[t][d] <= index[t] /\ shared[t][d] \in Int /\ index[t] \in Int
      BY <1>4, <2>1 DEF QuietInv, ShareType, Sessions
    <3>2. shared[t][d] <= index'[t]
      BY <1>4, <3>1, SMTT(30)
    <3> QED BY <2>1, <3>2 DEF QuietInv
  <2>5. \A n \in msgs' : n.index < index'[n.session]
    <3> SUFFICES ASSUME NEW n \in msgs PROVE n.index < index'[n.session]
      BY <1>2, <1>4, <1>5
    <3>1. n.session \in Sessions /\ n.index \in Nat /\ n.index < index[n.session]
      BY <2>1 DEF QuietInv, RestType
    <3> QED BY <1>4, <3>1
  <2>6. OnlyRecipientsRead'
    <3> SUFFICES ASSUME NEW n \in msgs', NEW d \in Device, CanRead(d, n)' PROVE d \in n.to
      BY DEF OnlyRecipientsRead
    <3>1. CanRead(d, n)
      BY <1>2 DEF CanRead
    <3>2. CASE n \in msgs
      BY <2>1, <3>1, <3>2 DEF QuietInv, OnlyRecipientsRead
    <3>3. CASE n = m
      BY <1>1, <1>2, <1>3, <1>5, <2>1, <3>1, <3>3 DEF QuietInv, CanRead
    <3> QED BY <1>2, <3>2, <3>3
  <2>7. pc'[Prep] = "idle"
    BY <1>6, <2>1 DEF QuietInv
  <2> QED BY <1>2, <1>4, <1>6, <2>1, <2>2, <2>3, <2>4, <2>5, <2>6, <2>7 DEF QuietInv
<1> QED BY <1>7, <1>8, <1>9, <1>10, <1>11, <1>12, <1>13, <1>14, <1>15
        DEF OutInv, Structure, TypeOK

-----------------------------------------------------------------------------
(* Set-up of a session.                                                    *)

\* The call at the head of the chain is at work, and no part of a set-up is left
\* that one waits for.
LEMMA AtWork ==
  ASSUME OutInv, NEW c \in AllCalls, pc[c] \in {"queued", "creating"}, chain # <<>>, chain[1] = c
  PROVE  /\ \A j \in jobs : j.call = NoCall
         /\ \A d \in AllCalls : d # c => pc[d] \notin {"creating", "sharing"}
         /\ need[c] <= used.discarded /\ need[c] \in Nat
<1> USE OutFacts
<1>1. \A j \in jobs : j.call = NoCall
  BY JobFacts
<1>2. \A d \in AllCalls : d # c => pc[d] \notin {"creating", "sharing"}
  BY DEF ChainInv
<1>3. Head(chain) = c /\ c # Discard
  BY SeqFacts DEF SetupType
<1> QED BY <1>1, <1>2, <1>3, HeadNeeds DEF OutInv

\* The session that a set-up has chosen: its own or a new one.
Chosen(c, s) ==
  /\ s \in Sessions' /\ Sessions \subseteq Sessions' /\ Sessions' \ Sessions \subseteq {s}
  /\ \A t \in Sessions : /\ index'[t] = index[t] /\ born'[t] = born[t]
                         /\ shared'[t] = shared[t] /\ holds'[t] = holds[t]
  /\ born'[s] = used.discarded /\ index'[s] < RotationMsgs
  /\ \A d \in Device : shared'[s][d] # None => d \in want[c]
  /\ s \notin Sessions => index'[s] = 0 /\ \A d \in Device : shared'[s][d] = None /\ holds'[s][d] = None

\* What share leads to: the parts of the set-up, or its end.
Shares(c, s) ==
  /\ sess' = [sess EXCEPT ![c] = s]
  /\ \/ /\ pc' = [pc EXCEPT ![c] = "sharing"] /\ UNCHANGED <<chain, cur>>
     \/ /\ Leaves(c) /\ PcType'
        /\ cur' = s /\ jobs' = jobs /\ \A d \in want[c] : shared'[s][d] # None
        /\ (c # Prep => \A d \in AllCalls : d # c => pc'[d] = pc[d])
  /\ jobs \subseteq jobs' /\ jobs' \subseteq JobType'
  /\ \A j \in jobs' \ jobs :
       /\ pc'[c] = "sharing" /\ j.call = c /\ j.session = s /\ j.errs = {} /\ j.down = {}
       /\ j.index = index'[s]
       /\ j.stage \in {"share", "claim"} => j.todo \subseteq want[c]
  /\ pc'[c] = "sharing" =>
       \A d \in want[c] : \/ shared'[s][d] # None
                          \/ \E j \in jobs' \ jobs : j.stage # "notify" /\ d \in j.todo

\* share, with what is noted of the session.
LEMMA ShareStep ==
  ASSUME OutInv, NEW c \in AllCalls, pc[c] \in {"queued", "creating"}, chain # <<>>, chain[1] = c,
         NEW s \in Sessions', NEW told, share(c, s, shared'[s], told), index'[s] \in Nat,
         Sessions \subseteq Sessions'
  PROVE  Shares(c, s)
<1> USE OutFacts
<1> DEFINE shareMap == {d \in want[c] : shared'[s][d] = None}
           existing == Job(c, "existing", "share", s, shareMap \cap olm)
           new == Job(c, "new", "claim", s, shareMap \ olm)
           bad == Job(c, "blocked", "notify", s, blocked[c] \ told)
           parts == {existing, new, bad}
<1>1. /\ sess' = [sess EXCEPT ![c] = s] /\ jobs' = jobs \cup {j \in parts : j.todo # {}}
      /\ IF \A j \in parts : j.todo = {}
         THEN /\ pc' = IF c = Prep THEN Ended(c) ELSE [pc EXCEPT ![c] = "ready"]
              /\ chain' = Tail(chain) /\ cur' = s
         ELSE /\ pc' = [pc EXCEPT ![c] = "sharing"]
              /\ UNCHANGED <<chain, cur>>
  BY Zenon DEF share
<1>2. /\ shareMap = {d \in want[c] : shared'[s][d] = None} /\ parts = {existing, new, bad}
  OBVIOUS
<1>3. want[c] \subseteq Device /\ blocked[c] \subseteq Device /\ shareMap \subseteq want[c]
  BY DEF CallType
<1> HIDE DEF shareMap
<1>4. /\ existing.call = c /\ existing.stage = "share" /\ existing.session = s
      /\ existing.index = index'[s] /\ existing.todo = shareMap \cap olm /\ existing.errs = {}
      /\ existing.down = {} /\ existing \in JobType'
  BY <1>3 DEF Job, JobType
<1>5. /\ new.call = c /\ new.stage = "claim" /\ new.session = s
      /\ new.index = index'[s] /\ new.todo = shareMap \ olm /\ new.errs = {}
      /\ new.down = {} /\ new \in JobType'
  BY <1>3 DEF Job, JobType
<1>6. /\ bad.call = c /\ bad.stage = "notify" /\ bad.session = s
      /\ bad.index = index'[s] /\ bad.errs = {} /\ bad.down = {} /\ bad \in JobType'
  BY <1>3 DEF Job, JobType
<1> HIDE DEF existing, new, bad, parts
<1>7. jobs \subseteq jobs' /\ jobs' \subseteq JobType'
  <2>1. jobs \subseteq JobType'
    BY DEF RestType, JobType
  <2> QED BY <1>2, <1>1, <1>4, <1>5, <1>6, <2>1
<1>8. ASSUME NEW j \in jobs' \ jobs
      PROVE  /\ j \in parts /\ j.todo # {} /\ j.call = c /\ j.session = s /\ j.errs = {}
             /\ j.down = {} /\ j.index = index'[s]
             /\ j.stage \in {"share", "claim"} => j.todo \subseteq want[c]
  BY <1>2, <1>1, <1>3, <1>4, <1>5, <1>6
<1>9. \A j \in parts : j \notin jobs
  BY <1>2, <1>4, <1>5, <1>6, AtWork
<1>10. CASE \A j \in parts : j.todo = {}
  <2>1. /\ pc' = IF c = Prep THEN Ended(c) ELSE [pc EXCEPT ![c] = "ready"]
        /\ chain' = Tail(chain) /\ cur' = s
    BY <1>1, <1>10
  <2>2. /\ PcType'
        /\ Others(c) /\ pc'[c] \in {"idle", "ready"}
        /\ (c # Prep => \A d \in AllCalls : d # c => pc'[d] = pc[d])
    BY <2>1 DEF CallType, Ended, Others
  <2>3. Leaves(c)
    BY <2>1, <2>2 DEF Leaves
  <2>4. jobs' = jobs /\ shareMap = {}
    BY <1>2, <1>1, <1>4, <1>5, <1>10
  <2>5. \A d \in want[c] : shared'[s][d] # None
    BY <1>2, <2>4
  <2> QED BY <1>1, <1>7, <2>1, <2>2, <2>3, <2>4, <2>5 DEF Shares
<1>11. CASE ~ \A j \in parts : j.todo = {}
  <2>1. pc' = [pc EXCEPT ![c] = "sharing"] /\ UNCHANGED <<chain, cur>> /\ pc'[c] = "sharing"
    BY <1>1, <1>11 DEF CallType
  <2>2. ASSUME NEW d \in want[c], shared'[s][d] = None
        PROVE  \E j \in jobs' \ jobs : j.stage # "notify" /\ d \in j.todo
    <3>1. d \in existing.todo \/ d \in new.todo
      BY <1>2, <1>4, <1>5, <2>2
    <3> QED BY <1>2, <1>1, <1>4, <1>5, <1>9, <3>1
  <2> QED BY <1>1, <1>7, <1>8, <2>1, <2>2 DEF Shares
<1> QED BY <1>10, <1>11

\* A set-up has chosen its session and shares it, or is done.
LEMMA ShareInv ==
  ASSUME OutInv, NEW c \in AllCalls, pc[c] \in {"queued", "creating"}, chain # <<>>, chain[1] = c,
         NEW s, Chosen(c, s), Shares(c, s),
         index' \in Seq(Nat), born' \in Seq(Nat), Len(born') = Len(index'), ShareType',
         UsedType', used'.asked = used.asked, used'.discarded = used.discarded, Quiet' => Quiet,
         UNCHANGED <<room, olm, want, blocked, need, msgs>>
  PROVE  OutInv'
<1> USE OutFacts
<1>1. /\ s \in Sessions' /\ Sessions \subseteq Sessions' /\ Sessions' \ Sessions \subseteq {s}
      /\ \A t \in Sessions : /\ index'[t] = index[t] /\ born'[t] = born[t]
                             /\ shared'[t] = shared[t] /\ holds'[t] = holds[t]
      /\ 0 \notin Sessions'
  BY DEF Chosen, Sessions
<1>2. /\ PcType'
      /\ Others(c) /\ sess' = [sess EXCEPT ![c] = s] /\ sess'[c] = s
      /\ \A d \in AllCalls : d # c => sess'[d] = sess[d]
      /\ jobs \subseteq jobs' /\ jobs' \subseteq JobType'
      /\ pc'[c] = "sharing" \/ (Leaves(c) /\ jobs' = jobs)
  BY DEF Shares, CallType, Leaves, Others
<1>3. \A d \in AllCalls : d # c /\ pc'[d] \in {"sharing", "ready"} => pc[d] = "ready" /\ pc'[d] = "ready"
  BY <1>2, AtWork DEF Others
<1>4. CallType'
  BY <1>1, <1>2 DEF CallType
<1>5. SetupType' /\ ChainInv'
  <2>1. CASE UNCHANGED <<chain, cur>> /\ pc' = [pc EXCEPT ![c] = "sharing"]
    <3>1. SetupType'
      BY <1>1, <2>1 DEF SetupType
    <3>2. pc'[c] = "sharing" /\ \A d \in AllCalls : d # c => pc'[d] = pc[d]
      BY <2>1 DEF CallType
    <3>3. \A k \in DOMAIN chain : chain[k] \in AllCalls \cup {Discard}
      BY SeqFacts DEF SetupType
    <3>4. ChainInv'
      BY <2>1, <3>2, <3>3 DEF ChainInv, InSetup
    <3> QED BY <3>1, <3>4
  <2>2. CASE Leaves(c) /\ cur' = s
    <3>1. chain' \in Seq(AllCalls \cup {Discard}) /\ ChainInv'
      BY <2>2, PopChain
    <3> QED BY <1>1, <2>2, <3>1 DEF SetupType
  <2> QED BY <2>1, <2>2 DEF Shares
<1>6. RestType'
  BY <1>1, <1>2 DEF RestType, UsedType
<1>7. JobsInv'
  BY <1>2, AtWork DEF JobsInv, Shares
<1>8. DiscardsInv'
  <2>1. CASE UNCHANGED chain
    BY <2>1 DEF OutInv, DiscardsInv, Tally
  <2>2. CASE Leaves(c)
    <3>1. Head(chain) = c /\ c # Discard /\ chain' = Tail(chain)
      BY <2>2, SeqFacts DEF SetupType, Leaves
    <3> QED BY <3>1, PopTally DEF OutInv
  <2> QED BY <2>1, <2>2 DEF Shares
<1>9. born'[s] = used.discarded /\ index'[s] < RotationMsgs /\ index'[s] \in Nat
  BY <1>1 DEF Chosen, Sessions
<1>10. BornInv'
  <2>1. cur' # NoSession => born'[cur'] = used'.discarded
    <3>1. CASE cur' = s
      BY <1>9, <3>1
    <3>2. CASE cur' = cur
      BY <1>1, <3>2 DEF OutInv, BornInv, SetupType
    <3> QED BY <3>1, <3>2 DEF Shares
  <2>2. ASSUME NEW d \in AllCalls, pc'[d] = "sharing"
        PROVE  sess'[d] \in Sessions' /\ born'[sess'[d]] = used'.discarded
    BY <1>1, <1>2, <1>3, <1>9, <2>2
  <2>3. ASSUME NEW d \in AllCalls, pc'[d] = "ready"
        PROVE  sess'[d] \in Sessions' /\ born'[sess'[d]] >= need'[d]
    <3>1. CASE d = c
      BY <1>1, <1>2, <1>9, <3>1, AtWork
    <3>2. CASE d # c
      BY <1>1, <1>2, <1>3, <2>3, <3>2 DEF OutInv, BornInv
    <3> QED BY <3>1, <3>2
  <2>4. DiscardIsRespected'
    BY <1>1 DEF OutInv, BornInv, DiscardIsRespected, RestType
  <2> QED BY <2>1, <2>2, <2>3, <2>4 DEF BornInv
<1>11. RotationInv'
  <2> SUFFICES ASSUME NEW t \in Sessions'
               PROVE  index'[t] + Cardinality(UsersOf(t)') <= RotationMsgs + Cardinality(Call) - 1
    BY DEF RotationInv
  <2>1. RotationMsgs \in Nat /\ Cardinality(Call) \in Nat
    BY MegolmOutboundAssumption, Counting
  <2>2. CASE t = s
    <3>1. UsersOf(t)' \subseteq Call
      BY DEF UsersOf
    <3>2. Cardinality(UsersOf(t)') \in Nat /\ Cardinality(UsersOf(t)') <= Cardinality(Call)
      BY <3>1, Counting
    <3> QED BY <1>9, <2>1, <2>2, <3>2
  <2>3. CASE t # s
    <3>1. t \in Sessions /\ index'[t] = index[t] /\ index[t] \in Nat
      <4>1. t \in Sessions /\ index'[t] = index[t]
        BY <1>1, <2>3
      <4> QED BY <4>1, SMTT(30) DEF SetupType, Sessions
    <3>2. UsersOf(t)' \subseteq UsersOf(t) /\ UsersOf(t) \subseteq Call
      BY <1>2, <1>3, <2>3 DEF UsersOf
    <3>3. /\ Cardinality(UsersOf(t)') <= Cardinality(UsersOf(t))
          /\ Cardinality(UsersOf(t)) \in Nat /\ Cardinality(UsersOf(t)') \in Nat
      BY <3>2, Counting
    <3>4. index[t] + Cardinality(UsersOf(t)) <= RotationMsgs + Cardinality(Call) - 1
      BY <3>1 DEF OutInv, RotationInv
    <3> QED BY <2>1, <3>1, <3>3, <3>4
  <2> QED BY <2>2, <2>3
<1>12. ServedInv'
  <2>1. ASSUME NEW d \in AllCalls, d # c, pc'[d] = "ready" PROVE Cover(d, {NoCall})'
    <3>1. pc[d] = "ready" /\ sess[d] \in Sessions /\ Cover(d, {NoCall})
      BY <1>3, <2>1 DEF OutInv, ServedInv, BornInv
    <3> QED BY <1>1, <1>2, <2>1, <3>1 DEF Cover
  <2>2. ASSUME pc'[c] = "sharing" PROVE Cover(c, {c, NoCall})'
    BY <1>2, <2>2 DEF Shares, Cover
  <2>3. ASSUME pc'[c] = "ready" PROVE Cover(c, {NoCall})'
    <3>1. \A d \in want[c] : shared'[s][d] # None
      BY <2>3 DEF Shares, CallType
    <3> QED BY <1>2, <3>1 DEF Cover
  <2> QED BY <1>3, <2>1, <2>2, <2>3 DEF ServedInv
<1>13. ASSUME Quiet' PROVE QuietInv'
  <2>1. QuietInv
    BY <1>13
  <2>2. c \in Call /\ \A d \in Call : d = c
    <3>1. c # Prep
      BY <2>1 DEF QuietInv
    <3> QED BY <1>13, <3>1, FS_Singleton, MegolmOutboundAssumption DEF Quiet, AllCalls
  <2>3. pc'[Prep] = "idle"
    BY <1>2, <2>1, <2>2 DEF QuietInv, Others
  <2>4. \A j \in jobs' : /\ j.call \in Call /\ j.errs = {} /\ j.down = {}
                         /\ j.stage \in {"share", "claim"} => j.todo \subseteq want'[j.call]
                         /\ j.index = index'[j.session]
    <3>1. jobs = {}
      BY <2>1, AtWork DEF QuietInv
    <3> QED BY <2>2, <3>1 DEF Shares
  <2>5. \A t \in Sessions', d \in Device :
          /\ holds'[t][d] = None <=> shared'[t][d] = None
          /\ holds'[t][d] <= shared'[t][d] /\ shared'[t][d] <= index'[t]
    <3> TAKE t \in Sessions', d \in Device
    <3>1. CASE t \in Sessions
      BY <1>1, <2>1, <3>1 DEF QuietInv
    <3>2. CASE t \notin Sessions
      <4>1. t = s /\ index'[t] = 0 /\ shared'[t][d] = None /\ holds'[t][d] = None
        BY <1>1, <3>2 DEF Chosen
      <4> QED BY <4>1
    <3> QED BY <3>1, <3>2
  <2>6. ASSUME NEW e \in Call, NEW d \in Device, shared'[sess'[e]][d] # None PROVE d \in want'[e]
    BY <1>2, <2>2, <2>6 DEF Chosen
  <2>7. \A m \in msgs : m.session \in Sessions
    BY DEF RestType
  <2>8. OnlyRecipientsRead' /\ \A m \in msgs' : m.index < index'[m.session]
    BY <1>1, <2>1, <2>7, ZenonT(30) DEF QuietInv, OnlyRecipientsRead, CanRead
  <2> QED BY <2>3, <2>4, <2>5, <2>6, <2>8 DEF QuietInv
<1> QED BY <1>4, <1>5, <1>6, <1>7, <1>8, <1>10, <1>11, <1>12, <1>13 DEF OutInv, Structure, TypeOK

\* prepareSession: the session at hand, or a new one is needed.
LEMMA PrepareSessionInv ==
  ASSUME OutInv, NEW c \in AllCalls, prepareSession(c)
  PROVE  OutInv'
<1> USE OutFacts
<1>1. /\ pc[c] = "queued" /\ chain # <<>> /\ chain[1] = c
      /\ UNCHANGED <<room, olm, want, blocked, need, born, shareVars, msgs>>
  <2>1. /\ pc[c] = "queued" /\ chain # <<>> /\ Head(chain) = c
        /\ UNCHANGED <<room, olm, want, blocked, need, born, shareVars, msgs>>
    BY Zenon DEF prepareSession
  <2> QED BY <2>1, SeqFacts DEF SetupType
<1>2. CASE ~MustRenew(c) /\ UNCHANGED <<index, used>> /\ share(c, cur, shared[cur], notified[cur])
  <2>1. cur # NoSession /\ cur \in Sessions /\ Sessions' = Sessions
    BY <1>2 DEF MustRenew, SetupType, Sessions
  <2>2. index[cur] \in Nat /\ RotationMsgs \in Nat
    BY <2>1, MegolmOutboundAssumption, SMTT(30) DEF SetupType, Sessions
  <2>3. PICK s, told : s = cur /\ told = notified[cur]
    OBVIOUS
  <2>4. Chosen(c, s)
    <3>1. index[s] < RotationMsgs
      BY <1>2, <2>1, <2>2, <2>3 DEF MustRenew, needsRotation
    <3>2. \A d \in Device : shared[s][d] # None => d \in want[c]
      BY <1>2, <2>1, <2>3 DEF MustRenew, sharedWithTooManyDevices
    <3>3. born[s] = used.discarded
      BY <2>1, <2>3 DEF OutInv, BornInv
    <3> QED BY <1>1, <1>2, <2>1, <2>3, <3>1, <3>2, <3>3 DEF Chosen
  <2>5. shared'[s] = shared[s] /\ index'[s] \in Nat /\ share(c, s, shared'[s], told)
    <3>1. shared' = shared /\ index' = index
      BY <1>1, <1>2
    <3> QED BY <1>2, <2>2, <2>3, <3>1, Zenon
  <2>6. Shares(c, s)
    BY <1>1, <2>1, <2>3, <2>5, ShareStep
  <2>7. ShareType' /\ UsedType' /\ (Quiet' => Quiet)
    BY <1>1, <1>2 DEF ShareType, UsedType, Quiet
  <2>8. index' \in Seq(Nat) /\ born' \in Seq(Nat) /\ Len(born') = Len(index')
    BY <1>1, <1>2 DEF SetupType
  <2> QED BY <1>1, <1>2, <2>4, <2>6, <2>7, <2>8, ShareInv
<1>3. ASSUME UNCHANGED used \/ Spend("old"), pc' = [pc EXCEPT ![c] = "creating"],
             UNCHANGED <<sess, jobs, chain, cur, index>>
      PROVE  OutInv'
  <2>1. /\ UsedType' /\ used'.asked = used.asked /\ used'.discarded = used.discarded
        /\ Quiet' => Quiet
    <3>1. CASE UNCHANGED used
      BY <3>1 DEF UsedType, Quiet
    <3>2. CASE Spend("old")
      BY <3>2, Spends DEF UsedType
    <3> QED BY <1>3, <3>1, <3>2
  <2>2. Sessions' = Sessions /\ JobType' = JobType
    BY <1>3 DEF Sessions, JobType
  <2>3. pc'[c] = "creating" /\ \A d \in AllCalls : d # c => pc'[d] = pc[d]
    BY <1>3 DEF CallType
  <2>4. CallType' /\ SetupType' /\ ShareType' /\ RestType'
    BY <1>1, <1>3, <2>1, <2>2 DEF CallType, SetupType, ShareType, RestType, UsedType
  <2>5. \A k \in DOMAIN chain : chain[k] \in AllCalls \cup {Discard}
    BY SeqFacts DEF SetupType
  <2>6. ChainInv'
    BY <1>1, <1>3, <2>3, <2>5 DEF ChainInv, InSetup
  <2>7. JobsInv'
    BY <1>1, <1>3, AtWork DEF JobsInv
  <2>8. DiscardsInv'
    BY <1>1, <1>3, <2>1 DEF OutInv, DiscardsInv, Tally
  <2>9. \A d \in AllCalls : pc'[d] \in {"sharing", "ready"} => pc'[d] = pc[d]
    BY <2>3
  <2>10. BornInv'
    BY <1>1, <1>3, <2>1, <2>2, <2>9 DEF OutInv, BornInv, DiscardIsRespected
  <2>11. RotationInv'
    <3>1. \A s \in Sessions : UsersOf(s)' = UsersOf(s)
      BY <1>1, <1>3, <2>3 DEF UsersOf
    <3> QED BY <1>3, <2>2, <3>1 DEF OutInv, RotationInv
  <2>12. ServedInv'
    BY <1>1, <1>3, <2>9 DEF OutInv, ServedInv, Cover
  <2>13. ASSUME Quiet' PROVE QuietInv'
    <3>1. QuietInv
      BY <2>1, <2>13
    <3>2. pc'[Prep] = "idle"
      BY <1>1, <2>3, <3>1 DEF QuietInv
    <3>3. OnlyRecipientsRead'
      BY <1>1, <3>1 DEF QuietInv, OnlyRecipientsRead, CanRead
    <3> QED BY <1>1, <1>3, <2>2, <2>9, <3>1, <3>2, <3>3 DEF QuietInv
  <2> QED BY <2>4, <2>6, <2>7, <2>8, <2>10, <2>11, <2>12, <2>13 DEF OutInv, Structure, TypeOK
<1> QED BY <1>2, <1>3, Zenon DEF prepareSession

\* prepareNewSession: the next session is like no other, or the set-up fails.
LEMMA PrepareNewSessionInv ==
  ASSUME OutInv, NEW c \in AllCalls, prepareNewSession(c)
  PROVE  OutInv'
<1> USE OutFacts
<1>1. pc[c] = "creating" /\ UNCHANGED <<room, olm, want, blocked, need, msgs>>
  BY Zenon DEF prepareNewSession
<1>2. chain # <<>> /\ chain[1] = c
  BY <1>1 DEF ChainInv
<1> DEFINE nobody == [d \in Device |-> None]
<1>3. ASSUME NEW s, s = Len(index) + 1, UNCHANGED used,
             index' = Append(index, 0), born' = Append(born, used.discarded),
             shared' = Append(shared, nobody), holds' = Append(holds, nobody),
             notified' = Append(notified, {}), share(c, s, nobody, {})
      PROVE  OutInv'
  <2>1. /\ index' \in Seq(Nat) /\ born' \in Seq(Nat) /\ Len(born') = Len(index')
        /\ Len(index') = Len(index) + 1 /\ Len(index) \in Nat
        /\ \A t \in 1..Len(index) : index'[t] = index[t] /\ born'[t] = born[t]
        /\ index'[s] = 0 /\ born'[s] = used.discarded
    BY <1>3, SeqFacts DEF SetupType
  <2>2. /\ shared' \in Seq([Device -> Nat \cup {None}]) /\ Len(shared') = Len(index')
        /\ \A t \in 1..Len(index) : shared'[t] = shared[t]
        /\ shared'[s] = nobody
    <3>1. nobody \in [Device -> Nat \cup {None}] /\ shared \in Seq([Device -> Nat \cup {None}])
      BY DEF ShareType
    <3>2. PICK n : n = nobody
      OBVIOUS
    <3> HIDE DEF nobody
    <3> QED BY <1>3, <2>1, <3>1, <3>2, SeqFacts DEF ShareType
  <2>3. /\ holds' \in Seq([Device -> Nat \cup {None}]) /\ Len(holds') = Len(index')
        /\ \A t \in 1..Len(index) : holds'[t] = holds[t]
        /\ holds'[s] = nobody
    <3>1. nobody \in [Device -> Nat \cup {None}] /\ holds \in Seq([Device -> Nat \cup {None}])
      BY DEF ShareType
    <3> HIDE DEF nobody
    <3> QED BY <1>3, <2>1, <3>1, SeqFacts DEF ShareType
  <2>4. notified' \in Seq(SUBSET Device) /\ Len(notified') = Len(index')
    BY <1>3, <2>1, SeqFacts DEF ShareType
  <2>5. ShareType'
    BY <2>2, <2>3, <2>4 DEF ShareType
  <2>6. \A d \in Device : nobody[d] = None
    OBVIOUS
  <2> HIDE DEF nobody
  <2>7. /\ s \in Sessions' /\ Sessions \subseteq Sessions' /\ Sessions' \ Sessions \subseteq {s}
        /\ s \notin Sessions
    BY <1>3, <2>1, SMTT(30) DEF Sessions
  <2>8. RotationMsgs \in Nat \ {0}
    BY MegolmOutboundAssumption
  <2>9. Chosen(c, s)
    <3>1. \A t \in Sessions : /\ index'[t] = index[t] /\ born'[t] = born[t]
                              /\ shared'[t] = shared[t] /\ holds'[t] = holds[t]
      BY <2>1, <2>2, <2>3 DEF Sessions
    <3>2. index'[s] < RotationMsgs
      BY <2>1, <2>8
    <3> QED BY <2>1, <2>2, <2>3, <2>6, <2>7, <3>1, <3>2 DEF Chosen
  <2>10. share(c, s, shared'[s], {})
    BY <1>3, <2>2, Zenon
  <2>11. index'[s] \in Nat
    BY <2>1
  <2>12. Shares(c, s)
    BY <1>1, <1>2, <2>7, <2>10, <2>11, ShareStep
  <2>13. UsedType' /\ (Quiet' => Quiet)
    BY <1>3 DEF UsedType, Quiet
  <2> QED BY <1>1, <1>2, <1>3, <2>1, <2>5, <2>9, <2>12, <2>13, ShareInv
<1>4. CASE /\ Fail /\ pc' = Ended(c) /\ chain' = Tail(chain) /\ cur' = NoSession
           /\ UNCHANGED <<sess, index, born, shareVars, jobs>>
  <2>1. UsedType' /\ used'.asked = used.asked /\ used'.discarded = used.discarded /\ ~Quiet'
    BY <1>4, Spends DEF UsedType, Fail
  <2>2. Sessions' = Sessions /\ JobType' = JobType
    BY <1>4 DEF Sessions, JobType
  <2>3. Leaves(c) /\ pc'[c] = "idle"
    BY <1>2, <1>4 DEF Leaves, Others, Ended
  <2>4. /\ chain' \in Seq(AllCalls \cup {Discard}) /\ ChainInv'
        /\ \A d \in AllCalls : pc'[d] \notin {"creating", "sharing"}
    BY <2>3, PopChain
  <2>5. CallType' /\ SetupType' /\ ShareType' /\ RestType'
    BY <1>1, <1>4, <2>1, <2>2, <2>4 DEF CallType, SetupType, ShareType, RestType, UsedType, Ended
  <2>6. JobsInv'
    BY <1>1, <1>2, <1>4, AtWork DEF JobsInv
  <2>7. DiscardsInv'
    <3>1. Head(chain) = c /\ c # Discard
      BY <1>2, SeqFacts DEF SetupType
    <3> QED BY <1>1, <1>2, <1>4, <2>1, <3>1, PopTally DEF OutInv
  <2>8. \A d \in AllCalls : pc'[d] = "ready" => pc[d] = "ready" /\ d # c
    BY <2>3 DEF Leaves, Others
  <2>9. BornInv'
    BY <1>1, <1>4, <2>1, <2>2, <2>4, <2>8 DEF OutInv, BornInv, DiscardIsRespected
  <2>10. RotationInv'
    <3>1. \A s \in Sessions : UsersOf(s)' = UsersOf(s)
      <4>1. \A d \in AllCalls : pc'[d] \in {"sharing", "ready"} <=> pc[d] \in {"sharing", "ready"}
        BY <1>1, <1>2, <2>3, AtWork DEF Leaves, Others
      <4> QED BY <1>4, <4>1 DEF UsersOf
    <3> QED BY <1>4, <2>2, <3>1 DEF OutInv, RotationInv
  <2>11. ServedInv'
    BY <1>1, <1>4, <2>4, <2>8 DEF OutInv, ServedInv, Cover
  <2> QED BY <2>1, <2>4, <2>5, <2>6, <2>7, <2>9, <2>10, <2>11 DEF OutInv, Structure, TypeOK
<1> QED BY <1>3, <1>4, Zenon DEF prepareNewSession

-----------------------------------------------------------------------------
(* The invariant and what it is for.                                       *)

\* OutInv holds at the start.
LEMMA InitInv == Init => OutInv
<1> SUFFICES ASSUME Init PROVE OutInv
  OBVIOUS
<1> USE DEF Init
<1>1. Sessions = {} /\ Len(index) = 0 /\ Len(chain) = 0 /\ DOMAIN chain = {}
  BY DEF Sessions
<1>2. CallType /\ SetupType /\ ShareType /\ RestType
  <2>1. CallType
    BY <1>1 DEF CallType
  <2>2. SetupType
    BY <1>1 DEF SetupType
  <2>3. ShareType
    BY <1>1 DEF ShareType
  <2>4. RestType
    BY <1>1 DEF RestType, UsedType
  <2> QED BY <2>1, <2>2, <2>3, <2>4
<1>3. ChainInv /\ JobsInv
  BY <1>1 DEF ChainInv, JobsInv
<1>4. DiscardsInv
  <2>1. PICK f : f = [k \in 0..0 |-> 0]
    OBVIOUS
  <2>2. f \in [0..Len(chain) -> 0..used.asked] /\ f[0] = 0
    BY <1>1, <2>1
  <2>3. Tally(f)
    BY <1>1, <2>2 DEF Tally
  <2> QED BY <2>2, <2>3 DEF DiscardsInv
<1>5. BornInv /\ RotationInv /\ ServedInv
  BY <1>1 DEF BornInv, DiscardIsRespected, RotationInv, ServedInv
<1>6. QuietInv
  <2>1. Prep \in AllCalls
    BY DEF AllCalls
  <2>2. \A c \in Call : pc[c] = "idle"
    BY DEF AllCalls
  <2> QED BY <1>1, <2>1, <2>2 DEF QuietInv, OnlyRecipientsRead
<1> QED BY <1>2, <1>3, <1>4, <1>5, <1>6 DEF OutInv, Structure, TypeOK

\* A step that changes nothing keeps it.
LEMMA StutterInv ==
  ASSUME OutInv, UNCHANGED vars
  PROVE  OutInv'
<1> USE OutFacts DEF vars
<1>1. CallType' /\ ShareType' /\ UsedType'
  BY DEF CallType, ShareType, UsedType, Sessions
<1>2. Quiet' => Quiet /\ (QuietInv => pc'[Prep] = "idle")
  BY DEF Quiet, QuietInv
<1>3. room' \in [Device -> {"in", "out", "blocked"}] /\ olm' \subseteq Device
  BY DEF RestType
<1> QED BY <1>1, <1>2, <1>3, Outside

\* Every step keeps it.
LEMMA NextInv ==
  ASSUME OutInv, [Next]_vars
  PROVE  OutInv'
<1>1. ASSUME NEW c \in Call, encryptMessage(c) \/ encryptGroupMessage(c) PROVE OutInv'
  BY <1>1, EncryptMessageInv, EncryptGroupMessageInv
<1>2. ASSUME NEW c \in AllCalls, CallStep(c) PROVE OutInv'
  BY <1>2, GetDevicesInv, PrepareSessionInv, PrepareNewSessionInv DEF CallStep
<1>3. ASSUME NEW j \in jobs, JobStep(j) PROVE OutInv'
  BY <1>3, SendKeysInv, ClaimInv, KeysSentInv, NotifyInv DEF JobStep
<1>4. CASE prepareToEncrypt
  BY <1>4, PrepareToEncryptInv
<1>5. CASE forceDiscardSession \/ DiscardSession
  BY <1>5, ForceDiscardInv, DiscardSessionInv
<1>6. ASSUME NEW s \in Sessions, NEW d \in Device, reshareKeyWithDevice(s, d) PROVE OutInv'
  BY <1>6, ReshareInv
<1>7. ASSUME NEW d \in Device, DeviceChanges(d) PROVE OutInv'
  BY <1>7, DeviceChangesInv
<1>8. CASE UNCHANGED vars
  BY <1>8, StutterInv
<1> QED BY <1>1, <1>2, <1>3, <1>4, <1>5, <1>6, <1>7, <1>8, Zenon DEF Next

\* OutInv is an invariant of the specification.
THEOREM OutInvHolds == Spec => []OutInv
BY InitInv, NextInv, PTL DEF Spec

\* However calls, preparations, discards and failures overlap, no message is
\* encrypted with a session that was due for rotation, or that was made before a
\* discard which the call follows (megolm.ts, ensureOutboundSession,
\* forceDiscardSession).
THEOREM OutboundSound == Spec => []OutboundIsSound
<1>1. OutInv => OutboundIsSound
  <2> SUFFICES ASSUME OutInv PROVE OutboundIsSound
    OBVIOUS
  <2>1. RotationIsDue
    <3> SUFFICES ASSUME NEW s \in Sessions PROVE index[s] <= RotationMsgs + Cardinality(Call) - 1
      BY DEF RotationIsDue
    <3>1. UsersOf(s) \subseteq Call
      BY DEF UsersOf
    <3>2. Cardinality(UsersOf(s)) \in Nat /\ Cardinality(Call) \in Nat
      BY <3>1, Counting
    <3>3. index[s] \in Nat /\ RotationMsgs \in Nat
      BY MegolmOutboundAssumption, SMTT(30) DEF OutInv, Structure, TypeOK, SetupType, Sessions
    <3> QED BY <3>2, <3>3 DEF OutInv, RotationInv
  <2> QED BY <2>1 DEF OutInv, OutboundIsSound, Structure, BornInv
<1> QED BY <1>1, OutInvHolds, PTL

\* With one call at a time, no failure and nothing in the background, only the
\* devices that a message was encrypted for can read it: "a race-free view of which
\* session we are using, and which devices we have shared the keys with".
THEOREM RecipientsOnly == Spec => []OnlyRecipientsReadWhenSmooth
<1>1. OutInv => OnlyRecipientsReadWhenSmooth
  BY DEF OutInv, OnlyRecipientsReadWhenSmooth, Quiet, QuietInv
<1> QED BY <1>1, OutInvHolds, PTL

\* A message is encrypted only when each of its devices has the key, has been given
\* up on or is being retried (encryptMessage awaits ensureOutboundSession): the
\* safety part of EncryptedForAll.
THEOREM ServedFirst == Spec => EncryptedWhenServed
<1>1. ASSUME OutInv, [Next]_vars, NEW m \in msgs' \ msgs PROVE Served(m)
  <2>1. PICK c \in Call : encryptGroupMessage(c)
    <3>1. CASE UNCHANGED msgs
      BY <1>1, <3>1
    <3> QED BY <1>1, <3>1, Zenon
        DEF Next, vars, encryptMessage, prepareToEncrypt, CallStep, getDevicesInRoom, prepareSession,
            prepareNewSession, forceDiscardSession, DiscardSession, JobStep,
            encryptAndSendKeysToDevices, ensureOlmSessionsForDevices, KeysSent,
            notifyBlockedDevices, reshareKeyWithDevice, DeviceChanges, Rest
  <2>2. /\ pc[c] = "ready" /\ c \in AllCalls
        /\ m = [session |-> sess[c], index |-> index[sess[c]], to |-> want[c], need |-> need[c]]
    BY <1>1, <2>1 DEF encryptGroupMessage, AllCalls
  <2>3. m.session = sess[c] /\ m.to = want[c] /\ Cover(c, {NoCall})
    BY <1>1, <2>2 DEF OutInv, ServedInv
  <2> HIDE <2>2
  <2> QED BY <2>3 DEF Served, Cover
<1>2. OutInv /\ [Next]_vars => [\A m \in msgs' \ msgs : Served(m)]_vars
  BY <1>1
<1> QED BY <1>2, OutInvHolds, PTL DEF Spec, EncryptedWhenServed

=============================================================================
