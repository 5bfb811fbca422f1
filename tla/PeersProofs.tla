---------------------------- MODULE PeersProofs -----------------------------
(***************************************************************************)
(* What one side knows of another: proofs about CallMedia, that the        *)
(* negotiations of a call settle, and about DeviceList, that the device    *)
(* lists are sound, for any number of users, changes, lost requests,       *)
(* failures, transactions and reloads.                                     *)
(***************************************************************************)
EXTENDS CallMedia, DeviceList, SequenceTheorems, TLAPS

-----------------------------------------------------------------------------
(***************************************************************************)
(* That the negotiations of a call settle.                                 *)
(*                                                                         *)
(* Of what a side has negotiated, the other learns by an offer that is     *)
(* waited with, sent, received and answered, the answer sent and received: *)
(* an exchange, of which each side has one at most, and it is in one of    *)
(* these six steps.  The invariant says so, and in each step what the      *)
(* messages on their way contain and what the other side has seen.  An     *)
(* offer of the callee that crosses one of the caller's is in no step at   *)
(* all: the caller has ignored it, or will.                                *)
(*                                                                         *)
(* box is what is on its way to a side, ops what its peer connection has   *)
(* to do.  What is needed of these sequences is which kinds of elements    *)
(* there are, in which order, and with which descriptions; the first       *)
(* lemmas say how that changes when an element is added or taken.          *)
(***************************************************************************)

-----------------------------------------------------------------------------
(* Sequences.                                                              *)

\* What a sequence of elements with a kind and a description holds.
Has(q, k) == \E i \in 1 .. Len(q) : q[i].kind = k
Once(q, k) == \A i, j \in 1 .. Len(q) : q[i].kind = k /\ q[j].kind = k => i = j
AllAre(q, k, d) == \A i \in 1 .. Len(q) : q[i].kind = k => q[i].desc = d
Behind(q, k, l) == \A i, j \in 1 .. Len(q) : q[i].kind = k /\ q[j].kind = l => j < i
Types(q, k, t) == \A i \in 1 .. Len(q) : q[i].kind = k => q[i].desc.type = t

\* With what an element of kind k says of hold, w is a.
Fits(q, k, w, a) ==
  \A i \in 1 .. Len(q) : q[i].kind = k => [w EXCEPT !.hold = q[i].desc.media.hold] = a

\* The offers behind an answer.
Late(q, i) == q[i].kind = "negotiate" /\ \E j \in 1 .. i - 1 : q[j].kind = "reply"
HasLate(q) == \E i \in 1 .. Len(q) : Late(q, i)
LateOnce(q) == \A i, j \in 1 .. Len(q) : Late(q, i) /\ Late(q, j) => i = j
LateAre(q, d) == \A i \in 1 .. Len(q) : Late(q, i) => q[i].desc = d

\* r is q with m appended, as far as the definitions above can tell.
Grows(q, m, r) ==
  /\ \A k : Has(r, k) <=> Has(q, k) \/ m.kind = k
  /\ \A k : Once(q, k) /\ (m.kind = k => ~Has(q, k)) => Once(r, k)
  /\ \A k, d : AllAre(q, k, d) /\ (m.kind = k => m.desc = d) => AllAre(r, k, d)
  /\ \A k, t : Types(q, k, t) /\ (m.kind = k => m.desc.type = t) => Types(r, k, t)
  /\ \A k, l : Behind(q, k, l) /\ k # l /\ (m.kind = l => ~Has(q, k)) => Behind(r, k, l)
  /\ \A k, w, a : Fits(q, k, w, a)
       /\ (m.kind = k => [w EXCEPT !.hold = m.desc.media.hold] = a) => Fits(r, k, w, a)
GrowsLate(q, m, r) ==
  /\ HasLate(r) <=> HasLate(q) \/ (m.kind = "negotiate" /\ Has(q, "reply"))
  /\ LateOnce(q) /\ (m.kind = "negotiate" => ~HasLate(q)) => LateOnce(r)
  /\ \A d : LateAre(q, d) /\ (m.kind = "negotiate" => m.desc = d) => LateAre(r, d)

\* r is q without its head m.  An answer makes all the offers behind it late.
Drops(q, m, r) ==
  /\ \A k : Has(q, k) <=> Has(r, k) \/ m.kind = k
  /\ \A k : Once(q, k) => Once(r, k) /\ (m.kind = k => ~Has(r, k))
  /\ \A k, d : AllAre(q, k, d) => AllAre(r, k, d) /\ (m.kind = k => m.desc = d)
  /\ \A k, t : Types(q, k, t) => Types(r, k, t) /\ (m.kind = k => m.desc.type = t)
  /\ \A k, l : Behind(q, k, l) /\ k # l => Behind(r, k, l) /\ (m.kind = k => ~Has(r, l))
  /\ \A k, w, a : Fits(q, k, w, a) =>
       Fits(r, k, w, a) /\ (m.kind = k => [w EXCEPT !.hold = m.desc.media.hold] = a)
DropsLate(q, m, r) ==
  /\ m.kind # "reply" =>
       /\ HasLate(q) <=> HasLate(r)
       /\ LateOnce(q) => LateOnce(r)
       /\ \A d : LateAre(q, d) => LateAre(r, d)
  /\ m.kind = "reply" =>
       /\ HasLate(q) <=> Has(r, "negotiate")
       /\ LateOnce(q) => Once(r, "negotiate")
       /\ \A d : LateAre(q, d) => AllAre(r, "negotiate", d)

\* The mute state is x before q and y after it, and changes at a metadata event only.
Steady(q, x, y) ==
  /\ \A i \in 1 .. Len(q) : q[i].kind # "metadata" =>
       q[i].muted = IF i = 1 THEN x ELSE q[i - 1].muted
  /\ y = IF Len(q) = 0 THEN x ELSE q[Len(q)].muted

\* The elements of a sequence with one more.
LEMMA Appended ==
  ASSUME NEW V, NEW q \in Seq(V), NEW m \in V, NEW r, r = Append(q, m)
  PROVE  /\ r \in Seq(V) /\ Len(r) = Len(q) + 1 /\ Len(q) \in Nat
         /\ r[Len(q) + 1] = m
         /\ \A i \in 1 .. Len(q) : r[i] = q[i]
OBVIOUS

\* The elements of a sequence without its head.
LEMMA Headless ==
  ASSUME NEW V, NEW q \in Seq(V), q # <<>>, NEW r, r = Tail(q)
  PROVE  /\ r \in Seq(V) /\ Len(q) = Len(r) + 1 /\ Len(r) \in Nat
         /\ Head(q) = q[1] /\ q[1] \in V
         /\ \A i \in 1 .. Len(r) : r[i] = q[i + 1]
OBVIOUS

\* What a sequence holds when an element is appended.
LEMMA AppendHolds ==
  ASSUME NEW V, NEW q \in Seq(V), NEW m \in V, NEW r, r = Append(q, m)
  PROVE  Grows(q, m, r)
<1>1. /\ Len(r) = Len(q) + 1 /\ Len(q) \in Nat /\ r[Len(q) + 1] = m
      /\ \A i \in 1 .. Len(q) : r[i] = q[i]
  BY Appended
<1>0. \A i \in 1 .. Len(r) : i \in 1 .. Len(q) \/ i = Len(q) + 1
  BY <1>1
<1>9. 1 .. Len(q) \subseteq 1 .. Len(r) /\ Len(q) + 1 \in 1 .. Len(r)
  BY <1>1
<1>2. \A k : Has(r, k) <=> Has(q, k) \/ m.kind = k
  BY <1>1, <1>0, <1>9 DEF Has
<1>3. \A k : Once(q, k) /\ (m.kind = k => ~Has(q, k)) => Once(r, k)
  BY <1>1, <1>0, <1>9 DEF Has, Once
<1>4. \A k, d : AllAre(q, k, d) /\ (m.kind = k => m.desc = d) => AllAre(r, k, d)
  BY <1>1, <1>0 DEF AllAre
<1>5. \A k, t : Types(q, k, t) /\ (m.kind = k => m.desc.type = t) => Types(r, k, t)
  BY <1>1, <1>0 DEF Types
<1>6. \A k, l : Behind(q, k, l) /\ k # l /\ (m.kind = l => ~Has(q, k)) => Behind(r, k, l)
  BY <1>1, <1>0 DEF Has, Behind
<1>7. \A k, w, a : Fits(q, k, w, a)
        /\ (m.kind = k => [w EXCEPT !.hold = m.desc.media.hold] = a) => Fits(r, k, w, a)
  BY <1>1, <1>0 DEF Fits
<1> QED BY <1>2, <1>3, <1>4, <1>5, <1>6, <1>7 DEF Grows

\* The late offers when an element is appended.
LEMMA AppendLate ==
  ASSUME NEW V, NEW q \in Seq(V), NEW m \in V, NEW r, r = Append(q, m)
  PROVE  GrowsLate(q, m, r)
<1>1. /\ Len(r) = Len(q) + 1 /\ Len(q) \in Nat /\ r[Len(q) + 1] = m
      /\ \A i \in 1 .. Len(q) : r[i] = q[i]
  BY Appended
<1>0. \A i \in 1 .. Len(r) : i \in 1 .. Len(q) \/ i = Len(q) + 1
  BY <1>1
<1>9. 1 .. Len(q) \subseteq 1 .. Len(r) /\ Len(q) + 1 \in 1 .. Len(r)
  BY <1>1
<1>2. \A i \in 1 .. Len(q) : Late(r, i) <=> Late(q, i)
  BY <1>1 DEF Late
<1>3. Late(r, Len(q) + 1) <=> m.kind = "negotiate" /\ Has(q, "reply")
  BY <1>1 DEF Late, Has
<1>4. HasLate(r) <=> HasLate(q) \/ (m.kind = "negotiate" /\ Has(q, "reply"))
  BY <1>0, <1>9, <1>2, <1>3 DEF HasLate
<1>5. LateOnce(q) /\ (m.kind = "negotiate" => ~HasLate(q)) => LateOnce(r)
  BY <1>0, <1>9, <1>2, <1>3 DEF HasLate, LateOnce
<1>6. \A d : LateAre(q, d) /\ (m.kind = "negotiate" => m.desc = d) => LateAre(r, d)
  BY <1>0, <1>1, <1>2, <1>3 DEF LateAre
<1> QED BY <1>4, <1>5, <1>6 DEF GrowsLate

\* What a sequence holds when its head is taken.
LEMMA TailHolds ==
  ASSUME NEW V, NEW q \in Seq(V), q # <<>>, NEW m, m = Head(q), NEW r, r = Tail(q)
  PROVE  Drops(q, m, r)
<1>1. /\ Len(q) = Len(r) + 1 /\ Len(r) \in Nat /\ m = q[1]
      /\ \A i \in 1 .. Len(r) : r[i] = q[i + 1]
  BY Headless
<1>0. \A i \in 1 .. Len(q) : i = 1 \/ (i - 1 \in 1 .. Len(r) /\ (i - 1) + 1 = i)
  BY <1>1
<1>9. 1 \in 1 .. Len(q) /\ \A i \in 1 .. Len(r) : i + 1 \in 1 .. Len(q) /\ i + 1 # 1
  BY <1>1
<1>2. \A k : Has(q, k) <=> Has(r, k) \/ m.kind = k
  <2>1. ASSUME NEW k, Has(q, k) PROVE Has(r, k) \/ m.kind = k
    <3>1. PICK i \in 1 .. Len(q) : q[i].kind = k
      BY <2>1 DEF Has
    <3>2. CASE i = 1 BY <3>1, <3>2, <1>1
    <3>3. CASE i # 1
      <4>1. i - 1 \in 1 .. Len(r) /\ r[i - 1] = q[i]
        BY <3>3, <1>0, <1>1
      <4> QED BY <4>1, <3>1 DEF Has
    <3> QED BY <3>2, <3>3
  <2>2. ASSUME NEW k, Has(r, k) \/ m.kind = k PROVE Has(q, k)
    BY <2>2, <1>1, <1>9 DEF Has
  <2> QED BY <2>1, <2>2
<1>3. \A k : Once(q, k) => Once(r, k) /\ (m.kind = k => ~Has(r, k))
  <2> SUFFICES ASSUME NEW k, Once(q, k) PROVE Once(r, k) /\ (m.kind = k => ~Has(r, k))
    OBVIOUS
  <2>1. Once(r, k)
    <3> SUFFICES ASSUME NEW i \in 1 .. Len(r), NEW j \in 1 .. Len(r), r[i].kind = k, r[j].kind = k
                 PROVE  i = j
      BY DEF Once
    <3>1. i + 1 = j + 1 BY <1>1, <1>9 DEF Once
    <3> QED BY <3>1, <1>1
  <2>2. m.kind = k => ~Has(r, k)
    BY <1>1, <1>9 DEF Once, Has
  <2> QED BY <2>1, <2>2
<1>4. \A k, d : AllAre(q, k, d) => AllAre(r, k, d) /\ (m.kind = k => m.desc = d)
  BY <1>1, <1>9 DEF AllAre
<1>5. \A k, t : Types(q, k, t) => Types(r, k, t) /\ (m.kind = k => m.desc.type = t)
  BY <1>1, <1>9 DEF Types
<1>6. \A k, l : Behind(q, k, l) /\ k # l => Behind(r, k, l) /\ (m.kind = k => ~Has(r, l))
  <2> SUFFICES ASSUME NEW k, NEW l, Behind(q, k, l)
               PROVE  Behind(r, k, l) /\ (m.kind = k => ~Has(r, l))
    OBVIOUS
  <2>1. Behind(r, k, l)
    <3> SUFFICES ASSUME NEW i \in 1 .. Len(r), NEW j \in 1 .. Len(r), r[i].kind = k, r[j].kind = l
                 PROVE  j < i
      BY DEF Behind
    <3>1. j + 1 < i + 1 BY <1>1, <1>9 DEF Behind
    <3> QED BY <3>1, <1>1
  <2>2. m.kind = k => ~Has(r, l)
    <3> SUFFICES ASSUME m.kind = k, NEW j \in 1 .. Len(r), r[j].kind = l PROVE FALSE
      BY DEF Has
    <3>1. j + 1 < 1 BY <1>1, <1>9 DEF Behind
    <3> QED BY <3>1, <1>1
  <2> QED BY <2>1, <2>2
<1>7. \A k, w, a : Fits(q, k, w, a) =>
        Fits(r, k, w, a) /\ (m.kind = k => [w EXCEPT !.hold = m.desc.media.hold] = a)
  BY <1>1, <1>9 DEF Fits
<1> QED BY <1>2, <1>3, <1>4, <1>5, <1>6, <1>7 DEF Drops

\* The late offers when the head is taken: an answer makes all offers behind it late.
LEMMA TailLate ==
  ASSUME NEW V, NEW q \in Seq(V), q # <<>>, NEW m, m = Head(q), NEW r, r = Tail(q)
  PROVE  DropsLate(q, m, r)
<1>1. /\ Len(q) = Len(r) + 1 /\ Len(r) \in Nat /\ m = q[1]
      /\ \A i \in 1 .. Len(r) : r[i] = q[i + 1]
  BY Headless
<1>0. \A i \in 1 .. Len(q) : i = 1 \/ (i - 1 \in 1 .. Len(r) /\ (i - 1) + 1 = i)
  BY <1>1
<1>9. 1 \in 1 .. Len(q) /\ \A i \in 1 .. Len(r) : i + 1 \in 1 .. Len(q) /\ i + 1 # 1
  BY <1>1
<1>2. ~Late(q, 1)
  BY <1>1 DEF Late
<1>3. ASSUME m.kind # "reply"
      PROVE  \A i \in 1 .. Len(r) : Late(q, i + 1) <=> Late(r, i)
  <2> SUFFICES ASSUME NEW i \in 1 .. Len(r) PROVE Late(q, i + 1) <=> Late(r, i)
    OBVIOUS
  <2>1. ASSUME Late(q, i + 1) PROVE Late(r, i)
    <3>1. PICK j \in 1 .. (i + 1) - 1 : q[j].kind = "reply"
      BY <2>1 DEF Late
    <3>2. j - 1 \in 1 .. i - 1 /\ j - 1 \in 1 .. Len(r) /\ (j - 1) + 1 = j
      BY <3>1, <1>3, <1>1
    <3>3. r[j - 1] = q[j]
      BY <3>2, <1>1
    <3> QED BY <3>1, <3>2, <3>3, <2>1, <1>1 DEF Late
  <2>2. ASSUME Late(r, i) PROVE Late(q, i + 1)
    <3>1. PICK j \in 1 .. i - 1 : r[j].kind = "reply"
      BY <2>2 DEF Late
    <3>2. j + 1 \in 1 .. (i + 1) - 1 /\ q[j + 1].kind = "reply"
      BY <3>1, <1>1
    <3> QED BY <3>2, <2>2, <1>1 DEF Late
  <2> QED BY <2>1, <2>2
<1>4. ASSUME m.kind = "reply"
      PROVE  \A i \in 1 .. Len(r) : Late(q, i + 1) <=> r[i].kind = "negotiate"
  <2> SUFFICES ASSUME NEW i \in 1 .. Len(r) PROVE Late(q, i + 1) <=> r[i].kind = "negotiate"
    OBVIOUS
  <2>1. 1 \in 1 .. (i + 1) - 1
    BY <1>1
  <2> QED BY <2>1, <1>1, <1>4 DEF Late
<1>5. ASSUME m.kind # "reply"
      PROVE  /\ HasLate(q) <=> HasLate(r)
             /\ LateOnce(q) => LateOnce(r)
             /\ \A d : LateAre(q, d) => LateAre(r, d)
  <2>1. HasLate(q) => HasLate(r)
    <3> SUFFICES ASSUME NEW i \in 1 .. Len(q), Late(q, i) PROVE HasLate(r)
      BY DEF HasLate
    <3>1. i - 1 \in 1 .. Len(r) /\ (i - 1) + 1 = i BY <1>0, <1>2
    <3>2. Late(r, i - 1) BY <3>1, <1>3, <1>5
    <3> QED BY <3>1, <3>2 DEF HasLate
  <2>2. HasLate(r) => HasLate(q)
    BY <1>9, <1>3, <1>5 DEF HasLate
  <2>3. LateOnce(q) => LateOnce(r)
    <3> SUFFICES ASSUME LateOnce(q), NEW i \in 1 .. Len(r), NEW j \in 1 .. Len(r), Late(r, i),
                        Late(r, j)
                 PROVE  i = j
      BY DEF LateOnce
    <3>1. i + 1 = j + 1 BY <1>9, <1>3, <1>5 DEF LateOnce
    <3> QED BY <3>1, <1>1
  <2>4. \A d : LateAre(q, d) => LateAre(r, d)
    BY <1>9, <1>3, <1>5, <1>1 DEF LateAre
  <2> QED BY <2>1, <2>2, <2>3, <2>4
<1>6. ASSUME m.kind = "reply"
      PROVE  /\ HasLate(q) <=> Has(r, "negotiate")
             /\ LateOnce(q) => Once(r, "negotiate")
             /\ \A d : LateAre(q, d) => AllAre(r, "negotiate", d)
  <2>1. HasLate(q) => Has(r, "negotiate")
    <3> SUFFICES ASSUME NEW i \in 1 .. Len(q), Late(q, i) PROVE Has(r, "negotiate")
      BY DEF HasLate
    <3>1. i - 1 \in 1 .. Len(r) /\ (i - 1) + 1 = i BY <1>0, <1>2
    <3>2. r[i - 1].kind = "negotiate" BY <3>1, <1>4, <1>6
    <3> QED BY <3>1, <3>2 DEF Has
  <2>2. Has(r, "negotiate") => HasLate(q)
    BY <1>9, <1>4, <1>6 DEF HasLate, Has
  <2>3. LateOnce(q) => Once(r, "negotiate")
    <3> SUFFICES ASSUME LateOnce(q), NEW i \in 1 .. Len(r), NEW j \in 1 .. Len(r),
                        r[i].kind = "negotiate", r[j].kind = "negotiate"
                 PROVE  i = j
      BY DEF Once
    <3>1. i + 1 = j + 1 BY <1>9, <1>4, <1>6 DEF LateOnce
    <3> QED BY <3>1, <1>1
  <2>4. \A d : LateAre(q, d) => AllAre(r, "negotiate", d)
    BY <1>9, <1>4, <1>6, <1>1 DEF LateAre, AllAre
  <2> QED BY <2>1, <2>2, <2>3, <2>4
<1> QED BY <1>5, <1>6 DEF DropsLate

\* What holds of late offers because it does of all, or because there is nothing.
LEMMA FewOffers ==
  ASSUME NEW V, NEW q \in Seq(V)
  PROVE  /\ HasLate(q) => Has(q, "negotiate") /\ Has(q, "reply")
         /\ Once(q, "negotiate") => LateOnce(q)
         /\ \A d : AllAre(q, "negotiate", d) => LateAre(q, d)
         /\ \A k : ~Has(q, k) => Once(q, k)
         /\ \A k, d : ~Has(q, k) => AllAre(q, k, d)
         /\ \A k, w, a : ~Has(q, k) => Fits(q, k, w, a)
         /\ \A k, l : ~Has(q, k) \/ ~Has(q, l) => Behind(q, k, l)
         /\ ~HasLate(q) => LateOnce(q)
         /\ \A d : ~HasLate(q) => LateAre(q, d)
<1>0. Len(q) \in Nat
  OBVIOUS
<1>1. HasLate(q) => Has(q, "negotiate") /\ Has(q, "reply")
  <2> SUFFICES ASSUME NEW i \in 1 .. Len(q), Late(q, i)
               PROVE  Has(q, "negotiate") /\ Has(q, "reply")
    BY DEF HasLate
  <2>1. PICK j \in 1 .. i - 1 : q[j].kind = "reply"
    BY DEF Late
  <2>2. j \in 1 .. Len(q)
    BY <1>0
  <2> QED BY <2>1, <2>2 DEF Has, Late
<1>2. Once(q, "negotiate") => LateOnce(q)
  BY DEF Once, LateOnce, Late
<1>3. \A d : AllAre(q, "negotiate", d) => LateAre(q, d)
  BY DEF AllAre, LateAre, Late
<1>4. /\ \A k : ~Has(q, k) => Once(q, k)
      /\ \A k, d : ~Has(q, k) => AllAre(q, k, d)
      /\ \A k, l : ~Has(q, k) \/ ~Has(q, l) => Behind(q, k, l)
  BY DEF Has, Once, AllAre, Behind
<1>5. \A k, w, a : ~Has(q, k) => Fits(q, k, w, a)
  BY DEF Has, Fits
<1>6. /\ ~HasLate(q) => LateOnce(q)
      /\ \A d : ~HasLate(q) => LateAre(q, d)
  BY DEF HasLate, LateOnce, LateAre
<1> QED BY <1>1, <1>2, <1>3, <1>4, <1>5, <1>6

\* The mute state along a sequence with one more element.
LEMMA SteadyAppend ==
  ASSUME NEW V, NEW q \in Seq(V), NEW x, NEW y, Steady(q, x, y),
         NEW m \in V, m.kind # "metadata" => m.muted = y
  PROVE  Steady(Append(q, m), x, m.muted)
<1> DEFINE r == Append(q, m)
<1>1. /\ Len(r) = Len(q) + 1 /\ Len(q) \in Nat /\ r[Len(q) + 1] = m
      /\ \A i \in 1 .. Len(q) : r[i] = q[i]
  BY Appended
<1> HIDE DEF r
<1>2. ASSUME NEW i \in 1 .. Len(r), r[i].kind # "metadata"
      PROVE  r[i].muted = IF i = 1 THEN x ELSE r[i - 1].muted
  <2>1. CASE i \in 1 .. Len(q)
    <3>1. i # 1 => i - 1 \in 1 .. Len(q) BY <2>1
    <3> QED BY <3>1, <2>1, <1>1, <1>2 DEF Steady
  <2>2. CASE i = Len(q) + 1 /\ Len(q) = 0
    BY <2>2, <1>1, <1>2 DEF Steady
  <2>3. CASE i = Len(q) + 1 /\ Len(q) # 0
    <3>1. i - 1 = Len(q) /\ i # 1 /\ i - 1 \in 1 .. Len(q) BY <2>3, <1>1
    <3> QED BY <3>1, <2>3, <1>1, <1>2 DEF Steady
  <2> QED BY <2>1, <2>2, <2>3, <1>1
<1>3. Len(r) # 0 /\ r[Len(r)] = m
  BY <1>1
<1> QED BY <1>2, <1>3 DEF Steady, r

\* The mute state along a sequence without its head.
LEMMA SteadyTail ==
  ASSUME NEW V, NEW q \in Seq(V), NEW x, NEW y, Steady(q, x, y), q # <<>>
  PROVE  /\ Steady(Tail(q), Head(q).muted, y)
         /\ Head(q).kind # "metadata" => Head(q).muted = x
<1> DEFINE r == Tail(q)
<1>1. /\ Len(q) = Len(r) + 1 /\ Len(r) \in Nat /\ Head(q) = q[1]
      /\ \A i \in 1 .. Len(r) : r[i] = q[i + 1]
  BY Headless
<1> HIDE DEF r
<1>2. ASSUME NEW i \in 1 .. Len(r), r[i].kind # "metadata"
      PROVE  r[i].muted = IF i = 1 THEN Head(q).muted ELSE r[i - 1].muted
  <2>1. i + 1 \in 1 .. Len(q) /\ i + 1 # 1 /\ (i + 1) - 1 = i
    BY <1>1
  <2>2. r[i].muted = q[i].muted
    BY <2>1, <1>1, <1>2 DEF Steady
  <2>3. i # 1 => i - 1 \in 1 .. Len(r) /\ (i - 1) + 1 = i
    BY <1>1
  <2> QED BY <2>2, <2>3, <1>1
<1>3. y = IF Len(r) = 0 THEN Head(q).muted ELSE r[Len(r)].muted
  <2>1. CASE Len(r) = 0
    BY <2>1, <1>1 DEF Steady
  <2>2. CASE Len(r) # 0
    <3>1. Len(r) \in 1 .. Len(r) /\ Len(q) # 0 BY <2>2, <1>1
    <3> QED BY <3>1, <2>2, <1>1 DEF Steady
  <2> QED BY <2>1, <2>2
<1>4. Head(q).kind # "metadata" => Head(q).muted = x
  <2>1. 1 \in 1 .. Len(q) BY <1>1
  <2> QED BY <2>1, <1>1 DEF Steady
<1> QED BY <1>2, <1>3, <1>4 DEF Steady, r

-----------------------------------------------------------------------------
(* Types.                                                                  *)

Descriptions == [type : {"none", "offer", "answer"}, media : Wants]
Steps == {"createOffer", "setLocal", "setRemote", "createAnswer", "setLocalAnswer"}
Operations == [op : Steps, desc : Descriptions]
AnyMessage == [kind : {"negotiate", "again", "reply", "metadata"},
               desc : Descriptions, muted : BOOLEAN]
Messages == {m \in AnyMessage : m.kind = "metadata" => m.desc.type = "none"}

MediaTypes ==
  /\ MediaTypeOK
  /\ todo \in [Sides -> SUBSET {"screen", "video", "wait"}]
  /\ chain \in [Sides -> Seq(Operations)]
  /\ pend \in [Sides -> Descriptions] /\ cur \in [Sides -> Descriptions]
  /\ asked \in [Sides -> BOOLEAN] /\ over \in [Sides -> BOOLEAN]
  /\ overtaken \in [Sides -> BOOLEAN] /\ mistaken \in [Sides -> BOOLEAN]
  /\ void \in [Sides -> Nat] /\ awaited \in [Sides -> Nat]
  /\ wire \in [Sides -> Seq(Messages)] /\ post \in [Sides -> Seq(Messages)]

\* The parts of a record have their types.
LEMMA PartTypes ==
  /\ \A w \in Wants : \A h \in BOOLEAN : [w EXCEPT !.hold = h] \in Wants
  /\ \A w \in Wants : w.hold \in BOOLEAN /\ w.screen \in BOOLEAN /\ w.video \in BOOLEAN
  /\ Plain \in Wants /\ NoOffer \in Descriptions
  /\ \A w \in Wants : \A t \in {"none", "offer", "answer"} : Description(t, w) \in Descriptions
  /\ \A d \in Descriptions : d.media \in Wants
  /\ \A op \in Steps : \A d \in Descriptions : Operation(op, d) \in Operations
  /\ \A o \in Operations : o.desc \in Descriptions
  /\ \A m \in Messages : m.desc \in Descriptions /\ m.muted \in BOOLEAN
<1>1. /\ \A w \in Wants : \A h \in BOOLEAN : [w EXCEPT !.hold = h] \in Wants
      /\ \A w \in Wants : w.hold \in BOOLEAN /\ w.screen \in BOOLEAN /\ w.video \in BOOLEAN
      /\ Plain \in Wants
  BY DEF Wants, Plain
<1>2. NoOffer \in Descriptions
  BY <1>1 DEF NoOffer, Descriptions
<1>3. \A w \in Wants : \A t \in {"none", "offer", "answer"} : Description(t, w) \in Descriptions
  BY DEF Description, Descriptions
<1>4. \A d \in Descriptions : d.media \in Wants
  BY DEF Descriptions
<1>5. /\ \A op \in Steps : \A d \in Descriptions : Operation(op, d) \in Operations
      /\ \A o \in Operations : o.desc \in Descriptions
  BY DEF Operation, Operations
<1>6. \A m \in Messages : m.desc \in Descriptions /\ m.muted \in BOOLEAN
  BY DEF Messages, AnyMessage
<1> QED BY <1>1, <1>2, <1>3, <1>4, <1>5, <1>6

\* A sequence without one of its elements.
LEMMA RemovedType ==
  ASSUME NEW V, NEW q \in Seq(V), NEW i \in DOMAIN q
  PROVE  RemoveAt(q, i) \in Seq(V) /\ (i = 1 => RemoveAt(q, i) = Tail(q))
<1>0. Len(q) \in Nat /\ i \in 1 .. Len(q) /\ q # <<>>
  OBVIOUS
<1>1. SubSeq(q, 1, i - 1) \in Seq(V)
  BY <1>0
<1>2. SubSeq(q, i + 1, Len(q)) \in Seq(V)
  BY <1>0
<1>3. RemoveAt(q, i) = SubSeq(q, 1, i - 1) \o SubSeq(q, i + 1, Len(q))
  BY DEF RemoveAt
<1>4. RemoveAt(q, i) \in Seq(V)
  BY <1>1, <1>2, <1>3
<1>5. ASSUME i = 1 PROVE RemoveAt(q, i) = Tail(q)
  <2>1. SubSeq(q, 1, 0) = <<>> /\ SubSeq(q, 2, Len(q)) = Tail(q)
    BY <1>0
  <2>2. RemoveAt(q, i) = <<>> \o Tail(q)
    BY <2>1, <1>3, <1>5
  <2>3. Tail(q) \in Seq(V)
    BY <1>0
  <2> QED BY <2>2, <2>3
<1> QED BY <1>4, <1>5

\* What sendVoipEvent sends.
LEMMA SendTypes ==
  ASSUME MediaTypes, mic' \in [Sides -> BOOLEAN], NEW s \in Sides,
         NEW kind \in {"negotiate", "again", "reply", "metadata"}, NEW desc \in Descriptions,
         kind = "metadata" => desc.type = "none", Send(s, kind, desc)
  PROVE  wire' \in [Sides -> Seq(Messages)]
<1> DEFINE m == [kind |-> kind, desc |-> desc, muted |-> mic'[s]]
<1>1. m \in Messages
  BY DEF Messages, AnyMessage
<1>2. wire' = [wire EXCEPT ![s] = Append(@, m)] /\ wire \in [Sides -> Seq(Messages)]
  BY DEF Send, MediaTypes
<1> HIDE DEF m
<1>3. Append(wire[s], m) \in Seq(Messages)
  BY <1>1, <1>2
<1> QED BY <1>2, <1>3

\* The media is that of a call, and every other side is a side.
LEMMA OtherSide ==
  /\ \A s \in Sides : Other(s) \in Sides /\ Other(Other(s)) = s /\ Other(s) # s
  /\ Other("out") = "in" /\ Other("in") = "out" /\ "out" \in Sides /\ "in" \in Sides
  /\ \A s \in Sides : s = "out" \/ s = "in"
BY DEF Other, Sides

\* The types of the initial state.
LEMMA MediaInitTypes == MediaInit => MediaTypes
<1> SUFFICES ASSUME MediaInit PROVE MediaTypes
  OBVIOUS
<1>1. Plain \in Wants /\ NoOffer \in Descriptions
      /\ Description("offer", Plain) \in Descriptions
      /\ Description("answer", Plain) \in Descriptions
  BY PartTypes
<1>2. MediaTypeOK
  BY <1>1 DEF MediaInit, MediaTypeOK
<1>3. cur \in [Sides -> Descriptions]
  BY <1>1 DEF MediaInit, Sides
<1>4. chain \in [Sides -> Seq(Operations)] /\ wire \in [Sides -> Seq(Messages)]
      /\ post \in [Sides -> Seq(Messages)]
  BY DEF MediaInit
<1> QED BY <1>1, <1>2, <1>3, <1>4 DEF MediaInit, MediaTypes

\* The types are kept by every step.
LEMMA MediaTypesKept == MediaTypes /\ [MediaNext]_mediaVars => MediaTypes'
<1> SUFFICES ASSUME MediaTypes, [MediaNext]_mediaVars PROVE MediaTypes'
  OBVIOUS
<1> USE DEF pcVars, sentVars, otherVars
<1>1. CASE UNCHANGED mediaVars
  BY <1>1 DEF mediaVars, MediaTypes, MediaTypeOK
<1>2. ASSUME NEW s \in Sides, NEW what \in {"screen", "video"},
             openMedia(s, what) \/ mediaOpened(s, what) \/ mediaRefused(s, what)
      PROVE  MediaTypes'
  <2>1. todo' \in [Sides -> SUBSET {"screen", "video", "wait"}]
    <3>1. \/ todo' = [todo EXCEPT ![s] = todo[s] \cup {what}]
          \/ todo' = [todo EXCEPT ![s] = todo[s] \ {what}]
      BY <1>2 DEF openMedia, mediaOpened, mediaRefused
    <3>2. /\ todo[s] \cup {what} \in SUBSET {"screen", "video", "wait"}
          /\ todo[s] \ {what} \in SUBSET {"screen", "video", "wait"}
      BY DEF MediaTypes
    <3> QED BY <3>1, <3>2 DEF MediaTypes
  <2>2. want' \in [Sides -> Wants]
    <3>1. \A w \in Wants : [w EXCEPT ![what] = TRUE] \in Wants
      BY <1>2 DEF Wants
    <3>2. want' = want \/ want' = [want EXCEPT ![s] = [want[s] EXCEPT ![what] = TRUE]]
      BY <1>2 DEF openMedia, mediaOpened, mediaRefused
    <3>3. PICK w : w = [want[s] EXCEPT ![what] = TRUE]
      OBVIOUS
    <3>4. w \in Wants
      BY <3>1, <3>3 DEF MediaTypes, MediaTypeOK
    <3>5. want' = want \/ want' = [want EXCEPT ![s] = w]
      BY <3>2, <3>3
    <3> QED BY <3>4, <3>5 DEF MediaTypes, MediaTypeOK
  <2>3. MediaTypeOK'
    BY <2>1, <2>2, <1>2 DEF openMedia, mediaOpened, mediaRefused, MediaTypes, MediaTypeOK
  <2> QED BY <2>1, <2>3, <1>2 DEF openMedia, mediaOpened, mediaRefused, MediaTypes
<1>3. ASSUME NEW s \in Sides, stopScreensharing(s) PROVE MediaTypes'
  <2>1. want' \in [Sides -> Wants]
    <3>1. \A w \in Wants : [w EXCEPT !.screen = FALSE] \in Wants
      BY DEF Wants
    <3> QED BY <3>1, <1>3 DEF stopScreensharing, MediaTypes, MediaTypeOK
  <2>3. MediaTypeOK'
    BY <2>1, <1>3 DEF stopScreensharing, MediaTypes, MediaTypeOK
  <2> QED BY <2>3, <1>3 DEF stopScreensharing, MediaTypes
<1>4. ASSUME NEW s \in Sides, setRemoteOnHold(s) \/ setMicrophoneMuted(s) PROVE MediaTypes'
  <2>1. want' \in [Sides -> Wants]
    <3>1. \A w \in Wants : [w EXCEPT !.hold = ~w.hold] \in Wants
      BY PartTypes
    <3>2. want' = want \/ want' = [want EXCEPT ![s] = [want[s] EXCEPT !.hold = ~want[s].hold]]
      BY <1>4 DEF setRemoteOnHold, setMicrophoneMuted
    <3>3. PICK w : w = [want[s] EXCEPT !.hold = ~want[s].hold]
      OBVIOUS
    <3>4. w \in Wants
      BY <3>1, <3>3 DEF MediaTypes, MediaTypeOK
    <3>5. want' = want \/ want' = [want EXCEPT ![s] = w]
      BY <3>2, <3>3
    <3> QED BY <3>4, <3>5 DEF MediaTypes, MediaTypeOK
  <2>2. mic' \in [Sides -> BOOLEAN]
    BY <1>4 DEF setRemoteOnHold, setMicrophoneMuted, MediaTypes, MediaTypeOK
  <2>3. wire' \in [Sides -> Seq(Messages)]
    <3>1. Send(s, "metadata", NoOffer)
      BY <1>4 DEF setRemoteOnHold, setMicrophoneMuted
    <3>2. NoOffer \in Descriptions /\ NoOffer.type = "none"
      BY PartTypes DEF NoOffer
    <3> QED BY <3>1, <3>2, <2>2, SendTypes
  <2>4. MediaTypeOK'
    BY <2>1, <2>2, <1>4 DEF setRemoteOnHold, setMicrophoneMuted, MediaTypes, MediaTypeOK
  <2> QED BY <2>3, <2>4, <1>4 DEF setRemoteOnHold, setMicrophoneMuted, MediaTypes
<1>5. ASSUME NEW s \in Sides, onNegotiationNeeded(s) PROVE MediaTypes'
  <2>1. Operation("createOffer", NoOffer) \in Operations
    BY PartTypes DEF Steps
  <2>2. chain' \in [Sides -> Seq(Operations)]
    BY <2>1, <1>5 DEF onNegotiationNeeded, MediaTypes
  <2>4. MediaTypeOK'
    BY <1>5 DEF onNegotiationNeeded, MediaTypes, MediaTypeOK
  <2> QED BY <2>2, <2>4, <1>5 DEF onNegotiationNeeded, MediaTypes
<1>0. ASSUME NEW s \in Sides, chain[s] # <<>>
      PROVE  /\ Tail(chain[s]) \in Seq(Operations) /\ Head(chain[s]) \in Operations
             /\ Head(chain[s]).desc \in Descriptions /\ Head(chain[s]).desc.media \in Wants
             /\ Head(chain[s]).desc.media.hold \in BOOLEAN
  <2>1. chain[s] \in Seq(Operations)
    BY DEF MediaTypes
  <2>2. Tail(chain[s]) \in Seq(Operations) /\ Head(chain[s]) \in Operations
    BY <2>1, <1>0
  <2> QED BY <2>2, PartTypes
<1>6. ASSUME NEW s \in Sides, createOffer(s) \/ createAnswer(s) PROVE MediaTypes'
  <2>1. chain[s] # <<>> /\ want[s] \in Wants
    BY <1>6 DEF createOffer, createAnswer, NextOp, MediaTypes, MediaTypeOK
  <2>2. /\ Operation("setLocal", Description("offer", want[s])) \in Operations
        /\ Operation("setLocalAnswer", Description("answer", want[s])) \in Operations
    BY <2>1, PartTypes DEF Steps
  <2>3. chain' \in [Sides -> Seq(Operations)]
    <3>1. /\ Append(Tail(chain[s]), Operation("setLocal", Description("offer", want[s])))
               \in Seq(Operations)
          /\ Append(Tail(chain[s]), Operation("setLocalAnswer", Description("answer", want[s])))
               \in Seq(Operations)
      BY <2>1, <2>2, <1>0
    <3> QED BY <3>1, <1>6 DEF createOffer, createAnswer, Then, MediaTypes
  <2>4. MediaTypeOK'
    BY <1>6 DEF createOffer, createAnswer, MediaTypes, MediaTypeOK
  <2> QED BY <2>3, <2>4, <1>6 DEF createOffer, createAnswer, MediaTypes
<1>7. ASSUME NEW s \in Sides, setLocalOffer(s) PROVE MediaTypes'
  <2>1. chain[s] # <<>>
    BY <1>7 DEF setLocalOffer, NextOp
  <2>2. chain' \in [Sides -> Seq(Operations)]
    <3>1. chain' = [chain EXCEPT ![s] = Tail(chain[s])] \/ chain' = [chain EXCEPT ![s] = <<>>]
      BY <1>7 DEF setLocalOffer, ChainDone, mediaTerminate
    <3>2. <<>> \in Seq(Operations) /\ Tail(chain[s]) \in Seq(Operations)
      BY <2>1, <1>0
    <3> QED BY <3>1, <3>2 DEF MediaTypes
  <2>3. pend' \in [Sides -> Descriptions]
    BY <2>1, <1>0, <1>7 DEF setLocalOffer, MediaTypes
  <2>4. todo' \in [Sides -> SUBSET {"screen", "video", "wait"}]
    <3>1. todo' = todo \/ todo' = [todo EXCEPT ![s] = todo[s] \cup {"wait"}]
      BY <1>7 DEF setLocalOffer
    <3>2. todo[s] \cup {"wait"} \in SUBSET {"screen", "video", "wait"}
      BY DEF MediaTypes
    <3> QED BY <3>1, <3>2 DEF MediaTypes
  <2>5. /\ over' \in [Sides -> BOOLEAN] /\ making' \in [Sides -> BOOLEAN]
        /\ signal' \in [Sides -> {"stable", "localOffer", "remoteOffer"}]
    BY <1>7 DEF setLocalOffer, mediaTerminate, MediaTypes, MediaTypeOK
  <2>6. MediaTypeOK'
    BY <2>4, <2>5, <1>7 DEF setLocalOffer, MediaTypes, MediaTypeOK
  <2> QED BY <2>2, <2>3, <2>4, <2>5, <2>6, <1>7 DEF setLocalOffer, MediaTypes
<1>8. ASSUME NEW s \in Sides, sendOffer(s) \/ sendAgain(s) PROVE MediaTypes'
  <2>1. mic' = mic /\ localDescription(s) \in Descriptions
    BY <1>8 DEF sendOffer, sendAgain, localDescription, MediaTypes
  <2>2. wire' \in [Sides -> Seq(Messages)]
    <3>1. \/ wire' = wire
          \/ Send(s, "negotiate", localDescription(s)) \/ Send(s, "again", localDescription(s))
      BY <1>8 DEF sendOffer, sendAgain
    <3>2. mic' \in [Sides -> BOOLEAN]
      BY <2>1 DEF MediaTypes, MediaTypeOK
    <3>3. ASSUME Send(s, "negotiate", localDescription(s)) PROVE wire' \in [Sides -> Seq(Messages)]
      BY <3>3, <3>2, <2>1, SendTypes
    <3>4. ASSUME Send(s, "again", localDescription(s)) PROVE wire' \in [Sides -> Seq(Messages)]
      BY <3>4, <3>2, <2>1, SendTypes
    <3> QED BY <3>1, <3>3, <3>4 DEF MediaTypes
  <2>3. todo' \in [Sides -> SUBSET {"screen", "video", "wait"}]
    <3>1. todo' = todo \/ todo' = [todo EXCEPT ![s] = todo[s] \ {"wait"}]
      BY <1>8 DEF sendOffer, sendAgain
    <3>2. todo[s] \ {"wait"} \in SUBSET {"screen", "video", "wait"}
      BY DEF MediaTypes
    <3> QED BY <3>1, <3>2 DEF MediaTypes
  <2>4. void' \in [Sides -> Nat]
    <3>1. void' = void \/ (void[s] > 0 /\ void' = [void EXCEPT ![s] = void[s] - 1])
      BY <1>8 DEF sendOffer, sendAgain
    <3>2. void[s] \in Nat
      BY DEF MediaTypes
    <3>3. void[s] > 0 => void[s] - 1 \in Nat
      BY <3>2
    <3> QED BY <3>1, <3>3 DEF MediaTypes
  <2>5. MediaTypeOK'
    BY <2>1, <2>3, <1>8 DEF sendOffer, sendAgain, MediaTypes, MediaTypeOK
  <2> QED BY <2>2, <2>3, <2>4, <2>5, <1>8 DEF sendOffer, sendAgain, MediaTypes
<1>9. ASSUME NEW s \in Sides, NEW i \in DOMAIN wire[s], mediaArrive(s, i) PROVE MediaTypes'
  <2>0. wire[s] \in Seq(Messages) /\ wire[s][i] \in Messages
    BY <1>9 DEF MediaTypes
  <2>1. wire' \in [Sides -> Seq(Messages)]
    <3>1. RemoveAt(wire[s], i) \in Seq(Messages)
      BY <2>0, RemovedType
    <3> QED BY <3>1, <1>9 DEF mediaArrive, MediaTypes
  <2>2. awaited' \in [Sides -> Nat]
    BY <1>9 DEF mediaArrive, MediaTypes
  <2>3. post' \in [Sides -> Seq(Messages)]
    <3>1. Other(s) \in Sides /\ Append(post[Other(s)], wire[s][i]) \in Seq(Messages)
      BY <2>0, OtherSide DEF MediaTypes
    <3> QED BY <3>1, <1>9 DEF mediaArrive, MediaTypes
  <2>4. overtaken' \in [Sides -> BOOLEAN]
    BY <1>9 DEF mediaArrive, MediaTypes
  <2>5. MediaTypeOK'
    BY <1>9 DEF mediaArrive, MediaTypes, MediaTypeOK
  <2> QED BY <2>1, <2>2, <2>3, <2>4, <2>5, <1>9 DEF mediaArrive, MediaTypes
<1>10. ASSUME NEW s \in Sides, offerSent(s) PROVE MediaTypes'
  <2>1. awaited' \in [Sides -> Nat]
    BY <1>10 DEF offerSent, MediaTypes
  <2>2. MediaTypeOK'
    BY <1>10 DEF offerSent, MediaTypes, MediaTypeOK
  <2> QED BY <2>1, <2>2, <1>10 DEF offerSent, MediaTypes
<1>11. ASSUME NEW s \in Sides, offerLost(s) PROVE MediaTypes'
  <2>1. awaited' \in [Sides -> Nat]
    <3>1. awaited' = awaited
          \/ (awaited[s] > 0 /\ awaited' = [awaited EXCEPT ![s] = awaited[s] - 1])
      BY <1>11 DEF offerLost
    <3>2. awaited[s] \in Nat
      BY DEF MediaTypes
    <3>3. awaited[s] > 0 => awaited[s] - 1 \in Nat
      BY <3>2
    <3> QED BY <3>1, <3>3 DEF MediaTypes
  <2>2. wire' \in [Sides -> Seq(Messages)]
    <3>1. CASE wire' = wire BY <3>1 DEF MediaTypes
    <3>2. CASE \E i \in DOMAIN wire[s] : wire' = [wire EXCEPT ![s] = RemoveAt(@, i)]
      <4>1. PICK i \in DOMAIN wire[s] : wire' = [wire EXCEPT ![s] = RemoveAt(@, i)]
        BY <3>2
      <4>2. wire[s] \in Seq(Messages)
        BY DEF MediaTypes
      <4>3. RemoveAt(wire[s], i) \in Seq(Messages)
        BY <4>2, RemovedType
      <4> QED BY <4>1, <4>3 DEF MediaTypes
    <3> QED BY <3>1, <3>2, <1>11 DEF offerLost
  <2>3. over' \in [Sides -> BOOLEAN] /\ chain' \in [Sides -> Seq(Operations)]
    BY <1>11 DEF offerLost, mediaTerminate, MediaTypes
  <2>4. MediaTypeOK'
    BY <1>11 DEF offerLost, mediaTerminate, MediaTypes, MediaTypeOK
  <2> QED BY <2>1, <2>2, <2>3, <2>4, <1>11 DEF offerLost, MediaTypes
<1>12. ASSUME NEW s \in Sides, receive(s) PROVE MediaTypes'
  <2> DEFINE m == Head(post[s])
  <2>1. post[s] \in Seq(Messages) /\ post[s] # <<>>
    BY <1>12 DEF receive, MediaTypes
  <2>2. m \in Messages /\ Tail(post[s]) \in Seq(Messages)
    BY <2>1
  <2>3. Operation("setRemote", m.desc) \in Operations /\ m.muted \in BOOLEAN
    BY <2>2, PartTypes DEF Steps
  <2>4. post' \in [Sides -> Seq(Messages)]
    BY <2>2, <1>12 DEF receive, MediaTypes
  <2>5. chain' \in [Sides -> Seq(Operations)]
    <3>1. Append(chain[s], Operation("setRemote", m.desc)) \in Seq(Operations)
      BY <2>3 DEF MediaTypes
    <3>2. chain' = chain
          \/ chain' = [chain EXCEPT ![s] = Append(@, Operation("setRemote", m.desc))]
      BY <1>12 DEF receive
    <3> QED BY <3>1, <3>2 DEF MediaTypes
  <2>6. shows' \in [Sides -> BOOLEAN]
    <3>1. shows' = shows \/ shows' = [shows EXCEPT ![s] = m.muted]
      BY <1>12 DEF receive
    <3> QED BY <3>1, <2>3 DEF MediaTypes, MediaTypeOK
  <2>7. mistaken' \in [Sides -> BOOLEAN]
    <3>1. PICK b : mistaken' = [mistaken EXCEPT ![s] = @ \/ b] /\ b \in BOOLEAN
      <4>1. mistaken' = [mistaken EXCEPT ![s] = @ \/
              (~(over[s] \/ ignoreOffer(s, m)) /\ Mistakes(s, m))]
        BY <1>12 DEF receive
      <4>2. (~(over[s] \/ ignoreOffer(s, m)) /\ Mistakes(s, m)) \in BOOLEAN
        OBVIOUS
      <4> QED BY <4>1, <4>2
    <3> QED BY <3>1 DEF MediaTypes
  <2>8. MediaTypeOK'
    BY <2>6, <1>12 DEF receive, MediaTypes, MediaTypeOK
  <2> QED BY <2>4, <2>5, <2>7, <2>8, <1>12 DEF receive, MediaTypes
<1>13. ASSUME NEW s \in Sides, setRemoteOffer(s) PROVE MediaTypes'
  <2>1. chain[s] # <<>>
    BY <1>13 DEF setRemoteOffer, NextOp
  <2>2. Operation("createAnswer", NoOffer) \in Operations /\ NoOffer \in Descriptions
    BY PartTypes DEF Steps
  <2>3. chain' \in [Sides -> Seq(Operations)]
    <3>1. Append(Tail(chain[s]), Operation("createAnswer", NoOffer)) \in Seq(Operations)
      BY <2>1, <2>2, <1>0
    <3> QED BY <3>1, <1>13 DEF setRemoteOffer, Then, MediaTypes
  <2>4. sees' \in [Sides -> Wants]
    BY <2>1, <1>0, <1>13 DEF setRemoteOffer, MediaTypes, MediaTypeOK
  <2>5. todo' \in [Sides -> SUBSET {"screen", "video", "wait"}] /\ void' \in [Sides -> Nat]
    BY <1>13 DEF setRemoteOffer, MediaTypes
  <2>6. MediaTypeOK'
    BY <2>4, <2>5, <1>13 DEF setRemoteOffer, MediaTypes, MediaTypeOK
  <2>7. pend' \in [Sides -> Descriptions]
    BY <2>2, <1>13 DEF setRemoteOffer, MediaTypes
  <2> QED BY <2>3, <2>5, <2>6, <2>7, <1>13 DEF setRemoteOffer, MediaTypes
<1>14. ASSUME NEW s \in Sides, setRemoteAnswer(s) PROVE MediaTypes'
  <2>1. chain[s] # <<>>
    BY <1>14 DEF setRemoteAnswer, NextOp
  <2>3. chain' \in [Sides -> Seq(Operations)]
    BY <2>1, <1>0, <1>14 DEF setRemoteAnswer, ChainDone, MediaTypes
  <2>4. sees' \in [Sides -> Wants]
    <3>1. [sees[s] EXCEPT !.hold = Head(chain[s]).desc.media.hold] \in Wants
      BY <2>1, <1>0, PartTypes DEF MediaTypes, MediaTypeOK
    <3>2. sees' = sees
          \/ sees' = [sees EXCEPT ![s] = [sees[s] EXCEPT !.hold = Head(chain[s]).desc.media.hold]]
      BY <1>14 DEF setRemoteAnswer
    <3> QED BY <3>1, <3>2 DEF MediaTypes, MediaTypeOK
  <2>5. agreed' \in [Sides -> Wants]
    <3>1. pend[s].media \in Wants
      BY PartTypes DEF MediaTypes
    <3>2. agreed' = agreed \/ agreed' = [agreed EXCEPT ![s] = pend[s].media]
      BY <1>14 DEF setRemoteAnswer
    <3> QED BY <3>1, <3>2 DEF MediaTypes, MediaTypeOK
  <2>6. MediaTypeOK'
    <3>1. signal' \in [Sides -> {"stable", "localOffer", "remoteOffer"}]
      <4>1. signal' = signal \/ signal' = [signal EXCEPT ![s] = "stable"]
        BY <1>14 DEF setRemoteAnswer
      <4> QED BY <4>1 DEF MediaTypes, MediaTypeOK
    <3> QED BY <3>1, <2>4, <2>5, <1>14 DEF setRemoteAnswer, MediaTypes, MediaTypeOK
  <2>7. pend' \in [Sides -> Descriptions] /\ cur' \in [Sides -> Descriptions]
        /\ asked' \in [Sides -> BOOLEAN]
    BY PartTypes, <1>14 DEF setRemoteAnswer, MediaTypes
  <2> QED BY <2>3, <2>6, <2>7, <1>14 DEF setRemoteAnswer, MediaTypes
<1>15. ASSUME NEW s \in Sides, setLocalAnswer(s) PROVE MediaTypes'
  <2>1. chain[s] # <<>> /\ mic' = mic
    BY <1>15 DEF setLocalAnswer, NextOp
  <2>3. chain' \in [Sides -> Seq(Operations)]
    BY <2>1, <1>0, <1>15 DEF setLocalAnswer, ChainDone, MediaTypes
  <2>4. agreed' \in [Sides -> Wants]
    <3>1. [agreed[s] EXCEPT !.hold = Head(chain[s]).desc.media.hold] \in Wants
      BY <2>1, <1>0, PartTypes DEF MediaTypes, MediaTypeOK
    <3>2. agreed' = agreed
            \/ agreed' = [agreed EXCEPT ![s]
               = [agreed[s] EXCEPT !.hold = Head(chain[s]).desc.media.hold]]
      BY <1>15 DEF setLocalAnswer
    <3> QED BY <3>1, <3>2 DEF MediaTypes, MediaTypeOK
  <2>5. wire' \in [Sides -> Seq(Messages)]
    <3>1. wire' = wire \/ Send(s, "reply", Head(chain[s]).desc)
      BY <1>15 DEF setLocalAnswer
    <3>2. mic' \in [Sides -> BOOLEAN]
      BY <2>1 DEF MediaTypes, MediaTypeOK
    <3>3. ASSUME Send(s, "reply", Head(chain[s]).desc) PROVE wire' \in [Sides -> Seq(Messages)]
      BY <3>3, <3>2, <2>1, <1>0, SendTypes
    <3> QED BY <3>1, <3>3 DEF MediaTypes
  <2>6. MediaTypeOK'
    <3>1. signal' \in [Sides -> {"stable", "localOffer", "remoteOffer"}]
      <4>1. signal' = signal \/ signal' = [signal EXCEPT ![s] = "stable"]
        BY <1>15 DEF setLocalAnswer
      <4> QED BY <4>1 DEF MediaTypes, MediaTypeOK
    <3> QED BY <3>1, <2>1, <2>4, <1>15 DEF setLocalAnswer, MediaTypes, MediaTypeOK
  <2>7. cur' \in [Sides -> Descriptions] /\ asked' \in [Sides -> BOOLEAN]
    BY <2>1, <1>0, <1>15 DEF setLocalAnswer, MediaTypes
  <2> QED BY <2>3, <2>5, <2>6, <2>7, <1>15 DEF setLocalAnswer, MediaTypes
<1> QED
  BY <1>1, <1>2, <1>3, <1>4, <1>5, <1>6, <1>7, <1>8, <1>9, <1>10, <1>11, <1>12, <1>13, <1>14, <1>15
     DEF MediaNext


-----------------------------------------------------------------------------
\* The chain seen as the messages are: what an operation is about.

What(o) == [kind |-> IF o.op = "setRemote" THEN o.desc.type ELSE o.op, desc |-> o.desc]
Views == {What(o) : o \in Operations}
View(c) == [i \in 1 .. Len(c) |-> What(c[i])]

\* The operations of a side, and what is on its way to it.
ops == [s \in Sides |-> View(chain[s])]
box == [s \in Sides |-> post[s] \o wire[Other(s)]]

\* The view of a chain.
LEMMA ViewOf ==
  ASSUME NEW c \in Seq(Operations)
  PROVE  /\ View(c) \in Seq(Views)
         /\ \A o \in Operations : What(o) \in Views
              /\ View(Append(c, o)) = Append(View(c), What(o))
         /\ c # <<>> => /\ View(c) # <<>> /\ View(Tail(c)) = Tail(View(c))
                        /\ Head(View(c)) = What(Head(c))
         /\ c = <<>> => \A k : ~Has(View(c), k)
<1>0. Len(c) \in Nat /\ \A i \in 1 .. Len(c) : c[i] \in Operations
  OBVIOUS
<1>1. View(c) \in Seq(Views) /\ Len(View(c)) = Len(c)
  <2>1. \A i \in 1 .. Len(c) : What(c[i]) \in Views
    BY <1>0 DEF Views
  <2> QED BY <2>1, <1>0 DEF View
<1>2. ASSUME NEW o \in Operations
      PROVE  What(o) \in Views /\ View(Append(c, o)) = Append(View(c), What(o))
  <2>1. What(o) \in Views
    BY DEF Views
  <2>2. /\ Len(Append(c, o)) = Len(c) + 1
        /\ \A i \in 1 .. Len(c) + 1 : Append(c, o)[i] = IF i = Len(c) + 1 THEN o ELSE c[i]
    BY <1>0
  <2>3. PICK v \in Seq(Views) : v = View(c) /\ Len(v) = Len(c)
    BY <1>1
  <2>4. PICK a \in Seq(Views) : a = Append(v, What(o))
    <3>1. Append(v, What(o)) \in Seq(Views)
      BY <2>1
    <3> QED BY <3>1
  <2>5. /\ Len(a) = Len(c) + 1
        /\ \A i \in 1 .. Len(c) + 1 : a[i] = IF i = Len(c) + 1 THEN What(o) ELSE v[i]
    BY <2>3, <2>4, <2>1, <1>0
  <2>6. PICK b : b = View(Append(c, o))
    OBVIOUS
  <2>7. b = [i \in 1 .. Len(c) + 1 |-> What(Append(c, o)[i])]
    BY <2>2, <2>6 DEF View
  <2>8. ASSUME NEW i \in 1 .. Len(c) + 1 PROVE b[i] = a[i] /\ b[i] \in Views
    <3>1. i # Len(c) + 1 => i \in 1 .. Len(c) /\ v[i] = What(c[i]) /\ c[i] \in Operations
      BY <1>0, <2>3 DEF View
    <3> QED BY <3>1, <2>1, <2>2, <2>5, <2>7 DEF Views
  <2>9. b \in Seq(Views) /\ Len(b) = Len(c) + 1
    BY <2>7, <2>8, <1>0
  <2>10. a = b
    BY <2>5, <2>8, <2>9, SeqEqual
  <2> QED BY <2>1, <2>3, <2>4, <2>6, <2>10
<1>3. ASSUME c # <<>>
      PROVE  /\ View(c) # <<>> /\ View(Tail(c)) = Tail(View(c))
             /\ Head(View(c)) = What(Head(c))
  <2>1. Len(c) > 0 /\ View(c) # <<>> /\ Head(c) = c[1] /\ Head(View(c)) = View(c)[1]
    BY <1>0, <1>1, <1>3
  <2>2. Head(View(c)) = What(Head(c))
    BY <2>1, <1>0 DEF View
  <2>3. /\ Len(Tail(c)) = Len(c) - 1
        /\ \A i \in 1 .. Len(c) - 1 : Tail(c)[i] = c[i + 1] /\ i + 1 \in 1 .. Len(c)
    BY <2>1, <1>0
  <2>4. PICK v \in Seq(Views) : v = View(c) /\ Len(v) = Len(c) /\ v # <<>>
    BY <1>1, <2>1
  <2>5. PICK a \in Seq(Views) : a = Tail(v)
    <3>1. Tail(v) \in Seq(Views)
      BY <2>4
    <3> QED BY <3>1
  <2>6. Len(a) = Len(c) - 1 /\ \A i \in 1 .. Len(c) - 1 : a[i] = v[i + 1]
    BY <2>4, <2>5, <1>0
  <2>7. PICK b : b = View(Tail(c))
    OBVIOUS
  <2>8. b = [i \in 1 .. Len(c) - 1 |-> What(Tail(c)[i])]
    BY <2>3, <2>7 DEF View
  <2>9. \A i \in 1 .. Len(c) - 1 : b[i] = v[i + 1] /\ b[i] \in Views
    BY <1>0, <2>3, <2>4, <2>8 DEF View, Views
  <2>10. b \in Seq(Views) /\ Len(b) = Len(c) - 1
    BY <2>8, <2>9, <2>1, <1>0
  <2>11. a = b
    BY <2>6, <2>9, <2>10, SeqEqual
  <2> QED BY <2>1, <2>2, <2>4, <2>5, <2>7, <2>11
<1>4. c = <<>> => \A k : ~Has(View(c), k)
  BY <1>1 DEF Has
<1> QED BY <1>1, <1>2, <1>3, <1>4

\* The chain of one side, when the operation at its head is done.
LEMMA OpsStep ==
  ASSUME MediaTypes, NEW s \in Sides, chain[s] # <<>>
  PROVE  /\ ops[s] \in Seq(Views) /\ ops[s] # <<>> /\ Head(ops[s]) = What(Head(chain[s]))
         /\ ChainDone(s) => ops'[s] = Tail(ops[s]) /\ ops'[Other(s)] = ops[Other(s)]
         /\ \A o \in Operations : Then(s, o) =>
              ops'[s] = Append(Tail(ops[s]), What(o)) /\ ops'[Other(s)] = ops[Other(s)]
<1>0. chain[s] \in Seq(Operations) /\ Other(s) \in Sides /\ Other(s) # s
      /\ chain \in [Sides -> Seq(Operations)]
  BY OtherSide DEF MediaTypes
<1>1. ops[s] \in Seq(Views) /\ ops[s] # <<>> /\ Head(ops[s]) = What(Head(chain[s]))
      /\ Tail(ops[s]) = View(Tail(chain[s])) /\ Tail(chain[s]) \in Seq(Operations)
  BY <1>0, ViewOf DEF ops
<1>2. ASSUME ChainDone(s) PROVE ops'[s] = Tail(ops[s]) /\ ops'[Other(s)] = ops[Other(s)]
  BY <1>0, <1>1, <1>2 DEF ChainDone, ops
<1>3. ASSUME NEW o \in Operations, Then(s, o)
      PROVE  ops'[s] = Append(Tail(ops[s]), What(o)) /\ ops'[Other(s)] = ops[Other(s)]
  <2>1. View(Append(Tail(chain[s]), o)) = Append(View(Tail(chain[s])), What(o))
    BY <1>1, ViewOf
  <2> QED BY <2>1, <1>0, <1>1, <1>3 DEF Then, ops
<1> QED BY <1>1, <1>2, <1>3

\* What the chain of one side holds, when the operation at its head is done.
LEMMA OpsDone ==
  ASSUME MediaTypes, NEW s \in Sides, chain[s] # <<>>, ChainDone(s)
  PROVE  Drops(ops[s], What(Head(chain[s])), ops'[s]) /\ ops'[Other(s)] = ops[Other(s)]
BY OpsStep, TailHolds

\* The same when another one takes its place at the end.
LEMMA OpsThen ==
  ASSUME MediaTypes, NEW s \in Sides, chain[s] # <<>>, NEW o \in Operations, Then(s, o)
  PROVE  /\ ops'[Other(s)] = ops[Other(s)]
         /\ \E q : Drops(ops[s], What(Head(chain[s])), q) /\ Grows(q, What(o), ops'[s])
<1>1. PICK q : q = Tail(ops[s])
  OBVIOUS
<1>2. Drops(ops[s], What(Head(chain[s])), q)
  BY <1>1, OpsStep, TailHolds
<1>3. q \in Seq(Views) /\ What(o) \in Views
  <2>1. What(o) \in Views
    BY DEF Views
  <2>2. ops[s] \in Seq(Views) /\ ops[s] # <<>>
    BY OpsStep
  <2> QED BY <1>1, <2>1, <2>2
<1>4. ops'[s] = Append(q, What(o)) /\ ops'[Other(s)] = ops[Other(s)]
  BY <1>1, OpsStep
<1>5. Grows(q, What(o), ops'[s])
  BY <1>3, <1>4, AppendHolds
<1> QED BY <1>2, <1>4, <1>5

\* The same when an operation is added.
LEMMA OpsMore ==
  ASSUME MediaTypes, NEW s \in Sides, NEW o \in Operations,
         chain' = [chain EXCEPT ![s] = Append(@, o)]
  PROVE  Grows(ops[s], What(o), ops'[s]) /\ ops'[Other(s)] = ops[Other(s)]
<1>0. chain[s] \in Seq(Operations) /\ Other(s) \in Sides /\ Other(s) # s
      /\ chain \in [Sides -> Seq(Operations)]
  BY OtherSide DEF MediaTypes
<1>1. ops[s] \in Seq(Views) /\ What(o) \in Views
      /\ View(Append(chain[s], o)) = Append(ops[s], What(o))
  BY <1>0, ViewOf DEF ops
<1>2. ops'[s] = Append(ops[s], What(o)) /\ ops'[Other(s)] = ops[Other(s)]
  BY <1>0, <1>1 DEF ops
<1> QED BY <1>1, <1>2, AppendHolds

\* A chain that is empty.
LEMMA OpsNone ==
  ASSUME MediaTypes, NEW s \in Sides, chain[s] = <<>>
  PROVE  \A k : ~Has(ops[s], k)
BY ViewOf DEF ops, MediaTypes

\* What is on its way, when there is more of it.
LEMMA BoxMore ==
  ASSUME MediaTypes, NEW s \in Sides, NEW m \in Messages,
         wire' = [wire EXCEPT ![s] = Append(@, m)], post' = post
  PROVE  /\ Grows(box[Other(s)], m, box'[Other(s)]) /\ GrowsLate(box[Other(s)], m, box'[Other(s)])
         /\ box[Other(s)] \in Seq(Messages) /\ box'[Other(s)] = Append(box[Other(s)], m)
         /\ box'[s] = box[s]
<1>0. /\ wire[s] \in Seq(Messages) /\ post[Other(s)] \in Seq(Messages)
      /\ Other(s) \in Sides /\ Other(s) # s /\ Other(Other(s)) = s
      /\ wire \in [Sides -> Seq(Messages)]
  BY OtherSide DEF MediaTypes
<1>1. box[Other(s)] = post[Other(s)] \o wire[s]
      /\ box'[Other(s)] = post[Other(s)] \o Append(wire[s], m)
  BY <1>0 DEF box
<1>2. box'[s] = box[s]
  BY <1>0 DEF box
<1>3. box[Other(s)] \in Seq(Messages)
  BY <1>0, <1>1
<1>4. box'[Other(s)] = Append(box[Other(s)], m)
  <2>1. PICK p \in Seq(Messages) : p = post[Other(s)]
    BY <1>0
  <2>2. PICK w \in Seq(Messages) : w = wire[s]
    BY <1>0
  <2>3. p \o Append(w, m) = Append(p \o w, m)
    <3>1. Append(w, m) \in Seq(Messages) /\ p \o w \in Seq(Messages)
      OBVIOUS
    <3>2. p \o Append(w, m) \in Seq(Messages) /\ Append(p \o w, m) \in Seq(Messages)
      BY <3>1
    <3>3. Len(p \o Append(w, m)) = Len(Append(p \o w, m))
      BY <3>1
    <3>4. \A i \in 1 .. Len(p \o Append(w, m)) : (p \o Append(w, m))[i] = Append(p \o w, m)[i]
      BY <3>1
    <3> QED BY <3>2, <3>3, <3>4, SeqEqual
  <2> QED BY <2>1, <2>2, <2>3, <1>1
<1>5. Grows(box[Other(s)], m, box'[Other(s)])
  BY <1>3, <1>4, AppendHolds
<1>6. GrowsLate(box[Other(s)], m, box'[Other(s)])
  BY <1>3, <1>4, AppendLate
<1> QED BY <1>2, <1>3, <1>4, <1>5, <1>6

\* What is on its way, when the first of it is received.
LEMMA BoxLess ==
  ASSUME MediaTypes, NEW s \in Sides, post[s] # <<>>,
         post' = [post EXCEPT ![s] = Tail(@)], wire' = wire
  PROVE  /\ Drops(box[s], Head(post[s]), box'[s]) /\ DropsLate(box[s], Head(post[s]), box'[s])
         /\ box[s] \in Seq(Messages) /\ box[s] # <<>> /\ box'[s] = Tail(box[s])
         /\ Head(box[s]) = Head(post[s]) /\ Head(post[s]) \in Messages
         /\ box'[Other(s)] = box[Other(s)]
<1>0. /\ post[s] \in Seq(Messages) /\ wire[Other(s)] \in Seq(Messages)
      /\ Other(s) \in Sides /\ Other(s) # s /\ post \in [Sides -> Seq(Messages)]
  BY OtherSide DEF MediaTypes
<1>1. box[s] = post[s] \o wire[Other(s)] /\ box'[s] = Tail(post[s]) \o wire[Other(s)]
  BY <1>0 DEF box
<1>2. box'[Other(s)] = box[Other(s)]
  BY <1>0 DEF box
<1>3. box[s] \in Seq(Messages) /\ box[s] # <<>>
  BY <1>0, <1>1
<1>4. box'[s] = Tail(box[s]) /\ Head(box[s]) = Head(post[s]) /\ Head(post[s]) \in Messages
  BY <1>0, <1>1
<1>5. Drops(box[s], Head(post[s]), box'[s])
  BY <1>3, <1>4, TailHolds
<1>6. DropsLate(box[s], Head(post[s]), box'[s])
  BY <1>3, <1>4, TailLate
<1> QED BY <1>2, <1>3, <1>4, <1>5, <1>6

\* The server takes the events in order: what is on its way stays as it is.
LEMMA BoxSame ==
  ASSUME MediaTypes, NEW s \in Sides, wire[s] # <<>>,
         wire' = [wire EXCEPT ![s] = RemoveAt(@, 1)],
         post' = [post EXCEPT ![Other(s)] = Append(@, wire[s][1])]
  PROVE  box' = box
<1>0. /\ wire[s] \in Seq(Messages) /\ post[Other(s)] \in Seq(Messages)
      /\ Other(s) \in Sides /\ Other(s) # s /\ Other(Other(s)) = s
      /\ wire \in [Sides -> Seq(Messages)] /\ post \in [Sides -> Seq(Messages)]
  BY OtherSide DEF MediaTypes
<1>9. 1 \in DOMAIN wire[s]
  BY <1>0
<1>1. RemoveAt(wire[s], 1) = Tail(wire[s])
  BY <1>0, <1>9, RemovedType
<1>2. Append(post[Other(s)], wire[s][1]) \o Tail(wire[s]) = post[Other(s)] \o wire[s]
  BY <1>0
<1>3. \A t \in Sides : post'[t] \o wire'[Other(t)] = post[t] \o wire[Other(t)]
  <2> SUFFICES ASSUME NEW t \in Sides PROVE post'[t] \o wire'[Other(t)] = post[t] \o wire[Other(t)]
    OBVIOUS
  <2>1. CASE t = Other(s)
    BY <2>1, <1>0, <1>1, <1>2
  <2>2. CASE t # Other(s)
    <3>1. t = s /\ Other(t) # s BY <2>2, <1>0 DEF Sides, Other
    <3> QED BY <3>1, <2>2, <1>0
  <2> QED BY <2>1, <2>2
<1> QED BY <1>3 DEF box

-----------------------------------------------------------------------------
\* The exchange a side's offer leads to, step by step.  The caller's offer is
\* waited with, sent, received, answered, and the answer is sent and received.

Caller1 == "wait" \in todo["out"]
Caller2 == Has(box["in"], "negotiate")
Caller3 == Has(ops["in"], "offer")
Caller4 == signal["in"] = "remoteOffer"
Caller5 == Has(box["out"], "reply")
Caller6 == signal["out"] = "localOffer" /\ Has(ops["out"], "answer")

\* The callee's offers are taken when the caller is stable: of those that are
\* on their way, these are the ones behind the answer, if one is expected.
Taken == signal["out"] # "localOffer" \/ Caller6

Callee1 == "wait" \in todo["in"]
Callee2 == IF Taken THEN Has(box["out"], "negotiate") ELSE HasLate(box["out"])
Callee3 == Has(ops["out"], "offer")
Callee4 == signal["out"] = "remoteOffer"
Callee5 == Has(box["in"], "reply")
Callee6 == Has(ops["in"], "answer")

AtMostOne(a, b, c, d, e, f) ==
  /\ a => ~b /\ ~c /\ ~d /\ ~e /\ ~f
  /\ b => ~c /\ ~d /\ ~e /\ ~f
  /\ c => ~d /\ ~e /\ ~f
  /\ d => ~e /\ ~f
  /\ e => ~f

\* A side that has an offer of its own pending is in one step of its
\* exchange; only the callee's offer may be lost, so that it is in none.
CallersExchange ==
  /\ AtMostOne(Caller1, Caller2, Caller3, Caller4, Caller5, Caller6)
  /\ signal["out"] = "localOffer" <=>
       Caller1 \/ Caller2 \/ Caller3 \/ Caller4 \/ Caller5 \/ Caller6
CalleesExchange ==
  /\ AtMostOne(Callee1, Callee2, Callee3, Callee4, Callee5, Callee6)
  /\ Callee1 \/ Callee2 \/ Callee3 \/ Callee4 \/ Callee5 \/ Callee6 => signal["in"] = "localOffer"

\* The callee has had the caller's answer when it takes the caller's offer.
Crossing ==
  /\ Caller3 \/ Caller4 \/ Caller5 \/ Caller6 => ~Callee5
  /\ Caller4 \/ Caller5 \/ Caller6 => ~Callee6

Making(s) == Has(ops[s], "createOffer") \/ Has(ops[s], "setLocal")
Answering(s) == Has(ops[s], "createAnswer") \/ Has(ops[s], "setLocalAnswer")

\* What a side does fits its signalling state.
Doing(s) ==
  /\ signal[s] = "localOffer" => pend[s].type = "offer" /\ ~Making(s)
  /\ asked[s] /\ signal[s] = "stable" => Making(s)
  /\ signal[s] = "remoteOffer" <=> Answering(s)
  /\ Once(ops[s], "createOffer") /\ Once(ops[s], "setLocal")
  /\ ~(Has(ops[s], "createOffer") /\ Has(ops[s], "setLocal"))
  /\ Once(ops[s], "createAnswer") /\ Once(ops[s], "setLocalAnswer")
  /\ ~(Has(ops[s], "createAnswer") /\ Has(ops[s], "setLocalAnswer"))
  /\ Types(ops[s], "setLocal", "offer") /\ Types(ops[s], "setLocalAnswer", "answer")
  /\ Types(box[s], "negotiate", "offer") /\ Types(box[s], "reply", "answer")

\* The caller takes no offer while it has one, and sends nothing again.
Impolite ==
  /\ Callee3 => signal["out"] = "stable"
  /\ Making("out") => ~Has(ops["out"], "offer") /\ ~Has(ops["out"], "answer")
  /\ void["out"] = 0 /\ ~Has(box["in"], "again")

\* Of every message there is one, and answers come before offers.
Ones ==
  /\ \A s \in Sides : Once(box[s], "reply") /\ Once(ops[s], "offer")
  /\ Once(box["in"], "negotiate") /\ Once(ops["in"], "answer")
  /\ IF Taken THEN Once(box["out"], "negotiate") ELSE LateOnce(box["out"])
  /\ Behind(box["in"], "negotiate", "reply") /\ Behind(ops["in"], "offer", "answer")

\* What is sent of an offer is what is pending.
Offers ==
  /\ AllAre(box["in"], "negotiate", pend["out"]) /\ AllAre(ops["in"], "offer", pend["out"])
  /\ IF Taken THEN AllAre(box["out"], "negotiate", pend["in"]) ELSE LateAre(box["out"], pend["in"])
  /\ AllAre(ops["out"], "offer", pend["in"])

\* What a side has seen is what the other has negotiated, or what it is about to.
CalleeSees ==
  /\ Caller4 \/ Caller5 \/ Caller6 => sees["in"] = pend["out"].media
  /\ Fits(box["in"], "reply", sees["in"], agreed["out"])
  /\ Fits(ops["in"], "answer", sees["in"], agreed["out"])
  /\ ~(Caller4 \/ Caller5 \/ Caller6 \/ Callee5 \/ Callee6) => sees["in"] = agreed["out"]
CallerSees ==
  /\ Callee4 \/ Callee5 \/ Callee6 => sees["out"] = pend["in"].media
  /\ Fits(box["out"], "reply", sees["out"], agreed["in"])
  /\ Caller6 => Fits(ops["out"], "answer", sees["out"], agreed["in"])
  /\ ~(Callee4 \/ Callee5 \/ Callee6 \/ Caller5 \/ Caller6) => sees["out"] = agreed["in"]

Exchanges ==
  /\ CallersExchange /\ CalleesExchange /\ Crossing /\ Doing("out") /\ Doing("in") /\ Impolite
  /\ Ones /\ Offers /\ CalleeSees /\ CallerSees

\* The mute state a side shows, what is on its way to it, and the other side's.
Muting(s) == Steady(box[Other(s)], shows[Other(s)], mic[s])

\* As long as all goes well.
Undisturbed == Orderly /\ \A s \in Sides : ~over[s]
MediaInvariant ==
  /\ MediaTypes
  /\ Undisturbed => Exchanges
  /\ \A s \in Sides : ~overtaken[s] /\ (\A t \in Sides : ~over[t]) => Muting(s)

-----------------------------------------------------------------------------
\* At the beginning nothing is on its way, and all has been negotiated.
LEMMA MediaInitInvariant == MediaInit => MediaInvariant
<1> SUFFICES ASSUME MediaInit PROVE MediaInvariant
  OBVIOUS
<1>1. MediaTypes
  BY MediaInitTypes
<1>2. \A s \in Sides : chain[s] = <<>> /\ post[s] = <<>> /\ wire[s] = <<>>
  BY DEF MediaInit
<1>3. \A s \in Sides : box[s] = <<>> /\ box[s] \in Seq(Messages)
  <2>1. \A s \in Sides : box[s] = <<>> \o <<>>
    BY <1>2, OtherSide DEF box
  <2>2. <<>> \in Seq(Messages) /\ <<>> \o <<>> = <<>>
    BY ConcatEmptySeq
  <2> QED BY <2>1, <2>2
<1>4. \A s \in Sides : \A k : ~Has(ops[s], k) /\ ~Has(box[s], k)
  <2>1. \A s \in Sides : \A k : ~Has(box[s], k)
    BY <1>3 DEF Has
  <2> QED BY <2>1, <1>1, <1>2, OpsNone
<1>5. \A s \in Sides : Once(ops[s], "setLocal")
  BY <1>4 DEF Has, Once
<1>6. \A s \in Sides : \A k, l, d, w, a, t :
        /\ Once(ops[s], k) /\ AllAre(ops[s], k, d) /\ Types(ops[s], k, t) /\ Behind(ops[s], k, l)
        /\ Fits(ops[s], k, w, a)
        /\ Once(box[s], k) /\ AllAre(box[s], k, d) /\ Types(box[s], k, t) /\ Behind(box[s], k, l)
        /\ Fits(box[s], k, w, a)
  <2>1. \A s \in Sides : \A k, l, d, t :
          /\ Once(ops[s], k) /\ AllAre(ops[s], k, d) /\ Types(ops[s], k, t) /\ Behind(ops[s], k, l)
          /\ Once(box[s], k) /\ AllAre(box[s], k, d) /\ Types(box[s], k, t) /\ Behind(box[s], k, l)
    BY <1>4 DEF Has, Once, AllAre, Types, Behind
  <2>2. \A s \in Sides : \A k, w, a : Fits(ops[s], k, w, a) /\ Fits(box[s], k, w, a)
    BY <1>4 DEF Has, Fits
  <2> QED BY <2>1, <2>2
<1>7. \A s \in Sides : signal[s] = "stable" /\ todo[s] = {} /\ ~asked[s] /\ void[s] = 0
                       /\ sees[s] = Plain /\ agreed[s] = Plain
  BY DEF MediaInit
<1>8. "out" \in Sides /\ "in" \in Sides
  BY OtherSide
<1>9. Exchanges
  <2>1. ~Caller1 /\ ~Caller2 /\ ~Caller3 /\ ~Caller4 /\ ~Caller5 /\ ~Caller6
    BY <1>4, <1>7, <1>8 DEF Caller1, Caller2, Caller3, Caller4, Caller5, Caller6
  <2>2. Taken /\ ~Callee1 /\ ~Callee2 /\ ~Callee3 /\ ~Callee4 /\ ~Callee5 /\ ~Callee6
    BY <1>4, <1>7, <1>8 DEF Taken, Callee1, Callee2, Callee3, Callee4, Callee5, Callee6
  <2>3. CallersExchange /\ CalleesExchange /\ Crossing
    BY <2>1, <2>2, <1>7, <1>8 DEF CallersExchange, CalleesExchange, Crossing, AtMostOne
  <2>4. Doing("out") /\ Doing("in") /\ Impolite
    BY <2>2, <1>4, <1>6, <1>7, <1>8 DEF Doing, Impolite, Making, Answering
  <2>5. Ones /\ Offers
    BY <2>2, <1>6, <1>8 DEF Ones, Offers
  <2>6. CalleeSees /\ CallerSees
    BY <2>1, <2>2, <1>6, <1>7, <1>8 DEF CalleeSees, CallerSees
  <2> QED BY <2>3, <2>4, <2>5, <2>6 DEF Exchanges
<1>10. \A s \in Sides : Muting(s)
  <2>1. \A s \in Sides : ~shows[s] /\ ~mic[s] /\ shows[Other(s)] = mic[s] /\ box[Other(s)] = <<>>
    BY <1>3, OtherSide DEF MediaInit
  <2> QED BY <2>1 DEF Muting, Steady
<1> QED BY <1>1, <1>9, <1>10 DEF MediaInvariant

\* What went wrong stays so.
LEMMA OnlyWorse ==
  ASSUME MediaTypes, MediaNext
  PROVE  \A t \in Sides : /\ overtaken[t] => overtaken'[t]
                          /\ mistaken[t] => mistaken'[t]
                          /\ over[t] => over'[t]
<1> USE DEF pcVars, sentVars, otherVars, MediaTypes
<1>1. \A t \in Sides : overtaken[t] => overtaken'[t]
  <2>1. \/ overtaken' = overtaken
        \/ \E s \in Sides : \E b \in BOOLEAN : overtaken' = [overtaken EXCEPT ![s] = @ \/ b]
    BY DEF MediaNext, openMedia, mediaOpened, mediaRefused, stopScreensharing, setRemoteOnHold,
           setMicrophoneMuted, onNegotiationNeeded, createOffer, setLocalOffer, sendOffer,
           sendAgain, mediaArrive, offerSent, offerLost, receive, setRemoteOffer,
           setRemoteAnswer, createAnswer, setLocalAnswer
  <2> QED BY <2>1
<1>2. \A t \in Sides : mistaken[t] => mistaken'[t]
  <2>1. \/ mistaken' = mistaken
        \/ \E s \in Sides : \E b \in BOOLEAN : mistaken' = [mistaken EXCEPT ![s] = @ \/ b]
    BY DEF MediaNext, openMedia, mediaOpened, mediaRefused, stopScreensharing, setRemoteOnHold,
           setMicrophoneMuted, onNegotiationNeeded, createOffer, setLocalOffer, sendOffer,
           sendAgain, mediaArrive, offerSent, offerLost, receive, setRemoteOffer,
           setRemoteAnswer, createAnswer, setLocalAnswer
  <2> QED BY <2>1
<1>3. \A t \in Sides : over[t] => over'[t]
  <2>1. over' = over \/ \E s \in Sides : over' = [over EXCEPT ![s] = TRUE]
    BY DEF MediaNext, openMedia, mediaOpened, mediaRefused, stopScreensharing, setRemoteOnHold,
           setMicrophoneMuted, onNegotiationNeeded, createOffer, setLocalOffer, sendOffer,
           sendAgain, mediaArrive, offerSent, offerLost, receive, setRemoteOffer,
           setRemoteAnswer, createAnswer, setLocalAnswer, mediaTerminate
  <2> QED BY <2>1
<1> QED BY <1>1, <1>2, <1>3

\* A step that changes nothing of the exchanges.
LEMMA NothingChanges ==
  ASSUME Exchanges, box' = box, ops' = ops, signal' = signal, pend' = pend, asked' = asked,
         agreed' = agreed, sees' = sees, void' = void,
         \A s \in Sides : "wait" \in todo'[s] <=> "wait" \in todo[s]
  PROVE  Exchanges'
<1>0. "out" \in Sides /\ "in" \in Sides
  BY OtherSide
<1>1. /\ (Caller1' <=> Caller1) /\ (Caller2' <=> Caller2) /\ (Caller3' <=> Caller3)
      /\ (Caller4' <=> Caller4) /\ (Caller5' <=> Caller5) /\ (Caller6' <=> Caller6)
  BY <1>0 DEF Caller1, Caller2, Caller3, Caller4, Caller5, Caller6
<1>2. /\ (Taken' <=> Taken)
      /\ (Callee1' <=> Callee1) /\ (Callee2' <=> Callee2) /\ (Callee3' <=> Callee3)
      /\ (Callee4' <=> Callee4) /\ (Callee5' <=> Callee5) /\ (Callee6' <=> Callee6)
  BY <1>0, <1>1 DEF Taken, Callee1, Callee2, Callee3, Callee4, Callee5, Callee6
<1>3. CallersExchange' /\ CalleesExchange' /\ Crossing'
  BY <1>1, <1>2 DEF Exchanges, CallersExchange, CalleesExchange, Crossing, AtMostOne
<1>4. Doing("out")' /\ Doing("in")' /\ Impolite'
  BY <1>2 DEF Exchanges, Doing, Impolite, Making, Answering
<1>5. Ones' /\ Offers'
  BY <1>2 DEF Exchanges, Ones, Offers
<1>6. CalleeSees' /\ CallerSees'
  BY <1>1, <1>2 DEF Exchanges, CalleeSees, CallerSees
<1> QED BY <1>3, <1>4, <1>5, <1>6 DEF Exchanges

-----------------------------------------------------------------------------
\* r holds what q holds, of the kinds in K.
Kept(q, r, K) ==
  \A k \in K :
    /\ Has(r, k) <=> Has(q, k)
    /\ Once(q, k) => Once(r, k)
    /\ \A d : AllAre(q, k, d) => AllAre(r, k, d)
    /\ \A t : Types(q, k, t) => Types(r, k, t)
    /\ \A w, a : Fits(q, k, w, a) => Fits(r, k, w, a)
    /\ \A l \in K : k # l /\ Behind(q, k, l) => Behind(r, k, l)

\* When a sequence loses its head or gets one more element, or both.
LEMMA Keeping ==
  ASSUME NEW K
  PROVE  /\ \A q : Kept(q, q, K)
         /\ \A q, m, r : Grows(q, m, r) /\ m.kind \notin K => Kept(q, r, K)
         /\ \A q, m, r : Drops(q, m, r) /\ m.kind \notin K => Kept(q, r, K)
         /\ \A p, q, r : Kept(p, q, K) /\ Kept(q, r, K) => Kept(p, r, K)
<1>1. \A q : Kept(q, q, K)
  BY DEF Kept
<1>2. ASSUME NEW q, NEW m, NEW r, Grows(q, m, r), m.kind \notin K PROVE Kept(q, r, K)
  <2> SUFFICES ASSUME NEW k \in K
               PROVE  /\ Has(r, k) <=> Has(q, k)
                      /\ Once(q, k) => Once(r, k)
                      /\ \A d : AllAre(q, k, d) => AllAre(r, k, d)
                      /\ \A t : Types(q, k, t) => Types(r, k, t)
                      /\ \A w, a : Fits(q, k, w, a) => Fits(r, k, w, a)
                      /\ \A l \in K : k # l /\ Behind(q, k, l) => Behind(r, k, l)
    BY DEF Kept
  <2>1. m.kind # k /\ \A l \in K : m.kind # l
    BY <1>2
  <2> QED BY <2>1, <1>2 DEF Grows
<1>3. ASSUME NEW q, NEW m, NEW r, Drops(q, m, r), m.kind \notin K PROVE Kept(q, r, K)
  <2> SUFFICES ASSUME NEW k \in K
               PROVE  /\ Has(r, k) <=> Has(q, k)
                      /\ Once(q, k) => Once(r, k)
                      /\ \A d : AllAre(q, k, d) => AllAre(r, k, d)
                      /\ \A t : Types(q, k, t) => Types(r, k, t)
                      /\ \A w, a : Fits(q, k, w, a) => Fits(r, k, w, a)
                      /\ \A l \in K : k # l /\ Behind(q, k, l) => Behind(r, k, l)
    BY DEF Kept
  <2>1. m.kind # k
    BY <1>3
  <2> QED BY <2>1, <1>3 DEF Drops
<1>4. \A p, q, r : Kept(p, q, K) /\ Kept(q, r, K) => Kept(p, r, K)
  BY DEF Kept
<1> QED BY <1>1, <1>2, <1>3, <1>4

\* A step that leaves offers and answers on their way, and everything else.
LEMMA OffersRemain ==
  ASSUME Exchanges, ops' = ops, signal' = signal, pend' = pend, asked' = asked,
         agreed' = agreed, sees' = sees, void'["out"] = void["out"], todo' = todo,
         \A t \in Sides : Kept(box[t], box'[t], {"negotiate", "reply"}),
         HasLate(box'["out"]) <=> HasLate(box["out"]),
         LateOnce(box["out"]) => LateOnce(box'["out"]),
         \A d : LateAre(box["out"], d) => LateAre(box'["out"], d),
         Has(box'["in"], "again") => Has(box["in"], "again")
  PROVE  Exchanges'
<1>0. "out" \in Sides /\ "in" \in Sides /\ \A t \in Sides : t = "out" \/ t = "in"
  BY OtherSide
<1>1. \A t \in Sides :
        /\ Has(box'[t], "negotiate") <=> Has(box[t], "negotiate")
        /\ Has(box'[t], "reply") <=> Has(box[t], "reply")
        /\ Once(box[t], "negotiate") => Once(box'[t], "negotiate")
        /\ Once(box[t], "reply") => Once(box'[t], "reply")
        /\ \A d : AllAre(box[t], "negotiate", d) => AllAre(box'[t], "negotiate", d)
        /\ Types(box[t], "negotiate", "offer") => Types(box'[t], "negotiate", "offer")
        /\ Types(box[t], "reply", "answer") => Types(box'[t], "reply", "answer")
        /\ \A w, a : Fits(box[t], "reply", w, a) => Fits(box'[t], "reply", w, a)
        /\ Behind(box[t], "negotiate", "reply") => Behind(box'[t], "negotiate", "reply")
  BY DEF Kept
<1>6. /\ (Caller1' <=> Caller1) /\ (Caller2' <=> Caller2) /\ (Caller3' <=> Caller3)
      /\ (Caller4' <=> Caller4) /\ (Caller5' <=> Caller5) /\ (Caller6' <=> Caller6)
  BY <1>0, <1>1 DEF Caller1, Caller2, Caller3, Caller4, Caller5, Caller6
<1>7. /\ (Taken' <=> Taken)
      /\ (Callee1' <=> Callee1) /\ (Callee2' <=> Callee2) /\ (Callee3' <=> Callee3)
      /\ (Callee4' <=> Callee4) /\ (Callee5' <=> Callee5) /\ (Callee6' <=> Callee6)
  BY <1>0, <1>1, <1>6 DEF Taken, Callee1, Callee2, Callee3, Callee4, Callee5, Callee6
<1>8. CallersExchange' /\ CalleesExchange' /\ Crossing'
  BY <1>6, <1>7 DEF Exchanges, CallersExchange, CalleesExchange, Crossing, AtMostOne
<1>9. Doing("out")' /\ Doing("in")' /\ Impolite'
  BY <1>0, <1>1, <1>7 DEF Exchanges, Doing, Impolite, Making, Answering
<1>10. Ones' /\ Offers'
  BY <1>0, <1>1, <1>7 DEF Exchanges, Ones, Offers
<1>11. CalleeSees' /\ CallerSees'
  BY <1>0, <1>1, <1>6, <1>7 DEF Exchanges, CalleeSees, CallerSees
<1> QED BY <1>8, <1>9, <1>10, <1>11 DEF Exchanges

\* A message that is neither an offer nor an answer changes nothing either, and
\* only the callee sends a description again.
LEMMA OtherMessages ==
  ASSUME MediaTypes, Exchanges, NEW s \in Sides, NEW m \in Messages,
         m.kind = "metadata" \/ (m.kind = "again" /\ s = "in"),
         wire' = [wire EXCEPT ![s] = Append(@, m)], post' = post,
         chain' = chain, signal' = signal, pend' = pend, asked' = asked, agreed' = agreed,
         sees' = sees, void'["out"] = void["out"], todo' = todo
  PROVE  Exchanges'
<1>0. "out" \in Sides /\ "in" \in Sides /\ Other(s) \in Sides /\ (s = "in" => Other(s) = "out")
      /\ (s = "out" => Other(s) = "in") /\ (s = "in" \/ s = "out")
  BY OtherSide
<1>1. /\ Grows(box[Other(s)], m, box'[Other(s)]) /\ GrowsLate(box[Other(s)], m, box'[Other(s)])
      /\ box'[s] = box[s]
  BY BoxMore
<1>2. ops' = ops
  BY DEF ops
<1>3. \A t \in Sides : Kept(box[t], box'[t], {"negotiate", "reply"})
  <2> TAKE t \in Sides
  <2>1. m.kind \notin {"negotiate", "reply"}
    OBVIOUS
  <2>2. t = s \/ t = Other(s)
    BY <1>0, OtherSide
  <2> QED BY <2>1, <2>2, <1>1, Keeping
<1>4. /\ HasLate(box'["out"]) <=> HasLate(box["out"])
      /\ LateOnce(box["out"]) => LateOnce(box'["out"])
      /\ \A d : LateAre(box["out"], d) => LateAre(box'["out"], d)
  BY <1>0, <1>1 DEF GrowsLate
<1>5. Has(box'["in"], "again") <=> Has(box["in"], "again")
  BY <1>0, <1>1 DEF Grows
<1> QED BY <1>2, <1>3, <1>4, <1>5, OffersRemain

\* What there is nothing of is as it should be.
LEMMA Absent ==
  \A q : /\ \A k : ~Has(q, k) =>
              /\ Once(q, k)
              /\ \A d : AllAre(q, k, d)
              /\ \A t : Types(q, k, t)
              /\ \A w, a : Fits(q, k, w, a)
              /\ \A l : Behind(q, k, l) /\ Behind(q, l, k)
         /\ ~HasLate(q) => LateOnce(q) /\ \A d : LateAre(q, d)
<1>1. \A q, k : ~Has(q, k) =>
        Once(q, k) /\ (\A d : AllAre(q, k, d)) /\ \A l : Behind(q, k, l) /\ Behind(q, l, k)
  BY DEF Has, Once, AllAre, Behind
<1>2. \A q, k : ~Has(q, k) => \A t : Types(q, k, t)
  BY DEF Has, Types
<1>3. \A q, k : ~Has(q, k) => \A w, a : Fits(q, k, w, a)
  BY DEF Has, Fits
<1>4. \A q : ~HasLate(q) => LateOnce(q) /\ \A d : LateAre(q, d)
  BY DEF HasLate, LateOnce, LateAre
<1> QED BY <1>1, <1>2, <1>3, <1>4

\* What the operations are about.
LEMMA WhatOf ==
  ASSUME NEW d \in Descriptions
  PROVE  /\ \A op \in Steps \ {"setRemote"} : What(Operation(op, d)).kind = op
         /\ What(Operation("setRemote", d)).kind = d.type
         /\ \A op \in Steps : What(Operation(op, d)).desc = d /\ Operation(op, d) \in Operations
<1>1. \A op \in Steps : Operation(op, d).op = op /\ Operation(op, d).desc = d
  BY DEF Operation
<1>2. \A op \in Steps : Operation(op, d) \in Operations
  BY PartTypes
<1>3. \A op \in Steps : What(Operation(op, d)).desc = d
  BY <1>1 DEF What
<1>4. \A op \in Steps \ {"setRemote"} : What(Operation(op, d)).kind = op
  BY <1>1 DEF What
<1>5. "setRemote" \in Steps
  BY DEF Steps
<1>6. What(Operation("setRemote", d)).kind = d.type
  BY <1>1, <1>5 DEF What
<1> QED BY <1>2, <1>3, <1>4, <1>6

\* The operation at the head.
LEMMA HeadOf ==
  ASSUME MediaTypes, NEW s \in Sides, chain[s] # <<>>
  PROVE  /\ What(Head(chain[s])).desc = Head(chain[s]).desc
         /\ Head(chain[s]).op # "setRemote" => What(Head(chain[s])).kind = Head(chain[s]).op
         /\ Head(chain[s]).op = "setRemote" => What(Head(chain[s])).kind = Head(chain[s]).desc.type
         /\ Head(chain[s]) \in Operations /\ Head(chain[s]).desc \in Descriptions
<1>1. chain[s] \in Seq(Operations)
  BY DEF MediaTypes
<1>2. Head(chain[s]) \in Operations
  BY <1>1
<1> QED BY <1>2, PartTypes DEF What

\* A step of a side that leaves offers and answers where they are.
LEMMA OwnWork ==
  ASSUME Exchanges, box' = box, signal' = signal, pend' = pend,
         agreed' = agreed, sees' = sees, void' = void, todo' = todo,
         Kept(ops["out"], ops'["out"], {"offer", "answer"}),
         Kept(ops["in"], ops'["in"], {"offer", "answer"}),
         Making("out")' => ~Has(ops'["out"], "offer") /\ ~Has(ops'["out"], "answer"),
         Doing("out")', Doing("in")'
  PROVE  Exchanges'
<1>0. "out" \in Sides /\ "in" \in Sides /\ \A s \in Sides : s = "out" \/ s = "in"
  BY OtherSide
<1>1. /\ Has(ops'["out"], "offer") <=> Has(ops["out"], "offer")
      /\ Has(ops'["out"], "answer") <=> Has(ops["out"], "answer")
      /\ Has(ops'["in"], "offer") <=> Has(ops["in"], "offer")
      /\ Has(ops'["in"], "answer") <=> Has(ops["in"], "answer")
  BY DEF Kept
<1>2. /\ Once(ops["out"], "offer") => Once(ops'["out"], "offer")
      /\ Once(ops["in"], "offer") => Once(ops'["in"], "offer")
      /\ Once(ops["in"], "answer") => Once(ops'["in"], "answer")
      /\ \A d : AllAre(ops["out"], "offer", d) => AllAre(ops'["out"], "offer", d)
      /\ \A d : AllAre(ops["in"], "offer", d) => AllAre(ops'["in"], "offer", d)
      /\ \A w, a : Fits(ops["out"], "answer", w, a) => Fits(ops'["out"], "answer", w, a)
      /\ \A w, a : Fits(ops["in"], "answer", w, a) => Fits(ops'["in"], "answer", w, a)
      /\ Behind(ops["in"], "offer", "answer") => Behind(ops'["in"], "offer", "answer")
  BY DEF Kept
<1>3. /\ (Caller1' <=> Caller1) /\ (Caller2' <=> Caller2) /\ (Caller3' <=> Caller3)
      /\ (Caller4' <=> Caller4) /\ (Caller5' <=> Caller5) /\ (Caller6' <=> Caller6)
  BY <1>1 DEF Caller1, Caller2, Caller3, Caller4, Caller5, Caller6
<1>4. /\ (Taken' <=> Taken)
      /\ (Callee1' <=> Callee1) /\ (Callee2' <=> Callee2) /\ (Callee3' <=> Callee3)
      /\ (Callee4' <=> Callee4) /\ (Callee5' <=> Callee5) /\ (Callee6' <=> Callee6)
  BY <1>1, <1>3 DEF Taken, Callee1, Callee2, Callee3, Callee4, Callee5, Callee6
<1>5. CallersExchange' /\ CalleesExchange' /\ Crossing'
  BY <1>3, <1>4 DEF Exchanges, CallersExchange, CalleesExchange, Crossing, AtMostOne
<1>6. Impolite'
  BY <1>4 DEF Exchanges, Impolite
<1>7. Ones' /\ Offers'
  BY <1>0, <1>2, <1>4 DEF Exchanges, Ones, Offers
<1>8. CalleeSees' /\ CallerSees'
  BY <1>2, <1>3, <1>4 DEF Exchanges, CalleeSees, CallerSees
<1> QED BY <1>5, <1>6, <1>7, <1>8 DEF Exchanges

\* Negotiation is needed: an offer is made, and its maker has nothing else to do.
LEMMA NeedsNegotiation ==
  ASSUME MediaTypes, Exchanges, NEW s \in Sides, onNegotiationNeeded(s)
  PROVE  Exchanges'
<1> USE DEF pcVars, sentVars, otherVars
<1>0. /\ "out" \in Sides /\ "in" \in Sides /\ Other("out") = "in" /\ Other("in") = "out"
      /\ s = "out" \/ s = "in"
  BY OtherSide
<1> DEFINE o == Operation("createOffer", NoOffer)
<1>1. o \in Operations /\ What(o).kind = "createOffer"
  BY WhatOf, PartTypes DEF Steps
<1> HIDE DEF o
<1>2. chain[s] = <<>> /\ signal[s] = "stable" /\ box' = box
  BY DEF onNegotiationNeeded, box
<1>3. chain' = [chain EXCEPT ![s] = Append(@, o)]
  BY <1>2 DEF onNegotiationNeeded, o
<1>4. Grows(ops[s], What(o), ops'[s]) /\ ops'[Other(s)] = ops[Other(s)]
  BY <1>1, <1>3, OpsMore
<1>5. \A k : ~Has(ops[s], k)
  BY <1>2, OpsNone
<1>6. \A k : Has(ops'[s], k) <=> k = "createOffer"
  BY <1>1, <1>4, <1>5 DEF Grows
<1>7. Once(ops'[s], "createOffer")
  BY <1>4, <1>5, Absent DEF Grows
<1>8. Kept(ops[s], ops'[s], {"offer", "answer"})
  BY <1>1, <1>4, Keeping
<1>9. Doing(s)'
  <2>1. /\ Once(ops'[s], "setLocal") /\ Once(ops'[s], "createAnswer")
        /\ Once(ops'[s], "setLocalAnswer")
        /\ Types(ops'[s], "setLocal", "offer") /\ Types(ops'[s], "setLocalAnswer", "answer")
    BY <1>6, Absent
  <2>2. Types(box[s], "negotiate", "offer") /\ Types(box[s], "reply", "answer")
    BY <1>0 DEF Exchanges, Doing
  <2> QED BY <2>1, <2>2, <1>2, <1>6, <1>7 DEF onNegotiationNeeded, Doing, Making, Answering
<1>10. ASSUME NEW t \in Sides, t # s PROVE Doing(t)' /\ Kept(ops[t], ops'[t], {"offer", "answer"})
  <2>0. t = Other(s) /\ (t = "out" \/ t = "in")
    BY <1>0, <1>10, OtherSide
  <2>1. ops'[t] = ops[t] /\ asked'[t] = asked[t] /\ Doing(t)
    <3>1. ops'[t] = ops[t]
      BY <2>0, <1>4
    <3>2. asked'[t] = asked[t]
      BY <1>10 DEF onNegotiationNeeded, MediaTypes
    <3>3. Doing(t)
      BY <2>0 DEF Exchanges
    <3> QED BY <3>1, <3>2, <3>3
  <2> QED BY <2>1, <1>2, Keeping DEF onNegotiationNeeded, Doing, Making, Answering
<1>11. Making("out")' => ~Has(ops'["out"], "offer") /\ ~Has(ops'["out"], "answer")
  <2>1. CASE s = "out" BY <2>1, <1>6
  <2>2. CASE s = "in" BY <2>2, <1>0, <1>4 DEF Exchanges, Impolite, Making
  <2> QED BY <2>1, <2>2, <1>0
<1>12. Doing("out")' /\ Doing("in")' /\ Kept(ops["out"], ops'["out"], {"offer", "answer"})
       /\ Kept(ops["in"], ops'["in"], {"offer", "answer"})
  BY <1>0, <1>8, <1>9, <1>10
<1> QED BY <1>2, <1>11, <1>12, OwnWork DEF onNegotiationNeeded

\* The offer, or the answer, is created: another operation takes the place of the one at the head.
LEMMA Creates ==
  ASSUME MediaTypes, Exchanges, NEW s \in Sides, createOffer(s) \/ createAnswer(s)
  PROVE  Exchanges'
<1> USE DEF pcVars, sentVars, otherVars
<1>0. /\ "out" \in Sides /\ "in" \in Sides /\ Other("out") = "in" /\ Other("in") = "out"
      /\ s = "out" \/ s = "in"
  BY OtherSide
<1>1. chain[s] # <<>> /\ box' = box /\ signal' = signal /\ pend' = pend /\ asked' = asked
      /\ agreed' = agreed /\ sees' = sees /\ void' = void /\ todo' = todo /\ Doing(s)
  BY <1>0 DEF createOffer, createAnswer, NextOp, box, Exchanges
<1>2. PICK o \in Operations :
        /\ Then(s, o)
        /\ \/ /\ createOffer(s)
              /\ What(o).kind = "setLocal" /\ What(o).desc.type = "offer"
              /\ What(Head(chain[s])).kind = "createOffer"
           \/ /\ createAnswer(s)
              /\ What(o).kind = "setLocalAnswer" /\ What(o).desc.type = "answer"
              /\ What(Head(chain[s])).kind = "createAnswer"
  <2>1. /\ Description("offer", want[s]) \in Descriptions
        /\ Description("offer", want[s]).type = "offer"
        /\ Description("answer", want[s]) \in Descriptions
        /\ Description("answer", want[s]).type = "answer"
    BY PartTypes DEF MediaTypes, MediaTypeOK, Description
  <2>2. CASE createOffer(s)
    <3>1. What(Head(chain[s])).kind = "createOffer"
      BY <2>2, <1>1, HeadOf DEF createOffer, NextOp
    <3>2. Then(s, Operation("setLocal", Description("offer", want[s])))
      BY <2>2 DEF createOffer
    <3> QED BY <3>1, <3>2, <2>1, <2>2, WhatOf DEF Steps
  <2>3. CASE createAnswer(s)
    <3>1. What(Head(chain[s])).kind = "createAnswer"
      BY <2>3, <1>1, HeadOf DEF createAnswer, NextOp
    <3>2. Then(s, Operation("setLocalAnswer", Description("answer", want[s])))
      BY <2>3 DEF createAnswer
    <3> QED BY <3>1, <3>2, <2>1, <2>3, WhatOf DEF Steps
  <2> QED BY <2>2, <2>3
<1>3. PICK q : Drops(ops[s], What(Head(chain[s])), q) /\ Grows(q, What(o), ops'[s])
  BY <1>1, <1>2, OpsThen
<1>4. ops'[Other(s)] = ops[Other(s)]
  BY <1>1, <1>2, OpsThen
<1>5. Kept(ops[s], ops'[s], {"offer", "answer"})
  <2>1. What(Head(chain[s])).kind \notin {"offer", "answer"}
        /\ What(o).kind \notin {"offer", "answer"}
    BY <1>2
  <2> QED BY <2>1, <1>3, Keeping
<1>6. Doing(s)' /\ (Making(s)' <=> Making(s))
  <2>1. CASE createOffer(s) /\ What(o).kind = "setLocal"
             /\ What(Head(chain[s])).kind = "createOffer"
                /\ What(o).desc.type = "offer"
    <3>1. /\ Has(ops[s], "createOffer") /\ ~Has(ops[s], "setLocal")
          /\ ~Has(ops'[s], "createOffer") /\ Has(ops'[s], "setLocal")
          /\ Once(ops'[s], "createOffer") /\ Once(ops'[s], "setLocal")
          /\ Types(ops'[s], "setLocal", "offer")
      BY <2>1, <1>1, <1>3 DEF Drops, Grows, Doing
    <3>2. Kept(ops[s], ops'[s], {"createAnswer", "setLocalAnswer"})
      <4>1. What(Head(chain[s])).kind \notin {"createAnswer", "setLocalAnswer"}
            /\ What(o).kind \notin {"createAnswer", "setLocalAnswer"}
        BY <2>1
      <4> QED BY <4>1, <1>3, Keeping
    <3> QED BY <3>1, <3>2, <1>1 DEF Kept, Doing, Making, Answering
  <2>2. CASE createAnswer(s) /\ What(o).kind = "setLocalAnswer"
             /\ What(Head(chain[s])).kind = "createAnswer"
                /\ What(o).desc.type = "answer"
    <3>1. /\ Has(ops[s], "createAnswer") /\ ~Has(ops[s], "setLocalAnswer")
          /\ ~Has(ops'[s], "createAnswer") /\ Has(ops'[s], "setLocalAnswer")
          /\ Once(ops'[s], "createAnswer") /\ Once(ops'[s], "setLocalAnswer")
          /\ Types(ops'[s], "setLocalAnswer", "answer")
      BY <2>2, <1>1, <1>3 DEF Drops, Grows, Doing
    <3>2. Kept(ops[s], ops'[s], {"createOffer", "setLocal"})
      <4>1. What(Head(chain[s])).kind \notin {"createOffer", "setLocal"}
            /\ What(o).kind \notin {"createOffer", "setLocal"}
        BY <2>2
      <4> QED BY <4>1, <1>3, Keeping
    <3> QED BY <3>1, <3>2, <1>1 DEF Kept, Doing, Making, Answering
  <2> QED BY <2>1, <2>2, <1>2
<1>7. ASSUME NEW t \in Sides, t # s
      PROVE  Doing(t)' /\ Kept(ops[t], ops'[t], {"offer", "answer"}) /\ (Making(t)' <=> Making(t))
  <2>1. t = Other(s) /\ (t = "out" \/ t = "in")
    BY <1>0, <1>7, OtherSide
  <2>2. ops'[t] = ops[t] /\ Doing(t)
    BY <2>1, <1>4 DEF Exchanges
  <2> QED BY <2>2, <1>1, Keeping DEF Doing, Making, Answering
<1>8. Doing("out")' /\ Doing("in")' /\ Kept(ops["out"], ops'["out"], {"offer", "answer"})
       /\ Kept(ops["in"], ops'["in"], {"offer", "answer"}) /\ (Making("out")' <=> Making("out"))
  BY <1>0, <1>5, <1>6, <1>7
<1>9. Making("out")' => ~Has(ops'["out"], "offer") /\ ~Has(ops'["out"], "answer")
  BY <1>8 DEF Kept, Exchanges, Impolite
<1> QED BY <1>1, <1>8, <1>9, OwnWork

\* The offer is set, and the wait before it is sent begins.  No exchange of this side's is
\* under way.
LEMMA SetsOffer ==
  ASSUME MediaTypes, Exchanges, NEW s \in Sides, setLocalOffer(s), ~over'[s]
  PROVE  Exchanges'
<1> USE DEF pcVars, sentVars, otherVars
<1>0. /\ "out" \in Sides /\ "in" \in Sides /\ Other("out") = "in" /\ Other("in") = "out"
      /\ s = "out" \/ s = "in"
  BY OtherSide
<1> DEFINE h == Head(chain[s])
<1>1. /\ chain[s] # <<>> /\ h.op = "setLocal" /\ box' = box /\ ChainDone(s)
      /\ asked' = asked /\ agreed' = agreed /\ sees' = sees /\ void' = void
      /\ signal' = [signal EXCEPT ![s] = "localOffer"] /\ pend' = [pend EXCEPT ![s] = h.desc]
      /\ todo' = [todo EXCEPT ![s] = @ \cup {"wait"}] /\ signal[s] # "remoteOffer"
  <2>1. ~mediaTerminate(s)
    BY DEF mediaTerminate, MediaTypes
  <2> QED BY <2>1 DEF setLocalOffer, NextOp, box
<1> HIDE DEF h
<1>2. What(h).kind = "setLocal" /\ What(h).desc = h.desc
  BY <1>1, HeadOf DEF h
<1>3. Drops(ops[s], What(h), ops'[s]) /\ ops'[Other(s)] = ops[Other(s)]
  BY <1>1, OpsDone DEF h
<1>4. Kept(ops[s], ops'[s], {"offer", "answer", "createAnswer", "setLocalAnswer"})
  <2>1. What(h).kind \notin {"offer", "answer", "createAnswer", "setLocalAnswer"}
    BY <1>2
  <2> QED BY <2>1, <1>3, Keeping
<1>5. Doing(s)
  BY <1>0 DEF Exchanges
<1>6. /\ Has(ops[s], "setLocal") /\ ~Has(ops'[s], "setLocal") /\ ~Has(ops'[s], "createOffer")
      /\ h.desc.type = "offer"
  BY <1>2, <1>3, <1>5 DEF Drops, Doing
<1>7. signal[s] = "stable" /\ signal'[s] = "localOffer" /\ pend'[s] = h.desc /\ "wait" \in todo'[s]
  BY <1>1, <1>5, <1>6 DEF Doing, Making, MediaTypes, MediaTypeOK
<1>8. ASSUME NEW t \in Sides, t # s
      PROVE  /\ ops'[t] = ops[t] /\ signal'[t] = signal[t] /\ pend'[t] = pend[t]
             /\ "wait" \in todo'[t] <=> "wait" \in todo[t]
             /\ Doing(t)'
  <2>1. t = Other(s) /\ (t = "out" \/ t = "in")
    BY <1>0, <1>8, OtherSide
  <2>2. ops'[t] = ops[t] /\ Doing(t)
    BY <2>1, <1>3 DEF Exchanges
  <2>3. signal'[t] = signal[t] /\ pend'[t] = pend[t] /\ todo'[t] = todo[t]
    BY <1>1, <1>8 DEF MediaTypes, MediaTypeOK
  <2> QED BY <2>2, <2>3, <1>1 DEF Doing, Making, Answering
<1>9. Doing(s)'
  <2>1. Once(ops'[s], "setLocal") /\ Once(ops'[s], "createOffer")
        /\ Types(ops'[s], "setLocal", "offer")
    BY <1>6, Absent
  <2> QED BY <2>1, <1>1, <1>4, <1>5, <1>6, <1>7 DEF Kept, Doing, Making, Answering
<1>10. CASE s = "out"
  <2>1. ~Has(ops["out"], "offer") /\ ~Has(ops["out"], "answer") /\ Making("out")
    BY <1>6, <1>10 DEF Exchanges, Impolite, Making
  <2>2. ~Caller1 /\ ~Caller2 /\ ~Caller3 /\ ~Caller4 /\ ~Caller5 /\ ~Caller6 /\ Taken
    BY <1>7, <1>10 DEF Exchanges, CallersExchange, Taken
  <2>3. ~Has(ops'["out"], "offer") /\ ~Has(ops'["out"], "answer")
    BY <2>1, <1>4, <1>10 DEF Kept
  <2>4. Caller1' /\ ~Caller2' /\ ~Caller3' /\ ~Caller4' /\ ~Caller5' /\ ~Caller6' /\ ~Taken'
    BY <2>2, <2>3, <1>0, <1>1, <1>7, <1>8, <1>10
       DEF Caller1, Caller2, Caller3, Caller4, Caller5, Caller6, Taken
  <2>5. ~HasLate(box["out"])
    <3>1. box["out"] \in Seq(Messages)
      BY <1>0 DEF box, MediaTypes
    <3> QED BY <3>1, <2>2, FewOffers DEF Caller5
  <2>6. /\ (Callee1' <=> Callee1) /\ ~Callee2' /\ ~Callee3 /\ ~Callee3' /\ ~Callee4 /\ ~Callee4'
        /\ (Callee5' <=> Callee5) /\ (Callee6' <=> Callee6)
    BY <2>1, <2>3, <2>4, <2>5, <1>0, <1>1, <1>7, <1>8, <1>10
       DEF Callee1, Callee2, Callee3, Callee4, Callee5, Callee6
  <2>7. CallersExchange' /\ CalleesExchange' /\ Crossing'
    BY <2>4, <2>6, <1>0, <1>7, <1>8, <1>10
       DEF Exchanges, CallersExchange, CalleesExchange, Crossing, AtMostOne
  <2>8. Impolite'
    BY <2>3, <2>6, <1>1 DEF Exchanges, Impolite
  <2>9. Ones'
    BY <2>2, <2>3, <2>4, <2>5, <1>0, <1>1, <1>8, <1>10, Absent DEF Exchanges, Ones
  <2>10. Offers'
    BY <2>2, <2>3, <2>4, <2>5, <1>0, <1>1, <1>8, <1>10, Absent
       DEF Exchanges, Offers, Caller2, Caller3
  <2>11. CalleeSees' /\ CallerSees'
    BY <2>2, <2>4, <2>6, <1>0, <1>1, <1>8, <1>10 DEF Exchanges, CalleeSees, CallerSees
  <2> QED BY <2>7, <2>8, <2>9, <2>10, <2>11, <1>0, <1>8, <1>9, <1>10 DEF Exchanges
<1>11. CASE s = "in"
  <2>1. ~Callee1 /\ ~Callee2 /\ ~Callee3 /\ ~Callee4 /\ ~Callee5 /\ ~Callee6
    BY <1>7, <1>11 DEF Exchanges, CalleesExchange
  <2>2. /\ Has(ops'["in"], "offer") <=> Has(ops["in"], "offer")
        /\ Has(ops'["in"], "answer") <=> Has(ops["in"], "answer")
        /\ Once(ops["in"], "offer") => Once(ops'["in"], "offer")
        /\ Once(ops["in"], "answer") => Once(ops'["in"], "answer")
        /\ \A d : AllAre(ops["in"], "offer", d) => AllAre(ops'["in"], "offer", d)
        /\ \A w, a : Fits(ops["in"], "answer", w, a) => Fits(ops'["in"], "answer", w, a)
        /\ Behind(ops["in"], "offer", "answer") => Behind(ops'["in"], "offer", "answer")
    BY <1>4, <1>11 DEF Kept
  <2>3. /\ (Caller1' <=> Caller1) /\ (Caller2' <=> Caller2) /\ (Caller3' <=> Caller3)
        /\ ~Caller4' /\ ~Caller4 /\ (Caller5' <=> Caller5) /\ (Caller6' <=> Caller6)
        /\ (Taken' <=> Taken)
    BY <2>2, <1>0, <1>1, <1>7, <1>8, <1>11
       DEF Caller1, Caller2, Caller3, Caller4, Caller5, Caller6, Taken
  <2>4. Callee1' /\ ~Callee2' /\ ~Callee3' /\ ~Callee4' /\ ~Callee5' /\ ~Callee6'
    BY <2>1, <2>2, <2>3, <1>0, <1>1, <1>7, <1>8, <1>11
       DEF Callee1, Callee2, Callee3, Callee4, Callee5, Callee6
  <2>5. CallersExchange' /\ CalleesExchange' /\ Crossing'
    BY <2>3, <2>4, <1>0, <1>7, <1>8, <1>11
       DEF Exchanges, CallersExchange, CalleesExchange, Crossing, AtMostOne
  <2>6. Impolite'
    BY <2>1, <2>4, <1>0, <1>1, <1>8, <1>11 DEF Exchanges, Impolite, Making
  <2>7. Ones'
    BY <2>2, <2>3, <1>0, <1>1, <1>8, <1>11, OtherSide DEF Exchanges, Ones
  <2>8. Offers'
    BY <2>1, <2>2, <2>3, <1>0, <1>1, <1>8, <1>11, Absent
       DEF Exchanges, Offers, Callee2, Callee3
  <2>9. CalleeSees' /\ CallerSees'
    BY <2>1, <2>2, <2>3, <2>4, <1>0, <1>1, <1>8, <1>11 DEF Exchanges, CalleeSees, CallerSees
  <2> QED BY <2>5, <2>6, <2>7, <2>8, <2>9, <1>0, <1>8, <1>9, <1>11 DEF Exchanges
<1> QED BY <1>0, <1>10, <1>11

\* The wait is over, and the offer that is pending is sent.
LEMMA SendsOffer ==
  ASSUME MediaTypes, Exchanges, NEW s \in Sides, sendOffer(s), ~over[s]
  PROVE  Exchanges'
<1> USE DEF pcVars, sentVars, otherVars
<1>0. /\ "out" \in Sides /\ "in" \in Sides /\ Other("out") = "in" /\ Other("in") = "out"
      /\ s = "out" \/ s = "in"
  BY OtherSide
<1>1. /\ chain' = chain /\ ops' = ops /\ post' = post /\ signal' = signal /\ pend' = pend
      /\ asked' = asked /\ agreed' = agreed /\ sees' = sees /\ void' = void /\ mic' = mic
      /\ todo' = [todo EXCEPT ![s] = @ \ {"wait"}] /\ "wait" \in todo[s]
      /\ Send(s, "negotiate", localDescription(s))
  BY DEF sendOffer, ops
<1>2. signal[s] = "localOffer" /\ Doing(s)
  BY <1>0, <1>1
     DEF Exchanges, CallersExchange, CalleesExchange, Caller1, Callee1
<1>3. pend[s].type = "offer" /\ localDescription(s) = pend[s]
  BY <1>2 DEF Doing, localDescription, NoOffer
<1>4. PICK m \in Messages :
        /\ m.kind = "negotiate" /\ m.desc = pend[s] /\ wire' = [wire EXCEPT ![s] = Append(@, m)]
  <2>1. [kind |-> "negotiate", desc |-> pend[s], muted |-> mic[s]] \in Messages
    BY <1>3 DEF Messages, AnyMessage, MediaTypes, MediaTypeOK
  <2> QED BY <2>1, <1>1, <1>3 DEF Send
<1>5. /\ Grows(box[Other(s)], m, box'[Other(s)]) /\ GrowsLate(box[Other(s)], m, box'[Other(s)])
      /\ box'[s] = box[s]
  BY <1>1, <1>4, BoxMore
<1>6. /\ ~("wait" \in todo'[s])
      /\ \A t \in Sides : t # s => ("wait" \in todo'[t] <=> "wait" \in todo[t])
  BY <1>1 DEF MediaTypes
<1>7. Kept(box[Other(s)], box'[Other(s)], {"reply", "again"})
  BY <1>4, <1>5, Keeping
<1>8. Types(box[Other(s)], "negotiate", "offer") => Types(box'[Other(s)], "negotiate", "offer")
  BY <1>3, <1>4, <1>5 DEF Grows
<1>9. Doing("out")' /\ Doing("in")'
  <2>1. Doing(s)'
    BY <1>1, <1>2, <1>5 DEF Doing, Making, Answering
  <2>2. Doing(Other(s))'
    <3>1. Doing(Other(s))
      BY <1>0 DEF Exchanges
    <3>2. Types(box[Other(s)], "reply", "answer") => Types(box'[Other(s)], "reply", "answer")
      BY <1>7 DEF Kept
    <3> QED BY <3>1, <3>2, <1>1, <1>8 DEF Doing, Making, Answering
  <2> QED BY <2>1, <2>2, <1>0
<1>10. CASE s = "out"
  <2>1. ~Has(box["in"], "negotiate")
    BY <1>1, <1>10 DEF Exchanges, CallersExchange, AtMostOne, Caller1, Caller2
  <2>2. /\ Has(box'["in"], "negotiate") /\ (Has(box'["in"], "reply") <=> Has(box["in"], "reply"))
        /\ (Has(box'["in"], "again") <=> Has(box["in"], "again"))
        /\ Once(box["in"], "reply") => Once(box'["in"], "reply")
        /\ \A w, a : Fits(box["in"], "reply", w, a) => Fits(box'["in"], "reply", w, a)
        /\ box'["out"] = box["out"]
    BY <1>0, <1>4, <1>5, <1>7, <1>10 DEF Kept, Grows
  <2>3. /\ Once(box'["in"], "negotiate") /\ AllAre(box'["in"], "negotiate", pend["out"])
        /\ Behind(box["in"], "negotiate", "reply") => Behind(box'["in"], "negotiate", "reply")
    <3>1. Once(box["in"], "negotiate") /\ AllAre(box["in"], "negotiate", pend["out"])
      BY <2>1, Absent
    <3> QED BY <3>1, <2>1, <1>0, <1>4, <1>5, <1>10 DEF Grows
  <2>4. /\ Caller1 /\ ~Caller1' /\ Caller2' /\ (Caller3' <=> Caller3)
        /\ (Caller4' <=> Caller4) /\ (Caller5' <=> Caller5) /\ (Caller6' <=> Caller6)
        /\ (Taken' <=> Taken)
    BY <2>2, <1>1, <1>6, <1>10 DEF Caller1, Caller2, Caller3, Caller4, Caller5, Caller6, Taken
  <2>5. /\ (Callee1' <=> Callee1) /\ (Callee2' <=> Callee2) /\ (Callee3' <=> Callee3)
        /\ (Callee4' <=> Callee4) /\ (Callee5' <=> Callee5) /\ (Callee6' <=> Callee6)
    BY <2>2, <2>4, <1>0, <1>1, <1>6, <1>10
       DEF Callee1, Callee2, Callee3, Callee4, Callee5, Callee6
  <2>6. CallersExchange' /\ CalleesExchange' /\ Crossing'
    BY <2>4, <2>5, <1>1 DEF Exchanges, CallersExchange, CalleesExchange, Crossing, AtMostOne
  <2>7. Impolite'
    BY <2>2, <2>5, <1>1 DEF Exchanges, Impolite, Making
  <2>8. Ones' /\ Offers'
    BY <2>2, <2>3, <2>4, <1>0, <1>1, OtherSide DEF Exchanges, Ones, Offers
  <2>9. CalleeSees' /\ CallerSees'
    BY <2>2, <2>4, <2>5, <1>1 DEF Exchanges, CalleeSees, CallerSees
  <2> QED BY <2>6, <2>7, <2>8, <2>9, <1>9 DEF Exchanges
<1>11. CASE s = "in"
  <2>1. Callee1 /\ ~Callee2
    BY <1>1, <1>11 DEF Exchanges, CalleesExchange, AtMostOne, Callee1
  <2>2. /\ Has(box'["out"], "negotiate")
        /\ (Has(box'["out"], "reply") <=> Has(box["out"], "reply"))
        /\ Once(box["out"], "reply") => Once(box'["out"], "reply")
        /\ \A w, a : Fits(box["out"], "reply", w, a) => Fits(box'["out"], "reply", w, a)
        /\ box'["in"] = box["in"]
    BY <1>0, <1>4, <1>5, <1>7, <1>11 DEF Kept, Grows
  <2>3. /\ (Caller1' <=> Caller1) /\ (Caller2' <=> Caller2) /\ (Caller3' <=> Caller3)
        /\ (Caller4' <=> Caller4) /\ (Caller5' <=> Caller5) /\ (Caller6' <=> Caller6)
        /\ (Taken' <=> Taken)
    BY <2>2, <1>0, <1>1, <1>6, <1>11 DEF Caller1, Caller2, Caller3, Caller4, Caller5, Caller6,
       Taken
  <2>4. IF Taken' THEN Once(box'["out"], "negotiate")
        /\ AllAre(box'["out"], "negotiate", pend["in"])
                  ELSE LateOnce(box'["out"]) /\ LateAre(box'["out"], pend["in"])
    <3>1. CASE Taken
      <4>1. ~Has(box["out"], "negotiate") /\ Once(box["out"], "negotiate")
            /\ AllAre(box["out"], "negotiate", pend["in"])
        BY <3>1, <2>1, Absent DEF Callee2
      <4> QED BY <4>1, <3>1, <2>3, <1>0, <1>4, <1>5, <1>11 DEF Grows
    <3>2. CASE ~Taken
      <4>1. ~HasLate(box["out"]) /\ LateOnce(box["out"]) /\ LateAre(box["out"], pend["in"])
        BY <3>2, <2>1, Absent DEF Callee2
      <4> QED BY <4>1, <3>2, <2>3, <1>0, <1>4, <1>5, <1>11 DEF GrowsLate
    <3> QED BY <3>1, <3>2
  <2>5. /\ ~Callee1' /\ (Callee3' <=> Callee3)
        /\ (Callee4' <=> Callee4) /\ (Callee5' <=> Callee5) /\ (Callee6' <=> Callee6)
    BY <2>2, <1>0, <1>1, <1>6, <1>11 DEF Callee1, Callee3, Callee4, Callee5, Callee6
  <2>6. CallersExchange' /\ CalleesExchange' /\ Crossing'
    BY <2>1, <2>3, <2>5, <1>1 DEF Exchanges, CallersExchange, CalleesExchange, Crossing, AtMostOne
  <2>7. Impolite'
    BY <2>2, <2>5, <1>1 DEF Exchanges, Impolite, Making
  <2>8. Ones' /\ Offers'
    BY <2>2, <2>4, <1>0, <1>1, OtherSide DEF Exchanges, Ones, Offers
  <2>9. CalleeSees' /\ CallerSees'
    BY <2>2, <2>3, <2>5, <1>1 DEF Exchanges, CalleeSees, CallerSees
  <2> QED BY <2>6, <2>7, <2>8, <2>9, <1>9 DEF Exchanges
<1> QED BY <1>0, <1>10, <1>11

\* What was waited with is rolled back: only the callee's, and what it sends
\* then is not what the caller waits for.
LEMMA SendsAgain ==
  ASSUME MediaTypes, Exchanges, NEW s \in Sides, sendAgain(s), ~over[s]
  PROVE  Exchanges'
<1> USE DEF pcVars, sentVars, otherVars
<1>1. s = "in"
  BY OtherSide DEF sendAgain, Exchanges, Impolite
<1>2. PICK m \in Messages : m.kind = "again" /\ wire' = [wire EXCEPT ![s] = Append(@, m)]
  <2>1. localDescription(s) \in Descriptions
    BY DEF localDescription, MediaTypes
  <2>2. [kind |-> "again", desc |-> localDescription(s), muted |-> mic[s]] \in Messages
    BY <2>1 DEF Messages, AnyMessage, MediaTypes, MediaTypeOK
  <2> QED BY <2>2 DEF sendAgain, Send
<1>3. void'["out"] = void["out"]
  BY <1>1, OtherSide DEF sendAgain, MediaTypes
<1> QED BY <1>1, <1>2, <1>3, OtherMessages DEF sendAgain

\* An operation of the chain, as makingOffer should tell.
LEMMA MakingIs ==
  ASSUME MediaTypes, NEW s \in Sides
  PROVE  Making(s) <=> \E i \in DOMAIN chain[s] : chain[s][i].op \in {"createOffer", "setLocal"}
<1>1. chain[s] \in Seq(Operations)
  BY DEF MediaTypes
<1>2. DOMAIN chain[s] = 1 .. Len(chain[s])
      /\ \A i \in 1 .. Len(chain[s]) : chain[s][i] \in Operations
  BY <1>1
<1>3. Len(ops[s]) = Len(chain[s]) /\ \A i \in 1 .. Len(chain[s]) : ops[s][i] = What(chain[s][i])
  BY <1>1 DEF ops, View
<1>4. \A o \in Operations : /\ What(o).kind = "createOffer" <=> o.op = "createOffer"
                            /\ What(o).kind = "setLocal" <=> o.op = "setLocal"
  BY DEF What, Operations, Descriptions
<1> QED BY <1>2, <1>3, <1>4 DEF Making, Has

\* What is received.
LEMMA Received ==
  ASSUME MediaTypes, NEW s \in Sides, receive(s), ~over[s], ~mistaken'[s],
         NEW m, m = Head(post[s])
  PROVE  /\ m \in Messages /\ Drops(box[s], m, box'[s]) /\ DropsLate(box[s], m, box'[s])
         /\ box'[Other(s)] = box[Other(s)] /\ ops'[Other(s)] = ops[Other(s)]
         /\ m.kind = "metadata" \/ ignoreOffer(s, m) => ops' = ops
         /\ m.kind # "metadata" /\ ~ignoreOffer(s, m) =>
              /\ ~Mistakes(s, m)
              /\ \E w : w.kind = m.desc.type /\ w.desc = m.desc /\ Grows(ops[s], w, ops'[s])
<1> USE DEF pcVars, sentVars, otherVars
<1>1. post[s] # <<>> /\ post' = [post EXCEPT ![s] = Tail(@)] /\ wire' = wire
  BY DEF receive
<1>2. /\ m \in Messages /\ Drops(box[s], m, box'[s]) /\ DropsLate(box[s], m, box'[s])
      /\ box'[Other(s)] = box[Other(s)]
  BY <1>1, BoxLess
<1>3. CASE m.kind = "metadata" \/ ignoreOffer(s, m)
  <2>1. chain' = chain
    BY <1>3 DEF receive
  <2>2. ops' = ops
    BY <2>1 DEF ops
  <2>3. ignoreOffer(s, m) \/ m.kind = "metadata"
    BY <1>3
  <2> QED BY <1>2, <2>2, <2>3
<1>4. CASE m.kind # "metadata" /\ ~ignoreOffer(s, m)
  <2>1. m.desc \in Descriptions
    BY <1>2, PartTypes
  <2>2. PICK o : o = Operation("setRemote", m.desc)
    OBVIOUS
  <2>3. o \in Operations /\ What(o).kind = m.desc.type /\ What(o).desc = m.desc
    BY <2>1, <2>2, WhatOf DEF Steps
  <2>4. chain' = [chain EXCEPT ![s] = Append(@, o)]
    BY <1>4, <2>2 DEF receive
  <2>5. Grows(ops[s], What(o), ops'[s]) /\ ops'[Other(s)] = ops[Other(s)]
    BY <2>3, <2>4, OpsMore
  <2>6. ~Mistakes(s, m)
    <3>1. mistaken' = [mistaken EXCEPT ![s] =
                         @ \/ (~(over[s] \/ ignoreOffer(s, m)) /\ Mistakes(s, m))]
      BY DEF receive
    <3>2. mistaken'[s] <=> (mistaken[s] \/ (~(over[s] \/ ignoreOffer(s, m)) /\ Mistakes(s, m)))
      BY <3>1 DEF MediaTypes
    <3> QED BY <3>2, <1>4
  <2> QED BY <1>2, <1>4, <2>3, <2>5, <2>6
<1> QED BY <1>3, <1>4

\* The caller receives.
LEMMA CallerReceives ==
  ASSUME MediaTypes, Exchanges, receive("out"), ~over["out"], ~mistaken'["out"]
  PROVE  Exchanges'
<1> USE DEF pcVars, sentVars, otherVars
<1>0. "out" \in Sides /\ "in" \in Sides /\ Other("out") = "in" /\ Other("in") = "out"
  BY OtherSide
<1>1. PICK m : m = Head(post["out"])
  OBVIOUS
<1>2. /\ m \in Messages /\ Drops(box["out"], m, box'["out"])
      /\ DropsLate(box["out"], m, box'["out"])
      /\ box'["in"] = box["in"] /\ ops'["in"] = ops["in"]
      /\ m.kind = "metadata" \/ ignoreOffer("out", m) => ops' = ops
  BY <1>0, <1>1, Received
<1>3. m.kind # "metadata" /\ ~ignoreOffer("out", m) =>
        /\ ~Mistakes("out", m)
        /\ \E w : w.kind = m.desc.type /\ w.desc = m.desc /\ Grows(ops["out"], w, ops'["out"])
  BY <1>0, <1>1, Received
<1>4. /\ signal' = signal /\ pend' = pend /\ asked' = asked /\ agreed' = agreed /\ sees' = sees
      /\ void' = void /\ todo' = todo
  BY DEF receive
<1>5. /\ Doing("out") /\ Doing("in") /\ Impolite
      /\ box["out"] \in Seq(Messages)
  BY <1>0 DEF Exchanges, box, MediaTypes
<1>6. m.kind \in {"negotiate", "again", "reply", "metadata"}
  BY <1>2 DEF Messages, AnyMessage
<1>7. ASSUME ops' = ops, m.kind \notin {"negotiate", "reply"} PROVE Exchanges'
  <2>1. \A t \in Sides : Kept(box[t], box'[t], {"negotiate", "reply"})
    <3>1. Kept(box["out"], box'["out"], {"negotiate", "reply"})
      BY <1>2, <1>7, Keeping
    <3> QED BY <3>1, <1>2, Keeping, OtherSide
  <2>2. /\ HasLate(box'["out"]) <=> HasLate(box["out"])
        /\ LateOnce(box["out"]) => LateOnce(box'["out"])
        /\ \A d : LateAre(box["out"], d) => LateAre(box'["out"], d)
    BY <1>2, <1>7 DEF DropsLate
  <2> QED BY <1>2, <1>4, <1>7, <2>1, <2>2, OffersRemain
<1>8. CASE m.kind = "metadata"
  BY <1>2, <1>7, <1>8
<1>9. CASE m.kind = "again"
  <2>1. CASE ignoreOffer("out", m)
    BY <1>2, <1>7, <1>9, <2>1
  <2>2. CASE ~ignoreOffer("out", m)
    <3>1. signal["out"] = "stable" /\ chain["out"] = <<>> /\ m.desc.type # "offer"
      BY <1>3, <1>9, <2>2 DEF Mistakes
    <3>2. PICK w : w.kind = m.desc.type /\ w.desc = m.desc /\ Grows(ops["out"], w, ops'["out"])
      BY <1>3, <1>9, <2>2
    <3>3. \A k : ~Has(ops["out"], k)
      BY <3>1, <1>0, OpsNone
    <3>4. w.kind \in {"none", "answer"}
      BY <3>1, <3>2, <1>2, PartTypes DEF Descriptions
    <3>5. Kept(ops["out"], ops'["out"],
               {"offer", "createOffer", "setLocal", "createAnswer", "setLocalAnswer"})
      <4>1. w.kind \notin {"offer", "createOffer", "setLocal", "createAnswer", "setLocalAnswer"}
        BY <3>4
      <4> QED BY <4>1, <3>2, Keeping
    <3>6. Kept(box["out"], box'["out"], {"negotiate", "reply"})
      <4>1. m.kind \notin {"negotiate", "reply"}
        BY <1>9
      <4> QED BY <4>1, <1>2, Keeping
    <3>7. \A k \in {"offer", "createOffer", "setLocal", "createAnswer", "setLocalAnswer"} :
            ~Has(ops'["out"], k)
      BY <3>3, <3>5 DEF Kept
    <3>8. ~Making("out") /\ ~Making("out")' /\ ~Answering("out") /\ ~Answering("out")'
      BY <3>3, <3>7 DEF Making, Answering
    <3>9. /\ Has(box'["out"], "negotiate") <=> Has(box["out"], "negotiate")
          /\ Has(box'["out"], "reply") <=> Has(box["out"], "reply")
          /\ Once(box["out"], "negotiate") => Once(box'["out"], "negotiate")
          /\ Once(box["out"], "reply") => Once(box'["out"], "reply")
          /\ \A d : AllAre(box["out"], "negotiate", d) => AllAre(box'["out"], "negotiate", d)
          /\ Types(box["out"], "negotiate", "offer") => Types(box'["out"], "negotiate", "offer")
          /\ Types(box["out"], "reply", "answer") => Types(box'["out"], "reply", "answer")
          /\ \A w1, a : Fits(box["out"], "reply", w1, a) => Fits(box'["out"], "reply", w1, a)
      BY <3>6 DEF Kept
    <3>10. /\ (Caller1' <=> Caller1) /\ (Caller2' <=> Caller2) /\ (Caller3' <=> Caller3)
           /\ (Caller4' <=> Caller4) /\ (Caller5' <=> Caller5) /\ ~Caller6 /\ ~Caller6'
           /\ Taken /\ Taken'
      BY <3>1, <3>9, <1>2, <1>4 DEF Caller1, Caller2, Caller3, Caller4, Caller5, Caller6, Taken
    <3>11. /\ (Callee1' <=> Callee1) /\ (Callee2' <=> Callee2) /\ ~Callee3 /\ ~Callee3'
           /\ (Callee4' <=> Callee4) /\ (Callee5' <=> Callee5) /\ (Callee6' <=> Callee6)
      BY <3>3, <3>7, <3>9, <3>10, <1>2, <1>4
         DEF Callee1, Callee2, Callee3, Callee4, Callee5, Callee6
    <3>12. CallersExchange' /\ CalleesExchange' /\ Crossing'
      BY <3>10, <3>11, <1>4 DEF Exchanges, CallersExchange, CalleesExchange, Crossing, AtMostOne
    <3>13. Doing("out")' /\ Doing("in")' /\ Impolite'
      <4>1. Doing("out")'
        BY <3>7, <3>8, <3>9, <1>4, <1>5, Absent DEF Doing
      <4>2. Doing("in")'
        BY <1>2, <1>4, <1>5 DEF Doing, Making, Answering
      <4> QED BY <4>1, <4>2, <3>8, <3>11, <1>2, <1>4, <1>5 DEF Impolite
    <3>14. Ones' /\ Offers'
      BY <3>7, <3>9, <3>10, <1>0, <1>2, <1>4, OtherSide, Absent DEF Exchanges, Ones, Offers
    <3>15. CalleeSees' /\ CallerSees'
      BY <3>9, <3>10, <3>11, <1>2, <1>4 DEF Exchanges, CalleeSees, CallerSees
    <3> QED BY <3>12, <3>13, <3>14, <3>15 DEF Exchanges
  <2> QED BY <2>1, <2>2
<1>10. CASE m.kind = "negotiate"
  <2>1. m.desc.type = "offer"
    BY <1>2, <1>5, <1>10 DEF Drops, Doing
  <2>2. Kept(box["out"], box'["out"], {"reply"})
    <3>1. m.kind \notin {"reply"}
      BY <1>10
    <3> QED BY <3>1, <1>2, Keeping
  <2>3. /\ Has(box'["out"], "reply") <=> Has(box["out"], "reply")
        /\ Once(box["out"], "reply") => Once(box'["out"], "reply")
        /\ Types(box["out"], "reply", "answer") => Types(box'["out"], "reply", "answer")
        /\ \A w, a : Fits(box["out"], "reply", w, a) => Fits(box'["out"], "reply", w, a)
    BY <2>2 DEF Kept
  <2>4. /\ Types(box["out"], "negotiate", "offer") => Types(box'["out"], "negotiate", "offer")
        /\ Once(box["out"], "negotiate") => Once(box'["out"], "negotiate")
           /\ ~Has(box'["out"], "negotiate")
           /\ \A d : AllAre(box["out"], "negotiate", d) => AllAre(box'["out"], "negotiate", d)
             /\ m.desc = d
        /\ Has(box["out"], "negotiate")
    BY <1>2, <1>10 DEF Drops
  <2>5. /\ HasLate(box'["out"]) <=> HasLate(box["out"])
        /\ LateOnce(box["out"]) => LateOnce(box'["out"])
        /\ \A d : LateAre(box["out"], d) => LateAre(box'["out"], d)
    BY <1>2, <1>10 DEF DropsLate
  <2>6. CASE ignoreOffer("out", m)
    <3>1. ops' = ops
      BY <1>2, <2>6
    <3>2. /\ (Caller1' <=> Caller1) /\ (Caller2' <=> Caller2) /\ (Caller3' <=> Caller3)
          /\ (Caller4' <=> Caller4) /\ (Caller5' <=> Caller5) /\ (Caller6' <=> Caller6)
          /\ (Taken' <=> Taken)
      BY <3>1, <2>3, <1>2, <1>4 DEF Caller1, Caller2, Caller3, Caller4, Caller5, Caller6, Taken
    <3>3. /\ (Callee1' <=> Callee1) /\ (Callee2' => Callee2) /\ (Callee3' <=> Callee3)
          /\ (Callee4' <=> Callee4) /\ (Callee5' <=> Callee5) /\ (Callee6' <=> Callee6)
      BY <3>1, <3>2, <2>4, <2>5, <1>2, <1>4
         DEF Callee1, Callee2, Callee3, Callee4, Callee5, Callee6
    <3>4. CallersExchange' /\ CalleesExchange' /\ Crossing'
      BY <3>2, <3>3, <1>4 DEF Exchanges, CallersExchange, CalleesExchange, Crossing, AtMostOne
    <3>5. Doing("out")' /\ Doing("in")' /\ Impolite'
      BY <3>1, <3>3, <2>3, <2>4, <1>2, <1>4, <1>5 DEF Doing, Making, Answering, Impolite
    <3>6. Ones' /\ Offers'
      BY <3>1, <3>2, <2>3, <2>4, <2>5, <1>0, <1>2, <1>4, OtherSide DEF Exchanges, Ones, Offers
    <3>7. CalleeSees' /\ CallerSees'
      BY <3>1, <3>2, <3>3, <2>3, <1>2, <1>4 DEF Exchanges, CalleeSees, CallerSees
    <3> QED BY <3>4, <3>5, <3>6, <3>7 DEF Exchanges
  <2>7. CASE ~ignoreOffer("out", m)
    <3>1. signal["out"] = "stable" /\ ~Making("out")
      <4>1. signal["out"] = "stable"
        BY <2>1, <2>7 DEF ignoreOffer, offerCollision
      <4>2. ~Making("out")
        BY <2>1, <2>7, <1>0, <1>3, <1>10, MakingIs DEF Mistakes
      <4> QED BY <4>1, <4>2
    <3>2. PICK w : w.kind = "offer" /\ w.desc = m.desc /\ Grows(ops["out"], w, ops'["out"])
      BY <1>3, <1>10, <2>1, <2>7
    <3>3. Kept(ops["out"], ops'["out"],
               {"answer", "createOffer", "setLocal", "createAnswer", "setLocalAnswer"})
      <4>1. w.kind \notin {"answer", "createOffer", "setLocal", "createAnswer", "setLocalAnswer"}
        BY <3>2
      <4> QED BY <4>1, <3>2, Keeping
    <3>4. Taken /\ Taken' /\ ~Caller6 /\ ~Caller6' /\ Callee2 /\ ~Callee3
      BY <3>1, <2>4, <1>4 DEF Taken, Caller6, Callee2, Exchanges, CalleesExchange, AtMostOne
    <3>5. m.desc = pend["in"] /\ ~Has(box'["out"], "negotiate") /\ ~Callee2'
      BY <3>4, <2>4 DEF Exchanges, Ones, Offers, Callee2
    <3>6. /\ Has(ops'["out"], "offer") /\ Once(ops'["out"], "offer")
          /\ AllAre(ops'["out"], "offer", pend["in"])
      <4>1. /\ ~Has(ops["out"], "offer") /\ Once(ops["out"], "offer")
            /\ AllAre(ops["out"], "offer", pend["in"])
        BY <3>4, Absent DEF Callee3
      <4> QED BY <4>1, <3>2, <3>5 DEF Grows
    <3>7. /\ (Caller1' <=> Caller1) /\ (Caller2' <=> Caller2) /\ (Caller3' <=> Caller3)
          /\ (Caller4' <=> Caller4) /\ (Caller5' <=> Caller5)
      BY <2>3, <1>2, <1>4 DEF Caller1, Caller2, Caller3, Caller4, Caller5
    <3>8. /\ (Callee1' <=> Callee1) /\ Callee3'
          /\ (Callee4' <=> Callee4) /\ (Callee5' <=> Callee5) /\ (Callee6' <=> Callee6)
      BY <3>6, <1>2, <1>4 DEF Callee1, Callee3, Callee4, Callee5, Callee6
    <3>9. CallersExchange' /\ CalleesExchange' /\ Crossing'
      BY <3>4, <3>5, <3>7, <3>8, <1>4
         DEF Exchanges, CallersExchange, CalleesExchange, Crossing, AtMostOne
    <3>10. Doing("out")' /\ Doing("in")' /\ Impolite'
      <4>1. Doing("out")' /\ ~Making("out")'
        BY <3>1, <3>3, <2>3, <2>4, <1>4, <1>5 DEF Kept, Doing, Making, Answering
      <4>2. Doing("in")'
        BY <1>2, <1>4, <1>5 DEF Doing, Making, Answering
      <4> QED BY <4>1, <4>2, <3>1, <1>2, <1>4, <1>5 DEF Impolite
    <3>11. Ones' /\ Offers'
      BY <3>4, <3>5, <3>6, <2>3, <2>4, <1>0, <1>2, <1>4, OtherSide DEF Exchanges, Ones, Offers
    <3>12. CalleeSees' /\ CallerSees'
      BY <3>4, <3>5, <3>7, <3>8, <2>3, <1>2, <1>4 DEF Exchanges, CalleeSees, CallerSees
    <3> QED BY <3>9, <3>10, <3>11, <3>12 DEF Exchanges
  <2> QED BY <2>6, <2>7
<1>11. CASE m.kind = "reply"
  <2>1. m.desc.type = "answer" /\ ~ignoreOffer("out", m)
    BY <1>2, <1>5, <1>11 DEF Drops, Doing, ignoreOffer, offerCollision
  <2>2. PICK w : w.kind = "answer" /\ w.desc = m.desc /\ Grows(ops["out"], w, ops'["out"])
    BY <1>3, <1>11, <2>1
  <2>3. Kept(ops["out"], ops'["out"],
             {"offer", "createOffer", "setLocal", "createAnswer", "setLocalAnswer"})
    <3>1. w.kind \notin {"offer", "createOffer", "setLocal", "createAnswer", "setLocalAnswer"}
      BY <2>2
    <3> QED BY <3>1, <2>2, Keeping
  <2>4. /\ Has(box["out"], "reply")
        /\ Once(box["out"], "reply") => Once(box'["out"], "reply") /\ ~Has(box'["out"], "reply")
        /\ Types(box["out"], "reply", "answer") => Types(box'["out"], "reply", "answer")
        /\ Types(box["out"], "negotiate", "offer") => Types(box'["out"], "negotiate", "offer")
        /\ \A s1, a : Fits(box["out"], "reply", s1, a) =>
             Fits(box'["out"], "reply", s1, a) /\ [s1 EXCEPT !.hold = w.desc.media.hold] = a
    BY <1>2, <1>11, <2>2 DEF Drops
  <2>5. /\ HasLate(box["out"]) <=> Has(box'["out"], "negotiate")
        /\ LateOnce(box["out"]) => Once(box'["out"], "negotiate")
        /\ \A d : LateAre(box["out"], d) => AllAre(box'["out"], "negotiate", d)
    BY <1>2, <1>11 DEF DropsLate
  <2>6. Caller5 /\ ~Caller5' /\ signal["out"] = "localOffer" /\ ~Caller6 /\ ~Taken
    BY <2>4, <1>0 DEF Exchanges, CallersExchange, AtMostOne, Caller5, Taken, Ones
  <2>7. ~Has(ops["out"], "answer") /\ Has(ops'["out"], "answer")
    BY <2>2, <2>6 DEF Caller6, Grows
  <2>8. /\ (Caller1' <=> Caller1) /\ (Caller2' <=> Caller2) /\ (Caller3' <=> Caller3)
        /\ (Caller4' <=> Caller4) /\ Caller6' /\ Taken'
    BY <2>6, <2>7, <1>2, <1>4 DEF Caller1, Caller2, Caller3, Caller4, Caller6, Taken
  <2>9. /\ (Callee1' <=> Callee1) /\ (Callee2' <=> Callee2) /\ (Callee3' <=> Callee3)
        /\ (Callee4' <=> Callee4) /\ (Callee5' <=> Callee5) /\ (Callee6' <=> Callee6)
    BY <2>3, <2>5, <2>6, <2>8, <1>2, <1>4
       DEF Kept, Callee1, Callee2, Callee3, Callee4, Callee5, Callee6
  <2>10. CallersExchange' /\ CalleesExchange' /\ Crossing'
    BY <2>6, <2>8, <2>9, <1>4 DEF Exchanges, CallersExchange, CalleesExchange, Crossing, AtMostOne
  <2>11. Doing("out")' /\ Doing("in")' /\ Impolite'
    <3>1. Doing("out")' /\ ~Making("out")'
      <4>1. ~Making("out")
        BY <2>6, <1>5 DEF Doing
      <4> QED BY <4>1, <2>3, <2>4, <1>4, <1>5 DEF Kept, Doing, Making, Answering
    <3>2. Doing("in")'
      BY <1>2, <1>4, <1>5 DEF Doing, Making, Answering
    <3> QED BY <3>1, <3>2, <2>9, <1>2, <1>4, <1>5 DEF Impolite
  <2>12. Ones'
    BY <2>3, <2>4, <2>5, <2>6, <2>8, <1>0, <1>2, <1>4, OtherSide DEF Kept, Exchanges, Ones
  <2>13. Offers'
    BY <2>3, <2>5, <2>6, <2>8, <1>0, <1>2, <1>4 DEF Kept, Exchanges, Offers
  <2>14. Fits(ops'["out"], "answer", sees["out"], agreed["in"])
    <3>1. Fits(ops["out"], "answer", sees["out"], agreed["in"])
      BY <2>7, Absent
    <3>2. Fits(box["out"], "reply", sees["out"], agreed["in"])
      BY DEF Exchanges, CallerSees
    <3> QED BY <3>1, <3>2, <2>2, <2>4 DEF Grows
  <2>15. CalleeSees' /\ CallerSees'
    BY <2>4, <2>6, <2>8, <2>9, <2>14, <1>2, <1>4 DEF Exchanges, CalleeSees, CallerSees
  <2> QED BY <2>10, <2>11, <2>12, <2>13, <2>15 DEF Exchanges
<1> QED BY <1>6, <1>8, <1>9, <1>10, <1>11

\* The callee receives, and ignores nothing.
LEMMA CalleeReceives ==
  ASSUME MediaTypes, Exchanges, receive("in"), ~over["in"], ~mistaken'["in"]
  PROVE  Exchanges'
<1> USE DEF pcVars, sentVars, otherVars
<1>0. "out" \in Sides /\ "in" \in Sides /\ Other("out") = "in" /\ Other("in") = "out"
  BY OtherSide
<1>1. PICK m : m = Head(post["in"])
  OBVIOUS
<1>9. ~ignoreOffer("in", m)
  BY DEF ignoreOffer
<1>2. /\ m \in Messages /\ Drops(box["in"], m, box'["in"])
      /\ box'["out"] = box["out"] /\ ops'["out"] = ops["out"]
      /\ m.kind = "metadata" => ops' = ops
  BY <1>0, <1>1, Received
<1>3. m.kind # "metadata" =>
        \E w : w.kind = m.desc.type /\ w.desc = m.desc /\ Grows(ops["in"], w, ops'["in"])
  BY <1>0, <1>1, <1>9, Received
<1>4. /\ signal' = signal /\ pend' = pend /\ asked' = asked /\ agreed' = agreed /\ sees' = sees
      /\ void' = void /\ todo' = todo
  BY DEF receive
<1>5. Doing("out") /\ Doing("in") /\ Impolite
  BY DEF Exchanges
<1>6. m.kind \in {"negotiate", "reply", "metadata"}
  BY <1>2, <1>5 DEF Messages, AnyMessage, Impolite, Drops
<1>7. Doing("out")'
  BY <1>2, <1>4, <1>5 DEF Doing, Making, Answering
<1>8. ~Has(box'["in"], "again")
  BY <1>2, <1>5 DEF Impolite, Drops
<1>10. CASE m.kind = "metadata"
  <2>1. \A t \in Sides : Kept(box[t], box'[t], {"negotiate", "reply"})
    <3>1. m.kind \notin {"negotiate", "reply"}
      BY <1>10
    <3>2. Kept(box["in"], box'["in"], {"negotiate", "reply"})
      BY <3>1, <1>2, Keeping
    <3> QED BY <3>2, <1>2, Keeping, OtherSide
  <2> QED BY <2>1, <1>2, <1>4, <1>8, <1>10, OffersRemain
<1>11. CASE m.kind = "negotiate"
  <2>1. m.desc.type = "offer"
    BY <1>2, <1>5, <1>11 DEF Drops, Doing
  <2>2. PICK w : w.kind = "offer" /\ w.desc = m.desc /\ Grows(ops["in"], w, ops'["in"])
    BY <1>3, <1>11, <2>1
  <2>3. Kept(ops["in"], ops'["in"],
             {"answer", "createOffer", "setLocal", "createAnswer", "setLocalAnswer"})
    <3>1. w.kind \notin {"answer", "createOffer", "setLocal", "createAnswer", "setLocalAnswer"}
      BY <2>2
    <3> QED BY <3>1, <2>2, Keeping
  <2>4. Kept(box["in"], box'["in"], {"reply"})
    <3>1. m.kind \notin {"reply"}
      BY <1>11
    <3> QED BY <3>1, <1>2, Keeping
  <2>5. /\ Has(box["in"], "negotiate") /\ ~Has(box'["in"], "negotiate")
        /\ ~Has(box'["in"], "reply") /\ m.desc = pend["out"]
        /\ Types(box'["in"], "negotiate", "offer")
    <3>1. Has(box["in"], "negotiate")
      BY <1>2, <1>11 DEF Drops
    <3>2. ~Has(box'["in"], "negotiate") /\ ~Has(box'["in"], "reply") /\ m.desc = pend["out"]
          /\ Types(box'["in"], "negotiate", "offer")
      BY <1>2, <1>11 DEF Drops, Exchanges, Ones, Offers, Doing
    <3> QED BY <3>1, <3>2
  <2>6. ~Has(box["in"], "reply") /\ ~Callee5 /\ ~Callee5'
    BY <2>4, <2>5 DEF Kept, Callee5
  <2>7. Caller2 /\ ~Caller2' /\ ~Caller3 /\ ~Caller4 /\ ~Caller5 /\ ~Caller6 /\ ~Taken
        /\ signal["out"] = "localOffer"
    BY <2>5 DEF Exchanges, CallersExchange, AtMostOne, Caller2, Taken
  <2>8. /\ Has(ops'["in"], "offer") /\ Once(ops'["in"], "offer") /\ ~Has(ops["in"], "offer")
        /\ AllAre(ops'["in"], "offer", pend["out"]) /\ Behind(ops'["in"], "offer", "answer")
    <3>1. /\ ~Has(ops["in"], "offer") /\ Once(ops["in"], "offer")
          /\ AllAre(ops["in"], "offer", pend["out"]) /\ Behind(ops["in"], "offer", "answer")
      BY <2>7, Absent DEF Caller3
    <3> QED BY <3>1, <2>2, <2>5 DEF Grows
  <2>9. /\ (Caller1' <=> Caller1) /\ Caller3' /\ ~Caller4' /\ ~Caller5' /\ ~Caller6' /\ ~Taken'
    BY <2>7, <2>8, <1>2, <1>4 DEF Caller1, Caller3, Caller4, Caller5, Caller6, Taken
  <2>10. /\ (Callee1' <=> Callee1) /\ (Callee2' <=> Callee2) /\ (Callee3' <=> Callee3)
         /\ (Callee4' <=> Callee4) /\ (Callee6' <=> Callee6)
    BY <2>3, <2>7, <2>9, <1>2, <1>4 DEF Kept, Callee1, Callee2, Callee3, Callee4, Callee6
  <2>11. CallersExchange' /\ CalleesExchange' /\ Crossing'
    BY <2>6, <2>7, <2>9, <2>10, <1>4
       DEF Exchanges, CallersExchange, CalleesExchange, Crossing, AtMostOne
  <2>12. Doing("in")' /\ Impolite'
    <3>1. Doing("in")'
      BY <2>3, <2>4, <2>5, <1>4, <1>5 DEF Kept, Doing, Making, Answering
    <3> QED BY <3>1, <2>10, <1>2, <1>4, <1>5, <1>8 DEF Impolite, Making
  <2>13. Ones'
    <3>1. Once(box'["in"], "negotiate") /\ Behind(box'["in"], "negotiate", "reply")
          /\ Once(box'["in"], "reply")
      BY <2>5, Absent
    <3>2. Once(ops["in"], "answer") => Once(ops'["in"], "answer")
      BY <2>3 DEF Kept
    <3> QED BY <3>1, <3>2, <2>7, <2>8, <2>9, <1>0, <1>2, OtherSide DEF Exchanges, Ones
  <2>14. Offers'
    <3>1. AllAre(box'["in"], "negotiate", pend["out"])
      BY <2>5, Absent
    <3> QED BY <3>1, <2>7, <2>8, <2>9, <1>2, <1>4 DEF Exchanges, Offers
  <2>15. CalleeSees' /\ CallerSees'
    <3>1. Fits(box'["in"], "reply", sees["in"], agreed["out"])
      BY <2>5, Absent
    <3>2. \A w1, a : Fits(ops["in"], "answer", w1, a) => Fits(ops'["in"], "answer", w1, a)
      BY <2>3 DEF Kept
    <3> QED BY <3>1, <3>2, <2>6, <2>7, <2>9, <2>10, <1>2, <1>4
               DEF Exchanges, CalleeSees, CallerSees
  <2> QED BY <2>11, <2>12, <2>13, <2>14, <2>15, <1>7 DEF Exchanges
<1>12. CASE m.kind = "reply"
  <2>1. m.desc.type = "answer"
    BY <1>2, <1>5, <1>12 DEF Drops, Doing
  <2>2. PICK w : w.kind = "answer" /\ w.desc = m.desc /\ Grows(ops["in"], w, ops'["in"])
    BY <1>3, <1>12, <2>1
  <2>3. Kept(ops["in"], ops'["in"],
             {"offer", "createOffer", "setLocal", "createAnswer", "setLocalAnswer"})
    <3>1. w.kind \notin {"offer", "createOffer", "setLocal", "createAnswer", "setLocalAnswer"}
      BY <2>2
    <3> QED BY <3>1, <2>2, Keeping
  <2>4. Kept(box["in"], box'["in"], {"negotiate"})
    <3>1. m.kind \notin {"negotiate"}
      BY <1>12
    <3> QED BY <3>1, <1>2, Keeping
  <2>5. /\ Has(box["in"], "reply")
        /\ Once(box["in"], "reply") => ~Has(box'["in"], "reply")
        /\ Types(box["in"], "reply", "answer") => Types(box'["in"], "reply", "answer")
        /\ Behind(box["in"], "negotiate", "reply") => Behind(box'["in"], "negotiate", "reply")
        /\ \A s1, a : Fits(box["in"], "reply", s1, a) => [s1 EXCEPT !.hold = w.desc.media.hold] = a
    BY <1>2, <1>12, <2>2 DEF Drops
  <2>6. /\ Callee5 /\ ~Callee5' /\ ~Callee6 /\ signal["in"] = "localOffer"
        /\ ~Caller3 /\ ~Caller4 /\ ~Caller5 /\ ~Caller6
    BY <2>5, <1>0 DEF Exchanges, CalleesExchange, Crossing, AtMostOne, Callee5, Ones
  <2>7. /\ ~Has(ops["in"], "answer") /\ ~Has(ops["in"], "offer")
        /\ Has(ops'["in"], "answer") /\ ~Has(ops'["in"], "offer") /\ Once(ops'["in"], "answer")
    <3>1. ~Has(ops["in"], "answer") /\ ~Has(ops["in"], "offer") /\ Once(ops["in"], "answer")
      BY <2>6, Absent DEF Callee6, Caller3
    <3> QED BY <3>1, <2>2 DEF Grows
  <2>8. /\ (Caller1' <=> Caller1) /\ (Caller2' <=> Caller2) /\ ~Caller3'
        /\ ~Caller4' /\ ~Caller5' /\ ~Caller6' /\ (Taken' <=> Taken)
    BY <2>4, <2>6, <2>7, <1>2, <1>4
       DEF Kept, Caller1, Caller2, Caller3, Caller4, Caller5, Caller6, Taken
  <2>9. /\ (Callee1' <=> Callee1) /\ (Callee2' <=> Callee2) /\ (Callee3' <=> Callee3)
        /\ (Callee4' <=> Callee4) /\ Callee6'
    BY <2>7, <2>8, <1>2, <1>4 DEF Callee1, Callee2, Callee3, Callee4, Callee6
  <2>10. CallersExchange' /\ CalleesExchange' /\ Crossing'
    BY <2>6, <2>8, <2>9, <1>4 DEF Exchanges, CallersExchange, CalleesExchange, Crossing, AtMostOne
  <2>11. Doing("in")' /\ Impolite'
    <3>1. Doing("in")'
      BY <2>3, <2>4, <2>5, <1>4, <1>5 DEF Kept, Doing, Making, Answering
    <3> QED BY <3>1, <2>9, <1>2, <1>4, <1>5, <1>8 DEF Impolite, Making
  <2>12. Ones' /\ Offers'
    <3>1. Once(box'["in"], "reply")
      BY <2>5, <2>6, <1>0, Absent DEF Callee5
    <3>2. /\ Once(box["in"], "negotiate") => Once(box'["in"], "negotiate")
          /\ \A d : AllAre(box["in"], "negotiate", d) => AllAre(box'["in"], "negotiate", d)
      BY <2>4 DEF Kept
    <3>3. Once(ops'["in"], "offer") /\ AllAre(ops'["in"], "offer", pend["out"])
          /\ Behind(ops'["in"], "offer", "answer")
      BY <2>7, Absent
    <3> QED BY <3>1, <3>2, <3>3, <2>5, <2>7, <2>8, <1>0, <1>2, <1>4, OtherSide
            DEF Exchanges, Ones, Offers
  <2>13. Fits(ops'["in"], "answer", sees["in"], agreed["out"])
    <3>1. Fits(ops["in"], "answer", sees["in"], agreed["out"])
      BY <2>7, Absent
    <3>2. Fits(box["in"], "reply", sees["in"], agreed["out"])
      BY DEF Exchanges, CalleeSees
    <3> QED BY <3>1, <3>2, <2>2, <2>5 DEF Grows
  <2>14. CalleeSees' /\ CallerSees'
    <3>1. Fits(box'["in"], "reply", sees["in"], agreed["out"])
      BY <2>6, Absent DEF Callee5
    <3> QED BY <3>1, <2>6, <2>8, <2>9, <2>13, <1>2, <1>4 DEF Exchanges, CalleeSees, CallerSees
  <2> QED BY <2>10, <2>11, <2>12, <2>14, <1>7 DEF Exchanges
<1> QED BY <1>6, <1>10, <1>11, <1>12

\* The caller takes the callee's offer.
LEMMA CallerTakesOffer ==
  ASSUME MediaTypes, Exchanges, setRemoteOffer("out")
  PROVE  Exchanges'
<1> USE DEF pcVars, sentVars, otherVars
<1>0. "out" \in Sides /\ "in" \in Sides /\ Other("out") = "in" /\ Other("in") = "out"
  BY OtherSide
<1>1. PICK h : h = Head(chain["out"])
  OBVIOUS
<1>2. /\ chain["out"] # <<>> /\ h.op = "setRemote" /\ h.desc.type = "offer"
      /\ Then("out", Operation("createAnswer", NoOffer)) /\ box' = box
      /\ signal' = [signal EXCEPT !["out"] = "remoteOffer"]
      /\ pend' = [pend EXCEPT !["out"] = NoOffer]
      /\ sees' = [sees EXCEPT !["out"] = h.desc.media]
      /\ todo' = [todo EXCEPT !["out"] = @ \ {"wait"}]
      /\ void' = [void EXCEPT !["out"] = IF "wait" \in todo["out"] THEN @ + 1 ELSE @]
      /\ agreed' = agreed /\ asked' = asked
  BY <1>1 DEF setRemoteOffer, NextOp, box
<1>3. PICK o \in Operations :
        o = Operation("createAnswer", NoOffer) /\ What(o).kind = "createAnswer"
  BY WhatOf, PartTypes DEF Steps
<1>4. What(h).kind = "offer" /\ What(h).desc = h.desc
  BY <1>0, <1>1, <1>2, HeadOf
<1>5. PICK q : Drops(ops["out"], What(h), q) /\ Grows(q, What(o), ops'["out"])
  BY <1>0, <1>1, <1>2, <1>3, OpsThen
<1>6. ops'["in"] = ops["in"]
  BY <1>0, <1>2, <1>3, OpsThen
<1>7. Has(ops["out"], "offer")
  BY <1>4, <1>5 DEF Drops
<1>8. /\ ~Has(ops'["out"], "offer") /\ h.desc = pend["in"]
      /\ Has(ops'["out"], "createAnswer")
      /\ Once(ops["out"], "createAnswer") /\ ~Has(ops["out"], "createAnswer")
         => Once(ops'["out"], "createAnswer")
  BY <1>0, <1>3, <1>4, <1>5 DEF Drops, Grows, Exchanges, Ones, Offers
<1>9. Kept(ops["out"], ops'["out"], {"answer", "createOffer", "setLocal", "setLocalAnswer"})
  <2>1. What(h).kind \notin {"answer", "createOffer", "setLocal", "setLocalAnswer"}
        /\ What(o).kind \notin {"answer", "createOffer", "setLocal", "setLocalAnswer"}
    BY <1>3, <1>4
  <2> QED BY <2>1, <1>5, Keeping
<1>10. Callee3 /\ signal["out"] = "stable" /\ ~Making("out") /\ Taken
       /\ ~Callee1 /\ ~Callee2 /\ ~Callee4 /\ ~Callee5 /\ ~Callee6
  BY <1>7 DEF Exchanges, Impolite, CalleesExchange, AtMostOne, Callee3, Taken
<1>11. ~Caller1 /\ ~Caller2 /\ ~Caller3 /\ ~Caller4 /\ ~Caller5 /\ ~Caller6
  BY <1>10 DEF Exchanges, CallersExchange
<1>12. /\ signal'["out"] = "remoteOffer" /\ signal'["in"] = signal["in"]
       /\ pend'["in"] = pend["in"]
       /\ sees'["out"] = pend["in"].media /\ sees'["in"] = sees["in"]
       /\ "wait" \notin todo'["out"] /\ ("wait" \in todo'["in"] <=> "wait" \in todo["in"])
       /\ void'["out"] = void["out"]
  BY <1>2, <1>8, <1>11, <1>0 DEF MediaTypes, MediaTypeOK, Caller1
<1>13. /\ ~Caller1' /\ ~Caller2' /\ ~Caller3' /\ ~Caller4' /\ ~Caller5' /\ ~Caller6' /\ Taken'
  BY <1>2, <1>6, <1>11, <1>12 DEF Caller1, Caller2, Caller3, Caller4, Caller5, Caller6, Taken
<1>14. ~Callee1' /\ ~Callee2' /\ ~Callee3' /\ Callee4' /\ ~Callee5' /\ ~Callee6'
  BY <1>2, <1>6, <1>8, <1>10, <1>12, <1>13
     DEF Callee1, Callee2, Callee3, Callee4, Callee5, Callee6
<1>15. CallersExchange' /\ CalleesExchange' /\ Crossing'
  BY <1>7, <1>10, <1>12, <1>13, <1>14
     DEF Exchanges, CallersExchange, CalleesExchange, Crossing, AtMostOne, Callee3
<1>16. Doing("out")' /\ Doing("in")' /\ Impolite'
  <2>1. Doing("out") /\ Doing("in") /\ Impolite
    BY DEF Exchanges
  <2>2. ~Making("out")' /\ Answering("out")' /\ ~Answering("out")
    BY <2>1, <1>8, <1>9, <1>10 DEF Kept, Making, Answering, Doing
  <2>3. ~Has(ops["out"], "createAnswer") /\ ~Has(ops["out"], "setLocalAnswer")
    BY <2>2 DEF Answering
  <2>4. Once(ops'["out"], "createAnswer") /\ ~Has(ops'["out"], "setLocalAnswer")
    BY <2>3, <1>8, <1>9, Absent DEF Kept
  <2>5. Doing("out")'
    BY <2>1, <2>2, <2>4, <1>2, <1>9, <1>12 DEF Kept, Doing, Making
  <2>6. Doing("in")'
    BY <2>1, <1>2, <1>6, <1>12 DEF Doing, Making, Answering
  <2> QED BY <2>1, <2>2, <2>5, <2>6, <1>2, <1>12, <1>14 DEF Impolite
<1>17. Ones'
  BY <1>0, <1>2, <1>6, <1>8, <1>10, <1>13, Absent, OtherSide DEF Exchanges, Ones
<1>18. Offers'
  BY <1>2, <1>6, <1>8, <1>10, <1>11, <1>12, <1>13, Absent DEF Exchanges, Offers, Caller2, Caller3
<1>19. CalleeSees' /\ CallerSees'
  BY <1>2, <1>6, <1>10, <1>11, <1>12, <1>13, <1>14, Absent
     DEF Exchanges, CalleeSees, CallerSees, Caller5
<1> QED BY <1>15, <1>16, <1>17, <1>18, <1>19 DEF Exchanges

\* The callee takes the caller's offer, and whatever offer of its own there is, is no more.
LEMMA CalleeTakesOffer ==
  ASSUME MediaTypes, Exchanges, setRemoteOffer("in")
  PROVE  Exchanges'
<1> USE DEF pcVars, sentVars, otherVars
<1>0. "out" \in Sides /\ "in" \in Sides /\ Other("out") = "in" /\ Other("in") = "out"
  BY OtherSide
<1>1. PICK h : h = Head(chain["in"])
  OBVIOUS
<1>2. /\ chain["in"] # <<>> /\ h.op = "setRemote" /\ h.desc.type = "offer"
      /\ Then("in", Operation("createAnswer", NoOffer)) /\ box' = box
      /\ signal' = [signal EXCEPT !["in"] = "remoteOffer"]
      /\ pend' = [pend EXCEPT !["in"] = NoOffer]
      /\ sees' = [sees EXCEPT !["in"] = h.desc.media]
      /\ todo' = [todo EXCEPT !["in"] = @ \ {"wait"}]
      /\ void' = [void EXCEPT !["in"] = IF "wait" \in todo["in"] THEN @ + 1 ELSE @]
      /\ agreed' = agreed /\ asked' = asked
  BY <1>1 DEF setRemoteOffer, NextOp, box
<1>3. PICK o \in Operations :
        o = Operation("createAnswer", NoOffer) /\ What(o).kind = "createAnswer"
  BY WhatOf, PartTypes DEF Steps
<1>4. What(h).kind = "offer" /\ What(h).desc = h.desc
  BY <1>0, <1>1, <1>2, HeadOf
<1>5. PICK q : Drops(ops["in"], What(h), q) /\ Grows(q, What(o), ops'["in"])
  BY <1>0, <1>1, <1>2, <1>3, OpsThen
<1>6. ops'["out"] = ops["out"]
  BY <1>0, <1>2, <1>3, OpsThen
<1>7. Has(ops["in"], "offer")
  BY <1>4, <1>5 DEF Drops
<1>8. /\ ~Has(ops'["in"], "offer") /\ h.desc = pend["out"] /\ ~Has(q, "answer")
      /\ Has(ops'["in"], "createAnswer")
      /\ Once(ops["in"], "createAnswer") /\ ~Has(ops["in"], "createAnswer")
         => Once(ops'["in"], "createAnswer")
  BY <1>0, <1>3, <1>4, <1>5 DEF Drops, Grows, Exchanges, Ones, Offers
<1>9. Kept(ops["in"], ops'["in"], {"createOffer", "setLocal", "setLocalAnswer"})
  <2>1. What(h).kind \notin {"createOffer", "setLocal", "setLocalAnswer"}
        /\ What(o).kind \notin {"createOffer", "setLocal", "setLocalAnswer"}
    BY <1>3, <1>4
  <2> QED BY <2>1, <1>5, Keeping
<1>10. ~Has(ops["in"], "answer") /\ ~Has(ops'["in"], "answer")
  BY <1>3, <1>4, <1>5, <1>8 DEF Drops, Grows
<1>11. /\ Caller3 /\ ~Caller1 /\ ~Caller2 /\ ~Caller4 /\ ~Caller5 /\ ~Caller6
       /\ signal["out"] = "localOffer" /\ ~Taken
  BY <1>7 DEF Exchanges, CallersExchange, AtMostOne, Caller3, Taken
<1>12. ~HasLate(box["out"])
  <2>1. box["out"] \in Seq(Messages)
    BY <1>0 DEF box, MediaTypes
  <2> QED BY <2>1, <1>11, FewOffers DEF Caller5
<1>13. ~Callee2 /\ ~Callee3 /\ ~Callee4 /\ ~Callee5 /\ ~Callee6
  BY <1>10, <1>11, <1>12 DEF Exchanges, Impolite, Crossing, Callee2, Callee4, Callee6
<1>14. /\ signal'["in"] = "remoteOffer" /\ signal'["out"] = signal["out"]
       /\ pend'["out"] = pend["out"]
       /\ sees'["in"] = pend["out"].media /\ sees'["out"] = sees["out"]
       /\ "wait" \notin todo'["in"] /\ ("wait" \in todo'["out"] <=> "wait" \in todo["out"])
       /\ void'["out"] = void["out"]
  BY <1>2, <1>8, <1>0 DEF MediaTypes, MediaTypeOK
<1>15. /\ ~Caller1' /\ ~Caller2' /\ ~Caller3' /\ Caller4' /\ ~Caller5' /\ ~Caller6' /\ ~Taken'
  BY <1>2, <1>6, <1>8, <1>11, <1>14 DEF Caller1, Caller2, Caller3, Caller4, Caller5, Caller6, Taken
<1>16. ~Callee1' /\ ~Callee2' /\ ~Callee3' /\ ~Callee4' /\ ~Callee5' /\ ~Callee6'
  BY <1>2, <1>6, <1>10, <1>12, <1>13, <1>14, <1>15
     DEF Callee1, Callee2, Callee3, Callee4, Callee5, Callee6
<1>17. CallersExchange' /\ CalleesExchange' /\ Crossing'
  BY <1>11, <1>14, <1>15, <1>16 DEF Exchanges, CallersExchange, CalleesExchange, Crossing,
     AtMostOne
<1>18. Doing("out")' /\ Doing("in")' /\ Impolite'
  <2>1. Doing("out") /\ Doing("in") /\ Impolite
    BY DEF Exchanges
  <2>2. Answering("in")' /\ ~Answering("in")
    BY <2>1, <1>8, <1>11 DEF Answering, Doing, Caller4
  <2>3. ~Has(ops["in"], "createAnswer") /\ ~Has(ops["in"], "setLocalAnswer")
    BY <2>2 DEF Answering
  <2>4. Once(ops'["in"], "createAnswer") /\ ~Has(ops'["in"], "setLocalAnswer")
    BY <2>3, <1>8, <1>9, Absent DEF Kept
  <2>5. Doing("in")'
    BY <2>1, <2>2, <2>4, <1>2, <1>9, <1>14 DEF Kept, Doing, Making
  <2>6. Doing("out")'
    BY <2>1, <1>2, <1>6, <1>14 DEF Doing, Making, Answering
  <2> QED BY <2>1, <2>5, <2>6, <1>2, <1>6, <1>14, <1>16 DEF Impolite, Making
<1>19. Ones'
  <2>1. Once(ops'["in"], "offer") /\ Once(ops'["in"], "answer")
        /\ Behind(ops'["in"], "offer", "answer")
    BY <1>8, <1>10, Absent
  <2> QED BY <2>1, <1>0, <1>2, <1>6, <1>11, <1>15, OtherSide DEF Exchanges, Ones
<1>20. Offers'
  <2>1. AllAre(ops'["in"], "offer", pend'["out"]) /\ LateAre(box["out"], pend'["in"])
        /\ AllAre(ops["out"], "offer", pend'["in"])
    BY <1>8, <1>12, <1>13, Absent DEF Callee3
  <2> QED BY <2>1, <1>2, <1>6, <1>14, <1>15 DEF Exchanges, Offers
<1>21. CalleeSees' /\ CallerSees'
  <2>1. Fits(box["in"], "reply", sees'["in"], agreed["out"])
        /\ Fits(ops'["in"], "answer", sees'["in"], agreed["out"])
    BY <1>10, <1>13, Absent DEF Callee5
  <2> QED BY <2>1, <1>2, <1>6, <1>11, <1>13, <1>14, <1>15, <1>16
             DEF Exchanges, CalleeSees, CallerSees
<1> QED BY <1>17, <1>18, <1>19, <1>20, <1>21 DEF Exchanges

\* The caller has its answer, or an answer that it does not wait for.
LEMMA CallerTakesAnswer ==
  ASSUME MediaTypes, Exchanges, setRemoteAnswer("out")
  PROVE  Exchanges'
<1> USE DEF pcVars, sentVars, otherVars
<1>0. "out" \in Sides /\ "in" \in Sides /\ Other("out") = "in" /\ Other("in") = "out"
  BY OtherSide
<1>1. PICK h : h = Head(chain["out"])
  OBVIOUS
<1>2. /\ chain["out"] # <<>> /\ h.op = "setRemote" /\ h.desc.type = "answer"
      /\ ChainDone("out") /\ box' = box /\ todo' = todo /\ void' = void
  BY <1>1 DEF setRemoteAnswer, NextOp, box
<1>3. What(h).kind = "answer" /\ What(h).desc = h.desc
  BY <1>0, <1>1, <1>2, HeadOf
<1>4. Drops(ops["out"], What(h), ops'["out"]) /\ ops'["in"] = ops["in"]
  BY <1>0, <1>1, <1>2, OpsDone
<1>5. Kept(ops["out"], ops'["out"],
           {"offer", "createOffer", "setLocal", "createAnswer", "setLocalAnswer"})
  <2>1. What(h).kind \notin {"offer", "createOffer", "setLocal", "createAnswer", "setLocalAnswer"}
    BY <1>3
  <2> QED BY <2>1, <1>4, Keeping
<1>6. /\ Has(ops["out"], "answer") /\ (Has(ops'["out"], "answer") => Has(ops["out"], "answer"))
      /\ \A w, a : Fits(ops["out"], "answer", w, a) => [w EXCEPT !.hold = h.desc.media.hold] = a
  BY <1>3, <1>4 DEF Drops
<1>7. Doing("out") /\ Doing("in") /\ Impolite
  BY DEF Exchanges
<1>8. ~Making("out") /\ ~Making("out")' /\ (Answering("out")' <=> Answering("out"))
  BY <1>5, <1>6, <1>7 DEF Kept, Impolite, Making, Answering
<1>9. ASSUME Caller1' <=> Caller1, Caller2' <=> Caller2, Caller3' <=> Caller3, Taken, Taken',
             pend'["in"] = pend["in"], signal'["in"] = signal["in"], agreed'["in"] = agreed["in"],
             asked'["in"] = asked["in"], sees'["in"] = sees["in"], Doing("out")',
             signal'["out"] = "remoteOffer" <=> signal["out"] = "remoteOffer",
             Callee3 => signal'["out"] = "stable"
      PROVE  /\ (Callee1' <=> Callee1) /\ (Callee2' <=> Callee2) /\ (Callee3' <=> Callee3)
             /\ (Callee4' <=> Callee4) /\ (Callee5' <=> Callee5) /\ (Callee6' <=> Callee6)
             /\ CalleesExchange' /\ Doing("in")' /\ Impolite' /\ Ones'
             /\ AllAre(box'["out"], "negotiate", pend'["in"])
             /\ AllAre(ops'["out"], "offer", pend'["in"])
  <2>1. /\ (Callee1' <=> Callee1) /\ (Callee2' <=> Callee2) /\ (Callee3' <=> Callee3)
        /\ (Callee4' <=> Callee4) /\ (Callee5' <=> Callee5) /\ (Callee6' <=> Callee6)
    BY <1>2, <1>4, <1>5, <1>9 DEF Kept, Callee1, Callee2, Callee3, Callee4, Callee5, Callee6
  <2>2. CalleesExchange'
    BY <2>1, <1>9 DEF Exchanges, CalleesExchange, AtMostOne
  <2>3. Doing("in")' /\ Impolite'
    BY <2>1, <1>2, <1>4, <1>7, <1>8, <1>9 DEF Doing, Making, Answering, Impolite
  <2>4. Ones'
    BY <1>0, <1>2, <1>4, <1>5, <1>9, OtherSide DEF Kept, Exchanges, Ones
  <2>5. AllAre(box'["out"], "negotiate", pend'["in"]) /\ AllAre(ops'["out"], "offer", pend'["in"])
    BY <1>2, <1>5, <1>9 DEF Kept, Exchanges, Offers
  <2> QED BY <2>1, <2>2, <2>3, <2>4, <2>5
<1>10. CASE signal["out"] # "localOffer"
  <2>1. signal' = signal /\ pend' = pend /\ agreed' = agreed /\ asked' = asked /\ sees' = sees
    BY <1>10 DEF setRemoteAnswer
  <2>2. ~Caller1 /\ ~Caller2 /\ ~Caller3 /\ ~Caller4 /\ ~Caller5 /\ ~Caller6 /\ Taken
    BY <1>10 DEF Exchanges, CallersExchange, Taken
  <2>3. ~Caller1' /\ ~Caller2' /\ ~Caller3' /\ ~Caller4' /\ ~Caller5' /\ ~Caller6' /\ Taken'
    BY <2>1, <2>2, <1>2, <1>4, <1>10
       DEF Caller1, Caller2, Caller3, Caller4, Caller5, Caller6, Taken
  <2>4. Doing("out")'
    BY <2>1, <1>2, <1>5, <1>7, <1>8 DEF Kept, Doing
  <2>5. Callee3 => signal'["out"] = "stable"
    BY <2>1, <1>7 DEF Impolite
  <2>6. /\ (Callee1' <=> Callee1) /\ (Callee2' <=> Callee2) /\ (Callee3' <=> Callee3)
        /\ (Callee4' <=> Callee4) /\ (Callee5' <=> Callee5) /\ (Callee6' <=> Callee6)
        /\ CalleesExchange' /\ Doing("in")' /\ Impolite' /\ Ones'
        /\ AllAre(box'["out"], "negotiate", pend'["in"])
        /\ AllAre(ops'["out"], "offer", pend'["in"])
    BY <2>1, <2>2, <2>3, <2>4, <2>5, <1>9
  <2>7. CallersExchange' /\ Crossing'
    BY <2>1, <2>3, <1>10 DEF CallersExchange, Crossing, AtMostOne
  <2>8. Offers'
    BY <2>1, <2>3, <2>6, <1>2, <1>4 DEF Exchanges, Offers
  <2>9. CalleeSees' /\ CallerSees'
    BY <2>1, <2>2, <2>3, <2>6, <1>2, <1>4 DEF Exchanges, CalleeSees, CallerSees
  <2> QED BY <2>4, <2>6, <2>7, <2>8, <2>9 DEF Exchanges
<1>11. CASE signal["out"] = "localOffer"
  <2>1. /\ signal' = [signal EXCEPT !["out"] = "stable"]
        /\ pend' = [pend EXCEPT !["out"] = NoOffer]
        /\ agreed' = [agreed EXCEPT !["out"] = pend["out"].media]
        /\ asked' = [asked EXCEPT !["out"] = FALSE]
        /\ sees' = [sees EXCEPT !["out"] = [sees["out"] EXCEPT !.hold = h.desc.media.hold]]
    BY <1>1, <1>11 DEF setRemoteAnswer
  <2>2. /\ signal'["out"] = "stable" /\ signal'["in"] = signal["in"] /\ pend'["in"] = pend["in"]
        /\ agreed'["out"] = pend["out"].media /\ agreed'["in"] = agreed["in"]
        /\ ~asked'["out"] /\ asked'["in"] = asked["in"] /\ sees'["in"] = sees["in"]
        /\ sees'["out"] = [sees["out"] EXCEPT !.hold = h.desc.media.hold]
    BY <2>1, <1>0 DEF MediaTypes, MediaTypeOK
  <2>3. Caller6 /\ ~Caller1 /\ ~Caller2 /\ ~Caller3 /\ ~Caller4 /\ ~Caller5 /\ Taken
    BY <1>6, <1>11 DEF Exchanges, CallersExchange, AtMostOne, Caller6, Taken
  <2>4. ~Callee3 /\ ~Callee4 /\ ~Callee5 /\ ~Callee6
    BY <2>3, <1>7, <1>11 DEF Exchanges, Crossing, Impolite, Callee4
  <2>5. ~Caller1' /\ ~Caller2' /\ ~Caller3' /\ ~Caller4' /\ ~Caller5' /\ ~Caller6' /\ Taken'
    BY <2>2, <2>3, <1>2, <1>4
       DEF Caller1, Caller2, Caller3, Caller4, Caller5, Caller6, Taken
  <2>6. Doing("out")'
    BY <2>2, <1>2, <1>5, <1>7, <1>8, <1>11 DEF Kept, Doing
  <2>7. /\ (Callee1' <=> Callee1) /\ (Callee2' <=> Callee2) /\ (Callee3' <=> Callee3)
        /\ (Callee4' <=> Callee4) /\ (Callee5' <=> Callee5) /\ (Callee6' <=> Callee6)
        /\ CalleesExchange' /\ Doing("in")' /\ Impolite' /\ Ones'
        /\ AllAre(box'["out"], "negotiate", pend'["in"])
        /\ AllAre(ops'["out"], "offer", pend'["in"])
    BY <2>2, <2>3, <2>5, <2>6, <1>9, <1>11
  <2>8. CallersExchange' /\ Crossing'
    BY <2>2, <2>5 DEF CallersExchange, Crossing, AtMostOne
  <2>9. Offers'
    <3>1. AllAre(box["in"], "negotiate", pend'["out"]) /\ AllAre(ops["in"], "offer", pend'["out"])
      BY <2>3, Absent DEF Caller2, Caller3
    <3> QED BY <3>1, <2>5, <2>7, <1>2, <1>4 DEF Offers
  <2>10. CalleeSees'
    <3>1. Fits(box["in"], "reply", sees["in"], agreed'["out"])
          /\ Fits(ops["in"], "answer", sees["in"], agreed'["out"])
      BY <2>4, Absent DEF Callee5, Callee6
    <3> QED BY <3>1, <2>2, <2>3, <2>5, <1>2, <1>4 DEF Exchanges, CalleeSees
  <2>11. CallerSees'
    <3>1. sees'["out"] = agreed["in"]
      BY <2>2, <2>3, <1>6 DEF Exchanges, CallerSees
    <3>2. Fits(box["out"], "reply", sees'["out"], agreed["in"])
      BY <2>3, Absent DEF Caller5
    <3> QED BY <3>1, <3>2, <2>2, <2>4, <2>5, <2>7, <1>2 DEF CallerSees
  <2> QED BY <2>6, <2>7, <2>8, <2>9, <2>10, <2>11 DEF Exchanges
<1> QED BY <1>10, <1>11

\* The callee has its answer.
LEMMA CalleeTakesAnswer ==
  ASSUME MediaTypes, Exchanges, setRemoteAnswer("in")
  PROVE  Exchanges'
<1> USE DEF pcVars, sentVars, otherVars
<1>0. "out" \in Sides /\ "in" \in Sides /\ Other("out") = "in" /\ Other("in") = "out"
  BY OtherSide
<1>1. PICK h : h = Head(chain["in"])
  OBVIOUS
<1>2. /\ chain["in"] # <<>> /\ h.op = "setRemote" /\ h.desc.type = "answer"
      /\ ChainDone("in") /\ box' = box /\ todo' = todo /\ void' = void
  BY <1>1 DEF setRemoteAnswer, NextOp, box
<1>3. What(h).kind = "answer" /\ What(h).desc = h.desc
  BY <1>0, <1>1, <1>2, HeadOf
<1>4. Drops(ops["in"], What(h), ops'["in"]) /\ ops'["out"] = ops["out"]
  BY <1>0, <1>1, <1>2, OpsDone
<1>5. Kept(ops["in"], ops'["in"],
           {"offer", "createOffer", "setLocal", "createAnswer", "setLocalAnswer"})
  <2>1. What(h).kind \notin {"offer", "createOffer", "setLocal", "createAnswer", "setLocalAnswer"}
    BY <1>3
  <2> QED BY <2>1, <1>4, Keeping
<1>6. /\ Has(ops["in"], "answer") /\ ~Has(ops'["in"], "answer")
      /\ [sees["in"] EXCEPT !.hold = h.desc.media.hold] = agreed["out"]
  BY <1>3, <1>4 DEF Drops, Exchanges, Ones, CalleeSees
<1>7. Doing("out") /\ Doing("in") /\ Impolite
  BY DEF Exchanges
<1>8. Callee6 /\ ~Callee1 /\ ~Callee2 /\ ~Callee3 /\ ~Callee4 /\ ~Callee5
      /\ signal["in"] = "localOffer"
      /\ ~Caller4 /\ ~Caller5 /\ ~Caller6
  BY <1>6 DEF Exchanges, CalleesExchange, AtMostOne, Crossing, Callee6
<1>9. /\ signal' = [signal EXCEPT !["in"] = "stable"]
      /\ pend' = [pend EXCEPT !["in"] = NoOffer]
      /\ agreed' = [agreed EXCEPT !["in"] = pend["in"].media]
      /\ asked' = [asked EXCEPT !["in"] = FALSE]
      /\ sees' = [sees EXCEPT !["in"] = [sees["in"] EXCEPT !.hold = h.desc.media.hold]]
  BY <1>1, <1>8 DEF setRemoteAnswer
<1>10. /\ signal'["in"] = "stable" /\ signal'["out"] = signal["out"] /\ pend'["out"] = pend["out"]
       /\ agreed'["in"] = pend["in"].media /\ agreed'["out"] = agreed["out"]
       /\ ~asked'["in"] /\ asked'["out"] = asked["out"] /\ sees'["out"] = sees["out"]
       /\ sees'["in"] = agreed["out"]
  BY <1>6, <1>9, <1>0 DEF MediaTypes, MediaTypeOK
<1>11. /\ (Caller1' <=> Caller1) /\ (Caller2' <=> Caller2) /\ (Caller3' <=> Caller3)
       /\ ~Caller4' /\ ~Caller5' /\ ~Caller6' /\ (Taken' <=> Taken)
  BY <1>2, <1>4, <1>5, <1>8, <1>10
     DEF Kept, Caller1, Caller2, Caller3, Caller4, Caller5, Caller6, Taken
<1>12. ~Callee1' /\ ~Callee2' /\ ~Callee3' /\ ~Callee4' /\ ~Callee5' /\ ~Callee6'
  BY <1>2, <1>4, <1>6, <1>8, <1>10, <1>11
     DEF Callee1, Callee2, Callee3, Callee4, Callee5, Callee6
<1>13. CallersExchange' /\ CalleesExchange' /\ Crossing'
  BY <1>8, <1>10, <1>11, <1>12 DEF Exchanges, CallersExchange, CalleesExchange, Crossing, AtMostOne
<1>14. Doing("out")' /\ Doing("in")' /\ Impolite'
  <2>1. Doing("in")'
    BY <1>2, <1>5, <1>7, <1>8, <1>10 DEF Kept, Doing, Making, Answering
  <2> QED BY <2>1, <1>2, <1>4, <1>7, <1>10, <1>12 DEF Doing, Making, Answering, Impolite
<1>15. Ones'
  <2>1. Once(ops'["in"], "answer") /\ Behind(ops'["in"], "offer", "answer")
    BY <1>6, Absent
  <2> QED BY <2>1, <1>0, <1>2, <1>4, <1>5, <1>11, OtherSide DEF Kept, Exchanges, Ones
<1>16. Offers'
  <2>1. AllAre(ops["out"], "offer", pend'["in"])
    BY <1>8, Absent DEF Callee3
  <2>2. IF Taken THEN AllAre(box["out"], "negotiate", pend'["in"])
        ELSE LateAre(box["out"], pend'["in"])
    BY <1>8, Absent DEF Callee2
  <2> QED BY <2>1, <2>2, <1>2, <1>4, <1>5, <1>10, <1>11 DEF Kept, Exchanges, Offers
<1>17. CalleeSees'
  <2>1. Fits(box["in"], "reply", sees'["in"], agreed["out"])
        /\ Fits(ops'["in"], "answer", sees'["in"], agreed["out"])
    BY <1>6, <1>8, Absent DEF Callee5
  <2> QED BY <2>1, <1>2, <1>10, <1>11 DEF CalleeSees
<1>18. CallerSees'
  <2>1. Fits(box["out"], "reply", sees["out"], agreed'["in"])
    BY <1>8, Absent DEF Caller5
  <2> QED BY <2>1, <1>2, <1>8, <1>10, <1>11, <1>12 DEF Exchanges, CallerSees
<1> QED BY <1>13, <1>14, <1>15, <1>16, <1>17, <1>18 DEF Exchanges

\* The caller answers.
LEMMA CallerAnswers ==
  ASSUME MediaTypes, Exchanges, setLocalAnswer("out")
  PROVE  Exchanges'
<1> USE DEF pcVars, sentVars, otherVars
<1>0. "out" \in Sides /\ "in" \in Sides /\ Other("out") = "in" /\ Other("in") = "out"
  BY OtherSide
<1>1. PICK h : h = Head(chain["out"])
  OBVIOUS
<1>2. /\ chain["out"] # <<>> /\ h.op = "setLocalAnswer"
      /\ ChainDone("out") /\ post' = post /\ todo' = todo /\ void' = void
      /\ pend' = pend /\ sees' = sees /\ mic' = mic
  BY <1>1 DEF setLocalAnswer, NextOp
<1>3. What(h).kind = "setLocalAnswer" /\ What(h).desc = h.desc /\ h.desc \in Descriptions
  BY <1>0, <1>1, <1>2, HeadOf
<1>4. Drops(ops["out"], What(h), ops'["out"]) /\ ops'["in"] = ops["in"]
  BY <1>0, <1>1, <1>2, OpsDone
<1>5. Kept(ops["out"], ops'["out"], {"offer", "answer", "createOffer", "setLocal", "createAnswer"})
  <2>1. What(h).kind \notin {"offer", "answer", "createOffer", "setLocal", "createAnswer"}
    BY <1>3
  <2> QED BY <2>1, <1>4, Keeping
<1>6. Doing("out") /\ Doing("in") /\ Impolite
  BY DEF Exchanges
<1>7. /\ Has(ops["out"], "setLocalAnswer") /\ ~Has(ops'["out"], "setLocalAnswer")
      /\ h.desc.type = "answer"
  BY <1>3, <1>4, <1>6 DEF Drops, Doing
<1>8. signal["out"] = "remoteOffer" /\ ~Answering("out")' /\ (Making("out")' <=> Making("out"))
  BY <1>5, <1>6, <1>7 DEF Kept, Doing, Answering, Making
<1>9. /\ signal' = [signal EXCEPT !["out"] = "stable"]
      /\ agreed' = [agreed EXCEPT !["out"] = [agreed["out"] EXCEPT !.hold = h.desc.media.hold]]
      /\ asked' = [asked EXCEPT !["out"] = FALSE]
      /\ Send("out", "reply", h.desc)
  BY <1>1, <1>8 DEF setLocalAnswer
<1>10. PICK m \in Messages :
         /\ m.kind = "reply" /\ m.desc = h.desc /\ wire' = [wire EXCEPT !["out"] = Append(@, m)]
  <2>1. [kind |-> "reply", desc |-> h.desc, muted |-> mic["out"]] \in Messages
    BY <1>0, <1>3 DEF Messages, AnyMessage, MediaTypes, MediaTypeOK
  <2> QED BY <2>1, <1>2, <1>9 DEF Send
<1>11. Grows(box["in"], m, box'["in"]) /\ box'["out"] = box["out"]
  BY <1>0, <1>2, <1>10, BoxMore
<1>12. /\ signal'["out"] = "stable" /\ signal'["in"] = signal["in"]
       /\ agreed'["out"] = [agreed["out"] EXCEPT !.hold = m.desc.media.hold]
       /\ agreed'["in"] = agreed["in"] /\ ~asked'["out"] /\ asked'["in"] = asked["in"]
  BY <1>9, <1>10, <1>0 DEF MediaTypes, MediaTypeOK
<1>13. Callee4 /\ ~Callee1 /\ ~Callee2 /\ ~Callee3 /\ ~Callee5 /\ ~Callee6
       /\ signal["in"] = "localOffer"
  BY <1>8 DEF Exchanges, CalleesExchange, AtMostOne, Callee4
<1>14. ~Caller1 /\ ~Caller2 /\ ~Caller3 /\ ~Caller4 /\ ~Caller5 /\ ~Caller6 /\ Taken
  BY <1>8 DEF Exchanges, CallersExchange, Taken
<1>15. /\ ~Has(box["in"], "negotiate") /\ ~Has(box'["in"], "negotiate") /\ Has(box'["in"], "reply")
       /\ ~Has(box'["in"], "again") /\ Once(box'["in"], "reply")
       /\ Types(box'["in"], "reply", "answer") /\ Types(box'["in"], "negotiate", "offer")
  <2>1. ~Has(box["in"], "negotiate") /\ ~Has(box["in"], "reply") /\ Once(box["in"], "reply")
    BY <1>13, <1>14, Absent DEF Caller2, Callee5
  <2> QED BY <2>1, <1>6, <1>7, <1>10, <1>11 DEF Grows, Doing, Impolite
<1>16. ~Caller1' /\ ~Caller2' /\ ~Caller3' /\ ~Caller4' /\ ~Caller5' /\ ~Caller6' /\ Taken'
  BY <1>2, <1>4, <1>11, <1>12, <1>14, <1>15
     DEF Caller1, Caller2, Caller3, Caller4, Caller5, Caller6, Taken
<1>17. ~Callee1' /\ ~Callee2' /\ ~Callee3' /\ ~Callee4' /\ Callee5' /\ ~Callee6'
  BY <1>2, <1>4, <1>5, <1>11, <1>12, <1>13, <1>14, <1>15, <1>16
     DEF Kept, Callee1, Callee2, Callee3, Callee4, Callee5, Callee6
<1>18. CallersExchange' /\ CalleesExchange' /\ Crossing'
  BY <1>12, <1>13, <1>16, <1>17 DEF CallersExchange, CalleesExchange, Crossing, AtMostOne
<1>19. Doing("out")' /\ Doing("in")' /\ Impolite'
  <2>1. Doing("out")'
    <3>1. Once(ops'["out"], "setLocalAnswer") /\ Types(ops'["out"], "setLocalAnswer", "answer")
      BY <1>7, Absent
    <3> QED BY <3>1, <1>5, <1>6, <1>7, <1>8, <1>11, <1>12 DEF Kept, Doing, Making
  <2>2. Doing("in")'
    BY <1>2, <1>4, <1>6, <1>12, <1>15 DEF Doing, Making, Answering
  <2> QED BY <2>1, <2>2, <1>2, <1>5, <1>6, <1>8, <1>15, <1>17 DEF Kept, Impolite
<1>20. Ones'
  <2>1. Once(box'["in"], "negotiate") /\ Behind(box'["in"], "negotiate", "reply")
    BY <1>15, Absent
  <2> QED BY <2>1, <1>0, <1>4, <1>5, <1>11, <1>14, <1>15, <1>16, OtherSide
          DEF Kept, Exchanges, Ones
<1>21. Offers'
  <2>1. AllAre(box'["in"], "negotiate", pend["out"])
    BY <1>15, Absent
  <2> QED BY <2>1, <1>2, <1>4, <1>5, <1>11, <1>14, <1>16 DEF Kept, Exchanges, Offers
<1>22. CalleeSees'
  <2>1. sees["in"] = agreed["out"]
    BY <1>13, <1>14 DEF Exchanges, CalleeSees
  <2>2. Fits(box'["in"], "reply", sees["in"], agreed'["out"])
    <3>1. Fits(box["in"], "reply", sees["in"], agreed'["out"])
      BY <1>13, Absent DEF Callee5
    <3>2. [sees["in"] EXCEPT !.hold = m.desc.media.hold] = agreed'["out"]
      BY <2>1, <1>12
    <3> QED BY <3>1, <3>2, <1>11 DEF Grows
  <2>3. Fits(ops["in"], "answer", sees["in"], agreed'["out"])
    BY <1>13, Absent DEF Callee6
  <2> QED BY <2>2, <2>3, <1>2, <1>4, <1>16, <1>17 DEF CalleeSees
<1>23. CallerSees'
  BY <1>2, <1>11, <1>12, <1>13, <1>16, <1>17 DEF Exchanges, CallerSees
<1> QED BY <1>18, <1>19, <1>20, <1>21, <1>22, <1>23 DEF Exchanges

\* The callee answers.
LEMMA CalleeAnswers ==
  ASSUME MediaTypes, Exchanges, setLocalAnswer("in")
  PROVE  Exchanges'
<1> USE DEF pcVars, sentVars, otherVars
<1>0. "out" \in Sides /\ "in" \in Sides /\ Other("out") = "in" /\ Other("in") = "out"
  BY OtherSide
<1>1. PICK h : h = Head(chain["in"])
  OBVIOUS
<1>2. /\ chain["in"] # <<>> /\ h.op = "setLocalAnswer"
      /\ ChainDone("in") /\ post' = post /\ todo' = todo /\ void' = void
      /\ pend' = pend /\ sees' = sees /\ mic' = mic
  BY <1>1 DEF setLocalAnswer, NextOp
<1>3. What(h).kind = "setLocalAnswer" /\ What(h).desc = h.desc /\ h.desc \in Descriptions
  BY <1>0, <1>1, <1>2, HeadOf
<1>4. Drops(ops["in"], What(h), ops'["in"]) /\ ops'["out"] = ops["out"]
  BY <1>0, <1>1, <1>2, OpsDone
<1>5. Kept(ops["in"], ops'["in"], {"offer", "answer", "createOffer", "setLocal", "createAnswer"})
  <2>1. What(h).kind \notin {"offer", "answer", "createOffer", "setLocal", "createAnswer"}
    BY <1>3
  <2> QED BY <2>1, <1>4, Keeping
<1>6. Doing("out") /\ Doing("in") /\ Impolite
  BY DEF Exchanges
<1>7. /\ Has(ops["in"], "setLocalAnswer") /\ ~Has(ops'["in"], "setLocalAnswer")
      /\ h.desc.type = "answer"
  BY <1>3, <1>4, <1>6 DEF Drops, Doing
<1>8. signal["in"] = "remoteOffer" /\ ~Answering("in")'
  BY <1>5, <1>6, <1>7 DEF Kept, Doing, Answering
<1>9. /\ signal' = [signal EXCEPT !["in"] = "stable"]
      /\ agreed' = [agreed EXCEPT !["in"] = [agreed["in"] EXCEPT !.hold = h.desc.media.hold]]
      /\ asked' = [asked EXCEPT !["in"] = FALSE]
      /\ Send("in", "reply", h.desc)
  BY <1>1, <1>8 DEF setLocalAnswer
<1>10. PICK m \in Messages :
         /\ m.kind = "reply" /\ m.desc = h.desc /\ wire' = [wire EXCEPT !["in"] = Append(@, m)]
  <2>1. [kind |-> "reply", desc |-> h.desc, muted |-> mic["in"]] \in Messages
    BY <1>0, <1>3 DEF Messages, AnyMessage, MediaTypes, MediaTypeOK
  <2> QED BY <2>1, <1>2, <1>9 DEF Send
<1>11. Grows(box["out"], m, box'["out"]) /\ GrowsLate(box["out"], m, box'["out"])
       /\ box'["in"] = box["in"]
  BY <1>0, <1>2, <1>10, BoxMore
<1>12. /\ signal'["in"] = "stable" /\ signal'["out"] = signal["out"]
       /\ agreed'["in"] = [agreed["in"] EXCEPT !.hold = m.desc.media.hold]
       /\ agreed'["out"] = agreed["out"] /\ ~asked'["in"] /\ asked'["out"] = asked["out"]
  BY <1>9, <1>10, <1>0 DEF MediaTypes, MediaTypeOK
<1>13. ~Callee1 /\ ~Callee2 /\ ~Callee3 /\ ~Callee4 /\ ~Callee5 /\ ~Callee6
  BY <1>8 DEF Exchanges, CalleesExchange
<1>14. Caller4 /\ ~Caller1 /\ ~Caller2 /\ ~Caller3 /\ ~Caller5 /\ ~Caller6 /\ ~Taken
       /\ signal["out"] = "localOffer"
  BY <1>8 DEF Exchanges, CallersExchange, AtMostOne, Caller4, Taken
<1>15. /\ Has(box'["out"], "reply") /\ Once(box'["out"], "reply")
       /\ Types(box'["out"], "reply", "answer") /\ Types(box'["out"], "negotiate", "offer")
  <2>1. ~Has(box["out"], "reply") /\ Once(box["out"], "reply")
    BY <1>14, Absent DEF Caller5
  <2> QED BY <2>1, <1>6, <1>7, <1>10, <1>11 DEF Grows, Doing
<1>16. ~HasLate(box["out"]) /\ ~HasLate(box'["out"])
  BY <1>10, <1>11, <1>13, <1>14 DEF GrowsLate, Callee2
<1>17. ~Caller1' /\ ~Caller2' /\ ~Caller3' /\ ~Caller4' /\ Caller5' /\ ~Caller6' /\ ~Taken'
  BY <1>2, <1>4, <1>5, <1>11, <1>12, <1>14, <1>15
     DEF Kept, Caller1, Caller2, Caller3, Caller4, Caller5, Caller6, Taken
<1>18. ~Callee1' /\ ~Callee2' /\ ~Callee3' /\ ~Callee4' /\ ~Callee5' /\ ~Callee6'
  BY <1>2, <1>4, <1>5, <1>11, <1>12, <1>13, <1>16, <1>17
     DEF Kept, Callee1, Callee2, Callee3, Callee4, Callee5, Callee6
<1>19. CallersExchange' /\ CalleesExchange' /\ Crossing'
  BY <1>12, <1>14, <1>17, <1>18 DEF CallersExchange, CalleesExchange, Crossing, AtMostOne
<1>20. Doing("out")' /\ Doing("in")' /\ Impolite'
  <2>1. Doing("in")'
    <3>1. Once(ops'["in"], "setLocalAnswer") /\ Types(ops'["in"], "setLocalAnswer", "answer")
      BY <1>7, Absent
    <3> QED BY <3>1, <1>5, <1>6, <1>7, <1>8, <1>11, <1>12 DEF Kept, Doing, Making
  <2>2. Doing("out")'
    BY <1>2, <1>4, <1>6, <1>12, <1>15 DEF Doing, Making, Answering
  <2> QED BY <2>1, <2>2, <1>2, <1>4, <1>6, <1>11, <1>18 DEF Impolite, Making
<1>21. Ones'
  BY <1>0, <1>4, <1>5, <1>11, <1>15, <1>16, <1>17, Absent, OtherSide DEF Kept, Exchanges, Ones
<1>22. Offers'
  <2>1. LateAre(box'["out"], pend["in"])
    BY <1>16, Absent
  <2> QED BY <2>1, <1>2, <1>4, <1>5, <1>11, <1>17 DEF Kept, Exchanges, Offers
<1>23. CalleeSees'
  <2>1. Fits(ops["in"], "answer", sees["in"], agreed["out"])
        => Fits(ops'["in"], "answer", sees["in"], agreed["out"])
    BY <1>5 DEF Kept
  <2> QED BY <2>1, <1>2, <1>11, <1>12, <1>14, <1>17, <1>18 DEF Exchanges, CalleeSees
<1>24. CallerSees'
  <2>1. sees["out"] = agreed["in"]
    BY <1>13, <1>14 DEF Exchanges, CallerSees
  <2>2. Fits(box'["out"], "reply", sees["out"], agreed'["in"])
    <3>1. Fits(box["out"], "reply", sees["out"], agreed'["in"])
      BY <1>14, Absent DEF Caller5
    <3>2. [sees["out"] EXCEPT !.hold = m.desc.media.hold] = agreed'["in"]
      BY <2>1, <1>12
    <3> QED BY <3>1, <3>2, <1>11 DEF Grows
  <2> QED BY <2>2, <1>2, <1>17, <1>18 DEF CallerSees
<1> QED BY <1>19, <1>20, <1>21, <1>22, <1>23, <1>24 DEF Exchanges

\* As long as all goes well, every step keeps the exchanges.
LEMMA ExchangesKept ==
  ASSUME MediaTypes, Exchanges, Undisturbed, Undisturbed', MediaNext
  PROVE  Exchanges'
<1> USE DEF pcVars, sentVars, otherVars
<1>0. \A t \in Sides : ~over[t] /\ ~over'[t] /\ ~overtaken'[t] /\ ~mistaken'[t]
  BY DEF Undisturbed, Orderly
<1>1. ASSUME NEW s \in Sides, NEW what \in {"screen", "video"},
             openMedia(s, what) \/ mediaOpened(s, what) \/ mediaRefused(s, what)
      PROVE  Exchanges'
  <2>1. box' = box /\ ops' = ops /\ signal' = signal /\ pend' = pend /\ asked' = asked
        /\ agreed' = agreed /\ sees' = sees /\ void' = void
    BY <1>1 DEF openMedia, mediaOpened, mediaRefused, box, ops
  <2>2. \A t \in Sides : ("wait" \in todo'[t]) <=> ("wait" \in todo[t])
    <3>1. todo' = [todo EXCEPT ![s] = @ \cup {what}] \/ todo' = [todo EXCEPT ![s] = @ \ {what}]
      BY <1>1 DEF openMedia, mediaOpened, mediaRefused
    <3>2. what # "wait"
      BY <1>1
    <3> SUFFICES ASSUME NEW t \in Sides PROVE ("wait" \in todo'[t]) <=> ("wait" \in todo[t])
      OBVIOUS
    <3>3. DOMAIN todo = Sides
      BY DEF MediaTypes, MediaTypeOK
    <3>4. todo'[t] \in {todo[t], todo[t] \cup {what}, todo[t] \ {what}}
      BY <3>1, <3>3
    <3> QED BY <3>2, <3>4
  <2> QED BY <2>1, <2>2, NothingChanges
<1>2. ASSUME NEW s \in Sides, stopScreensharing(s) \/ offerSent(s) PROVE Exchanges'
  <2>1. box' = box /\ ops' = ops /\ signal' = signal /\ pend' = pend /\ asked' = asked
        /\ agreed' = agreed /\ sees' = sees /\ void' = void /\ todo' = todo
    BY <1>2 DEF stopScreensharing, offerSent, box, ops
  <2> QED BY <2>1, NothingChanges
<1>3. ASSUME NEW s \in Sides, setRemoteOnHold(s) \/ setMicrophoneMuted(s) PROVE Exchanges'
  <2>1. PICK m \in Messages : m.kind = "metadata" /\ wire' = [wire EXCEPT ![s] = Append(@, m)]
    <3>1. mic' \in [Sides -> BOOLEAN]
      BY <1>3 DEF setRemoteOnHold, setMicrophoneMuted, MediaTypes, MediaTypeOK
    <3>2. NoOffer \in Descriptions /\ NoOffer.type = "none"
      BY PartTypes DEF NoOffer
    <3>3. [kind |-> "metadata", desc |-> NoOffer, muted |-> mic'[s]] \in Messages
      BY <3>1, <3>2 DEF Messages, AnyMessage
    <3> QED BY <3>3, <1>3 DEF setRemoteOnHold, setMicrophoneMuted, Send
  <2>2. post' = post /\ chain' = chain /\ signal' = signal /\ pend' = pend /\ asked' = asked
        /\ agreed' = agreed /\ sees' = sees /\ void' = void /\ todo' = todo
    BY <1>3 DEF setRemoteOnHold, setMicrophoneMuted
  <2> QED BY <2>1, <2>2, OtherMessages
<1>4. ASSUME NEW s \in Sides, NEW i \in DOMAIN wire[s], mediaArrive(s, i) PROVE Exchanges'
  <2>1. i = 1 /\ wire[s] # <<>>
    <3>1. overtaken'[s] <=> (overtaken[s] \/ i > 1)
      BY <1>4 DEF mediaArrive, MediaTypes
    <3>2. ~(i > 1)
      BY <3>1, <1>0
    <3>3. wire[s] \in Seq(Messages)
      BY DEF MediaTypes
    <3> QED BY <3>2, <3>3, <1>4
  <2>2. box' = box
    BY <2>1, <1>4, BoxSame DEF mediaArrive
  <2>3. ops' = ops /\ signal' = signal /\ pend' = pend /\ asked' = asked
        /\ agreed' = agreed /\ sees' = sees /\ void' = void /\ todo' = todo
    BY <1>4 DEF mediaArrive, ops
  <2> QED BY <2>2, <2>3, NothingChanges
<1>5. ASSUME NEW s \in Sides, offerLost(s) PROVE FALSE
  BY <1>0, <1>5 DEF offerLost, mediaTerminate, MediaTypes
<1>6. ASSUME NEW s \in Sides, receive(s) PROVE Exchanges'
  BY <1>0, <1>6, OtherSide, CallerReceives, CalleeReceives
<1>7. ASSUME NEW s \in Sides, setRemoteOffer(s) PROVE Exchanges'
  BY <1>7, OtherSide, CallerTakesOffer, CalleeTakesOffer
<1>8. ASSUME NEW s \in Sides, setRemoteAnswer(s) PROVE Exchanges'
  BY <1>8, OtherSide, CallerTakesAnswer, CalleeTakesAnswer
<1>9. ASSUME NEW s \in Sides, setLocalAnswer(s) PROVE Exchanges'
  BY <1>9, OtherSide, CallerAnswers, CalleeAnswers
<1>10. ASSUME NEW s \in Sides,
              \/ onNegotiationNeeded(s) \/ createOffer(s) \/ createAnswer(s) \/ setLocalOffer(s)
              \/ sendOffer(s) \/ sendAgain(s)
       PROVE  Exchanges'
  BY <1>0, <1>10, NeedsNegotiation, Creates, SetsOffer, SendsOffer, SendsAgain
<1> QED
  BY <1>1, <1>2, <1>3, <1>4, <1>5, <1>6, <1>7, <1>8, <1>9, <1>10 DEF MediaNext

\* A step that leaves alone what the mute state of a side is told with.
LEMMA MutingSame ==
  ASSUME MediaTypes, NEW s \in Sides, Muting(s), box'[Other(s)] = box[Other(s)],
         shows'[Other(s)] = shows[Other(s)], mic'[s] = mic[s]
  PROVE  Muting(s)'
BY DEF Muting

\* A message of the side itself, of which those that change the mute state are told.
LEMMA MutingSent ==
  ASSUME MediaTypes, NEW s \in Sides, Muting(s), NEW r \in Sides, NEW m \in Messages,
         m.muted = mic'[r], m.kind # "metadata" => mic' = mic, r # s => mic'[s] = mic[s],
         wire' = [wire EXCEPT ![r] = Append(@, m)], post' = post, shows' = shows
  PROVE  Muting(s)'
<1>1. CASE r = s
  <2>1. box[Other(s)] \in Seq(Messages) /\ box'[Other(s)] = Append(box[Other(s)], m)
    BY <1>1, BoxMore
  <2>2. m.kind # "metadata" => m.muted = mic[s]
    BY <1>1
  <2>3. Steady(Append(box[Other(s)], m), shows[Other(s)], m.muted)
    BY <2>1, <2>2, SteadyAppend DEF Muting
  <2> QED BY <2>1, <2>3, <1>1 DEF Muting
<1>2. CASE r # s
  <2>1. r = Other(s)
    BY <1>2, OtherSide
  <2>2. box'[Other(s)] = box[Other(s)]
    BY <2>1, BoxMore
  <2> QED BY <2>2, <1>2, MutingSame
<1> QED BY <1>1, <1>2

\* The mute state, as long as the events of the side are not reordered.
LEMMA MutingKept ==
  ASSUME MediaTypes, NEW s \in Sides, Muting(s), ~overtaken'[s],
         \A t \in Sides : ~over[t] /\ ~over'[t], MediaNext
  PROVE  Muting(s)'
<1> USE DEF pcVars, sentVars, otherVars
<1>0. /\ Other(s) \in Sides /\ Other(s) # s /\ Other(Other(s)) = s
      /\ \A t \in Sides : t = s \/ t = Other(s)
  BY OtherSide
<1>1. ASSUME NEW r \in Sides, NEW what \in {"screen", "video"},
             openMedia(r, what) \/ mediaOpened(r, what) \/ mediaRefused(r, what)
      PROVE  Muting(s)'
  <2>1. box' = box /\ shows' = shows /\ mic' = mic
    BY <1>1 DEF openMedia, mediaOpened, mediaRefused, box
  <2> QED BY <2>1, MutingSame
<1>2. ASSUME NEW r \in Sides,
             \/ stopScreensharing(r) \/ offerSent(r) \/ onNegotiationNeeded(r) \/ createOffer(r)
             \/ setLocalOffer(r) \/ setRemoteOffer(r) \/ setRemoteAnswer(r) \/ createAnswer(r)
      PROVE  Muting(s)'
  <2>1. post' = post /\ wire' = wire /\ shows' = shows /\ mic' = mic
    BY <1>2 DEF stopScreensharing, offerSent, onNegotiationNeeded, createOffer, setLocalOffer,
                setRemoteOffer, setRemoteAnswer, createAnswer
  <2>2. box' = box
    BY <2>1 DEF box
  <2> QED BY <2>1, <2>2, MutingSame
<1>3. ASSUME NEW r \in Sides, setRemoteOnHold(r) \/ setMicrophoneMuted(r) PROVE Muting(s)'
  <2>1. mic' \in [Sides -> BOOLEAN] /\ (r # s => mic'[s] = mic[s])
    BY <1>3 DEF setRemoteOnHold, setMicrophoneMuted, MediaTypes, MediaTypeOK
  <2>2. PICK m \in Messages :
          m.kind = "metadata" /\ m.muted = mic'[r] /\ wire' = [wire EXCEPT ![r] = Append(@, m)]
    <3>1. NoOffer \in Descriptions /\ NoOffer.type = "none"
      BY PartTypes DEF NoOffer
    <3>2. [kind |-> "metadata", desc |-> NoOffer, muted |-> mic'[r]] \in Messages
      BY <2>1, <3>1 DEF Messages, AnyMessage
    <3> QED BY <3>2, <1>3 DEF setRemoteOnHold, setMicrophoneMuted, Send
  <2>3. post' = post /\ shows' = shows
    BY <1>3 DEF setRemoteOnHold, setMicrophoneMuted
  <2> QED BY <2>1, <2>2, <2>3, MutingSent
<1>4. ASSUME NEW r \in Sides, sendOffer(r) \/ sendAgain(r) \/ setLocalAnswer(r) PROVE Muting(s)'
  <2>1. post' = post /\ shows' = shows /\ mic' = mic
    BY <1>4 DEF sendOffer, sendAgain, setLocalAnswer
  <2>2. CASE wire' = wire
    <3>1. box' = box
      BY <2>1, <2>2 DEF box
    <3> QED BY <2>1, <3>1, MutingSame
  <2>3. CASE wire' # wire
    <3>1. PICK kind \in {"negotiate", "again", "reply"}, desc \in Descriptions :
               Send(r, kind, desc)
      <4>1. localDescription(r) \in Descriptions
        BY DEF localDescription, MediaTypes
      <4>2. CASE sendOffer(r) \/ sendAgain(r)
        BY <4>1, <4>2, <2>3 DEF sendOffer, sendAgain
      <4>3. CASE setLocalAnswer(r)
        <5>1. Head(chain[r]).desc \in Descriptions
          BY <4>3, HeadOf DEF setLocalAnswer, NextOp
        <5> QED BY <5>1, <4>3, <2>3 DEF setLocalAnswer
      <4> QED BY <4>2, <4>3, <1>4
    <3>2. [kind |-> kind, desc |-> desc, muted |-> mic[r]] \in Messages
      BY DEF Messages, AnyMessage, MediaTypes, MediaTypeOK
    <3>3. PICK m \in Messages : m.muted = mic'[r] /\ wire' = [wire EXCEPT ![r] = Append(@, m)]
      BY <2>1, <3>1, <3>2 DEF Send
    <3> QED BY <2>1, <3>3, MutingSent
  <2> QED BY <2>2, <2>3
<1>5. ASSUME NEW r \in Sides, NEW i \in DOMAIN wire[r], mediaArrive(r, i) PROVE Muting(s)'
  <2>1. shows' = shows /\ mic' = mic
    BY <1>5 DEF mediaArrive
  <2>2. CASE r = s
    <3>1. i = 1 /\ wire[s] # <<>>
      <4>1. overtaken'[s] <=> (overtaken[s] \/ i > 1)
        BY <1>5, <2>2 DEF mediaArrive, MediaTypes
      <4>2. wire[s] \in Seq(Messages)
        BY DEF MediaTypes
      <4> QED BY <4>1, <4>2, <1>5, <2>2
    <3>2. box' = box
      BY <3>1, <2>2, <1>5, BoxSame DEF mediaArrive
    <3> QED BY <2>1, <3>2, MutingSame
  <2>3. CASE r # s
    <3>1. wire'[s] = wire[s] /\ post'[Other(s)] = post[Other(s)]
      BY <2>3, <1>0, <1>5 DEF mediaArrive, MediaTypes
    <3>2. box'[Other(s)] = box[Other(s)]
      BY <3>1, <1>0 DEF box
    <3> QED BY <2>1, <3>2, MutingSame
  <2> QED BY <2>2, <2>3
<1>6. ASSUME NEW r \in Sides, offerLost(r) PROVE FALSE
  BY <1>6 DEF offerLost, mediaTerminate, MediaTypes
<1>7. ASSUME NEW r \in Sides, receive(r) PROVE Muting(s)'
  <2>1. PICK m : m = Head(post[r])
    OBVIOUS
  <2>2. post[r] # <<>> /\ post' = [post EXCEPT ![r] = Tail(@)] /\ wire' = wire /\ mic' = mic
    BY <1>7 DEF receive
  <2>3. shows' = IF ignoreOffer(r, m) THEN shows ELSE [shows EXCEPT ![r] = m.muted]
    BY <1>7, <2>1 DEF receive
  <2>4. /\ box[r] \in Seq(Messages) /\ box[r] # <<>> /\ box'[r] = Tail(box[r])
        /\ Head(box[r]) = m /\ m \in Messages /\ box'[Other(r)] = box[Other(r)]
    BY <2>1, <2>2, BoxLess
  <2>5. CASE r = s
    <3>1. shows'[Other(s)] = shows[Other(s)] /\ box'[Other(s)] = box[Other(s)]
      BY <2>3, <2>4, <2>5, <1>0 DEF MediaTypes, MediaTypeOK
    <3> QED BY <2>2, <3>1, MutingSame
  <2>6. CASE r = Other(s)
    <3>1. Steady(box[r], shows[r], mic[s])
      BY <2>6 DEF Muting
    <3>2. Steady(Tail(box[r]), m.muted, mic[s]) /\ (m.kind # "metadata" => m.muted = shows[r])
      BY <2>4, <3>1, SteadyTail
    <3>3. shows'[r] = m.muted
      <4>1. CASE ignoreOffer(r, m)
        <5>1. m.desc.type = "offer"
          BY <4>1 DEF ignoreOffer, offerCollision
        <5>2. m.kind # "metadata"
          BY <5>1, <2>4 DEF Messages
        <5> QED BY <5>2, <3>2, <2>3, <4>1
      <4>2. CASE ~ignoreOffer(r, m)
        BY <2>3, <4>2 DEF MediaTypes, MediaTypeOK
      <4> QED BY <4>1, <4>2
    <3> QED BY <2>2, <2>4, <2>6, <3>2, <3>3 DEF Muting
  <2> QED BY <2>5, <2>6, <1>0
<1> QED BY <1>1, <1>2, <1>3, <1>4, <1>5, <1>6, <1>7 DEF MediaNext

\* The invariant is kept.
LEMMA MediaInvariantKept == MediaInvariant /\ [MediaNext]_mediaVars => MediaInvariant'
<1> SUFFICES ASSUME MediaInvariant, [MediaNext]_mediaVars PROVE MediaInvariant'
  OBVIOUS
<1>1. MediaTypes
  BY DEF MediaInvariant
<1>2. MediaTypes'
  BY <1>1, MediaTypesKept
<1>3. CASE UNCHANGED mediaVars
  <2>1. box' = box /\ ops' = ops /\ signal' = signal /\ pend' = pend /\ asked' = asked
        /\ agreed' = agreed /\ sees' = sees /\ void' = void /\ todo' = todo /\ over' = over
        /\ overtaken' = overtaken /\ mistaken' = mistaken /\ shows' = shows /\ mic' = mic
    BY <1>3 DEF mediaVars, box, ops
  <2>2. (Undisturbed => Exchanges)'
    <3> SUFFICES ASSUME Undisturbed' PROVE Exchanges'
      OBVIOUS
    <3>1. Undisturbed
      BY <2>1 DEF Undisturbed, Orderly
    <3> QED BY <2>1, <3>1, NothingChanges DEF MediaInvariant
  <2>3. ASSUME NEW s \in Sides, ~overtaken'[s], \A t \in Sides : ~over'[t] PROVE Muting(s)'
    BY <1>1, <2>1, <2>3, MutingSame DEF MediaInvariant
  <2> QED BY <1>2, <2>2, <2>3 DEF MediaInvariant
<1>4. CASE MediaNext
  <2>1. \A t \in Sides : /\ overtaken[t] => overtaken'[t]
                         /\ mistaken[t] => mistaken'[t]
                         /\ over[t] => over'[t]
    BY <1>1, <1>4, OnlyWorse
  <2>2. (Undisturbed => Exchanges)'
    <3> SUFFICES ASSUME Undisturbed' PROVE Exchanges'
      OBVIOUS
    <3>1. Undisturbed
      BY <2>1 DEF Undisturbed, Orderly
    <3> QED BY <1>1, <1>4, <3>1, ExchangesKept DEF MediaInvariant
  <2>3. ASSUME NEW s \in Sides, ~overtaken'[s], \A t \in Sides : ~over'[t] PROVE Muting(s)'
    <3>1. Muting(s)
      BY <2>1, <2>3 DEF MediaInvariant
    <3> QED BY <1>1, <1>4, <2>1, <2>3, <3>1, MutingKept
  <2> QED BY <1>2, <2>2, <2>3 DEF MediaInvariant
<1> QED BY <1>3, <1>4

\* Where there is nothing on its way and nothing to do, the exchanges are over.
LEMMA QuietSettles ==
  ASSUME MediaInvariant, MediaQuiet
  PROVE  /\ Orderly /\ (\A s \in Sides : signal[s] = "stable") =>
              \A s \in Sides : sees[s] = want[Other(s)]
         /\ Orderly => signal["out"] = "stable" /\ sees["in"] = want["out"]
         /\ \A s \in Sides : overtaken[s] \/ shows[Other(s)] = mic[s]
<1>0. "out" \in Sides /\ "in" \in Sides /\ Other("out") = "in" /\ Other("in") = "out"
      /\ (\A s \in Sides : s = "out" \/ s = "in") /\ (\A s \in Sides : Other(s) \in Sides)
      /\ MediaTypes
  BY OtherSide DEF MediaInvariant
<1>1. \A s \in Sides : box[s] = <<>> /\ ~over[s] /\ todo[s] = {} /\ chain[s] = <<>>
  <2>1. <<>> \in Seq(Messages) /\ <<>> \o <<>> = <<>>
    BY ConcatEmptySeq
  <2>2. \A s \in Sides : box[s] = <<>> \o <<>>
    BY <1>0 DEF MediaQuiet, box
  <2> QED BY <2>1, <2>2 DEF MediaQuiet
<1>2. \A s \in Sides : \A k : ~Has(box[s], k) /\ ~Has(ops[s], k)
  <2>1. \A s \in Sides : \A k : ~Has(box[s], k)
    BY <1>1 DEF Has
  <2> QED BY <2>1, <1>0, <1>1, OpsNone
<1>3. ASSUME Orderly
      PROVE  /\ signal["out"] = "stable" /\ sees["in"] = want["out"]
             /\ signal["in"] = "stable" => sees["out"] = want["in"]
  <2>1. Exchanges
    BY <1>1, <1>3 DEF MediaInvariant, Undisturbed
  <2>2. \A s \in Sides : signal[s] # "remoteOffer" /\ (asked[s] => signal[s] # "stable")
    BY <2>1, <1>0, <1>2 DEF Exchanges, Doing, Making, Answering
  <2>3. \A s \in Sides : signal[s] = "stable" => agreed[s] = want[s]
    BY <2>2 DEF MediaQuiet
  <2>4. ~Caller1 /\ ~Caller2 /\ ~Caller3 /\ ~Caller4 /\ ~Caller5 /\ ~Caller6
    BY <2>2, <1>0, <1>1, <1>2 DEF Caller1, Caller2, Caller3, Caller4, Caller5, Caller6
  <2>5. ~Callee4 /\ ~Callee5 /\ ~Callee6
    BY <2>2, <1>0, <1>2 DEF Callee4, Callee5, Callee6
  <2>6. signal["out"] = "stable"
    <3>1. signal["out"] \in {"stable", "localOffer", "remoteOffer"}
      BY <1>0 DEF MediaTypes, MediaTypeOK
    <3> QED BY <3>1, <2>1, <2>2, <2>4, <1>0 DEF Exchanges, CallersExchange
  <2>7. sees["in"] = agreed["out"] /\ sees["out"] = agreed["in"]
    BY <2>1, <2>4, <2>5 DEF Exchanges, CalleeSees, CallerSees
  <2> QED BY <2>3, <2>6, <2>7, <1>0
<1>4. ASSUME NEW s \in Sides, ~overtaken[s] PROVE shows[Other(s)] = mic[s]
  <2>1. Muting(s) /\ box[Other(s)] = <<>>
    BY <1>0, <1>1, <1>4 DEF MediaInvariant
  <2> QED BY <2>1 DEF Muting, Steady
<1>5. Orderly /\ (\A s \in Sides : signal[s] = "stable")
      => \A s \in Sides : sees[s] = want[Other(s)]
  BY <1>0, <1>3
<1> QED BY <1>3, <1>4, <1>5

\* Every part of the state of a call's media has its type.
THEOREM MediaTypeCorrect == MediaSpec => []MediaTypeOK
<1>1. MediaInit => MediaTypes
  BY MediaInitTypes
<1>2. MediaTypes /\ [MediaNext]_mediaVars => MediaTypes'
  BY MediaTypesKept
<1>3. MediaTypes => MediaTypeOK
  BY DEF MediaTypes
<1> QED BY <1>1, <1>2, <1>3, PTL DEF MediaSpec

\* When both sides of a call are quiet, each sees what the other wants to
\* send: what the rule of onNegotiateReceived for offers that cross is for.
THEOREM NegotiationsSettle == MediaSpec => []NegotiationSettles
<1>1. MediaInit => MediaInvariant
  BY MediaInitInvariant
<1>2. MediaInvariant /\ [MediaNext]_mediaVars => MediaInvariant'
  BY MediaInvariantKept
<1>3. MediaInvariant => NegotiationSettles
  BY QuietSettles DEF NegotiationSettles, MediaInvariant, MediaTypes
<1> QED BY <1>1, <1>2, <1>3, PTL DEF MediaSpec

-----------------------------------------------------------------------------
(***************************************************************************)
(* That the device lists are sound.                                        *)
(*                                                                         *)
(* That a list marked up to date is fresh follows from what is known of    *)
(* the download that will mark it: a user whose download counts (it was    *)
(* not superseded by a change) has been answered with at least every       *)
(* change that was announced so far, and what was answered is newer than   *)
(* what is there.                                                          *)
(***************************************************************************)

\* The changes up to this token count.  While the first response is being
\* processed nobody has been told of a change, but everyone was reset.
Due == IF phase = "got" /\ since # None THEN since ELSE syncTok

\* The serialiser runs one query, which is first answered and then processed.
OneDownload ==
  /\ \A d, e \in active : d = e
  /\ \A d \in active : /\ d.asked \subseteq d.left /\ d.left \subseteq d.users
                       /\ d.asked # {} => d.left = d.users

\* An announced change of u is part of version n.
Covers(u, n) == \A i \in DOMAIN log : i <= Due /\ log[i] = u => n >= i

\* What is answered for u is newer than what is there, until it is there, and it
\* covers the announced changes if it is to mark u as up to date.
AnswerIsNewer(d, u) ==
  u \notin d.asked =>
    /\ devices[u] <= d.got[u] /\ d.got[u] <= Len(log)
    /\ u \notin d.left => devices[u] = d.got[u]
    /\ tracking[u] = "DownloadInProgress" /\ inProgress[u] = "active" => Covers(u, d.got[u])

\* Nothing is newer than the server.
WithinLog ==
  /\ syncTok <= Len(log) /\ since <= Len(log)
  /\ \A u \in Users : devices[u] <= Len(log)

Fresh ==
  /\ WithinLog
  /\ \A u \in Users : tracking[u] = "UpToDate" => Covers(u, devices[u])
  /\ \A d \in active : \A u \in d.users : AnswerIsNewer(d, u)

\* A save that doSync() awaits is one that it started and that is not done yet.
SaveIsAwaited ==
  /\ timerWait => phase = "saving" /\ \A i \in DOMAIN storing : ~storing[i].wait
  /\ \A i \in DOMAIN storing : storing[i].wait => phase = "saving"
  /\ \A i, j \in DOMAIN storing : storing[i].wait /\ storing[j].wait => i = j

ListInv ==
  TypeOK /\ NoOrphanDownload /\ OneDownload /\ SaveIsAwaited /\ (Smooth => Fresh)

USE DEF syncVars, listVars, saveVars, None, TrackingStatus

\* A failure is counted, and three of the four kinds end the smooth behaviours.
LEMMA Troubles ==
  ASSUME SyncType, NEW k \in {"failures", "omissions", "barfs", "restarts"}, Trouble(k)
  PROVE  /\ used' \in [failures : Nat, omissions : Nat, barfs : Nat, restarts : Nat]
         /\ Smooth' => Smooth /\ k = "failures"
<1> USE DEF SyncType
<1>0. PICK u \in [failures : Nat, omissions : Nat, barfs : Nat, restarts : Nat] :
        u = used /\ used' = [u EXCEPT ![k] = @ + 1]
  BY DEF Trouble
<1>1. CASE k = "failures"
  <2>1. PICK v : v = [u EXCEPT !.failures = @ + 1]
    OBVIOUS
  <2>2. used' = v
    BY <1>0, <1>1, <2>1
  <2>3. /\ v \in [failures : Nat, omissions : Nat, barfs : Nat, restarts : Nat]
        /\ v.failures = u.failures + 1 /\ u.failures \in Nat
        /\ v.omissions = u.omissions /\ v.barfs = u.barfs /\ v.restarts = u.restarts
    BY ONLY <2>1, u \in [failures : Nat, omissions : Nat, barfs : Nat, restarts : Nat]
  <2> QED BY <1>0, <1>1, <2>2, <2>3 DEF Smooth
<1>2. CASE k = "omissions"
  <2>1. PICK v : v = [u EXCEPT !.omissions = @ + 1]
    OBVIOUS
  <2>2. used' = v
    BY <1>0, <1>2, <2>1
  <2>3. /\ v \in [failures : Nat, omissions : Nat, barfs : Nat, restarts : Nat]
        /\ v.omissions = u.omissions + 1 /\ u.omissions \in Nat
    BY ONLY <2>1, u \in [failures : Nat, omissions : Nat, barfs : Nat, restarts : Nat]
  <2> QED BY <1>0, <1>2, <2>2, <2>3 DEF Smooth
<1>3. CASE k = "barfs"
  <2>1. PICK v : v = [u EXCEPT !.barfs = @ + 1]
    OBVIOUS
  <2>2. used' = v
    BY <1>0, <1>3, <2>1
  <2>3. /\ v \in [failures : Nat, omissions : Nat, barfs : Nat, restarts : Nat]
        /\ v.barfs = u.barfs + 1 /\ u.barfs \in Nat
    BY ONLY <2>1, u \in [failures : Nat, omissions : Nat, barfs : Nat, restarts : Nat]
  <2> QED BY <1>0, <1>3, <2>2, <2>3 DEF Smooth
<1>4. CASE k = "restarts"
  <2>1. PICK v : v = [u EXCEPT !.restarts = @ + 1]
    OBVIOUS
  <2>2. used' = v
    BY <1>0, <1>4, <2>1
  <2>3. /\ v \in [failures : Nat, omissions : Nat, barfs : Nat, restarts : Nat]
        /\ v.restarts = u.restarts + 1 /\ u.restarts \in Nat
    BY ONLY <2>1, u \in [failures : Nat, omissions : Nat, barfs : Nat, restarts : Nat]
  <2> QED BY <1>0, <1>4, <2>2, <2>3 DEF Smooth
<1> QED BY <1>1, <1>2, <1>3, <1>4

\* The running download is the only one.
LEMMA TheDownload ==
  ASSUME ListInv, NEW d \in active
  PROVE  /\ active = {d} /\ d \in Download
         /\ d.users \subseteq Users /\ d.asked \subseteq d.left /\ d.left \subseteq d.users
         /\ d.asked # {} => d.left = d.users
         /\ d.got \in [Users -> Version]
<1>1. d \in Download
  BY DEF ListInv, TypeOK, ListType
<1>2. d.users \subseteq Users /\ d.got \in [Users -> Version]
  BY <1>1 DEF Download
<1> QED BY <1>1, <1>2 DEF ListInv, OneDownload

\* A user becomes tracked.
LEMMA TrackInv == ASSUME ListInv, NEW u \in Users, trackUser(u) PROVE ListInv'
<1>1. SyncType'
  BY DEF trackUser, startTrackingDeviceList, ListInv, TypeOK, SyncType, Version
<1>2. ListType'
  BY DEF trackUser, startTrackingDeviceList, ListInv, TypeOK, ListType, Version, Download
<1>3. SaveType'
  BY DEF trackUser, startTrackingDeviceList, ListInv, TypeOK, SyncType, ListType, SaveType
<1>4. NoOrphanDownload' /\ OneDownload'
  BY DEF trackUser, startTrackingDeviceList, ListInv, TypeOK, ListType, Download,
         NoOrphanDownload, OneDownload
<1>5. Smooth' => Fresh'
  BY DEF trackUser, startTrackingDeviceList, ListInv, TypeOK, SyncType, ListType, Version,
         Download, Smooth, Fresh, WithinLog, Covers, AnswerIsNewer, Due, NoOrphanDownload,
         OneDownload
<1>6. SaveIsAwaited'
  BY DEF trackUser, ListInv, SaveIsAwaited
<1> QED BY <1>1, <1>2, <1>3, <1>4, <1>5, <1>6 DEF ListInv, TypeOK

\* A user of a query is answered, or left out.
LEMMA AnswerInv ==
  ASSUME ListInv, NEW d \in active, NEW u \in Users, KeyQueryAnswer(d, u)
  PROVE  ListInv'
<1> DEFINE omitted == [d EXCEPT !.asked = @ \ {u}]
<1>0. PICK told : told = [d EXCEPT !.asked = @ \ {u}, !.got[u] = Len(log)]
  OBVIOUS
<1>1. /\ active = {d} /\ d \in Download /\ u \in d.asked /\ u \in d.users
      /\ d.asked \subseteq d.left /\ d.left = d.users /\ d.users \subseteq Users
      /\ d.got \in [Users -> Version]
  BY TheDownload DEF KeyQueryAnswer
<1>2. Len(log) \in Version
  BY DEF ListInv, TypeOK, SyncType, Version
<1>3. told \in Download /\ omitted \in Download
  BY <1>0, <1>1, <1>2 DEF Download
<1>4. /\ told.users = d.users /\ told.left = d.left /\ told.asked = d.asked \ {u}
      /\ told.got = [d.got EXCEPT ![u] = Len(log)]
      /\ omitted.users = d.users /\ omitted.left = d.left /\ omitted.asked = d.asked \ {u}
  BY <1>0, <1>1 DEF Download
<1> HIDE DEF omitted
<1>5. /\ active' = {told} \/ active' = {omitted}
      /\ UNCHANGED <<log, syncVars, tracking, devices, inProgress, queued, saveVars>>
  BY <1>0, <1>1 DEF KeyQueryAnswer, omitted
<1>6. /\ used' \in [failures : Nat, omissions : Nat, barfs : Nat, restarts : Nat]
      /\ Smooth' => Smooth /\ active' = {told}
  <2>1. CASE Trouble("omissions")
    BY <2>1, Troubles DEF ListInv, TypeOK
  <2>2. CASE UNCHANGED used /\ active' = {told}
    BY <2>2 DEF ListInv, TypeOK, SyncType, Smooth
  <2> QED BY <1>0, <1>1, <2>1, <2>2 DEF KeyQueryAnswer
<1>7. TypeOK'
  BY <1>3, <1>5, <1>6 DEF ListInv, TypeOK, SyncType, ListType, SaveType
<1>8. NoOrphanDownload' /\ OneDownload'
  BY <1>1, <1>4, <1>5 DEF ListInv, NoOrphanDownload, OneDownload
<1>9. ASSUME Smooth' PROVE Fresh'
  <2>1. Fresh /\ active' = {told}
    BY <1>6, <1>9 DEF ListInv
  <2>2. WithinLog' /\ \A v \in Users : tracking'[v] = "UpToDate" => Covers(v, devices[v])'
    BY <1>5, <2>1 DEF Fresh, WithinLog, Covers, Due
  <2>3. ASSUME NEW v \in d.users PROVE AnswerIsNewer(told, v)'
    <3>1. CASE v = u
      <4>1. told.got[v] = Len(log) /\ v \in told.left
        BY <1>1, <1>4, <3>1
      <4>2. devices[v] <= Len(log)
        BY <3>1, <2>1 DEF Fresh, WithinLog
      <4>3. \A i \in DOMAIN log : Len(log) >= i
        BY DEF ListInv, TypeOK, SyncType
      <4> QED BY <1>2, <1>5, <4>1, <4>2, <4>3 DEF AnswerIsNewer, Covers, Due, Version
    <3>2. CASE v # u
      <4>1. /\ told.got[v] = d.got[v] /\ v \in told.left
            /\ v \in d.asked <=> v \in told.asked
        BY <1>1, <1>4, <3>2
      <4>2. AnswerIsNewer(d, v)
        BY <1>1, <2>1 DEF Fresh
      <4> QED BY <1>1, <1>5, <4>1, <4>2 DEF AnswerIsNewer, Covers, Due
    <3> QED BY <3>1, <3>2
  <2> QED BY <1>4, <2>1, <2>2, <2>3 DEF Fresh
<1>10. SaveIsAwaited'
  BY DEF KeyQueryAnswer, ListInv, SaveIsAwaited
<1> QED BY <1>7, <1>8, <1>9, <1>10 DEF ListInv

\* The answer for a user is stored, or that throws.
LEMMA ProcessInv ==
  ASSUME ListInv, NEW d \in active, NEW u \in Users, processQueryResponseForUser(d, u)
  PROVE  ListInv'
<1> DEFINE e == [d EXCEPT !.left = @ \ {u}]
<1>1. /\ active = {d} /\ d \in Download /\ d.asked = {} /\ u \in d.left /\ u \in d.users
      /\ d.left \subseteq d.users /\ d.users \subseteq Users /\ d.got \in [Users -> Version]
  BY TheDownload DEF processQueryResponseForUser
<1>2. /\ e \in Download /\ e.users = d.users /\ e.asked = {} /\ e.left = d.left \ {u}
      /\ e.got = d.got
  BY <1>1 DEF Download
<1> HIDE DEF e
<1>3. active' = {e} /\ UNCHANGED <<log, syncVars, tracking, inProgress, queued, saveVars>>
  BY <1>1 DEF processQueryResponseForUser, e
<1>4. /\ used' \in [failures : Nat, omissions : Nat, barfs : Nat, restarts : Nat]
      /\ devices' \in [Users -> Version]
      /\ Smooth' => Smooth /\ devices' = [devices EXCEPT ![u] = d.got[u]]
  <2>1. CASE Trouble("omissions") /\ UNCHANGED devices
    BY <2>1, Troubles DEF ListInv, TypeOK, ListType
  <2>2. CASE UNCHANGED used /\ devices' = [devices EXCEPT ![u] = d.got[u]]
    BY <1>1, <2>2 DEF ListInv, TypeOK, SyncType, ListType, Smooth
  <2> QED BY <2>1, <2>2 DEF processQueryResponseForUser
<1>5. TypeOK'
  BY <1>2, <1>3, <1>4 DEF ListInv, TypeOK, SyncType, ListType, SaveType
<1>6. NoOrphanDownload' /\ OneDownload'
  BY <1>1, <1>2, <1>3 DEF ListInv, NoOrphanDownload, OneDownload
<1>7. ASSUME Smooth' PROVE Fresh'
  <2>1. Fresh /\ devices' = [devices EXCEPT ![u] = d.got[u]]
    BY <1>4, <1>7 DEF ListInv
  <2>2. AnswerIsNewer(d, u) /\ devices[u] <= d.got[u] /\ d.got[u] <= Len(log)
    BY <1>1, <2>1 DEF Fresh, AnswerIsNewer
  <2>3. /\ devices \in [Users -> Version] /\ devices'[u] = d.got[u] /\ devices[u] \in Int
        /\ d.got[u] \in Int /\ \A v \in Users : v # u => devices'[v] = devices[v]
    BY <1>1, <2>1 DEF ListInv, TypeOK, ListType, Version
  <2>4. WithinLog'
    BY <1>3, <2>1, <2>2, <2>3 DEF Fresh, WithinLog
  <2>5. ASSUME NEW v \in Users, tracking'[v] = "UpToDate" PROVE Covers(v, devices[v])'
    <3>1. Covers(v, devices[v])
      BY <1>3, <2>1, <2>5 DEF Fresh
    <3>2. CASE v # u
      BY <1>3, <2>3, <3>1, <3>2 DEF Covers, Due
    <3>3. CASE v = u
      BY <1>3, <2>2, <2>3, <3>1, <3>3 DEF Covers, Due, ListInv, TypeOK, SyncType
    <3> QED BY <3>2, <3>3
  <2>6. ASSUME NEW v \in d.users PROVE AnswerIsNewer(e, v)'
    <3>1. AnswerIsNewer(d, v)
      BY <1>1, <2>1 DEF Fresh
    <3>2. CASE v # u
      BY <1>1, <1>2, <1>3, <2>3, <3>1, <3>2 DEF AnswerIsNewer, Covers, Due
    <3>3. CASE v = u
      BY <1>1, <1>2, <1>3, <2>3, <3>1, <3>3 DEF AnswerIsNewer, Covers, Due
    <3> QED BY <3>2, <3>3
  <2> QED BY <1>2, <1>3, <2>4, <2>5, <2>6 DEF Fresh
<1>8. SaveIsAwaited'
  BY DEF processQueryResponseForUser, ListInv, SaveIsAwaited
<1> QED BY <1>5, <1>6, <1>7, <1>8 DEF ListInv

\* The query succeeds: its users are up to date, and the queued query starts.
LEMMA SucceedsInv == ASSUME ListInv, NEW d \in active, DownloadSucceeds(d) PROVE ListInv'
<1>1. SyncType'
  BY DEF DownloadSucceeds, finished, NewDownload, ListInv, TypeOK, SyncType, Version
<1>2. ListType'
  BY DEF DownloadSucceeds, finished, NewDownload, ListInv, TypeOK, ListType, Version, Download
<1>3. SaveType'
  BY DEF DownloadSucceeds, finished, NewDownload, ListInv, TypeOK, SyncType, ListType, SaveType
<1>4. NoOrphanDownload' /\ OneDownload'
  <2>1. active' = IF queued = {} THEN {} ELSE {NewDownload(queued)}
    BY TheDownload DEF DownloadSucceeds
  <2>2. OneDownload'
    BY <2>1 DEF OneDownload, NewDownload
  <2>3. ASSUME NEW u \in Users, inProgress'[u] = "active"
        PROVE  \E e \in active' : u \in e.users
    <3>1. u \in queued
      BY <2>3 DEF DownloadSucceeds, ListInv, TypeOK, ListType, NoOrphanDownload
    <3> QED BY <2>1, <3>1 DEF NewDownload
  <2>4. ASSUME NEW u \in Users, tracking'[u] = "DownloadInProgress"
        PROVE  inProgress'[u] # "none"
    BY <2>4 DEF DownloadSucceeds, finished, ListInv, TypeOK, ListType, NoOrphanDownload
  <2>5. \A u \in Users : inProgress'[u] # "queued"
    BY DEF DownloadSucceeds
  <2> QED BY <2>2, <2>3, <2>4, <2>5 DEF NoOrphanDownload
<1>5. Smooth' => Fresh'
  BY SMTT(30) DEF DownloadSucceeds, finished, NewDownload, ListInv, TypeOK, SyncType, ListType, Version,
         Download, Smooth, Fresh, WithinLog, Covers, AnswerIsNewer, Due, NoOrphanDownload,
         OneDownload
<1>6. SaveIsAwaited'
  BY DEF DownloadSucceeds, ListInv, SaveIsAwaited
<1> QED BY <1>1, <1>2, <1>3, <1>4, <1>5, <1>6 DEF ListInv, TypeOK

\* It fails: its users are outdated again.
LEMMA FailsInv == ASSUME ListInv, NEW d \in active, DownloadFails(d) PROVE ListInv'
<1>1. SyncType'
  BY SMTT(30) DEF DownloadFails, finished, Trouble, ListInv, TypeOK, SyncType, Version
<1>2. ListType'
  BY DEF DownloadFails, finished, Trouble, ListInv, TypeOK, ListType, Version, Download
<1>3. SaveType'
  BY DEF DownloadFails, finished, Trouble, ListInv, TypeOK, SyncType, ListType, SaveType
<1>4. NoOrphanDownload' /\ OneDownload'
  BY DEF DownloadFails, finished, Trouble, ListInv, TypeOK, ListType, Download,
         NoOrphanDownload, OneDownload
<1>5. Smooth' => Fresh'
  BY DEF DownloadFails, finished, Trouble, ListInv, TypeOK, SyncType, ListType, Version,
         Download, Smooth, Fresh, WithinLog, Covers, AnswerIsNewer, Due, NoOrphanDownload,
         OneDownload
<1>6. SaveIsAwaited'
  BY DEF DownloadFails, ListInv, SaveIsAwaited
<1> QED BY <1>1, <1>2, <1>3, <1>4, <1>5, <1>6 DEF ListInv, TypeOK

\* A /sync response arrives; the first one resets the tracking.
LEMMA ResponseInv == ASSUME ListInv, SyncResponse PROVE ListInv'
<1>1. SyncType'
  BY DEF SyncResponse, startTrackingDeviceList, ListInv, TypeOK, SyncType, Version
<1>2. ListType'
  BY DEF SyncResponse, startTrackingDeviceList, ListInv, TypeOK, ListType, Version, Download
<1>3. SaveType'
  BY DEF SyncResponse, startTrackingDeviceList, ListInv, TypeOK, SyncType, ListType, SaveType
<1>4. NoOrphanDownload' /\ OneDownload'
  BY DEF SyncResponse, startTrackingDeviceList, ListInv, TypeOK, ListType, Download,
         NoOrphanDownload, OneDownload
<1>5. Smooth' => Fresh'
  BY DEF SyncResponse, startTrackingDeviceList, ListInv, TypeOK, SyncType, ListType, Version,
         Download, Smooth, Fresh, WithinLog, Covers, AnswerIsNewer, Due, NoOrphanDownload,
         OneDownload
<1>6. SaveIsAwaited'
  BY DEF SyncResponse, ListInv, SaveIsAwaited
<1> QED BY <1>1, <1>2, <1>3, <1>4, <1>5, <1>6 DEF ListInv, TypeOK

\* The changes that the response announces outdate the lists they are about.
LEMMA ChangesInv == ASSUME ListInv, handleDeviceListChanges PROVE ListInv'
<1>1. SyncType'
  BY DEF handleDeviceListChanges, invalidateUserDeviceList, Changed, ListInv, TypeOK, SyncType,
         Version
<1>2. ListType'
  BY DEF handleDeviceListChanges, invalidateUserDeviceList, Changed, ListInv, TypeOK, ListType,
         Version, Download
<1>3. SaveType'
  BY DEF handleDeviceListChanges, invalidateUserDeviceList, Changed, ListInv, TypeOK, SyncType,
         ListType, SaveType
<1>4. NoOrphanDownload' /\ OneDownload'
  BY DEF handleDeviceListChanges, invalidateUserDeviceList, Changed, ListInv, TypeOK, ListType,
         Download, NoOrphanDownload, OneDownload
<1>5. ASSUME Smooth' PROVE Fresh'
  <2>1. Fresh /\ UNCHANGED <<log, since, syncTok, devices, inProgress, active>>
    BY <1>5 DEF handleDeviceListChanges, ListInv, Smooth
  <2>2. CASE since = None
    <3>1. Due' = Due /\ tracking' = tracking
      BY <2>2 DEF handleDeviceListChanges, Due
    <3> QED BY <2>1, <3>1 DEF Fresh, WithinLog, Covers, AnswerIsNewer
  <2>3. CASE since # None
    <3>1. /\ Due = since /\ Due' = syncTok /\ since \in Int /\ syncTok \in Int
          /\ \A i \in DOMAIN log : i \in Nat /\ i > 0
      BY <2>3 DEF handleDeviceListChanges, Due, ListInv, TypeOK, SyncType, Version
    <3>2. \A v \in Users :
            /\ tracking'[v] \in {"UpToDate", "DownloadInProgress"} => v \notin Changed
            /\ v \notin Changed => tracking'[v] = tracking[v]
      BY <2>3 DEF handleDeviceListChanges, invalidateUserDeviceList, ListInv, TypeOK, ListType
    <3>3. ASSUME NEW v \in Users, v \notin Changed, NEW n, Covers(v, n) PROVE Covers(v, n)'
      <4>1. ASSUME NEW i \in DOMAIN log, i <= syncTok, log[i] = v PROVE i <= since
        BY <3>1, <3>3, <4>1 DEF Changed
      <4> QED BY <2>1, <3>1, <3>3, <4>1 DEF Covers
    <3>4. \A v \in Users : tracking'[v] = "UpToDate" => Covers(v, devices[v])'
      BY <2>1, <3>2, <3>3 DEF Fresh
    <3>5. ASSUME NEW d \in active, NEW v \in d.users PROVE AnswerIsNewer(d, v)'
      <4>1. v \in Users /\ AnswerIsNewer(d, v)
        BY <2>1, TheDownload DEF Fresh
      <4> QED BY <2>1, <3>2, <3>3, <4>1 DEF AnswerIsNewer
    <3> QED BY <2>1, <3>4, <3>5 DEF Fresh, WithinLog
  <2> QED BY <2>2, <2>3
<1>6. SaveIsAwaited'
  BY DEF handleDeviceListChanges, ListInv, SaveIsAwaited
<1> QED BY <1>1, <1>2, <1>3, <1>4, <1>5, <1>6 DEF ListInv, TypeOK

\* Users who share no room any more are not tracked.
LEMMA StopTrackingInv ==
  ASSUME ListInv, NEW gone \in SUBSET Users, stopTracking(gone)
  PROVE  ListInv'
<1>1. SyncType'
  BY DEF stopTracking, ListInv, TypeOK, SyncType, Version
<1>2. ListType'
  BY DEF stopTracking, ListInv, TypeOK, ListType, Version, Download
<1>3. SaveType'
  BY DEF stopTracking, ListInv, TypeOK, SyncType, ListType, SaveType
<1>4. NoOrphanDownload' /\ OneDownload'
  BY DEF stopTracking, ListInv, TypeOK, ListType, Download, NoOrphanDownload, OneDownload
<1>5. Smooth' => Fresh'
  BY DEF stopTracking, ListInv, TypeOK, SyncType, ListType, Version, Download, Smooth, Fresh,
         WithinLog, Covers, AnswerIsNewer, Due, NoOrphanDownload, OneDownload
<1>6. SaveIsAwaited'
  BY DEF stopTracking, ListInv, SaveIsAwaited
<1> QED BY <1>1, <1>2, <1>3, <1>4, <1>5, <1>6 DEF ListInv, TypeOK

\* Processing the response throws.
LEMMA BarfsInv == ASSUME ListInv, SyncBarfs PROVE ListInv'
<1>1. SyncType'
  BY DEF SyncBarfs, Trouble, ListInv, TypeOK, SyncType, Version
<1>2. ListType'
  BY DEF SyncBarfs, Trouble, ListInv, TypeOK, ListType, Version, Download
<1>3. SaveType'
  BY DEF SyncBarfs, Trouble, ListInv, TypeOK, SyncType, ListType, SaveType
<1>4. NoOrphanDownload' /\ OneDownload'
  BY DEF SyncBarfs, Trouble, ListInv, TypeOK, ListType, Download, NoOrphanDownload, OneDownload
<1>5. Smooth' => Fresh'
  BY DEF SyncBarfs, Trouble, ListInv, TypeOK, SyncType, ListType, Version, Download, Smooth,
         Fresh, WithinLog, Covers, AnswerIsNewer, Due, NoOrphanDownload, OneDownload
<1>6. SaveIsAwaited'
  BY DEF SyncBarfs, ListInv, SaveIsAwaited
<1> QED BY <1>1, <1>2, <1>3, <1>4, <1>5, <1>6 DEF ListInv, TypeOK

\* The end of doSync().
LEMMA SaveInv == ASSUME ListInv, SyncSave PROVE ListInv'
<1>1. SyncType'
  BY DEF SyncSave, ListInv, TypeOK, SyncType, Version
<1>2. ListType'
  BY DEF SyncSave, ListInv, TypeOK, ListType, Version, Download
<1>3. SaveType'
  BY DEF SyncSave, ListInv, TypeOK, SyncType, ListType, SaveType
<1>4. NoOrphanDownload' /\ OneDownload'
  BY DEF SyncSave, ListInv, TypeOK, ListType, Download, NoOrphanDownload, OneDownload
<1>5. Smooth' => Fresh'
  BY DEF SyncSave, ListInv, TypeOK, SyncType, ListType, Version, Download, Smooth, Fresh,
         WithinLog, Covers, AnswerIsNewer, Due, NoOrphanDownload, OneDownload
<1>6. SaveIsAwaited'
  BY DEF SyncSave, ListInv, SaveIsAwaited
<1> QED BY <1>1, <1>2, <1>3, <1>4, <1>5, <1>6 DEF ListInv, TypeOK

\* The saves.
LEMMA SaveTimerInv == ASSUME ListInv, SaveTimer PROVE ListInv'
<1>1. SyncType'
  BY DEF SaveTimer, ListInv, TypeOK, SyncType, Version
<1>2. ListType'
  BY DEF SaveTimer, ListInv, TypeOK, ListType, Version, Download
<1>3. SaveType'
  <2>1. [data |-> [tracking |-> tracking, devices |-> devices], wait |-> timerWait]
           \in [data : Snapshot, wait : BOOLEAN]
    BY DEF ListInv, TypeOK, ListType, SaveType, Snapshot
  <2>2. storing' \in Seq([data : Snapshot, wait : BOOLEAN])
    BY <2>1 DEF SaveTimer, ListInv, TypeOK, SaveType
  <2> QED BY <2>2 DEF SaveTimer, ListInv, TypeOK, SaveType
<1>4. NoOrphanDownload' /\ OneDownload'
  BY DEF SaveTimer, ListInv, TypeOK, ListType, Download, NoOrphanDownload, OneDownload
<1>5. Smooth' => Fresh'
  BY DEF SaveTimer, ListInv, TypeOK, SyncType, ListType, Version, Download, Smooth, Fresh,
         WithinLog, Covers, AnswerIsNewer, Due, NoOrphanDownload, OneDownload
<1>6. SaveIsAwaited'
  <2>1. /\ DOMAIN storing' = 1..(Len(storing) + 1) /\ DOMAIN storing = 1..Len(storing)
        /\ Len(storing) \in Nat
        /\ \A i \in DOMAIN storing : storing'[i] = storing[i]
        /\ storing'[Len(storing) + 1].wait = timerWait
    BY DEF SaveTimer, ListInv, TypeOK, SaveType
  <2> QED BY <2>1 DEF SaveTimer, ListInv, SaveIsAwaited
<1> QED BY <1>1, <1>2, <1>3, <1>4, <1>5, <1>6 DEF ListInv, TypeOK

\* A transaction completes: only a save that doSync() awaits moves it on.
LEMMA StoreDoneInv == ASSUME ListInv, StoreDone PROVE ListInv'
<1>1. SyncType'
  BY DEF StoreDone, ListInv, TypeOK, SyncType, Version
<1>2. ListType'
  BY DEF StoreDone, ListInv, TypeOK, ListType, Version, Download
<1>3. SaveType'
  <2>1. \A S : \A q \in Seq(S) : q # <<>> => Head(q) \in S /\ Tail(q) \in Seq(S)
    OBVIOUS
  <2>2. /\ Head(storing) \in [data : Snapshot, wait : BOOLEAN]
        /\ Tail(storing) \in Seq([data : Snapshot, wait : BOOLEAN])
    BY <2>1, Zenon DEF StoreDone, ListInv, TypeOK, SaveType
  <2>3. Head(storing).data \in Snapshot
    BY <2>2
  <2> QED BY <2>2, <2>3 DEF StoreDone, ListInv, TypeOK, SyncType, SaveType
<1>4. NoOrphanDownload' /\ OneDownload'
  BY DEF StoreDone, ListInv, TypeOK, ListType, Download, NoOrphanDownload, OneDownload
<1>5. Smooth' => Fresh'
  <2>1. Head(storing) = storing[1] /\ 1 \in DOMAIN storing
    BY DEF StoreDone, ListInv, TypeOK, SaveType
  <2>2. Due' = Due
    BY <2>1 DEF StoreDone, Due, ListInv, SaveIsAwaited
  <2> QED BY <2>2 DEF StoreDone, ListInv, Smooth, Fresh, WithinLog, Covers, AnswerIsNewer
<1>6. SaveIsAwaited'
  <2>1. /\ DOMAIN storing' = 1..(Len(storing) - 1) /\ DOMAIN storing = 1..Len(storing)
        /\ Len(storing) \in Nat \ {0} /\ Head(storing) = storing[1]
        /\ \A i \in DOMAIN storing' : storing'[i] = storing[i + 1]
    BY DEF StoreDone, ListInv, TypeOK, SaveType
  <2> QED BY <2>1 DEF StoreDone, ListInv, SaveIsAwaited
<1> QED BY <1>1, <1>2, <1>3, <1>4, <1>5, <1>6 DEF ListInv, TypeOK

\* External: a list changes at the server; nobody has been told of it.
LEMMA ServerInv == ASSUME ListInv, NEW u \in Users, ServerChange(u) PROVE ListInv'
<1>1. SyncType'
  BY DEF ServerChange, ListInv, TypeOK, SyncType, Version
<1>2. ListType'
  BY DEF ServerChange, ListInv, TypeOK, ListType, Version, Download
<1>3. SaveType'
  BY DEF ServerChange, ListInv, TypeOK, SyncType, ListType, SaveType
<1>4. NoOrphanDownload' /\ OneDownload'
  BY DEF ServerChange, ListInv, TypeOK, ListType, Download, NoOrphanDownload, OneDownload
<1>5. ASSUME Smooth' PROVE Fresh'
  <2>1. Fresh /\ Due' = Due /\ UNCHANGED <<syncVars, listVars>>
    BY <1>5 DEF ServerChange, ListInv, Smooth, Due
  <2>2. /\ Len(log') = Len(log) + 1 /\ Len(log) \in Nat
        /\ \A i \in DOMAIN log' :
             i \in Nat /\ (i <= Len(log) => i \in DOMAIN log /\ log'[i] = log[i])
    BY DEF ServerChange, ListInv, TypeOK, SyncType
  <2>3. syncTok \in Int /\ since \in Int /\ Due \in Int /\ Due <= Len(log)
    BY <2>1 DEF ListInv, TypeOK, SyncType, Version, Fresh, WithinLog, Due
  <2>4. \A v \in Users : devices[v] \in Int
    BY DEF ListInv, TypeOK, ListType, Version
  <2>5. WithinLog'
    BY <2>1, <2>2, <2>3, <2>4 DEF Fresh, WithinLog
  <2>6. ASSUME NEW v \in Users, NEW n \in Version, Covers(v, n) PROVE Covers(v, n)'
    BY <2>1, <2>2, <2>3, <2>6 DEF Covers
  <2>7. \A v \in Users : tracking'[v] = "UpToDate" => Covers(v, devices[v])'
    BY <2>1, <2>6 DEF Fresh, ListInv, TypeOK, ListType
  <2>8. ASSUME NEW d \in active, NEW v \in d.users PROVE AnswerIsNewer(d, v)'
    <3>1. v \in Users /\ d.got[v] \in Version /\ d.got[v] \in Int
      BY TheDownload DEF Version
    <3>2. AnswerIsNewer(d, v)
      BY <2>1 DEF Fresh
    <3> QED BY <2>1, <2>2, <2>6, <3>1, <3>2 DEF AnswerIsNewer
  <2> QED BY <2>1, <2>5, <2>7, <2>8 DEF Fresh
<1>6. SaveIsAwaited'
  BY DEF ServerChange, ListInv, SaveIsAwaited
<1> QED BY <1>1, <1>2, <1>3, <1>4, <1>5, <1>6 DEF ListInv, TypeOK

\* The client is reloaded.
LEMMA LoadInv == ASSUME ListInv, load PROVE ListInv'
<1>1. SyncType'
  BY Troubles DEF load, ListInv, TypeOK, SyncType, SaveType, Version
<1>2. ListType'
  BY DEF load, Loaded, ListInv, TypeOK, ListType, SaveType, Snapshot
<1>3. SaveType'
  <2>1. <<>> \in Seq([data : Snapshot, wait : BOOLEAN])
    OBVIOUS
  <2> QED BY <2>1 DEF load, ListInv, TypeOK, SaveType
<1>4. NoOrphanDownload' /\ OneDownload'
  BY DEF load, Loaded, Trouble, ListInv, TypeOK, ListType, Download, NoOrphanDownload,
         OneDownload
<1>5. ~Smooth'
  BY Troubles DEF load, ListInv, TypeOK
<1>6. SaveIsAwaited'
  BY DEF load, ListInv, SaveIsAwaited
<1> QED BY <1>1, <1>2, <1>3, <1>4, <1>5, <1>6 DEF ListInv, TypeOK

\* doKeyDownload: the users are in a query that has not been answered, or wait
\* for the next one, on a tracking status in which more users may be pending.
LEMMA KeyDownloadKeeps ==
  ASSUME ListInv, NEW us \in SUBSET Users, NEW st \in [Users -> TrackingStatus],
         doKeyDownload(us, st), Due' = Due,
         \A u \in Users : st[u] = tracking[u] \/ st[u] = "PendingDownload",
         UNCHANGED <<log, since, syncTok, devices, used>>
  PROVE  /\ ListType' /\ NoOrphanDownload' /\ OneDownload'
         /\ Smooth' => Fresh'
<1>1. CASE us = {}
  <2>1. tracking' = st /\ UNCHANGED <<inProgress, active, queued>>
    BY <1>1 DEF doKeyDownload
  <2>2. ListType'
    BY <2>1 DEF ListInv, TypeOK, ListType
  <2>3. NoOrphanDownload' /\ OneDownload'
    BY <2>1 DEF ListInv, NoOrphanDownload, OneDownload
  <2>4. ASSUME Smooth' PROVE Fresh'
    BY <2>1, <2>4, TheDownload DEF ListInv, Smooth, Fresh, WithinLog, Covers, AnswerIsNewer
  <2> QED BY <2>2, <2>3, <2>4
<1>2. CASE us # {} /\ active = {}
  <2> DEFINE all == queued \cup us
             Moves(u) == u \in all /\ (u \in us \/ inProgress[u] = "queued")
  <2>1. /\ active' = {NewDownload(all)} /\ queued' = {} /\ all \subseteq Users
        /\ inProgress' = [u \in Users |-> IF Moves(u) THEN "active" ELSE inProgress[u]]
        /\ tracking' = [u \in Users |-> IF u \in us /\ st[u] = "PendingDownload"
                                        THEN "DownloadInProgress" ELSE st[u]]
    BY <1>2 DEF doKeyDownload, updateDevicesForUsers, ListInv, TypeOK, ListType
  <2>2. NewDownload(all) \in Download
    BY <2>1 DEF NewDownload, Download, Version
  <2>3. ListType'
    BY <2>1, <2>2 DEF ListInv, TypeOK, ListType
  <2>4. \A u \in Users : inProgress[u] # "active"
    BY <1>2 DEF ListInv, NoOrphanDownload
  <2>5. \A u \in Users : /\ inProgress'[u] \in {"none", "active"}
                         /\ inProgress'[u] = "active" => u \in all
                         /\ inProgress[u] = "queued" => inProgress'[u] = "active"
    BY <2>1, <2>4 DEF ListInv, TypeOK, ListType, NoOrphanDownload
  <2>6. \A u \in Users : tracking'[u] = "DownloadInProgress" => inProgress'[u] = "active"
    BY <2>1, <2>4, <2>5 DEF ListInv, TypeOK, ListType, NoOrphanDownload
  <2>7. NoOrphanDownload' /\ OneDownload'
    BY <2>1, <2>5, <2>6 DEF NoOrphanDownload, OneDownload, NewDownload
  <2>8. ASSUME Smooth' PROVE Fresh'
    <3>1. Fresh
      BY <2>8 DEF ListInv, Smooth
    <3>2. \A u \in Users : tracking'[u] = "UpToDate" => tracking[u] = "UpToDate"
      BY <2>1
    <3>3. \A d \in active' : \A u \in d.users : AnswerIsNewer(d, u)'
      BY <2>1 DEF AnswerIsNewer, NewDownload
    <3> QED BY <3>1, <3>2, <3>3 DEF Fresh, WithinLog, Covers
  <2> QED BY <2>3, <2>7, <2>8
<1>3. CASE us # {} /\ active # {}
  <2>1. /\ active' = active /\ queued' = queued \cup us
        /\ inProgress' = [u \in Users |-> IF u \in us THEN "queued" ELSE inProgress[u]]
        /\ tracking' = [u \in Users |-> IF u \in us /\ st[u] = "PendingDownload"
                                        THEN "DownloadInProgress" ELSE st[u]]
    BY <1>3 DEF doKeyDownload, updateDevicesForUsers
  <2>2. ListType'
    BY <2>1 DEF ListInv, TypeOK, ListType
  <2>3. NoOrphanDownload' /\ OneDownload'
    BY <2>1 DEF ListInv, TypeOK, ListType, NoOrphanDownload, OneDownload
  <2>4. ASSUME Smooth' PROVE Fresh'
    <3>1. Fresh
      BY <2>4 DEF ListInv, Smooth
    <3>2. \A u \in Users : /\ tracking'[u] = "UpToDate" => tracking[u] = "UpToDate"
                           /\ tracking'[u] = "DownloadInProgress" /\ inProgress'[u] = "active"
                                => tracking[u] = "DownloadInProgress" /\ inProgress[u] = "active"
      BY <2>1
    <3>3. ASSUME NEW d \in active, NEW u \in d.users PROVE AnswerIsNewer(d, u)'
      BY <3>1, <3>2, TheDownload DEF Fresh, AnswerIsNewer, Covers
    <3> QED BY <2>1, <3>1, <3>2, <3>3 DEF Fresh, WithinLog, Covers
  <2> QED BY <2>2, <2>3, <2>4
<1> QED BY <1>1, <1>2, <1>3

\* downloadKeys.
LEMMA DownloadKeysInv ==
  ASSUME ListInv, NEW us \in SUBSET Users, NEW force \in BOOLEAN, downloadKeys(us, force)
  PROVE  ListInv'
<1>1. PICK batch \in SUBSET Users : doKeyDownload(batch, tracking)
  BY DEF downloadKeys
<1>2. Due' = Due /\ UNCHANGED <<log, syncVars, devices, saveVars, used>>
  BY DEF downloadKeys, Due
<1>3. tracking \in [Users -> TrackingStatus]
  BY DEF ListInv, TypeOK, ListType
<1>4. ListType' /\ NoOrphanDownload' /\ OneDownload' /\ (Smooth' => Fresh')
  BY <1>1, <1>2, <1>3, KeyDownloadKeeps
<1>5. SyncType' /\ SaveType' /\ SaveIsAwaited'
  BY <1>2 DEF ListInv, TypeOK, SyncType, SaveType, SaveIsAwaited
<1> QED BY <1>4, <1>5 DEF ListInv, TypeOK

\* onSyncCompleted.
LEMMA CompletedInv == ASSUME ListInv, onSyncCompleted PROVE ListInv'
<1> DEFINE st == startTrackingDeviceList(tracking, {Own})
           outdated == {u \in Users : st[u] = "PendingDownload"}
<1>1. /\ st \in [Users -> TrackingStatus] /\ outdated \in SUBSET Users
      /\ \A u \in Users : st[u] = tracking[u] \/ st[u] = "PendingDownload"
  BY DEF startTrackingDeviceList, ListInv, TypeOK, ListType
<1>2. /\ doKeyDownload(outdated, st)
      /\ Due' = Due /\ UNCHANGED <<log, since, syncTok, devices, used>>
  BY DEF onSyncCompleted, Due
<1> HIDE DEF st, outdated
<1>3. ListType' /\ NoOrphanDownload' /\ OneDownload' /\ (Smooth' => Fresh')
  BY <1>1, <1>2, KeyDownloadKeeps
<1>4. SyncType' /\ SaveType' /\ SaveIsAwaited'
  BY DEF onSyncCompleted, ListInv, TypeOK, SyncType, SaveType, SaveIsAwaited
<1> QED BY <1>3, <1>4 DEF ListInv, TypeOK

\* Nothing is tracked at first.
LEMMA InitInv == ASSUME Init PROVE ListInv
<1>1. SyncType
  BY DEF Init, SyncType, Version
<1>2. ListType
  BY DEF Init, ListType, Version
<1>3. SaveType
  <2>1. <<>> \in Seq([data : Snapshot, wait : BOOLEAN])
    OBVIOUS
  <2> QED BY <2>1 DEF Init, SaveType, Snapshot, Version
<1>4. NoOrphanDownload /\ OneDownload /\ SaveIsAwaited
  BY DEF Init, NoOrphanDownload, OneDownload, SaveIsAwaited
<1>5. Fresh
  BY DEF Init, Fresh, WithinLog, Covers
<1> QED BY <1>1, <1>2, <1>3, <1>4, <1>5 DEF ListInv, TypeOK

\* Every step keeps the invariant.
LEMMA NextInv == ASSUME ListInv, [Next]_vars PROVE ListInv'
<1>1. CASE UNCHANGED vars
  <2>1. TypeOK'
    BY <1>1 DEF vars, ListInv, TypeOK, SyncType, ListType, SaveType
  <2>2. NoOrphanDownload' /\ OneDownload' /\ SaveIsAwaited'
    BY <1>1 DEF vars, ListInv, NoOrphanDownload, OneDownload, SaveIsAwaited
  <2>3. Smooth' => Fresh'
    BY <1>1 DEF vars, ListInv, Smooth, Fresh, WithinLog, Covers, AnswerIsNewer, Due
  <2> QED BY <2>1, <2>2, <2>3 DEF ListInv
<1>2. CASE Next
  BY <1>2, TrackInv, ServerInv, DownloadKeysInv, AnswerInv, ProcessInv, SucceedsInv, FailsInv,
     ResponseInv, ChangesInv, BarfsInv, StopTrackingInv, CompletedInv, SaveInv, SaveTimerInv,
     StoreDoneInv, LoadInv DEF Next
<1> QED BY <1>1, <1>2

\* The invariant holds throughout.
THEOREM ListInvHolds == Spec => []ListInv
BY InitInv, NextInv, PTL DEF Spec

\* A list that is marked up to date has every change that a processed /sync
\* announced, and one that is marked as being downloaded is in a download, for
\* any number of users, whatever syncs, queries, saves and reloads interleave.
THEOREM ListsSound == Spec => []ListsAreSound
<1>1. ASSUME ListInv PROVE ListsAreSound
  <2>1. ASSUME Smooth PROVE FreshAsOf(tracking, devices, Handled)
    <3>1. Handled = Due \/ Handled = None
      BY DEF Handled, Due
    <3>2. \A i \in DOMAIN log : i > None
      BY <1>1 DEF ListInv, TypeOK, SyncType
    <3>3. \A u \in Users : tracking[u] = "UpToDate" => Covers(u, devices[u])
      BY <1>1, <2>1 DEF ListInv, Fresh
    <3> QED BY <1>1, <3>1, <3>2, <3>3 DEF FreshAsOf, Covers, ListInv, TypeOK, SyncType
  <2> QED BY <1>1, <2>1 DEF ListInv, ListsAreSound, UpToDateIsFresh
<1> QED BY <1>1, ListInvHolds, PTL

\* The devices of a user are never replaced by those of an earlier query.
THEOREM DevicesOnlyAdvance == Spec => DevicesAdvance
<1>1. ASSUME ListInv, [Next]_vars
      PROVE  [Smooth' => \A u \in Users : devices'[u] >= devices[u]]_vars
  <2> SUFFICES ASSUME Smooth', NEW u \in Users PROVE devices'[u] >= devices[u]
    OBVIOUS
  <2>1. devices[u] \in Int
    BY <1>1 DEF ListInv, TypeOK, ListType, Version
  <2>2. CASE UNCHANGED devices
    BY <2>1, <2>2
  <2>3. ASSUME NEW d \in active, NEW v \in Users, processQueryResponseForUser(d, v)
        PROVE  devices'[u] >= devices[u]
    <3>1. d.asked = {} /\ v \in d.users /\ Smooth
      <4>1. Smooth
        BY <1>1, <2>3, Troubles DEF processQueryResponseForUser, ListInv, TypeOK, Smooth
      <4> QED BY <1>1, <2>3, <4>1, TheDownload DEF processQueryResponseForUser
    <3>2. devices[v] <= d.got[v]
      BY <1>1, <3>1 DEF ListInv, Fresh, AnswerIsNewer
    <3>3. CASE devices' = [devices EXCEPT ![v] = d.got[v]]
      BY <1>1, <2>1, <3>2, <3>3, TheDownload DEF ListInv, TypeOK, ListType, Version
    <3> QED BY <2>1, <2>2, <2>3, <3>3 DEF processQueryResponseForUser
  <2>4. CASE load
    BY <1>1, <2>4, Troubles DEF load, ListInv, TypeOK
  <2> QED
    BY <1>1, <2>2, <2>3, <2>4 DEF Next, vars, trackUser, ServerChange, downloadKeys,
       KeyQueryAnswer, DownloadSucceeds, DownloadFails, SyncResponse, handleDeviceListChanges,
       SyncBarfs, stopTracking, onSyncCompleted, SyncSave, SaveTimer, StoreDone
<1> QED BY <1>1, ListInvHolds, PTL DEF Spec, DevicesAdvance
=============================================================================
