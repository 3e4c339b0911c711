------------------------ MODULE P2PNegotiation_proof ------------------------
(***************************************************************************)
(* Proofs about P2PNegotiation, for every set of publications and every    *)
(* number of starts, ICE restarts and lost messages: at rest the receiver  *)
(* knows exactly what is wanted, a track comes after its information, and  *)
(* an answer is taken for another one's only after an ICE restart.         *)
(*                                                                         *)
(* The invariant says what the receiver will know of a publication when it *)
(* has handled what is under way: by the last message about it.  The       *)
(* queues are not unrolled; what the i-th message finds is said of the     *)
(* messages up to it.                                                      *)
(***************************************************************************)
EXTENDS P2PNegotiation, SequenceTheorems, WellFoundedInduction, TLAPS

\* The message gives or takes the m-line of p.
About(msg, p) == msg.kind # "restartIce" /\ msg.pub = p

\* The receiver's information about p is m when it has handled the first i messages of q.
Book(info, q, i, p, m) ==
    \/ info[p] = m /\ \A k \in 1..i : ~About(q[k], p)
    \/ \E j \in 1..i : /\ About(q[j], p) /\ q[j].mid = m
                       /\ \A k \in (j + 1)..i : ~About(q[k], p)

\* ... and when it has handled what the sender s is about to send as well.
Promised(s, info, q, p, m) ==
    IF s.offering # <<>> /\ s.offering[1].pub = p THEN s.offering[1].mid = m
    ELSE Book(info, q, Len(q), p, m)

\* An m-line has a number of its own.
DistinctLines(s) ==
    /\ \A i, j \in 1..Len(s.mlines) : s.mlines[i].mid = s.mlines[j].mid => i = j
    /\ \A i \in 1..Len(s.mlines) : s.mlines[i].mid <= s.made

\* What takes an m-line names none.
NamesNoMid(q) == \A i \in 1..Len(q) : q[i].kind = "unproduce" => q[i].mid = NoMid

\* One add or remove awaits, before anything is offered.
OneAwaits(s) ==
    s.offering # <<>> => /\ Len(s.offering) = 1 /\ ~s.offering[1].stale
                         /\ s.isNegotiating /\ s.signalingState = "stable"

SenderInv ==
    /\ DistinctLines(sender)
    /\ NamesNoMid(sender.offering) /\ NamesNoMid(toReceiver)
    /\ sender.signalingState = "closed" => sender.offering = <<>>
    /\ ~raced => OneAwaits(sender)

\* Without ICE restarts there is one offer under way, or its answer.
UnderWay == Len(sender.offering) + Len(toReceiver) + Len(toSender)

OneExchange ==
    restarts = 0 =>
        /\ ~raced /\ ~crossed
        /\ UnderWay <= 1 /\ (UnderWay = 1 => sender.isNegotiating)
        /\ \A i \in 1..Len(toReceiver) : toReceiver[i].offer = sender.offer
        /\ \A i \in 1..Len(toSender) : toSender[i].offer = sender.offer

\* What is wanted is published or waits for a negotiation that is under way.
Waiting(s) == {s.pending[i].pub : i \in 1..Len(s.pending)}

Waits(s) ==
    /\ \A i \in 1..Len(s.pending) : s.pending[i].op = "add" /\ s.pending[i].pub \notin s.publications
    /\ \A i, j \in 1..Len(s.pending) : s.pending[i].pub = s.pending[j].pub => i = j
    /\ ~Busy(s) => s.pending = <<>>

PendingIsWanted ==
    ~raced /\ skippedStops = {} => Waits(sender) /\ wanted = sender.publications \cup Waiting(sender)

\* Nothing has happened that a message does not speak of.
Clean == ~raced /\ skippedStops = {} /\ refusedMids = {} /\ lost = 0 /\ ~receiver.closed

\* When an offer is handled its m-lines are known.
Announced(info, q) ==
    \A i \in 1..Len(q) : \A l \in ActiveLines(q[i].mlines) :
        l.pub # AppLine => Book(info, q, i, l.pub, l.mid)

\* The receiver will know what is published, each by its m-line.
Agreed(s, info, q, p) ==
    \E m \in 0..s.made :
       /\ Promised(s, info, q, p, m)
       /\ m # NoMid <=> p \in s.publications
       /\ p \in MediaPubs => LinesOf(s.mlines, p) = IF m = NoMid THEN {} ELSE {Line(m, p)}

BookInv ==
    Clean => /\ Announced(receiver.publicationInfo, toReceiver)
             /\ sender.signalingState # "closed" =>
                   \A p \in Pub : Agreed(sender, receiver.publicationInfo, toReceiver, p)

IInv == TypeOK /\ SenderInv /\ OneExchange /\ PendingIsWanted /\ BookInv /\ TracksAreKnown

-----------------------------------------------------------------------------
(* Session descriptions                                                    *)

LEMMA LineType == ASSUME NEW mid \in Mid, NEW p \in MediaPubs \cup {AppLine} PROVE Line(mid, p) \in MLine
BY DEF Line, MLine

LEMMA MidsType == ASSUME NEW ml \in Seq(MLine) PROVE Mids(ml) \in Seq(Mid)
<1>1. Len(ml) \in Nat /\ \A i \in 1..Len(ml) : ml[i] \in MLine
  BY ElementOfSeq, LenProperties
<1>2. \A i \in 1..Len(ml) : ml[i].mid \in Mid
  BY <1>1 DEF MLine
<1> QED BY <1>1, <1>2 DEF Mids

LEMMA LinesType ==
    ASSUME NEW ml \in Seq(MLine)
    PROVE  /\ ActiveLines(ml) = {ml[i] : i \in {j \in 1..Len(ml) : ml[j].active}}
           /\ ActiveLines(ml) \subseteq MLine
<1>1. DOMAIN ml = 1..Len(ml) /\ \A i \in 1..Len(ml) : ml[i] \in MLine
  BY ElementOfSeq
<1> QED BY <1>1 DEF ActiveLines, Range

\* The first of the inactive m-lines is one of them.
LEMMA FirstExists ==
    ASSUME NEW S \in SUBSET Nat, S # {}
    PROVE  (CHOOSE i \in S : \A j \in S : i <= j) \in S
<1> DEFINE R == {ss \in Nat \X Nat : ss[1] < ss[2]}
<1>1. IsWellFoundedOn(R, Nat)
  BY NatLessThanWellFounded DEF OpToRel
<1>2. PICK x \in S : \A y \in S : ~ (<<y, x>> \in R)
  <2> HIDE DEF R
  <2> QED BY <1>1, WFMin
<1>3. ASSUME NEW y \in S PROVE x <= y
  <2> DEFINE p == <<y, x>>
  <2>1. p \in Nat \X Nat /\ p[1] = y /\ p[2] = x /\ x \in Nat /\ y \in Nat
    OBVIOUS
  <2>2. y < x => p \in R
    BY ONLY <2>1 DEF R
  <2> QED BY <1>2, <2>1, <2>2
<1> QED BY <1>3

(***************************************************************************)
(* createOffer adds one m-line, in the place of an inactive one or at the  *)
(* end.                                                                    *)
(***************************************************************************)
LEMMA WithLineAdds ==
    ASSUME NEW s \in [mlines : Seq(MLine), made : Nat], DistinctLines(s),
           NEW line \in MLine, line.active, line.mid = s.made + 1
    PROVE  LET t == [mlines |-> WithLine(s.mlines, line), made |-> s.made + 1]
           IN  /\ t.mlines \in Seq(MLine)
               /\ DistinctLines(t)
               /\ ActiveLines(t.mlines) = ActiveLines(s.mlines) \cup {line}
<1> DEFINE ml == s.mlines
           n == Len(ml)
           stopped == {i \in 1..n : ~ml[i].active}
           k == IF stopped = {} THEN n + 1 ELSE CHOOSE i \in stopped : \A j \in stopped : i <= j
           new == WithLine(ml, line)
           t == [mlines |-> new, made |-> s.made + 1]
<1>1. n \in Nat /\ ml \in Seq(MLine) /\ \A i \in 1..n : ml[i] \in MLine
  BY ElementOfSeq, LenProperties
<1>2. /\ new \in Seq(MLine)
      /\ k \in 1..Len(new) /\ n <= Len(new) /\ \A i \in 1..Len(new) : i <= n \/ i = k
      /\ \A i \in 1..Len(new) : new[i] = IF i = k THEN line ELSE ml[i]
      /\ k \in 1..n => ~ml[k].active
  <2>1. CASE stopped = {}
    <3>1. new = Append(ml, line)
      BY <2>1 DEF WithLine
    <3>2. /\ new \in Seq(MLine) /\ Len(new) = n + 1 /\ new[n + 1] = line
          /\ \A i \in 1..n : new[i] = ml[i]
      BY <1>1, <3>1, AppendProperties
    <3> QED BY <1>1, <2>1, <3>2
  <2>2. CASE stopped # {}
    <3>1. k \in stopped
      <4>1. stopped \in SUBSET Nat
        OBVIOUS
      <4> HIDE DEF stopped
      <4>2. k = CHOOSE i \in stopped : \A j \in stopped : i <= j
        BY <2>2
      <4> HIDE DEF k
      <4> QED BY <2>2, <4>1, <4>2, FirstExists
    <3>2. new = [ml EXCEPT ![k] = line]
      BY <2>2 DEF WithLine
    <3> HIDE DEF k, new
    <3>3. k \in 1..n /\ ~ml[k].active
      BY <3>1
    <3>4. /\ new \in Seq(MLine) /\ Len(new) = n
          /\ \A i \in 1..n : new[i] = IF i = k THEN line ELSE ml[i]
      BY <1>1, <3>2, <3>3, ExceptSeq
    <3> QED BY <1>1, <3>3, <3>4
  <2> QED BY <2>1, <2>2
<1> HIDE DEF k, new
<1>3. DistinctLines(t)
  <2>1. \A i \in 1..n : ml[i].mid \in Nat /\ ml[i].mid <= s.made
    BY <1>1 DEF DistinctLines, MLine, Mid
  <2>2. \A i, j \in 1..n : ml[i].mid = ml[j].mid => i = j
    BY DEF DistinctLines
  <2>3. \A i \in 1..Len(new) : new[i].mid = IF i = k THEN s.made + 1 ELSE ml[i].mid
    BY <1>1, <1>2
  <2>4. t.mlines = new /\ t.made = s.made + 1 /\ s.made \in Nat
    OBVIOUS
  <2> HIDE DEF t
  <2>5. \A i \in 1..Len(new) : new[i].mid <= s.made + 1
    BY <1>2, <2>1, <2>3, <2>4
  <2>6. \A i, j \in 1..Len(new) : new[i].mid = new[j].mid => i = j
    <3> SUFFICES ASSUME NEW i \in 1..Len(new), NEW j \in 1..Len(new), new[i].mid = new[j].mid PROVE i = j
      OBVIOUS
    <3>1. CASE i # k /\ j # k
      BY <1>2, <2>2, <2>3, <3>1
    <3>2. CASE i = k /\ j # k
      <4>1. j \in 1..n /\ ml[j].mid \in Nat /\ ml[j].mid <= s.made /\ s.made + 1 = ml[j].mid
        BY <1>2, <2>1, <2>3, <3>2
      <4> QED BY <2>4, <4>1
    <3>3. CASE i # k /\ j = k
      <4>1. i \in 1..n /\ ml[i].mid \in Nat /\ ml[i].mid <= s.made /\ s.made + 1 = ml[i].mid
        BY <1>2, <2>1, <2>3, <3>3
      <4> QED BY <2>4, <4>1
    <3> QED BY <3>1, <3>2, <3>3
  <2> QED BY <2>4, <2>5, <2>6 DEF DistinctLines
<1>4. ActiveLines(new) = ActiveLines(ml) \cup {line}
  <2>1. ActiveLines(ml) = {ml[i] : i \in {j \in 1..n : ml[j].active}}
    BY <1>1, LinesType
  <2>2. ActiveLines(new) = {new[i] : i \in {j \in 1..Len(new) : new[j].active}}
    BY <1>2, LinesType
  <2>3. \A l \in ActiveLines(new) : l \in ActiveLines(ml) \/ l = line
    BY <1>1, <1>2, <2>1, <2>2
  <2>4. line \in ActiveLines(new)
    BY <1>2, <2>2
  <2>5. \A i \in 1..n : ml[i].active => i \in 1..Len(new) /\ new[i] = ml[i]
    BY <1>1, <1>2
  <2>6. ActiveLines(ml) \subseteq ActiveLines(new)
    BY <2>1, <2>2, <2>5
  <2> QED BY <2>3, <2>4, <2>6
<1> QED BY <1>2, <1>3, <1>4 DEF new

(***************************************************************************)
(* A stopped transceiver takes the activity of its m-line, and no more.    *)
(***************************************************************************)
LEMMA WithoutLineStops ==
    ASSUME NEW ml \in Seq(MLine), NEW mid
    PROVE  LET new == WithoutLine(ml, mid)
           IN  /\ new \in Seq(MLine)
               /\ Len(new) = Len(ml) /\ \A i \in 1..Len(new) : new[i].mid = ml[i].mid
               /\ ActiveLines(new) = {l \in ActiveLines(ml) : l.mid # mid}
<1> DEFINE n == Len(ml)
           new == WithoutLine(ml, mid)
<1>1. n \in Nat /\ ml \in Seq(MLine) /\ \A i \in 1..n : ml[i] \in MLine
  BY ElementOfSeq, LenProperties
<1>2. \A i \in 1..n : [ml[i] EXCEPT !.active = FALSE] \in MLine
  BY <1>1 DEF MLine
<1>3. \A i \in 1..n : /\ new[i] = IF ml[i].mid = mid THEN [ml[i] EXCEPT !.active = FALSE] ELSE ml[i]
                      /\ new[i] \in MLine
  BY <1>1, <1>2 DEF WithoutLine
<1>4. new \in Seq(MLine) /\ Len(new) = n
  BY <1>1, <1>2 DEF WithoutLine
<1>5. \A i \in 1..n : /\ new[i].mid = ml[i].mid
                      /\ new[i].active <=> ml[i].active /\ ml[i].mid # mid
                      /\ new[i].active => new[i] = ml[i]
  BY <1>1, <1>3 DEF MLine
<1> HIDE DEF new
<1>6. ActiveLines(new) = {l \in ActiveLines(ml) : l.mid # mid}
  <2>1. ActiveLines(ml) = {ml[i] : i \in {j \in 1..n : ml[j].active}}
    BY <1>1, LinesType
  <2>2. ActiveLines(new) = {new[i] : i \in {j \in 1..n : new[j].active}}
    BY <1>4, LinesType
  <2> QED BY <1>5, <2>1, <2>2
<1> QED BY <1>4, <1>5, <1>6 DEF new

-----------------------------------------------------------------------------
(* The sender                                                              *)

LEMMA SenderUpdate ==
    ASSUME NEW s \in SenderType
    PROVE  /\ \A ps \in SUBSET Pub : [s EXCEPT !.publications = ps] \in SenderType
           /\ \A ps \in SUBSET DataPubs : [s EXCEPT !.opening = ps] \in SenderType
           /\ \A q \in Seq(PendingOp) : [s EXCEPT !.pending = q] \in SenderType
           /\ \A b \in BOOLEAN : [s EXCEPT !.isNegotiating = b] \in SenderType
           /\ \A st \in {"stable", "have-local-offer", "closed"} : [s EXCEPT !.signalingState = st] \in SenderType
           /\ \A q \in Seq(AwaitingOp) : [s EXCEPT !.offering = q] \in SenderType
           /\ \A q \in Seq(MLine) : [s EXCEPT !.mlines = q] \in SenderType /\ [s EXCEPT !.local = q] \in SenderType
           /\ \A n \in Nat : [s EXCEPT !.made = n] \in SenderType /\ [s EXCEPT !.offer = n] \in SenderType
           /\ \A ms \in SUBSET Mid : [s EXCEPT !.answered = ms] \in SenderType
BY DEF SenderType

LEMMA SenderFields ==
    ASSUME NEW s \in SenderType
    PROVE  /\ s.publications \in SUBSET Pub /\ s.opening \in SUBSET DataPubs /\ s.pending \in Seq(PendingOp)
           /\ s.isNegotiating \in BOOLEAN /\ s.signalingState \in {"stable", "have-local-offer", "closed"}
           /\ s.offering \in Seq(AwaitingOp) /\ s.mlines \in Seq(MLine) /\ s.local \in Seq(MLine)
           /\ s.made \in Nat /\ s.offer \in Nat /\ s.answered \in SUBSET Mid
BY DEF SenderType

\* What an add or remove leaves alone until it offers.
SameOffers(s, t) == /\ t.signalingState = s.signalingState /\ t.offer = s.offer
                    /\ t.local = s.local /\ t.answered = s.answered

(***************************************************************************)
(* createDataChannel and addTransceiver give p an m-line.                  *)
(***************************************************************************)
LEMMA WithPublicationAdds ==
    ASSUME NEW s \in SenderType, DistinctLines(s), NEW p \in Pub
    PROVE  LET t == WithPublication(s, p)
               m == midFor(s, p)
           IN  /\ t \in SenderType /\ DistinctLines(t)
               /\ m \in 1..t.made /\ s.made <= t.made
               /\ SameOffers(s, t)
               /\ t.publications = s.publications /\ t.opening = s.opening /\ t.pending = s.pending
               /\ t.isNegotiating = s.isNegotiating /\ t.offering = s.offering
               /\ \A q \in MediaPubs : LinesOf(t.mlines, q) =
                     LinesOf(s.mlines, q) \cup (IF q = p THEN {Line(m, p)} ELSE {})
<1> DEFINE t == WithPublication(s, p)
           m == midFor(s, p)
           name == IF p \in MediaPubs THEN p ELSE AppLine
           line == Line(m, name)
<1>1. /\ s.mlines \in Seq(MLine) /\ s.made \in Nat
      /\ ActiveLines(s.mlines) \subseteq MLine
      /\ \A l \in Range(s.mlines) : l \in MLine /\ l.mid <= s.made
  <2>1. s.mlines \in Seq(MLine) /\ s.made \in Nat
    BY SenderFields
  <2>2. DOMAIN s.mlines = 1..Len(s.mlines) /\ \A i \in 1..Len(s.mlines) : s.mlines[i] \in MLine
    BY <2>1, ElementOfSeq, LenProperties
  <2> QED BY <2>1, <2>2, LinesType DEF Range, DistinctLines
<1>2. name \in MediaPubs \cup {AppLine} /\ (p \in DataPubs <=> name = AppLine)
  BY PubsAreDisjoint DEF Pub
<1>3. CASE p \in DataPubs /\ LinesOf(s.mlines, AppLine) # {}
  <2> DEFINE l == CHOOSE k \in LinesOf(s.mlines, AppLine) : TRUE
  <2>1. l \in LinesOf(s.mlines, AppLine) /\ m = l.mid
    BY <1>3 DEF midFor
  <2>2. l \in Range(s.mlines) /\ l \in MLine /\ l.pub = AppLine /\ l.active
    BY <1>1, <2>1 DEF LinesOf, ActiveLines
  <2>3. line = l
    BY <1>2, <1>3, <2>1, <2>2 DEF Line, MLine
  <2>4. t = s
    BY <2>2, <2>3 DEF WithPublication
  <2>5. m \in 1..s.made
    BY <1>1, <2>1, <2>2 DEF MLine, Mid, NoMid
  <2>6. p \notin MediaPubs
    BY <1>3, PubsAreDisjoint
  <2> QED BY <1>1, <2>4, <2>5, <2>6 DEF SameOffers
<1>4. CASE ~(p \in DataPubs /\ LinesOf(s.mlines, AppLine) # {})
  <2>1. m = s.made + 1 /\ m \in Mid
    BY <1>1, <1>4 DEF midFor, Mid, NoMid
  <2>2. line \in MLine /\ line.mid = s.made + 1 /\ line.active /\ line.pub = name
    BY <1>2, <2>1, LineType DEF Line
  <2>3. line \notin Range(s.mlines)
    BY <1>1, <2>2
  <2> DEFINE r == [mlines |-> s.mlines, made |-> s.made]
             new == WithLine(s.mlines, line)
             u == [s EXCEPT !.mlines = new]
             v == [u EXCEPT !.made = s.made + 1]
  <2>4. t = v
    BY <2>3 DEF WithPublication, SenderType
  <2>5. r \in [mlines : Seq(MLine), made : Nat] /\ DistinctLines(r)
    BY <1>1 DEF DistinctLines
  <2>6. /\ new \in Seq(MLine)
        /\ DistinctLines([mlines |-> new, made |-> s.made + 1])
        /\ ActiveLines(new) = ActiveLines(s.mlines) \cup {line}
    <3>1. r.mlines = s.mlines /\ r.made = s.made
      OBVIOUS
    <3> HIDE DEF r, line
    <3> QED BY <2>2, <2>5, <3>1, WithLineAdds
  <2> HIDE DEF new
  <2>7. v \in SenderType
    <3>1. u \in SenderType
      BY <2>6, SenderUpdate
    <3>2. s.made + 1 \in Nat
      BY <1>1
    <3> HIDE DEF u
    <3> QED BY <3>1, <3>2, SenderUpdate
  <2>8. /\ v.mlines = new /\ v.made = s.made + 1
        /\ v.publications = s.publications /\ v.opening = s.opening /\ v.pending = s.pending
        /\ v.isNegotiating = s.isNegotiating /\ v.offering = s.offering /\ SameOffers(s, v)
    BY DEF SenderType, SameOffers
  <2> HIDE DEF v
  <2>9. DistinctLines(v)
    BY <2>6, <2>8 DEF DistinctLines
  <2>10. ASSUME NEW q \in MediaPubs
         PROVE  LinesOf(new, q) = LinesOf(s.mlines, q) \cup (IF q = p THEN {Line(m, p)} ELSE {})
    <3>1. q = name <=> q = p
      BY <1>2, PubsAreDisjoint
    <3> QED BY <2>2, <2>6, <3>1 DEF LinesOf
  <2> QED BY <1>1, <2>1, <2>4, <2>7, <2>8, <2>9, <2>10
<1> QED BY <1>3, <1>4

\* An operation that nothing has come between.
Op(kind, p, mid) == [kind |-> kind, pub |-> p, mid |-> mid, stale |-> FALSE]

(***************************************************************************)
(* Await holds the sender, and what it is to say.                          *)
(***************************************************************************)
LEMMA Awaits ==
    ASSUME NEW s \in SenderType, NEW kind \in {"produce", "unproduce"}, NEW p \in Pub, NEW mid \in Nat
    PROVE  LET t == Await(s, kind, p, mid)
           IN  /\ t \in SenderType /\ t.isNegotiating
               /\ t.offering = Append(s.offering, Op(kind, p, mid))
               /\ t.mlines = s.mlines /\ t.made = s.made /\ SameOffers(s, t)
               /\ t.publications = s.publications /\ t.pending = s.pending
<1> DEFINE op == Op(kind, p, mid)
           q == Append(s.offering, op)
           u == [s EXCEPT !.isNegotiating = TRUE]
           t == [u EXCEPT !.offering = q]
<1>1. op \in AwaitingOp
  BY DEF AwaitingOp, Op
<1>2. q \in Seq(AwaitingOp)
  BY <1>1, SenderFields, AppendProperties
<1>3. u \in SenderType
  BY SenderUpdate
<1>4. Await(s, kind, p, mid) = t
  BY DEF Await, SenderType, Op
<1> HIDE DEF q
<1>5. u.isNegotiating /\ u.mlines = s.mlines /\ u.made = s.made /\ SameOffers(s, u)
      /\ u.publications = s.publications /\ u.pending = s.pending /\ u.offering = s.offering
  BY DEF SenderType, SameOffers
<1> HIDE DEF u
<1>6. t \in SenderType
  BY <1>2, <1>3, SenderUpdate
<1>7. /\ t.offering = q /\ t.isNegotiating = u.isNegotiating /\ t.mlines = u.mlines /\ t.made = u.made
      /\ SameOffers(u, t) /\ t.publications = u.publications /\ t.pending = u.pending
  BY <1>3 DEF SenderType, SameOffers
<1> HIDE DEF t
<1> QED BY <1>4, <1>5, <1>6, <1>7 DEF SameOffers, q

\* An add or remove has been started: t is s with the operation op that awaits.
Started(s, t, op, ps) ==
    /\ t.isNegotiating /\ SameOffers(s, t) /\ t.pending = s.pending
    /\ t.publications = ps
    /\ s.made <= t.made /\ op.mid <= t.made
    /\ t.offering = Append(s.offering, op)

(***************************************************************************)
(* add queues the publication during a negotiation, else it starts one.    *)
(***************************************************************************)
LEMMA AddQueues ==
    ASSUME NEW s \in SenderType, NEW p \in Pub, Busy(s)
    PROVE  LET t == add(s, p)
           IN  /\ t \in SenderType /\ SameOffers(s, t)
               /\ t.pending = Append(s.pending, [op |-> "add", pub |-> p])
               /\ t.publications = s.publications /\ t.isNegotiating = s.isNegotiating
               /\ t.offering = s.offering /\ t.mlines = s.mlines /\ t.made = s.made
<1> DEFINE q == Append(s.pending, [op |-> "add", pub |-> p])
           t == [s EXCEPT !.pending = q]
<1>1. [op |-> "add", pub |-> p] \in PendingOp
  BY DEF PendingOp
<1>2. q \in Seq(PendingOp)
  BY <1>1, SenderFields, AppendProperties
<1>3. add(s, p) = t
  BY DEF add
<1>4. t \in SenderType
  <2> HIDE DEF q
  <2> QED BY <1>2, SenderUpdate
<1>5. /\ t.pending = q /\ SameOffers(s, t) /\ t.publications = s.publications /\ t.isNegotiating = s.isNegotiating
      /\ t.offering = s.offering /\ t.mlines = s.mlines /\ t.made = s.made
  BY DEF SameOffers, SenderType
<1> QED BY <1>3, <1>4, <1>5

LEMMA AddStarts ==
    ASSUME NEW s \in SenderType, NEW p \in Pub, DistinctLines(s), ~Busy(s)
    PROVE  LET t == add(s, p)
           IN  /\ t \in SenderType /\ DistinctLines(t)
               /\ midFor(s, p) \in Mid
               /\ Started(s, t, Op("produce", p, midFor(s, p)), s.publications \cup {p})
               /\ \A q \in MediaPubs : LinesOf(t.mlines, q) =
                     LinesOf(s.mlines, q) \cup (IF q = p THEN {Line(midFor(s, p), p)} ELSE {})
<1> DEFINE w == WithPublication(s, p)
           m == midFor(s, p)
           u == [w EXCEPT !.publications = w.publications \cup {p}]
           v == [u EXCEPT !.opening = u.opening \cup ({p} \cap DataPubs)]
           t == Await(v, "produce", p, m)
<1>1. /\ w \in SenderType /\ DistinctLines(w)
      /\ m \in 1..w.made /\ s.made <= w.made
      /\ SameOffers(s, w)
      /\ w.publications = s.publications /\ w.opening = s.opening /\ w.pending = s.pending
      /\ w.isNegotiating = s.isNegotiating /\ w.offering = s.offering
      /\ \A q \in MediaPubs : LinesOf(w.mlines, q) =
            LinesOf(s.mlines, q) \cup (IF q = p THEN {Line(m, p)} ELSE {})
  BY WithPublicationAdds
<1>2. add(s, p) = t
  BY <1>1 DEF add, SenderType
<1> HIDE DEF w, m
<1>3. u \in SenderType
  BY <1>1, SenderFields, SenderUpdate
<1>4. /\ u.publications = w.publications \cup {p} /\ SameOffers(w, u) /\ u.pending = w.pending
      /\ u.offering = w.offering /\ u.mlines = w.mlines /\ u.made = w.made
  BY <1>1 DEF SenderType, SameOffers
<1> HIDE DEF u
<1>5. v \in SenderType
  BY <1>3, SenderFields, SenderUpdate
<1>6. /\ v.publications = u.publications /\ SameOffers(u, v) /\ v.pending = u.pending
      /\ v.offering = u.offering /\ v.mlines = u.mlines /\ v.made = u.made
  BY <1>3 DEF SenderType, SameOffers
<1> HIDE DEF v
<1>7. m \in Nat /\ w.made \in Nat
  BY <1>1, SenderFields
<1>8. /\ t \in SenderType /\ t.isNegotiating
      /\ t.offering = Append(v.offering, Op("produce", p, m))
      /\ t.mlines = v.mlines /\ t.made = v.made /\ SameOffers(v, t)
      /\ t.publications = v.publications /\ t.pending = v.pending
  BY <1>5, <1>7, Awaits
<1> HIDE DEF t
<1>9. DistinctLines(t)
  BY <1>1, <1>4, <1>6, <1>8 DEF DistinctLines
<1>10. Started(s, t, Op("produce", p, m), s.publications \cup {p})
  <2>1. /\ SameOffers(s, t) /\ t.pending = s.pending /\ t.publications = s.publications \cup {p}
        /\ s.made <= t.made /\ m <= t.made /\ t.offering = Append(s.offering, Op("produce", p, m))
    BY <1>1, <1>4, <1>6, <1>7, <1>8 DEF SameOffers
  <2> QED BY <1>8, <2>1 DEF Started, Op
<1>11. t.mlines = w.mlines /\ m \in Mid
  BY <1>1, <1>4, <1>6, <1>7, <1>8 DEF Mid, NoMid
<1> QED BY <1>1, <1>2, <1>8, <1>9, <1>10, <1>11 DEF m

(***************************************************************************)
(* remove forgets the publication at once, and its m-line when no          *)
(* negotiation is under way.                                               *)
(***************************************************************************)
LEMMA RemoveQueues ==
    ASSUME NEW s \in SenderType, NEW p \in s.publications, Busy(s)
    PROVE  LET t == remove(s, p)
           IN  /\ t \in SenderType /\ SameOffers(s, t) /\ t.isNegotiating = s.isNegotiating
               /\ t.publications = s.publications \ {p}
               /\ t.offering = s.offering /\ t.mlines = s.mlines /\ t.made = s.made
<1> DEFINE u == [s EXCEPT !.publications = s.publications \ {p}]
           q == Append(s.pending, [op |-> "remove", pub |-> p])
           t == [u EXCEPT !.pending = q]
<1>1. p \in Pub
  BY SenderFields
<1>2. [op |-> "remove", pub |-> p] \in PendingOp
  BY <1>1 DEF PendingOp
<1>3. q \in Seq(PendingOp)
  BY <1>2, SenderFields, AppendProperties
<1>4. u \in SenderType
  BY SenderFields, SenderUpdate
<1>5. remove(s, p) = t
  BY DEF remove, SenderType
<1>6. /\ u.publications = s.publications \ {p} /\ SameOffers(s, u) /\ u.isNegotiating = s.isNegotiating
      /\ u.offering = s.offering /\ u.mlines = s.mlines /\ u.made = s.made
  BY DEF SenderType, SameOffers
<1> HIDE DEF u, q
<1>7. t \in SenderType
  BY <1>3, <1>4, SenderUpdate
<1>8. /\ t.publications = u.publications /\ SameOffers(u, t) /\ t.isNegotiating = u.isNegotiating
      /\ t.offering = u.offering /\ t.mlines = u.mlines /\ t.made = u.made
  BY <1>4 DEF SenderType, SameOffers
<1> HIDE DEF t
<1> QED BY <1>5, <1>6, <1>7, <1>8 DEF SameOffers

LEMMA WithoutPublicationStops ==
    ASSUME NEW s \in SenderType, DistinctLines(s), NEW p \in Pub
    PROVE  LET t == WithoutPublication(s, p)
           IN  /\ t \in SenderType /\ DistinctLines(t) /\ t.made = s.made
               /\ SameOffers(s, t) /\ t.publications = s.publications /\ t.pending = s.pending
               /\ t.isNegotiating = s.isNegotiating /\ t.offering = s.offering
               /\ p \in DataPubs => t.mlines = s.mlines
               /\ p \notin DataPubs => t.mlines = WithoutLine(s.mlines, transceiverMid(s, p))
<1> DEFINE t == WithoutPublication(s, p)
<1>1. CASE p \in DataPubs
  <2> DEFINE v == [s EXCEPT !.opening = s.opening \ {p}]
  <2>1. t = v
    BY <1>1 DEF WithoutPublication
  <2>2. v \in SenderType
    BY SenderFields, SenderUpdate
  <2>3. /\ v.made = s.made /\ v.mlines = s.mlines /\ SameOffers(s, v) /\ v.publications = s.publications
        /\ v.pending = s.pending /\ v.isNegotiating = s.isNegotiating /\ v.offering = s.offering
    BY DEF SenderType, SameOffers
  <2> QED BY <1>1, <2>1, <2>2, <2>3 DEF DistinctLines
<1>2. CASE p \notin DataPubs
  <2> DEFINE new == WithoutLine(s.mlines, transceiverMid(s, p))
             v == [s EXCEPT !.mlines = new]
  <2>1. t = v
    BY <1>2 DEF WithoutPublication, SenderType
  <2>2. s.mlines \in Seq(MLine)
    BY SenderFields
  <2>3. new \in Seq(MLine) /\ Len(new) = Len(s.mlines) /\ \A i \in 1..Len(new) : new[i].mid = s.mlines[i].mid
    BY <2>2, WithoutLineStops
  <2> HIDE DEF new
  <2>4. v \in SenderType
    BY <2>3, SenderUpdate
  <2>5. /\ v.made = s.made /\ v.mlines = new /\ SameOffers(s, v) /\ v.publications = s.publications
        /\ v.pending = s.pending /\ v.isNegotiating = s.isNegotiating /\ v.offering = s.offering
    BY DEF SenderType, SameOffers
  <2> HIDE DEF v
  <2>6. DistinctLines(v)
    BY <2>3, <2>5 DEF DistinctLines
  <2> QED BY <1>2, <2>1, <2>4, <2>5, <2>6 DEF new
<1> QED BY <1>1, <1>2

(***************************************************************************)
(* The transceiver of p is that of its only m-line; the m-lines of others  *)
(* stay.                                                                   *)
(***************************************************************************)
LEMMA OnlyItsLineStops ==
    ASSUME NEW s \in SenderType, DistinctLines(s), NEW p \in MediaPubs, NEW m \in Nat,
           LinesOf(s.mlines, p) = {Line(m, p)}
    PROVE  LET new == WithoutLine(s.mlines, transceiverMid(s, p))
           IN  /\ LinesOf(new, p) = {}
               /\ \A q \in MediaPubs \ {p} : LinesOf(new, q) = LinesOf(s.mlines, q)
<1> DEFINE ml == s.mlines
           new == WithoutLine(ml, transceiverMid(s, p))
<1>1. transceiverMid(s, p) = m
  <2>1. Line(m, p).mid = m
    BY DEF Line
  <2>2. (CHOOSE l \in {Line(m, p)} : \A k \in {Line(m, p)} : k.mid <= l.mid) = Line(m, p)
    BY <2>1
  <2> QED BY <2>1, <2>2 DEF transceiverMid
<1>2. ActiveLines(new) = {l \in ActiveLines(ml) : l.mid # m}
  <2>1. ml \in Seq(MLine)
    BY SenderFields
  <2> QED BY <1>1, <2>1, WithoutLineStops
<1>3. ASSUME NEW l \in ActiveLines(ml), l.mid = m PROVE l.pub = p
  <2>1. ActiveLines(ml) = {ml[i] : i \in {j \in 1..Len(ml) : ml[j].active}}
    BY SenderFields, LinesType
  <2>2. Line(m, p) \in ActiveLines(ml) /\ Line(m, p).mid = m /\ Line(m, p).pub = p
    BY DEF LinesOf, Line
  <2>3. l = Line(m, p)
    BY <1>3, <2>1, <2>2 DEF DistinctLines
  <2> QED BY <2>2, <2>3
<1>4. LinesOf(new, p) = {}
  <2>1. \A l \in ActiveLines(ml) : l.pub = p => l = Line(m, p)
    BY DEF LinesOf
  <2>2. Line(m, p).mid = m
    BY DEF Line
  <2> QED BY <1>2, <2>1, <2>2 DEF LinesOf
<1>5. ASSUME NEW q \in MediaPubs \ {p} PROVE LinesOf(new, q) = LinesOf(ml, q)
  BY <1>2, <1>3 DEF LinesOf
<1> QED BY <1>4, <1>5

LEMMA RemoveStarts ==
    ASSUME NEW s \in SenderType, NEW p \in s.publications, DistinctLines(s), ~Busy(s)
    PROVE  LET t == remove(s, p)
           IN  /\ t \in SenderType /\ DistinctLines(t)
               /\ Started(s, t, Op("unproduce", p, NoMid), s.publications \ {p})
               /\ p \in DataPubs => t.mlines = s.mlines
               /\ p \in MediaPubs => t.mlines = WithoutLine(s.mlines, transceiverMid(s, p))
<1> DEFINE u == [s EXCEPT !.publications = s.publications \ {p}]
           w == WithoutPublication(u, p)
           t == Await(w, "unproduce", p, NoMid)
<1>1. p \in Pub /\ (p \in MediaPubs => p \notin DataPubs)
  BY SenderFields, PubsAreDisjoint
<1>2. u \in SenderType
  BY SenderFields, SenderUpdate
<1>3. remove(s, p) = t
  BY DEF remove
<1>4. /\ u.publications = s.publications \ {p} /\ SameOffers(s, u) /\ u.pending = s.pending
      /\ u.offering = s.offering /\ u.mlines = s.mlines /\ u.made = s.made
  BY DEF SenderType, SameOffers
<1>5. DistinctLines(u) /\ transceiverMid(u, p) = transceiverMid(s, p)
  BY <1>4 DEF DistinctLines, transceiverMid
<1> HIDE DEF u
<1>6. /\ w \in SenderType /\ DistinctLines(w) /\ w.made = u.made
      /\ SameOffers(u, w) /\ w.publications = u.publications /\ w.pending = u.pending
      /\ w.isNegotiating = u.isNegotiating /\ w.offering = u.offering
      /\ p \in DataPubs => w.mlines = u.mlines
      /\ p \notin DataPubs => w.mlines = WithoutLine(u.mlines, transceiverMid(u, p))
  BY <1>1, <1>2, <1>5, WithoutPublicationStops
<1> HIDE DEF w
<1>7. NoMid \in Nat /\ w.made \in Nat
  BY <1>6, SenderFields DEF NoMid
<1>8. /\ t \in SenderType /\ t.isNegotiating
      /\ t.offering = Append(w.offering, Op("unproduce", p, NoMid))
      /\ t.mlines = w.mlines /\ t.made = w.made /\ SameOffers(w, t)
      /\ t.publications = w.publications /\ t.pending = w.pending
  <2>1. w \in SenderType /\ p \in Pub /\ NoMid \in Nat
    BY <1>1, <1>6, <1>7
  <2> QED BY ONLY <2>1, Awaits
<1> HIDE DEF t
<1>9. DistinctLines(t)
  BY <1>6, <1>8 DEF DistinctLines
<1>10. Started(s, t, Op("unproduce", p, NoMid), s.publications \ {p})
  <2>1. /\ SameOffers(s, t) /\ t.pending = s.pending /\ t.publications = s.publications \ {p}
        /\ t.offering = Append(s.offering, Op("unproduce", p, NoMid)) /\ t.made = s.made
    BY <1>4, <1>6, <1>8 DEF SameOffers
  <2>2. s.made <= t.made /\ NoMid <= t.made /\ Op("unproduce", p, NoMid).mid = NoMid
    BY <1>4, <1>6, <1>7, <1>8 DEF Op, NoMid
  <2> QED BY <1>8, <2>1, <2>2 DEF Started
<1> QED BY <1>1, <1>3, <1>4, <1>5, <1>6, <1>8, <1>9, <1>10

-----------------------------------------------------------------------------
(* What the receiver will know                                             *)

(***************************************************************************)
(* A message that is sent changes nothing for those before it, and is the  *)
(* last word on its publication.                                           *)
(***************************************************************************)
LEMMA BookAppend ==
    ASSUME NEW S, NEW q \in Seq(S), NEW msg \in S, NEW info, NEW p, NEW m
    PROVE  LET r == Append(q, msg)
               n == Len(q)
           IN  /\ r \in Seq(S) /\ Len(r) = n + 1 /\ r[n + 1] = msg
               /\ \A i \in 1..n : r[i] = q[i] /\ (Book(info, q, i, p, m) => Book(info, r, i, p, m))
               /\ ~About(msg, p) /\ Book(info, q, n, p, m) => Book(info, r, n + 1, p, m)
               /\ About(msg, p) /\ msg.mid = m => Book(info, r, n + 1, p, m)
<1> DEFINE r == Append(q, msg)
           n == Len(q)
<1>1. n \in Nat /\ r \in Seq(S) /\ Len(r) = n + 1 /\ r[n + 1] = msg /\ \A i \in 1..n : r[i] = q[i]
  BY LenProperties, AppendProperties
<1> HIDE DEF r, n
<1>2. ASSUME NEW i \in 1..n, Book(info, q, i, p, m) PROVE Book(info, r, i, p, m)
  <2>1. \A k \in 1..i : r[k] = q[k]
    BY <1>1
  <2> QED BY <1>1, <1>2, <2>1 DEF Book
<1>3. ASSUME ~About(msg, p), Book(info, q, n, p, m) PROVE Book(info, r, n + 1, p, m)
  <2>1. \A k \in 1..(n + 1) : k \in 1..n \/ k = n + 1
    BY <1>1
  <2>2. CASE info[p] = m /\ \A k \in 1..n : ~About(q[k], p)
    BY <1>1, <1>3, <2>1, <2>2 DEF Book
  <2>3. CASE \E j \in 1..n : About(q[j], p) /\ q[j].mid = m /\ \A k \in (j + 1)..n : ~About(q[k], p)
    <3>1. PICK j \in 1..n : About(q[j], p) /\ q[j].mid = m /\ \A k \in (j + 1)..n : ~About(q[k], p)
      BY <2>3
    <3>2. About(r[j], p) /\ r[j].mid = m /\ j \in 1..(n + 1)
      BY <1>1, <3>1
    <3>3. \A k \in (j + 1)..(n + 1) : ~About(r[k], p)
      BY <1>1, <1>3, <3>1
    <3> QED BY <3>2, <3>3 DEF Book
  <2> QED BY <1>3, <2>2, <2>3 DEF Book
<1>4. ASSUME About(msg, p), msg.mid = m PROVE Book(info, r, n + 1, p, m)
  <2>1. n + 1 \in 1..(n + 1) /\ (n + 1 + 1)..(n + 1) = {}
    BY <1>1
  <2> QED BY <1>1, <1>4, <2>1 DEF Book
<1> QED BY <1>1, <1>2, <1>3, <1>4 DEF r, n

(***************************************************************************)
(* A message that is handled is written into the information; what is to   *)
(* be known later stays the same.                                          *)
(***************************************************************************)
LEMMA BookTail ==
    ASSUME NEW S, NEW q \in Seq(S), q # <<>>, NEW info, NEW new, NEW p, NEW m, NEW i \in 1..Len(q),
           new[p] = (IF About(q[1], p) THEN q[1].mid ELSE info[p]),
           Book(info, q, i, p, m)
    PROVE  Book(new, Tail(q), i - 1, p, m)
<1> DEFINE t == Tail(q)
<1>1. Len(q) \in Nat /\ t \in Seq(S) /\ Len(t) = Len(q) - 1 /\ \A k \in 1..Len(t) : t[k] = q[k + 1]
  BY LenProperties, HeadTailProperties
<1> HIDE DEF t
<1>2. \A k \in 1..(i - 1) : t[k] = q[k + 1] /\ k + 1 \in 2..i
  BY <1>1
<1>3. CASE info[p] = m /\ \A k \in 1..i : ~About(q[k], p)
  <2>1. new[p] = m
    BY <1>3
  <2>2. \A k \in 1..(i - 1) : ~About(t[k], p)
    BY <1>2, <1>3
  <2> QED BY <2>1, <2>2 DEF Book, t
<1>4. CASE \E j \in 1..i : About(q[j], p) /\ q[j].mid = m /\ \A k \in (j + 1)..i : ~About(q[k], p)
  <2>1. PICK j \in 1..i : About(q[j], p) /\ q[j].mid = m /\ \A k \in (j + 1)..i : ~About(q[k], p)
    BY <1>4
  <2>2. CASE j = 1
    <3>1. new[p] = m
      BY <2>1, <2>2
    <3>2. \A k \in 1..(i - 1) : ~About(t[k], p)
      BY <1>2, <2>1, <2>2
    <3> QED BY <3>1, <3>2 DEF Book, t
  <2>3. CASE j # 1
    <3>1. j - 1 \in 1..(i - 1) /\ t[j - 1] = q[j]
      BY <1>2, <2>3
    <3>2. \A k \in ((j - 1) + 1)..(i - 1) : ~About(t[k], p)
      BY <1>2, <2>1, <2>3
    <3> QED BY <2>1, <3>1, <3>2 DEF Book, t
  <2> QED BY <2>2, <2>3
<1> QED BY <1>3, <1>4 DEF Book

LEMMA BookNow == ASSUME NEW info, NEW q, NEW p, NEW m, Book(info, q, 0, p, m) PROVE info[p] = m
BY DEF Book

-----------------------------------------------------------------------------
(* Messages                                                                *)

LEMMA TypeOKFields ==
    ASSUME TypeOK
    PROVE  /\ sender \in SenderType /\ receiver \in ReceiverType
           /\ toReceiver \in Seq(Offers) /\ toSender \in Seq(Answers)
           /\ Len(toReceiver) \in Nat /\ Len(toSender) \in Nat /\ Len(sender.offering) \in Nat
           /\ starts \in Nat /\ restarts \in Nat /\ lost \in Nat
           /\ wanted \subseteq Pub /\ skippedStops \subseteq Pub
           /\ refusedMids \subseteq Mid /\ orphanMids \subseteq Mid
           /\ crossed \in BOOLEAN /\ raced \in BOOLEAN
BY SenderFields, LenProperties DEF TypeOK

\* createOffer and setLocalDescription.
LEMMA OfferingType ==
    ASSUME NEW s \in SenderType
    PROVE  LET t == Offering(s)
           IN  /\ t \in SenderType
               /\ t.local = s.mlines /\ t.offer = s.offer + 1 /\ t.signalingState = "have-local-offer"
               /\ t.publications = s.publications /\ t.pending = s.pending /\ t.isNegotiating = s.isNegotiating
               /\ t.offering = s.offering /\ t.mlines = s.mlines /\ t.made = s.made
<1> DEFINE u == [s EXCEPT !.local = s.mlines]
           v == [u EXCEPT !.offer = s.offer + 1]
           t == [v EXCEPT !.signalingState = "have-local-offer"]
<1>1. Offering(s) = t
  BY DEF Offering, SenderType
<1>2. u \in SenderType
  BY SenderFields, SenderUpdate
<1>3. /\ u.local = s.mlines /\ u.offer = s.offer
      /\ u.publications = s.publications /\ u.pending = s.pending /\ u.isNegotiating = s.isNegotiating
      /\ u.offering = s.offering /\ u.mlines = s.mlines /\ u.made = s.made
  BY DEF SenderType
<1> HIDE DEF u
<1>4. v \in SenderType
  <2>1. s.offer + 1 \in Nat
    BY SenderFields
  <2> QED BY <1>2, <2>1, SenderUpdate
<1>5. /\ v.local = u.local /\ v.offer = s.offer + 1
      /\ v.publications = u.publications /\ v.pending = u.pending /\ v.isNegotiating = u.isNegotiating
      /\ v.offering = u.offering /\ v.mlines = u.mlines /\ v.made = u.made
  BY <1>2 DEF SenderType
<1> HIDE DEF v
<1>6. t \in SenderType
  BY <1>4, SenderUpdate
<1>7. /\ t.local = v.local /\ t.offer = v.offer /\ t.signalingState = "have-local-offer"
      /\ t.publications = v.publications /\ t.pending = v.pending /\ t.isNegotiating = v.isNegotiating
      /\ t.offering = v.offering /\ t.mlines = v.mlines /\ t.made = v.made
  BY <1>4 DEF SenderType
<1> HIDE DEF t
<1> QED BY <1>1, <1>3, <1>5, <1>6, <1>7

LEMMA MessageType ==
    ASSUME NEW s \in SenderType, NEW op \in AwaitingOp
    PROVE  LET msg == Message(s, op)
           IN  /\ msg \in Offers
               /\ msg.kind = op.kind /\ msg.pub = op.pub /\ msg.mid = op.mid
               /\ msg.offer = s.offer /\ msg.mlines = s.local
<1>1. s.offer \in Nat /\ s.local \in Seq(MLine)
  BY SenderFields
<1> QED BY <1>1 DEF Message, Offers, AwaitingOp

\* A message is added to the queue, or lost.
LEMMA SendOne ==
    ASSUME NEW S, NEW q \in Seq(S), NEW q2, NEW msg \in S, TypeOK, lost' \in Nat,
           (q2 = q \o <<msg>> /\ lost' = lost) \/ (lost' = lost + 1 /\ q2 = q)
    PROVE  /\ q2 \in Seq(S)
           /\ (q2 = Append(q, msg) /\ lost' = lost) \/ (q2 = q /\ lost' = lost + 1 /\ lost' # 0)
<1>1. q \o <<msg>> = Append(q, msg) /\ Append(q, msg) \in Seq(S)
  BY AppendProperties, AppendIsConcat
<1>2. lost \in Nat
  BY TypeOKFields
<1>3. CASE q2 = q \o <<msg>> /\ lost' = lost
  BY ONLY <1>1, <1>3
<1>4. CASE lost' = lost + 1 /\ q2 = q
  <2>1. lost + 1 # 0
    BY ONLY <1>2
  <2>2. lost' # 0
    BY ONLY <2>1, <1>4
  <2> QED BY ONLY <1>4, <2>2, q \in Seq(S)
<1> QED BY ONLY <1>3, <1>4, (q2 = q \o <<msg>> /\ lost' = lost) \/ (lost' = lost + 1 /\ q2 = q)
-----------------------------------------------------------------------------
(* Queues                                                                  *)

LEMMA NamesAppend ==
    ASSUME NEW S, NEW q \in Seq(S), NEW msg \in S, NamesNoMid(q), msg.kind = "unproduce" => msg.mid = NoMid
    PROVE  NamesNoMid(Append(q, msg))
<1> DEFINE r == Append(q, msg)
           n == Len(q)
<1>1. n \in Nat /\ Len(r) = n + 1 /\ r[n + 1] = msg /\ \A i \in 1..n : r[i] = q[i]
  BY LenProperties, AppendProperties
<1> HIDE DEF r
<1>2. \A i \in 1..(n + 1) : i \in 1..n \/ i = n + 1
  BY <1>1
<1>3. NamesNoMid(r)
  BY <1>1, <1>2 DEF NamesNoMid
<1> QED BY <1>3 DEF r

LEMMA NamesTail ==
    ASSUME NEW S, NEW q \in Seq(S), q # <<>>, NamesNoMid(q)
    PROVE  NamesNoMid(Tail(q))
<1>1. /\ Len(q) \in Nat /\ Len(Tail(q)) = Len(q) - 1
      /\ \A k \in 1..Len(Tail(q)) : Tail(q)[k] = q[k + 1]
  BY LenProperties, HeadTailProperties
<1>2. \A k \in 1..(Len(q) - 1) : k + 1 \in 1..Len(q)
  BY <1>1
<1> QED BY <1>1, <1>2 DEF NamesNoMid

\* What starts while a negotiation is under way is put at the end of the queue.
LEMMA WaitingAppend ==
    ASSUME NEW s \in SenderType, NEW t, NEW p \in Pub, Waits(s), p \notin Waiting(s), p \notin s.publications,
           t.pending = Append(s.pending, [op |-> "add", pub |-> p]), t.publications = s.publications, Busy(t)
    PROVE  Waits(t) /\ Waiting(t) = Waiting(s) \cup {p}
<1> DEFINE e == [op |-> "add", pub |-> p]
           r == Append(s.pending, e)
           n == Len(s.pending)
<1>1. e \in PendingOp /\ e.op = "add" /\ e.pub = p
  BY DEF PendingOp
<1>2. s.pending \in Seq(PendingOp)
  BY SenderFields
<1> HIDE DEF e
<1>3. n \in Nat /\ Len(r) = n + 1 /\ r[n + 1] = e /\ \A i \in 1..n : r[i] = s.pending[i]
  BY <1>1, <1>2, LenProperties, AppendProperties
<1>4. t.pending = r
  BY DEF e
<1> HIDE DEF r
<1>5. \A i \in 1..(n + 1) : i \in 1..n \/ i = n + 1
  BY <1>3
<1>6. \A i \in 1..n : s.pending[i].pub # p
  BY DEF Waiting
<1>7. Waiting(t) = Waiting(s) \cup {p}
  BY <1>1, <1>3, <1>4, <1>5 DEF Waiting
<1>8. \A i, j \in 1..(n + 1) : r[i].pub = r[j].pub => i = j
  BY <1>1, <1>3, <1>5, <1>6 DEF Waits
<1>9. \A i \in 1..(n + 1) : r[i].op = "add" /\ r[i].pub \notin s.publications
  BY <1>1, <1>3, <1>5 DEF Waits
<1> QED BY <1>3, <1>4, <1>7, <1>8, <1>9 DEF Waits

\* What has waited longest is taken off.
LEMMA WaitingTail ==
    ASSUME NEW s \in SenderType, Waits(s), s.pending # <<>>, NEW t, t.pending = Tail(s.pending)
    PROVE  LET h == Head(s.pending)
           IN  /\ h.op = "add" /\ h.pub \in Pub /\ h.pub \in Waiting(s) /\ h.pub \notin s.publications
               /\ Waiting(t) = Waiting(s) \ {h.pub}
               /\ t.publications = s.publications \cup {h.pub} /\ Busy(t) => Waits(t)
<1> DEFINE q == s.pending
           r == Tail(s.pending)
           n == Len(q)
           h == Head(q)
<1>1. q \in Seq(PendingOp)
  BY SenderFields
<1>2. /\ n \in Nat /\ n # 0 /\ Len(r) = n - 1 /\ h = q[1]
      /\ \A i \in 1..(n - 1) : r[i] = q[i + 1]
  BY <1>1, EmptySeq, LenProperties, HeadTailProperties
<1>3. 1 \in 1..n /\ \A i \in 1..(n - 1) : i + 1 \in 1..n /\ i + 1 # 1
  BY <1>2
<1>4. h.op = "add" /\ h.pub \in Waiting(s) /\ h.pub \notin s.publications
  BY <1>2, <1>3 DEF Waits, Waiting
<1>5. h.pub \in Pub
  <2>1. q[1] \in PendingOp
    BY <1>1, <1>3, ElementOfSeq
  <2> QED BY <1>2, <2>1 DEF PendingOp
<1>6. \A i \in 1..(n - 1) : r[i].pub # h.pub
  BY <1>2, <1>3 DEF Waits
<1>7. \A i \in 1..n : i = 1 \/ (i - 1 \in 1..(n - 1) /\ (i - 1) + 1 = i)
  BY <1>2
<1>8. Waiting(t) = {r[i].pub : i \in 1..(n - 1)}
  BY <1>2 DEF Waiting
<1>9. Waiting(t) \subseteq Waiting(s) \ {h.pub}
  <2>1. \A i \in 1..(n - 1) : r[i].pub = q[i + 1].pub /\ i + 1 \in 1..n
    BY <1>2, <1>3
  <2> QED BY <1>6, <1>8, <2>1 DEF Waiting
<1>10. Waiting(s) \ {h.pub} \subseteq Waiting(t)
  <2> SUFFICES ASSUME NEW i \in 1..n, q[i].pub # h.pub PROVE q[i].pub \in Waiting(t)
    BY DEF Waiting
  <2>1. i - 1 \in 1..(n - 1) /\ (i - 1) + 1 = i
    BY <1>2, <1>7
  <2>2. r[i - 1] = q[i]
    BY <1>2, <2>1
  <2> QED BY <1>8, <2>1, <2>2
<1>11. ASSUME t.publications = s.publications \cup {h.pub}, Busy(t) PROVE Waits(t)
  <2>1. \A i \in 1..(n - 1) : r[i].op = "add" /\ r[i].pub \notin t.publications
    BY <1>2, <1>3, <1>6, <1>11 DEF Waits
  <2>2. \A i, j \in 1..(n - 1) : r[i].pub = r[j].pub => i = j
    <3> SUFFICES ASSUME NEW i \in 1..(n - 1), NEW j \in 1..(n - 1), r[i].pub = r[j].pub PROVE i = j
      OBVIOUS
    <3>1. q[i + 1].pub = q[j + 1].pub /\ i + 1 \in 1..n /\ j + 1 \in 1..n
      BY <1>2, <1>3
    <3>2. i + 1 = j + 1
      BY <3>1 DEF Waits
    <3> QED BY <1>2, <3>2
  <2> QED BY <1>2, <1>11, <2>1, <2>2 DEF Waits
<1> QED BY <1>4, <1>5, <1>9, <1>10, <1>11

-----------------------------------------------------------------------------
(* What the receiver will know, when the sender acts                       *)

\* What matters of the sender to the receiver.
SameBook(s, t) == /\ t.offering = s.offering /\ t.publications = s.publications
                  /\ t.mlines = s.mlines /\ t.made = s.made

LEMMA SameBookAgrees ==
    ASSUME NEW s, NEW t, NEW info, NEW q, NEW p, SameBook(s, t), Agreed(s, info, q, p)
    PROVE  Agreed(t, info, q, p)
BY DEF SameBook, Agreed, Promised

\* An add that starts promises the m-line it has made.
LEMMA AddAgrees ==
    ASSUME NEW s \in SenderType, NEW p \in Pub, DistinctLines(s), ~Busy(s), s.offering = <<>>,
           p \notin s.publications, NEW info, NEW q, NEW x \in Pub,
           Agreed(s, info, q, p), Agreed(s, info, q, x)
    PROVE  Agreed(add(s, p), info, q, x)
<1> DEFINE t == add(s, p)
           m == midFor(s, p)
           op == Op("produce", p, m)
<1>1. /\ t \in SenderType /\ m \in Mid
      /\ Started(s, t, op, s.publications \cup {p})
      /\ \A y \in MediaPubs : LinesOf(t.mlines, y) =
            LinesOf(s.mlines, y) \cup (IF y = p THEN {Line(m, p)} ELSE {})
  BY AddStarts
<1>2. op.pub = p /\ op.mid = m
  BY DEF Op
<1> SUFFICES Agreed(t, info, q, x)
  OBVIOUS
<1> HIDE DEF t, m, op
<1>3. m \in Nat /\ m # NoMid /\ m <= t.made /\ s.made \in Nat /\ t.made \in Nat /\ s.made <= t.made
  BY <1>1, <1>2, SenderFields DEF Started, Mid
<1>4. t.publications = s.publications \cup {p} /\ t.offering = <<op>>
  BY <1>1 DEF Started
<1>5. t.offering # <<>> /\ t.offering[1] = op
  BY <1>4
<1>6. CASE x = p
  <2>1. Promised(t, info, q, p, m)
    BY <1>2, <1>5 DEF Promised
  <2>2. p \in MediaPubs => LinesOf(s.mlines, p) = {}
    BY DEF Agreed
  <2>3. p \in MediaPubs => LinesOf(t.mlines, p) = {Line(m, p)}
    BY <1>1, <2>2
  <2>4. m \in 0..t.made
    BY <1>3
  <2> QED BY <1>3, <1>4, <1>6, <2>1, <2>3, <2>4 DEF Agreed
<1>7. CASE x # p
  <2>1. PICK k \in 0..s.made :
           /\ Promised(s, info, q, x, k)
           /\ k # NoMid <=> x \in s.publications
           /\ x \in MediaPubs => LinesOf(s.mlines, x) = IF k = NoMid THEN {} ELSE {Line(k, x)}
    BY DEF Agreed
  <2>2. Promised(t, info, q, x, k)
    BY <1>2, <1>5, <1>7, <2>1 DEF Promised
  <2>3. x \in MediaPubs => LinesOf(t.mlines, x) = LinesOf(s.mlines, x)
    BY <1>1, <1>7
  <2>4. k \in 0..t.made
    BY <1>3
  <2> QED BY <1>4, <1>7, <2>1, <2>2, <2>3, <2>4 DEF Agreed
<1> QED BY <1>6, <1>7

\* A remove that starts promises that the m-line is gone.
LEMMA RemoveAgrees ==
    ASSUME NEW s \in SenderType, NEW p \in s.publications, DistinctLines(s), ~Busy(s), s.offering = <<>>,
           NEW info, NEW q, NEW x \in Pub, Agreed(s, info, q, p), Agreed(s, info, q, x)
    PROVE  Agreed(remove(s, p), info, q, x)
<1> DEFINE t == remove(s, p)
           op == Op("unproduce", p, NoMid)
<1>1. /\ t \in SenderType
      /\ Started(s, t, op, s.publications \ {p})
      /\ p \in DataPubs => t.mlines = s.mlines
      /\ p \in MediaPubs => t.mlines = WithoutLine(s.mlines, transceiverMid(s, p))
  BY RemoveStarts
<1>2. op.pub = p /\ op.mid = NoMid
  BY DEF Op
<1>3. p \in Pub
  BY SenderFields
<1> SUFFICES Agreed(t, info, q, x)
  OBVIOUS
<1> HIDE DEF t, op
<1>4. s.made \in Nat /\ t.made \in Nat /\ s.made <= t.made
  BY <1>1, SenderFields DEF Started
<1>5. t.publications = s.publications \ {p} /\ t.offering = <<op>>
  BY <1>1 DEF Started
<1>6. t.offering # <<>> /\ t.offering[1] = op
  BY <1>5
<1>7. p \in MediaPubs => /\ LinesOf(t.mlines, p) = {}
                         /\ \A y \in MediaPubs \ {p} : LinesOf(t.mlines, y) = LinesOf(s.mlines, y)
  <2> SUFFICES ASSUME p \in MediaPubs
               PROVE  /\ LinesOf(t.mlines, p) = {}
                      /\ \A y \in MediaPubs \ {p} : LinesOf(t.mlines, y) = LinesOf(s.mlines, y)
    OBVIOUS
  <2>1. PICK k \in 0..s.made : LinesOf(s.mlines, p) = {Line(k, p)}
    BY DEF Agreed
  <2>2. k \in Nat
    BY <1>4
  <2> QED BY <1>1, <2>1, <2>2, OnlyItsLineStops
<1>8. CASE x = p
  <2>1. Promised(t, info, q, p, NoMid)
    BY <1>2, <1>6 DEF Promised
  <2>2. NoMid \in 0..t.made
    BY <1>4 DEF NoMid
  <2> QED BY <1>5, <1>7, <1>8, <2>1, <2>2 DEF Agreed
<1>9. CASE x # p
  <2>1. PICK k \in 0..s.made :
           /\ Promised(s, info, q, x, k)
           /\ k # NoMid <=> x \in s.publications
           /\ x \in MediaPubs => LinesOf(s.mlines, x) = IF k = NoMid THEN {} ELSE {Line(k, x)}
    BY DEF Agreed
  <2>2. Promised(t, info, q, x, k)
    BY <1>2, <1>6, <1>9, <2>1 DEF Promised
  <2>3. x \in MediaPubs => LinesOf(t.mlines, x) = LinesOf(s.mlines, x)
    BY <1>1, <1>3, <1>7, <1>9 DEF Pub
  <2>4. k \in 0..t.made
    BY <1>4
  <2> QED BY <1>5, <1>9, <2>1, <2>2, <2>3, <2>4 DEF Agreed
<1> QED BY <1>8, <1>9
-----------------------------------------------------------------------------
(* The publishing person                                                   *)

LEMMA StartPublishingKeeps == ASSUME IInv, NEW p \in Pub, startPublishing(p) PROVE IInv'
<1> DEFINE s == sender
           t == add(s, p)
<1>1. /\ TypeOK /\ SenderInv /\ OneExchange /\ PendingIsWanted /\ BookInv /\ TracksAreKnown
      /\ s \in SenderType /\ DistinctLines(s)
  BY TypeOKFields DEF IInv, SenderInv
<1>2. /\ p \notin wanted /\ wanted' = wanted \cup {p} /\ starts' = starts + 1 /\ sender' = t
      /\ UNCHANGED <<receiver, toReceiver, toSender, restarts, lost, skippedStops,
                     refusedMids, orphanMids, crossed, raced>>
  BY DEF startPublishing
<1> HIDE DEF s, t
<1>3. starts' \in Nat
  <2>1. starts \in Nat
    BY <1>1, TypeOKFields
  <2> QED BY <1>2, <2>1
<1>4. CASE Busy(s)
  <2>1. /\ t \in SenderType /\ SameOffers(s, t)
        /\ t.pending = Append(s.pending, [op |-> "add", pub |-> p])
        /\ t.publications = s.publications /\ t.isNegotiating = s.isNegotiating
        /\ t.offering = s.offering /\ t.mlines = s.mlines /\ t.made = s.made
    BY <1>1, <1>4, AddQueues DEF t
  <2>2. TypeOK'
    BY <1>1, <1>2, <1>3, <2>1 DEF TypeOK
  <2>3. SenderInv'
    BY <1>1, <1>2, <2>1 DEF SenderInv, DistinctLines, OneAwaits, SameOffers, s
  <2>4. OneExchange'
    BY <1>1, <1>2, <2>1 DEF OneExchange, UnderWay, SameOffers, s
  <2>5. PendingIsWanted'
    <3> SUFFICES ASSUME ~raced, skippedStops = {}
                 PROVE  Waits(sender') /\ wanted' = sender'.publications \cup Waiting(sender')
      BY <1>2 DEF PendingIsWanted
    <3>1. Waits(s) /\ wanted = s.publications \cup Waiting(s)
      BY <1>1 DEF PendingIsWanted, s
    <3>2. Busy(t)
      BY <1>4, <2>1 DEF Busy, SameOffers
    <3>3. Waits(t) /\ Waiting(t) = Waiting(s) \cup {p}
      BY <1>1, <1>2, <2>1, <3>1, <3>2, WaitingAppend
    <3> QED BY <1>2, <2>1, <3>1, <3>3
  <2>6. BookInv'
    <3> SUFFICES ASSUME Clean
                 PROVE  /\ Announced(receiver.publicationInfo, toReceiver)
                        /\ t.signalingState # "closed" =>
                              \A x \in Pub : Agreed(t, receiver.publicationInfo, toReceiver, x)
      BY <1>2 DEF BookInv, Clean
    <3>1. SameBook(s, t) /\ t.signalingState = s.signalingState
      BY <2>1 DEF SameBook, SameOffers
    <3> QED BY <1>1, <3>1, SameBookAgrees DEF BookInv, s
  <2>7. TracksAreKnown'
    BY <1>1, <1>2 DEF TracksAreKnown
  <2> QED BY <2>2, <2>3, <2>4, <2>5, <2>6, <2>7 DEF IInv
<1>5. CASE ~Busy(s)
  <2> DEFINE op == Op("produce", p, midFor(s, p))
  <2>1. /\ t \in SenderType /\ DistinctLines(t) /\ midFor(s, p) \in Mid
        /\ Started(s, t, op, s.publications \cup {p})
    BY <1>1, <1>5, AddStarts DEF t
  <2>2. TypeOK'
    BY <1>1, <1>2, <1>3, <2>1 DEF TypeOK
  <2>3. /\ s.offering \in Seq(AwaitingOp) /\ op \in AwaitingOp
        /\ op.kind = "produce" /\ ~op.stale
        /\ s.signalingState = "stable" /\ ~s.isNegotiating
    BY <1>1, <1>5, <2>1, SenderFields DEF Busy, Op, AwaitingOp, Mid
  <2> HIDE DEF op
  <2>4. ASSUME ~raced PROVE s.offering = <<>> /\ t.offering = <<op>>
    <3>1. OneAwaits(s)
      BY <1>1, <2>4 DEF SenderInv, s
    <3>2. s.offering = <<>>
      BY <2>3, <3>1 DEF OneAwaits
    <3>3. t.offering = Append(s.offering, op)
      BY <2>1 DEF Started
    <3> QED BY <3>2, <3>3
  <2>5. SenderInv'
    <3>1. NamesNoMid(t.offering)
      <4>1. NamesNoMid(s.offering)
        BY <1>1 DEF SenderInv, s
      <4> QED BY <2>1, <2>3, <4>1, NamesAppend DEF Started
    <3>2. t.signalingState = "stable" /\ t.isNegotiating
      BY <2>1, <2>3 DEF Started, SameOffers
    <3>3. ASSUME ~raced PROVE OneAwaits(t)
      <4>1. t.offering = <<op>>
        BY <2>4, <3>3
      <4>2. Len(t.offering) = 1 /\ t.offering[1] = op
        BY <4>1
      <4> QED BY <2>3, <3>2, <4>2 DEF OneAwaits
    <3> QED BY <1>1, <1>2, <2>1, <3>1, <3>2, <3>3 DEF SenderInv
  <2>6. OneExchange'
    <3> SUFFICES ASSUME restarts = 0 PROVE OneExchange'
      BY <1>2 DEF OneExchange
    <3>1. ~raced /\ ~crossed /\ UnderWay <= 1 /\ UnderWay # 1
      BY <1>1, <2>3 DEF OneExchange, s
    <3>2. Len(toReceiver) = 0 /\ Len(toSender) = 0
      BY <1>1, <3>1, TypeOKFields DEF UnderWay
    <3>3. t.isNegotiating /\ Len(t.offering) = 1
      BY <2>1, <2>4, <3>1 DEF Started
    <3> QED BY <1>2, <3>1, <3>2, <3>3 DEF OneExchange, UnderWay
  <2>7. PendingIsWanted'
    <3> SUFFICES ASSUME ~raced, skippedStops = {}
                 PROVE  Waits(t) /\ wanted \cup {p} = t.publications \cup Waiting(t)
      BY <1>2 DEF PendingIsWanted
    <3>1. Waits(s) /\ wanted = s.publications \cup Waiting(s)
      BY <1>1 DEF PendingIsWanted, s
    <3>2. s.pending = <<>> /\ t.pending = <<>> /\ t.publications = s.publications \cup {p} /\ Busy(t)
      BY <1>5, <2>1, <3>1 DEF Waits, Started, Busy
    <3>3. Waiting(t) = {} /\ Waiting(s) = {}
      BY <3>2 DEF Waiting
    <3>4. Waits(t)
      BY <3>2 DEF Waits
    <3> QED BY <3>1, <3>2, <3>3, <3>4
  <2>8. BookInv'
    <3> SUFFICES ASSUME Clean
                 PROVE  /\ Announced(receiver.publicationInfo, toReceiver)
                        /\ \A x \in Pub : Agreed(t, receiver.publicationInfo, toReceiver, x)
      BY <1>2 DEF BookInv, Clean
    <3>1. /\ Announced(receiver.publicationInfo, toReceiver)
          /\ \A x \in Pub : Agreed(s, receiver.publicationInfo, toReceiver, x)
      BY <1>1, <2>3 DEF BookInv, s
    <3>2. s.offering = <<>> /\ p \notin s.publications
      BY <1>1, <1>2, <2>4 DEF Clean, PendingIsWanted, s
    <3>3. ASSUME NEW x \in Pub PROVE Agreed(t, receiver.publicationInfo, toReceiver, x)
      BY <1>1, <1>5, <3>1, <3>2, AddAgrees DEF t
    <3> QED BY <3>1, <3>3
  <2>9. TracksAreKnown'
    BY <1>1, <1>2 DEF TracksAreKnown
  <2> QED BY <2>2, <2>5, <2>6, <2>7, <2>8, <2>9 DEF IInv
<1> QED BY <1>4, <1>5
LEMMA ClosedFields ==
    ASSUME NEW s \in SenderType
    PROVE  LET t == closed(s)
           IN  /\ t \in SenderType /\ t.signalingState = "closed" /\ t.offering = <<>>
               /\ t.publications = s.publications /\ t.pending = s.pending /\ t.isNegotiating = s.isNegotiating
               /\ t.mlines = s.mlines /\ t.made = s.made /\ t.offer = s.offer
<1> DEFINE u == [s EXCEPT !.signalingState = "closed"]
           t == [u EXCEPT !.offering = <<>>]
<1>1. closed(s) = t
  BY DEF closed, SenderType
<1>2. u \in SenderType
  BY SenderUpdate
<1>3. /\ u.signalingState = "closed"
      /\ u.publications = s.publications /\ u.pending = s.pending /\ u.isNegotiating = s.isNegotiating
      /\ u.mlines = s.mlines /\ u.made = s.made /\ u.offer = s.offer
  BY DEF SenderType
<1> HIDE DEF u
<1>4. t \in SenderType
  <2>1. <<>> \in Seq(AwaitingOp)
    OBVIOUS
  <2> QED BY <1>2, <2>1, SenderUpdate
<1>5. /\ t.signalingState = u.signalingState /\ t.offering = <<>>
      /\ t.publications = u.publications /\ t.pending = u.pending /\ t.isNegotiating = u.isNegotiating
      /\ t.mlines = u.mlines /\ t.made = u.made /\ t.offer = u.offer
  BY <1>2 DEF SenderType
<1> HIDE DEF t
<1> QED BY <1>1, <1>3, <1>4, <1>5

LEMMA StopPublishingKeeps == ASSUME IInv, NEW p \in Pub, stopPublishing(p) PROVE IInv'
<1> DEFINE s == sender
           t == remove(s, p)
           InBooks(u) == /\ u \in SenderType /\ DistinctLines(u) /\ NamesNoMid(u.offering)
                         /\ u.signalingState = "closed" => u.offering = <<>>
                         /\ ~raced => OneAwaits(u)
                         /\ u.offer = s.offer
           OneOf(u)   == restarts = 0 =>
                            /\ Len(u.offering) + Len(toReceiver) + Len(toSender) <= 1
                            /\ Len(u.offering) + Len(toReceiver) + Len(toSender) = 1 => u.isNegotiating
           Wanted(u)  == ~raced /\ skippedStops' = {} =>
                            Waits(u) /\ wanted \ {p} = u.publications \cup Waiting(u)
           Known(u)   == Clean /\ skippedStops' = {} /\ u.signalingState # "closed" =>
                            \A x \in Pub : Agreed(u, receiver.publicationInfo, toReceiver, x)
<1>1. /\ TypeOK /\ SenderInv /\ OneExchange /\ PendingIsWanted /\ BookInv /\ TracksAreKnown
      /\ s \in SenderType /\ DistinctLines(s) /\ wanted \subseteq Pub /\ skippedStops \subseteq Pub
  BY TypeOKFields DEF IInv, SenderInv
<1>2. /\ p \in wanted /\ wanted' = wanted \ {p}
      /\ skippedStops' = (IF Busy(s) THEN skippedStops \cup {p} ELSE skippedStops)
      /\ sender' = t \/ sender' = closed(t)
      /\ UNCHANGED <<receiver, toReceiver, toSender, starts, restarts, lost,
                     refusedMids, orphanMids, crossed, raced>>
  BY DEF stopPublishing, counters
<1> HIDE DEF s, t
<1>3. skippedStops' = {} => ~Busy(s) /\ skippedStops = {}
  BY <1>2
<1>4. InBooks(s) /\ OneOf(s)
  BY <1>1 DEF SenderInv, OneExchange, UnderWay, s
<1>5. InBooks(t) /\ OneOf(t) /\ Wanted(t) /\ Known(t)
  <2>1. CASE p \notin s.publications
    <3>1. t = s
      BY <2>1 DEF t, remove
    <3>2. ASSUME ~raced, skippedStops' = {} PROVE FALSE
      <4>1. Waits(s) /\ wanted = s.publications \cup Waiting(s) /\ s.pending = <<>>
        BY <1>1, <1>3, <3>2 DEF PendingIsWanted, Waits, s
      <4>2. Waiting(s) = {}
        BY <4>1 DEF Waiting
      <4> QED BY <1>2, <2>1, <4>1, <4>2
    <3> QED BY <1>4, <3>1, <3>2 DEF Clean
  <2>2. CASE p \in s.publications /\ Busy(s)
    <3>1. /\ t \in SenderType /\ SameOffers(s, t) /\ t.isNegotiating = s.isNegotiating
          /\ t.offering = s.offering /\ t.mlines = s.mlines /\ t.made = s.made
      BY <1>1, <2>2, RemoveQueues DEF t
    <3>2. InBooks(t)
      BY <1>4, <3>1 DEF SameOffers, DistinctLines, OneAwaits
    <3>3. OneOf(t)
      BY <1>4, <3>1
    <3> QED BY <1>3, <2>2, <3>2, <3>3
  <2>3. CASE p \in s.publications /\ ~Busy(s)
    <3> DEFINE op == Op("unproduce", p, NoMid)
    <3>1. t \in SenderType /\ DistinctLines(t) /\ Started(s, t, op, s.publications \ {p})
      BY <1>1, <2>3, RemoveStarts DEF t
    <3>2. /\ s.offering \in Seq(AwaitingOp) /\ op \in AwaitingOp
          /\ op.mid = NoMid /\ ~op.stale
          /\ s.signalingState = "stable" /\ ~s.isNegotiating
      BY <1>1, <2>3, SenderFields DEF Busy, Op, AwaitingOp, NoMid
    <3> HIDE DEF op
    <3>3. ASSUME ~raced PROVE s.offering = <<>> /\ t.offering = <<op>>
      <4>1. OneAwaits(s)
        BY <1>4, <3>3
      <4>2. s.offering = <<>>
        BY <3>2, <4>1 DEF OneAwaits
      <4>3. t.offering = Append(s.offering, op)
        BY <3>1 DEF Started
      <4> QED BY <4>2, <4>3
    <3>4. t.signalingState = "stable" /\ t.isNegotiating /\ t.offer = s.offer
      BY <3>1, <3>2 DEF Started, SameOffers
    <3>5. ASSUME ~raced PROVE OneAwaits(t)
      <4>1. t.offering = <<op>>
        BY <3>3, <3>5
      <4>2. Len(t.offering) = 1 /\ t.offering[1] = op
        BY <4>1
      <4> QED BY <3>2, <3>4, <4>2 DEF OneAwaits
    <3>6. NamesNoMid(t.offering)
      <4>1. NamesNoMid(s.offering)
        BY <1>4
      <4> QED BY <3>1, <3>2, <4>1, NamesAppend DEF Started
    <3>7. OneOf(t)
      <4> SUFFICES ASSUME restarts = 0 PROVE OneOf(t)
        OBVIOUS
      <4>1. ~raced /\ UnderWay <= 1 /\ UnderWay # 1
        BY <1>1, <3>2 DEF OneExchange, s
      <4>2. Len(toReceiver) = 0 /\ Len(toSender) = 0
        BY <1>1, <4>1, TypeOKFields DEF UnderWay
      <4>3. Len(t.offering) = 1
        <5>1. t.offering = <<op>>
          BY <3>3, <4>1
        <5> QED BY <5>1
      <4> QED BY <3>4, <4>2, <4>3
    <3>8. Wanted(t)
      <4> SUFFICES ASSUME ~raced, skippedStops' = {}
                   PROVE  Waits(t) /\ wanted \ {p} = t.publications \cup Waiting(t)
        OBVIOUS
      <4>1. Waits(s) /\ wanted = s.publications \cup Waiting(s)
        BY <1>1, <1>3 DEF PendingIsWanted, s
      <4>2. s.pending = <<>> /\ t.pending = <<>> /\ t.publications = s.publications \ {p} /\ Busy(t)
        BY <2>3, <3>1, <4>1 DEF Waits, Started, Busy
      <4>3. Waiting(t) = {} /\ Waiting(s) = {}
        BY <4>2 DEF Waiting
      <4>4. Waits(t)
        BY <4>2 DEF Waits
      <4> QED BY <4>1, <4>2, <4>3, <4>4
    <3>9. Known(t)
      <4> SUFFICES ASSUME Clean, NEW x \in Pub PROVE Agreed(t, receiver.publicationInfo, toReceiver, x)
        OBVIOUS
      <4>1. \A y \in Pub : Agreed(s, receiver.publicationInfo, toReceiver, y)
        BY <1>1, <3>2 DEF BookInv, s
      <4>2. s.offering = <<>>
        BY <3>3 DEF Clean
      <4> QED BY <1>1, <2>3, <4>1, <4>2, RemoveAgrees DEF t
    <3> QED BY <3>1, <3>4, <3>5, <3>6, <3>7, <3>8, <3>9
  <2> QED BY <2>1, <2>2, <2>3
<1>6. ASSUME sender' = closed(t) PROVE InBooks(sender') /\ OneOf(sender') /\ Wanted(sender') /\ Known(sender')
  <2> DEFINE u == closed(t)
  <2>1. /\ u \in SenderType /\ u.signalingState = "closed" /\ u.offering = <<>>
        /\ u.publications = t.publications /\ u.pending = t.pending /\ u.isNegotiating = t.isNegotiating
        /\ u.mlines = t.mlines /\ u.made = t.made /\ u.offer = t.offer
    BY <1>5, ClosedFields
  <2> HIDE DEF u
  <2>2. InBooks(u)
    <3>1. DistinctLines(u) /\ NamesNoMid(u.offering) /\ OneAwaits(u)
      BY <1>5, <2>1 DEF DistinctLines, NamesNoMid, OneAwaits
    <3> QED BY <1>5, <2>1, <3>1
  <2>3. OneOf(u)
    <3>1. /\ Len(t.offering) \in Nat /\ Len(toReceiver) \in Nat /\ Len(toSender) \in Nat /\ Len(u.offering) = 0
      BY <1>1, <1>5, <2>1, SenderFields, TypeOKFields, LenProperties
    <3> QED BY <1>5, <2>1, <3>1
  <2>4. Wanted(u)
    BY <1>5, <2>1 DEF Waits, Waiting, Busy
  <2>5. Known(u)
    BY <2>1
  <2> QED BY <1>6, <2>2, <2>3, <2>4, <2>5 DEF u
<1>7. InBooks(sender') /\ OneOf(sender') /\ Wanted(sender') /\ Known(sender')
  BY <1>2, <1>5, <1>6
<1> HIDE DEF InBooks, OneOf, Wanted, Known
<1>8. TypeOK'
  BY <1>1, <1>2, <1>7 DEF TypeOK, InBooks
<1>9. SenderInv'
  BY <1>1, <1>2, <1>7 DEF SenderInv, InBooks
<1>10. OneExchange'
  BY <1>1, <1>2, <1>7 DEF OneExchange, UnderWay, InBooks, OneOf, s
<1>11. PendingIsWanted'
  BY <1>2, <1>7 DEF PendingIsWanted, Wanted
<1>12. BookInv'
  <2> SUFFICES ASSUME Clean, skippedStops' = {}
               PROVE  /\ Announced(receiver.publicationInfo, toReceiver)
                      /\ sender'.signalingState # "closed" =>
                            \A x \in Pub : Agreed(sender', receiver.publicationInfo, toReceiver, x)
    BY <1>2, <1>3 DEF BookInv, Clean
  <2> QED BY <1>1, <1>7 DEF BookInv, Known
<1>13. TracksAreKnown'
  BY <1>1, <1>2, <1>3 DEF TracksAreKnown
<1> QED BY <1>8, <1>9, <1>10, <1>11, <1>12, <1>13 DEF IInv
\* The m-lines of a message are known when the queue is handled up to it.
LEMMA AnnouncedAppend ==
    ASSUME NEW q \in Seq(Offers), NEW msg \in Offers, NEW info, Announced(info, q),
           NEW ml \in Seq(MLine), msg.mlines = ml,
           \A x \in MediaPubs : \E m :
              /\ Book(info, Append(q, msg), Len(q) + 1, x, m)
              /\ LinesOf(ml, x) = IF m = NoMid THEN {} ELSE {Line(m, x)}
    PROVE  Announced(info, Append(q, msg))
<1> DEFINE r == Append(q, msg)
           n == Len(q)
<1>1. n \in Nat /\ Len(r) = n + 1 /\ r[n + 1] = msg /\ \A i \in 1..n : r[i] = q[i]
  BY LenProperties, AppendProperties
<1>2. \A i \in 1..n : \A p, m : Book(info, q, i, p, m) => Book(info, r, i, p, m)
  BY BookAppend
<1>3. \A x \in MediaPubs : \E m :
         /\ Book(info, r, n + 1, x, m)
         /\ LinesOf(ml, x) = IF m = NoMid THEN {} ELSE {Line(m, x)}
  OBVIOUS
<1> SUFFICES Announced(info, r)
  OBVIOUS
<1> HIDE DEF r, n
<1>4. ASSUME NEW i \in 1..n, NEW l \in ActiveLines(r[i].mlines), l.pub # AppLine
      PROVE  Book(info, r, i, l.pub, l.mid)
  <2>1. Book(info, q, i, l.pub, l.mid)
    BY <1>1, <1>4 DEF Announced, n
  <2> QED BY <1>2, <2>1
<1>5. ASSUME NEW l \in ActiveLines(ml), l.pub # AppLine PROVE Book(info, r, n + 1, l.pub, l.mid)
  <2>1. l \in MLine
    BY LinesType
  <2>2. l.pub \in MediaPubs
    BY <1>5, <2>1 DEF MLine
  <2>3. PICK m : /\ Book(info, r, n + 1, l.pub, m)
                 /\ LinesOf(ml, l.pub) = IF m = NoMid THEN {} ELSE {Line(m, l.pub)}
    BY <1>3, <2>2
  <2>4. l \in LinesOf(ml, l.pub)
    BY DEF LinesOf
  <2>5. l = Line(m, l.pub)
    BY <2>3, <2>4
  <2>6. l.mid = m
    BY <2>5 DEF Line
  <2> QED BY <2>3, <2>6
<1>6. \A i \in 1..(n + 1) : i \in 1..n \/ i = n + 1
  BY <1>1
<1> QED BY <1>1, <1>4, <1>5, <1>6 DEF Announced

LEMMA OfferingUpdate ==
    ASSUME NEW s \in SenderType, NEW q \in Seq(AwaitingOp)
    PROVE  LET t == [s EXCEPT !.offering = q]
           IN  /\ t \in SenderType /\ SameOffers(s, t) /\ t.offering = q
               /\ t.publications = s.publications /\ t.pending = s.pending /\ t.isNegotiating = s.isNegotiating
               /\ t.mlines = s.mlines /\ t.made = s.made
<1>1. [s EXCEPT !.offering = q] \in SenderType
  BY SenderUpdate
<1> QED BY <1>1 DEF SenderType, SameOffers

LEMMA SendOfferKeeps == ASSUME IInv, sendOffer PROVE IInv'
<1> DEFINE op == Head(sender.offering)
           s  == [sender EXCEPT !.offering = Tail(sender.offering)]
           t  == Offering(s)
           n  == Len(toReceiver)
<1>1. /\ TypeOK /\ SenderInv /\ OneExchange /\ PendingIsWanted /\ BookInv /\ TracksAreKnown
      /\ sender \in SenderType /\ DistinctLines(sender) /\ toReceiver \in Seq(Offers)
      /\ receiver \in ReceiverType /\ toSender \in Seq(Answers) /\ lost \in Nat
      /\ sender.offering \in Seq(AwaitingOp)
  BY TypeOKFields, SenderFields DEF IInv, SenderInv
<1>2. /\ sender.offering # <<>>
      /\ UNCHANGED <<receiver, toSender, starts, restarts, wanted, skippedStops,
                     refusedMids, orphanMids, crossed, raced>>
  BY DEF sendOffer, history
<1>3. /\ op \in AwaitingOp /\ op = sender.offering[1]
      /\ op.kind = "unproduce" => op.mid = NoMid
      /\ Tail(sender.offering) \in Seq(AwaitingOp) /\ NamesNoMid(Tail(sender.offering))
      /\ Len(Tail(sender.offering)) = Len(sender.offering) - 1 /\ Len(sender.offering) \in Nat
  <2>1. Len(sender.offering) \in Nat /\ Len(sender.offering) # 0 /\ op = sender.offering[1]
    BY <1>1, <1>2, EmptySeq, LenProperties, HeadTailProperties
  <2>2. 1 \in 1..Len(sender.offering)
    BY <2>1
  <2>3. op \in AwaitingOp
    BY <1>1, <2>1, <2>2, ElementOfSeq
  <2>4. op.kind = "unproduce" => op.mid = NoMid
    BY <1>1, <2>1, <2>2 DEF SenderInv, NamesNoMid
  <2> QED BY <1>1, <1>2, <2>1, <2>3, <2>4, NamesTail, HeadTailProperties DEF SenderInv
<1>4. \/ sender' = t /\ Send(toReceiver, <<Message(t, op)>>)
      \/ op.stale /\ sender' = s /\ Send(toReceiver, <<Message(s, op)>>)
      \/ op.stale /\ sender' = s /\ UNCHANGED <<toReceiver, lost>>
  BY <1>1 DEF sendOffer, SenderType
<1>5. /\ s \in SenderType /\ SameOffers(sender, s) /\ s.offering = Tail(sender.offering)
      /\ s.publications = sender.publications /\ s.pending = sender.pending
      /\ s.isNegotiating = sender.isNegotiating
      /\ s.mlines = sender.mlines /\ s.made = sender.made
  BY <1>1, <1>3, OfferingUpdate
<1> HIDE DEF op, s
<1>6. /\ t \in SenderType
      /\ t.local = s.mlines /\ t.offer = s.offer + 1 /\ t.signalingState = "have-local-offer"
      /\ t.publications = s.publications /\ t.pending = s.pending /\ t.isNegotiating = s.isNegotiating
      /\ t.offering = s.offering /\ t.mlines = s.mlines /\ t.made = s.made
  BY <1>5, OfferingType
<1> HIDE DEF t
<1>7. \A u \in SenderType : /\ Message(u, op) \in Offers
                            /\ Message(u, op).kind = op.kind /\ Message(u, op).pub = op.pub
                            /\ Message(u, op).mid = op.mid
                            /\ Message(u, op).offer = u.offer /\ Message(u, op).mlines = u.local
  BY <1>3, MessageType
<1>8. ASSUME NEW u \in SenderType, Send(toReceiver, <<Message(u, op)>>)
      PROVE  /\ toReceiver' \in Seq(Offers) /\ lost' \in Nat /\ NamesNoMid(toReceiver')
             /\ \/ toReceiver' = Append(toReceiver, Message(u, op)) /\ lost' = lost
                \/ toReceiver' = toReceiver /\ lost' # 0
  <2> DEFINE msg == Message(u, op)
  <2>1. (toReceiver' = toReceiver \o <<msg>> /\ lost' = lost) \/ (lost' = lost + 1 /\ toReceiver' = toReceiver)
    BY <1>8 DEF Send
  <2>2. lost' \in Nat
    BY <1>1, <2>1
  <2>3. msg \in Offers /\ (msg.kind = "unproduce" => msg.mid = NoMid)
    BY <1>3, <1>7
  <2> HIDE DEF msg
  <2>4. /\ toReceiver' \in Seq(Offers)
        /\ \/ toReceiver' = Append(toReceiver, msg) /\ lost' = lost
           \/ toReceiver' = toReceiver /\ lost' = lost + 1 /\ lost' # 0
    <3>1. TypeOK /\ toReceiver \in Seq(Offers) /\ msg \in Offers
      BY <1>1, <2>3
    <3> QED BY ONLY <3>1, <2>1, <2>2, SendOne
  <2>5. NamesNoMid(toReceiver) /\ NamesNoMid(Append(toReceiver, msg))
    <3>1. NamesNoMid(toReceiver)
      BY <1>1 DEF SenderInv
    <3> QED BY <1>1, <2>3, <3>1, NamesAppend
  <2>6. NamesNoMid(toReceiver')
    BY <2>4, <2>5
  <2> QED BY <2>2, <2>4, <2>6 DEF msg
<1>9. toReceiver' \in Seq(Offers) /\ lost' \in Nat /\ NamesNoMid(toReceiver') /\ (lost' = 0 => lost = 0)
  <2>1. NamesNoMid(toReceiver)
    BY <1>1 DEF SenderInv
  <2> QED BY <1>1, <1>4, <1>5, <1>6, <1>8, <2>1
<1>10. ASSUME ~raced
       PROVE  /\ Len(sender.offering) = 1 /\ sender.isNegotiating /\ sender.signalingState = "stable"
              /\ sender' = t /\ Send(toReceiver, <<Message(t, op)>>)
              /\ t.offering = <<>>
  <2>1. OneAwaits(sender)
    BY <1>1, <1>10 DEF SenderInv
  <2>2. Len(sender.offering) = 1 /\ sender.isNegotiating /\ sender.signalingState = "stable" /\ ~op.stale
    BY <1>2, <1>3, <2>1 DEF OneAwaits
  <2>3. Tail(sender.offering) = <<>>
    <3>1. Len(Tail(sender.offering)) = 0 /\ Tail(sender.offering) \in Seq(AwaitingOp)
      BY <1>3, <2>2
    <3> QED BY <3>1, EmptySeq
  <2> QED BY <1>4, <1>5, <1>6, <2>2, <2>3
<1>11. TypeOK'
  BY <1>1, <1>2, <1>4, <1>5, <1>6, <1>9 DEF TypeOK
<1>12. SenderInv'
  <2>1. /\ sender' \in {s, t} /\ NamesNoMid(sender'.offering) /\ DistinctLines(sender')
    <3>1. sender' \in {s, t} /\ s.offering = Tail(sender.offering) /\ t.offering = Tail(sender.offering)
      BY <1>4, <1>5, <1>6
    <3>2. /\ s.mlines = sender.mlines /\ s.made = sender.made
          /\ t.mlines = sender.mlines /\ t.made = sender.made
      BY <1>5, <1>6
    <3>3. DistinctLines(s) /\ DistinctLines(t)
      BY <1>1, <3>2 DEF DistinctLines
    <3> QED BY <1>3, <3>1, <3>3
  <2>2. sender'.signalingState = "closed" => sender'.offering = <<>>
    <3>1. sender.signalingState # "closed"
      BY <1>1, <1>2 DEF SenderInv
    <3> QED BY <1>5, <1>6, <2>1, <3>1 DEF SameOffers
  <2>3. ~raced => OneAwaits(sender')
    BY <1>10 DEF OneAwaits
  <2> QED BY <1>2, <1>9, <2>1, <2>2, <2>3 DEF SenderInv
<1>13. OneExchange'
  <2> SUFFICES ASSUME restarts = 0 PROVE OneExchange'
    BY <1>2 DEF OneExchange
  <2>1. ~raced /\ ~crossed /\ UnderWay <= 1
    BY <1>1 DEF OneExchange
  <2>2. n = 0 /\ Len(toSender) = 0
    <3>1. n \in Nat /\ Len(toSender) \in Nat
      BY <1>1, TypeOKFields
    <3>2. Len(sender.offering) = 1
      BY <1>10, <2>1
    <3>3. Len(sender.offering) + n + Len(toSender) <= 1
      BY <2>1 DEF UnderWay
    <3> QED BY <3>1, <3>2, <3>3
  <2>3. toReceiver' = Append(toReceiver, Message(t, op)) \/ toReceiver' = toReceiver
    BY <1>6, <1>8, <1>10, <2>1
  <2>4. /\ Len(Append(toReceiver, Message(t, op))) = 1
        /\ Append(toReceiver, Message(t, op))[1] = Message(t, op)
    BY <1>1, <1>6, <1>7, <2>2, AppendProperties
  <2>5. /\ Len(toReceiver') <= 1 /\ Len(toReceiver') \in Nat
        /\ \A i \in 1..Len(toReceiver') : toReceiver'[i].offer = t.offer
    <3>1. Message(t, op).offer = t.offer
      BY <1>6, <1>7
    <3>2. CASE toReceiver' = toReceiver
      BY <2>2, <3>2
    <3>3. CASE toReceiver' = Append(toReceiver, Message(t, op))
      <4>1. Len(toReceiver') = 1 /\ toReceiver'[1].offer = t.offer
        BY <2>4, <3>1, <3>3
      <4> QED BY <4>1
    <3> QED BY <2>3, <3>2, <3>3
  <2>6. Len(t.offering) = 0 /\ t.isNegotiating
    BY <1>5, <1>6, <1>10, <2>1
  <2> HIDE DEF n
  <2> QED BY <1>2, <1>10, <2>1, <2>2, <2>5, <2>6 DEF OneExchange, UnderWay
<1>14. PendingIsWanted'
  <2> SUFFICES ASSUME ~raced, skippedStops = {}
               PROVE  Waits(t) /\ wanted = t.publications \cup Waiting(t)
    BY <1>2, <1>10 DEF PendingIsWanted
  <2>1. Waits(sender) /\ wanted = sender.publications \cup Waiting(sender)
    BY <1>1 DEF PendingIsWanted
  <2>2. t.pending = sender.pending /\ t.publications = sender.publications /\ Busy(t)
    BY <1>5, <1>6 DEF Busy
  <2> QED BY <2>1, <2>2 DEF Waits, Waiting
<1>15. BookInv'
  <2> DEFINE msg  == Message(t, op)
             r    == Append(toReceiver, msg)
             info == receiver.publicationInfo
  <2> SUFFICES ASSUME Clean, lost' = 0
               PROVE  Announced(info, toReceiver') /\ \A x \in Pub : Agreed(t, info, toReceiver', x)
    BY <1>2, <1>9, <1>10 DEF BookInv, Clean
  <2>1. toReceiver' = r
    BY <1>6, <1>8, <1>10 DEF Clean
  <2>2. /\ msg \in Offers /\ msg.mlines = sender.mlines
        /\ \A x : About(msg, x) <=> op.pub = x
    <3>1. msg \in Offers /\ msg.kind = op.kind /\ msg.pub = op.pub /\ msg.mlines = t.local
      BY <1>6, <1>7
    <3>2. op.kind # "restartIce"
      BY <1>3 DEF AwaitingOp
    <3> HIDE DEF msg
    <3> QED BY <1>5, <1>6, <3>1, <3>2 DEF About
  <2>3. msg.mid = op.mid
    BY <1>6, <1>7
  <2> HIDE DEF msg
  <2>4. Announced(info, toReceiver) /\ \A x \in Pub : Agreed(sender, info, toReceiver, x)
    BY <1>1, <1>10 DEF BookInv, Clean
  <2>5. ASSUME NEW x \in Pub
        PROVE  \E m \in 0..sender.made :
                  /\ Book(info, r, n + 1, x, m)
                  /\ m # NoMid <=> x \in sender.publications
                  /\ x \in MediaPubs => LinesOf(sender.mlines, x) = IF m = NoMid THEN {} ELSE {Line(m, x)}
    <3>1. PICK m \in 0..sender.made :
             /\ Promised(sender, info, toReceiver, x, m)
             /\ m # NoMid <=> x \in sender.publications
             /\ x \in MediaPubs => LinesOf(sender.mlines, x) = IF m = NoMid THEN {} ELSE {Line(m, x)}
      BY <2>4 DEF Agreed
    <3>2. IF op.pub = x THEN op.mid = m ELSE Book(info, toReceiver, n, x, m)
      BY <1>2, <1>3, <3>1 DEF Promised
    <3>3. /\ ~About(msg, x) /\ Book(info, toReceiver, n, x, m) => Book(info, r, n + 1, x, m)
          /\ About(msg, x) /\ msg.mid = m => Book(info, r, n + 1, x, m)
      BY <1>1, <2>2, BookAppend
    <3>4. Book(info, r, n + 1, x, m)
      BY <2>2, <2>3, <3>2, <3>3
    <3> QED BY <3>1, <3>4
  <2>6. Announced(info, r)
    <3>1. sender.mlines \in Seq(MLine)
      BY <1>1, SenderFields
    <3>2. \A x \in MediaPubs : \E m :
              /\ Book(info, r, n + 1, x, m)
              /\ LinesOf(sender.mlines, x) = IF m = NoMid THEN {} ELSE {Line(m, x)}
      BY <2>5 DEF Pub
    <3> QED BY <1>1, <2>2, <2>4, <3>1, <3>2, AnnouncedAppend
  <2>7. Len(r) = n + 1
    BY <1>1, <2>2, AppendProperties
  <2>8. /\ t.offering = <<>> /\ t.made = sender.made /\ t.publications = sender.publications
        /\ t.mlines = sender.mlines
    BY <1>5, <1>6, <1>10 DEF Clean
  <2> HIDE DEF r, n
  <2>9. \A x \in Pub : Agreed(t, info, r, x)
    BY <2>5, <2>7, <2>8 DEF Agreed, Promised
  <2> QED BY <2>1, <2>6, <2>9
<1>16. TracksAreKnown'
  BY <1>1, <1>2, <1>9 DEF TracksAreKnown
<1> QED BY <1>11, <1>12, <1>13, <1>14, <1>15, <1>16 DEF IInv
\* The operations that wait are marked, and are otherwise the same.
LEMMA MarkedOperations ==
    ASSUME NEW q \in Seq(AwaitingOp), NamesNoMid(q)
    PROVE  LET r == [i \in DOMAIN q |-> [q[i] EXCEPT !.stale = TRUE]]
           IN  r \in Seq(AwaitingOp) /\ NamesNoMid(r) /\ (q = <<>> => r = <<>>)
<1> DEFINE r == [i \in DOMAIN q |-> [q[i] EXCEPT !.stale = TRUE]]
<1>1. DOMAIN q = 1..Len(q) /\ Len(q) \in Nat /\ \A i \in 1..Len(q) : q[i] \in AwaitingOp
  BY ElementOfSeq, LenProperties
<1>2. \A i \in 1..Len(q) : /\ [q[i] EXCEPT !.stale = TRUE] \in AwaitingOp
                           /\ [q[i] EXCEPT !.stale = TRUE].kind = q[i].kind
                           /\ [q[i] EXCEPT !.stale = TRUE].mid = q[i].mid
  BY <1>1 DEF AwaitingOp
<1>3. r \in Seq(AwaitingOp)
  BY <1>1, <1>2
<1>4. Len(r) = Len(q)
  BY <1>1, <1>3
<1>5. NamesNoMid(r)
  BY <1>1, <1>2, <1>4 DEF NamesNoMid
<1>6. q = <<>> => r = <<>>
  <2>1. r \in Seq(AwaitingOp) /\ Len(r) = Len(q) => (q = <<>> => r = <<>>)
    <3> HIDE DEF r
    <3> QED BY EmptySeq
  <2> QED BY <1>3, <1>4, <2>1
<1> QED BY <1>3, <1>5, <1>6

LEMMA RestartIceKeeps == ASSUME IInv, restartIce PROVE IInv'
<1> DEFINE marked == [i \in DOMAIN sender.offering |-> [sender.offering[i] EXCEPT !.stale = TRUE]]
           s   == [sender EXCEPT !.offering = marked]
           t   == Offering(s)
           msg == [kind |-> "restartIce", offer |-> t.offer, mlines |-> t.local]
           r   == Append(toReceiver, msg)
           n   == Len(toReceiver)
<1>1. /\ TypeOK /\ SenderInv /\ OneExchange /\ PendingIsWanted /\ BookInv /\ TracksAreKnown
      /\ sender \in SenderType /\ DistinctLines(sender) /\ toReceiver \in Seq(Offers)
      /\ receiver \in ReceiverType /\ toSender \in Seq(Answers) /\ lost \in Nat /\ restarts \in Nat
      /\ sender.offering \in Seq(AwaitingOp) /\ NamesNoMid(sender.offering) /\ NamesNoMid(toReceiver)
      /\ raced \in BOOLEAN
  BY TypeOKFields, SenderFields DEF IInv, SenderInv
<1>2. /\ sender.signalingState # "closed"
      /\ restarts' = restarts + 1
      /\ raced' = (raced \/ sender.offering # <<>>)
      /\ UNCHANGED <<receiver, toSender, starts, wanted, skippedStops, refusedMids, orphanMids, crossed>>
  BY DEF restartIce
<1>3. sender' = t /\ Send(toReceiver, <<msg>>)
  BY <1>1 DEF restartIce, SenderType
<1>4. marked \in Seq(AwaitingOp) /\ NamesNoMid(marked) /\ (sender.offering = <<>> => marked = <<>>)
  BY <1>1, MarkedOperations
<1> HIDE DEF marked
<1>5. /\ s \in SenderType /\ s.offering = marked
      /\ s.publications = sender.publications /\ s.pending = sender.pending
      /\ s.mlines = sender.mlines /\ s.made = sender.made
  BY <1>1, <1>4, OfferingUpdate
<1> HIDE DEF s
<1>6. /\ t \in SenderType
      /\ t.local = s.mlines /\ t.offer = s.offer + 1 /\ t.signalingState = "have-local-offer"
      /\ t.publications = s.publications /\ t.pending = s.pending
      /\ t.offering = s.offering /\ t.mlines = s.mlines /\ t.made = s.made
  BY <1>5, OfferingType
<1> HIDE DEF t
<1>7. msg \in Offers /\ msg.kind = "restartIce" /\ msg.mlines = sender.mlines
  BY <1>5, <1>6, SenderFields DEF Offers
<1>8. \A x : ~About(msg, x)
  BY <1>7 DEF About
<1> HIDE DEF msg
<1>9. /\ toReceiver' \in Seq(Offers) /\ lost' \in Nat
      /\ (toReceiver' = r /\ lost' = lost) \/ (toReceiver' = toReceiver /\ lost' # 0)
  <2>1. (toReceiver' = toReceiver \o <<msg>> /\ lost' = lost) \/ (lost' = lost + 1 /\ toReceiver' = toReceiver)
    BY <1>3 DEF Send
  <2>2. lost' \in Nat
    BY <1>1, <2>1
  <2>3. /\ toReceiver' \in Seq(Offers)
        /\ \/ toReceiver' = Append(toReceiver, msg) /\ lost' = lost
           \/ toReceiver' = toReceiver /\ lost' = lost + 1 /\ lost' # 0
    <3>1. TypeOK /\ toReceiver \in Seq(Offers) /\ msg \in Offers
      BY <1>1, <1>7
    <3> HIDE DEF r, n
    <3> QED BY ONLY <3>1, <2>1, <2>2, SendOne
  <2> QED BY <2>2, <2>3
<1>10. TypeOK'
  <2>1. restarts' \in Nat /\ raced' \in BOOLEAN
    BY <1>1, <1>2
  <2> QED BY <1>1, <1>2, <1>3, <1>6, <1>9, <2>1 DEF TypeOK
<1>11. ~raced' => ~raced /\ sender.offering = <<>> /\ t.offering = <<>>
  BY <1>1, <1>2, <1>4, <1>5, <1>6
<1>12. SenderInv'
  <2>1. NamesNoMid(toReceiver')
    <3>1. NamesNoMid(r)
      BY <1>1, <1>7, NamesAppend
    <3> QED BY <1>1, <1>9, <3>1
  <2>2. DistinctLines(t) /\ NamesNoMid(t.offering)
    BY <1>1, <1>4, <1>5, <1>6 DEF DistinctLines
  <2>3. ~raced' => OneAwaits(t)
    BY <1>11 DEF OneAwaits
  <2> QED BY <1>3, <1>6, <2>1, <2>2, <2>3 DEF SenderInv
<1>13. OneExchange'
  <2>1. restarts' # 0
    BY <1>1, <1>2
  <2> QED BY <2>1 DEF OneExchange
<1>14. PendingIsWanted'
  <2> SUFFICES ASSUME ~raced, skippedStops = {}
               PROVE  Waits(t) /\ wanted = t.publications \cup Waiting(t)
    BY <1>2, <1>3, <1>11 DEF PendingIsWanted
  <2>1. Waits(sender) /\ wanted = sender.publications \cup Waiting(sender)
    BY <1>1 DEF PendingIsWanted
  <2>2. t.pending = sender.pending /\ t.publications = sender.publications /\ Busy(t)
    BY <1>5, <1>6 DEF Busy
  <2> QED BY <2>1, <2>2 DEF Waits, Waiting
<1>15. BookInv'
  <2> DEFINE info == receiver.publicationInfo
  <2> SUFFICES ASSUME Clean, lost' = 0, ~raced'
               PROVE  Announced(info, toReceiver') /\ \A x \in Pub : Agreed(t, info, toReceiver', x)
    <3>1. lost' = 0 => lost = 0
      BY <1>9
    <3> QED BY <1>2, <1>3, <1>11, <3>1 DEF BookInv, Clean
  <2>1. toReceiver' = r
    BY <1>9
  <2>2. Announced(info, toReceiver) /\ \A x \in Pub : Agreed(sender, info, toReceiver, x)
    BY <1>1, <1>2 DEF BookInv
  <2>3. ASSUME NEW x \in Pub
        PROVE  \E m \in 0..sender.made :
                  /\ Book(info, r, n + 1, x, m)
                  /\ m # NoMid <=> x \in sender.publications
                  /\ x \in MediaPubs => LinesOf(sender.mlines, x) = IF m = NoMid THEN {} ELSE {Line(m, x)}
    <3>1. PICK m \in 0..sender.made :
             /\ Promised(sender, info, toReceiver, x, m)
             /\ m # NoMid <=> x \in sender.publications
             /\ x \in MediaPubs => LinesOf(sender.mlines, x) = IF m = NoMid THEN {} ELSE {Line(m, x)}
      BY <2>2 DEF Agreed
    <3>2. Book(info, toReceiver, n, x, m)
      BY <1>11, <3>1 DEF Promised
    <3>3. Book(info, r, n + 1, x, m)
      BY <1>1, <1>7, <1>8, <3>2, BookAppend
    <3> QED BY <3>1, <3>3
  <2>4. Announced(info, r)
    <3>1. sender.mlines \in Seq(MLine)
      BY <1>1, SenderFields
    <3>2. \A x \in MediaPubs : \E m :
              /\ Book(info, r, n + 1, x, m)
              /\ LinesOf(sender.mlines, x) = IF m = NoMid THEN {} ELSE {Line(m, x)}
      BY <2>3 DEF Pub
    <3> QED BY <1>1, <1>7, <2>2, <3>1, <3>2, AnnouncedAppend
  <2>5. Len(r) = n + 1
    BY <1>1, <1>7, AppendProperties
  <2>6. /\ t.offering = <<>> /\ t.made = sender.made /\ t.publications = sender.publications
        /\ t.mlines = sender.mlines
    BY <1>5, <1>6, <1>11
  <2> HIDE DEF r, n
  <2>7. \A x \in Pub : Agreed(t, info, r, x)
    BY <2>3, <2>5, <2>6 DEF Agreed, Promised
  <2> QED BY <2>1, <2>4, <2>7
<1>16. TracksAreKnown'
  <2>1. lost' = 0 => lost = 0
    BY <1>9
  <2> QED BY <1>1, <1>2, <1>11, <2>1 DEF TracksAreKnown
<1> QED BY <1>10, <1>12, <1>13, <1>14, <1>15, <1>16 DEF IInv

(***************************************************************************)
(* The description is answered.                                            *)
(***************************************************************************)
LEMMA AnsweredFields ==
    ASSUME NEW s \in SenderType, NEW ms \in SUBSET Mid
    PROVE  LET t == [s EXCEPT !.signalingState = "stable", !.isNegotiating = FALSE, !.answered = ms]
           IN  /\ t \in SenderType /\ ~Busy(t) /\ SameBook(s, t)
               /\ t.pending = s.pending /\ t.signalingState = "stable"
<1> DEFINE a == [s EXCEPT !.signalingState = "stable"]
           b == [a EXCEPT !.isNegotiating = FALSE]
           t == [b EXCEPT !.answered = ms]
<1>1. a \in SenderType
  BY SenderUpdate
<1>2. a.signalingState = "stable" /\ SameBook(s, a) /\ a.pending = s.pending
  BY DEF SenderType, SameBook
<1>3. [s EXCEPT !.signalingState = "stable", !.isNegotiating = FALSE, !.answered = ms] = t
  BY DEF SenderType
<1> HIDE DEF a
<1>4. b \in SenderType
  BY <1>1, SenderUpdate
<1>5. /\ ~b.isNegotiating /\ b.signalingState = a.signalingState /\ SameBook(a, b)
      /\ b.pending = a.pending
  BY <1>1 DEF SenderType, SameBook
<1> HIDE DEF b
<1>6. t \in SenderType
  BY <1>4, SenderUpdate
<1>7. /\ t.isNegotiating = b.isNegotiating /\ t.signalingState = b.signalingState /\ SameBook(b, t)
      /\ t.pending = b.pending
  BY <1>4 DEF SenderType, SameBook
<1> HIDE DEF t
<1> QED BY <1>2, <1>3, <1>5, <1>6, <1>7 DEF SameBook, Busy
LEMMA HandleReceiverAnswerKeeps == ASSUME IInv, handleReceiverAnswer PROVE IInv'
<1> DEFINE msg  == Head(toSender)
           ms   == Range(msg.mids)
           rest == Tail(sender.pending)
           h    == Head(sender.pending)
           u    == [sender EXCEPT !.signalingState = "stable", !.isNegotiating = FALSE, !.answered = ms]
           v    == [u EXCEPT !.pending = rest]
           t    == resolvePendingSender(u)
           InBooks(x) == /\ x \in SenderType /\ DistinctLines(x) /\ NamesNoMid(x.offering)
                         /\ x.signalingState = "stable"
                         /\ ~raced => OneAwaits(x)
           OneOf(x)   == restarts = 0 => Len(x.offering) <= 1 /\ (Len(x.offering) = 1 => x.isNegotiating)
           Wanted(x)  == ~raced /\ skippedStops = {} => Waits(x) /\ wanted = x.publications \cup Waiting(x)
           Known(x)   == Clean => \A y \in Pub : Agreed(x, receiver.publicationInfo, toReceiver, y)
<1>1. /\ TypeOK /\ SenderInv /\ OneExchange /\ PendingIsWanted /\ BookInv /\ TracksAreKnown
      /\ sender \in SenderType /\ DistinctLines(sender) /\ NamesNoMid(sender.offering)
      /\ toSender \in Seq(Answers) /\ sender.pending \in Seq(PendingOp)
      /\ Len(toReceiver) \in Nat /\ Len(toSender) \in Nat /\ Len(sender.offering) \in Nat
  BY TypeOKFields, SenderFields DEF IInv, SenderInv
<1>2. /\ toSender # <<>> /\ sender.signalingState = "have-local-offer"
      /\ toSender' = Tail(toSender)
      /\ crossed' = (crossed \/ msg.offer # sender.offer)
      /\ UNCHANGED <<receiver, toReceiver, starts, restarts, lost, wanted, skippedStops, refusedMids,
                     orphanMids, raced>>
  BY DEF handleReceiverAnswer, Fits, counters
<1>3. sender' = t
  BY DEF handleReceiverAnswer
<1>4. /\ msg \in Answers /\ msg = toSender[1] /\ toSender' \in Seq(Answers)
      /\ Len(toSender) # 0 /\ Len(toSender') = Len(toSender) - 1
  <2>1. /\ msg = toSender[1] /\ toSender' \in Seq(Answers)
        /\ Len(toSender) # 0 /\ Len(toSender') = Len(toSender) - 1
    BY <1>1, <1>2, EmptySeq, HeadTailProperties
  <2>2. 1 \in 1..Len(toSender)
    BY <1>1, <2>1
  <2> QED BY <1>1, <2>1, <2>2, ElementOfSeq
<1>5. ms \in SUBSET Mid
  <2>1. msg.mids \in Seq(Mid)
    BY <1>4 DEF Answers
  <2>2. DOMAIN msg.mids = 1..Len(msg.mids) /\ \A i \in 1..Len(msg.mids) : msg.mids[i] \in Mid
    BY <2>1, ElementOfSeq
  <2> QED BY <2>2 DEF Range
<1>6. sender.pending # <<>> => rest \in Seq(PendingOp)
  BY <1>1, HeadTailProperties
<1>7. /\ u \in SenderType /\ ~Busy(u) /\ SameBook(sender, u)
      /\ u.pending = sender.pending /\ u.signalingState = "stable"
  BY <1>1, <1>5, AnsweredFields
<1>8. ASSUME sender.pending # <<>>
      PROVE  /\ v \in SenderType /\ ~Busy(v) /\ SameBook(sender, v)
             /\ v.pending = rest /\ v.signalingState = "stable"
  <2>1. rest \in Seq(PendingOp)
    BY <1>6, <1>8
  <2> HIDE DEF rest, u
  <2>2. v \in SenderType
    BY <1>7, <2>1, SenderUpdate
  <2> QED BY <1>7, <2>2 DEF SenderType, SameBook, Busy
<1>9. \/ sender.pending = <<>> /\ t = u
      \/ sender.pending # <<>> /\ h.op = "add" /\ t = add(v, h.pub)
      \/ sender.pending # <<>> /\ h.op # "add" /\ t = remove(v, h.pub)
  BY <1>7 DEF resolvePendingSender
<1> HIDE DEF t, u, v, ms, msg
<1>10. ~raced => sender.offering = <<>>
  BY <1>1, <1>2 DEF SenderInv, OneAwaits
<1>11. /\ DistinctLines(u) /\ NamesNoMid(u.offering) /\ u.offering = sender.offering
       /\ sender.pending # <<>> =>
             DistinctLines(v) /\ NamesNoMid(v.offering) /\ v.offering = sender.offering
  BY <1>1, <1>7, <1>8 DEF DistinctLines, SameBook
<1>12. Clean => \A y \in Pub : Agreed(sender, receiver.publicationInfo, toReceiver, y)
  BY <1>1, <1>2 DEF BookInv
<1>13. ASSUME restarts = 0
       PROVE  /\ Len(toReceiver) = 0 /\ Len(toSender') = 0 /\ ~crossed' /\ ~raced
  <2>1. ~raced /\ ~crossed /\ Len(sender.offering) + Len(toReceiver) + Len(toSender) <= 1
    BY <1>1, <1>13 DEF OneExchange, UnderWay
  <2>2. Len(toReceiver) = 0 /\ Len(toSender) = 1
    BY <1>1, <1>4, <2>1
  <2>3. msg.offer = sender.offer
    BY <1>1, <1>4, <1>13, <2>2 DEF OneExchange
  <2>4. ~crossed'
    BY <1>2, <2>1, <2>3
  <2> QED BY <1>4, <2>1, <2>2, <2>4
<1>14. ASSUME sender.pending = <<>>, t = u
       PROVE  InBooks(t) /\ OneOf(t) /\ Wanted(t) /\ Known(t)
  <2>1. InBooks(u) /\ OneOf(u)
    <3>1. ~raced => u.offering = <<>>
      BY <1>10, <1>11
    <3>2. ~raced => OneAwaits(u)
      BY <3>1 DEF OneAwaits
    <3>3. OneOf(u)
      <4>1. restarts = 0 => Len(u.offering) = 0
        BY <1>13, <3>1
      <4> QED BY <4>1
    <3> QED BY <1>7, <1>11, <3>2, <3>3
  <2>2. Wanted(u)
    <3> SUFFICES ASSUME ~raced, skippedStops = {}
                 PROVE  Waits(u) /\ wanted = u.publications \cup Waiting(u)
      OBVIOUS
    <3>1. wanted = sender.publications \cup Waiting(sender)
      BY <1>1 DEF PendingIsWanted
    <3> QED BY <1>7, <1>14, <3>1 DEF Waits, Waiting, SameBook
  <2>3. Known(u)
    BY <1>7, <1>12, SameBookAgrees
  <2> QED BY <1>14, <2>1, <2>2, <2>3
<1>15. ASSUME sender.pending # <<>>
       PROVE  InBooks(t) /\ OneOf(t) /\ Wanted(t) /\ Known(t)
  <2>1. h \in PendingOp /\ h.pub \in Pub
    <3>1. h = sender.pending[1] /\ 1 \in 1..Len(sender.pending)
      BY <1>1, <1>15, EmptySeq, HeadTailProperties
    <3>2. h \in PendingOp
      BY <1>1, <3>1, ElementOfSeq
    <3> HIDE DEF h
    <3> QED BY <3>2 DEF PendingOp
  <2>2. ASSUME ~raced, skippedStops = {}
        PROVE  /\ h.op = "add" /\ h.pub \notin sender.publications
               /\ Waiting(v) = Waiting(sender) \ {h.pub} /\ h.pub \in Waiting(sender)
               /\ Waits(sender) /\ wanted = sender.publications \cup Waiting(sender)
    <3>1. Waits(sender) /\ wanted = sender.publications \cup Waiting(sender)
      BY <1>1, <2>2 DEF PendingIsWanted
    <3> QED BY <1>1, <1>8, <1>15, <3>1, WaitingTail
  <2> HIDE DEF h
  <2>3. ASSUME NEW op \in AwaitingOp, NEW ps, t \in SenderType, DistinctLines(t), Started(v, t, op, ps),
               ~op.stale, op.kind = "unproduce" => op.mid = NoMid
        PROVE  InBooks(t) /\ OneOf(t)
    <3>1. t.offering = Append(sender.offering, op) /\ t.isNegotiating /\ t.signalingState = "stable"
      BY <1>8, <1>11, <1>15, <2>3 DEF Started, SameOffers
    <3>2. NamesNoMid(t.offering)
      <4>1. sender.offering \in Seq(AwaitingOp)
        BY <1>1, SenderFields
      <4> QED BY <1>1, <2>3, <3>1, <4>1, NamesAppend
    <3>3. ASSUME ~raced PROVE t.offering = <<op>>
      <4>1. sender.offering = <<>>
        BY <1>10, <3>3
      <4>2. t.offering = Append(sender.offering, op)
        BY <3>1
      <4> QED BY <4>1, <4>2
    <3>4. ASSUME ~raced PROVE Len(t.offering) = 1 /\ t.offering[1] = op
      <4>1. t.offering = <<op>>
        BY <3>3, <3>4
      <4> QED BY <4>1
    <3>5. ASSUME ~raced PROVE OneAwaits(t)
      BY <2>3, <3>1, <3>4, <3>5 DEF OneAwaits
    <3>6. OneOf(t)
      BY <1>13, <3>1, <3>4
    <3> QED BY <2>3, <3>1, <3>2, <3>5, <3>6
  <2>4. CASE h.op = "add" /\ t = add(v, h.pub)
    <3> DEFINE op == Op("produce", h.pub, midFor(v, h.pub))
    <3>1. /\ t \in SenderType /\ DistinctLines(t) /\ midFor(v, h.pub) \in Mid
          /\ Started(v, t, op, v.publications \cup {h.pub})
      BY <1>8, <1>11, <1>15, <2>1, <2>4, AddStarts
    <3>2. op \in AwaitingOp /\ ~op.stale /\ op.kind = "produce"
      BY <2>1, <3>1 DEF Op, AwaitingOp, Mid
    <3> HIDE DEF op
    <3>3. InBooks(t) /\ OneOf(t)
      BY <2>3, <3>1, <3>2
    <3>4. Wanted(t)
      <4> SUFFICES ASSUME ~raced, skippedStops = {}
                   PROVE  Waits(t) /\ wanted = t.publications \cup Waiting(t)
        OBVIOUS
      <4>1. t.pending = Tail(sender.pending) /\ t.publications = sender.publications \cup {h.pub} /\ Busy(t)
        BY <1>8, <1>15, <3>1 DEF Started, SameBook, Busy
      <4>2. Waits(t) /\ Waiting(t) = Waiting(sender) \ {h.pub}
        BY <1>1, <1>15, <2>2, <4>1, WaitingTail DEF h
      <4> QED BY <2>2, <4>1, <4>2
    <3>5. Known(t)
      <4> SUFFICES ASSUME Clean, NEW y \in Pub PROVE Agreed(t, receiver.publicationInfo, toReceiver, y)
        OBVIOUS
      <4>1. v.offering = <<>> /\ h.pub \notin v.publications
        BY <1>8, <1>10, <1>15, <2>2 DEF Clean, SameBook
      <4>2. \A x \in Pub : Agreed(v, receiver.publicationInfo, toReceiver, x)
        BY <1>8, <1>12, <1>15, SameBookAgrees
      <4> QED BY <1>8, <1>11, <1>15, <2>1, <2>4, <4>1, <4>2, AddAgrees
    <3> QED BY <3>3, <3>4, <3>5
  <2>5. CASE h.op # "add" /\ t = remove(v, h.pub)
    <3>1. Wanted(t) /\ Known(t)
      BY <2>2, <2>5 DEF Clean
    <3>2. CASE h.pub \notin v.publications
      <4>1. t = v
        BY <2>5, <3>2 DEF remove
      <4>2. ASSUME ~raced PROVE v.offering = <<>>
        BY <1>10, <1>11, <1>15, <4>2
      <4>3. ~raced => OneAwaits(v)
        BY <4>2 DEF OneAwaits
      <4>4. OneOf(v)
        <5>1. restarts = 0 => Len(v.offering) = 0
          BY <1>13, <4>2
        <5> QED BY <5>1
      <4> QED BY <1>8, <1>11, <1>15, <3>1, <4>1, <4>3, <4>4
    <3>3. CASE h.pub \in v.publications
      <4> DEFINE op == Op("unproduce", h.pub, NoMid)
      <4>1. t \in SenderType /\ DistinctLines(t) /\ Started(v, t, op, v.publications \ {h.pub})
        BY <1>8, <1>11, <1>15, <2>5, <3>3, RemoveStarts
      <4>2. op \in AwaitingOp /\ ~op.stale /\ op.mid = NoMid
        BY <2>1 DEF Op, AwaitingOp, NoMid
      <4> HIDE DEF op
      <4> QED BY <2>3, <3>1, <4>1, <4>2
    <3> QED BY <3>2, <3>3
  <2> QED BY <1>9, <1>15, <2>4, <2>5 DEF h
<1>16. InBooks(t) /\ OneOf(t) /\ Wanted(t) /\ Known(t)
  BY <1>9, <1>14, <1>15
<1> HIDE DEF InBooks, OneOf, Wanted, Known
<1>17. TypeOK'
  <2>1. crossed' \in BOOLEAN
    BY <1>1, <1>2 DEF TypeOK
  <2> QED BY <1>1, <1>2, <1>3, <1>4, <1>16, <2>1 DEF TypeOK, InBooks
<1>18. SenderInv'
  BY <1>1, <1>2, <1>3, <1>16 DEF SenderInv, InBooks
<1>19. OneExchange'
  <2> SUFFICES ASSUME restarts = 0 PROVE OneExchange'
    BY <1>2 DEF OneExchange
  <2>1. Len(t.offering) <= 1 /\ (Len(t.offering) = 1 => t.isNegotiating)
    BY <1>16 DEF OneOf
  <2>2. Len(t.offering) \in Nat
    BY <1>16, SenderFields, LenProperties DEF InBooks
  <2>3. toReceiver' = toReceiver /\ Len(toReceiver) = 0 /\ Len(toSender') = 0 /\ ~crossed' /\ ~raced'
    BY <1>2, <1>13
  <2>4. UnderWay' = Len(t.offering)
    BY <1>3, <2>2, <2>3 DEF UnderWay
  <2> QED BY <1>3, <2>1, <2>3, <2>4 DEF OneExchange
<1>20. PendingIsWanted'
  BY <1>2, <1>3, <1>16 DEF PendingIsWanted, Wanted
<1>21. BookInv'
  <2> SUFFICES ASSUME Clean
               PROVE  /\ Announced(receiver.publicationInfo, toReceiver)
                      /\ \A y \in Pub : Agreed(t, receiver.publicationInfo, toReceiver, y)
    BY <1>2, <1>3 DEF BookInv, Clean
  <2> QED BY <1>1, <1>16 DEF BookInv, Known
<1>22. TracksAreKnown'
  BY <1>1, <1>2 DEF TracksAreKnown
<1> QED BY <1>17, <1>18, <1>19, <1>20, <1>21, <1>22 DEF IInv

LEMMA IgnoreReceiverAnswerKeeps == ASSUME IInv, ignoreReceiverAnswer PROVE IInv'
<1>1. /\ TypeOK /\ SenderInv /\ OneExchange /\ PendingIsWanted /\ BookInv /\ TracksAreKnown
      /\ toSender \in Seq(Answers)
      /\ Len(toReceiver) \in Nat /\ Len(toSender) \in Nat /\ Len(sender.offering) \in Nat
  BY TypeOKFields DEF IInv
<1>2. /\ toSender # <<>> /\ toSender' = Tail(toSender)
      /\ UNCHANGED <<sender, receiver, toReceiver, starts, restarts, lost, wanted, skippedStops, refusedMids,
                     orphanMids, crossed, raced>>
  BY DEF ignoreReceiverAnswer, counters, history
<1>3. /\ toSender' \in Seq(Answers) /\ Len(toSender) # 0 /\ Len(toSender') = Len(toSender) - 1
      /\ \A i \in 1..Len(toSender') : toSender'[i] = toSender[i + 1]
  BY <1>1, <1>2, EmptySeq, HeadTailProperties
<1>4. OneExchange'
  <2> SUFFICES ASSUME restarts = 0 PROVE OneExchange'
    BY <1>2 DEF OneExchange
  <2>1. \A i \in 1..Len(toSender') : i + 1 \in 1..Len(toSender) /\ toSender'[i] = toSender[i + 1]
    BY <1>1, <1>3
  <2>2. \A i \in 1..Len(toSender') : toSender'[i].offer = sender.offer
    BY <1>1, <2>1 DEF OneExchange
  <2>3. Len(toReceiver) + Len(sender.offering) + Len(toSender') = 0
    BY <1>1, <1>3 DEF OneExchange, UnderWay
  <2> QED BY <1>1, <1>2, <1>3, <2>2, <2>3 DEF OneExchange, UnderWay
<1>5. TypeOK' /\ SenderInv' /\ PendingIsWanted' /\ BookInv' /\ TracksAreKnown'
  BY <1>1, <1>2, <1>3 DEF TypeOK, SenderInv, PendingIsWanted, BookInv, Clean, TracksAreKnown
<1> QED BY <1>4, <1>5 DEF IInv
-----------------------------------------------------------------------------
(* The subscribing person                                                  *)

LEMMA ReceiverUpdate ==
    ASSUME NEW r \in ReceiverType
    PROVE  /\ r.publicationInfo \in [Pub -> Nat] /\ r.streams \in SUBSET Pub
           /\ r.trackMids \in SUBSET Mid /\ r.closed \in BOOLEAN
           /\ \A f \in [Pub -> Nat] : [r EXCEPT !.publicationInfo = f] \in ReceiverType
           /\ \A S \in SUBSET Pub : [r EXCEPT !.streams = S] \in ReceiverType
           /\ \A S \in SUBSET Mid : [r EXCEPT !.trackMids = S] \in ReceiverType
           /\ \A b \in BOOLEAN : [r EXCEPT !.closed = b] \in ReceiverType
BY DEF ReceiverType

LEMMA HeadOffer ==
    ASSUME IInv, toReceiver # <<>>
    PROVE  LET msg == Head(toReceiver)
           IN  /\ msg = toReceiver[1] /\ msg \in Offers
               /\ msg.offer \in Nat /\ msg.mlines \in Seq(MLine)
               /\ msg.kind # "restartIce" => msg.pub \in Pub /\ msg.mid \in Nat
               /\ msg.kind = "unproduce" => msg.mid = NoMid
               /\ Tail(toReceiver) \in Seq(Offers) /\ NamesNoMid(Tail(toReceiver))
               /\ Len(toReceiver) \in Nat /\ 1 \in 1..Len(toReceiver)
               /\ Len(Tail(toReceiver)) = Len(toReceiver) - 1
               /\ \A i \in 1..Len(Tail(toReceiver)) : Tail(toReceiver)[i] = toReceiver[i + 1]
<1> DEFINE msg == Head(toReceiver)
<1>1. toReceiver \in Seq(Offers) /\ NamesNoMid(toReceiver)
  BY TypeOKFields DEF IInv, SenderInv
<1>2. /\ msg = toReceiver[1] /\ Len(toReceiver) \in Nat /\ 1 \in 1..Len(toReceiver)
      /\ Tail(toReceiver) \in Seq(Offers) /\ Len(Tail(toReceiver)) = Len(toReceiver) - 1
      /\ \A i \in 1..Len(Tail(toReceiver)) : Tail(toReceiver)[i] = toReceiver[i + 1]
  <2>1. Len(toReceiver) \in Nat /\ Len(toReceiver) # 0
    BY <1>1, EmptySeq
  <2> QED BY <1>1, <2>1, HeadTailProperties
<1>3. msg \in Offers
  BY <1>1, <1>2, ElementOfSeq
<1>4. msg.kind = "unproduce" => msg.mid = NoMid
  BY <1>1, <1>2 DEF NamesNoMid
<1>5. NamesNoMid(Tail(toReceiver))
  BY <1>1, NamesTail
<1> HIDE DEF msg
<1>6. /\ msg.offer \in Nat /\ msg.mlines \in Seq(MLine)
      /\ msg.kind # "restartIce" => msg.pub \in Pub /\ msg.mid \in Nat
  BY <1>3 DEF Offers
<1> QED BY <1>2, <1>3, <1>4, <1>5, <1>6 DEF msg

\* An offer is taken off the queue, and its answer may be sent.
Handled == /\ toReceiver # <<>> /\ toReceiver' = Tail(toReceiver)
           /\ UNCHANGED <<sender, starts, restarts, wanted, skippedStops, crossed, raced>>
           /\ toSender' \in Seq(Answers)
           /\ \/ toSender' = toSender
              \/ \E a \in Answers : toSender' = Append(toSender, a) /\ a.offer = Head(toReceiver).offer

LEMMA HandledKeeps == ASSUME IInv, Handled PROVE SenderInv' /\ OneExchange' /\ PendingIsWanted'
<1>1. /\ TypeOK /\ SenderInv /\ OneExchange /\ PendingIsWanted
      /\ toSender \in Seq(Answers) /\ Len(toSender) \in Nat /\ Len(sender.offering) \in Nat
  BY TypeOKFields DEF IInv
<1>2. /\ toReceiver # <<>> /\ toReceiver' = Tail(toReceiver)
      /\ UNCHANGED <<sender, restarts, wanted, skippedStops, crossed, raced>>
  BY DEF Handled
<1>3. /\ Head(toReceiver) = toReceiver[1] /\ NamesNoMid(toReceiver')
      /\ Len(toReceiver) \in Nat /\ 1 \in 1..Len(toReceiver) /\ Len(toReceiver') = Len(toReceiver) - 1
  BY <1>2, HeadOffer
<1>4. SenderInv' /\ PendingIsWanted'
  BY <1>1, <1>2, <1>3 DEF SenderInv, PendingIsWanted
<1>5. OneExchange'
  <2> SUFFICES ASSUME restarts = 0 PROVE OneExchange'
    BY <1>2 DEF OneExchange
  <2>1. /\ ~raced /\ ~crossed
        /\ Len(sender.offering) + Len(toReceiver) + Len(toSender) <= 1
        /\ Len(sender.offering) + Len(toReceiver) + Len(toSender) = 1 => sender.isNegotiating
        /\ \A i \in 1..Len(toReceiver) : toReceiver[i].offer = sender.offer
        /\ \A i \in 1..Len(toSender) : toSender[i].offer = sender.offer
    BY <1>1 DEF OneExchange, UnderWay
  <2>2. Len(sender.offering) = 0 /\ Len(toReceiver') = 0 /\ Len(toSender) = 0 /\ sender.isNegotiating
    BY <1>1, <1>3, <2>1
  <2>3. Head(toReceiver).offer = sender.offer
    BY <1>3, <2>1
  <2>4. /\ Len(toSender') \in 0..1
        /\ \A i \in 1..Len(toSender') : toSender'[i].offer = sender.offer
    <3>1. CASE toSender' = toSender
      BY <2>1, <2>2, <3>1
    <3>2. CASE \E a \in Answers : toSender' = Append(toSender, a) /\ a.offer = Head(toReceiver).offer
      <4>1. PICK a \in Answers : toSender' = Append(toSender, a) /\ a.offer = sender.offer
        BY <2>3, <3>2
      <4>2. Len(toSender') = 1 /\ toSender'[1] = a
        BY <1>1, <2>2, <4>1, AppendProperties
      <4> QED BY <4>1, <4>2
    <3> QED BY <3>1, <3>2 DEF Handled
  <2>5. UnderWay' = Len(toSender')
    <3>1. UnderWay' = Len(sender'.offering) + Len(toReceiver') + Len(toSender')
      BY DEF UnderWay
    <3>2. Len(sender'.offering) = 0 /\ Len(toSender') \in Nat
      BY <1>2, <2>2, <2>4
    <3> QED BY <2>2, <3>1, <3>2
  <2>6. toReceiver' = Tail(toReceiver) /\ \A i \in 1..Len(toReceiver') : FALSE
    BY <1>2, <2>2
  <2> QED BY <1>2, <2>1, <2>2, <2>4, <2>5, <2>6 DEF OneExchange
<1> QED BY <1>4, <1>5

(***************************************************************************)
(* An offer is answered: the information says what the message says, and   *)
(* knows every track of the offer.                                         *)
(***************************************************************************)
LEMMA SendAnswerKeeps ==
    ASSUME IInv, toReceiver # <<>>, ~receiver.closed, NEW info \in [Pub -> Nat],
           \A p \in Pub : info[p] = IF About(Head(toReceiver), p) THEN Head(toReceiver).mid
                                    ELSE receiver.publicationInfo[p],
           sendAnswer(Head(toReceiver), info), toReceiver' = Tail(toReceiver),
           UNCHANGED <<sender, starts, restarts, wanted, skippedStops, refusedMids, crossed, raced>>
    PROVE  IInv'
<1> DEFINE msg    == Head(toReceiver)
           q      == toReceiver
           old    == receiver.publicationInfo
           lines  == ActiveLines(msg.mlines)
           fresh  == {l \in lines : l.pub # AppLine /\ l.mid \notin receiver.trackMids}
           lost2  == {l.mid : l \in {k \in fresh : \A p \in Pub : info[p] # k.mid}}
           answer == [kind |-> "answer", offer |-> msg.offer, mids |-> Mids(msg.mlines)]
           tracks == receiver.trackMids \cup {l.mid : l \in lines}
           shown  == receiver.streams \cup {p \in Pub : \E l \in fresh : info[p] = l.mid}
           r1     == [receiver EXCEPT !.publicationInfo = info]
           r2     == [r1 EXCEPT !.trackMids = tracks]
           r3     == [r2 EXCEPT !.streams = shown]
<1>1. /\ TypeOK /\ BookInv /\ TracksAreKnown
      /\ receiver \in ReceiverType /\ toSender \in Seq(Answers) /\ lost \in Nat /\ toReceiver \in Seq(Offers)
      /\ orphanMids \subseteq Mid
  BY TypeOKFields DEF IInv
<1>2. /\ msg = q[1] /\ msg.offer \in Nat /\ msg.mlines \in Seq(MLine)
      /\ Tail(q) \in Seq(Offers) /\ Len(q) \in Nat /\ 1 \in 1..Len(q) /\ Len(Tail(q)) = Len(q) - 1
      /\ \A i \in 1..Len(Tail(q)) : Tail(q)[i] = q[i + 1]
  BY HeadOffer
<1>3. lines \subseteq MLine
  BY <1>2, LinesType
<1>4. /\ receiver' = [receiver EXCEPT !.publicationInfo = info, !.trackMids = tracks, !.streams = shown]
      /\ orphanMids' = orphanMids \cup lost2
      /\ Send(toSender, <<answer>>)
  BY <1>1 DEF sendAnswer, ReceiverType
<1>5. answer \in Answers /\ answer.offer = msg.offer
  <2>1. Mids(msg.mlines) \in Seq(Mid)
    BY <1>2, MidsType
  <2> QED BY <1>2, <2>1 DEF Answers
<1> HIDE DEF answer
<1>6. /\ toSender' \in Seq(Answers) /\ lost' \in Nat /\ (lost' = 0 => lost = 0)
      /\ toSender' = toSender \/ toSender' = Append(toSender, answer)
  <2>1. (toSender' = toSender \o <<answer>> /\ lost' = lost) \/ (lost' = lost + 1 /\ toSender' = toSender)
    BY <1>4 DEF Send
  <2>2. lost' \in Nat
    BY <1>1, <2>1
  <2>3. /\ toSender' \in Seq(Answers)
        /\ \/ toSender' = Append(toSender, answer) /\ lost' = lost
           \/ toSender' = toSender /\ lost' = lost + 1 /\ lost' # 0
    <3>1. TypeOK /\ toSender \in Seq(Answers) /\ answer \in Answers
      BY <1>1, <1>5
    <3> QED BY ONLY <3>1, <2>1, <2>2, SendOne
  <2> QED BY <2>2, <2>3
<1>7. SenderInv' /\ OneExchange' /\ PendingIsWanted'
  <2>1. Handled
    BY <1>5, <1>6 DEF Handled
  <2> QED BY <2>1, HandledKeeps
<1>8. tracks \in SUBSET Mid /\ shown \in SUBSET Pub /\ lost2 \subseteq Mid
  BY <1>1, <1>3, ReceiverUpdate DEF MLine
<1>9. receiver' \in ReceiverType /\ receiver'.publicationInfo = info /\ receiver'.closed = receiver.closed
  <2>1. receiver' = r3
    BY <1>1, <1>4 DEF ReceiverType
  <2> HIDE DEF tracks, shown
  <2>2. r1 \in ReceiverType /\ r1.publicationInfo = info /\ r1.closed = receiver.closed
    <3>1. r1 \in ReceiverType
      BY <1>1, ReceiverUpdate
    <3> QED BY <1>1, <3>1 DEF ReceiverType
  <2> HIDE DEF r1
  <2>3. r2 \in ReceiverType /\ r2.publicationInfo = info /\ r2.closed = receiver.closed
    <3>1. r2 \in ReceiverType
      BY <1>8, <2>2, ReceiverUpdate
    <3> QED BY <2>2, <3>1 DEF ReceiverType
  <2> HIDE DEF r2
  <2>4. r3 \in ReceiverType
    BY <1>8, <2>3, ReceiverUpdate
  <2> QED BY <2>1, <2>3, <2>4 DEF ReceiverType
<1>10. TypeOK'
  BY <1>1, <1>2, <1>4, <1>6, <1>8, <1>9 DEF TypeOK
<1>11. Clean' => Clean
  BY <1>6, <1>9 DEF Clean
<1>12. ASSUME NEW p \in Pub, NEW m, NEW i \in 1..Len(q), Book(old, q, i, p, m)
       PROVE  Book(info, Tail(q), i - 1, p, m)
  <2>1. info[p] = (IF About(q[1], p) THEN q[1].mid ELSE old[p])
    BY <1>2
  <2> HIDE DEF q, old
  <2>2. q \in Seq(Offers) /\ q # <<>>
    BY <1>1 DEF q
  <2> QED BY <1>12, <2>1, <2>2, BookTail
<1>13. ASSUME Announced(old, q), NEW i \in 1..Len(q), NEW l \in ActiveLines(q[i].mlines), l.pub # AppLine
       PROVE  l.pub \in Pub /\ Book(info, Tail(q), i - 1, l.pub, l.mid)
  <2>1. q[i].mlines \in Seq(MLine)
    <3>1. q[i] \in Offers
      BY <1>1, ElementOfSeq
    <3> QED BY <3>1 DEF Offers
  <2>2. l \in MLine
    BY <2>1, LinesType
  <2>3. l.pub \in Pub
    BY <1>13, <2>2 DEF MLine, Pub
  <2>4. Book(old, q, i, l.pub, l.mid)
    BY <1>13 DEF Announced
  <2> QED BY <1>12, <2>3, <2>4
<1>14. BookInv'
  <2> SUFFICES ASSUME Clean
               PROVE  /\ Announced(info, Tail(q))
                      /\ sender.signalingState # "closed" => \A p \in Pub : Agreed(sender, info, Tail(q), p)
    BY <1>9, <1>11 DEF BookInv
  <2>1. Announced(old, q) /\ (sender.signalingState # "closed" => \A p \in Pub : Agreed(sender, old, q, p))
    BY <1>1 DEF BookInv
  <2>2. \A i \in 1..Len(Tail(q)) : i + 1 \in 1..Len(q) /\ (i + 1) - 1 = i /\ Tail(q)[i] = q[i + 1]
    BY <1>2
  <2>3. ASSUME NEW i \in 1..Len(Tail(q)), NEW l \in ActiveLines(Tail(q)[i].mlines), l.pub # AppLine
        PROVE  Book(info, Tail(q), i, l.pub, l.mid)
    <3>1. Book(info, Tail(q), (i + 1) - 1, l.pub, l.mid)
      BY <1>13, <2>1, <2>2, <2>3
    <3> QED BY <2>2, <3>1
  <2>4. ASSUME sender.signalingState # "closed", NEW p \in Pub PROVE Agreed(sender, info, Tail(q), p)
    <3>1. PICK m \in 0..sender.made :
             /\ Promised(sender, old, q, p, m)
             /\ m # NoMid <=> p \in sender.publications
             /\ p \in MediaPubs => LinesOf(sender.mlines, p) = IF m = NoMid THEN {} ELSE {Line(m, p)}
      BY <2>1, <2>4 DEF Agreed
    <3>2. Len(q) \in 1..Len(q) /\ Len(q) - 1 = Len(Tail(q))
      BY <1>2
    <3>3. Book(old, q, Len(q), p, m) => Book(info, Tail(q), Len(Tail(q)), p, m)
      BY <1>12, <3>2
    <3>4. Promised(sender, info, Tail(q), p, m)
      BY <3>1, <3>3 DEF Promised
    <3> QED BY <3>1, <3>4 DEF Agreed
  <2>5. Announced(info, Tail(q))
    BY <2>3 DEF Announced
  <2> QED BY <2>4, <2>5
<1>15. TracksAreKnown'
  <2> SUFFICES ASSUME ~raced, skippedStops = {}, refusedMids = {}, lost = 0 PROVE orphanMids' = {}
    BY <1>6 DEF TracksAreKnown
  <2>1. Announced(old, q) /\ orphanMids = {}
    BY <1>1 DEF BookInv, Clean, TracksAreKnown
  <2>2. ASSUME NEW l \in fresh PROVE \E p \in Pub : info[p] = l.mid
    <3>1. l \in ActiveLines(q[1].mlines) /\ l.pub # AppLine
      BY <1>2
    <3>2. l.pub \in Pub /\ Book(info, Tail(q), 1 - 1, l.pub, l.mid)
      BY <1>2, <1>13, <2>1, <3>1
    <3>3. 1 - 1 = 0
      OBVIOUS
    <3>4. Book(info, Tail(q), 0, l.pub, l.mid)
      BY <3>2, <3>3
    <3>5. info[l.pub] = l.mid
      BY <3>4, BookNow
    <3> QED BY <3>2, <3>5
  <2>3. lost2 = {}
    BY <2>2
  <2> QED BY <1>4, <2>1, <2>3
<1> QED BY <1>7, <1>10, <1>14, <1>15 DEF IInv
LEMMA HandleSenderProduceKeeps == ASSUME IInv, handleSenderProduce PROVE IInv'
<1> DEFINE msg  == Head(toReceiver)
           info == [receiver.publicationInfo EXCEPT ![msg.pub] = msg.mid]
           missing == Unaccounted(msg.mlines, info)
<1>1. /\ TypeOK /\ toSender \in Seq(Answers) /\ receiver \in ReceiverType
      /\ receiver.publicationInfo \in [Pub -> Nat]
  BY TypeOKFields, ReceiverUpdate DEF IInv
<1>2. /\ toReceiver # <<>> /\ msg.kind = "produce" /\ ~receiver.closed /\ toReceiver' = Tail(toReceiver)
      /\ UNCHANGED <<sender, starts, restarts, wanted, skippedStops, crossed, raced>>
      /\ \/ sendAnswer(msg, info) /\ UNCHANGED refusedMids
         \/ /\ missing # {}
            /\ receiver' = [receiver EXCEPT !.publicationInfo = info]
            /\ refusedMids' = refusedMids \cup missing
            /\ UNCHANGED <<toSender, lost, orphanMids>>
  BY DEF handleSenderProduce, Incoming
<1>3. msg.pub \in Pub /\ msg.mid \in Nat /\ msg.mlines \in Seq(MLine) /\ Tail(toReceiver) \in Seq(Offers)
  BY <1>2, HeadOffer
<1>4. /\ info \in [Pub -> Nat]
      /\ \A p \in Pub : info[p] = IF About(msg, p) THEN msg.mid ELSE receiver.publicationInfo[p]
  BY <1>1, <1>2, <1>3 DEF About
<1>5. CASE sendAnswer(msg, info) /\ UNCHANGED refusedMids
  <2> HIDE DEF info
  <2> QED BY <1>2, <1>4, <1>5, SendAnswerKeeps
<1>6. CASE /\ missing # {}
           /\ receiver' = [receiver EXCEPT !.publicationInfo = info]
           /\ refusedMids' = refusedMids \cup missing
           /\ UNCHANGED <<toSender, lost, orphanMids>>
  <2> HIDE DEF info
  <2>1. receiver' \in ReceiverType
    BY <1>1, <1>4, <1>6, ReceiverUpdate
  <2>2. missing \subseteq Mid
    <3>1. ActiveLines(msg.mlines) \subseteq MLine
      BY <1>3, LinesType
    <3> QED BY <3>1 DEF Unaccounted, MLine
  <2>3. Handled
    BY <1>1, <1>2, <1>6 DEF Handled
  <2>4. SenderInv' /\ OneExchange' /\ PendingIsWanted'
    BY <2>3, HandledKeeps
  <2> HIDE DEF missing
  <2>5. TypeOK'
    BY <1>1, <1>2, <1>3, <1>6, <2>1, <2>2 DEF TypeOK
  <2>6. refusedMids' # {}
    BY <1>6
  <2>7. BookInv' /\ TracksAreKnown'
    BY <2>6 DEF BookInv, Clean, TracksAreKnown
  <2> QED BY <2>4, <2>5, <2>7 DEF IInv
<1> QED BY <1>2, <1>5, <1>6

LEMMA HandleSenderUnproduceKeeps == ASSUME IInv, handleSenderUnproduce PROVE IInv'
<1> DEFINE msg  == Head(toReceiver)
           info == [receiver.publicationInfo EXCEPT ![msg.pub] = NoMid]
<1>1. receiver.publicationInfo \in [Pub -> Nat]
  BY TypeOKFields, ReceiverUpdate DEF IInv
<1>2. /\ toReceiver # <<>> /\ msg.kind = "unproduce" /\ ~receiver.closed /\ toReceiver' = Tail(toReceiver)
      /\ UNCHANGED <<sender, starts, restarts, wanted, skippedStops, refusedMids, crossed, raced>>
      /\ sendAnswer(msg, info)
  BY DEF handleSenderUnproduce, Incoming
<1>3. msg.pub \in Pub /\ msg.mid = NoMid
  BY <1>2, HeadOffer
<1>4. /\ info \in [Pub -> Nat]
      /\ \A p \in Pub : info[p] = IF About(msg, p) THEN msg.mid ELSE receiver.publicationInfo[p]
  BY <1>1, <1>2, <1>3 DEF About, NoMid
<1> HIDE DEF info
<1> QED BY <1>2, <1>4, SendAnswerKeeps

LEMMA HandleSenderRestartIceKeeps == ASSUME IInv, handleSenderRestartIce PROVE IInv'
<1> DEFINE msg  == Head(toReceiver)
           info == receiver.publicationInfo
<1>1. info \in [Pub -> Nat]
  BY TypeOKFields, ReceiverUpdate DEF IInv
<1>2. /\ toReceiver # <<>> /\ msg.kind = "restartIce" /\ ~receiver.closed /\ toReceiver' = Tail(toReceiver)
      /\ UNCHANGED <<sender, starts, restarts, wanted, skippedStops, refusedMids, crossed, raced>>
      /\ sendAnswer(msg, info)
  BY DEF handleSenderRestartIce, Incoming
<1>3. \A p \in Pub : info[p] = IF About(msg, p) THEN msg.mid ELSE receiver.publicationInfo[p]
  BY <1>2 DEF About
<1> QED BY <1>1, <1>2, <1>3, SendAnswerKeeps

LEMMA IgnoreOfferKeeps == ASSUME IInv, ignoreOffer PROVE IInv'
<1>1. /\ TypeOK /\ TracksAreKnown /\ toSender \in Seq(Answers)
  BY TypeOKFields DEF IInv
<1>2. /\ toReceiver # <<>> /\ receiver.closed /\ toReceiver' = Tail(toReceiver)
      /\ UNCHANGED <<sender, receiver, toSender, starts, restarts, lost, wanted, skippedStops, refusedMids,
                     orphanMids, crossed, raced>>
  BY DEF ignoreOffer, counters, history
<1>3. SenderInv' /\ OneExchange' /\ PendingIsWanted'
  <2>1. Handled
    BY <1>1, <1>2 DEF Handled
  <2> QED BY <2>1, HandledKeeps
<1>4. Tail(toReceiver) \in Seq(Offers)
  BY <1>2, HeadOffer
<1>5. TypeOK' /\ TracksAreKnown'
  BY <1>1, <1>2, <1>4 DEF TypeOK, TracksAreKnown
<1>6. BookInv'
  BY <1>2 DEF BookInv, Clean
<1> QED BY <1>3, <1>5, <1>6 DEF IInv

LEMMA OndatachannelKeeps == ASSUME IInv, NEW p \in DataPubs, ondatachannel(p) PROVE IInv'
<1> DEFINE s == [sender EXCEPT !.opening = sender.opening \ {p}]
           r == [receiver EXCEPT !.streams = receiver.streams \cup {p}]
<1>1. /\ TypeOK /\ SenderInv /\ OneExchange /\ PendingIsWanted /\ BookInv /\ TracksAreKnown
      /\ sender \in SenderType /\ receiver \in ReceiverType
  BY TypeOKFields DEF IInv
<1>2. /\ sender' = s /\ receiver' = r
      /\ UNCHANGED <<toReceiver, toSender, starts, restarts, lost, wanted, skippedStops, refusedMids,
                     orphanMids, crossed, raced>>
  BY <1>1 DEF ondatachannel, counters, history
<1>3. s \in SenderType
  BY <1>1, SenderFields, SenderUpdate
<1>4. /\ SameBook(sender, s) /\ s.pending = sender.pending /\ s.signalingState = sender.signalingState
      /\ s.isNegotiating = sender.isNegotiating /\ s.offer = sender.offer
  BY <1>1 DEF SenderType, SameBook
<1>5. r \in ReceiverType /\ r.publicationInfo = receiver.publicationInfo /\ r.closed = receiver.closed
  <2>1. r \in ReceiverType
    <3>1. receiver.streams \cup {p} \in SUBSET Pub
      BY <1>1, ReceiverUpdate DEF Pub
    <3> QED BY <1>1, <3>1, ReceiverUpdate
  <2> QED BY <1>1, <2>1 DEF ReceiverType
<1> HIDE DEF s, r
<1>6. TypeOK'
  BY <1>1, <1>2, <1>3, <1>5 DEF TypeOK
<1>7. SenderInv'
  BY <1>1, <1>2, <1>4 DEF SenderInv, DistinctLines, OneAwaits, SameBook
<1>8. OneExchange'
  BY <1>1, <1>2, <1>4 DEF OneExchange, UnderWay, SameBook
<1>9. PendingIsWanted'
  <2> SUFFICES ASSUME ~raced, skippedStops = {} PROVE Waits(s) /\ wanted = s.publications \cup Waiting(s)
    BY <1>2 DEF PendingIsWanted
  <2>1. Waits(sender) /\ wanted = sender.publications \cup Waiting(sender)
    BY <1>1 DEF PendingIsWanted
  <2> QED BY <1>4, <2>1 DEF Waits, Waiting, Busy, SameBook
<1>10. BookInv'
  <2> SUFFICES ASSUME Clean
               PROVE  /\ Announced(receiver.publicationInfo, toReceiver)
                      /\ s.signalingState # "closed" =>
                            \A x \in Pub : Agreed(s, receiver.publicationInfo, toReceiver, x)
    BY <1>2, <1>5 DEF BookInv, Clean
  <2> QED BY <1>1, <1>4, SameBookAgrees DEF BookInv
<1>11. TracksAreKnown'
  BY <1>1, <1>2 DEF TracksAreKnown
<1> QED BY <1>6, <1>7, <1>8, <1>9, <1>10, <1>11 DEF IInv

LEMMA StopSubscribingKeeps == ASSUME IInv, NEW p \in Pub, stopSubscribing(p) PROVE IInv'
<1> DEFINE left == [receiver EXCEPT !.streams = receiver.streams \ {p}]
           shut == [left EXCEPT !.closed = TRUE]
<1>1. /\ TypeOK /\ SenderInv /\ OneExchange /\ PendingIsWanted /\ BookInv /\ TracksAreKnown
      /\ receiver \in ReceiverType
  BY TypeOKFields DEF IInv
<1>2. /\ receiver' = left \/ receiver' = shut
      /\ UNCHANGED <<sender, toReceiver, toSender, starts, restarts, lost, wanted, skippedStops, refusedMids,
                     orphanMids, crossed, raced>>
  BY DEF stopSubscribing, counters, history
<1>3. left \in ReceiverType /\ left.publicationInfo = receiver.publicationInfo /\ left.closed = receiver.closed
  <2>1. left \in ReceiverType
    <3>1. receiver.streams \ {p} \in SUBSET Pub
      BY <1>1, ReceiverUpdate
    <3> QED BY <1>1, <3>1, ReceiverUpdate
  <2> QED BY <1>1, <2>1 DEF ReceiverType
<1> HIDE DEF left
<1>4. shut \in ReceiverType /\ shut.closed
  <2>1. shut \in ReceiverType
    BY <1>3, ReceiverUpdate
  <2> QED BY <1>3, <2>1 DEF ReceiverType
<1> HIDE DEF shut
<1>5. TypeOK' /\ SenderInv' /\ OneExchange' /\ PendingIsWanted' /\ TracksAreKnown'
  BY <1>1, <1>2, <1>3, <1>4 DEF TypeOK, SenderInv, OneExchange, UnderWay, PendingIsWanted, TracksAreKnown
<1>6. BookInv'
  BY <1>1, <1>2, <1>3, <1>4 DEF BookInv, Clean
<1> QED BY <1>5, <1>6 DEF IInv

-----------------------------------------------------------------------------
(* Theorems                                                                *)

LEMMA InitIInv == Init => IInv
<1> SUFFICES ASSUME Init PROVE IInv
  OBVIOUS
<1>1. /\ sender = [publications |-> {}, opening |-> {}, pending |-> <<>>,
                   isNegotiating |-> FALSE, signalingState |-> "stable",
                   offering |-> <<>>, mlines |-> <<>>, made |-> 0,
                   local |-> <<>>, offer |-> 0, answered |-> {}]
      /\ receiver = [publicationInfo |-> [p \in Pub |-> NoMid], streams |-> {},
                     trackMids |-> {}, closed |-> FALSE]
      /\ toReceiver = <<>> /\ toSender = <<>> /\ wanted = {} /\ skippedStops = {}
      /\ orphanMids = {} /\ ~crossed /\ ~raced
  BY DEF Init
<1>2. TypeOK
  <2>1. /\ <<>> \in Seq(PendingOp) /\ <<>> \in Seq(AwaitingOp) /\ <<>> \in Seq(MLine)
        /\ <<>> \in Seq(Offers) /\ <<>> \in Seq(Answers)
    OBVIOUS
  <2>2. sender \in SenderType
    BY <1>1, <2>1 DEF SenderType
  <2>3. [p \in Pub |-> NoMid] \in [Pub -> Nat]
    BY DEF NoMid
  <2>4. receiver \in ReceiverType
    BY <1>1, <2>3 DEF ReceiverType
  <2> QED BY <2>1, <2>2, <2>4 DEF Init, TypeOK
<1>3. SenderInv
  BY <1>1 DEF SenderInv, DistinctLines, NamesNoMid, OneAwaits
<1>4. OneExchange
  <2>1. Len(sender.offering) = 0 /\ Len(toReceiver) = 0 /\ Len(toSender) = 0
    BY <1>1
  <2>2. UnderWay = 0
    BY <2>1 DEF UnderWay
  <2> QED BY <1>1, <2>1, <2>2 DEF OneExchange
<1>5. PendingIsWanted
  <2>1. Len(sender.pending) = 0 /\ sender.pending = <<>> /\ sender.publications = {}
    BY <1>1
  <2> QED BY <1>1, <2>1 DEF PendingIsWanted, Waits, Waiting
<1>6. BookInv
  <2> DEFINE info == receiver.publicationInfo
  <2>1. Announced(info, toReceiver)
    BY <1>1 DEF Announced
  <2>2. ASSUME NEW p \in Pub PROVE Agreed(sender, info, toReceiver, p)
    <3>1. info[p] = NoMid /\ Len(toReceiver) = 0 /\ sender.offering = <<>>
      BY <1>1
    <3>2. Promised(sender, info, toReceiver, p, NoMid)
      BY <3>1 DEF Promised, Book
    <3>3. LinesOf(sender.mlines, p) = {}
      BY <1>1 DEF LinesOf, ActiveLines, Range
    <3>4. NoMid \in 0..sender.made /\ sender.publications = {}
      BY <1>1 DEF NoMid
    <3> QED BY <3>2, <3>3, <3>4 DEF Agreed
  <2> QED BY <2>1, <2>2 DEF BookInv
<1>7. TracksAreKnown
  BY <1>1 DEF TracksAreKnown
<1> QED BY <1>2, <1>3, <1>4, <1>5, <1>6, <1>7 DEF IInv

LEMMA StepIInv == IInv /\ [Next]_vars => IInv'
<1> SUFFICES ASSUME IInv, [Next]_vars PROVE IInv'
  OBVIOUS
<1>1. ASSUME NEW p \in Pub, startPublishing(p) PROVE IInv'
  BY <1>1, StartPublishingKeeps
<1>2. ASSUME NEW p \in Pub, stopPublishing(p) PROVE IInv'
  BY <1>2, StopPublishingKeeps
<1>3. CASE restartIce
  BY <1>3, RestartIceKeeps
<1>4. CASE Handle
  <2>1. CASE sendOffer
    BY <2>1, SendOfferKeeps
  <2>2. CASE handleReceiverAnswer \/ ignoreReceiverAnswer
    BY <2>2, HandleReceiverAnswerKeeps, IgnoreReceiverAnswerKeeps
  <2>3. CASE handleSenderProduce \/ handleSenderUnproduce \/ handleSenderRestartIce \/ ignoreOffer
    BY <2>3, HandleSenderProduceKeeps, HandleSenderUnproduceKeeps, HandleSenderRestartIceKeeps, IgnoreOfferKeeps
  <2> QED BY <1>4, <2>1, <2>2, <2>3 DEF Handle
<1>5. ASSUME NEW p \in DataPubs, ondatachannel(p) PROVE IInv'
  BY <1>5, OndatachannelKeeps
<1>6. ASSUME NEW p \in Pub, stopSubscribing(p) PROVE IInv'
  BY <1>6, StopSubscribingKeeps
<1>7. CASE UNCHANGED vars
  <2>1. UNCHANGED <<sender, receiver, toReceiver, toSender, starts, restarts, lost,
                    wanted, skippedStops, refusedMids, orphanMids, crossed, raced>>
    BY <1>7 DEF vars, counters, history
  <2>2. /\ TypeOK => TypeOK'
        /\ SenderInv => SenderInv'
        /\ OneExchange => OneExchange'
        /\ PendingIsWanted => PendingIsWanted'
        /\ BookInv => BookInv'
        /\ TracksAreKnown => TracksAreKnown'
    BY <2>1 DEF TypeOK, SenderInv, OneExchange, UnderWay, PendingIsWanted, BookInv, Clean, TracksAreKnown
  <2> QED BY <2>2 DEF IInv
<1> QED BY <1>1, <1>2, <1>3, <1>4, <1>5, <1>6, <1>7 DEF Next

(***************************************************************************)
(* At rest every publication has one m-line, and every one that is wanted  *)
(* is published.                                                           *)
(***************************************************************************)
LEMMA RestAgrees == IInv => AgreementAtRest
<1> SUFFICES ASSUME IInv, AtRest, Intact, ~raced, skippedStops = {}, refusedMids = {}
             PROVE  /\ sender.pending = <<>>
                    /\ \A p \in Pub : (receiver.publicationInfo[p] # NoMid) <=> p \in wanted
                    /\ \A p \in wanted \cap MediaPubs :
                          LinesOf(sender.mlines, p) = {Line(receiver.publicationInfo[p], p)}
  BY DEF AgreementAtRest, IInv
<1> DEFINE info == receiver.publicationInfo
<1>1. sender.pending = <<>> /\ wanted = sender.publications
  <2>1. Waits(sender) /\ wanted = sender.publications \cup Waiting(sender)
    BY DEF IInv, PendingIsWanted
  <2>2. sender.pending = <<>>
    BY <2>1 DEF Waits, AtRest
  <2>3. Waiting(sender) = {}
    BY <2>2 DEF Waiting
  <2> QED BY <2>1, <2>2, <2>3
<1>2. ASSUME NEW p \in Pub
      PROVE  /\ info[p] # NoMid <=> p \in sender.publications
             /\ p \in MediaPubs => LinesOf(sender.mlines, p) = IF info[p] = NoMid THEN {} ELSE {Line(info[p], p)}
  <2>1. Agreed(sender, info, toReceiver, p)
    BY DEF IInv, BookInv, Clean, Intact
  <2>2. PICK m : /\ Promised(sender, info, toReceiver, p, m)
                 /\ m # NoMid <=> p \in sender.publications
                 /\ p \in MediaPubs => LinesOf(sender.mlines, p) = IF m = NoMid THEN {} ELSE {Line(m, p)}
    BY <2>1 DEF Agreed
  <2>3. Len(toReceiver) = 0 /\ sender.offering = <<>>
    BY DEF AtRest
  <2>4. info[p] = m
    BY <2>2, <2>3, BookNow DEF Promised
  <2> QED BY <2>2, <2>4
<1> QED BY <1>1, <1>2 DEF Pub

\* In every state the two sides agree on what they have and on what is under way.
THEOREM NegotiationInvariance == Spec => []IInv
<1>1. Init => IInv
  BY InitIInv
<1>2. IInv /\ [Next]_vars => IInv'
  BY StepIInv
<1> QED BY <1>1, <1>2, PTL DEF Spec

(***************************************************************************)
(* When nothing is under way, the receiver knows exactly the publications  *)
(* that are wanted, each by the m-line that carries it (Sender.add and     *)
(* remove, _resolvePendingSender, Receiver's handlers), unless a stop came *)
(* during a negotiation, an ICE restart during an add or remove, an offer  *)
(* was refused or a message was lost.                                      *)
(***************************************************************************)
THEOREM NegotiationAgrees == Spec => []AgreementAtRest
BY NegotiationInvariance, RestAgrees, PTL

(***************************************************************************)
(* A track never reaches the receiver before the information which         *)
(* publication it belongs to, under the same conditions: sendAnswer stores *)
(* publicationInfo before setRemoteDescription raises ontrack, and an ICE  *)
(* restart offers only m-lines whose messages are ahead of it.             *)
(***************************************************************************)
THEOREM TracksAlwaysKnown == Spec => []TracksAreKnown
<1>1. IInv => TracksAreKnown
  BY DEF IInv
<1> QED BY <1>1, NegotiationInvariance, PTL

(***************************************************************************)
(* Without an ICE restart _isNegotiating and the pending queue keep one    *)
(* offer or answer under way, so no answer is taken for another one's.     *)
(***************************************************************************)
THEOREM AnswersAlwaysMatch == Spec => []CrossedOnlyByRestart
<1>1. IInv => CrossedOnlyByRestart
  <2>1. IInv /\ restarts = 0 => ~crossed
    BY DEF IInv, OneExchange
  <2>2. IInv => restarts \in Nat
    BY TypeOKFields DEF IInv
  <2> QED BY <2>1, <2>2 DEF CrossedOnlyByRestart
<1> QED BY <1>1, NegotiationInvariance, PTL
=============================================================================
