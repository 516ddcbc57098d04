----------------------------- MODULE Mailbox_proofs -----------------------------
(***************************************************************************)
(* Proofs about Mailbox, for every set of connections.                     *)
(***************************************************************************)
EXTENDS Mailbox, SequenceTheorems, TLAPS

\* A new message is the last one and the only one with its number.
LEMMA SubmitStep ==
    ASSUME BoxInv, NEW c \in Conns, Submit(c)
    PROVE  BoxInv'
<1> DEFINE n == Len(origin) + 1
<1>1. /\ origin \in Seq(Conns) /\ Len(origin) \in Nat
      /\ DOMAIN origin = 1..Len(origin)
  BY LenProperties DEF BoxInv, BoxTypeOK
<1>2. /\ origin' \in Seq(Conns) /\ DOMAIN origin' = 1..n
      /\ \A i \in DOMAIN origin : origin'[i] = origin[i]
  BY <1>1, AppendProperties, LenProperties DEF Submit
<1>3. pending' = pending \cup {n} /\ inbox' = inbox
  BY DEF Submit
<1>4. DOMAIN origin \subseteq DOMAIN origin' /\ n \in DOMAIN origin'
  BY <1>1, <1>2
<1>5. \A d \in Conns : \A k \in DOMAIN inbox[d] : inbox[d][k] \in DOMAIN origin
  BY ElementOfSeq, LenProperties DEF BoxInv, BoxTypeOK
<1>6. BoxTypeOK'
  <2>1. \A d \in Conns : inbox[d] \in Seq(DOMAIN origin')
    <3> SUFFICES ASSUME NEW d \in Conns PROVE inbox[d] \in Seq(DOMAIN origin')
      OBVIOUS
    <3>1. inbox[d] \in Seq(DOMAIN origin)
      BY DEF BoxInv, BoxTypeOK
    <3> QED
      BY <1>4, <3>1, LenProperties, SeqDef, ElementOfSeq
  <2>2. inbox' \in [Conns -> Seq(DOMAIN origin')]
    BY <1>3, <2>1 DEF BoxInv, BoxTypeOK
  <2>3. pending' \subseteq DOMAIN origin'
    BY <1>3, <1>4 DEF BoxInv, BoxTypeOK
  <2> QED
    BY <1>2, <2>2, <2>3 DEF BoxTypeOK
<1>7. Once' /\ InOrder'
  BY <1>2, <1>3, <1>5 DEF BoxInv, Once, InOrder
<1>8. WrittenFirst'
  <2> SUFFICES ASSUME NEW d \in Conns, NEW k \in DOMAIN inbox[d], NEW j \in pending',
                      origin'[inbox[d][k]] = origin'[j]
               PROVE  inbox[d][k] < j
    BY <1>3 DEF WrittenFirst
  <2>1. CASE j = n
    BY <1>1, <1>5, <2>1
  <2>2. CASE j \in pending
    <3>1. j \in DOMAIN origin
      BY <2>2 DEF BoxInv, BoxTypeOK
    <3> QED
      BY <1>2, <1>5, <2>2, <3>1 DEF BoxInv, WrittenFirst
  <2> QED
    BY <1>3, <2>1, <2>2
<1> QED
  BY <1>6, <1>7, <1>8 DEF BoxInv

\* The oldest of its sender goes to the end of one inbox.
LEMMA DeliverStep ==
    ASSUME BoxInv, NEW i \in pending, NEW c \in Conns, Deliver(i, c)
    PROVE  BoxInv'
<1> DEFINE s == inbox[c]
           n == Len(s) + 1
<1>1. /\ s \in Seq(DOMAIN origin) /\ i \in DOMAIN origin
      /\ inbox \in [Conns -> Seq(DOMAIN origin)] /\ Len(s) \in Nat
      /\ DOMAIN origin \subseteq Nat
  BY LenProperties DEF BoxInv, BoxTypeOK
<1>2. origin' = origin /\ pending' = pending \ {i} /\ inbox' = [inbox EXCEPT ![c] = Append(s, i)]
  BY DEF Deliver
<1>3. /\ inbox'[c] \in Seq(DOMAIN origin) /\ DOMAIN inbox'[c] = DOMAIN s \cup {n}
      /\ n \notin DOMAIN s /\ DOMAIN s = 1..Len(s)
      /\ inbox'[c][n] = i
      /\ \A k \in DOMAIN s : inbox'[c][k] = s[k]
  <2>1. inbox'[c] = Append(s, i)
    BY <1>1, <1>2
  <2>2. /\ Append(s, i) \in Seq(DOMAIN origin) /\ Len(Append(s, i)) = n
        /\ \A k \in 1..Len(s) : Append(s, i)[k] = s[k]
        /\ Append(s, i)[n] = i
    BY <1>1, AppendProperties
  <2>3. DOMAIN s = 1..Len(s) /\ DOMAIN Append(s, i) = 1..n
    BY <1>1, <2>2, LenProperties
  <2> QED
    BY <1>1, <2>1, <2>2, <2>3
<1>4. \A d \in Conns : d # c => inbox'[d] = inbox[d]
  BY <1>1, <1>2
<1>5. \A d \in Conns : \A k \in DOMAIN inbox[d] :
         inbox[d][k] \in DOMAIN origin /\ inbox[d][k] # i
         /\ (origin[inbox[d][k]] = origin[i] => inbox[d][k] < i)
  BY <1>1, ElementOfSeq, LenProperties DEF BoxInv, WrittenFirst
<1>6. BoxTypeOK'
  BY <1>1, <1>2, <1>3, <1>4 DEF BoxInv, BoxTypeOK
<1>7. Once'
  <2> SUFFICES ASSUME NEW d \in Conns, NEW e \in Conns,
                      NEW k \in DOMAIN inbox'[d], NEW l \in DOMAIN inbox'[e],
                      inbox'[d][k] = inbox'[e][l]
               PROVE  d = e /\ k = l
    BY DEF Once
  <2>1. CASE d = c /\ k = n
    BY <1>3, <1>4, <1>5, <2>1
  <2>2. CASE e = c /\ l = n
    BY <1>3, <1>4, <1>5, <2>2
  <2>3. CASE ~(d = c /\ k = n) /\ ~(e = c /\ l = n)
    BY <1>3, <1>4, <2>3 DEF BoxInv, Once
  <2> QED
    BY <2>1, <2>2, <2>3
<1>8. InOrder'
  <2> SUFFICES ASSUME NEW d \in Conns, NEW k \in DOMAIN inbox'[d], NEW l \in DOMAIN inbox'[d],
                      k < l, origin[inbox'[d][k]] = origin[inbox'[d][l]]
               PROVE  inbox'[d][k] < inbox'[d][l]
    BY <1>2 DEF InOrder
  <2>1. CASE d # c
    BY <1>4, <2>1 DEF BoxInv, InOrder
  <2>2. CASE d = c /\ l = n
    <3>1. k \in DOMAIN s
      BY <1>3, <2>2
    <3> QED
      BY <1>3, <1>5, <2>2, <3>1
  <2>3. CASE d = c /\ l # n
    <3>1. l \in DOMAIN s /\ k \in DOMAIN s
      BY <1>1, <1>3, <2>3
    <3> QED
      BY <1>3, <2>3, <3>1 DEF BoxInv, InOrder
  <2> QED
    BY <2>1, <2>2, <2>3
<1>9. WrittenFirst'
  <2> SUFFICES ASSUME NEW d \in Conns, NEW k \in DOMAIN inbox'[d], NEW j \in pending \ {i},
                      origin[inbox'[d][k]] = origin[j]
               PROVE  inbox'[d][k] < j
    BY <1>2 DEF WrittenFirst
  <2>1. CASE d = c /\ k = n
    <3>1. j \in Nat /\ i \in Nat
      BY <1>1 DEF BoxInv, BoxTypeOK
    <3>2. i <= j
      BY <1>3, <2>1 DEF Deliver
    <3> QED
      BY <1>3, <2>1, <3>1, <3>2
  <2>2. CASE ~(d = c /\ k = n)
    BY <1>3, <1>4, <2>2 DEF BoxInv, WrittenFirst
  <2> QED
    BY <2>1, <2>2
<1> QED
  BY <1>6, <1>7, <1>8, <1>9 DEF BoxInv

\* The invariant of every mailbox.
THEOREM BoxInductive == BoxSpec => []BoxInv
<1>1. BoxInit => BoxInv
  BY DEF BoxInit, BoxInv, BoxTypeOK, Once, InOrder, WrittenFirst
<1>2. BoxInv /\ [BoxNext]_boxVars => BoxInv'
  <2> SUFFICES ASSUME BoxInv, [BoxNext]_boxVars PROVE BoxInv'
    OBVIOUS
  <2>1. ASSUME Lose \/ UNCHANGED boxVars PROVE BoxInv'
    BY <2>1 DEF BoxInv, BoxTypeOK, Once, InOrder, WrittenFirst, Lose, boxVars
  <2> QED
    BY <2>1, SubmitStep, DeliverStep DEF BoxNext
<1> QED
  BY <1>1, <1>2, PTL DEF BoxSpec

=============================================================================
