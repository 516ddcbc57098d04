-------------------------- MODULE MessageText_proofs --------------------------
(***************************************************************************)
(* Proofs about MessageText for all 16-bit lengths and all screen names.   *)
(***************************************************************************)
EXTENDS MessageText, TLAPS

\* An accepted text was in the request, behind three headers of four bytes.
TextInRequest ==
    stage \notin {"request", "refused"} => text = 0 \/ text + 12 <= request.data

IInv == TypeOK /\ TextAsAnnounced /\ TextInRequest /\ TextWritten /\ OnlyLongestFail

\* All that is needed of the number of 16-bit values, besides arithmetic.
LEMMA WordIsLarge == Word \in Nat /\ Word > 1000
  BY SMT DEF Word

\* What the type of a request says of its numbers.
LEMMA RequestFacts ==
  ASSUME TypeOK
  PROVE  /\ request.to \in Nat /\ from \in Nat /\ from <= 255
         /\ request.data \in Nat /\ request.caps \in Nat
         /\ request.frag \in Nat /\ request.frag < Word
         /\ text \in Nat /\ field \in Nat /\ text < Word
         /\ request.data + 26 <= Word
  <1>1. /\ request \in Requests /\ from \in Names
        /\ text \in 0..Word - 1 /\ field \in 0..Word - 1
    BY DEF TypeOK
  <1>3. /\ request.to \in Names /\ request.data \in Lengths /\ request.caps \in Lengths
        /\ request.frag \in Lengths /\ request.others \in {0, 4, 8}
    BY <1>1 DEF Requests
  <1>4. request.others \in Nat
    BY <1>3
  <1>5. 10 + 8 + 2 + (1 + request.to) + (4 + request.data) + request.others < Word
    BY DEF TypeOK, InOneFrame, TLVLen, SnacHeaderLen
  <1>6. ASSUME NEW n \in Names PROVE n \in Nat /\ n <= 255
    BY TextAssumption, SMT
  <1>7. ASSUME NEW n \in Lengths PROVE n \in Nat /\ n < Word
    BY TextAssumption, WordIsLarge, SMT
  <1>8. request.to \in Nat /\ from \in Nat /\ from <= 255
    BY <1>1, <1>3, <1>6
  <1>9. /\ request.data \in Nat /\ request.caps \in Nat
        /\ request.frag \in Nat /\ request.frag < Word
    BY <1>3, <1>7
  <1>10. request.data + 26 <= Word
    BY <1>4, <1>5, <1>8, <1>9, WordIsLarge, SMT
  <1>11. text \in Nat /\ field \in Nat /\ text < Word
    BY <1>1, WordIsLarge, SMT
  <1> QED
    BY <1>8, <1>9, <1>10, <1>11

\* 16-bit subtraction, without the modulus.
LEMMA TextLengthIs ==
  ASSUME TypeOK
  PROVE  TextLength = IF request.frag >= 4 THEN request.frag - 4 ELSE request.frag + (Word - 4)
  <1>1. ASSUME NEW x \in Nat, x < Word
        PROVE  (x + Word - 4) % Word = IF x >= 4 THEN x - 4 ELSE x + (Word - 4)
    BY <1>1, SMT DEF Word
  <1> QED BY <1>1, RequestFacts DEF TextLength

\* A uint16 keeps a number that fits.
LEMMA SmallKept == \A x \in Nat : x < Word => x % Word = x
  BY SMT DEF Word

\* It changes one that does not fit.
LEMMA LargeCut == \A x \in Nat : x >= Word => x % Word # x
  BY SMT DEF Word

-----------------------------------------------------------------------------

\* A request is refused, or its text is as long as it says and in the request.
LEMMA ParseStep == ASSUME IInv, Parse PROVE IInv'
  <1> USE DEF IInv
  <1>0. stage = "request" /\ TypeOK
    BY DEF Parse
  <1>1. CASE stage' = "refused" /\ UNCHANGED <<request, from, text, field>>
    BY <1>0, <1>1 DEF TypeOK, TextAsAnnounced, TextInRequest, TextWritten, OnlyLongestFail, InOneFrame
  <1>2. CASE /\ stage' = "accepted" /\ text' = TextLength
             /\ request.data >= Headers /\ AfterCaps >= Headers /\ TextLength <= Room
             /\ UNCHANGED <<request, from, field>>
    <2>1. AfterCaps \in Nat /\ AfterCaps <= request.data - 4
      BY <1>0, <1>2, RequestFacts, SMT DEF AfterCaps, Seek, Headers
    <2>2. Room \in Nat /\ (Room = 0 \/ Room + 12 <= request.data)
      BY <1>0, <1>2, <2>1, RequestFacts, SMT DEF Room, Seek, Headers
    <2>3. TextLength \in Nat /\ TextLength <= Room
      BY <1>0, <1>2, RequestFacts, TextLengthIs, WordIsLarge, SMT
    <2>4. request.frag >= 4 /\ TextLength = request.frag - 4
      BY <1>0, <2>2, <2>3, RequestFacts, TextLengthIs, WordIsLarge, SMT
    <2>5. TextLength = 0 \/ TextLength + 12 <= request.data
      BY <1>0, <2>2, <2>3, RequestFacts, SMT
    <2>6. TextLength \in 0..Word - 1
      BY <1>0, <2>4, RequestFacts, WordIsLarge, SMT
    <2>7. TypeOK'
      BY <1>0, <1>2, <2>6 DEF TypeOK, InOneFrame
    <2> QED
      BY <1>0, <1>2, <2>4, <2>5, <2>7
      DEF TextAsAnnounced, TextInRequest, TextWritten, OnlyLongestFail
  <1> QED BY <1>0, <1>1, <1>2 DEF Parse

\* The lengths that the goroutine computes, for a text that was in a request.
LEMMA DeliverLengths ==
  ASSUME IInv, stage = "accepted"
  PROVE  /\ ~TLVPanics(FragmentsLen)
         /\ FragmentLength = text + 4 /\ FragmentLength \in 0..Word - 1
         /\ Fits(NoticeLen) <=> text + from <= LongestText
  <1> USE DEF IInv
  <1>1. text + 38 <= Word
    BY RequestFacts, WordIsLarge, SMT DEF TextInRequest
  <1>2. FragmentLength = text + 4 /\ FragmentLength \in 0..Word - 1
    BY <1>1, SmallKept, RequestFacts, WordIsLarge, SMT DEF FragmentLength
  <1>3. TLVAllocated(FragmentsLen) = text + 20
    <2>1. FragmentsLen = text + 16
      BY RequestFacts, SMT DEF FragmentsLen
    <2>2. (text + 16) % Word = text + 16 /\ (4 + (text + 16)) % Word = text + 20
      BY <1>1, SmallKept, RequestFacts, WordIsLarge, SMT
    <2> QED BY <2>1, <2>2 DEF TLVAllocated
  <1>4. NoticeLen = text + from + 75
    BY RequestFacts, SMT DEF NoticeLen, FragmentsLen, TLVLen, SnacHeaderLen
  <1>5. Fits(NoticeLen) <=> text + from + 75 < Word
    BY <1>4, SmallKept, LargeCut, RequestFacts, WordIsLarge, SMT DEF Fits
  <1>6. ~TLVPanics(FragmentsLen)
    BY <1>3, RequestFacts, SMT DEF TLVPanics
  <1>7. Fits(NoticeLen) <=> text + from <= LongestText
    BY <1>5, RequestFacts, WordIsLarge, SMT DEF LongestText
  <1> QED BY <1>2, <1>6, <1>7

\* What is written is what was accepted, or it is too long to be written.
LEMMA DeliverStep == ASSUME IInv, Deliver PROVE IInv'
  <1> USE DEF IInv
  <1>1. /\ stage = "accepted" /\ UNCHANGED <<request, from, text>>
        /\ field' = text + 4 /\ field' \in 0..Word - 1
        /\ stage' = IF text + from <= LongestText THEN "written" ELSE "toolong"
    BY DeliverLengths DEF Deliver
  <1>2. TypeOK'
    BY <1>1 DEF TypeOK, InOneFrame
  <1>3. TextAsAnnounced' /\ TextInRequest' /\ TextWritten'
    BY <1>1 DEF TextAsAnnounced, TextInRequest, TextWritten
  <1>4. OnlyLongestFail'
    <2>1. text \in Nat /\ from \in Nat /\ LongestText \in Int
      BY RequestFacts, WordIsLarge, SMT DEF LongestText
    <2> QED BY <1>1, <2>1, SMT DEF OnlyLongestFail, LongestText
  <1> QED BY <1>2, <1>3, <1>4

\* The invariant, and with it the three properties, for all lengths.
THEOREM Inductive == Spec => []IInv
  <1>1. Init => IInv
    BY WordIsLarge, SMT DEF Init, IInv, TypeOK, TextAsAnnounced, TextInRequest, TextWritten,
                       OnlyLongestFail
  <1>2. IInv /\ [Next]_vars => IInv'
    <2> SUFFICES ASSUME IInv, [Next]_vars PROVE IInv' OBVIOUS
    <2>1. CASE UNCHANGED vars
      BY <2>1 DEF vars, IInv, TypeOK, InOneFrame, TextAsAnnounced, TextInRequest, TextWritten,
                  OnlyLongestFail
    <2> QED BY <2>1, ParseStep, DeliverStep DEF Next
  <1> QED BY <1>1, <1>2, PTL DEF Spec

\* Requests, lengths and stages keep their types; no length leaves 16 bits.
THEOREM TypeCorrect == Spec => []TypeOK
  BY Inductive, PTL DEF IInv

\* Every accepted text is as long as the client announced.
THEOREM Announced == Spec => []TextAsAnnounced
  BY Inductive, PTL DEF IInv

\* No accepted text makes the goroutine panic or write a wrong length.
THEOREM Written == Spec => []TextWritten
  BY Inductive, PTL DEF IInv

\* Only the longest texts are accepted and then cannot be framed.
THEOREM Longest == Spec => []OnlyLongestFail
  BY Inductive, PTL DEF IInv

===============================================================================
