------------------------------ MODULE Link_proofs ------------------------------
(***************************************************************************)
(* Proofs about Link: for any input of a client, cut into reads in any     *)
(* way, the frames that were sent are handled, and who is signed on was    *)
(* named by one of them; for any list of TLVs, what was marshalled is what *)
(* is decoded; for any counter width and any number of goroutines, the     *)
(* greeting comes first and the numbers on the wire are consecutive while  *)
(* Sends do not overlap.                                                   *)
(***************************************************************************)
EXTENDS Link, SequenceTheorems, WellFoundedInduction, TLAPS

\* The next value of the counter is one of its values, and 1 is the first.
LEMMA NextNumber ==
    /\ \A x \in 0..Numbers - 1 : (x + 1) % Numbers \in 0..Numbers - 1
    /\ (0 + 1) % Numbers = 1
    /\ 0 \in 0..Numbers - 1
  <1>1. ASSUME NEW x \in 0..Numbers - 1 PROVE (x + 1) % Numbers \in 0..Numbers - 1
    BY <1>1, SMT, LinkAssumption
  <1>2. (0 + 1) % Numbers = 1
    <2>1. 1 = Numbers * (1 \div Numbers) + (1 % Numbers)
      BY SMT, LinkAssumption
    <2>2. 1 % Numbers \in 0..Numbers - 1
      BY SMT, LinkAssumption
    <2>3. 1 \div Numbers = 0
      BY SMT, LinkAssumption
    <2> QED BY <2>1, <2>2, <2>3, SMT, LinkAssumption
  <1> QED BY <1>1, <1>2, SMT, LinkAssumption

\* The number of the last frame is one of the counter's values.
LEMMA LastSeqType == TypeOK => LastSeq \in 0..Numbers - 1
  <1> SUFFICES ASSUME TypeOK PROVE LastSeq \in 0..Numbers - 1 OBVIOUS
  <1>1. CASE wire = <<>>
    BY <1>1, NextNumber DEF LastSeq
  <1>2. CASE wire # <<>>
    <2>1. wire \in Seq(Frames) BY DEF TypeOK
    <2>2. wire[Len(wire)] \in Frames BY <1>2, <2>1
    <2> QED BY <1>2, <2>2 DEF LastSeq, Frames
  <1> QED BY <1>1, <1>2

\* The handler and the goroutines are the senders.
LEMMA HandlerIsSender == "handler" \in Senders /\ Routines \subseteq Senders
  BY DEF Senders

\* SendInv holds at the start.
LEMMA InitSendInv == Init => SendInv
  <1> SUFFICES ASSUME Init PROVE SendInv OBVIOUS
  <1>1. /\ registered = FALSE /\ greeted = FALSE /\ pc = "top" /\ link = "open"
        /\ seq = 0 /\ sends = 0 /\ wire = <<>> /\ disturbed = FALSE /\ user = <<>>
        /\ ctx = "session"
        /\ sender = [p \in Senders |-> "idle"] /\ input \in Inputs
        /\ reg = [p \in Senders |-> 0] /\ stamp = [p \in Senders |-> 0]
    BY DEF Init
  <1>2. TypeOK
    <2>1. seq \in 0..Numbers - 1 /\ sends \in 0..MaxSends
      BY <1>1, NextNumber, SMT, LinkAssumption
    <2>2. reg \in [Senders -> 0..Numbers - 1] /\ stamp \in [Senders -> 0..Numbers - 1]
      BY <1>1, NextNumber
    <2>3. wire \in Seq(Frames)
      BY <1>1
    <2>4. sender \in [Senders -> {"idle", "load", "store", "stamp", "write"}]
      BY <1>1
    <2> QED BY <1>1, <2>1, <2>2, <2>3, <2>4 DEF TypeOK, Pcs
  <1>3. HandlerSends /\ GreetingPending
    BY <1>1, HandlerIsSender DEF HandlerSends, GreetingPending, Sending, Replying
  <1>4. InStep
    BY <1>1 DEF InStep, LastSeq
  <1>5. Consecutive /\ GreetedFirst
    BY <1>1 DEF Consecutive, GreetedFirst
  <1> QED BY <1>2, <1>3, <1>4, <1>5 DEF SendInv

-----------------------------------------------------------------------------
(***************************************************************************)
(* Steps that send nothing.                                                *)
(***************************************************************************)

\* Reading, parsing and handling without an answer, and the client's part,
\* leave the senders alone; none of it comes before the greeting.
LEMMA SilentStep ==
  ASSUME SendInv, UNCHANGED <<input, writing, greeted>>,
         pc' \in Pcs, registered' \in BOOLEAN, ctx' \in {"session", "background", "nil"},
         link' \in {link, "gone", "closed"},
         pc' = pc \/ (pc \notin Sending /\ pc' \notin Sending),
         pc' \in {"top", "hello"} \/ greeted,
         greeted \/ (user' = user /\ registered' = registered)
  PROVE  SendInv'
  <1> USE DEF SendInv, writing
  <1>1. TypeOK'
    BY DEF TypeOK
  <1>2. HandlerSends' /\ GreetingPending'
    BY DEF HandlerSends, GreetingPending, Sending, Replying
  <1>3. InStep' /\ Consecutive' /\ GreetedFirst'
    BY DEF InStep, LastSeq, Consecutive, GreetedFirst
  <1> QED BY <1>1, <1>2, <1>3

\* The handler does nothing before the greeting but greet.
LEMMA SilentLoop ==
  ASSUME SendInv,
         Read \/ Timeout \/ ReadFails \/ Parse \/ Leave \/ HangUp \/ (Top /\ greeted)
  PROVE  SendInv'
  <1> USE DEF SendInv, TypeOK, Pcs, Sending, Replying, GreetingPending, context
  <1>1. CASE Read
    BY <1>1, SilentStep DEF Read
  <1>2. CASE Timeout
    BY <1>2, SilentStep DEF Timeout
  <1>3. CASE ReadFails
    BY <1>3, SilentStep DEF ReadFails
  <1>4. CASE Parse
    BY <1>4, SilentStep DEF Parse
  <1>5. CASE HangUp
    BY <1>5, SilentStep DEF HangUp
  <1>6. CASE Top /\ greeted
    BY <1>6, SilentStep DEF Top, writing
  <1>7. CASE Leave
    BY <1>7, SilentStep DEF Leave
  <1> QED BY <1>1, <1>2, <1>3, <1>4, <1>5, <1>6, <1>7

-----------------------------------------------------------------------------
(***************************************************************************)
(* The steps of Send.                                                      *)
(***************************************************************************)

\* A goroutine begins to send once it can have the session; the handler
\* begins with the greeting, and with answers after it.
LEMMA BeginStep ==
  ASSUME SendInv, NEW p \in Senders, BeginSend(p),
         UNCHANGED <<input, seq, reg, stamp, wire, link, greeted>>,
         sends' \in 0..MaxSends, pc' \in Pcs, registered' \in BOOLEAN,
         ctx' \in {"session", "background", "nil"},
         p # "handler" => registered /\ pc' = pc /\ UNCHANGED <<user, registered>>,
         p = "handler" => \/ pc' = "hello" /\ ~greeted /\ UNCHANGED <<user, registered>>
                          \/ pc' \in Replying /\ greeted
  PROVE  SendInv'
  <1> USE DEF SendInv, BeginSend, Goes
  <1>1. TypeOK'
    BY DEF TypeOK
  <1>2. HandlerSends'
    BY DEF HandlerSends, Sending, Replying, TypeOK
  <1>3. \A q \in Senders : q # p => sender'[q] = sender[q]
    BY DEF TypeOK
  <1>4. sender'[p] = "load" /\ sender[p] = "idle"
    BY DEF TypeOK
  <1>5. ~greeted => \A q \in Senders : sender[q] = "idle"
    BY <1>4 DEF GreetingPending, HandlerSends, Senders
  <1>6. GreetingPending'
    <2>1. CASE greeted
      BY <2>1 DEF GreetingPending, Replying
    <2>2. CASE ~greeted
      <3>1. p = "handler" /\ pc' = "hello" /\ user' = user /\ registered' = registered
        BY <2>2 DEF GreetingPending
      <3>2. \A q \in Routines : sender'[q] = "idle"
        BY <2>2, <3>1, <1>3, <1>5, LinkAssumption, HandlerIsSender
      <3>3. ~disturbed'
        BY <2>2, <1>5 DEF GreetingPending
      <3> QED BY <2>2, <3>1, <3>2, <3>3 DEF GreetingPending
    <2> QED BY <2>1, <2>2
  <1>7. InStep'
    BY <1>3, <1>4 DEF InStep, LastSeq, TypeOK
  <1>8. Consecutive' /\ GreetedFirst'
    BY DEF Consecutive, GreetedFirst, TypeOK
  <1> QED BY <1>1, <1>2, <1>6, <1>7, <1>8

\* The counter is loaded ...
LEMMA LoadStep == ASSUME SendInv, NEW p \in Senders, Load(p) PROVE SendInv'
  <1> USE DEF SendInv, Load, Goes, context
  <1>1. TypeOK'
    BY DEF TypeOK
  <1>2. \A q \in Senders : q # p => sender'[q] = sender[q] /\ reg'[q] = reg[q]
    BY DEF TypeOK
  <1>3. sender'[p] = "store" /\ sender[p] = "load" /\ reg'[p] = seq
    BY DEF TypeOK
  <1>4. HandlerSends' /\ GreetingPending'
    BY <1>2, <1>3, HandlerIsSender DEF HandlerSends, GreetingPending
  <1>5. InStep'
    BY <1>2, <1>3 DEF InStep, LastSeq
  <1>6. Consecutive' /\ GreetedFirst'
    BY DEF Consecutive, GreetedFirst
  <1> QED BY <1>1, <1>4, <1>5, <1>6

\* ... written back, one larger ...
LEMMA StoreStep == ASSUME SendInv, NEW p \in Senders, Store(p) PROVE SendInv'
  <1> USE DEF SendInv, Store, Goes, context
  <1>1. TypeOK'
    <2>1. reg[p] \in 0..Numbers - 1
      BY DEF TypeOK
    <2>2. seq' \in 0..Numbers - 1
      BY <2>1, NextNumber
    <2> QED BY <2>2 DEF TypeOK
  <1>2. \A q \in Senders : q # p => sender'[q] = sender[q]
    BY DEF TypeOK
  <1>3. sender'[p] = "stamp" /\ sender[p] = "store"
    BY DEF TypeOK
  <1>4. HandlerSends' /\ GreetingPending'
    BY <1>2, <1>3, HandlerIsSender DEF HandlerSends, GreetingPending
  <1>5. InStep'
    BY <1>2, <1>3 DEF InStep, LastSeq
  <1>6. Consecutive' /\ GreetedFirst'
    BY DEF Consecutive, GreetedFirst
  <1> QED BY <1>1, <1>4, <1>5, <1>6

\* ... and copied into the frame.
LEMMA StampStep == ASSUME SendInv, NEW p \in Senders, Stamp(p) PROVE SendInv'
  <1> USE DEF SendInv, Stamp, Goes, context
  <1>1. TypeOK'
    BY DEF TypeOK
  <1>2. \A q \in Senders : q # p => sender'[q] = sender[q] /\ stamp'[q] = stamp[q]
    BY DEF TypeOK
  <1>3. sender'[p] = "write" /\ sender[p] = "stamp" /\ stamp'[p] = seq
    BY DEF TypeOK
  <1>4. HandlerSends' /\ GreetingPending'
    BY <1>2, <1>3, HandlerIsSender DEF HandlerSends, GreetingPending
  <1>5. InStep'
    BY <1>2, <1>3 DEF InStep, LastSeq
  <1>6. Consecutive' /\ GreetedFirst'
    BY DEF Consecutive, GreetedFirst
  <1> QED BY <1>1, <1>4, <1>5, <1>6

\* What a Send that has ended leaves behind: the handler goes on.
LEMMA ReturnFacts ==
  ASSUME SendInv, NEW p \in Senders, sender[p] = "write", Return(p)
  PROVE  /\ sender' \in [Senders -> {"idle", "load", "store", "stamp", "write"}]
         /\ sender'[p] = "idle"
         /\ \A q \in Senders : q # p => sender'[q] = sender[q]
         /\ pc' \in Pcs /\ greeted' = TRUE
         /\ HandlerSends'
         /\ pc' # "hello"
  <1> USE DEF SendInv, TypeOK, Return, Goes
  <1>1. /\ sender'[p] = "idle"
        /\ sender' \in [Senders -> {"idle", "load", "store", "stamp", "write"}]
        /\ \A q \in Senders : q # p => sender'[q] = sender[q]
    OBVIOUS
  <1>2. CASE p = "handler"
    <2>1. pc \in Sending
      BY <1>2 DEF HandlerSends
    <2> QED BY <1>1, <1>2, <2>1 DEF GreetingPending, HandlerSends, Sending, Replying, Pcs
  <1>3. CASE p # "handler"
    <2>1. p \in Routines
      BY <1>3 DEF Senders
    <2>2. greeted
      BY <2>1 DEF GreetingPending
    <2> QED BY <1>1, <1>3, <2>2, HandlerIsSender DEF GreetingPending, HandlerSends, Pcs
  <1> QED BY <1>2, <1>3

\* A number is spent; from then on nothing is claimed of the numbers, and a
\* greeting that failed is followed by nothing.
LEMMA SendFailsStep == ASSUME SendInv, NEW p \in Senders, SendFails(p) PROVE SendInv'
  <1> USE DEF SendInv, SendFails
  <1>0. /\ sender[p] = "write" /\ Return(p) /\ disturbed' = TRUE
        /\ p # "handler" \/ link # "open"
    OBVIOUS
  <1>1. TypeOK'
    BY <1>0, ReturnFacts DEF TypeOK
  <1>2. HandlerSends'
    BY <1>0, ReturnFacts
  <1>3. wire = <<>> => link # "open"
    <2>1. CASE p = "handler"
      BY <1>0, <2>1
    <2>2. CASE p # "handler"
      BY <1>0, <2>2 DEF GreetingPending, Senders
    <2> QED BY <2>1, <2>2
  <1>4. GreetingPending'
    BY <1>0, <1>3, ReturnFacts DEF GreetingPending, Pcs, context
  <1>5. InStep' /\ Consecutive' /\ GreetedFirst'
    BY <1>0 DEF InStep, Consecutive, GreetedFirst
  <1> QED BY <1>1, <1>2, <1>4, <1>5

\* The frame on the wire carries the number after the last one, if nobody
\* else was sending; and it is the greeting exactly if it is the first.
LEMMA WriteStep == ASSUME SendInv, NEW p \in Senders, Write(p) PROVE SendInv'
  <1> DEFINE new == [by |-> p, seq |-> stamp[p], what |-> What(p)]
  <1> USE DEF SendInv
  <1>0. /\ sender[p] = "write" /\ Return(p) /\ link = "open"
        /\ wire' = Append(wire, new)
        /\ UNCHANGED <<input, user, ctx, registered, link, seq, reg, stamp, sends, disturbed>>
    BY DEF Write
  <1>1. new \in Frames
    BY DEF Frames, What, TypeOK
  <1>2. /\ wire' \in Seq(Frames) /\ Len(wire') = Len(wire) + 1
        /\ wire'[Len(wire')] = new
        /\ \A i \in 1..Len(wire) : wire'[i] = wire[i]
        /\ wire' # <<>>
    <2>1. wire \in Seq(Frames) BY DEF TypeOK
    <2> HIDE DEF new
    <2> QED BY <1>0, <1>1, <2>1
  <1>3. TypeOK'
    BY <1>0, <1>2, ReturnFacts DEF TypeOK
  <1>4. HandlerSends'
    BY <1>0, ReturnFacts
  <1>5. GreetingPending'
    BY <1>0, <1>2, ReturnFacts DEF GreetingPending, Pcs
  <1>6. ~disturbed => stamp[p] = seq /\ seq = (LastSeq + 1) % Numbers
    BY <1>0 DEF InStep
  <1>7. LastSeq' = stamp[p]
    BY <1>2 DEF LastSeq
  <1>8. InStep'
    <2> SUFFICES ASSUME ~disturbed' PROVE InStep' BY DEF InStep
    <2>1. \A q \in Senders : sender'[q] = "idle"
      BY <1>0, ReturnFacts DEF InStep
    <2>2. seq' = LastSeq'
      BY <1>0, <1>6, <1>7
    <2> QED BY <2>1, <2>2 DEF InStep
  <1>9. Consecutive'
    <2> SUFFICES ASSUME ~disturbed', NEW i \in 1..Len(wire') - 1
                 PROVE  wire'[i + 1].seq = (wire'[i].seq + 1) % Numbers
      BY DEF Consecutive
    <2>0. Len(wire) \in Nat
      BY DEF TypeOK
    <2>1. CASE i = Len(wire)
      <3>1. LastSeq = wire'[i].seq
        BY <2>1, <2>0, <1>2 DEF LastSeq
      <3>2. wire'[i + 1].seq = stamp[p]
        BY <2>1, <1>2
      <3> QED BY <3>1, <3>2, <1>0, <1>6
    <2>2. CASE i # Len(wire)
      <3>1. i \in 1..Len(wire) - 1 /\ i + 1 \in 1..Len(wire)
        BY <2>2, <2>0, <1>2
      <3> QED BY <3>1, <1>0, <1>2 DEF Consecutive
    <2> QED BY <2>1, <2>2
  <1>10. GreetedFirst'
    <2> SUFFICES ASSUME NEW i \in DOMAIN wire'
                 PROVE  /\ (wire'[i].what = "hello") = (i = 1)
                        /\ i = 1 => wire'[i].seq = 1
      BY DEF GreetedFirst
    <2>0. wire \in Seq(Frames)
      BY DEF TypeOK
    <2>1. CASE i \in 1..Len(wire)
      BY <2>1, <2>0, <1>2 DEF GreetedFirst
    <2>2. CASE i = Len(wire) + 1
      <3>1. wire'[i] = new
        BY <2>2, <1>2
      <3>2. CASE wire = <<>>
        <4>1. ~greeted
          BY <3>2, <1>0 DEF GreetingPending
        <4>2. p = "handler" /\ pc = "hello"
          BY <4>1, <1>0 DEF GreetingPending, HandlerSends, Sending, Replying, Senders
        <4>3. stamp[p] = 1
          BY <4>1, <3>2, <1>6, NextNumber DEF GreetingPending, LastSeq
        <4> QED BY <3>1, <3>2, <2>2, <4>2, <4>3 DEF What
      <3>3. CASE wire # <<>>
        <4>1. greeted /\ pc # "hello"
          BY <3>3 DEF GreetingPending
        <4>2. i # 1
          BY <3>3, <2>2, <2>0
        <4> QED BY <3>1, <4>1, <4>2 DEF What
      <3> QED BY <3>2, <3>3
    <2> QED BY <2>1, <2>2, <2>0, <1>2
  <1> QED BY <1>3, <1>4, <1>5, <1>8, <1>9, <1>10

\* A goroutine begins to send.
LEMMA NotifyStep == ASSUME SendInv, NEW p \in Routines, Notify(p) PROVE SendInv'
  <1> USE DEF Notify
  <1>1. p \in Senders /\ p # "handler"
    BY LinkAssumption DEF Senders
  <1>2. sends' \in 0..MaxSends
    BY SMT, LinkAssumption DEF SendInv, TypeOK
  <1> QED BY <1>1, <1>2, BeginStep DEF SendInv, TypeOK, context

\* The handler begins with the greeting.
LEMMA GreetStep == ASSUME SendInv, Top, ~greeted PROVE SendInv'
  BY BeginStep, HandlerIsSender DEF Top, SendInv, TypeOK, Pcs, context

\* The second frame of 17/02 comes after the greeting.
LEMMA ByeStep == ASSUME SendInv, Bye PROVE SendInv'
  BY BeginStep, HandlerIsSender
  DEF Bye, Answer, Replying, SendInv, TypeOK, Pcs, GreetingPending, context

\* A frame is answered, ignored, closes the socket or ends the process; it
\* takes the user away or, in a sign-on, brings one.
LEMMA Outcome ==
  ASSUME HandleFrame
  PROVE  LET data == flap[1].data IN
         /\ ctx' \in {ctx, "background", "nil"}
         /\ \/ \E l \in Replying : Answer(l)
            \/ UNCHANGED <<link, writing>> /\ pc' = "parse"
            \/ link' = "closed" /\ UNCHANGED writing /\ pc' \in {"parse", "ret"}
         /\ \/ user' \in {user, <<>>}
            \/ /\ flap[1].channel = 1 /\ Len(data) >= 4
               /\ \E tlvs \in {UnmarshalTLVs(From(data, 5))} :
                     /\ tlvs # NoResult /\ Credential(tlvs[1]) # NoResult
                     /\ user' = Credential(tlvs[1])
  <1> DEFINE data == flap[1].data
  <1> DEFINE channel == flap[1].channel
  <1>1. \/ Panic \/ Ignore
        \/ channel = 1 /\ Len(data) >= 4 /\ SignOn(data)
        \/ Request(data)
        \/ CloseLink /\ UNCHANGED <<user, ctx>>
    <2>1. CASE ctx = "nil"
      BY <2>1 DEF HandleFrame
    <2>2. CASE ctx = "background"
      BY <2>2 DEF HandleFrame
    <2>3. CASE ctx = "session" /\ channel = 1 /\ Len(data) < 4
      BY <2>3 DEF HandleFrame
    <2>4. CASE ctx = "session" /\ channel = 1 /\ Len(data) >= 4 /\ data # Hello
      BY <2>4 DEF HandleFrame
    <2>5. CASE ctx = "session" /\ channel = 2
      BY <2>5 DEF HandleFrame
    <2>6. CASE ctx = "session" /\ channel = 4 /\ user # <<>>
      BY <2>6 DEF HandleFrame
    <2> DEFINE Other == ~ \/ ctx = "nil" \/ ctx = "background"
                          \/ ctx = "session" /\ channel = 1 /\ Len(data) < 4
                          \/ ctx = "session" /\ channel = 1 /\ Len(data) >= 4 /\ data # Hello
                          \/ ctx = "session" /\ channel = 2
                          \/ ctx = "session" /\ channel = 4 /\ user # <<>>
    <2>7. CASE Other
      BY <2>7 DEF HandleFrame
    <2> HIDE DEF data, channel
    <2>8. \/ ctx = "nil" \/ ctx = "background"
          \/ ctx = "session" /\ channel = 1 /\ Len(data) < 4
          \/ ctx = "session" /\ channel = 1 /\ Len(data) >= 4 /\ data # Hello
          \/ ctx = "session" /\ channel = 2
          \/ ctx = "session" /\ channel = 4 /\ user # <<>>
          \/ Other
      OBVIOUS
    <2> QED BY <2>1, <2>2, <2>3, <2>4, <2>5, <2>6, <2>7, <2>8, Zenon
  <1>2. CASE Panic \/ Ignore \/ (CloseLink /\ UNCHANGED <<user, ctx>>)
    BY <1>2 DEF Panic, Ignore, CloseLink
  <1>3. CASE channel = 1 /\ Len(data) >= 4 /\ SignOn(data)
    BY <1>3 DEF SignOn, Panic, Ignore, Replying
  <1>4. CASE Request(data)
    BY <1>4 DEF Request, Ignore, CloseLink, Replying
  <1> QED BY <1>1, <1>2, <1>3, <1>4

\* Whatever comes of a frame, the numbers stay in order.
LEMMA HandleStep == ASSUME SendInv, HandleFrame PROVE SendInv'
  <1>1. /\ pc = "handle" /\ greeted /\ UNCHANGED <<greeted, input>>
        /\ registered' \in BOOLEAN /\ ctx' \in {"session", "background", "nil"}
    BY Outcome DEF HandleFrame, SendInv, GreetingPending, TypeOK
  <1>2. CASE UNCHANGED <<link, writing>> /\ pc' = "parse"
    BY <1>1, <1>2, SilentStep DEF Pcs, Sending, Replying
  <1>3. CASE link' = "closed" /\ UNCHANGED writing /\ pc' \in {"parse", "ret"}
    BY <1>1, <1>3, SilentStep DEF Pcs, Sending, Replying
  <1>4. CASE \E l \in Replying : Answer(l)
    BY <1>1, <1>4, BeginStep, HandlerIsSender DEF Answer, Replying, Pcs, SendInv, TypeOK
  <1> QED BY <1>2, <1>3, <1>4, Outcome

-----------------------------------------------------------------------------
(***************************************************************************)
(* Numbers, FLAPs and TLVs as bytes.                                       *)
(***************************************************************************)

\* What is marshalled, and what the model keeps of a client's frame.
FLAP == [channel : Byte, seq : 0..Word - 1, data : Seq(Byte)]
FrameType == [channel : Byte, data : Seq(Byte)]

\* The number of 16-bit values.
LEMMA WordIsLarge == Word \in Nat /\ Word > 1000
  BY SMT DEF Word

\* A uint16 keeps a number that fits.
LEMMA SmallKept == \A x \in Nat : x < Word => x % Word = x
  BY SMT DEF Word

\* What fits is a 16-bit value.
LEMMA InWord == 0 \in 0..Word - 1 /\ \A x \in Nat : x < Word => x \in 0..Word - 1
  BY WordIsLarge, SMT

\* A number of 16 bits in two bytes, high byte first, and back.
LEMMA PutGet ==
  ASSUME NEW n \in 0..Word - 1
  PROVE  /\ PutUint16(n) \in Seq(Nat) /\ Len(PutUint16(n)) = 2
         /\ Uint16(PutUint16(n)) = n
  <1>1. n \div 256 \in Nat /\ n % 256 \in Nat /\ (n \div 256) * 256 + (n % 256) = n
    BY SMT DEF Word
  <1> QED BY <1>1 DEF PutUint16, Uint16

\* Bytes are numbers.
LEMMA BytesAreNat == Byte \subseteq Nat /\ \A b \in Seq(Byte) : b \in Seq(Nat)
  <1>1. Byte \subseteq Nat
    BY DEF Byte
  <1> QED BY <1>1, SeqMonotonic

\* The bytes of a part of a sequence of numbers.
LEMMA Part ==
  ASSUME NEW b \in Seq(Nat), NEW m \in 1..Len(b) + 1, NEW n \in 0..Len(b), m <= n + 1
  PROVE  /\ SubSeq(b, m, n) \in Seq(Nat)
         /\ Len(SubSeq(b, m, n)) = n + 1 - m
         /\ \A i \in 1..n + 1 - m : SubSeq(b, m, n)[i] = b[m + i - 1]
  <1>1. \A i \in m..n : b[i] \in Nat
    BY SMT
  <1>2. m \in Int /\ n \in Int
    OBVIOUS
  <1>3. /\ SubSeq(b, m, n) \in Seq(Nat)
        /\ Len(SubSeq(b, m, n)) = IF m <= n THEN n - m + 1 ELSE 0
        /\ \A i \in 1..n - m + 1 : SubSeq(b, m, n)[i] = b[m + i - 1]
    BY <1>1, <1>2, SubSeqProperties
  <1>4. n - m + 1 = n + 1 - m
    BY <1>2
  <1> QED BY <1>2, <1>3, <1>4

\* The bytes of one sequence of numbers behind another.
LEMMA Concat ==
  ASSUME NEW s \in Seq(Nat), NEW t \in Seq(Nat)
  PROVE  /\ s \o t \in Seq(Nat) /\ Len(s \o t) = Len(s) + Len(t)
         /\ \A i \in 1..Len(s) : (s \o t)[i] = s[i]
         /\ \A i \in 1..Len(t) : (s \o t)[Len(s) + i] = t[i]
  <1>1. /\ s \o t \in Seq(Nat) /\ Len(s \o t) = Len(s) + Len(t)
        /\ \A i \in 1..Len(s) + Len(t) :
              (s \o t)[i] = IF i <= Len(s) THEN s[i] ELSE t[i - Len(s)]
    BY ConcatProperties
  <1>2. Len(s) \in Nat /\ Len(t) \in Nat
    OBVIOUS
  <1>3. ASSUME NEW i \in 1..Len(s) PROVE (s \o t)[i] = s[i]
    <2>1. i \in 1..Len(s) + Len(t) /\ i <= Len(s)
      BY <1>2
    <2> QED BY <1>1, <2>1
  <1>4. ASSUME NEW i \in 1..Len(t) PROVE (s \o t)[Len(s) + i] = t[i]
    <2>1. Len(s) + i \in 1..Len(s) + Len(t) /\ ~(Len(s) + i <= Len(s))
      BY <1>2
    <2>2. Len(s) + i - Len(s) = i
      BY <1>2
    <2> QED BY <1>1, <2>1, <2>2
  <1> QED BY <1>1, <1>3, <1>4

\* A part of a part.
LEMMA PartOfPart ==
  ASSUME NEW b \in Seq(Nat), NEW m \in 1..Len(b) + 1, NEW n \in 0..Len(b), m <= n + 1,
         NEW i \in 1..n + 2 - m, NEW j \in 0..n + 1 - m, i <= j + 1
  PROVE  SubSeq(SubSeq(b, m, n), i, j) = SubSeq(b, m + i - 1, m + j - 1)
  <1> DEFINE p == SubSeq(b, m, n)
  <1> DEFINE l == SubSeq(p, i, j)
  <1> DEFINE r == SubSeq(b, m + i - 1, m + j - 1)
  <1>0. Len(b) \in Nat OBVIOUS
  <1>1. p \in Seq(Nat) /\ Len(p) = n + 1 - m /\ \A x \in 1..n + 1 - m : p[x] = b[m + x - 1]
    BY Part
  <1> HIDE DEF p
  <1>2. i \in 1..Len(p) + 1 /\ j \in 0..Len(p)
    BY <1>0, <1>1
  <1>3. /\ l \in Seq(Nat) /\ Len(l) = j + 1 - i
        /\ \A x \in 1..j + 1 - i : l[x] = p[i + x - 1]
    BY <1>1, <1>2, Part
  <1>4. m + i - 1 \in 1..Len(b) + 1 /\ m + j - 1 \in 0..Len(b) /\ m + i - 1 <= m + j - 1 + 1
    BY <1>0
  <1>5. /\ r \in Seq(Nat) /\ Len(r) = m + j - 1 + 1 - (m + i - 1)
        /\ \A x \in 1..m + j - 1 + 1 - (m + i - 1) : r[x] = b[m + i - 1 + x - 1]
    BY <1>4, Part
  <1> HIDE DEF l, r
  <1>6. Len(l) = Len(r) /\ Len(l) \in Nat
    <2>1. j + 1 - i = m + j - 1 + 1 - (m + i - 1) /\ j + 1 - i \in Nat
      BY <1>0
    <2> QED BY <1>3, <1>5, <2>1
  <1>7. ASSUME NEW x \in 1..Len(l) PROVE l[x] = r[x]
    <2>1. x \in 1..j + 1 - i /\ l[x] = p[i + x - 1]
      BY <1>3, <1>7
    <2>2. i + x - 1 \in 1..n + 1 - m
      BY <1>0, <2>1
    <2>3. p[i + x - 1] = b[m + (i + x - 1) - 1]
      BY <1>1, <2>2
    <2>4. x \in 1..m + j - 1 + 1 - (m + i - 1)
      BY <1>0, <2>1
    <2>5. r[x] = b[m + i - 1 + x - 1]
      BY <1>5, <2>4
    <2>6. m + (i + x - 1) - 1 = m + i - 1 + x - 1
      BY <1>0, <2>1
    <2> QED BY <2>1, <2>3, <2>5, <2>6
  <1>8. l = r
    BY <1>3, <1>5, <1>6, <1>7, SeqEqual
  <1> QED BY <1>8 DEF l, r, p

\* A FLAP as it is marshalled, and back.
LEMMA MarshalFacts ==
  ASSUME NEW f \in FLAP, Len(f.data) < Word
  PROVE  LET e == MarshalFLAP(f)[1] IN
         /\ MarshalFLAP(f) # NoResult
         /\ e \in Seq(Nat) /\ Len(e) = HeaderLen + Len(f.data)
         /\ e[1] = Mark
         /\ FlapLength(e) = Len(e)
         /\ UnmarshalFLAP(e) = <<f>>
  <1> DEFINE n == Len(f.data)
  <1> DEFINE a == <<Mark, f.channel>>
  <1> DEFINE z == PutUint16(f.seq)
  <1> DEFINE l == PutUint16(n)
  <1> DEFINE h == a \o z \o l
  <1> DEFINE e == MarshalFLAP(f)[1]
  <1>1. /\ f.channel \in Nat /\ f.data \in Seq(Nat) /\ n \in Nat
        /\ f.seq \in 0..Word - 1 /\ f = [channel |-> f.channel, seq |-> f.seq, data |-> f.data]
    <2>1. /\ f.channel \in Byte /\ f.data \in Seq(Byte) /\ f.seq \in 0..Word - 1
          /\ f = [channel |-> f.channel, seq |-> f.seq, data |-> f.data]
      BY DEF FLAP
    <2>2. f.channel \in Nat /\ f.data \in Seq(Nat)
      BY <2>1, BytesAreNat
    <2> QED BY <2>1, <2>2
  <1>2. n \in 0..Word - 1 /\ n % Word = n
    BY <1>1, SmallKept, InWord
  <1>3. e = h \o f.data /\ MarshalFLAP(f) # NoResult
    BY <1>2 DEF MarshalFLAP, NoResult
  <1>4. a \in Seq(Nat) /\ Len(a) = 2 /\ a[1] = Mark /\ a[2] = f.channel
    BY <1>1 DEF Mark
  <1>5. z \in Seq(Nat) /\ Len(z) = 2 /\ Uint16(z) = f.seq
    BY <1>1, PutGet
  <1>6. l \in Seq(Nat) /\ Len(l) = 2 /\ Uint16(l) = n
    BY <1>2, PutGet
  <1> HIDE DEF a, z, l, n
  <1>7. /\ a \o z \in Seq(Nat) /\ Len(a \o z) = 4
        /\ (a \o z)[1] = a[1] /\ (a \o z)[2] = a[2]
        /\ (a \o z)[3] = z[1] /\ (a \o z)[4] = z[2]
    <2>1. /\ a \o z \in Seq(Nat) /\ Len(a \o z) = Len(a) + Len(z)
          /\ \A i \in 1..Len(a) : (a \o z)[i] = a[i]
          /\ \A i \in 1..Len(z) : (a \o z)[Len(a) + i] = z[i]
      BY <1>4, <1>5, Concat
    <2>2. /\ Len(a) = 2 /\ Len(z) = 2
      BY <1>4, <1>5
    <2> QED BY <2>1, <2>2
  <1>8. /\ h \in Seq(Nat) /\ Len(h) = 6
        /\ h[1] = a[1] /\ h[2] = a[2] /\ h[3] = z[1] /\ h[4] = z[2]
        /\ h[5] = l[1] /\ h[6] = l[2]
    <2> DEFINE b == a \o z
    <2>1. b \in Seq(Nat) /\ Len(b) = 4 /\ Len(l) = 2
      BY <1>6, <1>7
    <2> HIDE DEF b
    <2> DEFINE c == b \o l
    <2>2. /\ c \in Seq(Nat) /\ Len(c) = Len(b) + Len(l)
          /\ \A i \in 1..Len(b) : c[i] = b[i]
          /\ \A i \in 1..Len(l) : c[Len(b) + i] = l[i]
      BY <1>6, <2>1, Concat
    <2> HIDE DEF c
    <2>3. c[1] = b[1] /\ c[2] = b[2] /\ c[3] = b[3] /\ c[4] = b[4]
      BY <2>1, <2>2
    <2>4. c[5] = l[1] /\ c[6] = l[2]
      <3>1. c[4 + 1] = l[1] /\ c[4 + 2] = l[2]
        BY <2>1, <2>2
      <3>2. 4 + 1 = 5 /\ 4 + 2 = 6
        OBVIOUS
      <3> QED BY <3>1, <3>2
    <2>5. c \in Seq(Nat) /\ Len(c) = 6
      BY <2>1, <2>2
    <2> QED BY <1>7, <2>3, <2>4, <2>5 DEF b, c
  <1> HIDE DEF h
  <1>9. /\ e \in Seq(Nat) /\ Len(e) = 6 + Len(f.data)
        /\ \A i \in 1..6 : e[i] = h[i]
        /\ \A i \in 1..Len(f.data) : e[6 + i] = f.data[i]
    <2>1. /\ h \o f.data \in Seq(Nat) /\ Len(h \o f.data) = Len(h) + Len(f.data)
          /\ \A i \in 1..Len(h) : (h \o f.data)[i] = h[i]
          /\ \A i \in 1..Len(f.data) : (h \o f.data)[Len(h) + i] = f.data[i]
      BY <1>1, <1>8, Concat
    <2>2. Len(h) = 6
      BY <1>8
    <2> QED BY <1>3, <2>1, <2>2
  <1> HIDE DEF e
  <1>10. /\ e[1] = Mark /\ e[2] = f.channel /\ e[3] = z[1] /\ e[4] = z[2]
         /\ e[5] = l[1] /\ e[6] = l[2]
    <2>1. e[1] = h[1] /\ e[2] = h[2] /\ e[3] = h[3] /\ e[4] = h[4] /\ e[5] = h[5] /\ e[6] = h[6]
      BY <1>9
    <2> QED BY <2>1, <1>4, <1>8
  <1>11. Len(e) \in Nat /\ Len(e) >= 6
    BY <1>1, <1>9 DEF n
  <1>12. SubSeq(e, 3, 4)[1] = e[3] /\ SubSeq(e, 3, 4)[2] = e[4]
    BY <1>9, <1>11, Part
  <1>13. SubSeq(e, 5, 6)[1] = e[5] /\ SubSeq(e, 5, 6)[2] = e[6]
    <2>1. 5 \in 1..Len(e) + 1 /\ 6 \in 0..Len(e) /\ 5 <= 6 + 1
      BY <1>11
    <2>2. \A i \in 1..6 + 1 - 5 : SubSeq(e, 5, 6)[i] = e[5 + i - 1]
      BY <1>9, <2>1, Part
    <2> QED BY <2>2
  <1>14. Uint16(SubSeq(e, 3, 4)) = f.seq /\ Uint16(SubSeq(e, 5, 6)) = n
    BY <1>5, <1>6, <1>10, <1>12, <1>13 DEF Uint16
  <1>15. From(e, 7) = f.data
    <2> DEFINE r == SubSeq(e, 7, Len(e))
    <2>1. /\ r \in Seq(Nat) /\ Len(r) = Len(e) + 1 - 7
          /\ \A i \in 1..Len(e) + 1 - 7 : r[i] = e[7 + i - 1]
      <3>1. 7 \in 1..Len(e) + 1 /\ Len(e) \in 0..Len(e) /\ 7 <= Len(e) + 1
        BY <1>11
      <3> QED BY <1>9, <3>1, Part
    <2> HIDE DEF r
    <2>2. Len(r) = n
      BY <1>1, <1>9, <2>1 DEF n
    <2>3. ASSUME NEW i \in 1..n PROVE r[i] = f.data[i]
      <3>1. i \in 1..Len(e) + 1 - 7 /\ 7 + i - 1 = 6 + i /\ i \in 1..Len(f.data)
        BY <1>1, <1>9, <2>3 DEF n
      <3>2. r[i] = e[6 + i]
        BY <2>1, <3>1
      <3> QED BY <1>9, <3>1, <3>2
    <2>4. r = f.data
      BY <1>1, <2>1, <2>2, <2>3, SeqEqual DEF n
    <2> QED BY <2>4 DEF From, r
  <1>16. FlapLength(e) = Len(e)
    BY <1>1, <1>9, <1>14 DEF FlapLength, HeaderLen, n
  <1>17. UnmarshalFLAP(e) = <<f>>
    <2>1. UnmarshalFLAP(e) = << [channel |-> f.channel, seq |-> f.seq, data |-> f.data] >>
      BY <1>10, <1>11, <1>14, <1>15 DEF UnmarshalFLAP, HeaderLen
    <2> QED BY <1>1, <2>1
  <1> QED BY <1>3, <1>9, <1>10, <1>16, <1>17 DEF e, HeaderLen

\* A client's frame as it is marshalled, and back.
LEMMA EncodeFacts ==
  ASSUME NEW f \in FrameType, Len(f.data) < Word
  PROVE  /\ Encode(f) \in Seq(Nat) /\ Len(Encode(f)) = HeaderLen + Len(f.data)
         /\ Encode(f)[1] = Mark
         /\ FlapLength(Encode(f)) = Len(Encode(f))
         /\ UnmarshalFLAP(Encode(f)) =
               << [channel |-> f.channel, seq |-> 0, data |-> f.data] >>
  <1> DEFINE g == [channel |-> f.channel, seq |-> 0, data |-> f.data]
  <1>1. g \in FLAP /\ g.data = f.data
    BY InWord DEF FLAP, FrameType
  <1>2. Len(g.data) < Word
    BY <1>1
  <1> HIDE DEF g
  <1>3. Encode(f) = MarshalFLAP(g)[1]
    BY DEF Encode, g
  <1> QED BY <1>1, <1>2, <1>3, MarshalFacts DEF g

\* What package oscar marshals as a FLAP it reads back: header and data.
THEOREM FLAPRoundTrip ==
  \A frame \in FLAP : Len(frame.data) < Word =>
      MarshalFLAP(frame) # NoResult /\ UnmarshalFLAP(MarshalFLAP(frame)[1]) = <<frame>>
  BY MarshalFacts

\* A TLV as it is marshalled, byte by byte.
LEMMA MarshalTLVFacts ==
  ASSUME NEW type \in 0..Word - 1, NEW data \in Seq(Byte), Len(data) < Word
  PROVE  LET e == MarshalTLV(type, data) IN
         /\ e \in Seq(Nat) /\ Len(e) = 4 + Len(data)
         /\ e[1] = type \div 256 /\ e[2] = type % 256
         /\ e[3] = Len(data) \div 256 /\ e[4] = Len(data) % 256
         /\ \A i \in 1..Len(data) : e[4 + i] = data[i]
  <1> DEFINE t == PutUint16(type)
  <1> DEFINE l == PutUint16(Len(data))
  <1> DEFINE h == t \o l
  <1> DEFINE m == h \o data
  <1>1. /\ data \in Seq(Nat) /\ Len(data) \in Nat
        /\ Len(data) \in 0..Word - 1 /\ Len(data) % Word = Len(data)
    BY BytesAreNat, SmallKept, InWord
  <1>2. MarshalTLV(type, data) = m
    BY <1>1 DEF MarshalTLV
  <1>3. /\ t \in Seq(Nat) /\ Len(t) = 2 /\ t[1] = type \div 256 /\ t[2] = type % 256
        /\ l \in Seq(Nat) /\ Len(l) = 2 /\ l[1] = Len(data) \div 256 /\ l[2] = Len(data) % 256
    BY <1>1, PutGet DEF PutUint16
  <1> HIDE DEF t, l
  <1>4. /\ h \in Seq(Nat) /\ Len(h) = 4
        /\ \A i \in 1..2 : h[i] = t[i]
        /\ \A i \in 1..2 : h[2 + i] = l[i]
    <2>0. t \in Seq(Nat) /\ l \in Seq(Nat) /\ Len(t) = 2 /\ Len(l) = 2
      BY <1>3
    <2>1. /\ h \in Seq(Nat) /\ Len(h) = Len(t) + Len(l)
          /\ \A i \in 1..Len(t) : h[i] = t[i]
          /\ \A i \in 1..Len(l) : h[Len(t) + i] = l[i]
      BY <2>0, Concat
    <2> HIDE DEF h
    <2> QED BY <2>0, <2>1
  <1> HIDE DEF h
  <1>5. /\ m \in Seq(Nat) /\ Len(m) = 4 + Len(data)
        /\ \A i \in 1..4 : m[i] = h[i]
        /\ \A i \in 1..Len(data) : m[4 + i] = data[i]
    <2>1. /\ m \in Seq(Nat) /\ Len(m) = Len(h) + Len(data)
          /\ \A i \in 1..Len(h) : m[i] = h[i]
          /\ \A i \in 1..Len(data) : m[Len(h) + i] = data[i]
      BY <1>1, <1>4, Concat
    <2> HIDE DEF m
    <2> QED BY <1>4, <2>1
  <1> HIDE DEF m
  <1>6. h[1] = t[1] /\ h[2] = t[2] /\ h[3] = l[1] /\ h[4] = l[2]
    <2>1. h[2 + 1] = l[1] /\ h[2 + 2] = l[2]
      BY <1>4
    <2> QED BY <1>4, <2>1
  <1>7. m[1] = h[1] /\ m[2] = h[2] /\ m[3] = h[3] /\ m[4] = h[4]
    BY <1>5
  <1> QED BY <1>2, <1>3, <1>5, <1>6, <1>7

\* What it marshals as a TLV it reads back, whatever lies behind it.
THEOREM TLVRoundTrip ==
  ASSUME NEW type \in 0..Word - 1, NEW data \in Seq(Byte), NEW rest \in Seq(Byte),
         Len(data) < Word
  PROVE  UnmarshalTLV(MarshalTLV(type, data) \o rest) = << [type |-> type, data |-> data] >>
  <1> DEFINE m == MarshalTLV(type, data)
  <1> DEFINE b == m \o rest
  <1>1. data \in Seq(Nat) /\ rest \in Seq(Nat) /\ Len(data) \in Nat /\ Len(rest) \in Nat
        /\ Len(data) \in 0..Word - 1
    BY BytesAreNat, InWord
  <1>2. /\ m \in Seq(Nat) /\ Len(m) = 4 + Len(data)
        /\ m[1] = type \div 256 /\ m[2] = type % 256
        /\ m[3] = Len(data) \div 256 /\ m[4] = Len(data) % 256
        /\ \A i \in 1..Len(data) : m[4 + i] = data[i]
    BY MarshalTLVFacts
  <1> HIDE DEF m
  <1>3. \A x \in 0..Word - 1 : (x \div 256) * 256 + (x % 256) = x
    <2> SUFFICES ASSUME NEW x \in 0..Word - 1 PROVE (x \div 256) * 256 + (x % 256) = x
      OBVIOUS
    <2>1. Uint16(PutUint16(x)) = x
      BY PutGet
    <2> QED BY <2>1 DEF Uint16, PutUint16
  <1>4. /\ b \in Seq(Nat) /\ Len(b) = 4 + Len(data) + Len(rest)
        /\ \A i \in 1..4 + Len(data) : b[i] = m[i]
    <2>1. /\ b \in Seq(Nat) /\ Len(b) = Len(m) + Len(rest)
          /\ \A i \in 1..Len(m) : b[i] = m[i]
      <3>1. m \in Seq(Nat) /\ rest \in Seq(Nat)
        BY <1>1, <1>2
      <3> QED BY <3>1, Concat
    <2> HIDE DEF b
    <2> QED BY <1>2, <2>1
  <1> HIDE DEF b
  <1>5. b[1] = m[1] /\ b[2] = m[2] /\ b[3] = m[3] /\ b[4] = m[4]
    BY <1>1, <1>4
  <1>6. Uint16(b) = type
    BY <1>2, <1>3, <1>5 DEF Uint16
  <1>7. Uint16(SubSeq(b, 3, 4)) = Len(data)
    <2>1. 3 \in 1..Len(b) + 1 /\ 4 \in 0..Len(b) /\ 3 <= 4 + 1
      BY <1>1, <1>4
    <2>2. \A i \in 1..4 + 1 - 3 : SubSeq(b, 3, 4)[i] = b[3 + i - 1]
      BY <1>4, <2>1, Part
    <2>3. SubSeq(b, 3, 4)[1] = b[3] /\ SubSeq(b, 3, 4)[2] = b[4]
      BY <2>2
    <2>4. (Len(data) \div 256) * 256 + (Len(data) % 256) = Len(data)
      BY <1>1, <1>3
    <2>5. b[3] * 256 + b[4] = Len(data)
      BY <1>2, <1>5, <2>4
    <2> QED BY <2>3, <2>5 DEF Uint16
  <1>8. SubSeq(b, 5, 4 + Len(data)) = data
    <2> DEFINE r == SubSeq(b, 5, 4 + Len(data))
    <2>1. /\ 5 \in 1..Len(b) + 1 /\ 4 + Len(data) \in 0..Len(b) /\ 5 <= 4 + Len(data) + 1
          /\ 4 + Len(data) + 1 - 5 = Len(data)
      BY <1>1, <1>4
    <2>2. /\ r \in Seq(Nat) /\ Len(r) = 4 + Len(data) + 1 - 5
          /\ \A i \in 1..4 + Len(data) + 1 - 5 : r[i] = b[5 + i - 1]
      BY <1>4, <2>1, Part
    <2> HIDE DEF r
    <2>3. ASSUME NEW i \in 1..Len(data) PROVE r[i] = data[i]
      <3>1. r[i] = b[5 + i - 1]
        BY <2>1, <2>2
      <3>2. 5 + i - 1 = 4 + i /\ 4 + i \in 1..4 + Len(data)
        BY <1>1
      <3> QED BY <1>2, <1>4, <3>1, <3>2
    <2>4. r = data
      BY <1>1, <2>1, <2>2, <2>3, SeqEqual
    <2> QED BY <2>4 DEF r
  <1>9. ~(Len(b) < 4) /\ ~(Len(b) < 4 + Len(data))
    BY <1>1, <1>4
  <1>10. UnmarshalTLV(b) = << [type |-> type, data |-> data] >>
    BY <1>6, <1>7, <1>8, <1>9 DEF UnmarshalTLV
  <1> QED BY <1>10 DEF b, m

-----------------------------------------------------------------------------
(***************************************************************************)
(* Lists of TLVs.  UnmarshalTLVs is a recursive function: that it          *)
(* satisfies its equation, and what it returns, is shown by induction on   *)
(* the bytes that are left, in the form of the least number principle.     *)
(***************************************************************************)

\* A set of numbers that is not empty has a least one.
LEMMA LeastNumber ==
  ASSUME NEW S \in SUBSET Nat, S # {}
  PROVE  \E m \in S : \A k \in S : m <= k
  <1> DEFINE R == OpToRel(<, Nat)
  <1>1. IsWellFoundedOn(R, Nat)
    BY NatLessThanWellFounded
  <1>2. \A x, y \in Nat : x < y => <<x, y>> \in R
    BY DEF OpToRel
  <1> HIDE DEF R
  <1>3. PICK m \in S : \A k \in S : ~(<<k, m>> \in R)
    BY <1>1, WFMin
  <1>4. ASSUME NEW k \in S PROVE m <= k
    <2>1. m \in Nat /\ k \in Nat /\ ~(k < m)
      BY <1>2, <1>3
    <2> QED BY <2>1
  <1> QED BY <1>4

\* A set to which n belongs as soon as all larger numbers up to N do holds all
\* of them.
LEMMA Downward ==
  ASSUME NEW N \in Nat, NEW S \in SUBSET (1..N),
         \A n \in 1..N : n + 1..N \subseteq S => n \in S
  PROVE  S = 1..N
  <1> DEFINE D == {d \in Nat : d < N /\ N - d \notin S}
  <1> SUFFICES ASSUME D # {} PROVE FALSE
    <2>1. ASSUME NEW n \in 1..N, n \notin S PROVE D # {}
      <3>1. N - n \in Nat /\ N - n < N /\ N - (N - n) = n
        BY <2>1
      <3> QED BY <2>1, <3>1
    <2> QED BY <2>1
  <1>1. D \in SUBSET Nat
    OBVIOUS
  <1> HIDE DEF D
  <1>2. PICK d \in D : \A k \in D : d <= k
    BY <1>1, LeastNumber
  <1>3. d \in Nat /\ d < N /\ N - d \notin S
    BY <1>2 DEF D
  <1>4. N - d \in 1..N
    BY <1>3
  <1>5. ASSUME NEW k \in (N - d) + 1..N PROVE k \in S
    <2>1. N - k \in Nat /\ N - k < N /\ N - (N - k) = k /\ ~(d <= N - k)
      BY <1>3
    <2> QED BY <1>2, <2>1 DEF D
  <1> QED BY <1>3, <1>4, <1>5

\* Two bytes as a number, and back.
LEMMA TwoBytes ==
  ASSUME NEW s, s[1] \in Byte, s[2] \in Byte
  PROVE  /\ Uint16(s) \in 0..Word - 1
         /\ Uint16(s) \div 256 = s[1] /\ Uint16(s) % 256 = s[2]
  <1> DEFINE x == s[1]
  <1> DEFINE y == s[2]
  <1> DEFINE n == x * 256 + y
  <1> DEFINE q == n \div 256
  <1> DEFINE r == n % 256
  <1>1. x \in Nat /\ y \in Nat /\ x <= 255 /\ y <= 255
    BY DEF Byte
  <1>2. Uint16(s) = n
    BY DEF Uint16
  <1> HIDE DEF x, y
  <1>3. n \in Nat /\ n < Word
    BY <1>1 DEF Word
  <1>4. n \in 0..Word - 1
    BY <1>3, InWord
  <1> HIDE DEF n
  <1>5. q \in Nat /\ r \in 0..255 /\ q * 256 + r = n
    <2>1. \A m \in Nat : /\ m \div 256 \in Nat /\ m % 256 \in 0..255
                         /\ (m \div 256) * 256 + (m % 256) = m
      BY SMT
    <2> QED BY <1>3, <2>1
  <1> HIDE DEF q, r
  <1>6. q * 256 + r = x * 256 + y
    BY <1>5 DEF n
  <1>7. q = x
    BY <1>1, <1>5, <1>6
  <1>8. r = y
    BY <1>1, <1>5, <1>6, <1>7
  <1> QED BY <1>2, <1>4, <1>7, <1>8 DEF q, r, x, y

\* What the code decodes TLVs to.
TLV == [type : 0..Word - 1, data : Seq(Byte)]

\* A TLV that is decoded lies at the head of the bytes as it would be
\* marshalled, and its data fit their length.
LEMMA UnmarshalTLVFacts ==
  ASSUME NEW b \in Seq(Byte), UnmarshalTLV(b) # NoResult
  PROVE  \E t \in TLV :
            /\ UnmarshalTLV(b) = <<t>>
            /\ Len(t.data) < Word /\ 4 + Len(t.data) <= Len(b)
            /\ SubSeq(b, 1, 4 + Len(t.data)) = MarshalTLV(t.type, t.data)
  <1> DEFINE c == SubSeq(b, 3, 4)
  <1> DEFINE n == Uint16(c)
  <1> DEFINE d == SubSeq(b, 5, 4 + n)
  <1> DEFINE t == [type |-> Uint16(b), data |-> d]
  <1>1. /\ Len(b) \in Nat /\ ~(Len(b) < 4) /\ ~(Len(b) < 4 + n) /\ UnmarshalTLV(b) = <<t>>
    <2>1. ~(Len(b) < 4 \/ Len(b) < 4 + n) /\ UnmarshalTLV(b) = <<t>>
      BY Zenon DEF UnmarshalTLV
    <2>2. Len(b) \in Nat
      OBVIOUS
    <2> QED BY <2>1, <2>2, Zenon
  <1>2. b \in Seq(Nat)
    BY BytesAreNat
  <1>3. \A i \in 1..Len(b) : b[i] \in Byte
    OBVIOUS
  <1>4. b[1] \in Byte /\ b[2] \in Byte /\ b[3] \in Byte /\ b[4] \in Byte
    BY <1>1, <1>3
  <1>5. c[1] = b[3] /\ c[2] = b[4]
    <2>1. 3 \in 1..Len(b) + 1 /\ 4 \in 0..Len(b) /\ 3 <= 4 + 1
      BY <1>1
    <2>2. \A i \in 1..4 + 1 - 3 : c[i] = b[3 + i - 1]
      BY <1>2, <2>1, Part
    <2> QED BY <2>2
  <1>6. n \in 0..Word - 1 /\ n \div 256 = b[3] /\ n % 256 = b[4]
    <2> HIDE DEF c
    <2> QED BY <1>4, <1>5, TwoBytes
  <1>7. /\ Uint16(b) \in 0..Word - 1
        /\ Uint16(b) \div 256 = b[1] /\ Uint16(b) % 256 = b[2]
    BY <1>4, TwoBytes
  <1> HIDE DEF n
  <1>8. n \in Nat /\ n < Word /\ 4 + n <= Len(b)
    BY <1>1, <1>6, WordIsLarge
  <1>9. d \in Seq(Byte) /\ Len(d) = n /\ \A i \in 1..n : d[i] = b[4 + i]
    <2>1. /\ 5 \in Int /\ 4 + n \in Int /\ \A i \in 5..4 + n : b[i] \in Byte
      BY <1>8
    <2>2. /\ d \in Seq(Byte)
          /\ Len(d) = IF 5 <= 4 + n THEN (4 + n) - 5 + 1 ELSE 0
          /\ \A i \in 1..(4 + n) - 5 + 1 : d[i] = b[5 + i - 1]
      BY <2>1, SubSeqProperties
    <2> HIDE DEF d
    <2>3. Len(d) = n
      BY <1>8, <2>2
    <2>4. ASSUME NEW i \in 1..n PROVE d[i] = b[4 + i]
      <3>1. i \in 1..(4 + n) - 5 + 1 /\ 5 + i - 1 = 4 + i
        BY <1>8
      <3> QED BY <2>2, <3>1
    <2> QED BY <2>2, <2>3, <2>4
  <1> HIDE DEF d
  <1>10. t \in TLV /\ t.data = d /\ t.type = Uint16(b)
    BY <1>7, <1>9 DEF TLV
  <1> DEFINE e == MarshalTLV(Uint16(b), d)
  <1> DEFINE p == SubSeq(b, 1, 4 + n)
  <1>11. /\ e \in Seq(Nat) /\ Len(e) = 4 + n
         /\ e[1] = b[1] /\ e[2] = b[2] /\ e[3] = b[3] /\ e[4] = b[4]
         /\ \A i \in 1..n : e[4 + i] = d[i]
    <2>1. /\ e \in Seq(Nat) /\ Len(e) = 4 + Len(d)
          /\ e[1] = Uint16(b) \div 256 /\ e[2] = Uint16(b) % 256
          /\ e[3] = Len(d) \div 256 /\ e[4] = Len(d) % 256
          /\ \A i \in 1..Len(d) : e[4 + i] = d[i]
      BY <1>7, <1>8, <1>9, MarshalTLVFacts
    <2> QED BY <1>6, <1>7, <1>9, <2>1
  <1>12. p \in Seq(Nat) /\ Len(p) = 4 + n /\ \A i \in 1..4 + n : p[i] = b[i]
    <2>1. 1 \in 1..Len(b) + 1 /\ 4 + n \in 0..Len(b) /\ 1 <= 4 + n + 1 /\ 4 + n + 1 - 1 = 4 + n
      BY <1>1, <1>8
    <2>2. /\ p \in Seq(Nat) /\ Len(p) = 4 + n + 1 - 1
          /\ \A i \in 1..4 + n + 1 - 1 : p[i] = b[1 + i - 1]
      BY <1>2, <2>1, Part
    <2> HIDE DEF p
    <2>3. ASSUME NEW i \in 1..4 + n PROVE p[i] = b[i]
      <3>1. 1 + i - 1 = i
        BY <1>8
      <3> QED BY <2>1, <2>2, <3>1
    <2> QED BY <2>1, <2>2, <2>3
  <1> HIDE DEF e, p
  <1>13. ASSUME NEW i \in 1..4 + n PROVE p[i] = e[i]
    <2>1. CASE i \in 1..4
      <3>1. i = 1 \/ i = 2 \/ i = 3 \/ i = 4
        BY <2>1
      <3> QED BY <1>11, <1>12, <3>1
    <2>2. CASE i \notin 1..4
      <3>1. i - 4 \in 1..n /\ 4 + (i - 4) = i
        BY <1>8, <2>2
      <3> QED BY <1>9, <1>11, <1>12, <3>1
    <2> QED BY <2>1, <2>2
  <1>14. p = e
    BY <1>11, <1>12, <1>13, SeqEqual
  <1> HIDE DEF t
  <1> QED BY <1>1, <1>8, <1>9, <1>10, <1>14 DEF e, p

\* The bytes from a place on.
LEMMA Rest ==
  ASSUME NEW b \in Seq(Byte), NEW n \in 1..Len(b) + 1
  PROVE  From(b, n) \in Seq(Byte) /\ Len(From(b, n)) = Len(b) + 1 - n
  <1>1. n \in Int /\ Len(b) \in Int /\ \A i \in n..Len(b) : b[i] \in Byte
    OBVIOUS
  <1>2. /\ SubSeq(b, n, Len(b)) \in Seq(Byte)
        /\ Len(SubSeq(b, n, Len(b))) = IF n <= Len(b) THEN Len(b) - n + 1 ELSE 0
    BY <1>1, SubSeqProperties
  <1> QED BY <1>2 DEF From

\* What is decoded at a place, if anything, and where it ends.
LEMMA AtPlace ==
  ASSUME NEW b \in Seq(Byte), NEW n \in 1..Len(b), UnmarshalTLV(From(b, n)) # NoResult
  PROVE  \E t \in TLV :
            /\ UnmarshalTLV(From(b, n)) = <<t>>
            /\ Len(t.data) < Word /\ n + 4 + Len(t.data) \in n + 1..Len(b) + 1
            /\ SubSeq(b, n, n + 3 + Len(t.data)) = MarshalTLV(t.type, t.data)
  <1>1. n \in 1..Len(b) + 1 /\ Len(b) \in Nat /\ b \in Seq(Nat)
    BY BytesAreNat
  <1>2. From(b, n) \in Seq(Byte) /\ Len(From(b, n)) = Len(b) + 1 - n
    BY <1>1, Rest
  <1>3. PICK t \in TLV :
            /\ UnmarshalTLV(From(b, n)) = <<t>>
            /\ Len(t.data) < Word /\ 4 + Len(t.data) <= Len(From(b, n))
            /\ SubSeq(From(b, n), 1, 4 + Len(t.data)) = MarshalTLV(t.type, t.data)
    BY <1>2, UnmarshalTLVFacts
  <1> DEFINE l == Len(t.data)
  <1>4. l \in Nat /\ 4 + l <= Len(b) + 1 - n
    BY <1>2, <1>3 DEF TLV
  <1>5. SubSeq(From(b, n), 1, 4 + l) = SubSeq(b, n, n + 3 + l)
    <2> HIDE DEF l
    <2>1. /\ Len(b) \in 0..Len(b) /\ n <= Len(b) + 1 /\ 1 \in 1..Len(b) + 2 - n
          /\ 4 + l \in 0..Len(b) + 1 - n /\ 1 <= 4 + l + 1
          /\ n + 1 - 1 = n /\ n + (4 + l) - 1 = n + 3 + l
      BY <1>1, <1>4
    <2>2. SubSeq(SubSeq(b, n, Len(b)), 1, 4 + l) = SubSeq(b, n + 1 - 1, n + (4 + l) - 1)
      BY <1>1, <2>1, PartOfPart
    <2> QED BY <2>1, <2>2 DEF From
  <1>6. n + 4 + l \in n + 1..Len(b) + 1
    <2> HIDE DEF l
    <2> QED BY <1>1, <1>4
  <1> QED BY <1>3, <1>5, <1>6

\* The list from a place on: the TLV there, and then those behind it.
LEMMA ListAt ==
  ASSUME NEW b \in Seq(Byte), NEW n \in 1..Len(b), NEW f, NEW t \in TLV,
         UnmarshalTLV(From(b, n)) = <<t>>
  PROVE  LET rest == f[n + 4 + Len(t.data)] IN
         TLVsAt(b, n, f) = IF rest = NoResult THEN NoResult ELSE << <<t>> \o rest[1] >>
  <1> DEFINE tlv == UnmarshalTLV(From(b, n))
  <1>1. ~(n > Len(b)) /\ tlv # NoResult /\ tlv[1] = t
    BY DEF NoResult
  <1>2. TLVsAt(b, n, f) = LET rest == f[n + 4 + Len(tlv[1].data)] IN
                          IF rest = NoResult THEN NoResult ELSE << tlv \o rest[1] >>
    BY <1>1, Zenon DEF TLVsAt
  <1> QED BY <1>1, <1>2, Zenon

\* The list from a place on depends on the lists from later places only.
LEMMA LaterPlaces ==
  ASSUME NEW b \in Seq(Byte), NEW n \in 1..Len(b) + 1, NEW g, NEW h,
         \A k \in n + 1..Len(b) + 1 : g[k] = h[k]
  PROVE  TLVsAt(b, n, g) = TLVsAt(b, n, h)
  <1>1. CASE n > Len(b) \/ UnmarshalTLV(From(b, n)) = NoResult
    BY <1>1 DEF TLVsAt
  <1>2. CASE ~(n > Len(b)) /\ UnmarshalTLV(From(b, n)) # NoResult
    <2>1. n \in 1..Len(b)
      BY <1>2
    <2>2. PICK t \in TLV :
            /\ UnmarshalTLV(From(b, n)) = <<t>>
            /\ n + 4 + Len(t.data) \in n + 1..Len(b) + 1
      BY <1>2, <2>1, AtPlace
    <2>3. g[n + 4 + Len(t.data)] = h[n + 4 + Len(t.data)]
      BY <2>2
    <2> DEFINE list(f) == LET rest == f[n + 4 + Len(t.data)] IN
                          IF rest = NoResult THEN NoResult ELSE << <<t>> \o rest[1] >>
    <2>4. TLVsAt(b, n, g) = list(g) /\ TLVsAt(b, n, h) = list(h)
      BY <2>1, <2>2, ListAt
    <2>5. list(g) = list(h)
      BY <2>3, Zenon
    <2> HIDE DEF list
    <2> QED BY <2>4, <2>5
  <1> QED BY <1>1, <1>2

\* f has the lists from all places on, as UnmarshalTLVs defines them.
Places(b, f) == f = [n \in 1..Len(b) + 1 |-> TLVsAt(b, n, f)]

\* There is such a function.
LEMMA PlacesExist == ASSUME NEW b \in Seq(Byte) PROVE \E f : Places(b, f)
  <1> DEFINE N == Len(b) + 1
  <1> DEFINE S == {n \in 1..N : \E g : g = [i \in n..N |-> TLVsAt(b, i, g)]}
  <1>1. N \in Nat /\ 1 \in 1..N
    OBVIOUS
  <1>2. ASSUME NEW n \in 1..N, n + 1..N \subseteq S PROVE n \in S
    <2>1. PICK g : g = [i \in n + 1..N |-> TLVsAt(b, i, g)]
      <3>1. CASE n = N
        <4>1. n + 1..N = {}
          BY <1>1, <3>1
        <4> WITNESS [i \in {} |-> 0]
        <4> QED BY <4>1
      <3>2. CASE n # N
        <4>1. n + 1 \in n + 1..N
          BY <1>1, <3>2
        <4> QED BY <1>2, <4>1
      <3> QED BY <3>1, <3>2
    <2> DEFINE h == [i \in n..N |-> IF i = n THEN TLVsAt(b, n, g) ELSE g[i]]
    <2>2. n \in n..N /\ \A i \in n + 1..N : i \in n..N /\ i # n
      BY <1>1
    <2>3. \A i \in n + 1..N : h[i] = g[i]
      BY <2>2
    <2>4. h[n] = TLVsAt(b, n, g)
      BY <2>2
    <2> HIDE DEF h
    <2>5. ASSUME NEW i \in n..N PROVE h[i] = TLVsAt(b, i, h)
      <3>1. i \in 1..N
        BY <1>1
      <3>2. \A k \in i + 1..N : k \in n + 1..N
        BY <1>1
      <3>3. TLVsAt(b, i, g) = TLVsAt(b, i, h)
        BY <2>3, <3>1, <3>2, LaterPlaces
      <3>4. CASE i = n
        BY <2>4, <3>3, <3>4
      <3>5. CASE i # n
        <4>1. i \in n + 1..N
          BY <1>1, <3>5
        <4>2. g[i] = TLVsAt(b, i, g)
          BY <2>1, <4>1
        <4> QED BY <2>3, <3>3, <4>1, <4>2
      <3> QED BY <3>4, <3>5
    <2>6. h = [i \in n..N |-> TLVsAt(b, i, h)]
      <3>1. h = [i \in n..N |-> h[i]]
        BY DEF h
      <3> QED BY <2>5, <3>1
    <2> QED BY <2>6
  <1>3. S \in SUBSET (1..N)
    OBVIOUS
  <1> HIDE DEF S
  <1>4. S = 1..N
    BY <1>1, <1>2, <1>3, Downward
  <1> QED BY <1>1, <1>4 DEF S, Places

\* UnmarshalTLVs is what that function has for the first place.
LEMMA UnmarshalTLVsEquation ==
  ASSUME NEW b \in Seq(Byte)
  PROVE  \E f : Places(b, f) /\ UnmarshalTLVs(b) = f[1]
  <1> DEFINE from == CHOOSE f : f = [n \in 1..Len(b) + 1 |-> TLVsAt(b, n, f)]
  <1>1. \E f : f = [n \in 1..Len(b) + 1 |-> TLVsAt(b, n, f)]
    BY PlacesExist DEF Places
  <1>2. Places(b, from)
    BY <1>1 DEF Places
  <1>3. UnmarshalTLVs(b) = from[1]
    BY DEF UnmarshalTLVs
  <1> QED BY <1>2, <1>3

\* The TLVs of tlvs lie one behind the other in b, from behind place p up to
\* the end; ends has the place where each one ends.
Lie(b, p, tlvs, ends) ==
  /\ ends \in [0..Len(tlvs) -> 0..Len(b)]
  /\ ends[0] = p /\ ends[Len(tlvs)] = Len(b)
  /\ \A j \in 1..Len(tlvs) :
        /\ Len(tlvs[j].data) < Word
        /\ ends[j] = ends[j - 1] + 4 + Len(tlvs[j].data)
        /\ SubSeq(b, ends[j - 1] + 1, ends[j]) = MarshalTLV(tlvs[j].type, tlvs[j].data)

\* A list with one more TLV in front.
LEMMA InFront ==
  ASSUME NEW b \in Seq(Byte), NEW p \in 0..Len(b), NEW t \in TLV, NEW rest \in Seq(TLV), NEW e,
         Len(t.data) < Word, p + 4 + Len(t.data) \in 0..Len(b),
         SubSeq(b, p + 1, p + 4 + Len(t.data)) = MarshalTLV(t.type, t.data),
         Lie(b, p + 4 + Len(t.data), rest, e)
  PROVE  <<t>> \o rest \in Seq(TLV) /\ \E ends : Lie(b, p, <<t>> \o rest, ends)
  <1> DEFINE l == <<t>> \o rest
  <1> DEFINE ends == [j \in 0..Len(rest) + 1 |-> IF j = 0 THEN p ELSE e[j - 1]]
  <1>1. /\ l \in Seq(TLV) /\ Len(l) = Len(rest) + 1 /\ Len(rest) \in Nat /\ l[1] = t
        /\ \A j \in 1..Len(rest) : l[j + 1] = rest[j]
    <2>1. <<t>> \in Seq(TLV) /\ Len(<<t>>) = 1
      OBVIOUS
    <2>2. /\ l \in Seq(TLV) /\ Len(l) = 1 + Len(rest)
          /\ \A i \in 1..1 + Len(rest) : l[i] = IF i <= 1 THEN <<t>>[i] ELSE rest[i - 1]
      BY <2>1, ConcatProperties
    <2> HIDE DEF l
    <2>3. ASSUME NEW j \in 1..Len(rest) PROVE l[j + 1] = rest[j]
      <3>1. j + 1 \in 1..1 + Len(rest) /\ ~(j + 1 <= 1) /\ (j + 1) - 1 = j
        OBVIOUS
      <3> QED BY <2>2, <3>1
    <2> QED BY <2>2, <2>3
  <1> HIDE DEF l
  <1>2. /\ e \in [0..Len(rest) -> 0..Len(b)]
        /\ e[0] = p + 4 + Len(t.data) /\ e[Len(rest)] = Len(b)
    BY DEF Lie
  <1>3. ends[0] = p
    BY <1>1
  <1>4. ASSUME NEW j \in 0..Len(rest) PROVE ends[j + 1] = e[j]
    <2>1. j + 1 \in 0..Len(rest) + 1 /\ j + 1 # 0 /\ (j + 1) - 1 = j
      BY <1>1
    <2> QED BY <2>1
  <1>5. ends \in [0..Len(l) -> 0..Len(b)]
    <2>1. ASSUME NEW j \in 0..Len(rest) + 1 PROVE (IF j = 0 THEN p ELSE e[j - 1]) \in 0..Len(b)
      <3>1. CASE j = 0
        BY <3>1
      <3>2. CASE j # 0
        <4>1. j - 1 \in 0..Len(rest)
          BY <1>1, <3>2
        <4> QED BY <1>2, <3>2, <4>1
      <3> QED BY <3>1, <3>2
    <2> QED BY <1>1, <2>1
  <1> HIDE DEF ends
  <1>6. ends[Len(l)] = Len(b)
    BY <1>1, <1>2, <1>4
  <1>7. ASSUME NEW j \in 1..Len(l)
        PROVE  /\ Len(l[j].data) < Word
               /\ ends[j] = ends[j - 1] + 4 + Len(l[j].data)
               /\ SubSeq(b, ends[j - 1] + 1, ends[j]) = MarshalTLV(l[j].type, l[j].data)
    <2>1. CASE j = 1
      <3>1. ends[j] = e[0] /\ ends[j - 1] = p /\ l[j] = t
        <4>1. 0 \in 0..Len(rest) /\ 0 + 1 = j /\ j - 1 = 0
          BY <1>1, <2>1
        <4> QED BY <1>1, <1>3, <1>4, <2>1, <4>1
      <3> QED BY <1>2, <3>1
    <2>2. CASE j # 1
      <3>1. /\ j - 1 \in 1..Len(rest) /\ (j - 1) + 1 = j
            /\ (j - 1) - 1 \in 0..Len(rest) /\ ((j - 1) - 1) + 1 = j - 1 /\ j - 1 \in 0..Len(rest)
        BY <1>1, <2>2
      <3>2. ends[j] = e[j - 1] /\ ends[j - 1] = e[(j - 1) - 1] /\ l[j] = rest[j - 1]
        BY <1>1, <1>4, <3>1
      <3> QED BY <3>1, <3>2 DEF Lie
    <2> QED BY <2>1, <2>2
  <1>8. Lie(b, p, l, ends)
    BY <1>3, <1>5, <1>6, <1>7 DEF Lie
  <1> QED BY <1>1, <1>8 DEF l

\* Whatever is decoded lies in the bytes as it would be marshalled, and nothing
\* is left out.
LEMMA DecodedLies ==
  ASSUME NEW b \in Seq(Byte), NEW f, Places(b, f),
         NEW n \in 1..Len(b) + 1
  PROVE  \/ f[n] = NoResult
         \/ \E tlvs \in Seq(TLV) : f[n] = <<tlvs>> /\ \E ends : Lie(b, n - 1, tlvs, ends)
  <1> DEFINE N == Len(b) + 1
  <1> DEFINE P(m) == \/ f[m] = NoResult
                     \/ \E tlvs \in Seq(TLV) : f[m] = <<tlvs>> /\ \E ends : Lie(b, m - 1, tlvs, ends)
  <1> DEFINE S == {m \in 1..N : P(m)}
  <1>1. N \in Nat /\ Len(b) \in Nat
    OBVIOUS
  <1>2. ASSUME NEW m \in 1..N, m + 1..N \subseteq S PROVE P(m)
    <2>1. f[m] = TLVsAt(b, m, f)
      BY DEF Places
    <2>2. CASE m = N
      <3>0. m > Len(b)
        BY <1>1, <2>2
      <3>1. f[m] = << <<>> >>
        BY <2>1, <3>0, Zenon DEF TLVsAt
      <3> DEFINE ends == [j \in 0..0 |-> Len(b)]
      <3>2. Lie(b, m - 1, <<>>, ends)
        <4>1. m - 1 = Len(b) /\ 0..Len(<<>>) = 0..0 /\ 1..Len(<<>>) = {}
          BY <1>1, <2>2
        <4>2. ends \in [0..0 -> 0..Len(b)] /\ ends[0] = Len(b)
          BY <1>1
        <4> QED BY <4>1, <4>2 DEF Lie
      <3>3. <<>> \in Seq(TLV)
        OBVIOUS
      <3> QED BY <3>1, <3>2, <3>3, Zenon
    <2>3. CASE m # N /\ UnmarshalTLV(From(b, m)) = NoResult
      BY <1>1, <2>1, <2>3 DEF TLVsAt
    <2>4. CASE m # N /\ UnmarshalTLV(From(b, m)) # NoResult
      <3>1. m \in 1..Len(b)
        BY <1>1, <2>4
      <3>2. PICK t \in TLV :
              /\ UnmarshalTLV(From(b, m)) = <<t>>
              /\ Len(t.data) < Word /\ m + 4 + Len(t.data) \in m + 1..Len(b) + 1
              /\ SubSeq(b, m, m + 3 + Len(t.data)) = MarshalTLV(t.type, t.data)
        BY <2>4, <3>1, AtPlace
      <3> DEFINE l == Len(t.data)
      <3> DEFINE k == m + 4 + l
      <3>3. f[m] = IF f[k] = NoResult THEN NoResult ELSE << <<t>> \o f[k][1] >>
        BY <2>1, <3>1, <3>2, ListAt
      <3>4. P(k)
        BY <1>2, <3>2
      <3>5. CASE f[k] = NoResult
        BY <3>3, <3>5
      <3>6. CASE f[k] # NoResult
        <4>1. PICK rest \in Seq(TLV) : f[k] = <<rest>> /\ \E e : Lie(b, k - 1, rest, e)
          BY <3>4, <3>6
        <4>2. PICK e : Lie(b, k - 1, rest, e)
          BY <4>1
        <4>3. /\ m - 1 \in 0..Len(b) /\ m - 1 + 4 + l \in 0..Len(b)
              /\ k - 1 = m - 1 + 4 + l /\ (m - 1) + 1 = m
              /\ m + 3 + l = m - 1 + 4 + l
          <5>1. l \in Nat /\ m + 4 + l \in m + 1..Len(b) + 1
            BY <3>2 DEF TLV
          <5> HIDE DEF l
          <5> QED BY <1>1, <3>1, <5>1
        <4>4. SubSeq(b, (m - 1) + 1, m - 1 + 4 + Len(t.data)) = MarshalTLV(t.type, t.data)
          BY <3>2, <4>3
        <4>5. <<t>> \o rest \in Seq(TLV) /\ \E ends : Lie(b, m - 1, <<t>> \o rest, ends)
          BY <3>2, <4>2, <4>3, <4>4, InFront
        <4>6. f[m] = << <<t>> \o rest >>
          <5> HIDE DEF k
          <5>1. f[k][1] = rest
            BY <4>1
          <5> QED BY <3>3, <3>6, <5>1, Zenon
        <4> QED BY <4>5, <4>6
      <3> QED BY <3>5, <3>6
    <2> QED BY <2>2, <2>3, <2>4
  <1> HIDE DEF P
  <1>3. S \in SUBSET (1..N) /\ \A m \in 1..N : m + 1..N \subseteq S => m \in S
    BY <1>2
  <1> HIDE DEF S
  <1>4. S = 1..N
    BY <1>1, <1>3, Downward
  <1> QED BY <1>4 DEF S, P

\* A list without its first TLV.
LEMMA Behind ==
  ASSUME NEW b \in Seq(Byte), NEW p \in 0..Len(b), NEW tlvs \in Seq(TLV), NEW ends,
         Lie(b, p, tlvs, ends), tlvs # <<>>
  PROVE  LET t == tlvs[1] IN
         /\ t \in TLV /\ Tail(tlvs) \in Seq(TLV) /\ tlvs = <<t>> \o Tail(tlvs)
         /\ Len(t.data) < Word /\ p + 4 + Len(t.data) \in 0..Len(b)
         /\ SubSeq(b, p + 1, p + 4 + Len(t.data)) = MarshalTLV(t.type, t.data)
         /\ \E e : Lie(b, p + 4 + Len(t.data), Tail(tlvs), e)
  <1> DEFINE t == tlvs[1]
  <1> DEFINE rest == Tail(tlvs)
  <1> DEFINE e == [j \in 0..Len(rest) |-> ends[j + 1]]
  <1>1. /\ t \in TLV /\ rest \in Seq(TLV) /\ Len(tlvs) = Len(rest) + 1 /\ Len(rest) \in Nat
        /\ \A j \in 1..Len(rest) : rest[j] = tlvs[j + 1]
    <2>1. Len(tlvs) \in Nat /\ Len(tlvs) # 0 /\ 1 \in 1..Len(tlvs)
      BY EmptySeq
    <2> QED BY <2>1, HeadTailProperties
  <1>2. tlvs = <<t>> \o rest
    <2> DEFINE l == <<t>> \o rest
    <2>1. <<t>> \in Seq(TLV) /\ Len(<<t>>) = 1 /\ <<t>>[1] = t
      BY <1>1
    <2>2. /\ l \in Seq(TLV) /\ Len(l) = 1 + Len(rest)
          /\ \A i \in 1..1 + Len(rest) : l[i] = IF i <= 1 THEN <<t>>[i] ELSE rest[i - 1]
      BY <1>1, <2>1, ConcatProperties
    <2> HIDE DEF l
    <2>3. ASSUME NEW i \in 1..Len(tlvs) PROVE l[i] = tlvs[i]
      <3>1. CASE i = 1
        BY <1>1, <2>1, <2>2, <3>1
      <3>2. CASE i # 1
        <4>1. i - 1 \in 1..Len(rest) /\ (i - 1) + 1 = i /\ ~(i <= 1) /\ i \in 1..1 + Len(rest)
          BY <1>1, <3>2
        <4> HIDE DEF rest
        <4> QED BY <1>1, <2>2, <4>1
      <3> QED BY <3>1, <3>2
    <2>4. Len(l) = Len(tlvs)
      BY <1>1, <2>2
    <2>5. l = tlvs
      BY <2>2, <2>3, <2>4, SeqEqual
    <2> QED BY <2>5 DEF l
  <1> HIDE DEF rest
  <1>3. /\ ends \in [0..Len(tlvs) -> 0..Len(b)] /\ ends[0] = p /\ ends[Len(tlvs)] = Len(b)
        /\ 1 \in 0..Len(tlvs) /\ 1 \in 1..Len(tlvs) /\ 1 - 1 = 0
    BY <1>1 DEF Lie
  <1>4. /\ Len(t.data) < Word /\ ends[1] = p + 4 + Len(t.data)
        /\ SubSeq(b, p + 1, ends[1]) = MarshalTLV(t.type, t.data)
    BY <1>3 DEF Lie
  <1>5. p + 4 + Len(t.data) \in 0..Len(b)
    BY <1>3, <1>4
  <1>6. ASSUME NEW j \in 0..Len(rest) PROVE e[j] = ends[j + 1] /\ ends[j + 1] \in 0..Len(b)
    <2>1. j + 1 \in 0..Len(tlvs)
      BY <1>1
    <2> QED BY <1>3, <2>1
  <1>7. e \in [0..Len(rest) -> 0..Len(b)]
    BY <1>6
  <1> HIDE DEF e
  <1>8. e[0] = p + 4 + Len(t.data) /\ e[Len(rest)] = Len(b)
    <2>1. 0 \in 0..Len(rest) /\ Len(rest) \in 0..Len(rest) /\ 0 + 1 = 1
      BY <1>1
    <2> QED BY <1>1, <1>3, <1>4, <1>6, <2>1
  <1>9. ASSUME NEW j \in 1..Len(rest)
        PROVE  /\ Len(rest[j].data) < Word
               /\ e[j] = e[j - 1] + 4 + Len(rest[j].data)
               /\ SubSeq(b, e[j - 1] + 1, e[j]) = MarshalTLV(rest[j].type, rest[j].data)
    <2>1. /\ j + 1 \in 1..Len(tlvs) /\ (j + 1) - 1 = j /\ (j - 1) + 1 = j
          /\ j \in 0..Len(rest) /\ j - 1 \in 0..Len(rest)
      BY <1>1
    <2>2. e[j] = ends[j + 1] /\ e[j - 1] = ends[j] /\ rest[j] = tlvs[j + 1]
      BY <1>1, <1>6, <2>1
    <2>3. /\ Len(tlvs[j + 1].data) < Word
          /\ ends[j + 1] = ends[(j + 1) - 1] + 4 + Len(tlvs[j + 1].data)
          /\ SubSeq(b, ends[(j + 1) - 1] + 1, ends[j + 1])
               = MarshalTLV(tlvs[j + 1].type, tlvs[j + 1].data)
      BY <2>1 DEF Lie
    <2> QED BY <2>1, <2>2, <2>3
  <1>10. Lie(b, p + 4 + Len(t.data), rest, e)
    BY <1>7, <1>8, <1>9 DEF Lie
  <1> QED BY <1>1, <1>2, <1>4, <1>5, <1>10 DEF rest

\* What lies in the bytes is decoded.
LEMMA LyingDecoded ==
  ASSUME NEW b \in Seq(Byte), NEW f, Places(b, f),
         NEW n \in 1..Len(b) + 1, NEW tlvs \in Seq(TLV), NEW ends, Lie(b, n - 1, tlvs, ends)
  PROVE  f[n] = <<tlvs>>
  <1> DEFINE N == Len(b) + 1
  <1> DEFINE P(m) == \A list \in Seq(TLV) : (\E e : Lie(b, m - 1, list, e)) => f[m] = <<list>>
  <1> DEFINE S == {m \in 1..N : P(m)}
  <1>1. N \in Nat /\ Len(b) \in Nat
    OBVIOUS
  <1>2. ASSUME NEW m \in 1..N, m + 1..N \subseteq S,
               NEW list \in Seq(TLV), NEW e, Lie(b, m - 1, list, e)
        PROVE  f[m] = <<list>>
    <2>1. f[m] = TLVsAt(b, m, f)
      BY DEF Places
    <2>2. CASE list = <<>>
      <3>1. m > Len(b)
        <4>1. m - 1 = Len(b)
          BY <2>2, <1>2 DEF Lie
        <4> QED BY <1>1, <4>1
      <3> QED BY <2>1, <2>2, <3>1, Zenon DEF TLVsAt
    <2>3. CASE list # <<>>
      <3> DEFINE t == list[1]
      <3> DEFINE l == Len(t.data)
      <3>1. m - 1 \in 0..Len(b)
        BY <1>1
      <3>2. /\ t \in TLV /\ Tail(list) \in Seq(TLV) /\ list = <<t>> \o Tail(list)
            /\ l < Word /\ m - 1 + 4 + l \in 0..Len(b)
            /\ SubSeq(b, m - 1 + 1, m - 1 + 4 + l) = MarshalTLV(t.type, t.data)
            /\ \E x : Lie(b, m - 1 + 4 + l, Tail(list), x)
        BY <1>2, <2>3, <3>1, Behind
      <3>3. l \in Nat /\ t.type \in 0..Word - 1 /\ t.data \in Seq(Byte)
            /\ t = [type |-> t.type, data |-> t.data]
        BY <3>2 DEF TLV
      <3> DEFINE k == m + 4 + l
      <3>4. /\ m - 1 + 4 + l = k - 1 /\ m - 1 + 1 = m /\ k - 1 = m + 3 + l
            /\ k \in m + 1..N /\ m \in 1..Len(b) /\ k \in 1..Len(b) + 1 /\ ~(m > Len(b))
        <4>1. l \in Nat /\ m - 1 + 4 + l \in 0..Len(b)
          BY <3>2, <3>3
        <4> HIDE DEF l
        <4> QED BY <1>1, <4>1
      <3>5. UnmarshalTLV(From(b, m)) = <<t>>
        <4> DEFINE M == MarshalTLV(t.type, t.data)
        <4>1. From(b, k) \in Seq(Byte)
          BY <3>4, Rest
        <4>2. From(b, m) = M \o From(b, k)
          <5>1. /\ m \in 1..Len(b) + 1 /\ k - 1 \in m - 1..Len(b) /\ Len(b) \in k - 1..Len(b)
                /\ (k - 1) + 1 = k
            <6>1. k \in m + 1..Len(b) + 1 /\ m \in 1..Len(b)
              BY <3>4
            <6> HIDE DEF k
            <6> QED BY <1>1, <6>1
          <5>2. SubSeq(b, m, k - 1) \o SubSeq(b, (k - 1) + 1, Len(b)) = SubSeq(b, m, Len(b))
            BY <5>1, ConcatAdjacentSubSeq
          <5>3. SubSeq(b, m, k - 1) = M
            BY <3>2, <3>4
          <5> QED BY <5>1, <5>2, <5>3 DEF From
        <4>3. UnmarshalTLV(M \o From(b, k)) = << [type |-> t.type, data |-> t.data] >>
          BY <3>2, <3>3, <4>1, TLVRoundTrip
        <4> QED BY <3>3, <4>2, <4>3
      <3>6. f[k] = << Tail(list) >>
        <4>1. P(k)
          BY <1>2, <3>4
        <4> QED BY <3>2, <3>4, <4>1
      <3>7. f[m] = IF f[k] = NoResult THEN NoResult ELSE << <<t>> \o f[k][1] >>
        <4>1. m \in 1..Len(b) /\ t \in TLV
          BY <3>2, <3>4
        <4>2. TLVsAt(b, m, f) = IF f[k] = NoResult THEN NoResult ELSE << <<t>> \o f[k][1] >>
          BY <3>5, <4>1, ListAt
        <4> QED BY <2>1, <4>2, Zenon
      <3> HIDE DEF k, t
      <3>8. f[k] # NoResult /\ f[k][1] = Tail(list)
        BY <3>6 DEF NoResult
      <3> QED BY <3>2, <3>7, <3>8
    <2> QED BY <2>2, <2>3
  <1>3. S \in SUBSET (1..N) /\ \A m \in 1..N : m + 1..N \subseteq S => m \in S
    BY <1>2
  <1> HIDE DEF S
  <1>4. S = 1..N
    BY <1>1, <1>3, Downward
  <1>5. P(n)
    BY <1>4 DEF S
  <1> QED BY <1>5

\* UnmarshalTLVs returns the list of which b consists, and fails if b does not
\* consist of TLVs: what was marshalled one behind the other comes back, in
\* order, with nothing added or lost (UnmarshalTLVs, tlv.go).
THEOREM TLVsRoundTrip ==
  \A b \in Seq(Byte) :
      /\ UnmarshalTLVs(b) # NoResult => \E tlvs \in Seq(TLV) : UnmarshalTLVs(b) = <<tlvs>>
      /\ \A tlvs \in Seq(TLV) :
            UnmarshalTLVs(b) = <<tlvs>> <=> \E ends : Lie(b, 0, tlvs, ends)
  <1> SUFFICES ASSUME NEW b \in Seq(Byte)
               PROVE  /\ UnmarshalTLVs(b) # NoResult =>
                            \E tlvs \in Seq(TLV) : UnmarshalTLVs(b) = <<tlvs>>
                      /\ \A tlvs \in Seq(TLV) :
                            UnmarshalTLVs(b) = <<tlvs>> <=> \E ends : Lie(b, 0, tlvs, ends)
    OBVIOUS
  <1>1. PICK f : Places(b, f) /\ UnmarshalTLVs(b) = f[1]
    BY UnmarshalTLVsEquation
  <1>2. 1 \in 1..Len(b) + 1 /\ 1 - 1 = 0
    OBVIOUS
  <1>3. \/ f[1] = NoResult
        \/ \E tlvs \in Seq(TLV) : f[1] = <<tlvs>> /\ \E ends : Lie(b, 1 - 1, tlvs, ends)
    BY <1>1, <1>2, DecodedLies
  <1>4. ASSUME NEW tlvs \in Seq(TLV), f[1] = <<tlvs>> PROVE \E ends : Lie(b, 0, tlvs, ends)
    BY <1>2, <1>3, <1>4 DEF NoResult
  <1>5. ASSUME NEW tlvs \in Seq(TLV), NEW ends, Lie(b, 0, tlvs, ends) PROVE f[1] = <<tlvs>>
    <2>1. Lie(b, 1 - 1, tlvs, ends)
      BY <1>2, <1>5, Zenon
    <2>2. Places(b, f) /\ 1 \in 1..Len(b) + 1
      BY <1>1, <1>2, Zenon
    <2> QED BY <1>5, <2>1, <2>2, LyingDecoded
  <1> QED BY <1>1, <1>3, <1>4, <1>5

-----------------------------------------------------------------------------
(***************************************************************************)
(* The place of every frame in the bytes of a client.                      *)
(***************************************************************************)

\* The length of a frame, from the two bytes of its header.
LEMMA HeaderLength ==
  ASSUME NEW c \in Seq(Nat), Len(c) >= 6
  PROVE  FlapLength(c) = c[5] * 256 + c[6] + 6
  <1>1. 5 \in 1..Len(c) + 1 /\ 6 \in 0..Len(c) /\ 5 <= 6 + 1
    OBVIOUS
  <1>2. \A i \in 1..6 + 1 - 5 : SubSeq(c, 5, 6)[i] = c[5 + i - 1]
    BY <1>1, Part
  <1>3. SubSeq(c, 5, 6)[1] = c[5] /\ SubSeq(c, 5, 6)[2] = c[6]
    BY <1>2
  <1> QED BY <1>3 DEF FlapLength, Uint16, HeaderLen

\* A frame ends at a place.
LEMMA EndType ==
  ASSUME NEW x, ClientInput(x), NEW k \in Nat, k <= Len(x.frames)
  PROVE  End(x, k) \in Nat
  <1>1. x.ends \in Seq(Nat) /\ Len(x.ends) = Len(x.frames) /\ Len(x.frames) \in Nat
    BY DEF ClientInput
  <1>2. CASE k = 0
    BY <1>2 DEF End
  <1>3. CASE k # 0
    <2>1. k \in 1..Len(x.ends)
      BY <1>1, <1>3
    <2> QED BY <1>1, <1>3, <2>1 DEF End
  <1> QED BY <1>2, <1>3

\* The frames of an input lie one behind the other in its bytes.
LEMMA FramePlace ==
  ASSUME NEW x, ClientInput(x), NEW k \in Nat, k < Len(x.frames)
  PROVE  /\ x.bytes \in Seq(Nat) /\ Len(x.bytes) \in Nat
         /\ x.frames[k + 1] \in FrameType /\ Len(x.frames[k + 1].data) < Word
         /\ End(x, k) \in Nat /\ End(x, k + 1) \in Nat
         /\ End(x, k + 1) <= Len(x.bytes)
         /\ End(x, k + 1) = End(x, k) + Len(Encode(x.frames[k + 1]))
         /\ SubSeq(x.bytes, End(x, k) + 1, End(x, k + 1)) = Encode(x.frames[k + 1])
  <1> DEFINE f == x.frames[k + 1]
  <1>1. /\ x.bytes \in Seq(Nat) /\ x.frames \in Seq(FrameType)
        /\ x.ends \in Seq(Nat) /\ Len(x.ends) = Len(x.frames)
    BY BytesAreNat DEF ClientInput, FrameType
  <1>2. Len(x.bytes) \in Nat /\ Len(x.frames) \in Nat
    BY <1>1
  <1>3. k + 1 \in 1..Len(x.frames) /\ k + 1 # 0 /\ (k + 1) - 1 = k
    BY <1>2
  <1>4. /\ Len(f.data) < Word /\ x.ends[k + 1] <= Len(x.bytes)
        /\ SubSeq(x.bytes, End(x, (k + 1) - 1) + 1, x.ends[k + 1]) = Encode(f)
    BY <1>3 DEF ClientInput
  <1>5. f \in FrameType /\ x.ends[k + 1] \in Nat
    BY <1>1, <1>3
  <1>6. End(x, k + 1) = x.ends[k + 1]
    BY <1>3 DEF End
  <1>7. End(x, k) \in Nat
    BY <1>2, EndType
  <1> DEFINE e == Encode(f)
  <1>8. Len(e) \in Nat /\ Len(e) >= 6
    <2>1. Len(e) = 6 + Len(f.data)
      BY <1>4, <1>5, EncodeFacts DEF HeaderLen
    <2>2. Len(f.data) \in Nat
      BY <1>5 DEF FrameType
    <2> QED BY <2>1, <2>2
  <1> DEFINE a == End(x, k)
  <1> DEFINE b == x.ends[k + 1]
  <1>9. SubSeq(x.bytes, a + 1, b) = e
    BY <1>3, <1>4
  <1> HIDE DEF a, b, e
  <1>10. a \in Nat /\ b \in Nat /\ b <= Len(x.bytes)
    BY <1>4, <1>5, <1>7 DEF a, b
  <1>11. \A i \in a + 1..b : x.bytes[i] \in Nat
    BY <1>1, <1>2, <1>10
  <1>12. Len(e) = IF a + 1 <= b THEN b - (a + 1) + 1 ELSE 0
    BY <1>9, <1>10, <1>11, SubSeqProperties
  <1>13. b = a + Len(e)
    BY <1>8, <1>10, <1>12
  <1> QED BY <1>1, <1>2, <1>3, <1>4, <1>5, <1>6, <1>7, <1>13 DEF a, b, e

\* What has been read behind the first k frames is whole when the next one has
\* been read, and that one is what is cut off.
LEMMA NextFrame ==
  ASSUME NEW x, ClientInput(x), NEW k \in Nat, k < Len(x.frames),
         NEW n \in Nat, End(x, k) <= n, n <= Len(x.bytes)
  PROVE  LET b == SubSeq(x.bytes, End(x, k) + 1, n) IN
         /\ Whole(b) <=> End(x, k + 1) <= n
         /\ Whole(b) => /\ SubSeq(b, 1, FlapLength(b)) = Encode(x.frames[k + 1])
                        /\ From(b, FlapLength(b) + 1) =
                              SubSeq(x.bytes, End(x, k + 1) + 1, n)
  <1> DEFINE s == x.bytes
  <1> DEFINE p == End(x, k)
  <1> DEFINE q == End(x, k + 1)
  <1> DEFINE e == Encode(x.frames[k + 1])
  <1> DEFINE b == SubSeq(s, p + 1, n)
  <1>1. /\ s \in Seq(Nat) /\ Len(s) \in Nat /\ p \in Nat /\ q \in Nat /\ q <= Len(s)
        /\ q = p + Len(e) /\ SubSeq(s, p + 1, q) = e
    BY FramePlace
  <1>2. /\ e \in Seq(Nat) /\ Len(e) \in Nat /\ Len(e) >= 6 /\ e[1] = Mark
        /\ FlapLength(e) = Len(e)
    <2>1. x.frames[k + 1] \in FrameType /\ Len(x.frames[k + 1].data) < Word
      BY FramePlace
    <2>2. Len(x.frames[k + 1].data) \in Nat
      BY <2>1 DEF FrameType
    <2>3. e \in Seq(Nat) /\ Len(e) = 6 + Len(x.frames[k + 1].data) /\ e[1] = Mark
          /\ FlapLength(e) = Len(e)
      BY <2>1, EncodeFacts DEF HeaderLen
    <2> QED BY <2>2, <2>3
  <1>3. p <= n /\ n <= Len(s)
    OBVIOUS
  <1> HIDE DEF s, p, q, e
  <1>4. p + 1 \in 1..Len(s) + 1 /\ n \in 0..Len(s) /\ p + 1 <= n + 1
    BY <1>1, <1>3
  <1>5. /\ b \in Seq(Nat) /\ Len(b) = n + 1 - (p + 1)
        /\ \A i \in 1..n + 1 - (p + 1) : b[i] = s[p + 1 + i - 1]
    BY <1>1, <1>4, Part
  <1>6. \A i \in 1..Len(e) : e[i] = s[p + 1 + i - 1]
    <2>1. p + 1 \in 1..Len(s) + 1 /\ q \in 0..Len(s) /\ p + 1 <= q + 1
      BY <1>1
    <2>2. \A i \in 1..q + 1 - (p + 1) : SubSeq(s, p + 1, q)[i] = s[p + 1 + i - 1]
      BY <1>1, <2>1, Part
    <2>3. q + 1 - (p + 1) = Len(e)
      BY <1>1, <1>2
    <2> QED BY <1>1, <2>2, <2>3
  <1>7. Len(b) = n - p
    BY <1>1, <1>5
  <1> HIDE DEF b
  <1>8. ASSUME NEW i \in 1..6, Len(b) >= 6 PROVE b[i] = e[i]
    <2>1. i \in 1..n + 1 - (p + 1) /\ i \in 1..Len(e)
      BY <1>1, <1>2, <1>7, <1>8
    <2> QED BY <1>5, <1>6, <2>1
  <1>10. ASSUME Len(b) >= 6 PROVE b[1] = Mark /\ FlapLength(b) = Len(e)
    <2>1. b[1] = e[1] /\ b[5] = e[5] /\ b[6] = e[6]
      BY <1>8, <1>10
    <2>2. FlapLength(b) = b[5] * 256 + b[6] + 6 /\ FlapLength(e) = e[5] * 256 + e[6] + 6
      BY <1>2, <1>5, <1>10, HeaderLength
    <2> QED BY <1>2, <2>1, <2>2
  <1>11. Whole(b) <=> q <= n
    <2>1. Whole(b) <=> Len(b) >= 6 /\ Len(b) >= Len(e)
      BY <1>10 DEF Whole, HeaderLen
    <2> QED BY <1>1, <1>2, <1>3, <1>7, <2>1
  <1>12. ASSUME Whole(b)
         PROVE  SubSeq(b, 1, FlapLength(b)) = e /\ From(b, FlapLength(b) + 1) = SubSeq(s, q + 1, n)
    <2>1. FlapLength(b) = Len(e) /\ q <= n
      BY <1>10, <1>11, <1>12 DEF Whole, HeaderLen
    <2>2. /\ 1 \in 1..n + 2 - (p + 1) /\ Len(e) \in 0..n + 1 - (p + 1) /\ 1 <= Len(e) + 1
          /\ Len(e) + 1 \in 1..n + 2 - (p + 1) /\ Len(b) \in 0..n + 1 - (p + 1)
          /\ Len(e) + 1 <= Len(b) + 1
      <3>1. n - p >= Len(e) /\ n - p \in Nat
        BY <1>1, <1>2, <1>3, <2>1
      <3>2. n + 2 - (p + 1) = n - p + 1 /\ n + 1 - (p + 1) = n - p
        BY <1>1, <1>3
      <3> QED BY <1>2, <1>7, <3>1, <3>2
    <2>3. SubSeq(SubSeq(s, p + 1, n), 1, Len(e)) = SubSeq(s, p + 1 + 1 - 1, p + 1 + Len(e) - 1)
      BY <1>1, <1>4, <2>2, PartOfPart
    <2>4. SubSeq(SubSeq(s, p + 1, n), Len(e) + 1, Len(b))
            = SubSeq(s, p + 1 + (Len(e) + 1) - 1, p + 1 + Len(b) - 1)
      BY <1>1, <1>4, <2>2, PartOfPart
    <2>5. /\ p + 1 + 1 - 1 = p + 1 /\ p + 1 + Len(e) - 1 = q
          /\ p + 1 + (Len(e) + 1) - 1 = q + 1 /\ p + 1 + Len(b) - 1 = n
      BY <1>1, <1>2, <1>3, <1>7
    <2> QED BY <1>1, <2>1, <2>3, <2>4, <2>5 DEF From, b
  <1> QED BY <1>11, <1>12 DEF s, p, q, e, b

\* Behind the last frame there is never another.
LEMMA NoFrame ==
  ASSUME NEW x, ClientInput(x), NEW n \in Nat,
         End(x, Len(x.frames)) <= n, n <= Len(x.bytes)
  PROVE  ~Whole(SubSeq(x.bytes, End(x, Len(x.frames)) + 1, n))
  <1> DEFINE s == x.bytes
  <1> DEFINE p == End(x, Len(x.frames))
  <1> DEFINE b == SubSeq(s, p + 1, n)
  <1> DEFINE c == SubSeq(s, p + 1, Len(s))
  <1>1. s \in Seq(Nat) /\ Len(s) \in Nat
    BY BytesAreNat DEF ClientInput
  <1>2. p \in Nat
    <2>1. Len(x.frames) \in Nat
      BY DEF ClientInput
    <2> QED BY <2>1, EndType
  <1>3. p <= n /\ n <= Len(s)
    OBVIOUS
  <1>4. ~Whole(c)
    BY DEF ClientInput, From
  <1> HIDE DEF s, p
  <1>5. p + 1 \in 1..Len(s) + 1 /\ n \in 0..Len(s) /\ p + 1 <= n + 1
        /\ Len(s) \in 0..Len(s) /\ p + 1 <= Len(s) + 1
    BY <1>1, <1>2, <1>3
  <1>6. /\ b \in Seq(Nat) /\ Len(b) = n + 1 - (p + 1)
        /\ \A i \in 1..n + 1 - (p + 1) : b[i] = s[p + 1 + i - 1]
    BY <1>1, <1>5, Part
  <1>7. /\ c \in Seq(Nat) /\ Len(c) = Len(s) + 1 - (p + 1)
        /\ \A i \in 1..Len(s) + 1 - (p + 1) : c[i] = s[p + 1 + i - 1]
    BY <1>1, <1>5, Part
  <1> HIDE DEF b, c
  <1>8. ASSUME Whole(b) PROVE FALSE
    <2>1. Len(b) >= 6 /\ b[1] = Mark /\ Len(b) >= FlapLength(b)
      BY <1>8 DEF Whole, HeaderLen
    <2>2. Len(b) = n - p /\ Len(c) = Len(s) - p /\ Len(c) >= Len(b) /\ Len(c) >= 6
      BY <1>1, <1>2, <1>3, <1>6, <1>7, <2>1
    <2>3. ASSUME NEW i \in 1..6 PROVE b[i] = c[i]
      <3>1. i \in 1..n + 1 - (p + 1) /\ i \in 1..Len(s) + 1 - (p + 1)
        BY <1>1, <1>2, <1>3, <2>1, <2>2
      <3> QED BY <1>6, <1>7, <3>1
    <2>4. FlapLength(b) = b[5] * 256 + b[6] + 6 /\ FlapLength(c) = c[5] * 256 + c[6] + 6
      BY <1>6, <1>7, <2>1, <2>2, HeaderLength
    <2>5. b[1] = c[1] /\ b[5] = c[5] /\ b[6] = c[6]
      BY <2>3
    <2>6. FlapLength(b) = FlapLength(c)
      BY <2>4, <2>5
    <2>7. Len(c) >= FlapLength(c)
      <3>1. b[5] \in Nat /\ b[6] \in Nat
        <4>1. 5 \in 1..Len(b) /\ 6 \in 1..Len(b)
          BY <1>1, <1>2, <2>1, <2>2
        <4> QED BY <1>6, <4>1
      <3>2. FlapLength(b) \in Nat
        BY <2>4, <3>1
      <3> QED BY <1>1, <1>2, <1>3, <2>1, <2>2, <2>6, <3>2
    <2> QED BY <1>4, <2>1, <2>2, <2>5, <2>7 DEF Whole, HeaderLen
  <1> QED BY <1>8 DEF b, s, p

-----------------------------------------------------------------------------
(***************************************************************************)
(* The frames that the handler cuts out of what it reads.                  *)
(***************************************************************************)

\* At first nothing has been read.
LEMMA InitCut == Init => Cut
  <1> SUFFICES ASSUME Init PROVE Cut OBVIOUS
  <1>1. /\ handled = <<>> /\ nread = 0 /\ buf = <<>> /\ pc = "top" /\ ClientInput(input)
    BY LinkAssumption DEF Init
  <1>2. Taken = 0 /\ Len(handled) = 0
    BY <1>1 DEF Taken
  <1>3. End(input, 0) = 0
    BY DEF End
  <1>4. /\ SubSeq(input.frames, 1, 0) = <<>> /\ SubSeq(input.bytes, 0 + 1, 0) = <<>>
    BY SubSeqEmpty
  <1>5. Len(input.frames) \in Nat /\ Len(input.bytes) \in Nat
    BY <1>1 DEF ClientInput
  <1>6. ~Complete
    BY <1>1 DEF Complete, Whole, HeaderLen
  <1> QED BY <1>1, <1>2, <1>3, <1>4, <1>5, <1>6 DEF Cut

\* Steps that neither read nor cut.
LEMMA CutKept ==
  ASSUME Cut, UNCHANGED <<input, reading>>,
         pc' = pc \/ (pc # "handle" /\ pc' # "handle"),
         pc' \in {"top", "hello", "read"} => pc \in {"top", "hello", "read"}
  PROVE  Cut'
  BY DEF Cut, Taken, reading, Complete

\* What is read is put behind what is in the buffer.
LEMMA ReadCut == ASSUME TypeOK, Cut, Read PROVE Cut'
  <1>1. /\ pc = "read" /\ pc' = "parse" /\ UNCHANGED <<input, flap, handled>>
        /\ \E n \in 1..Chunk :
              /\ nread + n <= Len(input.bytes) /\ nread' = nread + n
              /\ buf' = buf \o SubSeq(input.bytes, nread + 1, nread + n)
    BY DEF Read
  <1>2. PICK n \in 1..Chunk :
              /\ nread + n <= Len(input.bytes) /\ nread' = nread + n
              /\ buf' = buf \o SubSeq(input.bytes, nread + 1, nread + n)
    BY <1>1
  <1>3. n \in Nat /\ nread \in Nat
    BY LinkAssumption DEF Cut
  <1>4. input.bytes \in Seq(Byte) /\ Len(input.bytes) \in Nat
    BY LinkAssumption DEF TypeOK, ClientInput
  <1>5. Taken' = Taken /\ End(input', Taken') = End(input, Taken)
    BY <1>1 DEF Taken
  <1> DEFINE e == End(input, Taken)
  <1>6. e \in Nat /\ e <= nread
    <2>1. ClientInput(input) /\ Taken \in Nat /\ Taken <= Len(input.frames)
      BY LinkAssumption DEF TypeOK, Cut, Taken
    <2> QED BY <2>1, EndType DEF Cut
  <1>7. buf' = SubSeq(input.bytes, e + 1, nread + n)
    <2>1. /\ e + 1 \in 1..Len(input.bytes) + 1 /\ nread \in (e + 1) - 1..Len(input.bytes)
          /\ nread + n \in nread..Len(input.bytes)
      BY <1>2, <1>3, <1>4, <1>6
    <2>2. SubSeq(input.bytes, e + 1, nread) \o SubSeq(input.bytes, nread + 1, nread + n)
            = SubSeq(input.bytes, e + 1, nread + n)
      BY <1>4, <2>1, ConcatAdjacentSubSeq
    <2>3. buf = SubSeq(input.bytes, e + 1, nread)
      BY DEF Cut
    <2> QED BY <1>2, <2>2, <2>3
  <1>8. e <= nread'
    BY <1>2, <1>3, <1>6
  <1>9. Taken <= Len(input.frames) /\ handled = SubSeq(input.frames, 1, Len(handled))
        /\ handled \in Seq([channel : Byte, data : Seq(Byte)])
    BY DEF Cut
  <1>10. nread' \in Nat /\ nread' <= Len(input.bytes)
    BY <1>2, <1>3
  <1>11. buf' = SubSeq(input.bytes, e + 1, nread')
    BY <1>2, <1>7
  <1> HIDE DEF e
  <1>12. End(input', Taken') = e
    BY <1>5 DEF e
  <1> QED BY <1>1, <1>5, <1>8, <1>9, <1>10, <1>11, <1>12 DEF Cut

\* A frame is cut off exactly if all of it has been read.
LEMMA ParseCut == ASSUME TypeOK, Cut, Parse PROVE Cut'
  <1> DEFINE k == Taken
  <1>1. /\ pc = "parse" /\ UNCHANGED <<input, nread, handled>>
        /\ \/ /\ Complete /\ pc' = "handle" /\ flap' = UnmarshalFLAP(Frame)
              /\ buf' = From(buf, FlapLength(buf) + 1)
           \/ ~Complete /\ pc' = "top" /\ UNCHANGED <<flap, buf>>
    BY DEF Parse
  <1>2. k = Len(handled) /\ Len(handled) \in Nat
    BY <1>1 DEF Taken, Cut
  <1>3. /\ ClientInput(input) /\ nread \in Nat /\ k <= Len(input.frames)
        /\ End(input, k) <= nread /\ nread <= Len(input.bytes)
        /\ buf = SubSeq(input.bytes, End(input, k) + 1, nread)
    BY LinkAssumption DEF TypeOK, Cut
  <1>4. CASE Complete
    <2>1. k # Len(input.frames)
      BY <1>3, <1>4, NoFrame DEF Complete
    <2>2. k < Len(input.frames) /\ k \in Nat
      BY <1>2, <1>3, <2>1 DEF ClientInput
    <2>3. /\ End(input, k + 1) <= nread
          /\ SubSeq(buf, 1, FlapLength(buf)) = Encode(input.frames[k + 1])
          /\ From(buf, FlapLength(buf) + 1) = SubSeq(input.bytes, End(input, k + 1) + 1, nread)
      BY <1>3, <1>4, <2>2, NextFrame DEF Complete
    <2>4. input.frames[k + 1] \in FrameType /\ Len(input.frames[k + 1].data) < Word
      BY <1>3, <2>2, FramePlace
    <2>5. flap' = << [channel |-> input.frames[k + 1].channel, seq |-> 0,
                      data |-> input.frames[k + 1].data] >>
      BY <1>1, <1>4, <2>3, <2>4, EncodeFacts DEF Frame
    <2>6. Taken' = k + 1 /\ pc' = "handle"
      BY <1>1, <1>2, <1>4 DEF Taken
    <2>7. k + 1 <= Len(input.frames)
      BY <1>3, <2>2 DEF ClientInput
    <2>8. buf' = SubSeq(input.bytes, End(input, k + 1) + 1, nread)
      BY <1>1, <1>4, <2>3
    <2> HIDE DEF k
    <2> QED BY <1>1, <1>3, <2>3, <2>5, <2>6, <2>7, <2>8 DEF Cut
  <1>5. CASE ~Complete
    <2>1. Taken' = k /\ pc' = "top" /\ UNCHANGED <<flap, buf>>
      BY <1>1, <1>2, <1>5 DEF Taken
    <2>2. ~Complete'
      BY <1>5, <2>1 DEF Complete
    <2> QED BY <1>1, <1>3, <2>1, <2>2 DEF Cut
  <1> QED BY <1>4, <1>5

\* The frame that was cut off is the next one that was sent.
LEMMA HandleCut == ASSUME TypeOK, Cut, HandleFrame PROVE Cut'
  <1> DEFINE new == [channel |-> flap[1].channel, data |-> flap[1].data]
  <1> DEFINE k == Len(handled)
  <1> DEFINE f == input.frames[k + 1]
  <1>1. /\ pc = "handle" /\ handled' = Append(handled, new)
        /\ UNCHANGED <<input, nread, buf>>
    BY DEF HandleFrame
  <1>2. pc' \in {"parse", "ret"} \cup Replying
    BY Outcome DEF Answer
  <1>3. /\ ClientInput(input) /\ handled \in Seq(FrameType) /\ k \in Nat
        /\ Taken = k + 1 /\ k + 1 <= Len(input.frames)
        /\ handled = SubSeq(input.frames, 1, k)
    BY <1>1, LinkAssumption DEF TypeOK, Cut, Taken, FrameType
  <1>4. input.frames \in Seq(FrameType) /\ Len(input.frames) \in Nat
    BY <1>3 DEF ClientInput, FrameType
  <1>5. f \in FrameType
    BY <1>3, <1>4
  <1>6. new = f
    <2>1. flap = << [channel |-> f.channel, seq |-> 0, data |-> f.data] >>
      BY <1>1, <1>3 DEF Cut
    <2>2. new = [channel |-> f.channel, data |-> f.data]
      <3>1. flap[1] = [channel |-> f.channel, seq |-> 0, data |-> f.data]
        BY <2>1
      <3> HIDE DEF f
      <3> QED BY <3>1
    <2> HIDE DEF new, f
    <2> QED BY <2>2, <1>5 DEF FrameType
  <1> HIDE DEF new, f, k
  <1>7. handled' \in Seq(FrameType) /\ Len(handled') = k + 1
    BY <1>1, <1>3, <1>5, <1>6 DEF k
  <1>8. handled' = SubSeq(input.frames, 1, k + 1)
    <2>1. SubSeq(input.frames, 1, k + 1) = Append(SubSeq(input.frames, 1, k), input.frames[k + 1])
      <3>1. 1 \in 1..Len(input.frames) /\ k + 1 \in 1..Len(input.frames) /\ (k + 1) - 1 = k
        BY <1>3, <1>4
      <3>2. SubSeq(input.frames, 1, k + 1)
              = SubSeq(input.frames, 1, k) \o <<input.frames[k + 1]>>
        BY <1>4, <3>1, SubSeqRecursiveSecond
      <3> QED BY <1>3, <1>4, <1>5, <3>2, AppendIsConcat DEF f
    <2> QED BY <1>1, <1>3, <1>6, <2>1 DEF f
  <1>9. Taken' = k + 1
    BY <1>2, <1>3, <1>7 DEF Taken, Replying
  <1> QED BY <1>1, <1>2, <1>3, <1>7, <1>8, <1>9 DEF Cut, FrameType, Replying

\* Every step keeps the frames and the bytes apart.
LEMMA CutStep == ASSUME SendInv, Cut, [Next]_vars PROVE Cut'
  <1>1. TypeOK /\ HandlerSends
    BY DEF SendInv
  <1>2. CASE UNCHANGED vars
    BY <1>2, CutKept DEF vars
  <1>3. ASSUME NEW p \in Senders, SendStep(p) PROVE Cut'
    <2>1. CASE Load(p)
      BY <2>1, CutKept DEF Load
    <2>2. CASE Store(p)
      BY <2>2, CutKept DEF Store
    <2>3. CASE Stamp(p)
      BY <2>3, CutKept DEF Stamp
    <2>4. CASE Write(p) \/ SendFails(p)
      <3>1. sender[p] = "write" /\ Return(p) /\ UNCHANGED <<input, reading>>
        BY <2>4 DEF Write, SendFails
      <3>2. CASE p = "handler"
        <4>1. pc \in Sending
          BY <1>1, <3>1, <3>2 DEF HandlerSends
        <4> QED BY <3>1, <3>2, <4>1, CutKept DEF Return, Sending, Replying
      <3>3. CASE p # "handler"
        BY <3>1, <3>3, CutKept DEF Return
      <3> QED BY <3>2, <3>3
    <2> QED BY <1>3, <2>1, <2>2, <2>3, <2>4 DEF SendStep
  <1>4. ASSUME NEW p \in Routines, Notify(p) PROVE Cut'
    BY <1>4, CutKept DEF Notify
  <1>5. CASE Top
    BY <1>5, CutKept DEF Top
  <1>6. CASE ReadFails \/ Timeout \/ HangUp
    BY <1>6, CutKept DEF ReadFails, Timeout, HangUp
  <1>7. CASE Bye \/ Leave
    BY <1>7, CutKept DEF Bye, Leave, Answer
  <1> QED
    BY <1>1, <1>2, <1>3, <1>4, <1>5, <1>6, <1>7, ReadCut, ParseCut, HandleCut DEF Next, Loop

\* A handler that waits for more has handled the frames that it has read.
LEMMA CutFramed == ASSUME TypeOK, Cut PROVE Framed
  <1> SUFFICES ASSUME pc = "read" PROVE Framed
    BY DEF Framed
  <1> DEFINE k == Len(handled)
  <1>1. Taken = k /\ k \in Nat
    BY DEF Taken, Cut
  <1>2. /\ ClientInput(input) /\ nread \in Nat /\ k <= Len(input.frames)
        /\ handled = SubSeq(input.frames, 1, k)
        /\ End(input, k) <= nread /\ nread <= Len(input.bytes)
        /\ buf = SubSeq(input.bytes, End(input, k) + 1, nread) /\ ~Whole(buf)
    BY <1>1, LinkAssumption DEF TypeOK, Cut, Complete
  <1>3. ASSUME k < Len(input.frames) PROVE nread < End(input, k + 1)
    <2>1. ~(End(input, k + 1) <= nread)
      BY <1>1, <1>2, <1>3, NextFrame
    <2>2. End(input, k + 1) \in Nat
      BY <1>1, <1>2, <1>3, FramePlace
    <2> QED BY <1>2, <2>1, <2>2
  <1> QED BY <1>2, <1>3 DEF Framed

-----------------------------------------------------------------------------
(***************************************************************************)
(* The TLV that signs a client on.                                         *)
(***************************************************************************)

\* A TLV that is found is the first of its type.
LEMMA FoundFirst ==
  ASSUME NEW tlvs \in Seq(TLV), NEW type, FindTLV(tlvs, type) # NoResult
  PROVE  \E j \in 1..Len(tlvs) :
            /\ FindTLV(tlvs, type) = << tlvs[j] >> /\ tlvs[j].type = type
            /\ \A i \in 1..j - 1 : tlvs[i].type # type
  <1> DEFINE places == {i \in DOMAIN tlvs : tlvs[i].type = type}
  <1>1. places # {} /\ FindTLV(tlvs, type) = << tlvs[Min(places)] >>
    BY DEF FindTLV
  <1>2. places \in SUBSET Nat /\ DOMAIN tlvs = 1..Len(tlvs) /\ Len(tlvs) \in Nat
    OBVIOUS
  <1>3. \A i \in places : i \in 1..Len(tlvs) /\ tlvs[i].type = type
    BY <1>2
  <1>4. \A i \in 1..Len(tlvs) : tlvs[i].type = type => i \in places
    BY <1>2
  <1> HIDE DEF places
  <1>5. \E m \in places : \A k \in places : m <= k
    BY <1>1, <1>2, LeastNumber
  <1>6. Min(places) \in places /\ \A k \in places : Min(places) <= k
    BY <1>5 DEF Min
  <1> DEFINE j == Min(places)
  <1> HIDE DEF j
  <1>7. j \in 1..Len(tlvs) /\ tlvs[j].type = type /\ \A k \in places : j <= k
    BY <1>3, <1>6 DEF j
  <1>8. ASSUME NEW i \in 1..j - 1 PROVE tlvs[i].type # type
    <2>1. i \in 1..Len(tlvs) /\ ~(j <= i)
      BY <1>2, <1>7
    <2> QED BY <1>4, <1>7, <2>1
  <1> QED BY <1>1, <1>7, <1>8 DEF j

\* A TLV ends behind its beginning.
LEMMA Further ==
  \A x, y, z, l \in Nat : y = x + 4 + l => x <= y /\ (y <= z => x <= z)
  OBVIOUS

\* One TLV ends behind those before it.
LEMMA EndsOrdered ==
  ASSUME NEW b \in Seq(Byte), NEW p, NEW tlvs \in Seq(TLV), NEW ends, Lie(b, p, tlvs, ends),
         NEW j \in 0..Len(tlvs), NEW i \in 0..j
  PROVE  ends[i] <= ends[j]
  <1> DEFINE S == {m \in 1..j + 1 : ends[m - 1] <= ends[j]}
  <1>1. /\ Len(tlvs) \in Nat /\ Len(b) \in Nat /\ j + 1 \in Nat
        /\ \A m \in 0..Len(tlvs) : ends[m] \in 0..Len(b)
    <2>1. ends \in [0..Len(tlvs) -> 0..Len(b)]
      BY DEF Lie
    <2>2. Len(tlvs) \in Nat /\ Len(b) \in Nat /\ j + 1 \in Nat
      OBVIOUS
    <2> QED BY <2>1, <2>2
  <1>2. ASSUME NEW m \in 1..j + 1, m + 1..j + 1 \subseteq S PROVE m \in S
    <2>1. CASE m = j + 1
      <3>1. m - 1 = j /\ ends[j] \in Nat
        BY <1>1, <2>1
      <3> QED BY <3>1
    <2>2. CASE m # j + 1
      <3>1. m \in 1..Len(tlvs) /\ m + 1 \in m + 1..j + 1 /\ (m + 1) - 1 = m /\ m - 1 \in 0..Len(tlvs)
            /\ m \in 0..Len(tlvs)
        BY <1>1, <2>2
      <3>2. ends[m] <= ends[j]
        BY <1>2, <3>1
      <3>3. ends[m] = ends[m - 1] + 4 + Len(tlvs[m].data) /\ Len(tlvs[m].data) \in Nat
        <4>1. tlvs[m] \in TLV
          BY <3>1
        <4> QED BY <3>1, <4>1 DEF Lie, TLV
      <3>4. ends[m] \in Nat /\ ends[m - 1] \in Nat /\ ends[j] \in Nat
        BY <1>1, <3>1
      <3>5. ends[m - 1] <= ends[j]
        BY <3>2, <3>3, <3>4, Further
      <3> QED BY <3>5
    <2> QED BY <2>1, <2>2
  <1>3. S \in SUBSET (1..j + 1)
    OBVIOUS
  <1> HIDE DEF S
  <1>4. S = 1..j + 1
    BY <1>1, <1>2, <1>3, Downward
  <1>5. i + 1 \in 1..j + 1 /\ (i + 1) - 1 = i
    BY <1>1
  <1> QED BY <1>4, <1>5 DEF S

\* The bytes before a TLV are those of the TLVs before it.
LEMMA BeforeTLV ==
  ASSUME NEW b \in Seq(Byte), NEW tlvs \in Seq(TLV), NEW ends, Lie(b, 0, tlvs, ends),
         NEW j \in 0..Len(tlvs)
  PROVE  /\ SubSeq(tlvs, 1, j) \in Seq(TLV) /\ Len(SubSeq(tlvs, 1, j)) = j
         /\ \A i \in 1..j : SubSeq(tlvs, 1, j)[i] = tlvs[i]
         /\ UnmarshalTLVs(SubSeq(b, 1, ends[j])) = << SubSeq(tlvs, 1, j) >>
  <1> DEFINE n == ends[j]
  <1> DEFINE c == SubSeq(b, 1, n)
  <1> DEFINE l == SubSeq(tlvs, 1, j)
  <1> DEFINE e == [i \in 0..j |-> ends[i]]
  <1>1. /\ Len(tlvs) \in Nat /\ Len(b) \in Nat /\ n \in 0..Len(b) /\ b \in Seq(Nat)
        /\ \A i \in 0..Len(tlvs) : ends[i] \in 0..Len(b)
    <2>1. ends \in [0..Len(tlvs) -> 0..Len(b)]
      BY DEF Lie
    <2>2. b \in Seq(Nat)
      BY BytesAreNat
    <2>3. Len(tlvs) \in Nat /\ Len(b) \in Nat
      OBVIOUS
    <2> QED BY <2>1, <2>2, <2>3
  <1>2. ends[0] = 0 /\ \A i \in 0..j : ends[i] \in 0..n
    <2>1. ASSUME NEW i \in 0..j PROVE ends[i] \in 0..n
      <3>1. i \in 0..Len(tlvs) /\ ends[i] <= ends[j]
        BY EndsOrdered
      <3> HIDE DEF n
      <3> QED BY <1>1, <3>1 DEF n
    <2> QED BY <2>1 DEF Lie
  <1>3. /\ l \in Seq(TLV) /\ Len(l) = j /\ \A i \in 1..j : l[i] = tlvs[i]
    <2>1. 1 \in Int /\ j \in Int /\ \A i \in 1..j : tlvs[i] \in TLV
      BY <1>1
    <2>2. /\ l \in Seq(TLV)
          /\ Len(l) = IF 1 <= j THEN j - 1 + 1 ELSE 0
          /\ \A i \in 1..j - 1 + 1 : l[i] = tlvs[1 + i - 1]
      BY <2>1, SubSeqProperties
    <2> HIDE DEF l
    <2>3. Len(l) = j
      BY <2>2
    <2>4. ASSUME NEW i \in 1..j PROVE l[i] = tlvs[i]
      <3>1. i \in 1..j - 1 + 1 /\ 1 + i - 1 = i
        OBVIOUS
      <3> QED BY <2>2, <3>1
    <2> QED BY <2>2, <2>3, <2>4
  <1> HIDE DEF n
  <1>4. c \in Seq(Byte) /\ Len(c) = n
    <2>1. 1 \in Int /\ n \in Int /\ \A i \in 1..n : b[i] \in Byte
      BY <1>1
    <2>2. /\ c \in Seq(Byte)
          /\ Len(c) = IF 1 <= n THEN n - 1 + 1 ELSE 0
      BY <2>1, SubSeqProperties
    <2> HIDE DEF c
    <2> QED BY <1>1, <2>2
  <1>5. e \in [0..j -> 0..n] /\ \A i \in 0..j : e[i] = ends[i]
    BY <1>2
  <1> HIDE DEF e, l
  <1>6. ASSUME NEW i \in 1..j
        PROVE  /\ Len(l[i].data) < Word
               /\ e[i] = e[i - 1] + 4 + Len(l[i].data)
               /\ SubSeq(c, e[i - 1] + 1, e[i]) = MarshalTLV(l[i].type, l[i].data)
    <2>1. i \in 1..Len(tlvs) /\ i \in 0..j /\ i - 1 \in 0..j
      BY <1>1
    <2>2. l[i] = tlvs[i] /\ e[i] = ends[i] /\ e[i - 1] = ends[i - 1] /\ tlvs[i] \in TLV
      BY <1>3, <1>5, <2>1
    <2>3. /\ Len(tlvs[i].data) < Word
          /\ ends[i] = ends[i - 1] + 4 + Len(tlvs[i].data)
          /\ SubSeq(b, ends[i - 1] + 1, ends[i]) = MarshalTLV(tlvs[i].type, tlvs[i].data)
      BY <2>1 DEF Lie
    <2> DEFINE x == ends[i - 1]
    <2> DEFINE y == ends[i]
    <2>4. x \in 0..n /\ y \in 0..n /\ x <= y
      <3>1. Len(tlvs[i].data) \in Nat
        BY <2>2 DEF TLV
      <3>2. x \in 0..n /\ y \in 0..n
        BY <1>2, <2>1
      <3>3. x \in Nat /\ y \in Nat
        BY <1>1, <3>2
      <3>4. y = x + 4 + Len(tlvs[i].data)
        BY <2>3, Zenon
      <3> QED BY <3>1, <3>2, <3>3, <3>4, Further
    <2>5. SubSeq(c, x + 1, y) = SubSeq(b, x + 1, y)
      <3> HIDE DEF x, y
      <3>1. /\ 1 \in 1..Len(b) + 1 /\ 1 <= n + 1 /\ x + 1 \in 1..n + 2 - 1
            /\ y \in 0..n + 1 - 1 /\ x + 1 <= y + 1
            /\ 1 + (x + 1) - 1 = x + 1 /\ 1 + y - 1 = y
        BY <1>1, <2>4
      <3>2. SubSeq(SubSeq(b, 1, n), x + 1, y) = SubSeq(b, 1 + (x + 1) - 1, 1 + y - 1)
        BY <1>1, <3>1, PartOfPart
      <3> QED BY <3>1, <3>2
    <2> HIDE DEF c
    <2> QED BY <2>2, <2>3, <2>5
  <1>7. e[0] = 0 /\ e[j] = n
    <2>1. 0 \in 0..j /\ j \in 0..j
      OBVIOUS
    <2> QED BY <1>2, <1>5, <2>1 DEF n
  <1> HIDE DEF c
  <1>8. Lie(c, 0, l, e)
    BY <1>3, <1>4, <1>5, <1>6, <1>7 DEF Lie
  <1>9. UnmarshalTLVs(c) = <<l>>
    BY <1>3, <1>4, <1>8, TLVsRoundTrip
  <1> QED BY <1>3, <1>9 DEF c, l, n

\* What is found among the TLVs of b is the first of its type in b.
LEMMA FoundInBytes ==
  ASSUME NEW b \in Seq(Byte), UnmarshalTLVs(b) # NoResult,
         NEW type, FindTLV(UnmarshalTLVs(b)[1], type) # NoResult
  PROVE  LET found == FindTLV(UnmarshalTLVs(b)[1], type)[1] IN
         found.type = type /\ First(found, b)
  <1>1. PICK tlvs \in Seq(TLV) : UnmarshalTLVs(b) = <<tlvs>>
    BY TLVsRoundTrip
  <1>2. PICK ends : Lie(b, 0, tlvs, ends)
    BY <1>1, TLVsRoundTrip
  <1>3. UnmarshalTLVs(b)[1] = tlvs /\ FindTLV(tlvs, type) # NoResult
    BY <1>1
  <1>4. PICK j \in 1..Len(tlvs) :
            /\ FindTLV(tlvs, type) = << tlvs[j] >> /\ tlvs[j].type = type
            /\ \A i \in 1..j - 1 : tlvs[i].type # type
    BY <1>3, FoundFirst
  <1> DEFINE t == tlvs[j]
  <1> DEFINE k == ends[j - 1]
  <1> DEFINE before == SubSeq(tlvs, 1, j - 1)
  <1>5. /\ j - 1 \in 0..Len(tlvs) /\ j \in 0..Len(tlvs) /\ t \in TLV /\ Len(tlvs) \in Nat
    BY <1>4
  <1>6. /\ k \in 0..Len(b) /\ ends[j] \in 0..Len(b)
        /\ ends[j] = k + 4 + Len(t.data)
        /\ SubSeq(b, k + 1, k + 4 + Len(t.data)) = MarshalTLV(t.type, t.data)
    BY <1>2, <1>4, <1>5 DEF Lie
  <1>7. /\ UnmarshalTLVs(SubSeq(b, 1, k)) = <<before>>
        /\ before \in Seq(TLV) /\ Len(before) = j - 1
        /\ \A i \in 1..j - 1 : before[i] = tlvs[i]
    BY <1>2, <1>5, BeforeTLV
  <1> HIDE DEF before
  <1>8. FindTLV(before, t.type) = NoResult
    <2>1. DOMAIN before = 1..j - 1
      BY <1>7
    <2>2. {i \in DOMAIN before : before[i].type = t.type} = {}
      BY <1>4, <1>7, <2>1
    <2> QED BY <2>2 DEF FindTLV
  <1>9. k + 4 + Len(t.data) <= Len(b)
    <2>1. Len(b) \in Nat
      OBVIOUS
    <2> QED BY <1>6, <2>1
  <1> HIDE DEF k, t
  <1>10. /\ UnmarshalTLVs(SubSeq(b, 1, k)) # NoResult
         /\ FindTLV(UnmarshalTLVs(SubSeq(b, 1, k))[1], t.type) = NoResult
    BY <1>7, <1>8 DEF NoResult
  <1>11. First(t, b)
    BY <1>6, <1>9, <1>10 DEF First
  <1> QED BY <1>3, <1>4, <1>11 DEF t

\* A credential is the first TLV of its type in the bytes of a sign-on.
LEMMA CredentialInBytes ==
  ASSUME NEW b \in Seq(Byte), UnmarshalTLVs(b) # NoResult,
         Credential(UnmarshalTLVs(b)[1]) # NoResult
  PROVE  LET found == Credential(UnmarshalTLVs(b)[1])[1] IN
         found.type \in {1, 6} /\ First(found, b)
  <1> DEFINE tlvs == UnmarshalTLVs(b)[1]
  <1>1. \/ Credential(tlvs) = FindTLV(tlvs, 1)
        \/ Credential(tlvs) = FindTLV(tlvs, 6)
    BY DEF Credential
  <1> QED BY <1>1, FoundInBytes

\* Nobody is signed on by anything else.
LEMMA CredentialStep ==
  ASSUME SendInv, Cut, UserIsCredential, [Next]_vars PROVE UserIsCredential'
  <1>1. ASSUME UNCHANGED <<user, handled>> PROVE UserIsCredential'
    BY <1>1 DEF UserIsCredential
  <1>2. CASE HandleFrame
    <2> DEFINE new == [channel |-> flap[1].channel, data |-> flap[1].data]
    <2> DEFINE n == Len(handled)
    <2>1. pc = "handle" /\ handled' = Append(handled, new)
      BY <1>2 DEF HandleFrame
    <2>2. /\ ClientInput(input) /\ handled \in Seq(FrameType) /\ n \in Nat
          /\ Taken = n + 1 /\ n + 1 <= Len(input.frames)
      BY <2>1, LinkAssumption DEF SendInv, TypeOK, Cut, Taken, FrameType
    <2>3. new \in FrameType
      <3> DEFINE f == input.frames[n + 1]
      <3>1. input.frames \in Seq(FrameType) /\ Len(input.frames) \in Nat
        BY <2>2 DEF ClientInput, FrameType
      <3>2. f \in FrameType
        BY <2>2, <3>1
      <3>3. flap = << [channel |-> f.channel, seq |-> 0, data |-> f.data] >>
        BY <2>1, <2>2 DEF Cut
      <3> HIDE DEF f
      <3>4. flap[1].channel = f.channel /\ flap[1].data = f.data
        BY <3>3
      <3> QED BY <3>2, <3>4 DEF FrameType
    <2>4. /\ Len(handled') = n + 1 /\ handled'[n + 1] = new
          /\ \A i \in 1..n : handled'[i] = handled[i]
          /\ DOMAIN handled' = 1..n + 1 /\ DOMAIN handled = 1..n
      <3> HIDE DEF new
      <3> QED BY <2>1, <2>2, <2>3, AppendProperties
    <2>5. new.channel = flap[1].channel /\ new.data = flap[1].data /\ new.data \in Seq(Byte)
      BY <2>3 DEF FrameType
    <2> HIDE DEF new, n
    <2>6. CASE user' = <<>>
      BY <2>6 DEF UserIsCredential
    <2>7. CASE user' = user /\ user # <<>>
      <3>1. PICK i \in 1..n :
              /\ handled[i].channel = 1 /\ user[1].type \in {1, 6}
              /\ First(user[1], From(handled[i].data, 5))
        BY <2>4, <2>7 DEF UserIsCredential
      <3>2. i \in DOMAIN handled' /\ handled'[i] = handled[i]
        BY <2>2, <2>4
      <3> QED BY <2>7, <3>1, <3>2 DEF UserIsCredential
    <2>8. ASSUME new.channel = 1, Len(new.data) >= 4,
                 NEW tlvs, tlvs = UnmarshalTLVs(From(new.data, 5)),
                 tlvs # NoResult, Credential(tlvs[1]) # NoResult, user' = Credential(tlvs[1])
          PROVE  UserIsCredential'
      <3>1. From(new.data, 5) \in Seq(Byte)
        <4>1. 5 \in 1..Len(new.data) + 1
          BY <2>5, <2>8
        <4> QED BY <2>5, <4>1, Rest
      <3>2. user'[1].type \in {1, 6} /\ First(user'[1], From(new.data, 5))
        BY <2>8, <3>1, CredentialInBytes
      <3>3. n + 1 \in DOMAIN handled'
        BY <2>2, <2>4
      <3> QED BY <2>4, <2>8, <3>2, <3>3 DEF UserIsCredential
    <2> QED BY <1>2, <2>5, <2>6, <2>7, <2>8, Outcome
  <1>3. ASSUME NEW p \in Senders, SendStep(p) PROVE UNCHANGED <<user, handled>>
    BY <1>3 DEF SendStep, Load, Store, Stamp, Write, SendFails, context, reading
  <1>4. ASSUME NEW p \in Routines, Notify(p) PROVE UNCHANGED <<user, handled>>
    BY <1>4 DEF Notify, context, reading
  <1>5. CASE Top \/ ReadFails \/ Parse \/ Read \/ Timeout \/ HangUp \/ UNCHANGED vars
    BY <1>1, <1>5 DEF Top, ReadFails, Parse, Read, Timeout, HangUp, vars, context, reading
  <1>6. CASE Bye \/ Leave
    BY <1>1, <1>6 DEF Bye, Leave, context, reading
  <1> QED BY <1>1, <1>2, <1>3, <1>4, <1>5, <1>6 DEF Next, Loop

-----------------------------------------------------------------------------
(***************************************************************************)
(* The theorems.                                                           *)
(***************************************************************************)

\* The inductive invariant holds in every state.
THEOREM Inductive == Spec => []IInv
  <1>1. SendInv /\ [Next]_vars => SendInv'
    <2> SUFFICES ASSUME SendInv, [Next]_vars PROVE SendInv' OBVIOUS
    <2>1. CASE UNCHANGED vars
      BY <2>1, SilentStep DEF vars, context, SendInv, TypeOK, GreetingPending
    <2>2. CASE \E p \in Senders : SendStep(p)
      BY <2>2, LoadStep, StoreStep, StampStep, WriteStep, SendFailsStep DEF SendStep
    <2>3. CASE \E p \in Routines : Notify(p)
      BY <2>3, NotifyStep
    <2>4. CASE Loop
      BY <2>4, GreetStep, ByeStep, SilentLoop, HandleStep DEF Loop
    <2>5. CASE Read \/ Timeout \/ HangUp
      BY <2>5, SilentLoop
    <2> QED BY <2>1, <2>2, <2>3, <2>4, <2>5 DEF Next
  <1>2. IInv /\ [Next]_vars => IInv'
    BY <1>1, CutStep, CredentialStep DEF IInv
  <1>3. Init => IInv
    <2>1. Init => UserIsCredential
      BY DEF Init, UserIsCredential
    <2> QED BY <2>1, InitSendInv, InitCut DEF IInv
  <1> QED BY <1>2, <1>3, PTL DEF Spec

\* The handler handles exactly the frames whose bytes it has read, for every
\* input of a client and every way of cutting it into reads.
THEOREM Framing == Spec => []Framed
  <1>1. IInv => Framed
    BY CutFramed DEF IInv, SendInv
  <1> QED BY <1>1, Inductive, PTL

\* The greeting is the first frame on the wire, once, with number 1.
THEOREM Greeting == Spec => []GreetedFirst
  BY Inductive, PTL DEF IInv, SendInv

\* Frames are numbered one after the other while Sends do not overlap.
THEOREM Numbering == Spec => []Consecutive
  BY Inductive, PTL DEF IInv, SendInv

\* Whoever is signed on was named by the first name or cookie of a sign-on of
\* this client, for every list of TLVs that a sign-on may hold.
THEOREM SignedOn == Spec => []UserIsCredential
  BY Inductive, PTL DEF IInv

=============================================================================
