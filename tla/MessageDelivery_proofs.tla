------------------------ MODULE MessageDelivery_proofs ------------------------
(***************************************************************************)
(* Proofs about MessageDelivery, for every set of users, connections and   *)
(* cookies and every number of messages.                                   *)
(***************************************************************************)
EXTENDS MessageDelivery, SessionTable_proofs, SequenceTheorems

\* The request fails only for a connection that is being served.
LEMMA FailIsTable ==
    ASSUME TableTypeOK, NEW c \in Conns, Served(c), Fail(c)
    PROVE  [TableNext]_tableVars
<1>1. CASE conn[c] = "open"
  BY <1>1 DEF Fail, Disconnect, TableNext
<1>2. CASE conn[c] = "closed"
  BY <1>2 DEF Fail, TableTypeOK, tableVars
<1> QED
  BY <1>1, <1>2 DEF Served

\* Every step of the delivery is a step of the session table or leaves it
\* alone, and no step takes back a sign-on.
LEMMA StepIsTable ==
    ASSUME TableTypeOK, BusyWithSubmitted, [Next]_vars
    PROVE  /\ [TableNext]_tableVars
           /\ \A c \in Conns : authed[c] \subseteq authed'[c]
<1>1. [TableNext]_tableVars
  <2>1. CASE Elsewhere
    BY <2>1 DEF Elsewhere, TableNext
  <2>2. CASE Crash
    BY <2>2 DEF Crash, TableNext
  <2>3. ASSUME NEW c \in Conns, Submit(c) \/ Post(c) PROVE UNCHANGED tableVars
    BY <2>3 DEF Submit, Post
  <2>4. ASSUME NEW c \in Conns, InsertMessage(c) \/ Ack(c)
        PROVE  [TableNext]_tableVars
    <3>1. Served(c)
      BY <2>4 DEF InsertMessage, Ack, BusyWithSubmitted
    <3> QED
      BY <2>4, <3>1, FailIsTable DEF InsertMessage, Ack
  <2>5. CASE Routine
    BY <2>5 DEF Routine, Receive, Lookup, Author, Send, MarkDelivered
  <2>6. CASE UNCHANGED vars
    BY <2>6 DEF vars
  <2> QED
    BY <2>1, <2>2, <2>3, <2>4, <2>5, <2>6 DEF Next
<1>2. ASSUME TableNext PROVE \A c \in Conns : authed[c] \subseteq authed'[c]
  BY <1>2 DEF TableNext, Accept, Disconnect, Authenticate, SetSession,
              RemoveSession, Halt, TableTypeOK
<1> QED
  BY <1>1, <1>2 DEF tableVars

-----------------------------------------------------------------------------

\* Submitting a message keeps the ones before it.
LEMMA SubmitEffect ==
    ASSUME TypeOK, NEW c \in Conns, Submit(c)
    PROVE  /\ sent' \in Seq(Messages) /\ Len(sent') = Len(sent) + 1
           /\ Len(sent') <= MaxMsgs
           /\ \A i \in DOMAIN sent : i \in DOMAIN sent' /\ sent'[i] = sent[i]
           /\ req'[c] \in DOMAIN sent' /\ DOMAIN sent' = DOMAIN sent \cup {Len(sent) + 1}
           /\ sent'[Len(sent) + 1].from \in authed[c]
           /\ sent'[Len(sent) + 1].via = c
<1>1. PICK m \in Messages : m.via = c /\ m.from \in authed[c] /\ sent' = Append(sent, m)
  BY DEF Submit
<1>2. sent \in Seq(Messages)
  BY DEF TypeOK
<1>3. /\ sent' \in Seq(Messages) /\ Len(sent') = Len(sent) + 1
      /\ \A i \in 1..Len(sent) : sent'[i] = sent[i]
      /\ sent'[Len(sent) + 1] = m
  BY <1>1, <1>2, AppendProperties
<1>4. DOMAIN sent = 1..Len(sent) /\ DOMAIN sent' = 1..(Len(sent) + 1) /\ Len(sent) \in Nat
  BY <1>2, <1>3, LenProperties
<1>5. req'[c] = Len(sent) + 1
  BY DEF Submit, TypeOK
<1>6. Len(sent) + 1 <= MaxMsgs
  BY <1>4, MessageAssumption DEF Submit
<1> QED
  BY <1>1, <1>3, <1>4, <1>5, <1>6

\* Writing message i to connection c adds it at the end of what c received.
LEMMA WireEffect ==
    ASSUME wire \in [Conns -> Seq(Ids)], NEW c \in Conns, NEW i \in Ids,
           wire' = [wire EXCEPT ![c] = Append(@, i)]
    PROVE  /\ wire' \in [Conns -> Seq(Ids)]
           /\ Written(c)' = Written(c) \cup {i}
           /\ \A d \in Conns \ {c} : Written(d)' = Written(d)
<1> DEFINE s == wire[c]
<1>1. /\ wire'[c] \in Seq(Ids) /\ Len(wire'[c]) = Len(s) + 1
      /\ \A k \in 1..Len(s) : wire'[c][k] = s[k]
      /\ wire'[c][Len(s) + 1] = i
  BY AppendProperties
<1>2. DOMAIN s = 1..Len(s) /\ DOMAIN wire'[c] = 1..(Len(s) + 1) /\ Len(s) \in Nat
  BY <1>1, LenProperties
<1>3. Written(c)' = Written(c) \cup {i}
  <2>1. Written(c)' = {wire'[c][k] : k \in 1..(Len(s) + 1)}
    BY <1>2 DEF Written
  <2>2. Written(c) = {s[k] : k \in 1..Len(s)}
    BY <1>2 DEF Written
  <2>3. 1..(Len(s) + 1) = 1..Len(s) \cup {Len(s) + 1}
    BY <1>2
  <2> QED
    BY <1>1, <2>1, <2>2, <2>3
<1> QED
  BY <1>1, <1>3 DEF Written

\* Every step keeps the types.
LEMMA MessageTypeStep ==
    ASSUME TypeOK, BusyWithSubmitted, TargetIsAddressee, [Next]_vars
    PROVE  TypeOK'
<1> USE DEF TypeOK
<1>1. TableTypeOK'
  BY StepIsTable, TableTypeStep
<1>2. Len(sent) \in Nat /\ DOMAIN sent = 1..Len(sent) /\ DOMAIN sent \subseteq Ids
  BY LenProperties, MessageAssumption DEF Ids
<1>0. 0 \in 0..MaxMsgs /\ {"idle", "insert", "post", "ack"} \subseteq Stages
  BY MessageAssumption DEF Stages
<1>3. CASE Elsewhere \/ UNCHANGED vars
  BY <1>1, <1>3 DEF Elsewhere, mdVars, vars
<1>4. CASE Crash
  BY <1>1, <1>4, MessageAssumption DEF Crash, Stages, RoutineStages, ChanCap
<1>5. ASSUME NEW c \in Conns, Submit(c) PROVE TypeOK'
  <2>1. stage' \in [Conns -> Stages] /\ req' \in [Conns -> 0..MaxMsgs]
    BY <1>2, <1>5, MessageAssumption DEF Submit, Stages
  <2> QED
    BY <1>1, <1>5, <2>1, SubmitEffect DEF Submit
<1>6. ASSUME NEW c \in Conns, Fail(c) PROVE TypeOK'
  BY <1>1, <1>6, MessageAssumption DEF Fail, Finish, Stages
<1>7. ASSUME NEW c \in Conns, InsertMessage(c) PROVE TypeOK'
  BY <1>1, <1>6, <1>7 DEF InsertMessage, Stages
<1>8. ASSUME NEW c \in Conns, Post(c) PROVE TypeOK'
  <2>1. req[c] \in Ids
    BY <1>2, <1>8 DEF Post, BusyWithSubmitted
  <2>2. commCh' \in Seq(Ids) /\ Len(commCh') <= ChanCap
    BY <1>8, <2>1, AppendProperties DEF Post, ChanCap
  <2>3. stage' \in [Conns -> Stages] /\ req' \in [Conns -> 0..MaxMsgs]
    <3>1. CASE sent[req[c]].ack
      BY <1>8, <1>0, <3>1 DEF Post
    <3>2. CASE ~sent[req[c]].ack
      BY <1>8, <1>0, <3>2 DEF Post, Finish
    <3> QED
      BY <3>1, <3>2
  <2> QED
    BY <1>1, <1>8, <2>2, <2>3 DEF Post
<1>9. ASSUME NEW c \in Conns, Ack(c) PROVE TypeOK'
  <2>1. CASE Fail(c)
    BY <1>6, <2>1
  <2>2. CASE ~Fail(c)
    <3>1. req[c] \in Ids /\ sent[req[c]] \in Messages
      BY <1>2, <1>9 DEF Ack, BusyWithSubmitted
    <3>2. acks' \in SUBSET [id : Ids, conn : Conns, name : Users]
      BY <1>9, <2>2, <3>1 DEF Ack, Messages
    <3>3. stage' \in [Conns -> Stages] /\ req' \in [Conns -> 0..MaxMsgs]
      BY <1>9, <1>0, <2>2 DEF Ack, Finish
    <3> QED
      BY <1>1, <1>9, <2>2, <3>2, <3>3 DEF Ack
  <2> QED
    BY <2>1, <2>2
<1>10. CASE Receive
  <2>1. Head(commCh) \in Ids /\ Tail(commCh) \in Seq(Ids) /\ Len(Tail(commCh)) <= ChanCap
    BY <1>10, HeadTailProperties DEF Receive, ChanCap
  <2> QED
    BY <1>1, <1>10, <2>1 DEF Receive, RoutineStages, Ids
<1>11. CASE Lookup
  <2>1. sent[msg] \in Messages
    BY <1>11 DEF Lookup, BusyWithSubmitted
  <2>2. sessions[sent[msg].to] \in Conns \cup {NoConn}
    BY <2>1 DEF Messages, TableTypeOK
  <2>3. routine' \in RoutineStages /\ msg' \in 0..MaxMsgs /\ target' \in Conns \cup {NoConn}
    BY <1>11, <1>0, <2>2 DEF Lookup, Proceed, RoutineStages
  <2> QED
    BY <1>1, <1>11, <2>3 DEF Lookup
<1>12. CASE Author
  BY <1>1, <1>12, MessageAssumption DEF Author, Proceed, RoutineStages
<1>13. CASE Send
  <2>1. wire' \in [Conns -> Seq(Ids)]
    BY <1>2, <1>13, WireEffect DEF Send, TargetIsAddressee, BusyWithSubmitted
  <2> QED
    BY <1>1, <1>13, <2>1, MessageAssumption DEF Send, Proceed, RoutineStages
<1>14. CASE MarkDelivered
  BY <1>1, <1>14, MessageAssumption DEF MarkDelivered, Proceed, RoutineStages
<1> QED
  BY <1>3, <1>4, <1>5, <1>7, <1>8, <1>9, <1>10, <1>11, <1>12, <1>13, <1>14
     DEF Next, Routine

-----------------------------------------------------------------------------
(***************************************************************************)
(* The inductive invariant.                                                *)
(***************************************************************************)

\* Nothing is submitted, written or marked at first.
LEMMA InitIInv == Init => IInv
<1> SUFFICES ASSUME Init PROVE IInv
  OBVIOUS
<1> USE DEF Init, TableInit
<1>1. TypeOK
  <2>1. TableTypeOK
    BY DEF TableTypeOK, Sockets
  <2>2. 0 \in 0..MaxMsgs /\ 0 <= MaxMsgs
    BY MessageAssumption
  <2> QED
    BY <2>1, <2>2 DEF TypeOK, Stages, RoutineStages, ChanCap
<1>2. RegisteredOwner
  BY DEF RegisteredOwner
<1>3. BusyWithSubmitted /\ AuthorIsSender /\ TargetIsAddressee
  BY DEF BusyWithSubmitted, AuthorIsSender, TargetIsAddressee
<1>4. WrittenToAddressee /\ MarkingIsWritten /\ ClearedWasWritten
  BY DEF WrittenToAddressee, MarkingIsWritten, ClearedWasWritten, Written
<1> QED
  BY <1>1, <1>2, <1>3, <1>4 DEF IInv

\* What is true of a message before a step is true of it after: sign-ons and
\* submitted messages stay, and nothing written is taken back.
Grows ==
    /\ \A c \in Conns : authed[c] \subseteq authed'[c]
    /\ \A i \in DOMAIN sent : i \in DOMAIN sent' /\ sent'[i] = sent[i]
    /\ \A c \in Conns : Written(c) \subseteq Written(c)'

\* Every step only adds to the histories.
LEMMA StepGrows ==
    ASSUME IInv, [Next]_vars
    PROVE  Grows
<1> USE DEF IInv, TypeOK
<1>1. \A c \in Conns : authed[c] \subseteq authed'[c]
  BY StepIsTable
<1>2. \A i \in DOMAIN sent : i \in DOMAIN sent' /\ sent'[i] = sent[i]
  <2>1. ASSUME NEW c \in Conns, Submit(c)
        PROVE  \A i \in DOMAIN sent : i \in DOMAIN sent' /\ sent'[i] = sent[i]
    BY <2>1, SubmitEffect
  <2>2. ASSUME ~\E c \in Conns : Submit(c) PROVE sent' = sent
    BY <2>2 DEF Next, Elsewhere, Crash, InsertMessage, Post, Ack, Fail, Routine,
                Receive, Lookup, Author, Send, MarkDelivered, mdVars, vars
  <2> QED
    BY <2>1, <2>2
<1>3. \A c \in Conns : Written(c) \subseteq Written(c)'
  <2>1. CASE Send
    <3>1. CASE wire' = wire
      BY <3>1 DEF Written
    <3>2. CASE wire' # wire
      <4>1. /\ target \in Conns /\ msg \in Ids
            /\ wire' = [wire EXCEPT ![target] = Append(@, msg)]
        BY <2>1, <3>2, LenProperties, MessageAssumption
           DEF Send, TargetIsAddressee, BusyWithSubmitted, Ids
      <4> QED
        BY <4>1, WireEffect
    <3> QED
      BY <3>1, <3>2
  <2>2. CASE ~Send
    <3>1. wire' = wire
      BY <2>2 DEF Next, Elsewhere, Crash, Submit, InsertMessage, Post, Ack, Fail,
                  Routine, Receive, Lookup, Author, MarkDelivered, mdVars, vars
    <3> QED
      BY <3>1 DEF Written
  <2> QED
    BY <2>1, <2>2
<1> QED
  BY <1>1, <1>2, <1>3 DEF Grows

\* A step of the delivery goroutine.
LEMMA RoutineStepIInv ==
    ASSUME IInv, Routine, TypeOK', RegisteredOwner', Grows
    PROVE  IInv'
<1> USE DEF IInv
<1>1. sent' = sent /\ stage' = stage /\ req' = req /\ tableVars' = tableVars
  BY DEF Routine, Receive, Lookup, Author, Send, MarkDelivered
<1>2. sessions' = sessions /\ conn' = conn /\ authed' = authed
  BY <1>1 DEF tableVars
<1>3. AuthorIsSender'
  BY <1>1, <1>2 DEF AuthorIsSender
<1>4. CASE Receive
  <2>1. commCh \in Seq(Ids) /\ commCh # <<>>
    BY <1>4 DEF Receive, TypeOK
  <2>2. /\ Head(commCh) \in DOMAIN sent
        /\ \A k \in DOMAIN Tail(commCh) : Tail(commCh)[k] \in DOMAIN sent
    <3>1. Head(commCh) = commCh[1] /\ 1 \in DOMAIN commCh
      BY <2>1, LenProperties, EmptySeq
    <3>2. \A k \in DOMAIN Tail(commCh) : k + 1 \in DOMAIN commCh /\ Tail(commCh)[k] = commCh[k + 1]
      BY <2>1, HeadTailProperties, LenProperties
    <3> QED
      BY <3>1, <3>2 DEF BusyWithSubmitted
  <2>3. BusyWithSubmitted'
    BY <1>1, <1>2, <1>4, <2>2 DEF BusyWithSubmitted, Receive, Served
  <2>4. WrittenToAddressee' /\ ClearedWasWritten' /\ MarkingIsWritten' /\ TargetIsAddressee'
    BY <1>1, <1>2, <1>4
       DEF Receive, WrittenToAddressee, ClearedWasWritten, MarkingIsWritten,
           TargetIsAddressee, WrittenAnywhere, Written
  <2> QED
    BY <1>3, <2>3, <2>4
<1>5. CASE Lookup
  <2>1. BusyWithSubmitted'
    BY <1>1, <1>2, <1>5 DEF BusyWithSubmitted, Lookup, Served, Proceed
  <2>2. TargetIsAddressee'
    <3>1. sent[msg].to \in Users
      <4>1. sent[msg] \in Messages
        BY <1>5 DEF Lookup, BusyWithSubmitted, TypeOK
      <4> QED
        BY <4>1 DEF Messages
    <3> QED
      BY <1>1, <1>2, <1>5, <3>1
         DEF Lookup, Proceed, TargetIsAddressee, RegisteredOwner, TypeOK, TableTypeOK
  <2>3. WrittenToAddressee' /\ ClearedWasWritten' /\ MarkingIsWritten'
    BY <1>1, <1>2, <1>5
       DEF Lookup, Proceed, WrittenToAddressee, ClearedWasWritten, MarkingIsWritten,
           WrittenAnywhere, Written
  <2> QED
    BY <1>3, <2>1, <2>2, <2>3
<1>6. CASE Author
  BY <1>1, <1>2, <1>3, <1>6
     DEF Author, Proceed, BusyWithSubmitted, Served, TargetIsAddressee,
         WrittenToAddressee, ClearedWasWritten, MarkingIsWritten, WrittenAnywhere, Written
<1>7. CASE Send
  <2>1. msg \in DOMAIN sent /\ target \in Conns /\ sent[msg].to \in authed[target]
        /\ msg \in Ids
    BY <1>7, LenProperties, MessageAssumption
       DEF Send, BusyWithSubmitted, TargetIsAddressee, TypeOK, Ids
  <2>2. CASE wire' = wire /\ routine' # "mark"
    BY <1>1, <1>2, <1>3, <1>7, <2>2
       DEF Send, Proceed, BusyWithSubmitted, Served, TargetIsAddressee,
           WrittenToAddressee, ClearedWasWritten, MarkingIsWritten, WrittenAnywhere, Written
  <2>3. CASE wire' = [wire EXCEPT ![target] = Append(@, msg)]
    <3> HIDE DEF IInv
    <3>0. PICK t \in Conns, m \in Ids : t = target /\ m = msg
      BY <2>1
    <3>1. /\ Written(t)' = Written(t) \cup {m}
          /\ \A d \in Conns : d # t => Written(d)' = Written(d)
      <4>1. wire \in [Conns -> Seq(Ids)] /\ wire' = [wire EXCEPT ![t] = Append(@, m)]
        BY <2>3, <3>0 DEF IInv, TypeOK
      <4> QED
        BY <4>1, WireEffect
    <3>2. WrittenToAddressee'
      <4> SUFFICES ASSUME NEW c \in Conns, NEW i \in Written(c)'
                   PROVE  sent[i].to \in authed[c] /\ sent[i].from \in authed[sent[i].via]
        BY <1>1, <1>2 DEF WrittenToAddressee
      <4>1. CASE i \in Written(c)
        BY <4>1 DEF WrittenToAddressee, IInv
      <4>2. CASE i \notin Written(c)
        <5>1. c = t /\ i = m
          BY <3>1, <4>2
        <5> QED
          BY <2>1, <3>0, <5>1 DEF AuthorIsSender, IInv
      <4> QED
        BY <4>1, <4>2
    <3>3. \A c \in Conns : Written(c)' \subseteq DOMAIN sent
      <4>1. \A c \in Conns : Written(c) \subseteq DOMAIN sent
        BY DEF BusyWithSubmitted, Written, IInv
      <4> QED
        BY <2>1, <3>0, <3>1, <4>1
    <3>4. m \in WrittenAnywhere' /\ WrittenAnywhere \subseteq WrittenAnywhere'
      BY <3>1 DEF WrittenAnywhere
    <3> USE DEF IInv
    <3>5. BusyWithSubmitted'
      BY <1>1, <1>2, <1>7, <2>1, <3>3 DEF Send, Proceed, BusyWithSubmitted, Served, Written
    <3>6. MarkingIsWritten'
      <4>1. routine' = "mark" => msg' = msg
        BY <1>7 DEF Send, Proceed
      <4> QED
        BY <3>0, <3>4, <4>1 DEF MarkingIsWritten
    <3>7. ClearedWasWritten'
      BY <1>1, <1>7, <3>4 DEF Send, ClearedWasWritten
    <3>8. TargetIsAddressee'
      BY <1>7 DEF Send, Proceed, TargetIsAddressee
    <3> QED
      BY <1>3, <3>2, <3>5, <3>6, <3>7, <3>8
  <2> QED
    BY <1>7, <2>2, <2>3 DEF Send, Proceed
<1>8. CASE MarkDelivered
  <2>1. BusyWithSubmitted' /\ TargetIsAddressee' /\ MarkingIsWritten'
    BY <1>1, <1>2, <1>8
       DEF MarkDelivered, Proceed, BusyWithSubmitted, Served, TargetIsAddressee,
           MarkingIsWritten
  <2>2. WrittenToAddressee'
    BY <1>1, <1>2, <1>8 DEF MarkDelivered, WrittenToAddressee, Written
  <2>3. ClearedWasWritten'
    BY <1>1, <1>8
       DEF MarkDelivered, MarkingIsWritten, ClearedWasWritten, WrittenAnywhere, Written
  <2> QED
    BY <1>3, <2>1, <2>2, <2>3
<1> QED
  BY <1>4, <1>5, <1>6, <1>7, <1>8 DEF Routine

\* A step of a handler or the end of the process: nothing is written.
LEMMA HandlerStepIInv ==
    ASSUME IInv, [Next]_vars, ~Routine, TypeOK', RegisteredOwner', Grows
    PROVE  IInv'
<1> USE DEF IInv
<1> DEFINE RoutineKept ==
             /\ wire' = wire
             /\ routine' # "recv" => routine' = routine /\ msg' = msg /\ target' = target
             /\ \A i \in Ids : rows'[i] = "cleared" => rows[i] = "cleared"
           SubmittedKept ==
             /\ \A c \in Conns : stage'[c] # "idle" => req'[c] \in DOMAIN sent'
             /\ \A k \in DOMAIN commCh' : commCh'[k] \in DOMAIN sent'
             /\ \A i \in Ids : rows'[i] # "absent" => i \in DOMAIN sent'
             /\ \A i \in DOMAIN sent' : sent'[i].from \in authed'[sent'[i].via]
           ServedKept ==
             \A c \in Conns : stage'[c] # "idle" => conn'[c] \in {"open", "closed"}
<1>1. RoutineKept
  <2>1. CASE Elsewhere \/ UNCHANGED vars
    BY <2>1 DEF Elsewhere, mdVars, vars
  <2>2. CASE Crash
    BY <2>2 DEF Crash
  <2>3. ASSUME NEW c \in Conns, Submit(c) \/ InsertMessage(c) \/ Post(c) \/ Ack(c)
        PROVE  RoutineKept
    BY <2>3 DEF Submit, InsertMessage, Post, Ack, Fail, TypeOK
  <2> QED
    BY <2>1, <2>2, <2>3 DEF Next
<1>2. Len(sent) \in Nat /\ DOMAIN sent = 1..Len(sent) /\ DOMAIN sent \subseteq Ids
  BY LenProperties, MessageAssumption DEF Ids, TypeOK
<1>3. SubmittedKept
  <2> USE DEF BusyWithSubmitted, AuthorIsSender, Grows, TypeOK
  <2>1. CASE Elsewhere \/ UNCHANGED vars
    <3>1. \A i \in DOMAIN sent : sent[i].via \in Conns
      <4>1. \A i \in DOMAIN sent : sent[i] \in Messages
        OBVIOUS
      <4> QED
        BY <4>1 DEF Messages
    <3> QED
      BY <2>1, <3>1 DEF Elsewhere, mdVars, vars
  <2>2. CASE Crash
    BY <2>2 DEF Crash, Halt
  <2>3. ASSUME NEW c \in Conns, Submit(c) PROVE SubmittedKept
    <3>1. \A i \in DOMAIN sent' : i \in DOMAIN sent \/ i = Len(sent) + 1
      BY <2>3, SubmitEffect
    <3> QED
      BY <2>3, <3>1, SubmitEffect DEF Submit, tableVars
  <2>4. ASSUME NEW c \in Conns, InsertMessage(c) PROVE SubmittedKept
    BY <2>4 DEF InsertMessage, Fail, Finish, tableVars
  <2>5. ASSUME NEW c \in Conns, Ack(c) PROVE SubmittedKept
    BY <2>5 DEF Ack, Fail, Finish, tableVars
  <2>6. ASSUME NEW c \in Conns, Post(c) PROVE SubmittedKept
    <3>1. commCh \in Seq(Ids) /\ req[c] \in Ids /\ req[c] \in DOMAIN sent
      BY <1>2, <2>6 DEF Post
    <3>2. \A k \in DOMAIN commCh' : commCh'[k] \in DOMAIN sent
      <4>1. \A k \in DOMAIN commCh' :
               \/ k \in DOMAIN commCh /\ commCh'[k] = commCh[k]
               \/ commCh'[k] = req[c]
        BY <2>6, <3>1, AppendProperties, LenProperties DEF Post
      <4> QED
        BY <3>1, <4>1
    <3> QED
      BY <2>6, <3>2 DEF Post, Finish, tableVars
  <2> QED
    BY <2>1, <2>2, <2>3, <2>4, <2>5, <2>6 DEF Next
<1>4. ServedKept
  <2> USE DEF BusyWithSubmitted, TypeOK, Served
  <2>1. CASE Elsewhere \/ UNCHANGED vars
    BY <2>1 DEF Elsewhere, mdVars, vars, tableVars, Accept, Disconnect, Authenticate,
                SetSession, RemoveSession, TableTypeOK
  <2>2. CASE Crash
    BY <2>2 DEF Crash
  <2>3. ASSUME NEW c \in Conns, Submit(c) \/ InsertMessage(c) \/ Post(c) \/ Ack(c)
        PROVE  ServedKept
    BY <2>3 DEF Submit, InsertMessage, Post, Ack, Fail, Finish, tableVars, TableTypeOK
  <2> QED
    BY <2>1, <2>2, <2>3 DEF Next
<1>5. BusyWithSubmitted'
  BY <1>1, <1>3, <1>4 DEF BusyWithSubmitted, Served, Grows
<1>6. AuthorIsSender'
  BY <1>3 DEF AuthorIsSender
<1>7. WrittenAnywhere' = WrittenAnywhere /\ \A c \in Conns : Written(c)' = Written(c)
  BY <1>1 DEF WrittenAnywhere, Written
<1>8. \A c \in Conns : Written(c) \subseteq DOMAIN sent
  BY DEF Written, BusyWithSubmitted
<1>9. TargetIsAddressee' /\ MarkingIsWritten'
  BY <1>1, <1>7 DEF TargetIsAddressee, MarkingIsWritten, BusyWithSubmitted, Grows
<1>10. WrittenToAddressee'
  <2> SUFFICES ASSUME NEW c \in Conns, NEW i \in Written(c)
               PROVE  sent'[i].to \in authed'[c] /\ sent'[i].from \in authed'[sent'[i].via]
    BY <1>7 DEF WrittenToAddressee
  <2>1. i \in DOMAIN sent /\ sent[i] \in Messages
    BY <1>8 DEF TypeOK
  <2> QED
    BY <2>1 DEF WrittenToAddressee, Grows, Messages
<1>11. ClearedWasWritten'
  <2> SUFFICES ASSUME NEW i \in Ids, rows'[i] = "cleared"
               PROVE  \E j \in WrittenAnywhere : sent'[j].cookie = sent'[i].cookie
    BY <1>7 DEF ClearedWasWritten
  <2>1. rows[i] = "cleared" /\ i \in DOMAIN sent
    BY <1>1 DEF BusyWithSubmitted
  <2>2. PICK j \in WrittenAnywhere : sent[j].cookie = sent[i].cookie
    BY <2>1 DEF ClearedWasWritten
  <2>3. j \in DOMAIN sent
    BY <1>8 DEF WrittenAnywhere
  <2> QED
    BY <2>1, <2>2, <2>3 DEF Grows
<1> QED
  BY <1>5, <1>6, <1>9, <1>10, <1>11

\* The strengthened invariant, for all messages and connections.
THEOREM Inductive == Spec => []IInv
<1>1. ASSUME IInv, [Next]_vars PROVE IInv'
  <2>1. TypeOK'
    BY <1>1, MessageTypeStep DEF IInv
  <2>2. RegisteredOwner'
    BY <1>1, StepIsTable, RegisteredOwnerStep DEF IInv, TypeOK
  <2> QED
    BY <1>1, <2>1, <2>2, StepGrows, RoutineStepIInv, HandlerStepIInv
<1> QED
  BY <1>1, InitIInv, PTL DEF Spec

\* The delivery's variables keep their types (the channel its capacity).
THEOREM TypeCorrect == Spec => []TypeOK
BY Inductive, PTL DEF IInv

\* A message is written only to a connection of its recipient, and it was
\* sent by one of its author.
THEOREM Addressing == Spec => []WrittenToAddressee
BY Inductive, PTL DEF IInv

\* No contents are cleared before a message with the row's cookie is written.
THEOREM Clearing == Spec => []ClearedWasWritten
BY Inductive, PTL DEF IInv

\* The delivery uses the session table as SessionTable allows.
THEOREM UsesTable == Spec => TableSpec
<1>1. Init => TableInit
  BY DEF Init
<1>2. IInv /\ [Next]_vars => [TableNext]_tableVars
  BY StepIsTable DEF IInv, TypeOK
<1> QED
  BY <1>1, <1>2, Inductive, PTL DEF Spec, TableSpec

-----------------------------------------------------------------------------
(***************************************************************************)
(* The refinement: message delivery is a mailbox.                          *)
(***************************************************************************)

\* The senders of messages s, as the mailbox sees them.
Via(s) == [i \in DOMAIN s |-> s[i].via]

\* It is a sequence of connections, one per message.
LEMMA ViaSeq ==
    ASSUME NEW s \in Seq(Messages)
    PROVE  /\ Via(s) \in Seq(Conns) /\ Len(Via(s)) = Len(s)
           /\ \A i \in 1..Len(s) : Via(s)[i] = s[i].via
<1>1. DOMAIN s = 1..Len(s) /\ Len(s) \in Nat
  BY LenProperties
<1>2. \A i \in 1..Len(s) : s[i] \in Messages
  BY ElementOfSeq
<1>3. Via(s) \in [1..Len(s) -> Conns]
  BY <1>1, <1>2 DEF Via, Messages
<1>4. Via(s) \in Seq(Conns)
  BY <1>1, <1>3, SeqDef
<1>5. DOMAIN Via(s) = 1..Len(Via(s)) /\ Len(Via(s)) \in Nat
  BY <1>4, LenProperties
<1> QED
  BY <1>1, <1>3, <1>4, <1>5 DEF Via

\* Whoever has a message on its way has a submitted one.
LEMMA PendingSubmitted ==
    ASSUME IInv
    PROVE  Pending \subseteq DOMAIN sent /\ DOMAIN sent = 1..Len(sent) /\ Len(sent) \in Nat
<1>1. DOMAIN sent = 1..Len(sent) /\ Len(sent) \in Nat
  BY LenProperties DEF IInv, TypeOK
<1>2. Pending \subseteq DOMAIN sent
  BY DEF IInv, BusyWithSubmitted, Pending, Handing, Held
<1> QED
  BY <1>1, <1>2

\* Whatever leaves the histories alone and puts nothing on its way loses
\* messages at most.
LEMMA OnlyLoses ==
    ASSUME sent' = sent, wire' = wire, Pending' \subseteq Pending
    PROVE  [Box!BoxNext]_(Box!boxVars)
BY DEF Box!BoxNext, Box!Lose

\* A submitted message is the youngest on its way.
LEMMA SubmitTransit ==
    ASSUME IInv, InTransit, NEW c \in Conns, Submit(c)
    PROVE  InTransit' /\ [Box!BoxNext]_(Box!boxVars)
<1> DEFINE n == Len(sent) + 1
<1>1. /\ DOMAIN sent = 1..Len(sent) /\ Len(sent) \in Nat
      /\ DOMAIN sent' = DOMAIN sent \cup {n} /\ sent'[n].via = c
      /\ \A i \in DOMAIN sent : sent'[i] = sent[i]
  BY PendingSubmitted, SubmitEffect DEF IInv
<1>2. /\ stage' \in [Conns -> Stages] /\ Handing(c)' /\ req'[c] = n
      /\ \A d \in Conns \ {c} : stage'[d] = stage[d] /\ req'[d] = req[d]
      /\ commCh' = commCh /\ routine' = routine /\ msg' = msg /\ wire' = wire
  BY DEF Submit, IInv, TypeOK, Handing, Stages
<1>3. ~Handing(c) /\ \A d \in Conns \ {c} : Handing(d)' = Handing(d)
  BY <1>2 DEF Submit, Handing
<1>4. /\ \A k \in DOMAIN commCh : commCh[k] \in DOMAIN sent
      /\ Held => msg \in DOMAIN sent
      /\ \A d \in Conns : Handing(d) => req[d] \in DOMAIN sent
      /\ Held' = Held
  BY <1>2 DEF IInv, BusyWithSubmitted, Held, Handing
<1>5. InTransit'
  <2>1. ASSUME NEW d \in Conns, Handing(d)'
        PROVE  /\ sent'[req'[d]].via = d
               /\ \A k \in DOMAIN commCh : sent'[commCh[k]].via = d => commCh[k] < req'[d]
               /\ Held /\ sent'[msg].via = d => msg < req'[d]
    <3>1. CASE d = c
      BY <1>1, <1>2, <1>4, <3>1
    <3>2. CASE d # c
      BY <1>1, <1>2, <1>3, <1>4, <2>1, <3>2 DEF InTransit
    <3> QED
      BY <3>1, <3>2
  <2>2. Held => \A k \in DOMAIN commCh :
          sent'[commCh[k]].via = sent'[msg].via => msg < commCh[k]
    BY <1>1, <1>4 DEF InTransit
  <2> QED
    BY <1>2, <1>4, <2>1, <2>2 DEF InTransit
<1>6. Pending' = Pending \cup {n}
  BY <1>2, <1>3, <1>4 DEF Pending
<1>7. Via(sent') = Append(Via(sent), c) /\ Len(Via(sent)) = Len(sent)
  <2>1. sent \in Seq(Messages) /\ sent' \in Seq(Messages) /\ Len(sent') = n
    BY SubmitEffect DEF IInv, TypeOK
  <2>2. /\ Via(sent) \in Seq(Conns) /\ Len(Via(sent)) = Len(sent)
        /\ \A i \in 1..Len(sent) : Via(sent)[i] = sent[i].via
    BY <2>1, ViaSeq
  <2>3. /\ Via(sent') \in Seq(Conns) /\ Len(Via(sent')) = n
        /\ \A i \in 1..n : Via(sent')[i] = sent'[i].via
    BY <2>1, ViaSeq
  <2>4. /\ Append(Via(sent), c) \in Seq(Conns) /\ Len(Append(Via(sent), c)) = n
        /\ \A i \in 1..Len(sent) : Append(Via(sent), c)[i] = Via(sent)[i]
        /\ Append(Via(sent), c)[n] = c
    BY <2>2, AppendProperties
  <2>5. \A i \in 1..n : Append(Via(sent), c)[i] = Via(sent')[i]
    BY <1>1, <2>2, <2>3, <2>4
  <2> QED
    BY <2>2, <2>3, <2>4, <2>5, SeqEqual
<1> QED
  BY <1>2, <1>5, <1>6, <1>7 DEF Box!BoxNext, Box!Submit, Via

\* A handler's other steps hand a message on or drop it.
LEMMA HandlerTransit ==
    ASSUME IInv, InTransit, [Next]_vars, ~Routine, ~\E c \in Conns : Submit(c)
    PROVE  InTransit' /\ [Box!BoxNext]_(Box!boxVars)
<1>1. CASE Elsewhere \/ UNCHANGED vars
  <2>1. InTransit' /\ Pending' = Pending /\ sent' = sent /\ wire' = wire
    BY <1>1 DEF Elsewhere, mdVars, vars, InTransit, Handing, Held, Pending
  <2> QED
    BY <2>1, OnlyLoses
<1>2. CASE Crash
  <2>1. InTransit' /\ Pending' = {} /\ sent' = sent /\ wire' = wire
    BY <1>2 DEF Crash, InTransit, Handing, Held, Pending
  <2> QED
    BY <2>1, OnlyLoses
<1>3. ASSUME NEW c \in Conns, InsertMessage(c) \/ Ack(c)
      PROVE  InTransit' /\ [Box!BoxNext]_(Box!boxVars)
  <2>1. /\ sent' = sent /\ wire' = wire /\ commCh' = commCh
        /\ routine' = routine /\ msg' = msg
    BY <1>3 DEF InsertMessage, Ack, Fail
  <2>2. \A d \in Conns : Handing(d)' => Handing(d) /\ req'[d] = req[d]
    BY <1>3 DEF InsertMessage, Ack, Fail, Finish, Handing, IInv, TypeOK
  <2>3. InTransit'
    BY <2>1, <2>2 DEF InTransit, Held
  <2>4. Pending' \subseteq Pending
    BY <2>1, <2>2 DEF Pending, Held
  <2> QED
    BY <2>1, <2>3, <2>4, OnlyLoses
<1>4. ASSUME NEW c \in Conns, Post(c)
      PROVE  InTransit' /\ [Box!BoxNext]_(Box!boxVars)
  <2>1. /\ sent' = sent /\ wire' = wire /\ routine' = routine /\ msg' = msg
        /\ Handing(c) /\ stage' = [stage EXCEPT ![c] = stage'[c]]
        /\ stage'[c] \in {"ack", "idle"}
        /\ \A d \in Conns \ {c} : req'[d] = req[d]
    BY <1>4 DEF Post, Finish, Handing, IInv, TypeOK
  <2>2. ~Handing(c)' /\ \A d \in Conns \ {c} : Handing(d)' = Handing(d)
    BY <2>1 DEF Handing, IInv, TypeOK
  <2>3. DOMAIN commCh' = {1} /\ commCh'[1] = req[c] /\ commCh = <<>>
    <3>1. commCh \in Seq(Ids) /\ req[c] \in Ids /\ Len(commCh) = 0
      <4>1. commCh \in Seq(Ids) /\ Len(commCh) < 1 /\ Len(commCh) \in Nat
        BY <1>4, LenProperties DEF Post, IInv, TypeOK, ChanCap
      <4>2. req[c] \in DOMAIN sent /\ DOMAIN sent \subseteq Ids
        BY <2>1, LenProperties, MessageAssumption
           DEF IInv, BusyWithSubmitted, Handing, TypeOK, Ids
      <4> QED
        BY <4>1, <4>2
    <3>2. commCh = <<>>
      BY <3>1, EmptySeq
    <3>3. /\ commCh' \in Seq(Ids) /\ Len(commCh') = 1 /\ commCh'[1] = req[c]
      BY <1>4, <3>1, AppendProperties DEF Post
    <3> QED
      BY <3>2, <3>3, LenProperties
  <2>4. InTransit'
    BY <2>1, <2>2, <2>3 DEF InTransit, Held
  <2>5. Pending' \subseteq Pending
    BY <2>1, <2>2, <2>3 DEF Pending, Held
  <2> QED
    BY <2>1, <2>4, <2>5, OnlyLoses
<1> QED
  BY <1>1, <1>2, <1>3, <1>4 DEF Next

\* The routine writes the oldest message of its sender, or drops it.
LEMMA RoutineTransit ==
    ASSUME IInv, InTransit, Routine
    PROVE  InTransit' /\ [Box!BoxNext]_(Box!boxVars)
<1>1. /\ sent' = sent /\ stage' = stage /\ req' = req
      /\ \A d \in Conns : Handing(d)' = Handing(d)
  BY DEF Routine, Receive, Lookup, Author, Send, MarkDelivered, Handing
<1>2. CASE Receive
  <2>1. /\ DOMAIN commCh = {1} /\ msg' = commCh[1] /\ commCh' = <<>> /\ Held' /\ wire' = wire
    <3>1. commCh \in Seq(Ids) /\ commCh # <<>> /\ Len(commCh) <= 1
      BY <1>2 DEF Receive, IInv, TypeOK, ChanCap
    <3>2. Len(commCh) = 1
      <4>1. Len(commCh) \in Nat /\ Len(commCh) # 0 /\ Len(commCh) <= 1
        BY <3>1, EmptySeq
      <4> QED
        BY <4>1
    <3>3. DOMAIN commCh = {1} /\ Head(commCh) = commCh[1]
      <4>1. DOMAIN commCh = 1..1
        BY <3>1, <3>2, LenProperties
      <4> QED
        BY <3>1, <4>1
    <3>4. Tail(commCh) = <<>>
      <4>1. Tail(commCh) \in Seq(Ids) /\ Len(Tail(commCh)) = Len(commCh) - 1
        BY <3>1, HeadTailProperties
      <4>2. Len(Tail(commCh)) = 0
        BY <3>2, <4>1
      <4> QED
        BY <4>1, <4>2, EmptySeq
    <3> QED
      BY <1>2, <3>3, <3>4 DEF Receive, Held
  <2>2. InTransit'
    BY <1>1, <2>1 DEF InTransit
  <2>3. Pending' \subseteq Pending
    BY <1>1, <2>1 DEF Pending
  <2> QED
    BY <1>1, <2>1, <2>2, <2>3, OnlyLoses
<1>3. CASE Lookup \/ Author \/ MarkDelivered \/ (Send /\ wire' = wire)
  <2>1. /\ commCh' = commCh /\ wire' = wire
        /\ Held' => Held /\ msg' = msg
    BY <1>3 DEF Lookup, Author, MarkDelivered, Send, Proceed, Held
  <2>2. InTransit'
    BY <1>1, <2>1 DEF InTransit
  <2>3. Pending' \subseteq Pending
    BY <1>1, <2>1 DEF Pending
  <2> QED
    BY <1>1, <2>1, <2>2, <2>3, OnlyLoses
<1>4. CASE Send /\ wire' # wire
  <2>1. /\ wire' = [wire EXCEPT ![target] = Append(@, msg)] /\ commCh' = commCh
        /\ Held /\ ~Held' /\ target \in Conns
    BY <1>4 DEF Send, Proceed, Held, IInv, TargetIsAddressee
  <2>2. InTransit'
    BY <1>1, <2>1 DEF InTransit
  <2>3. msg \in Pending /\ Pending \subseteq DOMAIN sent /\ DOMAIN sent \subseteq Nat
    BY <2>1, PendingSubmitted DEF Pending
  <2>4. \A j \in Pending : j = msg \/ (sent[j].via = sent[msg].via => msg < j)
    BY <2>1 DEF Pending, InTransit
  <2>5. Pending' = Pending \ {msg}
    <3>1. /\ \A d \in Conns : Handing(d) => req[d] # msg
          /\ \A k \in DOMAIN commCh : commCh[k] # msg
      BY <2>1, <2>3 DEF InTransit, Pending
    <3> QED
      BY <1>1, <2>1, <3>1 DEF Pending
  <2>6. Box!Deliver(msg, target)
    <3>1. \A j \in Pending : Via(sent)[j] = sent[j].via
      BY <2>3 DEF Via
    <3>2. \A j \in Pending : Via(sent)[j] = Via(sent)[msg] => msg <= j
      BY <2>3, <2>4, <3>1
    <3> QED
      BY <1>1, <2>1, <2>3, <2>5, <3>2 DEF Box!Deliver, Via
  <2> QED
    BY <2>1, <2>2, <2>3, <2>6 DEF Box!BoxNext
<1> QED
  BY <1>2, <1>3, <1>4 DEF Routine

\* Messages are on their way in the order of sending.
THEOREM Transit == Spec => []InTransit
<1>1. Init => InTransit
  BY DEF Init, InTransit, Handing, Held
<1>2. IInv /\ InTransit /\ [Next]_vars => InTransit'
  BY SubmitTransit, HandlerTransit, RoutineTransit
<1> QED
  BY <1>1, <1>2, Inductive, PTL DEF Spec

\* Message delivery implements the mailbox: every step is one of the
\* mailbox's or changes nothing that the mailbox sees.
THEOREM Refinement == Spec => ImplementsMailbox
<1>1. Init => Box!BoxInit
  <2> SUFFICES ASSUME Init PROVE Box!BoxInit
    OBVIOUS
  <2>1. Pending = {} /\ wire = [c \in Conns |-> <<>>]
    BY DEF Init, Pending, Handing, Held
  <2>2. [i \in DOMAIN sent |-> sent[i].via] = <<>>
    <3>1. sent = <<>> /\ <<>> \in Seq(Messages)
      BY DEF Init
    <3>2. Via(<<>>) \in Seq(Conns) /\ Len(Via(<<>>)) = 0
      BY <3>1, ViaSeq, EmptySeq
    <3> QED
      BY <3>1, <3>2, EmptySeq DEF Via
  <2> QED
    BY <2>1, <2>2 DEF Box!BoxInit
<1>2. IInv /\ InTransit /\ [Next]_vars => [Box!BoxNext]_(Box!boxVars)
  BY SubmitTransit, HandlerTransit, RoutineTransit
<1> QED
  BY <1>1, <1>2, Inductive, Transit, PTL DEF Spec, ImplementsMailbox, Box!BoxSpec

BoxProofs == INSTANCE Mailbox_proofs WITH origin <- [i \in DOMAIN sent |-> sent[i].via],
                                          pending <- Pending,
                                          inbox <- wire

\* What holds of every mailbox holds of message delivery.
LEMMA BoxInvariant == Spec => []BoxProofs!BoxInv
<1>1. Box!BoxInit => BoxProofs!BoxInit
  BY DEF Box!BoxInit, BoxProofs!BoxInit
<1>2. [Box!BoxNext]_(Box!boxVars) => [BoxProofs!BoxNext]_(BoxProofs!boxVars)
  BY DEF Box!BoxNext, Box!Submit, Box!Deliver, Box!Lose, Box!boxVars,
         BoxProofs!BoxNext, BoxProofs!Submit, BoxProofs!Deliver, BoxProofs!Lose,
         BoxProofs!boxVars
<1>3. BoxProofs!BoxSpec => []BoxProofs!BoxInv
  BY BoxProofs!BoxInductive
<1> QED
  BY <1>1, <1>2, <1>3, Refinement, PTL
     DEF ImplementsMailbox, Box!BoxSpec, BoxProofs!BoxSpec

\* A message is written to one connection at most, and once.
THEOREM WritesOnce == Spec => []WrittenOnce
<1>1. BoxProofs!BoxInv => WrittenOnce
  BY DEF BoxProofs!BoxInv, BoxProofs!Once, WrittenOnce
<1> QED
  BY <1>1, BoxInvariant, PTL

\* What one connection sends to another arrives in the order of sending.
THEOREM InSenderOrder == Spec => []SenderOrder
<1>1. IInv /\ BoxProofs!BoxInv => SenderOrder
  <2> SUFFICES ASSUME IInv, BoxProofs!BoxInv, NEW c \in Conns,
                      NEW k \in DOMAIN wire[c], NEW l \in DOMAIN wire[c],
                      k < l, sent[wire[c][k]].via = sent[wire[c][l]].via
               PROVE  wire[c][k] < wire[c][l]
    BY DEF SenderOrder
  <2>1. wire[c][k] \in DOMAIN sent /\ wire[c][l] \in DOMAIN sent
    BY DEF IInv, BusyWithSubmitted
  <2> QED
    BY <2>1 DEF BoxProofs!BoxInv, BoxProofs!InOrder
<1> QED
  BY <1>1, Inductive, BoxInvariant, PTL

-----------------------------------------------------------------------------
(***************************************************************************)
(* Acknowledged messages.                                                  *)
(***************************************************************************)

\* No row goes away, and a row is there before the message is posted.
LEMMA StoredFirstStep ==
    ASSUME IInv, StoredFirst, [Next]_vars
    PROVE  StoredFirst'
<1> USE DEF IInv, TypeOK
<1>1. /\ \A i \in Ids : rows[i] # "absent" => rows'[i] # "absent"
      /\ \A i \in DOMAIN sent : i \in Ids /\ i \in DOMAIN sent' /\ sent'[i] = sent[i]
  <2>1. \A i \in DOMAIN sent : i \in Ids
    BY LenProperties, MessageAssumption DEF Ids
  <2>2. \A i \in DOMAIN sent : i \in DOMAIN sent' /\ sent'[i] = sent[i]
    BY StepGrows DEF Grows
  <2>3. \A i \in Ids : rows[i] # "absent" => rows'[i] # "absent"
    BY DEF Next, Elsewhere, mdVars, vars, Crash, Submit, InsertMessage, Post, Ack, Fail,
           Routine, Receive, Lookup, Author, Send, MarkDelivered
  <2> QED
    BY <2>1, <2>2, <2>3
<1>2. \A a \in acks' : a.id \in DOMAIN sent /\ (sent[a.id].store => rows[a.id] # "absent")
  <2>1. ASSUME acks' = acks
        PROVE  \A a \in acks' : a.id \in DOMAIN sent /\ (sent[a.id].store => rows[a.id] # "absent")
    BY <2>1 DEF StoredFirst
  <2>2. ASSUME NEW c \in Conns, Ack(c), acks' # acks
        PROVE  \A a \in acks' : a.id \in DOMAIN sent /\ (sent[a.id].store => rows[a.id] # "absent")
    <3>1. acks' = acks \cup {[id |-> req[c], conn |-> c, name |-> sent[req[c]].from]}
      BY <2>2 DEF Ack, Fail
    <3>2. req[c] \in DOMAIN sent /\ (sent[req[c]].store => rows[req[c]] # "absent")
      BY <2>2 DEF Ack, BusyWithSubmitted, StoredFirst
    <3> QED
      BY <3>1, <3>2 DEF StoredFirst
  <2>3. ASSUME \A c \in Conns : ~Ack(c) PROVE acks' = acks
    BY <2>3 DEF Next, Elsewhere, mdVars, vars, Crash, Submit, InsertMessage, Post, Fail,
           Routine, Receive, Lookup, Author, Send, MarkDelivered
  <2> QED
    BY <2>1, <2>2, <2>3
<1>3. ASSUME NEW c \in Conns, stage'[c] \in {"post", "ack"}, sent'[req'[c]].store
      PROVE  rows'[req'[c]] # "absent"
  <2>1. CASE stage[c] \in {"post", "ack"} /\ req'[c] = req[c]
    BY <1>1, <1>3, <2>1 DEF StoredFirst, BusyWithSubmitted
  <2>2. ASSUME NEW d \in Conns, Submit(d) PROVE rows'[req'[c]] # "absent"
    <3>1. CASE d # c
      BY <1>3, <2>1, <2>2, <3>1 DEF Submit
    <3>2. CASE d = c
      <4>1. req'[c] = Len(sent) + 1 /\ ~(sent'[Len(sent) + 1].store)
        <5>1. PICK m \in Messages : /\ sent' = Append(sent, m)
                                    /\ stage'[c] = IF m.store THEN "insert" ELSE "post"
          BY <2>2, <3>2 DEF Submit
        <5>2. sent'[Len(sent) + 1] = m
          BY <5>1, AppendProperties
        <5>3. ~m.store
          BY <1>3, <5>1
        <5> QED
          BY <2>2, <3>2, <5>2, <5>3 DEF Submit
      <4> QED
        BY <1>3, <4>1
    <3> QED
      BY <3>1, <3>2
  <2>3. ASSUME NEW d \in Conns, InsertMessage(d) PROVE rows'[req'[c]] # "absent"
    <3>1. req[d] \in Ids
      BY <1>1, <2>3 DEF InsertMessage, BusyWithSubmitted
    <3> QED
      BY <1>3, <2>1, <2>3, <3>1 DEF InsertMessage, Fail, Finish
  <2>4. ASSUME NEW d \in Conns, Post(d) \/ Ack(d) PROVE rows'[req'[c]] # "absent"
    BY <1>3, <2>1, <2>4 DEF Post, Ack, Fail, Finish
  <2>5. CASE Crash
    BY <1>3, <2>5 DEF Crash
  <2>6. CASE Elsewhere \/ Routine \/ UNCHANGED vars
    BY <1>3, <2>1, <2>6 DEF Elsewhere, mdVars, vars, Routine, Receive, Lookup, Author,
           Send, MarkDelivered
  <2> QED
    BY <2>2, <2>3, <2>4, <2>5, <2>6 DEF Next
<1> QED
  BY <1>1, <1>2, <1>3 DEF StoredFirst

\* What was acknowledged and asked to be stored is kept until a message with
\* its cookie is written.
THEOREM Kept == Spec => []AckedIsKept
<1>1. Init => StoredFirst
  BY DEF Init, StoredFirst
<1>2. IInv /\ StoredFirst => AckedIsKept
  <2> SUFFICES ASSUME IInv, StoredFirst, NEW a \in acks, sent[a.id].store,
                      rows[a.id] # "stored"
               PROVE  \E j \in WrittenAnywhere : sent[j].cookie = sent[a.id].cookie
    BY DEF AckedIsKept
  <2>1. a.id \in Ids /\ rows[a.id] = "cleared"
    BY DEF IInv, TypeOK, StoredFirst
  <2> QED
    BY <2>1 DEF IInv, ClearedWasWritten
<1> QED
  BY <1>1, <1>2, StoredFirstStep, Inductive, PTL DEF Spec


=============================================================================
