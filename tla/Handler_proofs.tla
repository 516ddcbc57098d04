---------------------------- MODULE Handler_proofs ----------------------------
(***************************************************************************)
(* Proofs about Handler, for every set of users and connections and every  *)
(* bound.                                                                  *)
(***************************************************************************)
EXTENDS Handler, SequenceTheorems, TLAPS

\* Sending on the channel and receiving from it keep its type and capacity.
LEMMA ChannelType ==
    ASSUME onlineCh \in Seq(Users), Len(onlineCh) <= ChanCap
    PROVE  /\ \A u \in Users : Enqueue(u) =>
                  onlineCh' \in Seq(Users) /\ Len(onlineCh') <= ChanCap
           /\ onlineCh # <<>> =>
                  Tail(onlineCh) \in Seq(Users) /\ Len(Tail(onlineCh)) <= ChanCap
<1>1. ASSUME NEW u \in Users, Enqueue(u)
      PROVE  onlineCh' \in Seq(Users) /\ Len(onlineCh') <= ChanCap
  BY <1>1 DEF Enqueue, ChanCap
<1>2. ASSUME onlineCh # <<>>
      PROVE  Tail(onlineCh) \in Seq(Users) /\ Len(Tail(onlineCh)) <= ChanCap
  BY <1>2 DEF ChanCap
<1> QED
  BY <1>1, <1>2

\* The labels are distinct strings of Labels; with this fact the proofs need
\* not expand the set.
LEMMA LabelFacts ==
    /\ {"none", "loop", "signon", "ready", "selfinfo", "setinfo", "add"} \subseteq Labels
    /\ {"addpost", "reply", "authorize", "post", "away"} \subseteq Labels
    /\ {"postaway", "disc", "remove", "ret", "gone", "dead"} \subseteq Labels
BY DEF Labels

\* Moving a handler to another label keeps the type of pc.
LEMMA GotoType ==
    ASSUME pc \in [Conns -> Labels], NEW c \in Conns, NEW l \in Labels, Goto(c, l)
    PROVE  pc' \in [Conns -> Labels]
BY DEF Goto

\* A failing request keeps the types.
LEMMA FailType ==
    ASSUME TypeOK, NEW c \in Conns, NEW new \in Contexts, Fail(c, new)
    PROVE  TypeOK'
<1> USE DEF TypeOK
<1>1. pc' \in [Conns -> Labels]
  BY GotoType, LabelFacts DEF Fail
<1>2. conn' \in [Conns -> {"none", "open", "closed", "dead"}]
  BY DEF Fail
<1>3. names' \in [Conns -> 0..MaxNames]
  BY HandlerAssumption DEF Fail
<1>4. ctx' \in [Conns -> Contexts] /\ after' \in [Conns -> Contexts \cup {Return}]
  BY DEF Fail
<1> QED
  BY <1>1, <1>2, <1>3, <1>4 DEF Fail, process

\* Ending the process keeps the types.
LEMMA StopType ==
    ASSUME TypeOK, Stop
    PROVE  TypeOK'
<1> USE DEF TypeOK
<1>1. pc' \in [Conns -> Labels]
  BY LabelFacts DEF Stop
<1>2. conn' \in [Conns -> {"none", "open", "closed", "dead"}]
  BY DEF Stop
<1>3. buf' \in [Conns -> 0..MaxBuf] /\ names' \in [Conns -> 0..MaxNames]
  BY HandlerAssumption DEF Stop
<1>4. ctx' \in [Conns -> Contexts] /\ after' \in [Conns -> Contexts \cup {Return}]
  BY DEF Stop, Contexts
<1>5. onlineCh' \in Seq(Users) /\ Len(onlineCh') <= ChanCap
  BY DEF Stop, ChanCap
<1>6. sessions' \in [Users -> Conns \cup {NoConn}]
  BY DEF Stop
<1> QED
  BY <1>1, <1>2, <1>3, <1>4, <1>5, <1>6 DEF Stop

-----------------------------------------------------------------------------

\* Every step keeps the types.
LEMMA TypeStep ==
    ASSUME TypeOK, \A c \in Conns : Shape(c), [Next]_vars
    PROVE  TypeOK'
<1> USE DEF TypeOK, At, process, local, tableVars
<1>1. CASE Start
  <2>1. boots' \in 0..MaxBoots /\ status' \in [Users -> {"Online", "Away"}]
    BY <1>1, HandlerAssumption DEF Start
  <2> QED
    BY <1>1, <2>1 DEF Start
<1>2. CASE Drain
  BY <1>2, ChannelType DEF Drain
<1>3. ASSUME NEW c \in Conns, Client(c) PROVE TypeOK'
  <2>1. CASE Accept(c)
    <3>1. pc' \in [Conns -> Labels]
      BY <2>1, GotoType, LabelFacts DEF Accept
    <3>2. conn' \in [Conns -> {"none", "open", "closed", "dead"}]
      BY <2>1 DEF Accept
    <3> QED
      BY <2>1, <3>1, <3>2 DEF Accept
  <2>2. CASE ReadData(c)
    <3>1. buf' \in [Conns -> 0..MaxBuf]
      BY <2>2, HandlerAssumption DEF ReadData
    <3> QED
      BY <2>2, <3>1 DEF ReadData
  <2>3. CASE HangUp(c)
    <3>1. pc' \in [Conns -> Labels]
      BY <2>3, GotoType, LabelFacts DEF HangUp
    <3> QED
      BY <2>3, <3>1 DEF HangUp
  <2> QED
    BY <1>3, <2>1, <2>2, <2>3 DEF Client
<1>4. ASSUME NEW c \in Conns, Local(c) PROVE TypeOK'
  <2>1. CASE ReadClosed(c)
    <3>1. pc' \in [Conns -> Labels]
      BY <2>1, GotoType, LabelFacts DEF ReadClosed
    <3>2. after' \in [Conns -> Contexts \cup {Return}]
      BY <2>1 DEF ReadClosed
    <3> QED
      BY <2>1, <3>1, <3>2 DEF ReadClosed
  <2>2. CASE Panic(c)
    BY <2>2, StopType DEF Panic
  <2>3. ASSUME buf[c] > 0, buf' = [buf EXCEPT ![c] = @ - 1]
        PROVE  buf' \in [Conns -> 0..MaxBuf]
    BY <2>3, HandlerAssumption
  <2>4. CASE Drop(c)
    <3>1. buf' \in [Conns -> 0..MaxBuf]
      BY <2>4, <2>3 DEF Drop
    <3> QED
      BY <2>4, <3>1 DEF Drop
  <2>5. CASE Take(c)
    <3>1. buf' \in [Conns -> 0..MaxBuf]
      BY <2>5, <2>3 DEF Take
    <3>2. sessions' \in [Users -> Conns \cup {NoConn}]
      BY <2>5 DEF Take
    <3>3. PICK l \in Requests(ctx[c]) :
             /\ Goto(c, l)
             /\ IF l = "add" THEN \E n \in 1..MaxNames : names' = [names EXCEPT ![c] = n]
                             ELSE UNCHANGED names
             /\ after' = IF l = "away" THEN [after EXCEPT ![c] = ctx[c]] ELSE after
      BY <2>5 DEF Take
    <3>4. pc' \in [Conns -> Labels]
      BY <3>3, GotoType, LabelFacts DEF Requests
    <3>5. names' \in [Conns -> 0..MaxNames]
      <4>1. ASSUME NEW n \in 1..MaxNames, names' = [names EXCEPT ![c] = n]
            PROVE  names' \in [Conns -> 0..MaxNames]
        BY <4>1, HandlerAssumption
      <4>2. CASE l = "add"
        BY <3>3, <4>1, <4>2
      <4>3. CASE l # "add"
        BY <3>3, <4>3
      <4> QED
        BY <4>2, <4>3
    <3>6. after' \in [Conns -> Contexts \cup {Return}]
      BY <3>3
    <3> QED
      BY <2>5, <3>1, <3>2, <3>4, <3>5, <3>6 DEF Take
  <2>6. CASE SignOn(c)
    <3>1. pc' \in [Conns -> Labels]
      BY <2>6, GotoType, LabelFacts DEF SignOn
    <3>2. ctx' \in [Conns -> Contexts]
      BY <2>6 DEF SignOn, Contexts
    <3>3. authed' \in [Conns -> SUBSET Users]
      <4>1. CASE UNCHANGED authed
        BY <4>1
      <4>2. CASE \E u \in Users : authed' = [authed EXCEPT ![c] = @ \cup {u}]
        BY <4>2
      <4> QED
        BY <2>6, <4>1, <4>2 DEF SignOn
    <3> QED
      BY <2>6, <3>1, <3>2, <3>3 DEF SignOn
  <2>7. ctx[c] \in Contexts /\ NilCtx \in Contexts /\ Background \in Contexts
    BY DEF Contexts
  <2>8. ASSUME NEW l \in Labels, pc[c] \in UserLabels, WriteOnline(c, l)
        PROVE  TypeOK'
    <3>1. CASE Fail(c, ctx[c])
      BY <3>1, <2>7, FailType
    <3>2. CASE ~Fail(c, ctx[c])
      <4>1. pc' \in [Conns -> Labels]
        BY <2>8, <3>2, GotoType DEF WriteOnline
      <4>2. status' \in [Users -> {"Online", "Away"}]
        BY <2>8, <3>2 DEF WriteOnline
      <4> QED
        BY <2>8, <3>2, <4>1, <4>2 DEF WriteOnline
    <3> QED
      BY <3>1, <3>2
  <2>9. CASE Ready(c) \/ SelfInfo(c)
    BY <2>8, <2>9, LabelFacts DEF Ready, SelfInfo, UserLabels
  <2>10. CASE SetInfo(c)
    <3>1. CASE \E new \in {NilCtx, ctx[c]} : Fail(c, new)
      BY <3>1, <2>7, FailType
    <3>2. CASE ~\E new \in {NilCtx, ctx[c]} : Fail(c, new)
      <4>1. pc' \in [Conns -> Labels]
        BY <2>10, <3>2, GotoType, LabelFacts DEF SetInfo
      <4> QED
        BY <2>10, <3>2, <4>1 DEF SetInfo
    <3> QED
      BY <3>1, <3>2
  <2>11. CASE AddName(c)
    <3>1. CASE Fail(c, ctx[c])
      BY <3>1, <2>7, FailType
    <3>2. CASE ~Fail(c, ctx[c])
      <4>1. pc' \in [Conns -> Labels]
        BY <2>11, <3>2, GotoType, LabelFacts DEF AddName
      <4>2. names' \in [Conns -> 0..MaxNames]
        <5>1. 0 \in 0..MaxNames
          BY HandlerAssumption
        <5>2. names' = names \/ names' = [names EXCEPT ![c] = 0]
          BY <2>11, <3>2 DEF AddName
        <5> QED
          BY <5>1, <5>2
      <4> QED
        BY <2>11, <3>2, <4>1, <4>2 DEF AddName
    <3> QED
      BY <3>1, <3>2
  <2>12. CASE Reply(c)
    <3>1. CASE Fail(c, ctx[c])
      BY <3>1, <2>7, FailType
    <3>2. CASE ~Fail(c, ctx[c])
      <4>1. pc' \in [Conns -> Labels]
        BY <2>12, <3>2, GotoType, LabelFacts DEF Reply
      <4> QED
        BY <2>12, <3>2, <4>1 DEF Reply
    <3> QED
      BY <3>1, <3>2
  <2>13. CASE Authorize(c)
    <3>1. CASE \E new \in {ctx[c], Background} : Fail(c, new)
      BY <3>1, <2>7, FailType
    <3>2. CASE ~\E new \in {ctx[c], Background} : Fail(c, new)
      <4>1. pc' \in [Conns -> Labels]
        BY <2>13, <3>2, GotoType, LabelFacts DEF Authorize
      <4>2. ctx' \in [Conns -> Contexts]
        BY <2>13, <3>2, <2>7 DEF Authorize
      <4>3. conn' \in [Conns -> {"none", "open", "closed", "dead"}]
        BY <2>13, <3>2 DEF Authorize
      <4> QED
        BY <2>13, <3>2, <4>1, <4>2, <4>3 DEF Authorize
    <3> QED
      BY <3>1, <3>2
  <2>14. CASE SetAway(c)
    <3>1. pc' \in [Conns -> Labels]
      BY <2>14, GotoType, LabelFacts DEF SetAway
    <3>2. status' \in [Users -> {"Online", "Away"}]
      BY <2>14 DEF SetAway
    <3>3. awayFailures' \in 0..MaxAwayFailures
      <4>1. \/ awayFailures' = awayFailures
            \/ awayFailures < MaxAwayFailures /\ awayFailures' = awayFailures + 1
        BY <2>14 DEF SetAway
      <4> QED
        BY <4>1, HandlerAssumption
    <3> QED
      BY <2>14, <3>1, <3>2, <3>3 DEF SetAway
  <2>15. CASE Disconnect(c)
    <3>1. pc' \in [Conns -> Labels]
      BY <2>15, GotoType, LabelFacts DEF Disconnect
    <3>2. conn' \in [Conns -> {"none", "open", "closed", "dead"}]
      BY <2>15 DEF Disconnect
    <3> QED
      BY <2>15, <3>1, <3>2 DEF Disconnect
  <2>16. CASE RemoveSession(c)
    <3>1. pc' \in [Conns -> Labels]
      BY <2>16, GotoType, LabelFacts DEF RemoveSession
    <3>2. sessions' \in [Users -> Conns \cup {NoConn}]
      BY <2>16 DEF RemoveSession
    <3>3. ctx' \in [Conns -> Contexts] /\ after' \in [Conns -> Contexts \cup {Return}]
      BY <2>16 DEF RemoveSession, Contexts
    <3> QED
      BY <2>16, <3>1, <3>2, <3>3 DEF RemoveSession
  <2> QED
    BY <1>4, <2>1, <2>2, <2>4, <2>5, <2>6, <2>9, <2>10, <2>11, <2>12, <2>13,
       <2>14, <2>15, <2>16 DEF Local
<1>5. ASSUME NEW c \in Conns, Posting(c) PROVE TypeOK'
  <2>1. pc' \in [Conns -> Labels]
    BY <1>5, GotoType, LabelFacts DEF Posting, AddPost, Post, PostAway
  <2>2. onlineCh' \in Seq(Users) /\ Len(onlineCh') <= ChanCap
    BY <1>5, ChannelType DEF Posting, AddPost, Post, PostAway, Shape, UserLabels
  <2>3. names' \in [Conns -> 0..MaxNames]
    BY <1>5, HandlerAssumption DEF Posting, AddPost, Post, PostAway, Shape
  <2> QED
    BY <1>5, <2>1, <2>2, <2>3 DEF Posting, AddPost, Post, PostAway
<1>6. CASE UNCHANGED vars
  BY <1>6 DEF vars
<1> QED
  BY <1>1, <1>2, <1>3, <1>4, <1>5, <1>6, StopType DEF Next, Crash

-----------------------------------------------------------------------------

\* A step of one handler, other than a panic, leaves the others alone.
LEMMA Frame ==
    ASSUME TypeOK, NEW c \in Conns, Client(c) \/ Local(c) \/ Posting(c), ~Stop,
           NEW d \in Conns, d # c
    PROVE  /\ pc'[d] = pc[d] /\ ctx'[d] = ctx[d] /\ after'[d] = after[d]
           /\ names'[d] = names[d] /\ conn'[d] = conn[d] /\ authed'[d] = authed[d]
           /\ buf'[d] = buf[d]
<1> USE DEF TypeOK, Goto, Fail, local, tableVars
<1>1. CASE Client(c)
  BY <1>1 DEF Client, Accept, ReadData, HangUp
<1>2. CASE Posting(c)
  BY <1>2 DEF Posting, AddPost, Post, PostAway
<1>3. CASE Local(c)
  <2>1. CASE ReadClosed(c) \/ Drop(c) \/ Take(c)
    BY <2>1 DEF ReadClosed, Drop, Take
  <2>2. CASE SignOn(c)
    BY <2>2 DEF SignOn
  <2>3. CASE Ready(c) \/ SelfInfo(c)
    BY <2>3 DEF Ready, SelfInfo, WriteOnline
  <2>4. CASE SetInfo(c) \/ AddName(c) \/ Reply(c)
    BY <2>4 DEF SetInfo, AddName, Reply
  <2>5. CASE Authorize(c)
    BY <2>5 DEF Authorize
  <2>6. CASE SetAway(c) \/ Disconnect(c) \/ RemoveSession(c)
    BY <2>6 DEF SetAway, Disconnect, RemoveSession
  <2> QED
    BY <1>3, <2>1, <2>2, <2>3, <2>4, <2>5, <2>6 DEF Local, Panic
<1> QED
  BY <1>1, <1>2, <1>3

\* What a request does that fails.
LEMMA FailEffect ==
    ASSUME TypeOK, NEW c \in Conns, NEW new \in Contexts, Fail(c, new)
    PROVE  /\ conn'[c] = "closed" /\ authed'[c] = authed[c]
           /\ status' = status /\ sessions' = sessions
           /\ \/ /\ ctx[c] \in Users /\ pc'[c] = "away"
                 /\ ctx'[c] = ctx[c] /\ after'[c] = new
              \/ /\ ctx[c] \notin Users /\ pc'[c] = "loop"
                 /\ ctx'[c] = new /\ after'[c] = after[c]
BY DEF TypeOK, Fail, Goto

\* A handler's step keeps its own variables consistent.
LEMMA ShapeStep ==
    ASSUME TypeOK, NEW c \in Conns, Shape(c), Client(c) \/ Local(c) \/ Posting(c), ~Stop
    PROVE  Shape(c)'
<1> USE DEF TypeOK, At, Goto, Shape, UserLabels, local, tableVars
<1>1. CASE Client(c)
  BY <1>1 DEF Client, Accept, ReadData, HangUp
<1>2. CASE Posting(c)
  BY <1>2 DEF Posting, AddPost, Post, PostAway
<1>3. CASE Local(c)
  <2>1. ASSUME NEW new \in Contexts, Fail(c, new), new \in Users => new = ctx[c],
               pc[c] \notin {"none", "dead"}
        PROVE  Shape(c)'
    BY <2>1, FailEffect
  <2>2. CASE ReadClosed(c) \/ Drop(c)
    BY <2>2, HandlerAssumption DEF ReadClosed, Drop, Contexts
  <2>3. CASE Take(c)
    BY <2>3 DEF Take, Requests
  <2>4. CASE SignOn(c)
    BY <2>4 DEF SignOn
  <2>5. ctx[c] \in Contexts /\ NilCtx \in Contexts /\ Background \in Contexts
        /\ NilCtx \notin Users /\ Background \notin Users /\ Anon \notin Users
    BY HandlerAssumption DEF Contexts
  <2>6. CASE Ready(c) \/ SelfInfo(c)
    BY <2>1, <2>5, <2>6 DEF Ready, SelfInfo, WriteOnline
  <2>7. CASE SetInfo(c)
    BY <2>1, <2>5, <2>7 DEF SetInfo
  <2>8. CASE AddName(c)
    BY <2>1, <2>5, <2>8 DEF AddName
  <2>9. CASE Reply(c)
    BY <2>1, <2>5, <2>9 DEF Reply
  <2>10. CASE Authorize(c)
    BY <2>1, <2>5, <2>10 DEF Authorize
  <2>11. CASE SetAway(c) \/ Disconnect(c)
    BY <2>11 DEF SetAway, Disconnect
  <2>12. CASE RemoveSession(c)
    BY <2>5, <2>12 DEF RemoveSession
  <2> QED
    BY <1>3, <2>2, <2>3, <2>4, <2>6, <2>7, <2>8, <2>9, <2>10, <2>11, <2>12
       DEF Local, Panic
<1> QED
  BY <1>1, <1>2, <1>3

-----------------------------------------------------------------------------

\* How a handler's step can change the statuses and who has finished.
StatusEffect(c) ==
    /\ up' = up
    /\ awayFailures' = 0 => awayFailures = 0
    /\ authed[c] \subseteq authed'[c]
    /\ pc'[c] # "dead"
    /\ \A u \in Users :
          /\ status'[u] = "Online" =>
                \/ status[u] = "Online"
                \/ ctx[c] = u /\ ctx'[c] = u /\ pc'[c] \in {"post", "reply"}
          /\ Finished(c, u)' =>
                Finished(c, u) \/ status'[u] # "Online" \/ awayFailures' # 0

\* Every step of a handler has such an effect on status.
LEMMA StatusStep ==
    ASSUME TypeOK, NEW c \in Conns, Shape(c), Client(c) \/ Local(c) \/ Posting(c), ~Stop
    PROVE  StatusEffect(c)
<1> USE DEF TypeOK, At, Goto, Shape, UserLabels, StatusEffect, Finished,
            process, local, tableVars
<1>1. CASE Client(c)
  BY <1>1 DEF Client, Accept, ReadData, HangUp
<1>2. CASE Posting(c)
  BY <1>2 DEF Posting, AddPost, Post, PostAway
<1>3. CASE Local(c)
  <2>1. ASSUME NEW new \in Contexts, Fail(c, new) PROVE StatusEffect(c)
    BY <2>1, FailEffect DEF Fail
  <2>2. CASE ReadClosed(c) \/ Drop(c)
    BY <2>2 DEF ReadClosed, Drop
  <2>3. CASE Take(c)
    BY <2>3 DEF Take, Requests
  <2>4. CASE SignOn(c)
    BY <2>4 DEF SignOn
  <2>5. ctx[c] \in Contexts /\ NilCtx \in Contexts /\ Background \in Contexts
    BY DEF Contexts
  <2>6. CASE Ready(c) \/ SelfInfo(c)
    BY <2>1, <2>5, <2>6 DEF Ready, SelfInfo, WriteOnline
  <2>7. CASE SetInfo(c)
    BY <2>1, <2>5, <2>7 DEF SetInfo
  <2>8. CASE AddName(c)
    BY <2>1, <2>5, <2>8 DEF AddName
  <2>9. CASE Reply(c)
    BY <2>1, <2>5, <2>9 DEF Reply
  <2>10. CASE Authorize(c)
    BY <2>1, <2>5, <2>10 DEF Authorize
  <2>11. CASE SetAway(c)
    BY <2>11 DEF SetAway
  <2>12. CASE Disconnect(c) \/ RemoveSession(c)
    BY <2>12 DEF Disconnect, RemoveSession
  <2> QED
    BY <1>3, <2>2, <2>3, <2>4, <2>6, <2>7, <2>8, <2>9, <2>10, <2>11, <2>12
       DEF Local, Panic
<1> QED
  BY <1>1, <1>2, <1>3

\* A handler of a client that waits for its answers takes one FLAP at a time.
LEMMA OneAtATimeStep ==
    ASSUME TypeOK, ~pipelined, NEW c \in Conns, Shape(c), OneAtATime(c),
           Client(c) \/ Local(c) \/ Posting(c), ~Stop
    PROVE  OneAtATime(c)'
<1> USE HandlerAssumption
    DEF TypeOK, At, Goto, Shape, UserLabels, OneAtATime, InRequest, Labels, Contexts,
        local, tableVars
<1>1. CASE Client(c)
  BY <1>1 DEF Client, Accept, ReadData, HangUp
<1>2. CASE Posting(c)
  BY <1>2 DEF Posting, AddPost, Post, PostAway
<1>3. CASE Local(c)
  <2>1. ASSUME NEW new \in Contexts, Fail(c, new), new \in Users => new = ctx[c],
               pc[c] \in InRequest
        PROVE  OneAtATime(c)'
    BY <2>1, FailEffect DEF Fail
  <2>2. CASE ReadClosed(c)
    BY <2>2 DEF ReadClosed
  <2>3. CASE Drop(c)
    BY <2>3 DEF Drop
  <2>4. CASE Take(c)
    BY <2>4 DEF Take, Requests
  <2>5. CASE SignOn(c)
    BY <2>5 DEF SignOn
  <2>6. CASE Ready(c) \/ SelfInfo(c)
    BY <2>1, <2>6 DEF Ready, SelfInfo, WriteOnline
  <2>7. CASE SetInfo(c)
    BY <2>1, <2>7 DEF SetInfo
  <2>8. CASE AddName(c)
    BY <2>1, <2>8 DEF AddName
  <2>9. CASE Reply(c)
    BY <2>1, <2>9 DEF Reply
  <2>10. CASE Authorize(c)
    BY <2>1, <2>10 DEF Authorize
  <2>11. CASE SetAway(c) \/ Disconnect(c)
    BY <2>11 DEF SetAway, Disconnect
  <2>12. CASE RemoveSession(c)
    BY <2>12 DEF RemoveSession
  <2> QED
    BY <1>3, <2>2, <2>3, <2>4, <2>5, <2>6, <2>7, <2>8, <2>9, <2>10, <2>11, <2>12
       DEF Local, Panic
<1> QED
  BY <1>1, <1>2, <1>3

\* How the step of such a handler can change who has tried to set a user away.
RetryEffect(c) ==
    /\ \/ awayFailures' = awayFailures
       \/ /\ awayFailures' = awayFailures + 1 /\ SetAway(c) /\ status' = status
          /\ \A u \in Users : Finished(c, u)' => TriedOnce(c, u)
    /\ awayFailures' = awayFailures => \A u \in Users : status'[u] = "Online" =>
          /\ Finished(c, u)' => Finished(c, u)
          /\ TriedOnce(c, u)' => TriedOnce(c, u)

\* Every step of such a handler has such an effect.
LEMMA RetryStep ==
    ASSUME TypeOK, NEW c \in Conns, Shape(c), OneAtATime(c),
           Client(c) \/ Local(c) \/ Posting(c), ~Stop
    PROVE  RetryEffect(c)
<1> USE HandlerAssumption
    DEF TypeOK, At, Goto, Shape, UserLabels, OneAtATime, InRequest, Labels, Contexts,
        RetryEffect, Finished, TriedOnce, local, tableVars
<1>1. CASE Client(c)
  BY <1>1 DEF Client, Accept, ReadData, HangUp
<1>2. CASE Posting(c)
  BY <1>2 DEF Posting, AddPost, Post, PostAway
<1>3. CASE Local(c)
  <2>1. ASSUME NEW new \in Contexts, Fail(c, new), new \in Users => new = ctx[c],
               pc[c] \in InRequest
        PROVE  RetryEffect(c)
    BY <2>1, FailEffect DEF Fail
  <2>2. CASE ReadClosed(c)
    BY <2>2 DEF ReadClosed
  <2>3. CASE Drop(c)
    BY <2>3 DEF Drop
  <2>4. CASE Take(c)
    BY <2>4 DEF Take, Requests
  <2>5. CASE SignOn(c)
    BY <2>5 DEF SignOn
  <2>6. CASE Ready(c) \/ SelfInfo(c)
    BY <2>1, <2>6 DEF Ready, SelfInfo, WriteOnline
  <2>7. CASE SetInfo(c)
    BY <2>1, <2>7 DEF SetInfo
  <2>8. CASE AddName(c)
    BY <2>1, <2>8 DEF AddName
  <2>9. CASE Reply(c)
    BY <2>1, <2>9 DEF Reply
  <2>10. CASE Authorize(c)
    BY <2>1, <2>10 DEF Authorize
  <2>11. CASE SetAway(c)
    BY <2>11 DEF SetAway
  <2>12. CASE Disconnect(c) \/ RemoveSession(c)
    BY <2>12 DEF Disconnect, RemoveSession
  <2> QED
    BY <1>3, <2>2, <2>3, <2>4, <2>5, <2>6, <2>7, <2>8, <2>9, <2>10, <2>11, <2>12
       DEF Local, Panic
<1> QED
  BY <1>1, <1>2, <1>3

\* The handler that is to set an online user away again stays, or another
\* one takes its place.
LEMMA OnlineHasRetryStep ==
    ASSUME TypeOK, \A d \in Conns : Shape(d) /\ OneAtATime(d), OnlineHasRetry, ~pipelined,
           NEW c \in Conns, Client(c) \/ Local(c) \/ Posting(c), ~Stop
    PROVE  OnlineHasRetry'
<1>1. StatusEffect(c) /\ RetryEffect(c)
  BY StatusStep, RetryStep
<1>2. awayFailures \in Nat
  BY DEF TypeOK
<1> SUFFICES ASSUME up', awayFailures' <= 1, NEW u \in Users, status'[u] = "Online"
             PROVE  \E d \in Conns :
                       /\ u \in authed'[d] /\ pc'[d] # "dead" /\ ~Finished(d, u)'
                       /\ awayFailures' = 0 => ~TriedOnce(d, u)'
  BY DEF OnlineHasRetry
<1>3. ASSUME NEW d \in Conns, d # c
      PROVE  /\ authed'[d] = authed[d] /\ pc'[d] = pc[d]
             /\ Finished(d, u)' = Finished(d, u) /\ TriedOnce(d, u)' = TriedOnce(d, u)
  BY <1>3, Frame DEF Finished, TriedOnce
<1>4. CASE status[u] # "Online"
  <2>1. ctx[c] = u /\ ctx'[c] = u /\ pc'[c] \in {"post", "reply"}
    BY <1>1, <1>4 DEF StatusEffect
  <2>2. u \in authed'[c]
    BY <1>1, <2>1 DEF StatusEffect, Shape
  <2> QED
    BY <2>1, <2>2 DEF Finished, TriedOnce
<1>5. CASE status[u] = "Online"
  <2>1. awayFailures <= 1
    BY <1>1, <1>2, SMT DEF RetryEffect
  <2>2. PICK w \in Conns :
           /\ u \in authed[w] /\ pc[w] # "dead" /\ ~Finished(w, u)
           /\ awayFailures = 0 => ~TriedOnce(w, u)
    BY <1>1, <1>5, <2>1 DEF OnlineHasRetry, StatusEffect
  <2>3. u \in authed'[w] /\ pc'[w] # "dead"
    BY <1>1, <1>3, <2>2 DEF StatusEffect
  <2>4. CASE w # c
    <3>1. awayFailures' = 0 => awayFailures = 0
      BY <1>1 DEF StatusEffect
    <3> QED
      BY <1>3, <2>2, <2>3, <2>4, <3>1
  <2>5. CASE w = c /\ awayFailures' = awayFailures
    BY <1>1, <2>2, <2>3, <2>5 DEF RetryEffect
  <2>6. CASE w = c /\ awayFailures' # awayFailures
    <3>1. awayFailures' = awayFailures + 1 /\ (Finished(c, u)' => TriedOnce(c, u))
      BY <1>1, <2>6 DEF RetryEffect
    <3>2. awayFailures = 0 /\ awayFailures' # 0
      BY <1>2, <3>1, SMT
    <3> QED
      BY <2>2, <2>3, <2>6, <3>1, <3>2
  <2> QED
    BY <2>4, <2>5, <2>6
<1> QED
  BY <1>4, <1>5

\* How a handler's step can change the session map.
MapEffect(c) ==
    /\ \A u \in Users :
          /\ sessions'[u] # sessions[u] => u = ctx[c] /\ u \in authed[c]
          /\ sessions'[u] \in {sessions[u], NoConn, c}
          /\ sessions'[u] = c =>
                /\ sessions[u] = c \/ u \in authed'[c]
                /\ pc'[c] \notin {"none", "dead"}
                /\ ~(pc'[c] = "ret" /\ ctx'[c] = u)
    /\ (pc'[c] \in InRequest /\ ctx'[c] \in Users /\ conn'[c] = "open") =>
          \/ sessions'[ctx'[c]] = c
          \/ /\ pc[c] \in InRequest /\ ctx'[c] = ctx[c] /\ conn[c] = "open"
             /\ sessions' = sessions

\* Every step of a handler has such an effect on the map.
LEMMA MapStep ==
    ASSUME TypeOK, NEW c \in Conns, Shape(c), EntryHasHandler,
           Client(c) \/ Local(c) \/ Posting(c), ~Stop
    PROVE  MapEffect(c)
<1> USE HandlerAssumption
    DEF TypeOK, At, Goto, Shape, UserLabels, MapEffect, InRequest, Labels,
        EntryHasHandler, local, tableVars
<1>1. CASE Client(c)
  BY <1>1 DEF Client, Accept, ReadData, HangUp
<1>2. CASE Posting(c)
  BY <1>2 DEF Posting, AddPost, Post, PostAway
<1>3. CASE Local(c)
  <2>1. ASSUME NEW new \in Contexts, Fail(c, new), pc[c] \notin {"none", "dead"}
        PROVE  MapEffect(c)
    BY <2>1, FailEffect
  <2>2. CASE ReadClosed(c) \/ Drop(c)
    BY <2>2 DEF ReadClosed, Drop
  <2>3. CASE Take(c)
    BY <2>3 DEF Take, Requests
  <2>4. CASE SignOn(c)
    BY <2>4 DEF SignOn
  <2>5. ctx[c] \in Contexts /\ NilCtx \in Contexts /\ Background \in Contexts
    BY DEF Contexts
  <2>6. CASE Ready(c) \/ SelfInfo(c)
    BY <2>1, <2>5, <2>6 DEF Ready, SelfInfo, WriteOnline
  <2>7. CASE SetInfo(c)
    BY <2>1, <2>5, <2>7 DEF SetInfo
  <2>8. CASE AddName(c)
    BY <2>1, <2>5, <2>8 DEF AddName
  <2>9. CASE Reply(c)
    BY <2>1, <2>5, <2>9 DEF Reply
  <2>10. CASE Authorize(c)
    BY <2>1, <2>5, <2>10 DEF Authorize
  <2>11. CASE SetAway(c) \/ Disconnect(c)
    BY <2>11 DEF SetAway, Disconnect
  <2>12. CASE RemoveSession(c)
    BY <2>12 DEF RemoveSession
  <2> QED
    BY <1>3, <2>2, <2>3, <2>4, <2>6, <2>7, <2>8, <2>9, <2>10, <2>11, <2>12
       DEF Local, Panic
<1> QED
  BY <1>1, <1>2, <1>3

-----------------------------------------------------------------------------
(***************************************************************************)
(* The inductive invariant.                                                *)
(***************************************************************************)

\* At first the process is down and nobody has signed on.
LEMMA InitIInv == Init => IInv
<1> SUFFICES ASSUME Init PROVE IInv
  OBVIOUS
<1> USE HandlerAssumption DEF Init
<1>1. TypeOK
  <2>1. pc \in [Conns -> Labels]
    BY LabelFacts
  <2>2. buf \in [Conns -> 0..MaxBuf] /\ names \in [Conns -> 0..MaxNames]
    OBVIOUS
  <2>3. ctx \in [Conns -> Contexts] /\ after \in [Conns -> Contexts \cup {Return}]
    BY DEF Contexts
  <2>4. onlineCh \in Seq(Users) /\ Len(onlineCh) <= ChanCap
    BY DEF ChanCap
  <2>5. boots \in 0..MaxBoots /\ awayFailures \in 0..MaxAwayFailures
    OBVIOUS
  <2> QED
    BY <2>1, <2>2, <2>3, <2>4, <2>5 DEF TypeOK
<1>2. \A c \in Conns : Shape(c)
  BY DEF Shape, UserLabels
<1>3. OnlineHasClosing /\ OnlineHasOrigin /\ EntryHasHandler
  BY DEF OnlineHasClosing, OnlineHasOrigin, EntryHasHandler
<1>4. RequesterRegistered
  BY DEF RequesterRegistered, InRequest
<1>5. OnlineHasRetry /\ \A c \in Conns : OneAtATime(c)
  BY DEF OnlineHasRetry, OneAtATime, InRequest
<1> QED
  BY <1>1, <1>2, <1>3, <1>4, <1>5 DEF IInv

\* The end of the process, its start, and the draining of the channel.
LEMMA ProcessStepIInv ==
    ASSUME IInv, Stop \/ Start \/ Drain \/ UNCHANGED vars
    PROVE  IInv'
<1> USE DEF IInv
<1>1. TypeOK'
  BY StopType, TypeStep DEF Next
<1>2. CASE Stop
  <2> USE <1>2 DEF Stop
  <2>1. \A c \in Conns : Shape(c)'
    BY HandlerAssumption DEF Shape, UserLabels, TypeOK
  <2>2. OnlineHasClosing' /\ OnlineHasOrigin' /\ EntryHasHandler'
    BY DEF OnlineHasClosing, OnlineHasOrigin, EntryHasHandler
  <2>3. RequesterRegistered'
    BY DEF RequesterRegistered, InRequest
  <2>4. OnlineHasRetry' /\ \A c \in Conns : OneAtATime(c)'
    BY HandlerAssumption DEF OnlineHasRetry, OneAtATime, InRequest, TypeOK
  <2> QED
    BY <1>1, <2>1, <2>2, <2>3, <2>4
<1>3. CASE Start \/ Drain \/ UNCHANGED vars
  <2> USE <1>3 DEF Start, Drain, vars, process, local, tableVars
  <2>1. \A c \in Conns : Shape(c)'
    BY DEF Shape
  <2>2. OnlineHasClosing' /\ OnlineHasOrigin'
    BY DEF OnlineHasClosing, OnlineHasOrigin, Finished
  <2>3. EntryHasHandler' /\ RequesterRegistered'
    BY DEF EntryHasHandler, RequesterRegistered, Lone
  <2>4. OnlineHasRetry'
    BY DEF OnlineHasRetry, Finished, TriedOnce
  <2>5. ~pipelined' => \A c \in Conns : OneAtATime(c)'
    BY DEF OneAtATime
  <2> QED
    BY <1>1, <2>1, <2>2, <2>3, <2>4, <2>5
<1> QED
  BY <1>2, <1>3

\* Whether clients wait for their answers does not change.
LEMMA PipelinedKept == [Next]_vars => pipelined' = pipelined
BY DEF Next, Start, Crash, Stop, Drain, Client, Accept, ReadData, HangUp,
       Local, ReadClosed, Panic, Drop, Take, SignOn, Ready, SelfInfo, WriteOnline, SetInfo,
       AddName, Reply, Authorize, Fail, SetAway, Disconnect, RemoveSession,
       Posting, AddPost, Post, PostAway, vars, process

\* A step of a handler.
LEMMA HandlerStepIInv ==
    ASSUME IInv, NEW c \in Conns, Client(c) \/ Local(c) \/ Posting(c), ~Stop
    PROVE  IInv'
<1> USE DEF IInv
<1>1. TypeOK'
  BY TypeStep DEF Next
<1>2. \A d \in Conns : Shape(d)'
  <2>1. Shape(c)'
    BY ShapeStep
  <2>2. ASSUME NEW d \in Conns, d # c PROVE Shape(d)'
    BY <2>2, Frame DEF Shape
  <2> QED
    BY <2>1, <2>2
<1>3. StatusEffect(c) /\ MapEffect(c)
  BY StatusStep, MapStep
<1>4. OnlineHasClosing'
  <2> SUFFICES ASSUME up', awayFailures' = 0, NEW u \in Users, status'[u] = "Online"
               PROVE  \E d \in Conns :
                        u \in authed'[d] /\ pc'[d] # "dead" /\ ~Finished(d, u)'
    BY DEF OnlineHasClosing
  <2>1. CASE status[u] = "Online"
    <3>1. PICK w \in Conns : u \in authed[w] /\ pc[w] # "dead" /\ ~Finished(w, u)
      BY <1>3, <2>1 DEF StatusEffect, OnlineHasClosing
    <3>2. CASE w = c
      BY <1>3, <3>1, <3>2 DEF StatusEffect
    <3>3. CASE w # c
      BY <3>1, <3>3, Frame DEF Finished
    <3> QED
      BY <3>2, <3>3
  <2>2. CASE status[u] # "Online"
    <3>1. ctx[c] = u /\ ctx'[c] = u /\ pc'[c] \in {"post", "reply"}
      BY <1>3, <2>2 DEF StatusEffect
    <3> QED
      BY <1>3, <3>1 DEF StatusEffect, Shape, Finished
  <2> QED
    BY <2>1, <2>2
<1>5. OnlineHasOrigin'
  <2> SUFFICES ASSUME up', NEW u \in Users, status'[u] = "Online"
               PROVE  \E d \in Conns : u \in authed'[d] /\ pc'[d] # "dead"
    BY DEF OnlineHasOrigin
  <2>1. CASE status[u] = "Online"
    <3>1. PICK w \in Conns : u \in authed[w] /\ pc[w] # "dead"
      BY <1>3, <2>1 DEF StatusEffect, OnlineHasOrigin
    <3> QED
      BY <1>3, <3>1, Frame DEF StatusEffect
  <2>2. CASE status[u] # "Online"
    BY <1>3, <2>2 DEF StatusEffect, Shape
  <2> QED
    BY <2>1, <2>2
<1>6. EntryHasHandler'
  <2> SUFFICES ASSUME NEW u \in Users, sessions'[u] # NoConn
               PROVE  /\ u \in authed'[sessions'[u]]
                      /\ pc'[sessions'[u]] \notin {"none", "dead"}
                      /\ ~(pc'[sessions'[u]] = "ret" /\ ctx'[sessions'[u]] = u)
    BY DEF EntryHasHandler
  <2>1. CASE sessions'[u] = c
    BY <1>3, <2>1, HandlerAssumption
       DEF MapEffect, EntryHasHandler, StatusEffect, TypeOK
  <2>2. CASE sessions'[u] # c
    <3>1. sessions'[u] = sessions[u] /\ sessions[u] \in Conns \ {c}
      BY <1>3, <2>2 DEF MapEffect, TypeOK
    <3> QED
      BY <3>1, <2>2, Frame DEF EntryHasHandler
  <2> QED
    BY <2>1, <2>2
<1>7. RequesterRegistered'
  <2> SUFFICES ASSUME NEW d \in Conns, NEW u \in Users, pc'[d] \in InRequest,
                      ctx'[d] = u, conn'[d] = "open", Lone(d, u)'
               PROVE  sessions'[u] = d
    BY DEF RequesterRegistered, InRequest, Labels
  <2>1. Lone(d, u)
    BY Frame, <1>3 DEF Lone, StatusEffect
  <2>2. CASE d = c
    BY <1>3, <2>1, <2>2 DEF MapEffect, RequesterRegistered
  <2>3. CASE d # c
    <3>1. sessions[u] = d
      BY <2>1, <2>3, Frame DEF RequesterRegistered
    <3>2. u \notin authed[c]
      BY <2>1, <2>3 DEF Lone
    <3> QED
      BY <1>3, <3>1, <3>2 DEF MapEffect
  <2> QED
    BY <2>2, <2>3
<1>8. CASE pipelined
  <2>1. pipelined'
    BY <1>8, PipelinedKept DEF Next
  <2> QED
    BY <1>1, <1>2, <1>4, <1>5, <1>6, <1>7, <2>1 DEF OnlineHasRetry
<1>9. CASE ~pipelined
  <2>1. OneAtATime(c)'
    BY <1>9, OneAtATimeStep
  <2>2. ASSUME NEW d \in Conns, d # c PROVE OneAtATime(d)'
    BY <1>9, <2>2, Frame DEF OneAtATime
  <2>3. OnlineHasRetry'
    BY <1>9, OnlineHasRetryStep
  <2> QED
    BY <1>1, <1>2, <1>4, <1>5, <1>6, <1>7, <2>1, <2>2, <2>3
<1> QED
  BY <1>8, <1>9

\* The strengthened invariant holds of the handlers for every number of
\* users and connections and all bounds.
THEOREM Inductive == Spec => []IInv
<1>1. ASSUME IInv, [Next]_vars PROVE IInv'
  BY <1>1, ProcessStepIInv, HandlerStepIInv DEF Next, Crash
<1> QED
  BY <1>1, InitIInv, PTL DEF Spec

\* The variables of the handlers keep their types (the channel its capacity).
THEOREM TypeCorrect == Spec => []TypeOK
BY Inductive, PTL DEF IInv

\* When all handlers of a user have returned from signing it off, it is away
\* in the database and absent from the session map.
THEOREM Settled == Spec => []SettledOffline
<1>1. IInv => SettledOffline
  <2> SUFFICES ASSUME IInv, up, awayFailures = 0, NEW u \in Users, SignedOff(u)
               PROVE  status[u] = "Away" /\ sessions[u] = NoConn
    BY DEF SettledOffline
  <2>1. status[u] # "Online"
    BY DEF IInv, OnlineHasClosing, SignedOff, Finished
  <2>2. sessions[u] = NoConn
    BY DEF IInv, TypeOK, EntryHasHandler, SignedOff
  <2> QED
    BY <2>1, <2>2 DEF IInv, TypeOK
<1> QED
  BY <1>1, Inductive, PTL

\* One SetAway that fails is repaired by the same handler, if clients wait
\* for their answers.
THEOREM Repaired == Spec => []SettledAway
<1>1. IInv => SettledAway
  <2> SUFFICES ASSUME IInv, up, ~pipelined, awayFailures <= 1,
                      NEW u \in Users, SignedOff(u)
               PROVE  status[u] = "Away"
    BY DEF SettledAway
  <2>1. status[u] # "Online"
    BY DEF IInv, OnlineHasRetry, SignedOff, Finished
  <2> QED
    BY <2>1 DEF IInv, TypeOK
<1> QED
  BY <1>1, Inductive, PTL

\* A running server shows a user online only on the word of a connection it
\* accepted itself.
THEOREM Origin == Spec => []OnlineHasOrigin
BY Inductive, PTL DEF IInv

\* The lone connection of a user is registered whenever it handles a request
\* on an open socket.
THEOREM Registered == Spec => []RequesterRegistered
BY Inductive, PTL DEF IInv

-----------------------------------------------------------------------------
(***************************************************************************)
(* The handlers implement SessionTable.                                    *)
(***************************************************************************)

\* Every step of the handlers is a step of the session table or invisible
\* there: it changes at most one of the map, the sockets and the names.
LEMMA HandlerStepTable ==
    ASSUME IInv, NEW c \in Conns, Client(c) \/ Local(c) \/ Posting(c), ~Stop
    PROVE  [Table!TableNext]_tableVars
<1> USE DEF IInv, TypeOK, At, Shape, UserLabels, tableVars, Table!TableNext
<1>1. CASE Client(c)
  BY <1>1 DEF Client, Accept, ReadData, HangUp, Table!Accept
<1>2. CASE Posting(c)
  BY <1>2 DEF Posting, AddPost, Post, PostAway
<1>3. CASE Local(c)
  <2>1. ASSUME pc[c] \notin {"none", "dead"}, conn' = [conn EXCEPT ![c] = "closed"],
               UNCHANGED <<sessions, authed>>
        PROVE  [Table!TableNext]_tableVars
    <3>1. CASE conn[c] = "open"
      BY <2>1, <3>1 DEF Table!Disconnect
    <3>2. CASE conn[c] = "closed"
      BY <2>1, <3>2
    <3> QED
      BY <2>1, <3>1, <3>2
  <2>2. ASSUME NEW new, Fail(c, new), pc[c] \notin {"none", "dead"}
        PROVE  [Table!TableNext]_tableVars
    BY <2>1, <2>2 DEF Fail
  <2>3. CASE ReadClosed(c) \/ Drop(c) \/ SetAway(c)
    BY <2>3 DEF ReadClosed, Drop, SetAway
  <2>4. CASE Take(c)
    <3>1. CASE ctx[c] \in Users
      BY <2>4, <3>1 DEF Take, Table!SetSession, Table!Served
    <3>2. CASE ctx[c] \notin Users
      BY <2>4, <3>2 DEF Take
    <3> QED
      BY <3>1, <3>2
  <2>5. CASE SignOn(c)
    BY <2>5 DEF SignOn, Table!Authenticate, Table!Served
  <2>6. CASE Ready(c) \/ SelfInfo(c)
    BY <2>2, <2>6 DEF Ready, SelfInfo, WriteOnline
  <2>7. CASE SetInfo(c) \/ AddName(c) \/ Reply(c)
    BY <2>2, <2>7 DEF SetInfo, AddName, Reply
  <2>8. CASE Authorize(c)
    BY <2>1, <2>2, <2>8 DEF Authorize
  <2>9. CASE Disconnect(c)
    BY <2>1, <2>9 DEF Disconnect
  <2>10. CASE RemoveSession(c)
    BY <2>10 DEF RemoveSession, Table!RemoveSession
  <2> QED
    BY <1>3, <2>3, <2>4, <2>5, <2>6, <2>7, <2>8, <2>9, <2>10 DEF Local, Panic
<1> QED
  BY <1>1, <1>2, <1>3

\* The delivery goroutines may rely on SessionTable: every behaviour of the
\* handlers is one of the session table.
THEOREM Refinement == Spec => ImplementsTable
<1>1. Init => Table!TableInit
  BY DEF Init, Table!TableInit
<1>2. IInv /\ [Next]_vars => [Table!TableNext]_(Table!tableVars)
  <2> SUFFICES ASSUME IInv, [Next]_vars PROVE [Table!TableNext]_tableVars
    BY DEF tableVars, Table!tableVars
  <2>1. ASSUME Stop PROVE Table!TableNext
    BY <2>1 DEF Stop, Table!TableNext, Table!Halt
  <2>2. ASSUME Start \/ Drain \/ UNCHANGED vars PROVE UNCHANGED tableVars
    BY <2>2 DEF Start, Drain, vars
  <2> QED
    BY <2>1, <2>2, HandlerStepTable DEF Next, Crash
<1> QED
  BY <1>1, <1>2, Inductive, PTL DEF Spec, ImplementsTable, Table!TableSpec

=============================================================================
