---------------------- MODULE OnlineNotification_proofs ----------------------
(***************************************************************************)
(* Proofs about OnlineNotification, for every set of users, connections,   *)
(* requests, faults and initial lists, and every bound.                    *)
(***************************************************************************)
EXTENDS OnlineNotification, SessionTable_proofs, SequenceTheorems

\* A step of the handler of c, and what may start one.
Step(c) == Client(c) \/ Handler(c) \/ Post(c) \/ PostAway(c)

\* Objects are made and changed, but keep their place and their user.
Grows ==
    /\ objs' \in Seq(Objects)
    /\ Len(objs) <= Len(objs') /\ Len(objs') <= MaxObjs
    /\ \A i \in 1..Len(objs) : objs'[i].user = objs[i].user

\* The part of References about connection c.
Refers(c) ==
    /\ own[c] <= Len(objs) /\ pend[c] <= Len(objs)
    /\ own[c] # 0 => Served(c) /\ UserOf(c) \in authed[c]
    /\ stage[c] # "idle" => own[c] # 0
    /\ stage[c] \in {"count", "insert", "post"} => pend[c] # 0
    /\ conn[c] = "none" => authed[c] = {}

-----------------------------------------------------------------------------
(***************************************************************************)
(* What the steps do, one fact at a time.                                  *)
(***************************************************************************)

\* A handler at work has a user, and what it is about to post is an object.
LEMMA WorkerFacts ==
    ASSUME TypeOK, References, NEW c \in Conns
    PROVE  /\ Refers(c)
           /\ own[c] # 0 => /\ own[c] \in 1..Len(objs)
                            /\ objs[own[c]] \in Objects /\ UserOf(c) \in Users
           /\ pend[c] # 0 => pend[c] \in 1..Len(objs) /\ objs[pend[c]] \in Objects
<1>1. Refers(c)
  BY DEF References, Refers
<1>2. own[c] \in Nat /\ pend[c] \in Nat /\ objs \in Seq(Objects)
  BY NotificationAssumption DEF TypeOK
<1>3. \A i \in 1..Len(objs) : objs[i] \in Objects
  BY <1>2, ElementOfSeq
<1>4. \A x \in Objects : x.user \in Users
  BY DEF Objects
<1>5. own[c] <= Len(objs) /\ pend[c] <= Len(objs)
  BY <1>1 DEF Refers
<1>6. /\ own[c] # 0 => own[c] \in 1..Len(objs)
      /\ pend[c] # 0 => pend[c] \in 1..Len(objs)
  BY <1>2, <1>5
<1> QED
  BY <1>1, <1>3, <1>4, <1>6 DEF UserOf

\* Changing a status leaves places and users alone.
LEMMA SetStatusFacts ==
    ASSUME TypeOK, References, NEW c \in Conns, own[c] # 0,
           NEW s \in Statuses, SetStatus(c, s)
    PROVE  Grows
<1>1. own[c] \in 1..Len(objs) /\ objs[own[c]] \in Objects /\ objs \in Seq(Objects)
  BY WorkerFacts DEF TypeOK
<1> DEFINE e == [objs[own[c]] EXCEPT !.status = s]
<1>2. e \in Objects /\ e.user = objs[own[c]].user
  BY <1>1 DEF Objects
<1>3. objs' = [objs EXCEPT ![own[c]] = e]
  BY DEF SetStatus
<1> HIDE DEF e
<1>4. objs' \in Seq(Objects) /\ Len(objs') = Len(objs)
  BY <1>1, <1>2, <1>3, ExceptSeq
<1>5. \A i \in 1..Len(objs) : objs'[i].user = objs[i].user
  BY <1>1, <1>2, <1>3
<1> QED
  BY <1>4, <1>5 DEF Grows, TypeOK

\* A new object goes behind the others.
LEMMA AppendFacts ==
    ASSUME TypeOK, Len(objs) < MaxObjs, NEW u \in Users,
           objs' = Append(objs, [user |-> u, status |-> status[u]])
    PROVE  Grows /\ Len(objs') = Len(objs) + 1 /\ objs'[Len(objs) + 1].user = u
<1>1. objs \in Seq(Objects) /\ MaxObjs \in Nat
  BY NotificationAssumption DEF TypeOK
<1>2. [user |-> u, status |-> status[u]] \in Objects
  BY DEF TypeOK, Objects
<1> QED
  BY <1>1, <1>2 DEF Grows

\* What does not change objs keeps places and users.
LEMMA SameObjects ==
    ASSUME TypeOK, UNCHANGED objs
    PROVE  Grows
BY DEF TypeOK, Grows

-----------------------------------------------------------------------------
(***************************************************************************)
(* Frames.                                                                 *)
(***************************************************************************)

\* A handler's step leaves the routine and the other handlers alone.
LEMMA StepFrame ==
    ASSUME TypeOK, NEW c \in Conns, Step(c)
    PROVE  /\ UNCHANGED <<routine, obj, found, todo, target, heard, lost>>
           /\ \A d \in Conns \ {c} :
                 /\ own'[d] = own[d] /\ pend'[d] = pend[d] /\ stage'[d] = stage[d]
                 /\ conn'[d] = conn[d] /\ authed'[d] = authed[d] /\ said'[d] = said[d]
<1> USE DEF TypeOK, TableTypeOK, tableVars, rows, handlers, delivery, history, Goto
<1>1. CASE Client(c)
  <2>1. CASE Connect(c) \/ Take(c) \/ ReadClosed(c)
    BY <2>1 DEF Connect, Accept, Take, SetSession, ReadClosed
  <2>2. ASSUME NEW u \in Users, SignOn(c, u)
        PROVE  /\ UNCHANGED <<routine, obj, found, todo, target, heard, lost, conn, stage, pend>>
               /\ \A d \in Conns \ {c} :
                     own'[d] = own[d] /\ authed'[d] = authed[d] /\ said'[d] = said[d]
    BY <2>2 DEF SignOn, Authenticate
  <2> QED
    BY <1>1, <2>1, <2>2 DEF Client
<1>2. CASE Ready(c) \/ SelfInfo(c) \/ SetInfo(c) \/ AddBuddy(c)
  BY <1>2 DEF Ready, SelfInfo, SetInfo, AddBuddy
<1>3. CASE CountBuddy(c) \/ InsertBuddy(c) \/ RemoveBuddy(c)
  BY <1>3 DEF CountBuddy, InsertBuddy, RemoveBuddy
<1>4. CASE Fail(c)
  BY <1>4 DEF Fail
<1>5. CASE SetAway(c) \/ Close(c) \/ Remove(c)
  BY <1>5 DEF SetAway, Close, Remove, RemoveSession
<1>6. CASE Post(c) \/ PostAway(c)
  BY <1>6 DEF Post, PostAway, Send
<1> QED
  BY <1>1, <1>2, <1>3, <1>4, <1>5, <1>6 DEF Step, Handler

\* The routine leaves the handlers, the map and the tables alone.
LEMMA RoutineFrame ==
    ASSUME Routine
    PROVE  UNCHANGED <<tableVars, rows, handlers, listed, added, said, overlap>>
BY DEF Routine, Receive, Query, Lookup, Write, WriteAway, Self, Finish, List, history

\* Users are kept by every step but the end of the process.
LEMMA Growth ==
    ASSUME TypeOK, References, NEW c \in Conns, Step(c)
    PROVE  Grows
<1>1. Refers(c)
  BY WorkerFacts
<1>2. ASSUME NEW s \in Statuses, SetStatus(c, s), stage[c] # "idle" PROVE Grows
  BY <1>1, <1>2, SetStatusFacts DEF Refers
<1>3. CASE Ready(c) \/ SelfInfo(c)
  BY <1>2, <1>3 DEF Ready, SelfInfo, Statuses
<1>4. CASE SetInfo(c)
  BY <1>2, <1>4 DEF SetInfo
<1>5. CASE SetAway(c)
  BY <1>2, <1>5 DEF SetAway, Statuses
<1>6. CASE AddBuddy(c)
  BY <1>6, AppendFacts, SameObjects DEF AddBuddy
<1>7. CASE Fail(c)
  BY <1>2, <1>7, SameObjects DEF Fail, Statuses
<1>8. ASSUME NEW u \in Users, SignOn(c, u) PROVE Grows
  BY <1>8, AppendFacts DEF SignOn
<1>9. CASE CountBuddy(c) \/ InsertBuddy(c) \/ RemoveBuddy(c) \/ Post(c) \/ PostAway(c)
  BY <1>9, SameObjects DEF CountBuddy, InsertBuddy, RemoveBuddy, Post, PostAway, rows
<1>10. CASE Connect(c) \/ Take(c) \/ ReadClosed(c) \/ Close(c) \/ Remove(c)
  BY <1>10, SameObjects DEF Connect, Take, ReadClosed, Close, Remove, rows
<1> QED
  BY <1>3, <1>4, <1>5, <1>6, <1>7, <1>8, <1>9, <1>10 DEF Step, Handler, Client

\* Histories only grow.
LEMMA HistoryGrows ==
    ASSUME TypeOK, [Next]_vars
    PROVE  /\ \A c \in Conns : authed[c] \subseteq authed'[c]
           /\ listed \subseteq listed' /\ added \subseteq added'
           /\ overlap \subseteq overlap'
<1> USE DEF TypeOK, TableTypeOK, tableVars, history
<1>1. ASSUME NEW c \in Conns, Client(c)
      PROVE  /\ \A d \in Conns : authed[d] \subseteq authed'[d]
             /\ listed \subseteq listed' /\ added \subseteq added'
             /\ overlap \subseteq overlap'
  <2>1. ASSUME NEW u \in Users, SignOn(c, u)
        PROVE  /\ \A d \in Conns : authed[d] \subseteq authed'[d]
               /\ listed \subseteq listed' /\ added \subseteq added'
               /\ overlap \subseteq overlap'
    BY <2>1 DEF SignOn, Authenticate
  <2>2. CASE Connect(c) \/ Take(c) \/ ReadClosed(c)
    BY <2>2 DEF Connect, Accept, Take, SetSession, ReadClosed
  <2> QED
    BY <1>1, <2>1, <2>2 DEF Client
<1>2. ASSUME NEW c \in Conns, Handler(c) \/ Post(c) \/ PostAway(c)
      PROVE  /\ \A d \in Conns : authed[d] \subseteq authed'[d]
             /\ listed \subseteq listed' /\ added \subseteq added'
             /\ overlap \subseteq overlap'
  <2>1. /\ UNCHANGED <<authed, overlap>>
        /\ listed \subseteq listed' /\ added \subseteq added'
    BY <1>2 DEF Handler, Post, PostAway, Ready, SelfInfo, SetInfo, AddBuddy, CountBuddy,
                InsertBuddy, RemoveBuddy, Fail, SetAway, Close, Remove, RemoveSession
  <2> QED
    BY <2>1
<1>3. CASE Restart
  BY <1>3 DEF Restart, Halt
<1>4. CASE Routine
  BY <1>4, RoutineFrame
<1>5. CASE UNCHANGED vars
  BY <1>5 DEF vars
<1> QED
  BY <1>1, <1>2, <1>3, <1>4, <1>5 DEF Next

\* The handlers do to the map and the sockets what SessionTable allows.
LEMMA TableStep ==
    ASSUME TypeOK, References, [Next]_vars
    PROVE  [TableNext]_tableVars
<1>1. ASSUME NEW c \in Conns, Client(c) PROVE TableNext \/ UNCHANGED tableVars
  <2>1. own[c] # 0 => UserOf(c) \in Users
    BY WorkerFacts
  <2> QED
    BY <1>1, <2>1 DEF Client, Connect, Take, ReadClosed, SignOn, TableNext
<1>2. ASSUME NEW c \in Conns, conn[c] \in {"open", "closed"},
             conn' = [conn EXCEPT ![c] = "closed"], UNCHANGED <<sessions, authed>>
      PROVE  TableNext \/ UNCHANGED tableVars
  <2>1. CASE conn[c] = "open"
    BY <1>2, <2>1 DEF TableNext, Disconnect
  <2>2. CASE conn[c] = "closed"
    BY <1>2, <2>2 DEF tableVars, TypeOK, TableTypeOK
  <2> QED
    BY <1>2, <2>1, <2>2
<1>3. ASSUME NEW c \in Conns, Handler(c) PROVE TableNext \/ UNCHANGED tableVars
  <2>1. stage[c] # "idle" => conn[c] \in {"open", "closed"} /\ UserOf(c) \in Users
    BY WorkerFacts DEF Refers, Served
  <2>2. CASE Fail(c)
    BY <2>1, <2>2, <1>2 DEF Fail
  <2>3. CASE Close(c)
    BY <2>1, <2>3, <1>2 DEF Close
  <2>4. CASE Remove(c)
    BY <2>1, <2>4 DEF Remove, TableNext
  <2> QED
    BY <1>3, <2>2, <2>3, <2>4 DEF Handler, Ready, SelfInfo, SetInfo, AddBuddy,
           CountBuddy, InsertBuddy, RemoveBuddy, SetAway
<1>4. ASSUME NEW c \in Conns, Post(c) \/ PostAway(c) PROVE UNCHANGED tableVars
  BY <1>4 DEF Post, PostAway
<1>5. CASE Restart
  BY <1>5 DEF Restart, TableNext
<1>6. CASE Routine
  BY <1>6, RoutineFrame
<1>7. CASE UNCHANGED vars
  BY <1>7 DEF vars
<1> QED
  BY <1>1, <1>3, <1>4, <1>5, <1>6, <1>7 DEF Next

-----------------------------------------------------------------------------
(***************************************************************************)
(* Types.                                                                  *)
(***************************************************************************)

\* Sending on the channel and receiving from it keep its type and capacity.
LEMMA ChannelType ==
    ASSUME TypeOK, NEW c \in Conns, NEW id \in 1..Len(objs)
    PROVE  /\ Send(c, id) => /\ onlineCh' \in Seq(Ids) /\ Len(onlineCh') <= ChanCap
                             /\ said' \in [Conns -> Heard]
           /\ onlineCh # <<>> => /\ Head(onlineCh) \in Ids
                                 /\ Tail(onlineCh) \in Seq(Ids)
                                 /\ Len(Tail(onlineCh)) <= ChanCap
<1>1. onlineCh \in Seq(Ids) /\ Len(onlineCh) <= ChanCap /\ MaxObjs \in Nat
  BY NotificationAssumption DEF TypeOK
<1>2. id \in Ids
  BY <1>1 DEF TypeOK, Ids
<1>3. objs[id].status \in Heard
  <2>1. objs[id] \in Objects
    BY ElementOfSeq DEF TypeOK
  <2> QED
    BY <2>1 DEF Objects, Heard
<1>4. Send(c, id) => onlineCh' \in Seq(Ids) /\ Len(onlineCh') <= ChanCap
  BY <1>1, <1>2 DEF Send, ChanCap
<1>5. Send(c, id) => said' \in [Conns -> Heard]
  BY <1>3 DEF Send, TypeOK
<1>6. onlineCh # <<>> => /\ Head(onlineCh) \in Ids
                         /\ Tail(onlineCh) \in Seq(Ids)
                         /\ Len(Tail(onlineCh)) <= ChanCap
  BY <1>1 DEF ChanCap
<1> QED
  BY <1>4, <1>5, <1>6

\* The labels, so that the proofs need not expand the set.
LEMMA StageFacts ==
    /\ Requests \subseteq Stages /\ Requested \subseteq Stages
    /\ {"idle", "add", "unlist", "away", "count", "insert"} \subseteq Stages
    /\ {"post", "postaway", "disc", "remove", "ret"} \subseteq Stages
BY NotificationAssumption DEF Stages, Requests

\* Those who list u are users, and have u on their lists.
LEMMA WatchersFacts ==
    ASSUME TypeOK, NEW u \in Users
    PROVE  /\ Watchers(u) \subseteq Rows
           /\ \A r \in Watchers(u) : <<r.user, u>> \in Pairs /\ lists[<<r.user, u>>] > 0
<1> SUFFICES ASSUME NEW r \in Watchers(u)
             PROVE  r \in Rows /\ <<r.user, u>> \in Pairs /\ lists[<<r.user, u>>] > 0
  OBVIOUS
<1>1. PICK w \in Users : r \in {[user |-> w, status |-> status[w], row |-> n] : n \in 1..lists[<<w, u>>]}
  BY DEF Watchers
<1>2. PICK n \in 1..lists[<<w, u>>] : r = [user |-> w, status |-> status[w], row |-> n]
  BY <1>1
<1>3. lists[<<w, u>>] \in Nat /\ status[w] \in Statuses /\ <<w, u>> \in Pairs
  BY DEF TypeOK, Pairs
<1> QED
  BY <1>2, <1>3 DEF Rows

\* The handlers keep the types.
LEMMA HandlerTypes ==
    ASSUME TypeOK, References, NEW c \in Conns, Step(c), TableTypeOK'
    PROVE  TypeOK'
<1>1. Grows /\ Refers(c) /\ MaxObjs \in Nat
  BY Growth, WorkerFacts, NotificationAssumption
<1>2. /\ own[c] # 0 => own[c] \in 1..Len(objs)
      /\ pend[c] # 0 => pend[c] \in 1..Len(objs)
  BY WorkerFacts
<1>3. objs' \in Seq(Objects) /\ Len(objs') <= MaxObjs
  BY <1>1 DEF Grows
<1> USE DEF TypeOK, Goto, history, handlers, rows, delivery
<1>4. ASSUME NEW u \in Users, SignOn(c, u) PROVE TypeOK'
  <2>1. own' \in [Conns -> 0..MaxObjs]
    BY <1>1, <1>4 DEF SignOn
  <2>2. said' \in [Conns -> Heard] /\ overlap' \in SUBSET Users
    BY <1>4 DEF SignOn, Heard
  <2> QED
    BY <1>3, <1>4, <2>1, <2>2 DEF SignOn
<1>5. CASE Connect(c) \/ Take(c) \/ ReadClosed(c)
  BY <1>5, StageFacts DEF Connect, Take, ReadClosed
<1>6. CASE Ready(c) \/ SelfInfo(c) \/ SetInfo(c)
  <2>1. CASE Ready(c)
    BY <2>1, <1>3, StageFacts DEF Ready, Statuses
  <2>2. CASE SelfInfo(c)
    BY <2>2, <1>3, StageFacts DEF SelfInfo, Statuses, Heard
  <2>3. CASE SetInfo(c)
    BY <2>3, <1>3, StageFacts DEF SetInfo
  <2> QED
    BY <1>6, <2>1, <2>2, <2>3
<1>7. CASE AddBuddy(c)
  <2>1. Len(objs) < MaxObjs => Len(objs) + 1 \in 0..MaxObjs
    BY <1>1
  <2>2. pend' \in [Conns -> 0..MaxObjs]
    BY <1>7, <2>1 DEF AddBuddy
  <2> QED
    BY <1>7, <1>3, <2>2, StageFacts DEF AddBuddy
<1>8. CASE CountBuddy(c)
  <2>1. pend' \in [Conns -> 0..MaxObjs]
    BY <1>8, <1>1 DEF CountBuddy
  <2>2. stage' \in [Conns -> Stages]
    BY <1>8, StageFacts DEF CountBuddy
  <2> QED
    BY <1>8, <2>1, <2>2 DEF CountBuddy
<1>9. CASE InsertBuddy(c)
  <2>1. stage[c] = "insert" /\ own[c] # 0 /\ pend[c] # 0
    BY <1>1, <1>9 DEF InsertBuddy, Refers
  <2>2. NewPair(c) \in Pairs
    BY <2>1, WorkerFacts DEF NewPair, Pairs, Objects
  <2>3. lists' \in [Pairs -> Nat]
    BY <1>9, <2>2 DEF InsertBuddy
  <2>4. listed' \in SUBSET Pairs /\ added' \in SUBSET listed'
    BY <1>9, <2>2 DEF InsertBuddy
  <2>5. stage' \in [Conns -> Stages]
    BY <1>9, StageFacts DEF InsertBuddy
  <2> QED
    BY <1>9, <2>3, <2>4, <2>5 DEF InsertBuddy
<1>10. CASE RemoveBuddy(c)
  <2>1. lists' \in [Pairs -> Nat]
    <3>1. ASSUME NEW p, lists' = [lists EXCEPT ![p] = 0] PROVE lists' \in [Pairs -> Nat]
      BY <3>1
    <3> QED
      BY <1>10, <3>1 DEF RemoveBuddy
  <2>2. stage' \in [Conns -> Stages]
    <3>1. \E l \in Stages : stage' = [stage EXCEPT ![c] = l]
      BY <1>10, StageFacts DEF RemoveBuddy
    <3> QED
      BY <3>1
  <2> QED
    BY <1>10, <2>1, <2>2 DEF RemoveBuddy
<1>11. CASE Fail(c)
  BY <1>11, <1>1, <1>3, StageFacts DEF Fail
<1>12. CASE SetAway(c) \/ Close(c) \/ Remove(c)
  BY <1>12, <1>3, StageFacts DEF SetAway, Close, Remove, Statuses
<1>13. CASE Post(c)
  <2>1. pend[c] \in 1..Len(objs)
    BY <1>13, <1>1, <1>2 DEF Post, Refers
  <2>2. /\ onlineCh' \in Seq(Ids) /\ Len(onlineCh') <= ChanCap
        /\ said' \in [Conns -> Heard]
    BY <1>13, <2>1, ChannelType DEF Post
  <2>3. stage' \in [Conns -> Stages]
    <3>1. \E l \in Stages : stage' = [stage EXCEPT ![c] = l]
      BY <1>13, StageFacts DEF Post
    <3> QED
      BY <3>1
  <2>4. pend' \in [Conns -> 0..MaxObjs]
    BY <1>13, <1>1 DEF Post
  <2> QED
    BY <1>13, <2>2, <2>3, <2>4 DEF Post
<1>14. CASE PostAway(c)
  <2>1. own[c] \in 1..Len(objs)
    BY <1>14, <1>1, <1>2 DEF PostAway, Refers
  <2>2. /\ onlineCh' \in Seq(Ids) /\ Len(onlineCh') <= ChanCap
        /\ said' \in [Conns -> Heard]
    BY <1>14, <2>1, ChannelType DEF PostAway
  <2> QED
    BY <1>14, <2>2, StageFacts DEF PostAway
<1> QED
  BY <1>4, <1>5, <1>6, <1>7, <1>8, <1>9, <1>10, <1>11, <1>12, <1>13, <1>14
     DEF Step, Client, Handler

\* The routine keeps the types.
LEMMA RoutineTypes ==
    ASSUME TypeOK, References, Routine
    PROVE  TypeOK'
<1>1. UNCHANGED <<tableVars, rows, handlers, listed, added, said, overlap>>
  BY RoutineFrame
<1>2. TableTypeOK'
  BY <1>1 DEF TypeOK, TableTypeOK, tableVars
<1>3. routine # "recv" => obj \in 1..Len(objs)
  <2>1. obj <= Len(objs) /\ (routine # "recv" => obj # 0)
    BY DEF References
  <2>2. obj \in Nat /\ Len(objs) \in Nat
    BY NotificationAssumption DEF TypeOK
  <2> QED
    BY <2>1, <2>2
<1>4. routine # "recv" => Subject \in Users
  <2>1. ASSUME routine # "recv" PROVE objs[obj] \in Objects
    BY <1>3, <2>1, ElementOfSeq DEF TypeOK
  <2> QED
    BY <2>1 DEF Subject, Objects
<1>5. \A r \in found : r.user \in Users /\ r.status \in Heard
  BY DEF TypeOK, Rows, Heard
<1>6. ASSUME NEW u \in Users, NEW s \in Heard, Tell(u, s)
      PROVE  heard' \in [Conns -> [Users -> Heard]] /\ lost' \in BOOLEAN
  <2>1. ASSUME NEW t PROVE [heard EXCEPT ![t][u] = s] \in [Conns -> [Users -> Heard]]
    BY DEF TypeOK
  <2>2. lost' \in BOOLEAN
    BY <1>6, Zenon DEF Tell, TypeOK
  <2>3. heard' \in [Conns -> [Users -> Heard]]
    <3>1. CASE heard' = [heard EXCEPT ![target][u] = s]
      BY <2>1, <3>1
    <3>2. CASE UNCHANGED heard
      BY <3>2 DEF TypeOK
    <3> QED
      BY <1>6, <3>1, <3>2 DEF Tell
  <2> QED
    BY <2>2, <2>3
<1> USE DEF TypeOK, RoutineStages
<1>7. CASE Receive
  <2>1. obj' \in 0..MaxObjs /\ onlineCh' \in Seq(Ids) /\ Len(onlineCh') <= ChanCap
    BY <1>7, NotificationAssumption DEF Receive, Ids, ChanCap
  <2> QED
    BY <1>7, <1>1, <1>2, <2>1 DEF Receive, rows, handlers, history
<1>8. CASE Query
  <2>1. found' \in SUBSET Rows /\ todo' \in SUBSET found'
    BY <1>8, <1>4, WatchersFacts DEF Query
  <2>2. obj' \in 0..MaxObjs
    BY <1>8, NotificationAssumption DEF Query
  <2>3. lost' \in BOOLEAN
    BY <1>8, Zenon DEF Query
  <2>4. routine' \in RoutineStages
    BY <1>8 DEF Query
  <2>5. UNCHANGED <<onlineCh, target, heard>>
    BY <1>8 DEF Query
  <2> QED
    BY <1>1, <1>2, <2>1, <2>2, <2>3, <2>4, <2>5 DEF rows, handlers
<1>9. CASE Lookup
  <2>1. target' \in Conns \cup {NoConn} /\ todo' \in SUBSET found
    BY <1>9, <1>5 DEF Lookup, TableTypeOK
  <2> QED
    BY <1>9, <1>1, <1>2, <2>1 DEF Lookup, rows, handlers, history
<1>10. CASE Write \/ WriteAway
  <2>1. Subject \in Users /\ {"Online", "Away"} \subseteq Heard
    BY <1>4, <1>10 DEF Write, WriteAway, Heard, Statuses
  <2>2. heard' \in [Conns -> [Users -> Heard]] /\ lost' \in BOOLEAN
    <3>1. CASE UNCHANGED <<heard, lost>>
      BY <3>1
    <3>2. CASE Tell(Subject, "Online") \/ Tell(Subject, "Away")
      BY <2>1, <3>2, <1>6
    <3> QED
      BY <1>10, <3>1, <3>2 DEF Write, WriteAway
  <2>3. /\ routine' \in RoutineStages /\ target' \in Conns \cup {NoConn}
        /\ UNCHANGED <<onlineCh, obj, found, todo>>
    BY <1>10 DEF Write, WriteAway
  <2> QED
    BY <1>1, <1>2, <2>2, <2>3 DEF rows, handlers
<1>11. CASE Self
  <2>1. target' \in Conns \cup {NoConn} /\ obj' \in 0..MaxObjs
    BY <1>11, <1>4, NotificationAssumption DEF Self, Finish, TableTypeOK
  <2> QED
    BY <1>11, <1>1, <1>2, <2>1 DEF Self, Finish, rows, handlers, history
<1>12. CASE List
  <2>1. heard' \in [Conns -> [Users -> Heard]] /\ lost' \in BOOLEAN
    BY <1>12, <1>5, <1>6 DEF List
  <2>2. obj' \in 0..MaxObjs
    BY <1>12, NotificationAssumption DEF List, Finish
  <2> QED
    BY <1>12, <1>1, <1>2, <2>1, <2>2 DEF List, Finish, rows, handlers
<1> QED
  BY <1>7, <1>8, <1>9, <1>10, <1>11, <1>12 DEF Routine

\* So does the end of the process.
LEMMA RestartTypes ==
    ASSUME TypeOK, Restart, TableTypeOK'
    PROVE  TypeOK'
<1>1. objs' \in Seq(Objects) /\ Len(objs') <= MaxObjs /\ 0 \in 0..MaxObjs
  BY NotificationAssumption DEF Restart
<1>2. onlineCh' \in Seq(Ids) /\ Len(onlineCh') <= ChanCap
  BY DEF Restart, ChanCap
<1> QED
  BY <1>1, <1>2, StageFacts DEF Restart, TypeOK, Statuses, RoutineStages, Heard

\* Every step keeps the types.
LEMMA TypeStep ==
    ASSUME TypeOK, References, [Next]_vars
    PROVE  TypeOK'
<1>1. TableTypeOK'
  BY TableStep, TableTypeStep DEF TypeOK
<1>2. CASE UNCHANGED vars
  BY <1>2 DEF vars, tableVars, rows, handlers, delivery, history, TypeOK, TableTypeOK
<1>3. CASE Restart
  BY <1>1, <1>3, RestartTypes
<1>4. CASE Routine
  BY <1>4, RoutineTypes
<1>5. ASSUME NEW c \in Conns, Step(c) PROVE TypeOK'
  BY <1>1, <1>5, HandlerTypes
<1> QED
  BY <1>2, <1>3, <1>4, <1>5 DEF Next, Step

-----------------------------------------------------------------------------
(***************************************************************************)
(* References.                                                             *)
(***************************************************************************)

\* A connection keeps its references when only other handlers move.
LEMMA RefersKept ==
    ASSUME TypeOK, References, Grows, NEW d \in Conns,
           own'[d] = own[d], pend'[d] = pend[d], stage'[d] = stage[d],
           conn'[d] = conn[d], authed'[d] = authed[d]
    PROVE  Refers(d)'
<1>1. Refers(d)
  BY WorkerFacts
<1>2. own[d] # 0 => objs'[own[d]].user = objs[own[d]].user
  BY WorkerFacts DEF Grows
<1>3. Len(objs) \in Nat /\ Len(objs') \in Nat /\ own[d] \in Nat /\ pend[d] \in Nat
  BY NotificationAssumption DEF TypeOK, Grows
<1>4. own[d] <= Len(objs') /\ pend[d] <= Len(objs')
  BY <1>1, <1>3 DEF Refers, Grows
<1> QED
  BY <1>1, <1>2, <1>4 DEF Refers, UserOf, Served

\* A handler that moves keeps its own references.
LEMMA RefersMoved ==
    ASSUME TypeOK, References, NEW c \in Conns, Step(c)
    PROVE  Refers(c)'
<1>1. Grows /\ Refers(c) /\ MaxObjs \in Nat
  BY Growth, WorkerFacts, NotificationAssumption
<1>2. own[c] # 0 => own[c] \in 1..Len(objs) /\ objs'[own[c]].user = UserOf(c)
  BY <1>1, WorkerFacts DEF Grows, UserOf
<1>3. /\ Len(objs) \in Nat /\ Len(objs') \in Nat /\ own[c] \in Nat /\ pend[c] \in Nat
      /\ Len(objs) <= Len(objs')
  BY <1>1 DEF TypeOK, Grows
<1>4. own[c] <= Len(objs') /\ pend[c] <= Len(objs')
  BY <1>1, <1>3 DEF Refers
<1> USE DEF TypeOK, TableTypeOK, Goto, Refers, UserOf, Served
<1>5. ASSUME NEW u \in Users, SignOn(c, u) PROVE Refers(c)'
  <2>1. own'[c] = Len(objs) + 1 /\ pend'[c] = pend[c] /\ stage'[c] = "idle"
    BY <1>5 DEF SignOn
  <2>2. Len(objs') = Len(objs) + 1 /\ objs'[own'[c]].user = u
    BY <1>5, <2>1, AppendFacts DEF SignOn
  <2>3. Served(c)' /\ u \in authed'[c]
    BY <1>5 DEF SignOn, Authenticate
  <2> QED
    BY <1>3, <1>4, <2>1, <2>2, <2>3
<1>6. CASE Connect(c)
  BY <1>6, <1>1 DEF Connect, Accept, rows, handlers
<1>7. CASE Take(c) \/ ReadClosed(c)
  <2>1. /\ own[c] # 0 /\ stage'[c] \in Requests \cup {"away"}
        /\ UNCHANGED <<objs, own, pend, conn, authed>>
    BY <1>7, NotificationAssumption DEF Take, SetSession, ReadClosed, rows, tableVars
  <2> QED
    BY <2>1, <1>1 DEF Requests
<1>8. CASE Ready(c) \/ SetInfo(c)
  <2>1. /\ own'[c] = own[c] /\ pend'[c] = own[c] /\ stage[c] # "idle"
        /\ UNCHANGED <<conn, authed>>
    BY <1>8 DEF Ready, SetInfo, tableVars
  <2> QED
    BY <2>1, <1>1, <1>2, <1>3, <1>4
<1>9. CASE SelfInfo(c) \/ RemoveBuddy(c) \/ SetAway(c) \/ PostAway(c)
  <2>1. /\ own'[c] = own[c] /\ pend'[c] = pend[c] /\ stage[c] # "idle"
        /\ stage'[c] \in {"idle", "unlist", "postaway", "disc"}
        /\ UNCHANGED <<conn, authed>>
    BY <1>9 DEF SelfInfo, RemoveBuddy, SetAway, PostAway, tableVars
  <2> QED
    BY <2>1, <1>1, <1>2, <1>4
<1>10. CASE AddBuddy(c)
  <2>1. \/ /\ pend'[c] = Len(objs) + 1 /\ Len(objs') = Len(objs) + 1
           /\ stage'[c] = "count"
        \/ pend'[c] = pend[c] /\ stage'[c] = "idle"
    BY <1>10, AppendFacts DEF AddBuddy
  <2>2. own'[c] = own[c] /\ stage[c] # "idle" /\ UNCHANGED <<conn, authed>>
    BY <1>10 DEF AddBuddy, tableVars
  <2> QED
    BY <2>1, <2>2, <1>1, <1>2, <1>3, <1>4
<1>11. CASE CountBuddy(c) \/ InsertBuddy(c)
  <2>1. /\ own'[c] = own[c] /\ stage[c] \in {"count", "insert"}
        /\ \/ pend'[c] = 0 /\ stage'[c] = "idle"
           \/ pend'[c] = pend[c] /\ stage'[c] \in {"insert", "post"}
        /\ UNCHANGED <<conn, authed>>
    BY <1>11 DEF CountBuddy, InsertBuddy, tableVars
  <2> QED
    BY <2>1, <1>1, <1>2, <1>3, <1>4
<1>12. CASE Fail(c)
  <2>1. /\ own'[c] = own[c] /\ stage[c] # "idle" /\ pend'[c] = 0 /\ stage'[c] = "away"
        /\ conn'[c] = "closed" /\ UNCHANGED authed
    BY <1>12 DEF Fail
  <2> QED
    BY <2>1, <1>1, <1>2, <1>3, <1>4
<1>13. CASE Close(c) \/ Remove(c)
  <2>1. /\ own'[c] = own[c] /\ pend'[c] = pend[c] /\ stage[c] # "idle"
        /\ stage'[c] \in {"remove", "ret", "idle"}
        /\ conn'[c] \in {conn[c], "closed"} /\ UNCHANGED authed
    BY <1>13 DEF Close, Remove, RemoveSession, handlers
  <2> QED
    BY <2>1, <1>1, <1>2, <1>4
<1>14. CASE Post(c)
  <2>1. /\ own'[c] = own[c] /\ pend'[c] = 0 /\ stage[c] # "idle"
        /\ stage'[c] \in {"add", "idle"} /\ UNCHANGED <<conn, authed>>
    BY <1>14 DEF Post, tableVars
  <2> QED
    BY <2>1, <1>1, <1>2, <1>3, <1>4
<1> QED
  BY <1>5, <1>6, <1>7, <1>8, <1>9, <1>10, <1>11, <1>12, <1>13, <1>14
     DEF Step, Client, Handler

\* Every step keeps the references.
LEMMA ReferencesStep ==
    ASSUME TypeOK, References, [Next]_vars
    PROVE  References'
<1> DEFINE Channel == \A i \in 1..Len(onlineCh) : onlineCh[i] <= Len(objs)
           Object == obj <= Len(objs) /\ (routine # "recv" => obj # 0)
<1>0. References = ((\A c \in Conns : Refers(c)) /\ Channel /\ Object)
  BY DEF References, Refers
<1>1. (\A c \in Conns : Refers(c)) /\ Channel /\ Object
  BY <1>0
<1>2. /\ onlineCh \in Seq(Ids) /\ Len(onlineCh) \in Nat /\ Len(objs) \in Nat
      /\ obj \in Nat /\ \A i \in 1..Len(onlineCh) : onlineCh[i] \in Nat
  <2>1. onlineCh \in Seq(Ids) /\ objs \in Seq(Objects) /\ obj \in 0..MaxObjs
    BY DEF TypeOK
  <2>2. \A i \in 1..Len(onlineCh) : onlineCh[i] \in Ids
    BY <2>1, ElementOfSeq
  <2> QED
    BY <2>1, <2>2, NotificationAssumption DEF Ids
<1>3. ASSUME NEW c \in Conns, Step(c) PROVE References'
  <2>1. Grows
    BY <1>3, Growth
  <2>2. Refers(c)'
    BY <1>3, RefersMoved
  <2>3. ASSUME NEW d \in Conns \ {c} PROVE Refers(d)'
    BY <1>3, <2>1, <2>3, StepFrame, RefersKept
  <2>4. Object'
    <3>1. obj' = obj /\ routine' = routine
      BY <1>3, StepFrame
    <3>2. Len(objs) <= Len(objs') /\ Len(objs') \in Nat
      BY <2>1 DEF Grows
    <3> QED
      BY <1>1, <1>2, <3>1, <3>2
  <2>5. ASSUME NEW id \in 1..Len(objs), Send(c, id) PROVE Channel'
    <3>1. id \in Ids /\ id <= Len(objs) /\ id \in Nat
      BY <1>2, NotificationAssumption DEF Ids, TypeOK
    <3>2. /\ Len(onlineCh') = Len(onlineCh) + 1 /\ onlineCh'[Len(onlineCh) + 1] = id
          /\ \A i \in 1..Len(onlineCh) : onlineCh'[i] = onlineCh[i]
      BY <1>2, <2>5, <3>1, AppendProperties DEF Send
    <3> HIDE DEF Channel
    <3>3. \A i \in 1..Len(onlineCh') : onlineCh'[i] <= Len(objs) /\ onlineCh'[i] \in Nat
      <4> SUFFICES ASSUME NEW i \in 1..Len(onlineCh')
                   PROVE  onlineCh'[i] <= Len(objs) /\ onlineCh'[i] \in Nat
        OBVIOUS
      <4>1. CASE i = Len(onlineCh) + 1
        BY <3>1, <3>2, <4>1
      <4>2. CASE i # Len(onlineCh) + 1
        <5>1. i \in 1..Len(onlineCh)
          BY <1>2, <3>2, <4>2
        <5>2. onlineCh[i] <= Len(objs)
          BY <1>1, <5>1 DEF Channel
        <5> QED
          BY <1>2, <3>2, <5>1, <5>2
      <4> QED
        BY <4>1, <4>2
    <3>4. Len(objs) <= Len(objs') /\ Len(objs') \in Nat
      BY <2>1 DEF Grows
    <3> QED
      BY <1>2, <3>3, <3>4 DEF Channel
  <2>6. CASE Post(c)
    <3>1. pend[c] \in 1..Len(objs)
      BY <2>6, WorkerFacts DEF Post, Refers
    <3> QED
      BY <1>0, <2>2, <2>3, <2>4, <2>5, <2>6, <3>1 DEF Post, References, Refers
  <2>7. CASE PostAway(c)
    <3>1. own[c] \in 1..Len(objs)
      BY <2>7, WorkerFacts DEF PostAway, Refers
    <3> QED
      BY <1>0, <2>2, <2>3, <2>4, <2>5, <2>7, <3>1 DEF PostAway, References, Refers
  <2>8. CASE UNCHANGED onlineCh
    <3>1. Len(objs) <= Len(objs') /\ Len(objs') \in Nat
      BY <2>1 DEF Grows
    <3>2. Channel'
      BY <1>1, <1>2, <2>8, <3>1
    <3> QED
      BY <2>2, <2>3, <2>4, <3>2 DEF References, Refers
  <2>9. ~Post(c) /\ ~PostAway(c) => UNCHANGED onlineCh
    BY <1>3 DEF Step, Client, Handler, Connect, Take, ReadClosed, SignOn, Ready,
         SelfInfo, SetInfo, AddBuddy, CountBuddy, InsertBuddy, RemoveBuddy, Fail,
         SetAway, Close, Remove
  <2> QED
    BY <2>6, <2>7, <2>8, <2>9
<1>4. CASE Routine
  <2>1. UNCHANGED <<tableVars, rows, handlers>>
    BY <1>4, RoutineFrame
  <2>2. \A c \in Conns : Refers(c)'
    BY <1>0, <2>1 DEF Refers, Served, UserOf, tableVars, rows, handlers
  <2>3. UNCHANGED objs
    BY <2>1 DEF rows
  <2>4. CASE Receive
    <3>1. Len(onlineCh) # 0 /\ onlineCh[1] <= Len(objs) /\ onlineCh[1] # 0
      <4>1. 1 \in 1..Len(onlineCh)
        BY <1>2, <2>4 DEF Receive
      <4>2. onlineCh[1] \in Ids
        BY <1>2, <4>1, ElementOfSeq
      <4> QED
        BY <1>1, <4>1, <4>2 DEF Ids
    <3>2. Object'
      BY <2>3, <2>4, <3>1 DEF Receive
    <3>3. Channel'
      BY <1>1, <1>2, <2>3, <2>4, <3>1 DEF Receive
    <3> QED
      BY <2>2, <3>2, <3>3 DEF References, Refers
  <2>5. CASE ~Receive
    <3>1. UNCHANGED onlineCh
      BY <1>4, <2>5 DEF Routine, Query, Lookup, Write, WriteAway, Self, List
    <3>2. Object'
      BY <1>1, <1>2, <1>4, <2>3, <2>5 DEF Routine, Query, Lookup, Write, WriteAway, Self,
         List, Finish
    <3> QED
      BY <1>0, <2>2, <2>3, <3>1, <3>2 DEF References, Refers
  <2> QED
    BY <2>4, <2>5
<1>5. CASE Restart
  <2>1. ASSUME NEW c \in Conns PROVE Refers(c)'
    <3>1. Refers(c)
      BY <1>0
    <3>2. own'[c] = 0 /\ pend'[c] = 0 /\ stage'[c] = "idle" /\ Len(objs') = 0
      BY <1>5 DEF Restart
    <3>3. authed' = authed /\ (conn'[c] = "none" => conn[c] = "none")
      BY <1>5 DEF Restart, Halt
    <3> QED
      BY <3>1, <3>2, <3>3 DEF Refers
  <2> QED
    BY <1>5, <2>1 DEF Restart, References, Refers
<1>6. CASE UNCHANGED vars
  <2>1. \A c \in Conns : Refers(c)'
    BY <1>0, <1>6 DEF Refers, Served, UserOf, vars, tableVars, rows, handlers
  <2> QED
    BY <1>0, <1>6, <2>1 DEF References, Refers, vars, rows, delivery
<1> QED
  BY <1>3, <1>4, <1>5, <1>6 DEF Next, Step

-----------------------------------------------------------------------------
(***************************************************************************)
(* Whom the routine tells of whom.                                         *)
(***************************************************************************)

\* The table holds only pairs that were listed at some time.
LEMMA ListedStep ==
    ASSUME TypeOK, References, \A p \in Pairs : lists[p] > 0 => p \in listed, [Next]_vars
    PROVE  \A p \in Pairs : lists'[p] > 0 => p \in listed'
<1>1. listed \subseteq listed'
  BY HistoryGrows
<1>2. ASSUME NEW c \in Conns, InsertBuddy(c)
      PROVE  \A p \in Pairs : lists'[p] > 0 => p \in listed'
  <2>1. \A p \in Pairs : p # NewPair(c) => lists'[p] = lists[p]
    BY <1>2 DEF InsertBuddy, TypeOK
  <2>2. NewPair(c) \in listed'
    BY <1>2 DEF InsertBuddy
  <2> QED
    BY <1>1, <2>1, <2>2
<1>3. ASSUME NEW c \in Conns, RemoveBuddy(c)
      PROVE  \A p \in Pairs : lists'[p] > 0 => p \in listed'
  <2>1. \A p \in Pairs : lists'[p] \in {lists[p], 0}
    BY <1>3 DEF RemoveBuddy, TypeOK
  <2> QED
    BY <1>1, <2>1
<1>4. ASSUME NEW c \in Conns, Step(c), ~InsertBuddy(c), ~RemoveBuddy(c)
      PROVE  UNCHANGED lists
  BY <1>4 DEF Step, Client, Handler, Connect, Take, ReadClosed, SignOn, Ready, SelfInfo,
       SetInfo, AddBuddy, CountBuddy, Fail, SetAway, Close, Remove, Post, PostAway, rows
<1>5. CASE Restart \/ Routine \/ UNCHANGED vars
  <2>1. UNCHANGED lists
    BY <1>5, RoutineFrame DEF Restart, vars, rows
  <2> QED
    BY <1>1, <2>1
<1> QED
  BY <1>1, <1>2, <1>3, <1>4, <1>5 DEF Next, Step

\* What the routine holds stays related to its subject.
LEMMA HeldStep ==
    ASSUME TypeOK, References, RegisteredOwner, HeldRelated, [Next]_vars
    PROVE  HeldRelated'
<1> USE DEF HeldRelated
<1>1. \A p \in Pairs : lists'[p] > 0 => p \in listed'
  BY ListedStep
<1>2. /\ listed \subseteq listed' /\ \A c \in Conns : authed[c] \subseteq authed'[c]
  BY HistoryGrows
<1>3. routine # "recv" => obj \in 1..Len(objs)
  BY NotificationAssumption DEF References, TypeOK
<1>4. routine # "recv" => Subject \in Users
  <2>1. ASSUME routine # "recv" PROVE objs[obj] \in Objects
    BY <1>3, <2>1, ElementOfSeq DEF TypeOK
  <2> QED
    BY <2>1 DEF Subject, Objects
<1>5. target # NoConn => target \in Conns
  BY DEF TypeOK
<1>6. ASSUME NEW c \in Conns, Step(c) PROVE HeldRelated'
  <2>1. UNCHANGED <<routine, obj, found, todo, target>> /\ Grows
    BY <1>6, StepFrame, Growth
  <2>2. routine # "recv" => Subject' = Subject
    BY <1>3, <2>1 DEF Subject, Grows
  <2>3. ASSUME routine \in {"recv", "query"} PROVE HeldRelated'
    BY <1>1, <2>1, <2>3
  <2>4. ASSUME routine \notin {"recv", "query"} PROVE HeldRelated'
    BY <1>1, <1>2, <1>5, <2>1, <2>2, <2>4
  <2> QED
    BY <2>3, <2>4
<1>7. CASE Routine
  <2>1. UNCHANGED <<sessions, authed, objs, listed>>
    BY <1>7, RoutineFrame DEF tableVars, rows
  <2>2. CASE Receive
    BY <1>1, <2>1, <2>2 DEF Receive
  <2>3. CASE Query
    <3>1. CASE routine' = "lookup"
      <4>1. obj' = obj /\ found' = Watchers(Subject) /\ Subject \in Users
        BY <1>4, <2>3, <3>1 DEF Query
      <4>2. \A r \in found' : <<r.user, Subject>> \in listed
        BY <4>1, WatchersFacts
      <4>3. Subject' = Subject
        BY <2>1, <4>1 DEF Subject
      <4> QED
        BY <1>1, <2>1, <3>1, <4>2, <4>3
    <3>2. CASE routine' = "recv"
      BY <1>1, <2>1, <2>3, <3>2 DEF Query
    <3> QED
      BY <2>3, <3>1, <3>2 DEF Query
  <2>4. CASE Lookup
    <3>1. UNCHANGED <<obj, found>> /\ Subject' = Subject /\ routine = "lookup"
      BY <2>1, <2>4 DEF Lookup, Subject
    <3>2. PICK w \in todo :
             IF w.status = "Online" /\ sessions[w.user] # NoConn
             THEN routine' = "write" /\ target' = sessions[w.user]
             ELSE UNCHANGED <<routine, target>>
      BY <2>4 DEF Lookup
    <3>3. w \in found /\ w.user \in Users
      BY <3>2 DEF TypeOK, Rows
    <3>4. CASE w.status = "Online" /\ sessions[w.user] # NoConn
      <4>1. w.user \in authed[sessions[w.user]]
        BY <3>3, <3>4 DEF RegisteredOwner
      <4> QED
        BY <1>1, <2>1, <3>1, <3>2, <3>3, <3>4, <4>1
    <3>5. CASE ~(w.status = "Online" /\ sessions[w.user] # NoConn)
      BY <1>1, <2>1, <3>1, <3>2, <3>5
    <3> QED
      BY <3>4, <3>5
  <2>5. CASE Write \/ WriteAway
    <3>1. /\ UNCHANGED <<obj, found>> /\ Subject' = Subject
          /\ routine \in {"write", "writeaway"}
          /\ routine' = "lookup" \/ (routine' = "writeaway" /\ target' = target)
      BY <2>1, <2>5 DEF Write, WriteAway, Subject
    <3> QED
      BY <1>1, <2>1, <3>1
  <2>6. CASE Self
    <3>1. CASE sessions[Subject] = NoConn
      BY <1>1, <2>1, <2>6, <3>1 DEF Self, Finish
    <3>2. CASE sessions[Subject] # NoConn
      <4>1. Subject \in authed[sessions[Subject]]
        BY <1>4, <2>6, <3>2 DEF RegisteredOwner, Self
      <4>2. /\ UNCHANGED <<obj, found>> /\ Subject' = Subject /\ routine = "lookup"
            /\ routine' = "list" /\ target' = sessions[Subject]
        BY <2>1, <2>6, <3>2 DEF Self, Subject
      <4> QED
        BY <1>1, <2>1, <3>2, <4>1, <4>2
    <3> QED
      BY <3>1, <3>2
  <2>7. CASE List
    <3>1. CASE UNCHANGED <<routine, obj, found, target>>
      BY <1>1, <2>1, <2>7, <3>1 DEF List, Subject
    <3>2. CASE Finish
      BY <1>1, <2>1, <3>2 DEF Finish
    <3> QED
      BY <2>7, <3>1, <3>2 DEF List
  <2> QED
    BY <1>7, <2>2, <2>3, <2>4, <2>5, <2>6, <2>7 DEF Routine
<1>8. CASE Restart
  BY <1>1, <1>8 DEF Restart
<1>9. CASE UNCHANGED vars
  BY <1>9 DEF vars, tableVars, rows, delivery, history, Subject
<1> QED
  BY <1>6, <1>7, <1>8, <1>9 DEF Next, Step

\* A step tells nobody of anybody unrelated.
LEMMA ToldStep ==
    ASSUME TypeOK, References, HeldRelated, ToldOfRelated, [Next]_vars
    PROVE  ToldOfRelated'
<1> DEFINE Related(c, u) == \E w \in authed[c] : <<w, u>> \in listed \/ <<u, w>> \in listed
<1>1. /\ listed \subseteq listed' /\ \A c \in Conns : authed[c] \subseteq authed'[c]
  BY HistoryGrows
<1>2. \A c \in Conns, u \in Users : Related(c, u) => Related(c, u)'
  BY <1>1
<1>3. ASSUME UNCHANGED heard PROVE ToldOfRelated'
  BY <1>2, <1>3 DEF ToldOfRelated
<1>4. ASSUME NEW v \in Users, NEW s, Tell(v, s), target \in Conns => Related(target, v)
      PROVE  ToldOfRelated'
  <2>1. CASE UNCHANGED heard
    BY <1>3, <2>1
  <2>2. CASE heard' = [heard EXCEPT ![target][v] = s]
    <3>1. SUFFICES ASSUME NEW c \in Conns, NEW u \in Users, heard'[c][u] # "nothing"
                   PROVE  Related(c, u)'
      BY DEF ToldOfRelated
    <3>2. CASE c = target /\ u = v
      BY <1>2, <1>4, <3>2
    <3>3. CASE ~(c = target /\ u = v)
      <4>1. heard'[c][u] = heard[c][u]
        BY <2>2, <3>3 DEF TypeOK
      <4> QED
        BY <1>2, <3>1, <4>1 DEF ToldOfRelated
    <3> QED
      BY <3>2, <3>3
  <2> QED
    BY <1>4, <2>1, <2>2 DEF Tell
<1>5. CASE Write \/ WriteAway
  <2>1. routine \in {"write", "writeaway"}
    BY <1>5 DEF Write, WriteAway
  <2>2. obj \in 1..Len(objs)
    BY <2>1, NotificationAssumption DEF References, TypeOK
  <2>3. Subject \in Users
    <3>1. objs[obj] \in Objects
      BY <2>2, ElementOfSeq DEF TypeOK
    <3> QED
      BY <3>1 DEF Subject, Objects
  <2>4. Related(target, Subject)
    BY <2>1 DEF HeldRelated
  <2>5. UNCHANGED heard \/ Tell(Subject, "Online") \/ Tell(Subject, "Away")
    BY <1>5 DEF Write, WriteAway
  <2> QED
    BY <1>3, <1>4, <2>3, <2>4, <2>5
<1>6. CASE List
  <2>1. CASE UNCHANGED heard
    BY <1>3, <2>1
  <2>2. ASSUME NEW w \in todo, Tell(w.user, w.status) PROVE ToldOfRelated'
    <3>1. w \in found /\ w.user \in Users
      BY DEF TypeOK, Rows
    <3>2. Related(target, w.user)
      BY <1>6, <3>1 DEF HeldRelated, List
    <3> QED
      BY <1>4, <2>2, <3>1, <3>2
  <2> QED
    BY <1>6, <2>1, <2>2 DEF List
<1>7. ASSUME NEW c \in Conns, Step(c) PROVE UNCHANGED heard
  BY <1>7, StepFrame
<1>8. CASE Receive \/ Query \/ Lookup \/ Self
  <2>1. UNCHANGED heard
    BY <1>8 DEF Receive, Query, Lookup, Self, history
  <2> QED
    BY <1>3, <2>1
<1>9. CASE Restart \/ UNCHANGED vars
  <2>1. UNCHANGED heard
    BY <1>9 DEF Restart, vars, history
  <2> QED
    BY <1>3, <2>1
<1> QED
  BY <1>3, <1>5, <1>6, <1>7, <1>8, <1>9 DEF Next, Step, Routine

-----------------------------------------------------------------------------
(***************************************************************************)
(* Who is at work for whom, and the rows of the table.                     *)
(***************************************************************************)

\* Two unfinished connections have no user in common but an overlapping one.
Apart(c, d) == Unfinished(c) /\ Unfinished(d) => authed[c] \cap authed[d] \subseteq overlap

\* What the handler of c is about to insert is not there.
Absent(c) == stage[c] = "insert" /\ UserOf(c) \notin overlap => lists[NewPair(c)] = 0

\* Only accepting and signing on bring a connection to work for a user.
LEMMA NobodyNew ==
    ASSUME TypeOK, References, NEW c \in Conns, Step(c), ~Connect(c),
           \A u \in Users : ~SignOn(c, u)
    PROVE  \A d \in Conns : authed'[d] = authed[d] /\ (Unfinished(d)' => Unfinished(d))
<1>1. ASSUME NEW d \in Conns \ {c}
      PROVE  authed'[d] = authed[d] /\ (Unfinished(d)' => Unfinished(d))
  BY <1>1, StepFrame DEF Unfinished, Served
<1>2. authed'[c] = authed[c] /\ (Unfinished(c)' => Unfinished(c))
  <2>1. own[c] # 0 => Served(c)
    BY WorkerFacts DEF Refers
  <2>2. stage[c] # "idle" => own[c] # 0
    BY WorkerFacts DEF Refers
  <2>3. authed' = authed /\ stage[c] # "ret" /\ (stage[c] = "idle" => own[c] # 0)
    BY DEF Step, Client, Handler, Take, SetSession, ReadClosed, Ready, SelfInfo, SetInfo,
           AddBuddy, CountBuddy, InsertBuddy, RemoveBuddy, Fail, SetAway, Close,
           Remove, RemoveSession, Post, PostAway, tableVars
  <2> QED
    BY <2>1, <2>2, <2>3 DEF Unfinished
<1> QED
  BY <1>1, <1>2

\* Every step keeps connections apart.
LEMMA ApartStep ==
    ASSUME TypeOK, References, [Next]_vars,
           \A c \in Conns : \A d \in Conns \ {c} : Apart(c, d)
    PROVE  \A c \in Conns : \A d \in Conns \ {c} : Apart(c, d)'
<1>1. overlap \subseteq overlap'
  BY HistoryGrows
<1>2. ASSUME \A d \in Conns : authed'[d] = authed[d] /\ (Unfinished(d)' => Unfinished(d))
      PROVE  \A c \in Conns : \A d \in Conns \ {c} : Apart(c, d)'
  BY <1>1, <1>2 DEF Apart
<1>3. ASSUME NEW c \in Conns, NEW u \in Users, SignOn(c, u)
      PROVE  \A a \in Conns : \A b \in Conns \ {a} : Apart(a, b)'
  <2>1. /\ authed'[c] = authed[c] \cup {u} /\ conn' = conn /\ stage' = stage
        /\ \A d \in Conns \ {c} : authed'[d] = authed[d]
    BY <1>3 DEF SignOn, Authenticate, TypeOK, TableTypeOK
  <2>2. \A d \in Conns : Unfinished(d)' = Unfinished(d)
    BY <2>1 DEF Unfinished, Served
  <2>3. Unfinished(c)
    BY <1>3 DEF SignOn, Authenticate, Unfinished
  <2>4. ASSUME NEW d \in Conns \ {c}, Unfinished(d)
        PROVE  authed'[c] \cap authed'[d] \subseteq overlap'
    <3>1. authed[c] \cap authed[d] \subseteq overlap
      BY <2>3, <2>4 DEF Apart
    <3>2. u \in authed[d] => u \in overlap'
      BY <1>3, <2>4 DEF SignOn
    <3> QED
      BY <1>1, <2>1, <3>1, <3>2
  <2>5. ASSUME NEW a \in Conns \ {c}, NEW b \in Conns \ {a, c} PROVE Apart(a, b)'
    BY <1>1, <2>1, <2>2, <2>5 DEF Apart
  <2>6. ASSUME NEW d \in Conns \ {c} PROVE Apart(c, d)' /\ Apart(d, c)'
    BY <2>2, <2>4, <2>6 DEF Apart
  <2> QED
    BY <2>5, <2>6
<1>4. ASSUME NEW c \in Conns, Connect(c)
      PROVE  \A a \in Conns : \A b \in Conns \ {a} : Apart(a, b)'
  <2>1. conn[c] = "none" /\ authed' = authed /\ stage' = stage
    BY <1>4 DEF Connect, Accept, handlers
  <2>2. authed'[c] = {}
    BY <2>1, WorkerFacts DEF Refers
  <2>3. \A d \in Conns \ {c} : Unfinished(d)' = Unfinished(d)
    BY <1>4, <2>1 DEF Connect, Accept, Unfinished, Served, TypeOK, TableTypeOK
  <2> QED
    BY <1>1, <2>1, <2>2, <2>3 DEF Apart
<1>5. ASSUME NEW c \in Conns, Step(c)
      PROVE  \A a \in Conns : \A b \in Conns \ {a} : Apart(a, b)'
  BY <1>2, <1>3, <1>4, <1>5, NobodyNew
<1>6. CASE Restart
  <2>1. \A d \in Conns : ~Unfinished(d)'
    BY <1>6 DEF Restart, Halt, Unfinished, Served
  <2> QED
    BY <2>1 DEF Apart
<1>7. CASE Routine \/ UNCHANGED vars
  <2>1. UNCHANGED <<conn, authed, stage>>
    BY <1>7, RoutineFrame DEF tableVars, handlers, vars
  <2> QED
    BY <1>2, <2>1 DEF Unfinished, Served
<1> QED
  BY <1>5, <1>6, <1>7 DEF Next, Step

\* The pair to be inserted, whose user has signed on.
LEMMA InsertFacts ==
    ASSUME TypeOK, References, NEW c \in Conns, stage[c] \in {"count", "insert"}
    PROVE  /\ NewPair(c) \in Pairs /\ NewPair(c)[1] = UserOf(c)
           /\ UserOf(c) \in authed[c] /\ Unfinished(c) /\ lists[NewPair(c)] \in Nat
<1>1. own[c] # 0 /\ pend[c] # 0 /\ Served(c) /\ UserOf(c) \in authed[c]
  BY WorkerFacts DEF Refers
<1>2. NewPair(c) \in Pairs
  BY <1>1, WorkerFacts DEF NewPair, Pairs, Objects
<1> QED
  BY <1>1, <1>2 DEF NewPair, Unfinished, TypeOK

\* A pair to be inserted stays absent while no row of it is made.
LEMMA AbsentKept ==
    ASSUME TypeOK, References, [Next]_vars, Grows, NEW c \in Conns, Absent(c),
           own'[c] = own[c], pend'[c] = pend[c], stage'[c] = stage[c],
           stage[c] = "insert" => lists'[NewPair(c)] \in {lists[NewPair(c)], 0}
    PROVE  Absent(c)'
<1>1. overlap \subseteq overlap'
  BY HistoryGrows
<1>2. ASSUME stage[c] = "insert" PROVE UserOf(c)' = UserOf(c) /\ NewPair(c)' = NewPair(c)
  <2>1. own[c] \in 1..Len(objs) /\ pend[c] \in 1..Len(objs)
    BY <1>2, WorkerFacts DEF Refers
  <2> QED
    BY <2>1 DEF UserOf, NewPair, Grows
<1> QED
  BY <1>1, <1>2 DEF Absent

\* What a handler's step does to the rows of a pair.
LEMMA RowsEffect ==
    ASSUME TypeOK, References, NEW c \in Conns, Step(c)
    PROVE  \/ InsertBuddy(c)
           \/ /\ \A p \in Pairs : lists'[p] \in {lists[p], 0}
              /\ stage'[c] = "insert" => CountBuddy(c)
<1>1. CASE RemoveBuddy(c)
  <2>1. \A p \in Pairs : lists'[p] \in {lists[p], 0}
    BY <1>1 DEF RemoveBuddy, TypeOK
  <2>2. stage'[c] # "insert"
    BY <1>1 DEF RemoveBuddy, Goto, TypeOK
  <2> QED
    BY <2>1, <2>2
<1>2. CASE CountBuddy(c)
  BY <1>2 DEF CountBuddy, rows
<1>3. CASE ~RemoveBuddy(c) /\ ~CountBuddy(c) /\ ~InsertBuddy(c)
  <2>1. UNCHANGED lists
    BY <1>3 DEF Step, Client, Handler, Connect, Take, ReadClosed, SignOn, Ready, SelfInfo,
         SetInfo, AddBuddy, Fail, SetAway, Close, Remove, Post, PostAway, rows
  <2>2. CASE Client(c)
    <3>1. CASE Connect(c)
      <4>1. conn[c] = "none" /\ stage' = stage
        BY <3>1 DEF Connect, Accept, handlers
      <4>2. stage[c] = "idle"
        BY <4>1, WorkerFacts DEF Refers, Served
      <4> QED
        BY <2>1, <4>1, <4>2
    <3>2. CASE Take(c)
      <4>1. PICK l \in Requested : Goto(c, l)
        BY <3>2 DEF Take
      <4>2. l \in Requests /\ l # "insert"
        BY NotificationAssumption DEF Requests
      <4>3. stage'[c] = l
        BY <4>1 DEF Goto, TypeOK
      <4> QED
        BY <2>1, <4>2, <4>3
    <3>3. CASE ReadClosed(c)
      <4>1. stage'[c] = "away"
        BY <3>3 DEF ReadClosed, Goto, TypeOK
      <4> QED
        BY <2>1, <4>1
    <3>4. ASSUME NEW u \in Users, SignOn(c, u)
          PROVE  UNCHANGED lists /\ stage'[c] = "idle"
      BY <3>4 DEF SignOn
    <3> QED
      BY <2>1, <2>2, <3>1, <3>2, <3>3, <3>4 DEF Client
  <2>3. CASE ~Client(c)
    BY <1>3, <2>1, <2>3 DEF Step, Handler, Ready, SelfInfo, SetInfo, AddBuddy, Fail,
         SetAway, Close, Remove, Post, PostAway, Goto, TypeOK
  <2> QED
    BY <2>2, <2>3
<1> QED
  BY <1>1, <1>2, <1>3

\* Every step keeps what is about to be inserted absent, and every row of a
\* user without overlap single.
LEMMA OnceStep ==
    ASSUME TypeOK, References, [Next]_vars, BuddiesOnce,
           \A c \in Conns : Absent(c) /\ \A d \in Conns \ {c} : Apart(c, d)
    PROVE  BuddiesOnce' /\ \A c \in Conns : Absent(c)'
<1>1. overlap \subseteq overlap'
  BY HistoryGrows
<1>2. ASSUME \A p \in Pairs : lists'[p] \in {lists[p], 0} PROVE BuddiesOnce'
  <2>1. SUFFICES ASSUME NEW p \in Pairs, p[1] \notin overlap'
                 PROVE  lists'[p] <= 1
    BY DEF BuddiesOnce
  <2>2. lists[p] <= 1
    BY <1>1, <2>1 DEF BuddiesOnce
  <2>3. lists'[p] = lists[p] \/ lists'[p] = 0
    BY <1>2
  <2> QED
    BY <2>2, <2>3
<1>3. ASSUME NEW c \in Conns, InsertBuddy(c)
      PROVE  BuddiesOnce' /\ \A d \in Conns : Absent(d)'
  <2>1. /\ stage[c] = "insert" /\ stage'[c] = "post" /\ overlap' = overlap
        /\ lists'[NewPair(c)] = lists[NewPair(c)] + 1
        /\ \A p \in Pairs : p # NewPair(c) => lists'[p] = lists[p]
    BY <1>3, InsertFacts DEF InsertBuddy, Goto, TypeOK
  <2>2. UserOf(c) \notin overlap => lists[NewPair(c)] = 0
    BY <2>1 DEF Absent
  <2>3. BuddiesOnce'
    <3>1. SUFFICES ASSUME NEW p \in Pairs, p[1] \notin overlap PROVE lists'[p] <= 1
      BY <2>1 DEF BuddiesOnce
    <3>2. CASE p = NewPair(c)
      BY <2>1, <2>2, <3>1, <3>2, InsertFacts
    <3>3. CASE p # NewPair(c)
      BY <2>1, <3>1, <3>3 DEF BuddiesOnce
    <3> QED
      BY <3>2, <3>3
  <2>4. Absent(c)'
    BY <2>1 DEF Absent
  <2>5. ASSUME NEW d \in Conns \ {c} PROVE Absent(d)'
    <3>1. Grows /\ own'[d] = own[d] /\ pend'[d] = pend[d] /\ stage'[d] = stage[d]
      BY <1>3, <2>5, StepFrame, Growth DEF Step, Handler
    <3>2. CASE stage[d] = "insert" /\ NewPair(d) = NewPair(c)
      <4>1. UserOf(d) = UserOf(c) /\ UserOf(c) \in authed[c] \cap authed[d]
        BY <2>1, <3>2, InsertFacts
      <4>2. UserOf(d) \in overlap
        BY <2>1, <2>5, <3>2, <4>1, InsertFacts DEF Apart
      <4>3. UserOf(d)' = UserOf(d)
        BY <3>1, <3>2, WorkerFacts DEF UserOf, Grows, Refers
      <4> QED
        BY <2>1, <4>2, <4>3 DEF Absent
    <3>3. CASE stage[d] = "insert" => NewPair(d) # NewPair(c)
      BY <2>1, <3>1, <3>3, InsertFacts, AbsentKept
    <3> QED
      BY <3>2, <3>3
  <2> QED
    BY <2>3, <2>4, <2>5
<1>4. ASSUME NEW c \in Conns, Step(c), ~InsertBuddy(c)
      PROVE  BuddiesOnce' /\ \A d \in Conns : Absent(d)'
  <2>1. /\ \A p \in Pairs : lists'[p] \in {lists[p], 0}
        /\ stage'[c] = "insert" => CountBuddy(c)
    BY <1>4, RowsEffect
  <2>2. ASSUME NEW d \in Conns \ {c} PROVE Absent(d)'
    BY <1>4, <2>1, <2>2, StepFrame, Growth, InsertFacts, AbsentKept
  <2>3. ASSUME CountBuddy(c), stage'[c] = "insert" PROVE Absent(c)'
    <3>1. stage[c] = "count" /\ UNCHANGED <<objs, lists>> /\ own' = own
      BY <2>3 DEF CountBuddy, rows
    <3>2. lists[NewPair(c)] \in Nat
      BY <3>1, InsertFacts
    <3>3. ~(lists[NewPair(c)] > 0) /\ pend' = pend
      BY <2>3 DEF CountBuddy, Goto, TypeOK
    <3> QED
      BY <3>1, <3>2, <3>3 DEF Absent, NewPair, UserOf
  <2> QED
    BY <1>2, <2>1, <2>2, <2>3 DEF Absent
<1>5. CASE Restart
  <2>1. lists' = lists /\ \A c \in Conns : stage'[c] = "idle"
    BY <1>5 DEF Restart
  <2> QED
    BY <1>2, <2>1 DEF Absent
<1>6. CASE Routine \/ UNCHANGED vars
  <2>1. UNCHANGED <<lists, objs, own, pend, stage>>
    BY <1>6, RoutineFrame DEF rows, handlers, vars
  <2>2. \A c \in Conns : Absent(c)'
    BY <2>1, SameObjects, AbsentKept
  <2> QED
    BY <1>2, <2>1, <2>2
<1> QED
  BY <1>3, <1>4, <1>5, <1>6 DEF Next, Step

-----------------------------------------------------------------------------
(***************************************************************************)
(* A connection at work.                                                   *)
(***************************************************************************)

\* The parts of AtWork about connection c.
Registered(c) ==
    \A w \in Users :
        ( /\ conn[c] = "open" /\ own[c] # 0 /\ authed[c] = {w} /\ w \notin overlap
          /\ stage[c] # "idle" \/ said[c] # "nothing" )
        => sessions[w] = c

Shut(c) == stage[c] \in {"remove", "ret"} => conn[c] # "open"

AddedFirst(c) ==
    stage[c] = "post" /\ pend[c] # own[c] => <<UserOf(c), objs[pend[c]].user>> \in added

SaysAway(c) ==
    stage[c] = "postaway" /\ UserOf(c) \notin overlap => objs[own[c]].status = "Away"

Works(c) == Registered(c) /\ Shut(c) /\ AddedFirst(c) /\ SaysAway(c)

\* All a step needs to know of the state before it.
Inv0 ==
    /\ TypeOK /\ References
    /\ \A c \in Conns : Works(c) /\ \A d \in Conns \ {c} : Apart(c, d)

\* Who takes a step is at work before it, and for the same users, unless it
\* is accepted or signs on.
LEMMA ActorFacts ==
    ASSUME TypeOK, References, NEW c \in Conns, Step(c)
    PROVE  \/ /\ Connect(c) /\ conn[c] = "none" /\ own[c] = 0 /\ own'[c] = 0
              /\ authed[c] = {} /\ authed' = authed /\ stage[c] = "idle"
              /\ UNCHANGED <<sessions, rows, handlers, onlineCh, history>>
           \/ /\ \E u \in Users :
                    /\ SignOn(c, u) /\ authed'[c] = authed[c] \cup {u}
                    /\ own'[c] = Len(objs) + 1 /\ objs'[own'[c]].user = u
              /\ Unfinished(c) /\ said'[c] = "nothing"
              /\ stage[c] = "idle" /\ stage' = stage
              /\ UNCHANGED <<sessions, conn, status, lists, added, onlineCh>>
           \/ /\ own[c] \in 1..Len(objs) /\ own' = own /\ authed' = authed
              /\ UserOf(c) \in authed[c] /\ UserOf(c) \in Users /\ Unfinished(c)
              /\ overlap' = overlap /\ ~Connect(c) /\ \A u \in Users : ~SignOn(c, u)
<1>1. Refers(c)
  BY WorkerFacts
<1>2. CASE Connect(c)
  <2>1. conn[c] = "none" /\ authed' = authed /\ UNCHANGED <<sessions, rows, handlers, onlineCh, history>>
    BY <1>2 DEF Connect, Accept
  <2> QED
    BY <1>1, <1>2, <2>1 DEF Refers, Served, handlers
<1>3. ASSUME NEW u \in Users, SignOn(c, u)
      PROVE  /\ authed'[c] = authed[c] \cup {u}
             /\ own'[c] = Len(objs) + 1 /\ objs'[own'[c]].user = u
             /\ Unfinished(c) /\ said'[c] = "nothing"
             /\ stage[c] = "idle" /\ stage' = stage
             /\ UNCHANGED <<sessions, conn, status, lists, added, onlineCh>>
  <2>1. own'[c] = Len(objs) + 1 /\ objs'[Len(objs) + 1].user = u
    BY <1>3, AppendFacts DEF SignOn, TypeOK
  <2> QED
    BY <1>3, <2>1 DEF SignOn, Authenticate, Unfinished, TypeOK, TableTypeOK
<1>4. CASE ~Connect(c) /\ \A u \in Users : ~SignOn(c, u)
  <2>1. /\ own' = own /\ authed' = authed /\ overlap' = overlap /\ stage[c] # "ret"
        /\ stage[c] = "idle" => own[c] # 0
    BY <1>4 DEF Step, Client, Handler, Take, SetSession, ReadClosed, Ready, SelfInfo, SetInfo,
           AddBuddy, CountBuddy, InsertBuddy, RemoveBuddy, Fail, SetAway, Close,
           Remove, RemoveSession, Post, PostAway, tableVars, handlers, history
  <2>2. own[c] # 0
    BY <1>1, <2>1 DEF Refers
  <2> QED
    BY <1>1, <1>4, <2>1, <2>2, WorkerFacts DEF Refers, Unfinished
<1> QED
  BY <1>2, <1>3, <1>4

\* The map changes only under the actor's name.
LEMMA MapEffect ==
    ASSUME TypeOK, NEW c \in Conns, Step(c), NEW w \in Users, w # UserOf(c)
    PROVE  sessions'[w] = sessions[w]
<1>1. CASE Take(c)
  BY <1>1 DEF Take, SetSession, TypeOK, TableTypeOK
<1>2. CASE Remove(c)
  BY <1>2 DEF Remove, RemoveSession, TypeOK, TableTypeOK
<1>3. CASE ~Take(c) /\ ~Remove(c)
  BY <1>3 DEF Step, Client, Handler, Connect, Accept, ReadClosed, SignOn, Authenticate,
     Ready, SelfInfo, SetInfo, AddBuddy, CountBuddy, InsertBuddy, RemoveBuddy, Fail,
     SetAway, Close, Post, PostAway, tableVars
<1> QED
  BY <1>1, <1>2, <1>3

\* While d is at work for u, and u has no overlap, nobody else takes a step
\* for u.
LEMMA Others ==
    ASSUME Inv0, NEW c \in Conns, Step(c), NEW d \in Conns \ {c}, NEW u \in Users,
           Unfinished(d), u \in authed[d], u \notin overlap'
    PROVE  /\ u \notin authed[c] /\ u \notin authed'[c]
           /\ own[c] # 0 => UserOf(c) # u
           /\ Unfinished(d)'
<1>1. TypeOK /\ References /\ Apart(c, d)
  BY DEF Inv0
<1>2. overlap \subseteq overlap'
  BY <1>1, HistoryGrows DEF Next, Step
<1>3. Unfinished(d)'
  BY <1>1, StepFrame DEF Unfinished, Served
<1>4. own[c] # 0 => UserOf(c) \in authed[c]
  BY <1>1, WorkerFacts DEF Refers
<1>5. Unfinished(c) => u \notin authed[c]
  BY <1>1, <1>2 DEF Apart
<1>6. ASSUME NEW v \in Users, SignOn(c, v) PROVE v # u
  BY <1>6 DEF SignOn
<1> QED
  BY <1>1, <1>2, <1>3, <1>4, <1>5, <1>6, ActorFacts

\* Who does not move keeps his user.
LEMMA SameUser ==
    ASSUME TypeOK, References, NEW c \in Conns, Step(c), NEW d \in Conns, own'[d] = own[d], own[d] # 0
    PROVE  UserOf(d)' = UserOf(d) /\ UserOf(d) \in authed[d]
<1>1. Grows /\ own[d] \in 1..Len(objs) /\ Refers(d)
  BY Growth, WorkerFacts
<1> QED
  BY <1>1 DEF Grows, UserOf, Refers

\* Handlers change the statuses of objects of their own users only, and
\* leave an object they are to announce as away alone.
LEMMA StatusEffect ==
    ASSUME TypeOK, References, NEW c \in Conns, Step(c), NEW i \in 1..Len(objs), objs'[i] # objs[i]
    PROVE  /\ i = own[c]
           /\ Ready(c) \/ SelfInfo(c) \/ SetInfo(c) \/ Fail(c) \/ SetAway(c)
<1>1. objs \in Seq(Objects) /\ i \in DOMAIN objs
  BY DEF TypeOK
<1>2. ASSUME NEW s, SetStatus(c, s) PROVE i = own[c]
  BY <1>1, <1>2 DEF SetStatus
<1>3. ASSUME NEW e, objs' = Append(objs, e), e \in Objects PROVE FALSE
  BY <1>1, <1>3
<1>4. \A u \in Users : [user |-> u, status |-> status[u]] \in Objects
  BY DEF TypeOK, Objects
<1>5. ~AddBuddy(c) /\ \A u \in Users : ~SignOn(c, u)
  BY <1>3, <1>4 DEF AddBuddy, SignOn
<1>6. ~(UNCHANGED objs)
  OBVIOUS
<1>7. Ready(c) \/ SelfInfo(c) \/ SetInfo(c) \/ Fail(c) \/ SetAway(c)
  BY <1>5, <1>6 DEF Step, Client, Handler, Connect, Take, ReadClosed, CountBuddy, InsertBuddy,
     RemoveBuddy, Close, Remove, Post, PostAway, rows
<1>8. i = own[c]
  BY <1>2, <1>6, <1>7 DEF Ready, SelfInfo, SetInfo, Fail, SetAway
<1> QED
  BY <1>7, <1>8

\* A step keeps what AtWork says of the connections that do not move.
LEMMA WorksKept ==
    ASSUME Inv0, NEW c \in Conns, Step(c), NEW d \in Conns \ {c}
    PROVE  Works(d)'
<1>1. TypeOK /\ References /\ Works(d)
  BY DEF Inv0
<1>2. /\ own'[d] = own[d] /\ pend'[d] = pend[d] /\ stage'[d] = stage[d]
      /\ conn'[d] = conn[d] /\ authed'[d] = authed[d] /\ said'[d] = said[d]
  BY <1>1, StepFrame
<1>3. /\ added \subseteq added' /\ overlap \subseteq overlap'
  BY <1>1, HistoryGrows DEF Next, Step
<1>4. own[d] # 0 => UserOf(d)' = UserOf(d) /\ UserOf(d) \in authed[d]
  BY <1>1, <1>2, SameUser
<1>5. Refers(d) /\ (own[d] # 0 => own[d] \in 1..Len(objs)) /\ (pend[d] # 0 => pend[d] \in 1..Len(objs))
  BY <1>1, WorkerFacts
<1>6. ASSUME NEW w \in Users, conn[d] = "open", own[d] # 0, authed[d] = {w}, w \notin overlap',
             stage[d] # "idle" \/ said[d] # "nothing"
      PROVE  sessions'[w] = d
  <2>1. sessions[w] = d
    BY <1>1, <1>3, <1>6 DEF Works, Registered
  <2>2. Unfinished(d)
    BY <1>1, <1>6 DEF Works, Shut, Unfinished, Served
  <2>3. own[c] # 0 => UserOf(c) # w
    BY <1>6, <2>2, Others
  <2>4. CASE own[c] # 0
    BY <1>1, <2>1, <2>3, <2>4, MapEffect
  <2>5. CASE own[c] = 0
    BY <1>1, <2>1, <2>5, ActorFacts
  <2> QED
    BY <2>4, <2>5
<1>7. Registered(d)'
  BY <1>2, <1>6 DEF Registered
<1>8. Shut(d)'
  BY <1>1, <1>2 DEF Works, Shut
<1>9. AddedFirst(d)'
  <2>1. SUFFICES ASSUME stage[d] = "post", pend[d] # own[d]
                 PROVE  <<UserOf(d), objs[pend[d]].user>>' \in added'
    BY <1>2 DEF AddedFirst
  <2>2. own[d] # 0 /\ pend[d] \in 1..Len(objs)
    BY <1>5, <2>1 DEF Refers
  <2>3. objs'[pend[d]].user = objs[pend[d]].user
    BY <1>1, <2>2, Growth DEF Grows
  <2>4. <<UserOf(d), objs[pend[d]].user>> \in added
    BY <1>1, <2>1 DEF Works, AddedFirst
  <2> QED
    BY <1>2, <1>3, <1>4, <2>2, <2>3, <2>4
<1>10. SaysAway(d)'
  <2>1. SUFFICES ASSUME stage[d] = "postaway", UserOf(d)' \notin overlap'
                 PROVE  objs'[own[d]].status = "Away"
    BY <1>2 DEF SaysAway
  <2>2. own[d] \in 1..Len(objs) /\ UserOf(d)' = UserOf(d) /\ UserOf(d) \in authed[d]
        /\ UserOf(d) \in Users /\ Unfinished(d)
    BY <1>1, <1>4, <1>5, <2>1, WorkerFacts DEF Refers, Unfinished
  <2>3. objs[own[d]].status = "Away"
    BY <1>1, <1>3, <2>1, <2>2 DEF Works, SaysAway
  <2>4. objs'[own[d]] = objs[own[d]]
    <3>1. own[c] # 0 => UserOf(c) # UserOf(d)
      BY <2>1, <2>2, Others
    <3>2. own[c] = own[d] => UserOf(c) = UserOf(d)
      BY DEF UserOf
    <3>3. own[d] # own[c] \/ own[c] = 0
      BY <3>1, <3>2
    <3> QED
      BY <1>1, <2>2, <3>3, StatusEffect
  <2> QED
    BY <2>3, <2>4
<1> QED
  BY <1>7, <1>8, <1>9, <1>10 DEF Works

\* The stage a handler's step leads to.
LEMMA StageEffect ==
    ASSUME TypeOK, References, NEW c \in Conns, Step(c)
    PROVE  /\ stage'[c] \in {"remove", "ret"} => Close(c) \/ Remove(c)
           /\ stage'[c] = "post" => Ready(c) \/ SetInfo(c) \/ InsertBuddy(c)
           /\ stage'[c] = "postaway" => SetAway(c)
           /\ stage'[c] = "disc" => PostAway(c)
<1>1. CASE Client(c)
  <2>1. CASE Take(c)
    <3>1. PICK l \in Requested : Goto(c, l)
      BY <2>1 DEF Take
    <3>2. l \in Requests
      BY NotificationAssumption
    <3>3. stage'[c] = l
      BY <3>1 DEF Goto, TypeOK
    <3> QED
      BY <3>2, <3>3 DEF Requests
  <2>2. CASE ReadClosed(c)
    BY <2>2 DEF ReadClosed, Goto, TypeOK
  <2>3. CASE ~Take(c) /\ ~ReadClosed(c)
    <3>1. stage' = stage /\ stage[c] = "idle"
      BY <1>1, <2>3, ActorFacts DEF Client, handlers
    <3> QED
      BY <3>1
  <2> QED
    BY <2>1, <2>2, <2>3
<1>2. CASE AddBuddy(c) \/ RemoveBuddy(c) \/ CountBuddy(c) \/ Post(c)
  <2>1. stage'[c] \in {"count", "insert", "idle", "unlist", "add"}
    BY <1>2 DEF AddBuddy, RemoveBuddy, CountBuddy, Post, Goto, TypeOK
  <2> QED
    BY <2>1
<1>3. CASE ~(Client(c) \/ AddBuddy(c) \/ RemoveBuddy(c) \/ CountBuddy(c) \/ Post(c))
  BY <1>3 DEF Step, Handler, Ready, SelfInfo, SetInfo, InsertBuddy, Fail, SetAway, Close,
         Remove, PostAway, Goto, TypeOK
<1> QED
  BY <1>1, <1>2, <1>3

\* A step keeps what AtWork says of the connection that moves.
LEMMA WorksMoved ==
    ASSUME Inv0, NEW c \in Conns, Step(c)
    PROVE  Works(c)'
<1>1. TypeOK /\ References /\ Works(c) /\ Refers(c)
  BY WorkerFacts DEF Inv0
<1>2. /\ added \subseteq added' /\ overlap \subseteq overlap'
  BY <1>1, HistoryGrows DEF Next, Step
<1>3. Registered(c)'
  <2>1. SUFFICES ASSUME NEW w \in Users, conn'[c] = "open", own'[c] # 0, authed'[c] = {w},
                        w \notin overlap', stage'[c] # "idle" \/ said'[c] # "nothing"
                 PROVE  sessions'[w] = c
    BY DEF Registered
  <2>2. own[c] # 0 /\ authed[c] = {w} /\ UserOf(c) = w
    <3>1. ~Connect(c)
      BY <1>1, <2>1, ActorFacts
    <3>2. \A u \in Users : ~SignOn(c, u)
      BY <1>1, <2>1 DEF SignOn, TypeOK
    <3> QED
      BY <1>1, <2>1, <3>1, <3>2, ActorFacts
  <2>3. CASE Take(c)
    BY <1>1, <2>2, <2>3 DEF Take, SetSession, TypeOK, TableTypeOK
  <2>4. CASE Remove(c)
    <3>1. conn' = conn /\ conn[c] # "open"
      BY <1>1, <2>4 DEF Remove, RemoveSession, Works, Shut
    <3> QED
      BY <2>1, <3>1
  <2>5. CASE ReadClosed(c) \/ Fail(c) \/ Close(c)
    BY <1>1, <2>1, <2>5 DEF ReadClosed, Fail, Close, tableVars, TypeOK, TableTypeOK
  <2>6. CASE ~(Client(c) \/ Remove(c) \/ Fail(c) \/ Close(c))
    <3>1. UNCHANGED <<sessions, conn>> /\ stage[c] # "idle"
      BY <2>6 DEF Step, Handler, Ready, SelfInfo, SetInfo, AddBuddy, CountBuddy, InsertBuddy,
         RemoveBuddy, SetAway, Post, PostAway, tableVars
    <3> QED
      BY <1>1, <1>2, <2>1, <2>2, <3>1 DEF Works, Registered
  <2>7. CASE Client(c) /\ ~Take(c) /\ ~ReadClosed(c)
    BY <2>1, <2>7, <1>1, ActorFacts DEF Client
  <2> QED
    BY <2>3, <2>4, <2>5, <2>6, <2>7
<1>4. Shut(c)'
  <2>1. SUFFICES ASSUME stage'[c] \in {"remove", "ret"} PROVE conn'[c] # "open"
    BY DEF Shut
  <2>2. Close(c) \/ Remove(c)
    BY <1>1, <2>1, StageEffect
  <2>3. CASE Close(c)
    BY <1>1, <2>3 DEF Close, TypeOK, TableTypeOK
  <2>4. CASE Remove(c)
    BY <1>1, <2>4 DEF Remove, RemoveSession, Works, Shut
  <2> QED
    BY <2>2, <2>3, <2>4
<1>5. AddedFirst(c)'
  <2>1. SUFFICES ASSUME stage'[c] = "post", pend'[c] # own'[c]
                 PROVE  <<UserOf(c), objs[pend[c]].user>>' \in added'
    BY DEF AddedFirst
  <2>2. Ready(c) \/ SetInfo(c) \/ InsertBuddy(c)
    BY <1>1, <2>1, StageEffect
  <2>3. CASE Ready(c) \/ SetInfo(c)
    BY <1>1, <2>1, <2>3 DEF Ready, SetInfo, TypeOK
  <2>4. CASE InsertBuddy(c)
    BY <2>4 DEF InsertBuddy, NewPair, UserOf
  <2> QED
    BY <2>2, <2>3, <2>4
<1>6. SaysAway(c)'
  <2>1. SUFFICES ASSUME stage'[c] = "postaway" PROVE objs'[own'[c]].status = "Away"
    BY DEF SaysAway
  <2>2. SetAway(c)
    BY <1>1, <2>1, StageEffect
  <2>3. own'[c] = own[c] /\ own[c] \in 1..Len(objs) /\ objs[own[c]] \in Objects
    BY <1>1, <2>2, WorkerFacts DEF SetAway, Refers
  <2> QED
    BY <1>1, <2>2, <2>3 DEF SetAway, SetStatus, TypeOK, Objects
<1> QED
  BY <1>3, <1>4, <1>5, <1>6 DEF Works

\* Every step keeps AtWork.
LEMMA WorksStep ==
    ASSUME Inv0, [Next]_vars
    PROVE  \A c \in Conns : Works(c)'
<1>1. ASSUME NEW c \in Conns, Step(c) PROVE \A d \in Conns : Works(d)'
  BY <1>1, WorksKept, WorksMoved
<1>2. CASE Restart
  <2>1. \A c \in Conns : conn'[c] # "open" /\ stage'[c] = "idle"
    BY <1>2 DEF Restart, Halt
  <2> QED
    BY <2>1 DEF Works, Registered, Shut, AddedFirst, SaysAway
<1>3. CASE Routine \/ UNCHANGED vars
  <2>1. UNCHANGED <<tableVars, rows, handlers, added, said, overlap>>
    BY <1>3, RoutineFrame DEF vars, history
  <2> QED
    BY <2>1 DEF Inv0, Works, Registered, Shut, AddedFirst, SaysAway, UserOf, tableVars, rows, handlers
<1> QED
  BY <1>1, <1>2, <1>3 DEF Next, Step


-----------------------------------------------------------------------------
(***************************************************************************)
(* What is announced of a user whose status is settled.                    *)
(***************************************************************************)

NobodyAdded(u) == \A x \in Users : <<x, u>> \notin added

\* A step changes no object of u and announces none of them, ...
Untouched(u) ==
    /\ \A i \in 1..Len(objs) : objs[i].user = u => objs'[i] = objs[i]
    /\ \/ UNCHANGED onlineCh
       \/ \E id \in 1..Len(objs) :
             objs[id].user # u /\ onlineCh = <<>> /\ onlineCh' = <<id>> /\ UNCHANGED objs

\* ... or announces one that has status s.
Announces(u, s) ==
    \E id \in 1..Len(objs) :
       /\ objs[id].user = u /\ objs[id].status = s
       /\ onlineCh = <<>> /\ onlineCh' = <<id>> /\ UNCHANGED objs

\* With capacity 1, what is sent is all that is in the channel.
LEMMA SendFacts ==
    ASSUME TypeOK, NEW c \in Conns, NEW id \in 1..Len(objs), Send(c, id)
    PROVE  onlineCh = <<>> /\ onlineCh' = <<id>>
<1>1. onlineCh \in Seq(Ids) /\ Len(onlineCh) = 0
  BY DEF TypeOK, Send, ChanCap
<1>2. onlineCh = <<>>
  BY <1>1
<1>3. onlineCh' = Append(<<>>, id)
  BY <1>2 DEF Send
<1> QED
  BY <1>2, <1>3

\* The handlers send nothing but what they post.
LEMMA ChannelEffect ==
    ASSUME TypeOK, References, NEW c \in Conns, Step(c), onlineCh' # onlineCh
    PROVE  \/ /\ Post(c) /\ pend[c] \in 1..Len(objs) /\ Send(c, pend[c])
              /\ onlineCh = <<>> /\ onlineCh' = <<pend[c]>>
           \/ /\ PostAway(c) /\ own[c] \in 1..Len(objs) /\ Send(c, own[c])
              /\ onlineCh = <<>> /\ onlineCh' = <<own[c]>>
<1>1. Post(c) \/ PostAway(c)
  BY DEF Step, Client, Handler, Connect, Take, ReadClosed, SignOn, Ready, SelfInfo, SetInfo,
     AddBuddy, CountBuddy, InsertBuddy, RemoveBuddy, Fail, SetAway, Close, Remove
<1>2. CASE Post(c)
  <2>1. pend[c] \in 1..Len(objs) /\ Send(c, pend[c])
    BY <1>2, WorkerFacts DEF Post, Refers
  <2> QED
    BY <1>2, <2>1, SendFacts
<1>3. CASE PostAway(c)
  <2>1. own[c] \in 1..Len(objs) /\ Send(c, own[c])
    BY <1>3, WorkerFacts DEF PostAway, Refers
  <2> QED
    BY <1>3, <2>1, SendFacts
<1> QED
  BY <1>1, <1>2, <1>3

\* The rows of statuses change only under the actor's name.
LEMMA RowEffect ==
    ASSUME TypeOK, NEW c \in Conns, Step(c), NEW w \in Users, w # UserOf(c)
    PROVE  status'[w] = status[w]
BY DEF Step, Client, Handler, Connect, Take, ReadClosed, SignOn, Ready, SelfInfo, SetInfo,
   AddBuddy, CountBuddy, InsertBuddy, RemoveBuddy, Fail, SetAway, Close, Remove, Post,
   PostAway, rows, TypeOK

\* A handler that works for others leaves u alone.
LEMMA Elsewhere ==
    ASSUME Inv0, NEW c \in Conns, Step(c), NEW u \in Users, NobodyAdded(u),
           own[c] # 0 => UserOf(c) # u
    PROVE  Untouched(u) /\ (own[c] # 0 => status'[u] = status[u] /\ sessions'[u] = sessions[u])
<1>1. TypeOK /\ References /\ Works(c)
  BY DEF Inv0
<1>2. ASSUME NEW i \in 1..Len(objs), objs[i].user = u PROVE objs'[i] = objs[i]
  <2>1. SUFFICES ASSUME objs'[i] # objs[i] PROVE FALSE
    OBVIOUS
  <2>2. i = own[c] /\ i # 0
    BY <1>1, <2>1, StatusEffect
  <2> QED
    BY <1>2, <2>2 DEF UserOf
<1>3. ASSUME onlineCh' # onlineCh
      PROVE  \E id \in 1..Len(objs) :
                objs[id].user # u /\ onlineCh = <<>> /\ onlineCh' = <<id>> /\ UNCHANGED objs
  <2>1. CASE Post(c) /\ pend[c] # own[c]
    <3>1. pend[c] \in 1..Len(objs) /\ onlineCh = <<>> /\ onlineCh' = <<pend[c]>>
      BY <1>1, <1>3, <2>1, ChannelEffect DEF Post, PostAway
    <3>2. <<UserOf(c), objs[pend[c]].user>> \in added
      BY <1>1, <2>1 DEF Works, AddedFirst, Post
    <3>3. UserOf(c) \in Users
      BY <1>1, <2>1, WorkerFacts DEF Post, Refers
    <3> QED
      BY <2>1, <3>1, <3>2, <3>3 DEF NobodyAdded, Post, rows
  <2>2. CASE (Post(c) /\ pend[c] = own[c]) \/ PostAway(c)
    <3>1. own[c] \in 1..Len(objs) /\ onlineCh = <<>> /\ onlineCh' = <<own[c]>>
      BY <1>1, <1>3, <2>2, ChannelEffect DEF Post, PostAway
    <3> QED
      BY <2>2, <3>1 DEF UserOf, Post, PostAway, rows
  <2> QED
    BY <1>1, <1>3, <2>1, <2>2, ChannelEffect
<1>4. own[c] # 0 => status'[u] = status[u] /\ sessions'[u] = sessions[u]
  BY <1>1, RowEffect, MapEffect
<1> QED
  BY <1>2, <1>3, <1>4 DEF Untouched


\* A status of Away is settled by the last announcement of the last
\* connection and by nothing else.
LEMMA GoneCause ==
    ASSUME Inv0, NEW c \in Conns, Step(c), NEW u \in Users,
           Gone(u)', status'[u] = "Away", u \notin overlap', NobodyAdded(u)
    PROVE  Announces(u, "Away") \/ (Gone(u) /\ status[u] = "Away" /\ Untouched(u))
<1>1. TypeOK /\ References /\ Works(c)
  BY DEF Inv0
<1>2. overlap \subseteq overlap'
  BY <1>1, HistoryGrows DEF Next, Step
<1>3. ASSUME NEW d \in Conns \ {c}, u \in authed[d]
      PROVE  conn[d] = "dead" \/ (stage[d] \in {"disc", "remove", "ret"} /\ UserOf(d) = u)
  <2>1. /\ own'[d] = own[d] /\ stage'[d] = stage[d]
        /\ conn'[d] = conn[d] /\ authed'[d] = authed[d]
    BY <1>1, StepFrame
  <2>2. conn[d] = "dead" \/ (stage[d] \in {"disc", "remove", "ret"} /\ UserOf(d)' = u)
    BY <1>3, <2>1 DEF Gone
  <2>3. stage[d] # "idle" => own[d] # 0
    BY <1>1, WorkerFacts DEF Refers
  <2> QED
    BY <1>1, <2>1, <2>2, <2>3, SameUser
<1>4. Served(c)'
  BY <1>1, RefersMoved, ActorFacts DEF Refers, Connect, Accept, Unfinished, SignOn, Authenticate,
     Served, TypeOK, TableTypeOK
<1>5. ASSUME u \in authed'[c]
      PROVE  stage'[c] \in {"disc", "remove", "ret"} /\ UserOf(c)' = u
  BY <1>4, <1>5 DEF Gone, Served
<1>6. CASE u \notin authed'[c]
  <2>1. u \notin authed[c]
    BY <1>1, <1>6, HistoryGrows DEF Next, Step
  <2>2. own[c] # 0 => UserOf(c) # u
    BY <1>1, <2>1, WorkerFacts DEF Refers
  <2>3. status'[u] = status[u] /\ Untouched(u)
    BY <1>1, <2>2, Elsewhere, ActorFacts DEF rows
  <2> QED
    BY <1>3, <2>1, <2>3 DEF Gone
<1>7. CASE u \in authed'[c]
  <2>1. PostAway(c) \/ Close(c) \/ Remove(c)
    BY <1>1, <1>5, <1>7, StageEffect
  <2>2. /\ own[c] \in 1..Len(objs) /\ own' = own /\ authed' = authed /\ UNCHANGED <<objs, status>>
        /\ overlap' = overlap
    BY <1>1, <2>1, WorkerFacts DEF PostAway, Close, Remove, RemoveSession, Refers, rows, tableVars, history
  <2>3. UserOf(c) = u
    BY <1>5, <1>7, <2>2 DEF UserOf
  <2>4. CASE PostAway(c)
    <3>1. objs[own[c]].status = "Away"
      BY <1>1, <2>2, <2>3, <2>4 DEF PostAway, Works, SaysAway
    <3>2. onlineCh = <<>> /\ onlineCh' = <<own[c]>>
      BY <1>1, <2>2, <2>4, SendFacts DEF PostAway
    <3> QED
      BY <2>2, <2>3, <3>1, <3>2 DEF Announces, UserOf
  <2>5. CASE Close(c) \/ Remove(c)
    <3>1. stage[c] \in {"disc", "remove"} /\ UNCHANGED onlineCh
      BY <2>5 DEF Close, Remove
    <3> QED
      BY <1>3, <2>2, <2>3, <3>1 DEF Gone, Untouched
  <2> QED
    BY <2>1, <2>4, <2>5
<1> QED
  BY <1>6, <1>7

\* Where a connection is watched and announced, only its own handler can
\* have announced it.
LEMMA OnlineCause ==
    ASSUME Inv0, NEW c \in Conns, Step(c), NEW u \in Users, NEW d \in Conns,
           Watching(d, u)', Announced(d)', ~Changing(d)', NobodyAdded(u)
    PROVE  \/ Announces(u, "Online")
           \/ Watching(d, u) /\ Announced(d) /\ ~Changing(d) /\ Untouched(u)
<1>1. TypeOK /\ References /\ \A e \in Conns : Works(e)
  BY DEF Inv0
<1>2. overlap \subseteq overlap' /\ u \notin overlap'
  BY <1>1, HistoryGrows DEF Next, Step, Watching
<1>3. CASE d # c
  <2>1. /\ own'[d] = own[d] /\ pend'[d] = pend[d] /\ stage'[d] = stage[d]
        /\ conn'[d] = conn[d] /\ authed'[d] = authed[d] /\ said'[d] = said[d]
    BY <1>1, <1>3, StepFrame
  <2>2. conn[d] = "open" /\ own[d] # 0 /\ authed[d] = {u} /\ sessions'[u] = d
    BY <2>1 DEF Watching
  <2>3. Unfinished(d)
    BY <1>1, <2>2 DEF Works, Shut, Unfinished, Served
  <2>4. own[c] # 0 => UserOf(c) # u
    BY <1>2, <1>3, <2>2, <2>3, Others
  <2>5. Untouched(u) /\ status'[u] = status[u] /\ sessions'[u] = sessions[u]
    BY <1>1, <2>4, Elsewhere, ActorFacts DEF rows
  <2>6. UserOf(d) = u /\ UserOf(d)' = u /\ own[d] \in 1..Len(objs)
    BY <1>1, <2>1, <2>2, SameUser, WorkerFacts
  <2>7. objs'[own[d]] = objs[own[d]]
    BY <2>5, <2>6 DEF Untouched, UserOf
  <2>8. Watching(d, u)
    BY <1>2, <2>2, <2>5 DEF Watching
  <2>9. Announced(d)
    BY <2>1, <2>5, <2>6, <2>7 DEF Announced
  <2>10. ~Changing(d)
    BY <2>1 DEF Changing
  <2> QED
    BY <2>5, <2>8, <2>9, <2>10
<1>4. CASE d = c
  <2>1. /\ conn'[c] = "open" /\ own'[c] # 0 /\ sessions'[u] = c /\ authed'[c] = {u}
        /\ said'[c] = "Online" /\ objs'[own'[c]].status = "Online" /\ ~Changing(c)'
        /\ status'[UserOf(c)'] = "Online"
    BY <1>4 DEF Watching, Announced
  <2>2. /\ own[c] \in 1..Len(objs) /\ own' = own /\ authed' = authed
        /\ UserOf(c) = u /\ Unfinished(c) /\ ~Connect(c) /\ \A v \in Users : ~SignOn(c, v)
    <3>1. ~Connect(c)
      BY <1>1, <2>1, ActorFacts
    <3>2. \A v \in Users : ~SignOn(c, v)
      BY <1>1, <2>1 DEF SignOn, TypeOK
    <3> QED
      BY <1>1, <2>1, <3>1, <3>2, ActorFacts
  <2>3. CASE (Post(c) /\ pend[c] = own[c]) \/ PostAway(c)
    <3>1. Send(c, own[c]) /\ UNCHANGED objs
      BY <2>3 DEF Post, PostAway, rows
    <3>2. objs[own[c]].status = "Online"
      BY <2>1, <2>2, <3>1
    <3>3. onlineCh = <<>> /\ onlineCh' = <<own[c]>>
      BY <1>1, <2>2, <3>1, SendFacts
    <3> QED
      BY <2>2, <3>1, <3>2, <3>3 DEF Announces, UserOf
  <2>4. ~ReadClosed(c) /\ ~Fail(c) /\ ~Close(c) /\ ~Remove(c)
    BY <1>1, <2>1 DEF ReadClosed, Fail, Close, Remove, RemoveSession, tableVars, TypeOK, TableTypeOK,
       Works, Shut
  <2>5. ~Ready(c) /\ ~SetInfo(c)
    BY <1>1, <2>1, <2>2 DEF Ready, SetInfo, Changing, Goto, TypeOK
  <2>6. ~SelfInfo(c)
    BY <1>1, <2>1 DEF SelfInfo, TypeOK
  <2>7. ~SetAway(c)
    <3>1. objs[own[c]] \in Objects
      BY <1>1, <2>2, WorkerFacts
    <3>2. SetStatus(c, "Away") => objs'[own[c]].status = "Away"
      BY <1>1, <2>2, <3>1 DEF SetStatus, TypeOK, Objects
    <3> QED
      BY <2>1, <2>2, <3>2 DEF SetAway
  <2>8. CASE Take(c) \/ AddBuddy(c) \/ CountBuddy(c) \/ InsertBuddy(c) \/ RemoveBuddy(c)
    <3>1. /\ UNCHANGED <<status, onlineCh, said, conn>> /\ stage[c] # "post"
      BY <2>8 DEF Take, SetSession, AddBuddy, CountBuddy, InsertBuddy, RemoveBuddy, rows, tableVars, history
    <3>2. \A i \in 1..Len(objs) : objs'[i] = objs[i]
      BY <1>1, <2>8, StatusEffect DEF Take, AddBuddy, CountBuddy, InsertBuddy, RemoveBuddy,
         Ready, SelfInfo, SetInfo, Fail, SetAway, rows
    <3>3. sessions[u] = c
      <4>1. CASE Take(c)
        BY <1>1, <1>2, <2>1, <2>2, <3>1 DEF Works, Registered
      <4>2. CASE ~Take(c)
        BY <2>1, <2>8, <4>2 DEF AddBuddy, CountBuddy, InsertBuddy, RemoveBuddy, tableVars
      <4> QED
        BY <4>1, <4>2
    <3>4. UserOf(c)' = UserOf(c)
      BY <2>2, <3>2 DEF UserOf
    <3>5. Watching(c, u)
      BY <1>2, <2>1, <2>2, <3>1, <3>3 DEF Watching
    <3>6. Announced(c)
      BY <2>1, <2>2, <3>1, <3>2, <3>4 DEF Announced
    <3> QED
      BY <1>4, <3>1, <3>2, <3>5, <3>6 DEF Untouched, Changing
  <2>9. CASE Post(c) /\ pend[c] # own[c]
    <3>1. /\ pend[c] \in 1..Len(objs) /\ Send(c, pend[c])
          /\ UNCHANGED <<sessions, conn, status, objs, overlap>>
      BY <1>1, <2>9, WorkerFacts DEF Post, Refers, tableVars, rows
    <3>2. said' = said /\ onlineCh = <<>> /\ onlineCh' = <<pend[c]>>
      BY <1>1, <2>9, <3>1, SendFacts DEF Send
    <3>3. objs[pend[c]].user # u
      <4>1. <<UserOf(c), objs[pend[c]].user>> \in added
        BY <1>1, <2>9 DEF Works, AddedFirst, Post
      <4> QED
        BY <2>2, <4>1 DEF NobodyAdded
    <3>4. Watching(c, u)
      BY <1>2, <2>1, <2>2, <3>1 DEF Watching
    <3>5. Announced(c) /\ ~Changing(c)
      BY <2>1, <2>2, <2>9, <3>1, <3>2 DEF Announced, Changing, UserOf
    <3> QED
      BY <1>4, <3>1, <3>2, <3>3, <3>4, <3>5 DEF Untouched
  <2> QED
    BY <2>2, <2>3, <2>4, <2>5, <2>6, <2>7, <2>8, <2>9 DEF Step, Client, Handler
<1> QED
  BY <1>3, <1>4

\* A status that is settled after a step was so before, or has just been
\* announced.
LEMMA SettledCause ==
    ASSUME Inv0, NEW c \in Conns, Step(c), NEW u \in Users, NEW s \in Statuses,
           Settled(u, s)', u \notin overlap', NobodyAdded(u)
    PROVE  Announces(u, s) \/ (Settled(u, s) /\ Untouched(u))
<1>1. CASE s = "Away" /\ Gone(u)'
  BY <1>1, GoneCause DEF Settled
<1>2. CASE s = "Online" /\ \E d \in Conns : (Watching(d, u) /\ Announced(d) /\ ~Changing(d))'
  <2>1. PICK d \in Conns : (Watching(d, u) /\ Announced(d) /\ ~Changing(d))'
    BY <1>2
  <2>2. CASE Announces(u, "Online")
    BY <1>2, <2>2
  <2>3. CASE Watching(d, u) /\ Announced(d) /\ ~Changing(d) /\ Untouched(u)
    <3>1. UserOf(d) = u
      BY <2>3, WorkerFacts DEF Watching, Inv0, Refers
    <3> QED
      BY <1>2, <2>3, <3>1 DEF Settled, Announced
  <2> QED
    BY <2>1, <2>2, <2>3, OnlineCause
<1> QED
  BY <1>1, <1>2 DEF Settled


\* SpeaksTrue for one user.
Truth(u, s) ==
    /\ \A k \in 1..Len(onlineCh) :
          objs[onlineCh[k]].user = u => objs[onlineCh[k]].status = s
    /\ routine # "recv" /\ Subject = u =>
          \/ Waiting(u)
          \/ objs[obj].status = s /\ (routine = "writeaway" => s = "Away")

\* The channel holds objects that exist, and one at most.
LEMMA ChannelFacts ==
    ASSUME TypeOK, References
    PROVE  /\ Len(onlineCh) \in {0, 1} /\ (Len(onlineCh) = 0 <=> onlineCh = <<>>)
           /\ \A k \in 1..Len(onlineCh) : onlineCh[k] \in 1..Len(objs)
           /\ routine # "recv" => obj \in 1..Len(objs) /\ Subject \in Users
<1>1. onlineCh \in Seq(Ids) /\ Len(onlineCh) <= 1 /\ obj \in 0..MaxObjs /\ objs \in Seq(Objects)
      /\ MaxObjs \in Nat
  BY NotificationAssumption DEF TypeOK, ChanCap
<1>2. \A k \in 1..Len(onlineCh) : onlineCh[k] \in Ids
  BY <1>1, ElementOfSeq
<1>3. \A k \in 1..Len(onlineCh) : onlineCh[k] \in 1..Len(objs)
  BY <1>1, <1>2 DEF References, Ids
<1>4. routine # "recv" => obj \in 1..Len(objs)
  BY <1>1 DEF References
<1>5. ASSUME routine # "recv" PROVE Subject \in Users
  <2>1. objs[obj] \in Objects
    BY <1>1, <1>4, <1>5, ElementOfSeq
  <2> QED
    BY <2>1 DEF Subject, Objects
<1>6. Len(onlineCh) \in {0, 1} /\ (Len(onlineCh) = 0 <=> onlineCh = <<>>)
  <2>1. Len(onlineCh) \in {0, 1}
    <3>1. \A n \in Nat : n <= 1 => n \in {0, 1}
      BY SMT
    <3>2. Len(onlineCh) \in Nat /\ Len(onlineCh) <= 1
      BY <1>1
    <3> QED
      BY <3>1, <3>2
  <2>2. Len(onlineCh) = 0 <=> onlineCh = <<>>
    BY <1>1, EmptySeq
  <2> QED
    BY <1>1, <2>1, <2>2
<1> QED
  BY <1>3, <1>4, <1>5, <1>6

\* What a handler does not touch waits as before.
LEMMA WaitingKept ==
    ASSUME TypeOK, References, Grows, NEW v \in Users, Waiting(v),
           onlineCh' = onlineCh \/ onlineCh = <<>>
    PROVE  Waiting(v)'
<1>1. PICK k \in 1..Len(onlineCh) : objs[onlineCh[k]].user = v
  BY DEF Waiting
<1>2. onlineCh' = onlineCh
  BY <1>1, ChannelFacts
<1>3. objs'[onlineCh[k]].user = v
  BY <1>1, ChannelFacts DEF Grows
<1> QED
  BY <1>1, <1>2, <1>3 DEF Waiting

\* A handler's step keeps the truth about a user it does not touch.
LEMMA TruthKept ==
    ASSUME TypeOK, References, NEW c \in Conns, Step(c), NEW u \in Users, NEW s,
           Truth(u, s), Untouched(u)
    PROVE  Truth(u, s)'
<1>1. Grows /\ UNCHANGED <<routine, obj>>
  BY Growth, StepFrame
<1>2. onlineCh' = onlineCh \/ onlineCh = <<>>
  BY DEF Untouched
<1>3. \A i \in 1..Len(objs) : /\ objs'[i].user = objs[i].user
                              /\ objs[i].user = u => objs'[i] = objs[i]
  BY <1>1 DEF Grows, Untouched
<1>4. ASSUME NEW k \in 1..Len(onlineCh'), objs'[onlineCh'[k]].user = u
      PROVE  objs'[onlineCh'[k]].status = s
  <2>1. CASE onlineCh' = onlineCh
    BY <1>3, <1>4, <2>1, ChannelFacts DEF Truth
  <2>2. ASSUME NEW id \in 1..Len(objs), objs[id].user # u, onlineCh' = <<id>>, UNCHANGED objs
        PROVE  FALSE
    BY <1>4, <2>2
  <2> QED
    BY <2>1, <2>2 DEF Untouched
<1>5. ASSUME routine' # "recv", Subject' = u
      PROVE  \/ Waiting(u)'
             \/ objs'[obj'].status = s /\ (routine' = "writeaway" => s = "Away")
  <2>1. obj \in 1..Len(objs) /\ Subject = u /\ objs'[obj] = objs[obj]
    BY <1>1, <1>3, <1>5, ChannelFacts DEF Subject
  <2> QED
    BY <1>1, <1>2, <1>5, <2>1, WaitingKept DEF Truth
<1> QED
  BY <1>4, <1>5 DEF Truth

\* Whoever announces u with status s makes it so.
LEMMA TruthMade ==
    ASSUME TypeOK, References, NEW u \in Users, NEW s, Announces(u, s)
    PROVE  Truth(u, s)' /\ Waiting(u)'
<1>1. PICK id \in 1..Len(objs) :
         /\ objs[id].user = u /\ objs[id].status = s
         /\ onlineCh = <<>> /\ onlineCh' = <<id>> /\ UNCHANGED objs
  BY DEF Announces
<1>2. Len(onlineCh') = 1 /\ onlineCh'[1] = id
  BY <1>1
<1> QED
  BY <1>1, <1>2 DEF Truth, Waiting

\* The routine speaks of its subject only what the object says.
LEMMA TruthSpoken ==
    ASSUME TypeOK, References, Routine, NEW u \in Users, NEW s \in Statuses, Truth(u, s)
    PROVE  Truth(u, s)'
<1>1. UNCHANGED objs
  BY RoutineFrame DEF rows
<1>2. CASE Receive
  <2>1. Len(onlineCh) = 1 /\ onlineCh' = <<>> /\ obj' = onlineCh[1] /\ routine' = "query"
    <3>1. Len(onlineCh) = 1 /\ onlineCh \in Seq(Ids)
      BY <1>2, ChannelFacts DEF Receive, TypeOK
    <3>2. Tail(onlineCh) \in Seq(Ids) /\ Len(Tail(onlineCh)) = 0 /\ Head(onlineCh) = onlineCh[1]
      BY <1>2, <3>1 DEF Receive
    <3>3. Tail(onlineCh) = <<>>
      BY <3>2, EmptySeq
    <3> QED
      BY <1>2, <3>1, <3>2, <3>3 DEF Receive
  <2>2. objs[onlineCh[1]].user = u => objs[onlineCh[1]].status = s
    BY <2>1 DEF Truth
  <2> QED
    BY <1>1, <2>1, <2>2 DEF Truth, Subject
<1>3. CASE ~Receive
  <2>1. UNCHANGED onlineCh
    BY <1>3 DEF Routine, Query, Lookup, Write, WriteAway, Self, List
  <2>2. routine' # "recv" => obj' = obj /\ routine # "recv"
    BY <1>3 DEF Routine, Query, Lookup, Write, WriteAway, Self, List, Finish
  <2>3. routine' = "writeaway" => objs[obj].status # "Online"
    BY <1>3 DEF Routine, Query, Lookup, Write, WriteAway, Self, List, Finish
  <2> QED
    BY <1>1, <2>1, <2>2, <2>3 DEF Truth, Subject, Waiting, Statuses
<1> QED
  BY <1>2, <1>3

\* Every step keeps the truth.
LEMMA TruthStep ==
    ASSUME Inv0, SpeaksTrue, [Next]_vars
    PROVE  SpeaksTrue'
<1>1. TypeOK /\ References
  BY DEF Inv0
<1>2. /\ added \subseteq added' /\ overlap \subseteq overlap'
  BY <1>1, HistoryGrows
<1>3. SUFFICES ASSUME NEW u \in Users, NEW s \in Statuses, Settled(u, s)', u \notin overlap',
                      NobodyAdded(u)'
               PROVE  Truth(u, s)'
  BY DEF SpeaksTrue, Truth, NobodyAdded
<1>4. NobodyAdded(u) /\ u \notin overlap
  BY <1>2, <1>3 DEF NobodyAdded
<1>5. Settled(u, s) => Truth(u, s)
  BY <1>4 DEF SpeaksTrue, Truth, NobodyAdded
<1>6. ASSUME NEW c \in Conns, Step(c) PROVE Truth(u, s)'
  BY <1>1, <1>3, <1>4, <1>5, <1>6, SettledCause, TruthKept, TruthMade
<1>7. CASE Routine
  <2>1. UNCHANGED <<tableVars, rows, handlers, said, overlap>>
    BY <1>7, RoutineFrame
  <2>2. Settled(u, s)
    BY <1>3, <2>1 DEF Settled, Gone, Watching, Announced, Changing, UserOf, tableVars, rows, handlers
  <2> QED
    BY <1>1, <1>5, <1>7, <2>2, TruthSpoken
<1>8. CASE Restart
  BY <1>8 DEF Restart, Truth
<1>9. CASE UNCHANGED vars
  <2>1. Settled(u, s)
    BY <1>3, <1>9 DEF Settled, Gone, Watching, Announced, Changing, UserOf, vars, tableVars, rows,
       handlers, history
  <2> QED
    BY <1>5, <1>9, <2>1 DEF Truth, Waiting, Subject, vars, rows, delivery
<1> QED
  BY <1>6, <1>7, <1>8, <1>9 DEF Next, Step


-----------------------------------------------------------------------------
(***************************************************************************)
(* What visible users are told of their buddies.                           *)
(***************************************************************************)

\* The hypotheses of Agreement ...
Due(c, w, u, s) ==
    /\ w # u /\ u \notin overlap /\ MutualBuddies(w, u)
    /\ Visible(c, w) /\ ~Changing(c) /\ Settled(u, s)

\* ... and what it promises.
Covered(c, w, u, s) ==
    \/ Waiting(u) \/ Waiting(w)
    \/ TellsOf(c, w, u) \/ TellsTo(c, w, u, s) \/ Told(c, w, u, s)

\* Somebody becomes visible by announcing himself and in no other way.
LEMMA VisibleCause ==
    ASSUME Inv0, NEW c \in Conns, Step(c), NEW d \in Conns, NEW w \in Users,
           Visible(d, w)', ~Changing(d)'
    PROVE  (Visible(d, w) /\ ~Changing(d)) \/ Waiting(w)'
<1>1. TypeOK /\ References /\ \A e \in Conns : Works(e)
  BY DEF Inv0
<1>2. overlap \subseteq overlap' /\ w \notin overlap'
  BY <1>1, HistoryGrows DEF Next, Step, Visible, Watching
<1>3. CASE d # c
  <2>1. /\ own'[d] = own[d] /\ pend'[d] = pend[d] /\ stage'[d] = stage[d]
        /\ conn'[d] = conn[d] /\ authed'[d] = authed[d] /\ said'[d] = said[d]
    BY <1>1, <1>3, StepFrame
  <2>2. conn[d] = "open" /\ own[d] # 0 /\ authed[d] = {w} /\ sessions'[w] = d
    BY <2>1 DEF Visible, Watching
  <2>3. Unfinished(d)
    BY <1>1, <2>2 DEF Works, Shut, Unfinished, Served
  <2>4. own[c] # 0 => UserOf(c) # w
    BY <1>2, <1>3, <2>2, <2>3, Others
  <2>5. status'[w] = status[w] /\ sessions'[w] = sessions[w]
    BY <1>1, <2>4, MapEffect, RowEffect, ActorFacts DEF rows
  <2> QED
    BY <1>2, <2>1, <2>2, <2>5 DEF Visible, Watching, Changing
<1>4. CASE d = c
  <2>1. /\ conn'[c] = "open" /\ own'[c] # 0 /\ sessions'[w] = c /\ authed'[c] = {w}
        /\ said'[c] # "nothing" /\ status'[w] = "Online" /\ ~Changing(c)'
    BY <1>4 DEF Visible, Watching
  <2>2. /\ own[c] \in 1..Len(objs) /\ own' = own /\ authed' = authed
        /\ UserOf(c) = w /\ Unfinished(c) /\ ~Connect(c) /\ \A v \in Users : ~SignOn(c, v)
    <3>1. ~Connect(c)
      BY <1>1, <2>1, ActorFacts
    <3>2. \A v \in Users : ~SignOn(c, v)
      BY <1>1, <2>1 DEF SignOn, TypeOK
    <3> QED
      BY <1>1, <2>1, <3>1, <3>2, ActorFacts
  <2>3. CASE (Post(c) /\ pend[c] = own[c]) \/ PostAway(c)
    <3>1. Send(c, own[c]) /\ UNCHANGED objs
      BY <2>3 DEF Post, PostAway, rows
    <3>2. onlineCh' = <<own[c]>>
      BY <1>1, <2>2, <3>1, SendFacts
    <3>3. Len(onlineCh') = 1 /\ objs'[onlineCh'[1]].user = w
      BY <2>2, <3>1, <3>2 DEF UserOf
    <3> QED
      BY <3>3 DEF Waiting
  <2>4. ~ReadClosed(c) /\ ~Fail(c) /\ ~Close(c) /\ ~Remove(c)
    BY <1>1, <2>1 DEF ReadClosed, Fail, Close, Remove, RemoveSession, tableVars, TypeOK, TableTypeOK,
       Works, Shut
  <2>5. ~Ready(c) /\ ~SetInfo(c)
    BY <1>1, <2>1, <2>2 DEF Ready, SetInfo, Changing, Goto, TypeOK
  <2>6. ~SelfInfo(c)
    BY <1>1, <2>1 DEF SelfInfo, TypeOK
  <2>7. CASE Take(c)
    <3>1. UNCHANGED <<conn, status, said>> /\ stage[c] # "post"
      BY <2>7 DEF Take, SetSession, rows, history
    <3>2. sessions[w] = c
      BY <1>1, <1>2, <2>1, <2>2, <3>1 DEF Works, Registered
    <3> QED
      BY <1>2, <1>4, <2>1, <2>2, <3>1, <3>2 DEF Visible, Watching, Changing
  <2>8. CASE SetAway(c) \/ AddBuddy(c) \/ CountBuddy(c) \/ InsertBuddy(c) \/ RemoveBuddy(c)
    <3>1. UNCHANGED <<sessions, conn, said>> /\ stage[c] # "post"
      BY <2>8 DEF SetAway, AddBuddy, CountBuddy, InsertBuddy, RemoveBuddy, tableVars, history
    <3>2. status[w] = "Online"
      BY <1>1, <2>1, <2>2, <2>8 DEF SetAway, AddBuddy, CountBuddy, InsertBuddy, RemoveBuddy,
         rows, TypeOK
    <3> QED
      BY <1>2, <1>4, <2>1, <2>2, <3>1, <3>2 DEF Visible, Watching, Changing
  <2>9. CASE Post(c) /\ pend[c] # own[c]
    <3>1. /\ Send(c, pend[c]) /\ UNCHANGED <<sessions, conn, status, overlap>>
      BY <2>9 DEF Post, tableVars, rows
    <3>2. said' = said
      BY <2>9, <3>1 DEF Send
    <3> QED
      BY <1>4, <2>1, <2>2, <2>9, <3>1, <3>2 DEF Visible, Watching, Changing
  <2> QED
    BY <2>2, <2>3, <2>4, <2>5, <2>6, <2>7, <2>8, <2>9 DEF Step, Client, Handler
<1> QED
  BY <1>3, <1>4

\* Who list each other did so before the step, if nobody has been added.
LEMMA MutualCause ==
    ASSUME TypeOK, References, NEW c \in Conns, Step(c), NEW w \in Users, NEW u \in Users,
           MutualBuddies(w, u)'
    PROVE  MutualBuddies(w, u)
<1>1. added \subseteq added'
  BY HistoryGrows DEF Next, Step
<1>2. ASSUME NEW p \in Pairs, p \notin added', lists'[p] > 0 PROVE lists[p] > 0
  <2>1. CASE InsertBuddy(c)
    <3>1. p # NewPair(c)
      BY <1>2, <2>1 DEF InsertBuddy
    <3> QED
      BY <1>2, <2>1, <3>1 DEF InsertBuddy, TypeOK
  <2>2. CASE lists'[p] \in {lists[p], 0}
    BY <1>2, <2>2
  <2> QED
    BY <2>1, <2>2, RowsEffect
<1>3. <<w, u>> \in Pairs /\ <<u, w>> \in Pairs
  BY DEF Pairs
<1> QED
  BY <1>1, <1>2, <1>3 DEF MutualBuddies

\* A handler keeps what is promised, or announces who has changed.
LEMMA CoveredKept ==
    ASSUME Inv0, NEW c \in Conns, Step(c), NEW d \in Conns, NEW w \in Users, NEW u \in Users,
           NEW s \in Statuses, Due(d, w, u, s)', Due(d, w, u, s) => Covered(d, w, u, s)
    PROVE  Covered(d, w, u, s)'
<1>1. TypeOK /\ References
  BY DEF Inv0
<1>2. overlap \subseteq overlap' /\ Grows
  BY <1>1, HistoryGrows, Growth DEF Next, Step
<1>3. MutualBuddies(w, u) /\ NobodyAdded(u)
  BY <1>1, MutualCause DEF Due, MutualBuddies, NobodyAdded
<1>4. (Visible(d, w) /\ ~Changing(d)) \/ Waiting(w)'
  BY VisibleCause DEF Due
<1>5. Announces(u, s) \/ (Settled(u, s) /\ Untouched(u))
  BY <1>3, SettledCause DEF Due
<1>6. CASE Waiting(w)'
  BY <1>6 DEF Covered
<1>7. CASE Announces(u, s)
  BY <1>1, <1>7, TruthMade DEF Covered
<1>8. CASE Visible(d, w) /\ ~Changing(d) /\ Settled(u, s) /\ Untouched(u)
  <2>1. Covered(d, w, u, s)
    BY <1>2, <1>3, <1>8 DEF Due
  <2>2. \A v \in Users : Waiting(v) => Waiting(v)'
    BY <1>1, <1>2, <1>8, WaitingKept DEF Untouched
  <2>3. UNCHANGED <<routine, obj, found, todo, target, heard>>
    BY <1>1, StepFrame
  <2>4. routine # "recv" => Subject' = Subject
    BY <1>1, <1>2, <2>3, ChannelFacts DEF Subject, Grows
  <2>5. TellsOf(d, w, u) => TellsOf(d, w, u)'
    BY <2>3, <2>4 DEF TellsOf
  <2>6. TellsTo(d, w, u, s) => TellsTo(d, w, u, s)'
    BY <2>3, <2>4 DEF TellsTo, RowsSay
  <2>7. Told(d, w, u, s) => Told(d, w, u, s)'
    BY <2>3, <2>4 DEF Told, RowsSay
  <2> QED
    BY <2>1, <2>2, <2>5, <2>6, <2>7 DEF Covered
<1> QED
  BY <1>4, <1>5, <1>6, <1>7, <1>8


\* Every way of telling reaches an open connection, or is remembered as lost.
LEMMA TellFacts ==
    ASSUME TypeOK, NEW v \in Users, NEW t \in Heard, Tell(v, t), ~lost'
    PROVE  /\ \A d \in Conns, u \in Users : (d = target /\ u = v) \/ heard'[d][u] = heard[d][u]
           /\ \A d \in Conns : d = target /\ conn[d] = "open" => heard'[d][v] = t
<1>1. CASE conn[target] = "open" /\ heard' = [heard EXCEPT ![target][v] = t]
  BY <1>1 DEF TypeOK
<1>2. CASE conn[target] # "open" /\ UNCHANGED heard
  BY <1>2
<1>3. conn[target] = "open" => ~(lost' = (lost \/ conn[target] = "open"))
  OBVIOUS
<1> QED
  BY <1>1, <1>2, <1>3 DEF Tell

\* The rows that a query finds are those of the buddies, as they are.
LEMMA QueryFacts ==
    ASSUME TypeOK, NEW u \in Users, NEW w \in Users
    PROVE  /\ \A r \in Watchers(u) : r.user = w => r.status = status[w]
           /\ lists[<<w, u>>] > 0 => \E r \in Watchers(u) : r.user = w /\ r.status = status[w]
<1>1. ASSUME NEW r \in Watchers(u), r.user = w PROVE r.status = status[w]
  <2>1. PICK x \in Users :
           r \in {[user |-> x, status |-> status[x], row |-> n] : n \in 1..lists[<<x, u>>]}
    BY DEF Watchers
  <2>2. PICK n \in 1..lists[<<x, u>>] : r = [user |-> x, status |-> status[x], row |-> n]
    BY <2>1
  <2> QED
    BY <1>1, <2>2
<1>2. ASSUME lists[<<w, u>>] > 0
      PROVE  \E r \in Watchers(u) : r.user = w /\ r.status = status[w]
  <2> DEFINE r == [user |-> w, status |-> status[w], row |-> 1]
  <2>1. 1 \in 1..lists[<<w, u>>]
    BY <1>2 DEF TypeOK, Pairs
  <2>2. r \in {[user |-> w, status |-> status[w], row |-> n] : n \in 1..lists[<<w, u>>]}
    BY <2>1
  <2>3. r \in Watchers(u)
    BY <2>2 DEF Watchers
  <2> QED
    BY <2>3
<1> QED
  BY <1>1, <1>2

\* The routine keeps what is promised: what it takes from the channel it
\* asks for, what it asks for it finds, whom it finds it looks up, and whom
\* it has looked up it tells.
LEMMA CoveredServed ==
    ASSUME TypeOK, References, HeldRelated, Routine, ~lost',
           NEW c \in Conns, NEW w \in Users, NEW u \in Users, NEW s \in Statuses,
           Due(c, w, u, s), Covered(c, w, u, s), Truth(u, s)
    PROVE  Covered(c, w, u, s)'
<1>1. UNCHANGED objs
  BY RoutineFrame DEF rows
<1>2. /\ conn[c] = "open" /\ sessions[w] = c /\ authed[c] = {w}
      /\ status[w] = "Online" /\ status[u] = s /\ w # u
      /\ lists[<<w, u>>] > 0 /\ lists[<<u, w>>] > 0
  BY DEF Due, Visible, Watching, Settled, MutualBuddies
<1>3. CASE Receive
  <2>1. routine = "recv" /\ routine' = "query" /\ obj' = Head(onlineCh) /\ UNCHANGED heard
    BY <1>3 DEF Receive, history
  <2>2. ASSUME NEW v \in Users, Waiting(v) PROVE Subject' = v
    <3>1. Len(onlineCh) = 1 /\ objs[onlineCh[1]].user = v
      BY <2>2, ChannelFacts DEF Waiting
    <3>2. Head(onlineCh) = onlineCh[1]
      BY <3>1 DEF TypeOK
    <3> QED
      BY <1>1, <2>1, <3>1, <3>2 DEF Subject
  <2>3. Waiting(u) => TellsOf(c, w, u)'
    BY <2>1, <2>2 DEF TellsOf
  <2>4. Waiting(w) => TellsTo(c, w, u, s)'
    BY <2>1, <2>2 DEF TellsTo
  <2>5. Told(c, w, u, s) => Told(c, w, u, s)'
    BY <2>1 DEF Told
  <2> QED
    BY <2>1, <2>3, <2>4, <2>5 DEF Covered, TellsOf, TellsTo
<1>4. CASE ~Receive /\ (Waiting(u) \/ Waiting(w))
  <2>1. UNCHANGED onlineCh
    BY <1>4 DEF Routine, Query, Lookup, Write, WriteAway, Self, List
  <2> QED
    BY <1>1, <1>4, <2>1 DEF Covered, Waiting
<1> DEFINE Drained == ~Waiting(u) /\ ~Waiting(w)
<1>5. Drained => TellsOf(c, w, u) \/ TellsTo(c, w, u, s) \/ Told(c, w, u, s)
  BY DEF Covered
<1>6. ASSUME Drained, routine # "recv", Subject = u
      PROVE  objs[obj].status = s /\ (routine = "writeaway" => s = "Away")
  BY <1>6 DEF Truth
<1>7. CASE Drained /\ Query
  <2>1. /\ routine = "query" /\ routine' = "lookup" /\ Subject' = Subject /\ Subject \in Users
        /\ found' = Watchers(Subject) /\ todo' = Watchers(Subject) /\ UNCHANGED heard
    BY <1>1, <1>7, ChannelFacts DEF Query, Subject
  <2>2. CASE Subject = u
    <3>1. \E r \in todo' : r.user = w /\ r.status = "Online"
      BY <1>2, <2>1, <2>2, QueryFacts
    <3>2. TellsOf(c, w, u)'
      BY <2>1, <2>2, <3>1 DEF TellsOf
    <3> QED
      BY <3>2 DEF Covered
  <2>3. CASE Subject = w
    <3>1. \A r \in found' : r.user = u => r.status = s
      BY <1>2, <2>1, <2>3, QueryFacts
    <3>2. \E r \in found' : r.user = u
      BY <1>2, <2>1, <2>3, QueryFacts
    <3>3. TellsTo(c, w, u, s)'
      BY <2>1, <2>3, <3>1, <3>2 DEF TellsTo, RowsSay
    <3> QED
      BY <3>3 DEF Covered
  <2>4. CASE Subject # u /\ Subject # w
    <3>1. Told(c, w, u, s)
      BY <1>5, <1>7, <2>4 DEF TellsOf, TellsTo
    <3>2. Told(c, w, u, s)'
      BY <2>1, <2>4, <3>1 DEF Told
    <3> QED
      BY <3>2 DEF Covered
  <2> QED
    BY <2>2, <2>3, <2>4
<1>8. CASE Drained /\ Lookup
  <2>1. routine = "lookup" /\ Subject' = Subject /\ UNCHANGED <<found, heard>>
        /\ routine' \in {"lookup", "write"}
    BY <1>1, <1>8 DEF Lookup, Subject, history
  <2>2. CASE TellsOf(c, w, u)
    <3>1. Subject = u /\ \E r \in todo : r.user = w /\ r.status = "Online"
      BY <2>1, <2>2 DEF TellsOf
    <3>2. PICK r \in todo : r.user = w /\ r.status = "Online"
      BY <3>1
    <3>3. PICK x \in todo :
             /\ todo' = todo \ {x}
             /\ IF x.status = "Online" /\ sessions[x.user] # NoConn
                THEN routine' = "write" /\ target' = sessions[x.user]
                ELSE UNCHANGED <<routine, target>>
      BY <1>8 DEF Lookup
    <3>4. CASE x = r
      <4>1. routine' = "write" /\ target' = c
        BY <1>2, <3>2, <3>3, <3>4, NoConnAssumption
      <4>2. TellsOf(c, w, u)'
        BY <2>1, <3>1, <4>1 DEF TellsOf
      <4> QED
        BY <4>2 DEF Covered
    <3>5. CASE x # r
      <4>1. r \in todo'
        BY <3>3, <3>5
      <4>2. TellsOf(c, w, u)'
        BY <2>1, <3>1, <3>2, <4>1 DEF TellsOf
      <4> QED
        BY <4>2 DEF Covered
    <3> QED
      BY <3>4, <3>5
  <2>3. CASE TellsTo(c, w, u, s)
    <3>1. TellsTo(c, w, u, s)'
      BY <2>1, <2>3 DEF TellsTo, RowsSay
    <3> QED
      BY <3>1 DEF Covered
  <2>4. CASE Told(c, w, u, s)
    <3>1. Told(c, w, u, s)'
      BY <2>1, <2>4 DEF Told, RowsSay
    <3> QED
      BY <3>1 DEF Covered
  <2> QED
    BY <1>5, <1>8, <2>2, <2>3, <2>4
<1>9. CASE Drained /\ (Write \/ WriteAway)
  <2>1. /\ routine \in {"write", "writeaway"} /\ Subject' = Subject /\ UNCHANGED <<found, todo>>
        /\ routine' = "lookup" \/ (routine' = "writeaway" /\ target' = target)
    BY <1>1, <1>9 DEF Write, WriteAway, Subject
  <2>2. Subject \in Users
    BY <2>1, ChannelFacts
  <2>3. CASE TellsTo(c, w, u, s)
    <3>1. TellsTo(c, w, u, s)'
      BY <2>1, <2>3 DEF TellsTo, RowsSay
    <3> QED
      BY <3>1 DEF Covered
  <2>4. CASE TellsOf(c, w, u) /\ \E r \in todo : r.user = w /\ r.status = "Online"
    <3>1. TellsOf(c, w, u)'
      BY <2>1, <2>4 DEF TellsOf
    <3> QED
      BY <3>1 DEF Covered
  <2>5. \/ routine' = "writeaway" /\ UNCHANGED heard
        \/ \E t \in Statuses : objs[obj].status = t /\ Tell(Subject, t)
        \/ routine = "writeaway" /\ objs[obj].status # "Away" /\ UNCHANGED heard
    BY <1>9, <2>1 DEF Write, WriteAway, Statuses
  <2>6. ASSUME Subject = u, NEW t \in Statuses, objs[obj].status = t, Tell(u, t)
        PROVE  t = s /\ (target = c => heard'[c][u] = s)
    <3>1. t = s
      BY <1>6, <1>9, <2>1, <2>6
    <3>2. target = c => heard'[c][u] = t
      BY <1>2, <2>6, TellFacts DEF Heard
    <3> QED
      BY <3>1, <3>2
  <2>7. CASE TellsOf(c, w, u) /\ target = c
    <3>1. Subject = u
      BY <2>7 DEF TellsOf
    <3>2. CASE routine' = "writeaway"
      <4>1. TellsOf(c, w, u)'
        BY <2>1, <2>7, <3>1, <3>2 DEF TellsOf
      <4> QED
        BY <4>1 DEF Covered
    <3>3. CASE routine' # "writeaway"
      <4>1. ~(routine = "writeaway" /\ objs[obj].status # "Away")
        BY <1>6, <1>9, <2>1, <3>1
      <4>2. heard'[c][u] = s
        BY <2>5, <2>6, <2>7, <3>1, <3>3, <4>1
      <4>3. Told(c, w, u, s)'
        BY <1>2, <2>1, <3>1, <4>2 DEF Told
      <4> QED
        BY <4>3 DEF Covered
    <3> QED
      BY <3>2, <3>3
  <2>8. CASE Told(c, w, u, s)
    <3>1. heard[c][u] = s
      BY <2>8 DEF Told
    <3>2. ASSUME NEW t \in Statuses, objs[obj].status = t, Tell(Subject, t)
          PROVE  heard'[c][u] = s
      <4>1. CASE Subject = u /\ target = c
        BY <2>6, <3>2, <4>1
      <4>2. CASE ~(Subject = u /\ target = c)
        BY <2>2, <3>1, <3>2, <4>2, TellFacts DEF Heard
      <4> QED
        BY <4>1, <4>2
    <3>3. heard'[c][u] = s
      BY <2>5, <3>1, <3>2
    <3>4. Told(c, w, u, s)'
      BY <2>1, <2>8, <3>3 DEF Told, RowsSay
    <3> QED
      BY <3>4 DEF Covered
  <2> QED
    BY <1>5, <1>9, <2>1, <2>3, <2>4, <2>7, <2>8 DEF TellsOf
<1>10. CASE Drained /\ Self
  <2>1. routine = "lookup" /\ todo = {} /\ UNCHANGED heard /\ ~TellsOf(c, w, u)
    BY <1>10 DEF Self, history, TellsOf
  <2>2. \/ routine' = "recv"
        \/ /\ routine' = "list" /\ todo' = found /\ target' = sessions[Subject]
           /\ Subject' = Subject /\ UNCHANGED found /\ sessions[Subject] # NoConn
    BY <1>1, <1>10 DEF Self, Finish, Subject
  <2>3. CASE TellsTo(c, w, u, s)
    <3>1. Subject = w /\ RowsSay(u, s) /\ \E r \in found : r.user = u
      BY <2>1, <2>3 DEF TellsTo
    <3>2. sessions[Subject] = c /\ c # NoConn
      BY <1>2, <3>1, NoConnAssumption
    <3>3. routine' = "list" /\ todo' = found /\ target' = c /\ Subject' = w /\ UNCHANGED found
      BY <1>1, <1>10, <3>1, <3>2 DEF Self, Subject
    <3>4. TellsTo(c, w, u, s)'
      BY <3>1, <3>3 DEF TellsTo, RowsSay
    <3> QED
      BY <3>4 DEF Covered
  <2>4. CASE Told(c, w, u, s)
    <3>1. Told(c, w, u, s)'
      BY <2>1, <2>2, <2>4 DEF Told, RowsSay
    <3> QED
      BY <3>1 DEF Covered
  <2> QED
    BY <1>5, <1>10, <2>1, <2>3, <2>4
<1>11. CASE Drained /\ List
  <2>1. routine = "list" /\ ~TellsOf(c, w, u)
    BY <1>11 DEF List, TellsOf
  <2>2. ASSUME Finish, todo = {}, UNCHANGED heard PROVE Covered(c, w, u, s)'
    <3>1. ~TellsTo(c, w, u, s)
      BY <2>1, <2>2 DEF TellsTo
    <3>2. Told(c, w, u, s)
      BY <1>5, <1>11, <2>1, <3>1
    <3>3. Told(c, w, u, s)'
      BY <2>2, <3>2 DEF Told, Finish
    <3> QED
      BY <3>3 DEF Covered
  <2>3. ASSUME NEW r \in todo, todo' = todo \ {r}, Tell(r.user, r.status),
               UNCHANGED <<routine, obj, found, target>>
        PROVE  Covered(c, w, u, s)'
    <3>1. Subject' = Subject /\ r \in found /\ r.user \in Users /\ r.status \in Heard
      BY <1>1, <2>3 DEF Subject, TypeOK, Rows, Heard
    <3>2. target = c => Subject = w
      BY <1>2, <2>1 DEF HeldRelated
    <3>3. ASSUME target = c, r.user = u, RowsSay(u, s) PROVE heard'[c][u] = s
      BY <1>2, <2>3, <3>1, <3>3, TellFacts DEF RowsSay
    <3>4. ~(target = c /\ r.user = u) => heard'[c][u] = heard[c][u]
      BY <2>3, <3>1, TellFacts
    <3>5. CASE TellsTo(c, w, u, s)
      <4>1. Subject = w /\ target = c /\ RowsSay(u, s) /\ \E x \in todo : x.user = u
        BY <2>1, <3>5 DEF TellsTo
      <4>2. CASE r.user = u
        <5>1. Told(c, w, u, s)'
          BY <2>1, <2>3, <3>1, <3>3, <4>1, <4>2 DEF Told, RowsSay
        <5> QED
          BY <5>1 DEF Covered
      <4>3. CASE r.user # u
        <5>1. \E x \in todo' : x.user = u
          BY <2>3, <4>1, <4>3
        <5>2. TellsTo(c, w, u, s)'
          BY <2>1, <2>3, <3>1, <4>1, <5>1 DEF TellsTo, RowsSay
        <5> QED
          BY <5>2 DEF Covered
      <4> QED
        BY <4>2, <4>3
    <3>6. CASE Told(c, w, u, s)
      <4>1. heard[c][u] = s /\ (Subject = w => RowsSay(u, s))
        BY <2>1, <3>6 DEF Told
      <4>2. heard'[c][u] = s
        BY <3>2, <3>3, <3>4, <4>1
      <4>3. Told(c, w, u, s)'
        BY <2>1, <2>3, <3>1, <4>1, <4>2 DEF Told, RowsSay
      <4> QED
        BY <4>3 DEF Covered
    <3> QED
      BY <1>5, <1>11, <2>1, <3>5, <3>6
  <2> QED
    BY <1>11, <2>2, <2>3 DEF List
<1> QED
  BY <1>3, <1>4, <1>7, <1>8, <1>9, <1>10, <1>11 DEF Routine

\* Every step keeps the promise.
LEMMA AgreementStep ==
    ASSUME Inv0, RegisteredOwner, HeldRelated, SpeaksTrue, Agreement, [Next]_vars
    PROVE  Agreement'
<1>1. TypeOK /\ References
  BY DEF Inv0
<1>2. SUFFICES ASSUME ~lost', NEW c \in Conns, NEW w \in Users, NEW u \in Users,
                      NEW s \in Statuses, Due(c, w, u, s)'
               PROVE  Covered(c, w, u, s)'
  BY DEF Agreement, Due, Covered
<1>3. ~lost => (Due(c, w, u, s) => Covered(c, w, u, s))
  BY DEF Agreement, Due, Covered
<1>4. ASSUME NEW d \in Conns, Step(d) PROVE Covered(c, w, u, s)'
  <2>1. lost' = lost
    BY <1>1, <1>4, StepFrame
  <2> QED
    BY <1>2, <1>3, <1>4, <2>1, CoveredKept
<1>5. CASE Routine
  <2>1. UNCHANGED <<tableVars, rows, handlers, added, said, overlap>>
    BY <1>5, RoutineFrame
  <2>2. Due(c, w, u, s)
    BY <1>2, <2>1 DEF Due, MutualBuddies, Visible, Settled, Gone, Watching, Announced, Changing,
       UserOf, tableVars, rows, handlers
  <2>3. ~lost
    BY <1>1, <1>2, <1>5 DEF Routine, Receive, Query, Lookup, Write, WriteAway, Self, List, Tell,
       history
  <2>4. Truth(u, s)
    BY <2>2 DEF Due, SpeaksTrue, Truth, MutualBuddies
  <2> QED
    BY <1>1, <1>2, <1>3, <1>5, <2>2, <2>3, <2>4, CoveredServed
<1>6. CASE Restart
  <2>1. conn'[c] # "open"
    BY <1>6 DEF Restart, Halt
  <2> QED
    BY <1>2, <2>1 DEF Due, Visible, Watching
<1>7. CASE UNCHANGED vars
  <2> USE DEF vars, tableVars, rows, handlers, delivery, history
  <2>1. ~lost /\ Due(c, w, u, s)
    BY <1>2, <1>7 DEF Due, MutualBuddies, Visible, Settled, Gone, Watching, Announced, Changing,
       UserOf
  <2> QED
    BY <1>3, <1>7, <2>1 DEF Covered, Waiting, TellsOf, TellsTo, Told, RowsSay, Subject
<1> QED
  BY <1>4, <1>5, <1>6, <1>7 DEF Next, Step

-----------------------------------------------------------------------------
(***************************************************************************)
(* The theorems.                                                           *)
(***************************************************************************)

\* Every step keeps the invariant: one fact for each of its parts.
LEMMA InvariantStep == IInv /\ [Next]_vars => IInv'
<1> SUFFICES ASSUME IInv, [Next]_vars PROVE IInv'
  OBVIOUS
<1>1. /\ TypeOK /\ RegisteredOwner /\ References /\ HeldRelated /\ ToldOfRelated
      /\ OneAtWork /\ BuddiesOnce /\ AtWork /\ SpeaksTrue /\ Agreement
  BY DEF IInv
<1>2. TypeOK' /\ References'
  BY <1>1, TypeStep, ReferencesStep
<1>3. RegisteredOwner'
  BY <1>1, TableStep, RegisteredOwnerStep DEF TypeOK
<1>4. HeldRelated' /\ ToldOfRelated'
  BY <1>1, HeldStep, ToldStep
<1>5. \A c \in Conns : Absent(c) /\ \A d \in Conns \ {c} : Apart(c, d)
  BY <1>1 DEF OneAtWork, Absent, Apart
<1>6. \A c \in Conns : \A d \in Conns \ {c} : Apart(c, d)'
  BY <1>1, <1>5, ApartStep
<1>7. BuddiesOnce' /\ \A c \in Conns : Absent(c)'
  BY <1>1, <1>5, OnceStep
<1>8. OneAtWork'
  BY <1>6, <1>7 DEF OneAtWork, Absent, Apart
<1>9. Inv0
  BY <1>1, <1>5 DEF Inv0, AtWork, Works, Registered, Shut, AddedFirst, SaysAway
<1>10. AtWork'
  <2>1. \A c \in Conns : Works(c)'
    BY <1>9, WorksStep
  <2> QED
    BY <2>1 DEF AtWork, Works, Registered, Shut, AddedFirst, SaysAway
<1>11. SpeaksTrue' /\ Agreement'
  BY <1>1, <1>9, TruthStep, AgreementStep
<1> QED
  BY <1>2, <1>3, <1>4, <1>7, <1>8, <1>10, <1>11 DEF IInv

\* It holds at first.
LEMMA InvariantInit == Init => IInv
<1> SUFFICES ASSUME Init PROVE IInv
  OBVIOUS
<1> USE NotificationAssumption
<1>1. TableTypeOK /\ RegisteredOwner
  BY DEF Init, TableInit, TableTypeOK, Sockets, RegisteredOwner
<1>2. /\ listed \in SUBSET Pairs /\ lists \in [Pairs -> Nat]
      /\ \A p \in Pairs : lists[p] <= 1 /\ (lists[p] > 0 => p \in listed)
  BY DEF Init, Pairs
<1>3. objs = <<>> /\ onlineCh = <<>> /\ objs \in Seq(Objects) /\ onlineCh \in Seq(Ids)
  BY DEF Init
<1>4. Len(objs) = 0 /\ Len(onlineCh) = 0
  BY <1>3
<1>5. TypeOK
  <2>1. /\ status \in [Users -> Statuses] /\ said \in [Conns -> Heard]
        /\ heard \in [Conns -> [Users -> Heard]] /\ last \in [Conns -> BOOLEAN]
    BY DEF Init, Statuses, Heard
  <2>2. 0 \in 0..MaxObjs /\ MaxObjs \in Nat
    BY SMT
  <2>3. /\ own \in [Conns -> 0..MaxObjs] /\ pend \in [Conns -> 0..MaxObjs]
        /\ obj \in 0..MaxObjs /\ Len(objs) <= MaxObjs
    BY <1>4, <2>2 DEF Init
  <2>4. stage \in [Conns -> Stages]
    BY DEF Init, Stages, Requests
  <2>5. /\ routine \in RoutineStages /\ found \in SUBSET Rows /\ todo \in SUBSET found
        /\ target \in Conns \cup {NoConn} /\ added \in SUBSET listed
        /\ overlap \in SUBSET Users /\ lost \in BOOLEAN
    BY DEF Init, RoutineStages
  <2> QED
    BY <1>1, <1>2, <1>3, <1>4, <2>1, <2>3, <2>4, <2>5 DEF TypeOK, ChanCap
<1>6. References
  BY <1>4 DEF Init, TableInit, References
<1>7. HeldRelated /\ ToldOfRelated
  BY <1>2 DEF Init, HeldRelated, ToldOfRelated
<1>8. OneAtWork /\ BuddiesOnce
  BY <1>2 DEF Init, TableInit, OneAtWork, BuddiesOnce
<1>9. AtWork /\ SpeaksTrue /\ Agreement
  BY <1>4 DEF Init, TableInit, AtWork, SpeaksTrue, Agreement, Visible, Watching
<1> QED
  BY <1>1, <1>5, <1>6, <1>7, <1>8, <1>9 DEF IInv

\* The inductive invariant: types, what refers to an object refers to one
\* that exists, what the routine holds is related to whom it tells of, of a
\* user without overlap one connection at most is at work, and whoever is
\* visible knows of a settled buddy or will be told.
THEOREM Inductive == Spec => []IInv
BY InvariantInit, InvariantStep, PTL DEF Spec

\* The handlers, the channel, the routine and the table keep their types.
THEOREM TypeCorrect == Spec => []TypeOK
<1>1. IInv => TypeOK
  BY DEF IInv
<1> QED
  BY <1>1, Inductive, PTL

\* These handlers, too, register, close and remove only as SessionTable allows
\* (session_manager.go:22-45, server.go:135, 219-220), so what is proved of
\* the table holds of the map the routine looks its buddies up in.
THEOREM UsesTable == Spec => TableSpec
<1>1. Init => TableInit
  BY DEF Init
<1>2. IInv /\ [Next]_vars => [TableNext]_tableVars
  BY TableStep DEF IInv
<1> QED
  BY <1>1, <1>2, Inductive, PTL DEF Spec, TableSpec

\* Whoever is told of a user (online_routine.go:66, 130) is related to that
\* user by a row of the table, now or earlier.
THEOREM Related == Spec => []ToldOfRelated
<1>1. IInv => ToldOfRelated
  BY DEF IInv
<1> QED
  BY <1>1, Inductive, PTL

\* A user who has had one connection at a time has every buddy once,
\* although count and insert are two statements (0x03:69-79).
THEOREM Once == Spec => []BuddiesOnce
<1>1. IInv => BuddiesOnce
  BY DEF IInv
<1> QED
  BY <1>1, Inductive, PTL

\* With nothing waiting and the routine idle, what Agreement promises has
\* been told.
LEMMA NothingPending ==
    ASSUME IInv, Quiet, ~lost, NEW c \in Conns, NEW w \in Users, NEW u \in Users,
           NEW s \in Statuses, w # u, u \notin overlap, MutualBuddies(w, u), Visible(c, w),
           Settled(u, s)
    PROVE  heard[c][u] = s
<1>1. Len(onlineCh) = 0 /\ routine = "recv" /\ ~Changing(c)
  BY DEF Quiet, Changing
<1>2. ~Waiting(u) /\ ~Waiting(w) /\ ~TellsOf(c, w, u) /\ ~TellsTo(c, w, u, s)
  BY <1>1 DEF Waiting, TellsOf, TellsTo
<1>3. Told(c, w, u, s)
  BY <1>1, <1>2 DEF IInv, Agreement
<1> QED
  BY <1>3 DEF Told

\* Of two users who list each other and have announced themselves, each
\* knows that the other is online once everything is quiet: the status is
\* written before it is announced (0x01:52-56), queried after it is received
\* (online_routine.go:35), and the user is told as well (line 96).
THEOREM Agree == Spec => []MutualBuddiesAgree
<1>1. IInv => MutualBuddiesAgree
  <2> SUFFICES ASSUME IInv, Quiet, ~lost, NEW c \in Conns, NEW d \in Conns,
                      NEW w \in Users, NEW u \in Users, w # u, MutualBuddies(w, u),
                      Visible(c, w), Watching(d, u), Announced(d)
               PROVE  heard[c][u] = "Online"
    BY DEF MutualBuddiesAgree
  <2>1. UserOf(d) = u /\ u \notin overlap /\ ~Changing(d)
    BY WorkerFacts DEF IInv, Refers, Watching, Quiet, Changing
  <2>2. Settled(u, "Online")
    BY <2>1 DEF Settled, Announced
  <2> QED
    BY <2>1, <2>2, NothingPending DEF Statuses
<1> QED
  BY <1>1, Inductive, PTL

\* Nobody who has signed off stays online with those who list him and whom he
\* lists: handleCloseFn announces Away after the row is written
\* (server.go:211-217), and the routine reads the object when it writes
\* (online_routine.go:50, 71).
THEOREM Ghosts == Spec => []NoGhosts
<1>1. IInv => NoGhosts
  <2> SUFFICES ASSUME IInv, Quiet, ~lost, NEW c \in Conns, NEW w \in Users, NEW u \in Users,
                      MutualBuddies(w, u), Visible(c, w), u \notin overlap, SignedOff(u),
                      status[u] = "Away"
               PROVE  heard[c][u] = "Away"
    BY DEF NoGhosts
  <2>1. w # u
    BY DEF Visible, Watching, SignedOff, IInv, AtWork
  <2>2. Settled(u, "Away")
    BY DEF Settled, Gone, SignedOff
  <2> QED
    BY <2>1, <2>2, NothingPending DEF Statuses
<1> QED
  BY <1>1, Inductive, PTL

=============================================================================
