------------------------- MODULE OnlineNotification -------------------------
(***************************************************************************)
(* Presence: what the handlers do to a user's status, the channel of        *)
(* changed users, and the goroutine of online_routine.go that tells their  *)
(* buddies.                                                                *)
(*                                                                         *)
(* A *models.User is an object that its handler goes on changing after it  *)
(* has been sent over the channel, so the channel holds places in objs and *)
(* the routine reads the status when it writes.  The row in the database   *)
(* (status) and the object may differ: SNAC 02/04 writes only the object.  *)
(*                                                                         *)
(*   stage[c]  idle     between two FLAPs                                  *)
(*             ready, selfinfo, setinfo, away    before the status changes *)
(*             add      SNAC 03/04, before the row of the next name        *)
(*             count, insert    before the two statements for that name    *)
(*             unlist   SNAC 03/05, before the delete of the next name     *)
(*             post, postaway   at OnlineCh <- user                        *)
(*             disc, remove     handleCloseFn, as in Handler               *)
(*             ret      Handle returned after its last handleCloseFn       *)
(*   routine   recv     at <-commCh                                        *)
(*             query    before the buddies are selected                    *)
(*             lookup   before GetSession of the next buddy or, after the  *)
(*                      last, of the user                                  *)
(*             write    before the status is compared with Online          *)
(*             writeaway   before it is compared with Away                 *)
(*             list     before the user is told of the next buddy          *)
(***************************************************************************)
EXTENDS SessionTable, Naturals, Sequences

CONSTANTS
    Requested,  \* the requests of this instance, a subset of Requests
    Faults,     \* what may fail in this instance, a subset of FaultKinds
    InitialLists,   \* pairs the buddies table may hold at first
    MaxObjs     \* bound: objects made by sign-ons and added buddies

\* "idle" stands for a FLAP that changes nothing.
Requests == {"idle", "ready", "selfinfo", "setinfo", "add", "unlist", "away"}

\* A handler's statement, the routine's query or write, the process.
FaultKinds == {"statement", "routine", "process"}

ASSUME NotificationAssumption ==
    /\ Requested \subseteq Requests /\ Faults \subseteq FaultKinds
    /\ InitialLists \subseteq SUBSET (Users \X Users)
    /\ MaxObjs \in Nat

VARIABLES
    status,     \* users.status
    lists,      \* the buddies table: how many rows there are of <<source, with>>
    objs,       \* the User objects of this process
    own,        \* the object in a handler's context, or 0
    pend,       \* the object a handler is about to post, or 0
    stage,      \* where the handler is
    last,       \* handleCloseFn was called by Handle, not by handleFn
    onlineCh,   \* the channel
    routine,    \* where the goroutine is
    obj,        \* the object it has received
    found,      \* the rows its query returned
    todo,       \* those it has not come to
    target,     \* the session it looked up
    heard,      \* history: the last that a connection was told of a user
    listed,     \* history: pairs that were in the table at any time
    added,      \* history: pairs that a request has added
    said,       \* history: the status a connection's user has announced
    overlap,    \* history: users with two unfinished connections at a time
    lost        \* history: a query or a write of the routine has failed

rows     == <<status, lists, objs>>
handlers == <<own, pend, stage, last>>
delivery == <<routine, obj, found, todo, target>>
history  == <<heard, listed, added, said, overlap, lost>>
vars     == <<tableVars, rows, handlers, onlineCh, delivery, history>>

Statuses == {"Online", "Away"}
Heard == Statuses \cup {"nothing"}
Objects == [user : Users, status : Statuses]
Rows == [user : Users, status : Statuses, row : Nat \ {0}]
Pairs == Users \X Users
Stages == Requests \cup {"count", "insert", "post", "postaway", "disc", "remove", "ret"}
RoutineStages == {"recv", "query", "lookup", "write", "writeaway", "list"}
ChanCap == 1    \* make(chan *models.User, 1)
Ids == 1..MaxObjs

TypeOK ==
    /\ TableTypeOK
    /\ status \in [Users -> Statuses]
    /\ lists \in [Pairs -> Nat]
    /\ objs \in Seq(Objects) /\ Len(objs) <= MaxObjs
    /\ own \in [Conns -> 0..MaxObjs]
    /\ pend \in [Conns -> 0..MaxObjs]
    /\ stage \in [Conns -> Stages]
    /\ last \in [Conns -> BOOLEAN]
    /\ onlineCh \in Seq(Ids) /\ Len(onlineCh) <= ChanCap
    /\ routine \in RoutineStages
    /\ obj \in 0..MaxObjs
    /\ found \in SUBSET Rows /\ todo \in SUBSET found
    /\ target \in Conns \cup {NoConn}
    /\ heard \in [Conns -> [Users -> Heard]]
    /\ listed \in SUBSET Pairs /\ added \in SUBSET listed
    /\ said \in [Conns -> Heard]
    /\ overlap \in SUBSET Users
    /\ lost \in BOOLEAN

\* The buddies table of an earlier process, the statuses of this one.
Init ==
    /\ TableInit
    /\ status = [u \in Users |-> "Away"]
    /\ listed \in InitialLists
    /\ lists = [p \in Pairs |-> IF p \in listed THEN 1 ELSE 0]
    /\ objs = <<>>
    /\ own = [c \in Conns |-> 0]
    /\ pend = [c \in Conns |-> 0]
    /\ stage = [c \in Conns |-> "idle"]
    /\ last = [c \in Conns |-> FALSE]
    /\ onlineCh = <<>>
    /\ routine = "recv" /\ obj = 0 /\ found = {} /\ todo = {} /\ target = NoConn
    /\ heard = [c \in Conns |-> [u \in Users |-> "nothing"]]
    /\ added = {}
    /\ said = [c \in Conns |-> "nothing"]
    /\ overlap = {}
    /\ lost = FALSE

-----------------------------------------------------------------------------
(***************************************************************************)
(* The handlers.                                                           *)
(***************************************************************************)

UserOf(c) == objs[own[c]].user

Goto(c, l) == stage' = [stage EXCEPT ![c] = l]

SetStatus(c, s) == objs' = [objs EXCEPT ![own[c]].status = s]

Connect(c) ==
    /\ Accept(c)
    /\ UNCHANGED <<rows, handlers, onlineCh, delivery, history>>

Unfinished(c) == Served(c) /\ stage[c] # "ret"

\* The cookie or password is right: a new object from the user's row.
SignOn(c, u) ==
    /\ stage[c] = "idle" /\ Authenticate(c, u) /\ Len(objs) < MaxObjs
    /\ objs' = Append(objs, [user |-> u, status |-> status[u]])
    /\ own' = [own EXCEPT ![c] = Len(objs) + 1]
    /\ said' = [said EXCEPT ![c] = "nothing"]
    /\ overlap' = IF \E d \in Conns \ {c} : u \in authed[d] /\ Unfinished(d)
                  THEN overlap \cup {u} ELSE overlap
    /\ UNCHANGED <<status, lists, pend, stage, last, onlineCh, delivery, heard,
                   listed, added, lost>>

\* Every FLAP of a signed-on user first (re-)registers the session.
Take(c) ==
    /\ stage[c] = "idle" /\ own[c] # 0 /\ SetSession(UserOf(c), c)
    /\ \E l \in Requested : Goto(c, l)
    /\ UNCHANGED <<rows, own, pend, last, onlineCh, delivery, history>>

\* Object and row become Online; the object is announced.
Ready(c) ==
    /\ stage[c] = "ready"
    /\ SetStatus(c, "Online")
    /\ status' = [status EXCEPT ![UserOf(c)] = "Online"]
    /\ pend' = [pend EXCEPT ![c] = own[c]]
    /\ Goto(c, "post")
    /\ UNCHANGED <<tableVars, lists, own, last, onlineCh, delivery, history>>

\* The same, but nobody is told.
SelfInfo(c) ==
    /\ stage[c] = "selfinfo"
    /\ SetStatus(c, "Online")
    /\ status' = [status EXCEPT ![UserOf(c)] = "Online"]
    /\ Goto(c, "idle")
    /\ said' = [said EXCEPT ![c] = "nothing"]
    /\ UNCHANGED <<tableVars, lists, own, pend, last, onlineCh, delivery, heard,
                   listed, added, overlap, lost>>

\* With an away message the object is Away, without one Online; the row is
\* not written.
SetInfo(c) ==
    /\ stage[c] = "setinfo"
    /\ \E s \in Statuses : SetStatus(c, s)
    /\ pend' = [pend EXCEPT ![c] = own[c]]
    /\ Goto(c, "post")
    /\ UNCHANGED <<tableVars, status, lists, own, last, onlineCh, delivery, history>>

\* The row of the next name is read, if there is one of that name.
AddBuddy(c) ==
    /\ stage[c] = "add"
    /\ \/ /\ Len(objs) < MaxObjs
          /\ \E b \in Users : objs' = Append(objs, [user |-> b, status |-> status[b]])
          /\ pend' = [pend EXCEPT ![c] = Len(objs) + 1]
          /\ Goto(c, "count")
       \/ Goto(c, "idle") /\ UNCHANGED <<objs, pend>>
    /\ UNCHANGED <<tableVars, status, lists, own, last, onlineCh, delivery, history>>

NewPair(c) == <<UserOf(c), objs[pend[c]].user>>

\* Mutant: buddies are added without looking.
CountNothing(c) ==
    /\ stage[c] = "count" /\ Goto(c, "insert")
    /\ UNCHANGED <<tableVars, rows, own, pend, last, onlineCh, delivery, history>>

\* A buddy already: the request ends, whatever names are left.
CountBuddy(c) ==
    /\ stage[c] = "count"
    /\ IF lists[NewPair(c)] > 0
       THEN Goto(c, "idle") /\ pend' = [pend EXCEPT ![c] = 0]
       ELSE Goto(c, "insert") /\ UNCHANGED pend
    /\ UNCHANGED <<tableVars, rows, own, last, onlineCh, delivery, history>>

InsertBuddy(c) ==
    /\ stage[c] = "insert" /\ Goto(c, "post")
    /\ lists' = [lists EXCEPT ![NewPair(c)] = @ + 1]
    /\ listed' = listed \cup {NewPair(c)}
    /\ added' = added \cup {NewPair(c)}
    /\ UNCHANGED <<tableVars, status, objs, own, pend, last, onlineCh, delivery,
                   heard, said, overlap, lost>>

\* All rows of the next name, if there is one of that name.
RemoveBuddy(c) ==
    /\ stage[c] = "unlist"
    /\ \/ /\ \E b \in Users : lists' = [lists EXCEPT ![<<UserOf(c), b>>] = 0]
          /\ \E l \in {"unlist", "idle"} : Goto(c, l)
       \/ Goto(c, "idle") /\ UNCHANGED lists
    /\ UNCHANGED <<tableVars, status, objs, own, pend, last, onlineCh, delivery,
                   history>>

\* A statement fails; Ready, SelfInfo and SetInfo have changed the object by
\* then.
Fail(c) ==
    /\ "statement" \in Faults
    /\ \/ stage[c] \in {"ready", "selfinfo"} /\ SetStatus(c, "Online")
       \/ stage[c] = "setinfo" /\ \E s \in Statuses : SetStatus(c, s)
       \/ stage[c] \in {"add", "count", "insert", "unlist"} /\ UNCHANGED objs
    /\ Goto(c, "away")
    /\ pend' = [pend EXCEPT ![c] = 0]
    /\ conn' = [conn EXCEPT ![c] = "closed"]
    /\ UNCHANGED <<sessions, authed, status, lists, own, last, onlineCh,
                   delivery, history>>

\* Mutant: a queue without a limit.
SendAlways(c, id) == onlineCh' = Append(onlineCh, id) /\ UNCHANGED said

\* A channel send blocks while the channel is full.
Send(c, id) ==
    /\ Len(onlineCh) < ChanCap
    /\ onlineCh' = Append(onlineCh, id)
    /\ said' = IF id = own[c] THEN [said EXCEPT ![c] = objs[id].status] ELSE said

\* After a buddy, the next name; after the user himself, the next FLAP.
Post(c) ==
    /\ stage[c] = "post"
    /\ Send(c, pend[c])
    /\ pend' = [pend EXCEPT ![c] = 0]
    /\ \E l \in IF pend[c] = own[c] THEN {"idle"} ELSE {"add", "idle"} : Goto(c, l)
    /\ UNCHANGED <<tableVars, rows, own, last, delivery, heard, listed, added,
                   overlap, lost>>

\* The read fails because this process has closed the socket.
ReadClosed(c) ==
    /\ stage[c] = "idle" /\ own[c] # 0 /\ conn[c] = "closed"
    /\ Goto(c, "away")
    /\ last' = [last EXCEPT ![c] = TRUE]
    /\ UNCHANGED <<tableVars, rows, own, pend, onlineCh, delivery, history>>

\* Mutant: signed off without an announcement.
SetAwaySilently(c) ==
    /\ stage[c] = "away"
    /\ SetStatus(c, "Away")
    /\ status' = [status EXCEPT ![UserOf(c)] = "Away"]
    /\ Goto(c, "disc")
    /\ UNCHANGED <<tableVars, lists, own, pend, last, onlineCh, delivery, history>>

\* The statement may fail, which is logged.
SetAway(c) ==
    /\ stage[c] = "away"
    /\ SetStatus(c, "Away")
    /\ \/ status' = [status EXCEPT ![UserOf(c)] = "Away"]
       \/ "statement" \in Faults /\ UNCHANGED status
    /\ Goto(c, "postaway")
    /\ UNCHANGED <<tableVars, lists, own, pend, last, onlineCh, delivery, history>>

PostAway(c) ==
    /\ stage[c] = "postaway"
    /\ Send(c, own[c])
    /\ Goto(c, "disc")
    /\ UNCHANGED <<tableVars, rows, own, pend, last, delivery, heard, listed,
                   added, overlap, lost>>

Close(c) ==
    /\ stage[c] = "disc"
    /\ conn' = [conn EXCEPT ![c] = "closed"]
    /\ Goto(c, "remove")
    /\ UNCHANGED <<sessions, authed, rows, own, pend, last, onlineCh, delivery,
                   history>>

Remove(c) ==
    /\ stage[c] = "remove"
    /\ RemoveSession(UserOf(c))
    /\ Goto(c, IF last[c] THEN "ret" ELSE "idle")
    /\ UNCHANGED <<rows, own, pend, last, onlineCh, delivery, history>>

\* The process ends and is started again.
Restart ==
    /\ "process" \in Faults
    /\ Halt
    /\ status' = [u \in Users |-> "Away"]
    /\ objs' = <<>>
    /\ own' = [c \in Conns |-> 0]
    /\ pend' = [c \in Conns |-> 0]
    /\ stage' = [c \in Conns |-> "idle"]
    /\ last' = [c \in Conns |-> FALSE]
    /\ onlineCh' = <<>>
    /\ routine' = "recv" /\ obj' = 0 /\ found' = {} /\ todo' = {} /\ target' = NoConn
    /\ said' = [c \in Conns |-> "nothing"]
    /\ UNCHANGED <<lists, heard, listed, added, overlap, lost>>

-----------------------------------------------------------------------------
(***************************************************************************)
(* The online-notification goroutine.                                      *)
(***************************************************************************)

Subject == objs[obj].user

Receive ==
    /\ routine = "recv" /\ onlineCh # <<>>
    /\ routine' = "query"
    /\ obj' = Head(onlineCh)
    /\ onlineCh' = Tail(onlineCh)
    /\ UNCHANGED <<tableVars, rows, handlers, found, todo, target, history>>

\* Mutant: the query has no WHERE.
WatchersAll(u) == {[user |-> w, status |-> status[w], row |-> 1] : w \in Users}

\* Those who have the user on their list, with the status of their rows.
Watchers(u) ==
    UNION {{[user |-> w, status |-> status[w], row |-> n] : n \in 1..lists[<<w, u>>]} : w \in Users}

Query ==
    /\ routine = "query"
    /\ \/ /\ routine' = "lookup"
          /\ found' = Watchers(Subject) /\ todo' = Watchers(Subject)
          /\ UNCHANGED <<obj, lost>>
       \/ /\ "routine" \in Faults
          /\ routine' = "recv" /\ obj' = 0 /\ lost' = TRUE
          /\ UNCHANGED <<found, todo>>
    /\ UNCHANGED <<tableVars, rows, handlers, onlineCh, target, heard, listed,
                   added, said, overlap>>

\* The next buddy that is not away and has a session.
Lookup ==
    /\ routine = "lookup"
    /\ \E w \in todo :
          /\ todo' = todo \ {w}
          /\ IF w.status = "Online" /\ sessions[w.user] # NoConn
             THEN routine' = "write" /\ target' = sessions[w.user]
             ELSE UNCHANGED <<routine, target>>
    /\ UNCHANGED <<tableVars, rows, handlers, onlineCh, obj, found, history>>

\* session.Send fails on a closed socket, and may fail on any.
Tell(u, s) ==
    \/ /\ conn[target] = "open"
       /\ heard' = [heard EXCEPT ![target][u] = s]
       /\ UNCHANGED lost
    \/ /\ conn[target] # "open" \/ "routine" \in Faults
       /\ lost' = (lost \/ conn[target] = "open")
       /\ UNCHANGED heard

\* The buddy is told of the status that the object has at this moment.
Write ==
    /\ routine = "write"
    /\ IF objs[obj].status = "Online"
       THEN Tell(Subject, "Online") /\ routine' = "lookup" /\ target' = NoConn
       ELSE routine' = "writeaway" /\ UNCHANGED <<target, heard, lost>>
    /\ UNCHANGED <<tableVars, rows, handlers, onlineCh, obj, found, todo, listed,
                   added, said, overlap>>

\* It is looked at again: if its handler has made it Online meanwhile, the
\* buddy is told nothing.
WriteAway ==
    /\ routine = "writeaway"
    /\ IF objs[obj].status = "Away" THEN Tell(Subject, "Away")
                                    ELSE UNCHANGED <<heard, lost>>
    /\ routine' = "lookup" /\ target' = NoConn
    /\ UNCHANGED <<tableVars, rows, handlers, onlineCh, obj, found, todo, listed,
                   added, said, overlap>>

Finish ==
    /\ routine' = "recv"
    /\ obj' = 0 /\ found' = {} /\ todo' = {} /\ target' = NoConn

\* Mutant: the user is not told.
SelfSkipped ==
    /\ routine = "lookup" /\ todo = {} /\ Finish
    /\ UNCHANGED <<tableVars, rows, handlers, onlineCh, history>>

\* After the last buddy the user's own session is looked up, once.
Self ==
    /\ routine = "lookup" /\ todo = {}
    /\ IF sessions[Subject] = NoConn
       THEN Finish
       ELSE /\ routine' = "list" /\ todo' = found /\ target' = sessions[Subject]
            /\ UNCHANGED <<obj, found>>
    /\ UNCHANGED <<tableVars, rows, handlers, onlineCh, history>>

\* The user is told of the same rows, with the statuses of the query.
List ==
    /\ routine = "list"
    /\ \/ /\ \E w \in todo : todo' = todo \ {w} /\ Tell(w.user, w.status)
          /\ UNCHANGED <<routine, obj, found, target>>
       \/ todo = {} /\ Finish /\ UNCHANGED <<heard, lost>>
    /\ UNCHANGED <<tableVars, rows, handlers, onlineCh, listed, added, said, overlap>>

-----------------------------------------------------------------------------

Handler(c) ==
    \/ Ready(c) \/ SelfInfo(c) \/ SetInfo(c) \/ AddBuddy(c) \/ CountBuddy(c)
    \/ InsertBuddy(c) \/ RemoveBuddy(c) \/ Fail(c) \/ SetAway(c) \/ Close(c) \/ Remove(c)

Client(c) ==
    \/ Connect(c) \/ Take(c) \/ ReadClosed(c)
    \/ \E u \in Users : SignOn(c, u)

Routine == Receive \/ Query \/ Lookup \/ Write \/ WriteAway \/ Self \/ List

Next ==
    \/ Restart
    \/ \E c \in Conns : Client(c) \/ Handler(c) \/ Post(c) \/ PostAway(c)
    \/ Routine

Spec == Init /\ [][Next]_vars

-----------------------------------------------------------------------------
(***************************************************************************)
(* Properties.                                                             *)
(***************************************************************************)

\* Whoever is told of u has u on the list, or is on u's list, at some time:
\* rows of the query are used up to two lookups by name and many writes
\* later (online_routine.go:35, 48, 89), while lists change, users reconnect
\* and connections change their user.
ToldOfRelated ==
    \A c \in Conns, u \in Users : heard[c][u] # "nothing" =>
        \E w \in authed[c] : <<w, u>> \in listed \/ <<u, w>> \in listed

\* A user who has had one connection at a time has every buddy once: count
\* and insert are separate statements, which only requests of two connections
\* can interleave (0x03:69-79).  A crash or an error between the two does no
\* harm.
BuddiesOnce == \A p \in Pairs : p[1] \notin overlap => lists[p] <= 1

\* Nothing is on its way to the routine or in it.
Quiet ==
    /\ routine = "recv" /\ onlineCh = <<>>
    /\ \A c \in Conns : stage[c] \in {"idle", "ret"}

\* User w is served on c and on no other connection so far.
Watching(c, w) ==
    /\ conn[c] = "open" /\ own[c] # 0 /\ sessions[w] = c
    /\ authed[c] = {w} /\ w \notin overlap

\* Users w and u list each other; u was on the list of w, and w on that of u,
\* all the time, and nobody added u meanwhile.
MutualBuddies(w, u) ==
    /\ lists[<<w, u>>] > 0 /\ lists[<<u, w>>] > 0 /\ <<u, w>> \notin added
    /\ \A x \in Users : <<x, u>> \notin added

\* The row of w says Online, and c has announced its user.
Visible(c, w) == Watching(c, w) /\ status[w] = "Online" /\ said[c] # "nothing"

\* Object, row and last announcement of the user of d agree on Online.
Announced(d) ==
    said[d] = "Online" /\ objs[own[d]].status = "Online" /\ status[UserOf(d)] = "Online"

\* Of two users who list each other and have both announced themselves, each
\* knows that the other is online once everything is quiet, in whichever order
\* rows were written, read and announced: the status is written before the
\* channel send (0x01:52-56), queried after the receive
\* (online_routine.go:35), and the user is told as well (line 96).
MutualBuddiesAgree ==
    (Quiet /\ ~lost) =>
        \A c, d \in Conns, w, u \in Users :
            ( /\ w # u /\ MutualBuddies(w, u) /\ Visible(c, w)
              /\ Watching(d, u) /\ Announced(d) )
            => heard[c][u] = "Online"

\* Every connection that signed on as u has signed u off and returned, or
\* went with its process.
SignedOff(u) ==
    \A d \in Conns : u \in authed[d] =>
        conn[d] = "dead" \/ (stage[d] = "ret" /\ UserOf(d) = u)

\* A user who has signed off is away with everybody who lists him and is on
\* his list: handleCloseFn announces Away after the row is written
\* (server.go:211-217), and the routine reads the object when it writes
\* (online_routine.go:50, 71).  A SetAway that fails for good, so that the row
\* stays Online, is outside the claim.
NoGhosts ==
    (Quiet /\ ~lost) =>
        \A c \in Conns, w, u \in Users :
            ( /\ MutualBuddies(w, u) /\ Visible(c, w)
              /\ u \notin overlap /\ SignedOff(u) /\ status[u] = "Away" )
            => heard[c][u] = "Away"

-----------------------------------------------------------------------------
(***************************************************************************)
(* What comments say and the code does not do.                             *)
(***************************************************************************)

\* "Get the user's list of online buddies and tell the user that they are
\* online" (online_routine.go:95): a user is told of those on his list.
ToldOfListed ==
    \A c \in Conns, u \in Users : heard[c][u] # "nothing" =>
        \E w \in authed[c] : <<w, u>> \in listed

-----------------------------------------------------------------------------
(***************************************************************************)
(* The inductive invariant behind all of these.                            *)
(***************************************************************************)

\* Whoever refers to an object refers to one that exists, and a handler at
\* work has a user that its connection signed on as.
References ==
    /\ \A c \in Conns :
          /\ own[c] <= Len(objs) /\ pend[c] <= Len(objs)
          /\ own[c] # 0 => Served(c) /\ UserOf(c) \in authed[c]
          /\ stage[c] # "idle" => own[c] # 0
          /\ stage[c] \in {"count", "insert", "post"} => pend[c] # 0
          /\ conn[c] = "none" => authed[c] = {}
    /\ \A i \in 1..Len(onlineCh) : onlineCh[i] <= Len(objs)
    /\ obj <= Len(objs) /\ (routine # "recv" => obj # 0)

\* What the routine holds is related to the user it is telling of.
HeldRelated ==
    /\ \A p \in Pairs : lists[p] > 0 => p \in listed
    /\ routine \in {"recv", "query"} => found = {}
    /\ \A r \in found : <<r.user, Subject>> \in listed
    /\ routine \in {"write", "writeaway"} =>
          target # NoConn /\ \E w \in authed[target] : <<w, Subject>> \in listed
    /\ routine = "list" => target # NoConn /\ Subject \in authed[target]

\* Of a user without overlap one connection at most is at work, and what it
\* is about to insert is not in the table.
OneAtWork ==
    \A c \in Conns :
        /\ \A d \in Conns \ {c} :
              Unfinished(c) /\ Unfinished(d) => authed[c] \cap authed[d] \subseteq overlap
        /\ stage[c] = "insert" /\ UserOf(c) \notin overlap => lists[NewPair(c)] = 0

\* A connection that is being served is registered, unless its user has
\* another one; it is closed before it is removed; a buddy is announced after
\* it was added, and a sign-off after the object has become Away.
AtWork ==
    \A c \in Conns :
        /\ \A w \in Users :
              ( /\ conn[c] = "open" /\ own[c] # 0 /\ authed[c] = {w} /\ w \notin overlap
                /\ stage[c] # "idle" \/ said[c] # "nothing" )
              => sessions[w] = c
        /\ stage[c] \in {"remove", "ret"} => conn[c] # "open"
        /\ stage[c] = "post" /\ pend[c] # own[c]
              => <<UserOf(c), objs[pend[c]].user>> \in added
        /\ stage[c] = "postaway" /\ UserOf(c) \notin overlap
              => objs[own[c]].status = "Away"

\* The user of c has changed and is about to be announced again.
Changing(c) == stage[c] = "post" /\ pend[c] = own[c]

\* All connections of u have sent their last announcement.
Gone(u) ==
    \A d \in Conns : u \in authed[d] =>
        conn[d] = "dead" \/ (stage[d] \in {"disc", "remove", "ret"} /\ UserOf(d) = u)

\* The status of u is s, and so was the last announcement.
Settled(u, s) ==
    /\ status[u] = s
    /\ \/ s = "Away" /\ Gone(u)
       \/ s = "Online" /\ \E d \in Conns : Watching(d, u) /\ Announced(d) /\ ~Changing(d)

\* An announcement of u waits in the channel.
Waiting(u) == \E k \in 1..Len(onlineCh) : objs[onlineCh[k]].user = u

\* Of a user whose status is settled nothing else is being announced, except
\* what the waiting announcement will correct.
SpeaksTrue ==
    \A u \in Users, s \in Statuses :
        (Settled(u, s) /\ u \notin overlap /\ \A x \in Users : <<x, u>> \notin added) =>
            /\ \A k \in 1..Len(onlineCh) :
                  objs[onlineCh[k]].user = u => objs[onlineCh[k]].status = s
            /\ routine # "recv" /\ Subject = u =>
                  \/ Waiting(u)
                  \/ objs[obj].status = s /\ (routine = "writeaway" => s = "Away")

\* The routine has yet to tell c, the session of w, of u ...
TellsOf(c, w, u) ==
    /\ routine # "recv" /\ Subject = u
    /\ \/ routine = "query"
       \/ routine \in {"write", "writeaway"} /\ target = c
       \/ /\ routine \in {"lookup", "write", "writeaway"}
          /\ \E r \in todo : r.user = w /\ r.status = "Online"

RowsSay(u, s) == \A r \in found : r.user = u => r.status = s

\* ... or, when it is told of the rows of w, of u with status s.
TellsTo(c, w, u, s) ==
    /\ routine # "recv" /\ Subject = w
    /\ \/ routine = "query"
       \/ /\ routine \in {"lookup", "write", "writeaway"}
          /\ RowsSay(u, s) /\ \E r \in found : r.user = u
       \/ /\ routine = "list" /\ target = c
          /\ RowsSay(u, s) /\ \E r \in todo : r.user = u

\* It has, and will not tell anything else.
Told(c, w, u, s) ==
    heard[c][u] = s /\ (routine \notin {"recv", "query"} /\ Subject = w => RowsSay(u, s))

\* Behind MutualBuddiesAgree and NoGhosts: of a buddy whose status is settled,
\* who is visible knows it or will be told.
Agreement ==
    ~lost => \A c \in Conns, w, u \in Users, s \in Statuses :
        ( /\ w # u /\ u \notin overlap /\ MutualBuddies(w, u)
          /\ Visible(c, w) /\ ~Changing(c) /\ Settled(u, s) )
        => \/ Waiting(u) \/ Waiting(w)
           \/ TellsOf(c, w, u) \/ TellsTo(c, w, u, s) \/ Told(c, w, u, s)

IInv ==
    /\ TypeOK
    /\ RegisteredOwner
    /\ References
    /\ HeldRelated
    /\ ToldOfRelated
    /\ OneAtWork
    /\ BuddiesOnce
    /\ AtWork
    /\ SpeaksTrue
    /\ Agreement

=============================================================================
