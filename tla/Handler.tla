------------------------------- MODULE Handler -------------------------------
(***************************************************************************)
(* The connection handlers of server.go: one goroutine per TCP connection *)
(* that reads, splits its input into FLAPs and handles them one at a time *)
(* (Handle, handleFn, handleCloseFn), together with what the services they *)
(* call do to the user's status in the database, to the session map and to *)
(* the channel of the online-notification goroutine.                       *)
(*                                                                         *)
(* A handler's steps are as fine as its accesses to shared state: a map    *)
(* update, a database statement, a channel send, a close.  The order of    *)
(* the steps is the program counter pc[c]:                                 *)
(*                                                                         *)
(*   none      not accepted yet                                            *)
(*   loop      in Handle, between two FLAPs                                *)
(*   signon    channel 1 FLAP, before AuthenticateFLAPCookie               *)
(*   ready     SNAC 01/02, before the status is written                    *)
(*   selfinfo  SNAC 01/0e, before the status is written                    *)
(*   setinfo   SNAC 02/04, before the TLVs are examined                    *)
(*   add       SNAC 03/04, before the next name of the list is looked up   *)
(*   addpost   SNAC 03/04, at OnlineCh <- buddy                            *)
(*   reply     a request that reads or writes nothing shared: it is        *)
(*             answered with session.Send or refused with an error         *)
(*   authorize SNAC 17/02                                                  *)
(*   post      OnlineCh <- user in a service                               *)
(*   away      handleCloseFn, before SetAway                               *)
(*   postaway  handleCloseFn, at h.onlineCh <- user                        *)
(*   disc      handleCloseFn, before Disconnect                            *)
(*   remove    handleCloseFn, before RemoveSession                         *)
(*   ret       Handle returned at server.go:71                             *)
(*   gone      Handle returned at server.go:80 or 84                       *)
(*   dead      the process ended under the goroutine                       *)
(***************************************************************************)
EXTENDS Naturals, Sequences

CONSTANTS
    Users, Conns, NoConn,
    Anon,             \* a context that holds the session but no user
    Background,       \* context.Background(): neither session nor user
    NilCtx,           \* a nil context
    Return,           \* "then Handle returns", for handleCloseFn's caller
    MaxBuf,           \* bound: complete FLAPs one conn.Read can deliver
    MaxNames,         \* bound: screen names in one add-buddy SNAC
    MaxBoots,         \* bound: starts of the server process
    MaxAwayFailures   \* bound: SetAway updates that fail

Contexts == Users \cup {Anon, Background, NilCtx}

ASSUME HandlerAssumption ==
    /\ NoConn \notin Conns
    /\ {Anon, Background, NilCtx} \cap Users = {}
    /\ Anon # Background /\ Anon # NilCtx /\ Background # NilCtx
    /\ Return \notin Contexts
    /\ MaxBuf \in Nat \ {0} /\ MaxNames \in Nat \ {0}
    /\ MaxBoots \in Nat /\ MaxAwayFailures \in Nat

VARIABLES
    up,             \* the server process runs
    boots,          \* number of times it was started
    pipelined,      \* clients send FLAPs without waiting for answers
    awayFailures,   \* number of SetAway updates that failed
    pc,             \* where each handler goroutine is
    buf,            \* complete FLAPs read but not handled (Handle's buf)
    names,          \* screen names left in the add-buddy SNAC
    ctx,            \* the handler's context
    after,          \* what handleCloseFn's caller goes on with
    status,         \* users.status in the database
    onlineCh,       \* the channel of the online-notification goroutine
    sessions, conn, authed      \* as in SessionTable

process   == <<up, boots, pipelined>>
local     == <<buf, names, ctx, after>>
tableVars == <<sessions, conn, authed>>

vars == <<process, awayFailures, pc, local, status, onlineCh, tableVars>>

Labels == {"none", "loop", "signon", "ready", "selfinfo", "setinfo", "add",
           "addpost", "reply", "authorize", "post", "away", "postaway", "disc",
           "remove", "ret", "gone", "dead"}

ChanCap == 1    \* make(chan *models.User, 1)

TypeOK ==
    /\ up \in BOOLEAN
    /\ boots \in 0..MaxBoots
    /\ pipelined \in BOOLEAN
    /\ awayFailures \in 0..MaxAwayFailures
    /\ pc \in [Conns -> Labels]
    /\ buf \in [Conns -> 0..MaxBuf]
    /\ names \in [Conns -> 0..MaxNames]
    /\ ctx \in [Conns -> Contexts]
    /\ after \in [Conns -> Contexts \cup {Return}]
    /\ status \in [Users -> {"Online", "Away"}]
    /\ onlineCh \in Seq(Users) /\ Len(onlineCh) <= ChanCap
    /\ sessions \in [Users -> Conns \cup {NoConn}]
    /\ conn \in [Conns -> {"none", "open", "closed", "dead"}]
    /\ authed \in [Conns -> SUBSET Users]

\* The database survives the process, so at first it may say anything.
Init ==
    /\ up = FALSE
    /\ boots = 0
    /\ pipelined \in BOOLEAN
    /\ awayFailures = 0
    /\ pc = [c \in Conns |-> "none"]
    /\ buf = [c \in Conns |-> 0]
    /\ names = [c \in Conns |-> 0]
    /\ ctx = [c \in Conns |-> Anon]
    /\ after = [c \in Conns |-> Anon]
    /\ status \in [Users -> {"Online", "Away"}]
    /\ onlineCh = <<>>
    /\ sessions = [u \in Users |-> NoConn]
    /\ conn = [c \in Conns |-> "none"]
    /\ authed = [c \in Conns |-> {}]

-----------------------------------------------------------------------------
(***************************************************************************)
(* The process.                                                            *)
(***************************************************************************)

\* Mutant: no reset of users.status at startup.
StartKeepsStatus ==
    /\ ~up /\ boots < MaxBoots
    /\ up' = TRUE
    /\ boots' = boots + 1
    /\ UNCHANGED <<pipelined, awayFailures, pc, local, status, onlineCh, tableVars>>

Start ==
    /\ ~up /\ boots < MaxBoots
    /\ up' = TRUE
    /\ boots' = boots + 1
    /\ status' = [u \in Users |-> "Away"]
    /\ UNCHANGED <<pipelined, awayFailures, pc, local, onlineCh, tableVars>>

\* Whatever ends the process ends every goroutine, the map and the channel;
\* the kernel closes the sockets and only the database remains.
Stop ==
    /\ up' = FALSE
    /\ pc' = [c \in Conns |-> IF pc[c] = "none" THEN "none" ELSE "dead"]
    /\ buf' = [c \in Conns |-> 0]
    /\ names' = [c \in Conns |-> 0]
    /\ ctx' = [c \in Conns |-> Anon]
    /\ after' = [c \in Conns |-> Anon]
    /\ onlineCh' = <<>>
    /\ sessions' = [u \in Users |-> NoConn]
    /\ conn' = [c \in Conns |-> IF conn[c] = "none" THEN "none" ELSE "dead"]
    /\ UNCHANGED <<boots, pipelined, awayFailures, status, authed>>

\* A signal, after which main closes the channels and exits, or a crash.
Crash == up /\ Stop

\* The online-notification goroutine takes the next user from its channel.
Drain ==
    /\ up /\ onlineCh # <<>>
    /\ onlineCh' = Tail(onlineCh)
    /\ UNCHANGED <<process, awayFailures, pc, local, status, tableVars>>

-----------------------------------------------------------------------------
(***************************************************************************)
(* Handle: accepting, reading, and the end of the goroutine.               *)
(***************************************************************************)

At(c, l) == up /\ pc[c] = l

Goto(c, l) == pc' = [pc EXCEPT ![c] = l]

Accept(c) ==
    /\ At(c, "none")
    /\ Goto(c, "loop")
    /\ conn' = [conn EXCEPT ![c] = "open"]
    /\ UNCHANGED <<process, awayFailures, local, status, onlineCh, sessions,
                   authed>>

\* conn.Read returns bytes that complete some FLAPs.  (Bytes that complete
\* none, and a read that times out, change nothing here.)
ReadData(c) ==
    /\ At(c, "loop") /\ buf[c] = 0 /\ conn[c] = "open"
    /\ \E n \in 1..MaxBuf : (pipelined \/ n = 1) /\ buf' = [buf EXCEPT ![c] = n]
    /\ UNCHANGED <<process, awayFailures, pc, names, ctx, after, status,
                   onlineCh, tableVars>>

\* The client is gone (EOF, reset): Handle returns with the socket, the
\* status and the map entry as they are.
HangUp(c) ==
    /\ At(c, "loop") /\ buf[c] = 0 /\ conn[c] = "open"
    /\ Goto(c, "gone")
    /\ UNCHANGED <<process, awayFailures, local, status, onlineCh, tableVars>>

\* Mutant: the error of a closed socket is retried like a timeout.
ReadClosedRetries(c) ==
    /\ At(c, "loop") /\ buf[c] = 0 /\ conn[c] = "closed"
    /\ UNCHANGED vars

\* Mutant: Handle returns without a second handleCloseFn.
ReadClosedReturns(c) ==
    /\ At(c, "loop") /\ buf[c] = 0 /\ conn[c] = "closed" /\ ctx[c] # NilCtx
    /\ Goto(c, "ret")
    /\ UNCHANGED <<process, awayFailures, local, status, onlineCh, tableVars>>

\* conn.Read fails because this process has closed the socket.
ReadClosed(c) ==
    /\ At(c, "loop") /\ buf[c] = 0 /\ conn[c] = "closed" /\ ctx[c] # NilCtx
    /\ IF ctx[c] \in Users
       THEN Goto(c, "away") /\ after' = [after EXCEPT ![c] = Return]
       ELSE Goto(c, "ret") /\ UNCHANGED after
    /\ UNCHANGED <<process, awayFailures, buf, names, ctx, status, onlineCh,
                   tableVars>>

\* A nil context is used by the next FLAP or by handleCloseFn; a sign-on
\* for an unknown user dereferences a nil *models.User.
Panic(c) ==
    /\ \/ At(c, "loop") /\ ctx[c] = NilCtx /\ (buf[c] > 0 \/ conn[c] = "closed")
       \/ At(c, "signon")
    /\ Stop

-----------------------------------------------------------------------------
(***************************************************************************)
(* handleFn: the next FLAP of the buffer.                                  *)
(***************************************************************************)

\* Without a session in the context the FLAP is dropped.
Drop(c) ==
    /\ At(c, "loop") /\ buf[c] > 0 /\ ctx[c] = Background
    /\ buf' = [buf EXCEPT ![c] = @ - 1]
    /\ UNCHANGED <<process, awayFailures, pc, names, ctx, after, status,
                   onlineCh, tableVars>>

\* What a FLAP can ask for; "loop" stands for those that change nothing.
Requests(x) ==
    {"loop", "signon", "reply", "authorize"} \cup
    (IF x \in Users THEN {"ready", "selfinfo", "setinfo", "add", "away"} ELSE {})

\* Mutant: the session is registered by the sign-on FLAPs only.
TakeUnregistered(c) ==
    /\ At(c, "loop") /\ buf[c] > 0 /\ ctx[c] \in Users \cup {Anon}
    /\ buf' = [buf EXCEPT ![c] = @ - 1]
    /\ \E l \in Requests(ctx[c]) \ {"add"} :
          /\ Goto(c, l)
          /\ after' = IF l = "away" THEN [after EXCEPT ![c] = ctx[c]] ELSE after
    /\ UNCHANGED <<process, awayFailures, names, ctx, status, onlineCh, tableVars>>

\* Every FLAP of a signed-on user first (re-)registers the session.
Take(c) ==
    /\ At(c, "loop") /\ buf[c] > 0 /\ ctx[c] \in Users \cup {Anon}
    /\ buf' = [buf EXCEPT ![c] = @ - 1]
    /\ sessions' = IF ctx[c] \in Users THEN [sessions EXCEPT ![ctx[c]] = c]
                                       ELSE sessions
    /\ \E l \in Requests(ctx[c]) :
          /\ Goto(c, l)
          /\ IF l = "add" THEN \E n \in 1..MaxNames : names' = [names EXCEPT ![c] = n]
                          ELSE UNCHANGED names
          /\ after' = IF l = "away" THEN [after EXCEPT ![c] = ctx[c]] ELSE after
    /\ UNCHANGED <<process, awayFailures, ctx, status, onlineCh, conn, authed>>

\* A service returned an error and the context new: Disconnect, then
\* handleCloseFn with the old context, which has no more to do for nobody.
Fail(c, new) ==
    /\ conn' = [conn EXCEPT ![c] = "closed"]
    /\ names' = [names EXCEPT ![c] = 0]
    /\ IF ctx[c] \in Users
       THEN Goto(c, "away") /\ after' = [after EXCEPT ![c] = new] /\ UNCHANGED ctx
       ELSE Goto(c, "loop") /\ ctx' = [ctx EXCEPT ![c] = new] /\ UNCHANGED after
    /\ UNCHANGED <<process, awayFailures, buf, status, onlineCh, sessions, authed>>

-----------------------------------------------------------------------------
(***************************************************************************)
(* The requests.                                                           *)
(***************************************************************************)

\* The first FLAP of a session: the client proves to be u, or is refused.
SignOn(c) ==
    /\ At(c, "signon")
    /\ Goto(c, "loop")
    /\ \/ \E u \in Users : /\ ctx' = [ctx EXCEPT ![c] = u]
                           /\ authed' = [authed EXCEPT ![c] = @ \cup {u}]
       \/ UNCHANGED <<ctx, authed>>
    /\ UNCHANGED <<process, awayFailures, buf, names, after, status, onlineCh,
                   sessions, conn>>

\* user.Status = Online; user.Update(ctx, db, "status").  If the update
\* fails the handler answers with the same context.
WriteOnline(c, then) ==
    \/ /\ status' = [status EXCEPT ![ctx[c]] = "Online"]
       /\ Goto(c, then)
       /\ UNCHANGED <<process, awayFailures, local, onlineCh, tableVars>>
    \/ Fail(c, ctx[c])

Ready(c)    == At(c, "ready") /\ WriteOnline(c, "post")
SelfInfo(c) == At(c, "selfinfo") /\ WriteOnline(c, "reply")

\* Malformed TLVs return a nil context; the update writes no status.
SetInfo(c) ==
    /\ At(c, "setinfo")
    /\ \/ /\ Goto(c, "post")
          /\ UNCHANGED <<process, awayFailures, local, status, onlineCh, tableVars>>
       \/ \E new \in {NilCtx, ctx[c]} : Fail(c, new)

\* The next buddy is inserted, or ends the request (unknown name, already
\* a buddy), or the statement fails.
AddName(c) ==
    /\ At(c, "add")
    /\ \/ /\ Goto(c, "addpost")
          /\ UNCHANGED <<process, awayFailures, local, status, onlineCh, tableVars>>
       \/ /\ Goto(c, "loop")
          /\ names' = [names EXCEPT ![c] = 0]
          /\ UNCHANGED <<process, awayFailures, buf, ctx, after, status,
                         onlineCh, tableVars>>
       \/ Fail(c, ctx[c])

\* Mutant: a queue without a limit.
EnqueueAlways(u) == onlineCh' = Append(onlineCh, u)

\* A channel send blocks while the channel is full.
Enqueue(u) ==
    /\ Len(onlineCh) < ChanCap
    /\ onlineCh' = Append(onlineCh, u)

\* Mutant: one turn too many through the list of names.
AddPostOffByOne(c) ==
    /\ At(c, "addpost")
    /\ \E u \in Users : Enqueue(u)
    /\ names' = [names EXCEPT ![c] = @ - 1]
    /\ Goto(c, IF names[c] >= 1 THEN "add" ELSE "loop")
    /\ UNCHANGED <<process, awayFailures, buf, ctx, after, status, tableVars>>

AddPost(c) ==
    /\ At(c, "addpost")
    /\ \E u \in Users : Enqueue(u)
    /\ names' = [names EXCEPT ![c] = @ - 1]
    /\ Goto(c, IF names[c] > 1 THEN "add" ELSE "loop")
    /\ UNCHANGED <<process, awayFailures, buf, ctx, after, status, tableVars>>

Post(c) ==
    /\ At(c, "post")
    /\ Enqueue(ctx[c])
    /\ Goto(c, "loop")
    /\ UNCHANGED <<process, awayFailures, local, status, tableVars>>

\* A write to a socket this process has closed always fails.
Reply(c) ==
    /\ At(c, "reply")
    /\ \/ /\ conn[c] # "closed"
          /\ Goto(c, "loop")
          /\ UNCHANGED <<process, awayFailures, local, status, onlineCh, tableVars>>
       \/ Fail(c, ctx[c])

\* The authorization server's request.  Past its first checks it works with
\* a context of its own, and that is the one it returns.
Authorize(c) ==
    /\ At(c, "authorize")
    /\ \/ \E new \in {ctx[c], Background} : Fail(c, new)
       \/ /\ ctx' = [ctx EXCEPT ![c] = Background]
          /\ conn' \in {conn, [conn EXCEPT ![c] = "closed"]}
          /\ Goto(c, "loop")
          /\ UNCHANGED <<process, awayFailures, buf, names, after, status,
                         onlineCh, sessions, authed>>

-----------------------------------------------------------------------------
(***************************************************************************)
(* handleCloseFn for the user of the context.                              *)
(***************************************************************************)

\* An error is logged and the rest is done all the same.
SetAway(c) ==
    /\ At(c, "away")
    /\ Goto(c, "postaway")
    /\ \/ /\ status' = [status EXCEPT ![ctx[c]] = "Away"]
          /\ UNCHANGED awayFailures
       \/ /\ awayFailures < MaxAwayFailures
          /\ awayFailures' = awayFailures + 1
          /\ UNCHANGED status
    /\ UNCHANGED <<process, local, onlineCh, tableVars>>

PostAway(c) ==
    /\ At(c, "postaway")
    /\ Enqueue(ctx[c])
    /\ Goto(c, "disc")
    /\ UNCHANGED <<process, awayFailures, local, status, tableVars>>

\* Mutant: the socket is left open.
DisconnectForgotten(c) ==
    /\ At(c, "disc")
    /\ Goto(c, "remove")
    /\ UNCHANGED <<process, awayFailures, local, status, onlineCh, tableVars>>

Disconnect(c) ==
    /\ At(c, "disc")
    /\ conn' = [conn EXCEPT ![c] = "closed"]
    /\ Goto(c, "remove")
    /\ UNCHANGED <<process, awayFailures, local, status, onlineCh, sessions,
                   authed>>

\* RemoveSession(user.ScreenName), whoever is registered under that name;
\* then the caller goes on.
RemoveSession(c) ==
    /\ At(c, "remove")
    /\ sessions' = [sessions EXCEPT ![ctx[c]] = NoConn]
    /\ after' = [after EXCEPT ![c] = Anon]
    /\ IF after[c] = Return
       THEN Goto(c, "ret") /\ UNCHANGED ctx
       ELSE Goto(c, "loop") /\ ctx' = [ctx EXCEPT ![c] = after[c]]
    /\ UNCHANGED <<process, awayFailures, buf, names, status, onlineCh, conn,
                   authed>>

-----------------------------------------------------------------------------

\* What the handler of c does without waiting for anybody ...
Local(c) ==
    \/ ReadClosed(c) \/ Panic(c) \/ Drop(c) \/ Take(c)
    \/ SignOn(c) \/ Ready(c) \/ SelfInfo(c) \/ SetInfo(c) \/ AddName(c)
    \/ Reply(c) \/ Authorize(c)
    \/ SetAway(c) \/ Disconnect(c) \/ RemoveSession(c)

\* ... where it waits for room in the channel ...
Posting(c) == AddPost(c) \/ Post(c) \/ PostAway(c)

\* ... and what the client and the network decide.
Client(c) == Accept(c) \/ ReadData(c) \/ HangUp(c)

Next ==
    \/ Start \/ Crash \/ Drain
    \/ \E c \in Conns : Client(c) \/ Local(c) \/ Posting(c)

Spec == Init /\ [][Next]_vars

(***************************************************************************)
(* The scheduler runs every runnable goroutine, the database answers, and a *)
(* write to a client's socket ends (the program sets no write deadline: a  *)
(* client that stops reading for ever is outside this assumption).  Waiting *)
(* senders of a Go channel are served in order, so none waits for ever if  *)
(* the channel has room again and again.  Nothing is assumed of clients,   *)
(* of crashes or of restarts.                                              *)
(***************************************************************************)
Fairness ==
    /\ WF_vars(Drain)
    /\ \A c \in Conns : WF_vars(Local(c)) /\ SF_vars(Posting(c))

FairSpec == Spec /\ Fairness

-----------------------------------------------------------------------------
(***************************************************************************)
(* Properties.                                                             *)
(***************************************************************************)

\* Every connection that ever signed on as u is finished: its process died,
\* or its handler returned after signing u off.
SignedOff(u) ==
    \A c \in Conns : u \in authed[c] =>
        pc[c] = "dead" \/ (pc[c] = "ret" /\ ctx[c] = u)

\* When all handlers of a user have finished, the user is away in the
\* database and absent from the session map, in whatever order overlapping
\* connections of that user came, re-registered (server.go:135), went online
\* (0x01:52, 0x01:126) and were closed.  It needs the second pass through
\* handleCloseFn (server.go:70): FLAPs buffered behind a sign-off are still
\* handled.  A SetAway that fails (server.go:211) is outside the claim.
SettledOffline ==
    (up /\ awayFailures = 0) =>
        \A u \in Users : SignedOff(u) => status[u] = "Away" /\ sessions[u] = NoConn

\* Against clients that wait for each answer one failing SetAway is repaired
\* by the second pass of the same handler, so that a signed-off user is away
\* all the same (server.go:178, 187 and 70).  Stated for one failure.
SettledAway ==
    (up /\ ~pipelined /\ awayFailures <= 1) =>
        \A u \in Users : SignedOff(u) => status[u] = "Away"

\* A running server shows a user online only on the word of a connection
\* that this process accepted: what the database kept from an earlier
\* process never survives a restart (main.go:62-67).
OnlineHasOrigin ==
    up => \A u \in Users : status[u] = "Online" =>
        \E c \in Conns : u \in authed[c] /\ pc[c] # "dead"

\* Labels at which handleFn is in the middle of a FLAP.
InRequest == Labels \ {"none", "loop", "ret", "gone", "dead"}

Lone(c, u) == \A d \in Conns \ {c} : u \notin authed[d]

\* While a request of a signed-on user with one connection is handled and
\* the socket is open, messages for that user find it: registration comes
\* before the request (server.go:135) and the removal after the close
\* (server.go:219-220), also in requests that follow a sign-off.
RequesterRegistered ==
    \A c \in Conns, u \in Users :
        (pc[c] \in InRequest /\ ctx[c] = u /\ conn[c] = "open" /\ Lone(c, u))
            => sessions[u] = c

\* A handler whose socket this process has closed returns: it handles what
\* is left in its buffer, is not blocked for ever in a channel send by the
\* other handlers, and leaves the read loop (server.go:66-72).
ClosedTerminates ==
    \A c \in Conns : conn[c] = "closed" ~> pc[c] \in {"ret", "dead"}

\* The handlers use the session map, the sockets and the authenticated
\* names as SessionTable says, which is all the delivery goroutines know.
Table == INSTANCE SessionTable
ImplementsTable == Table!TableSpec

-----------------------------------------------------------------------------
(***************************************************************************)
(* What comments of the delivery goroutines say and the handlers do not do. *)
(***************************************************************************)

\* "If the user isn't connected, don't send the message"
\* (message_delivery_routine.go:33, above a lookup in the session map), so
\* an absent entry should mean that no socket of the user is being served.
UnregisteredMeansDisconnected ==
    \A c \in Conns, u \in Users :
        (pc[c] \in InRequest /\ ctx[c] = u /\ conn[c] = "open")
            => sessions[u] # NoConn

\* "If the user is disconnected, don't try to send them notifications"
\* (online_routine.go:90, above a lookup in the session map), so an entry
\* should not be that of a client whose connection has ended.
RegisteredMeansConnected ==
    \A u \in Users : sessions[u] # NoConn => pc[sessions[u]] # "gone"

-----------------------------------------------------------------------------
(***************************************************************************)
(* The inductive invariant behind the safety properties.                   *)
(***************************************************************************)

\* The labels of requests that work on the user of the context.
UserLabels == {"ready", "selfinfo", "setinfo", "add", "addpost", "post",
               "away", "postaway", "disc", "remove"}

\* What a handler's own variables say of each other: it works on a user only
\* with one in its context and has authenticated as whoever is there or will
\* be; its socket is the one its label allows.
Shape(c) ==
    /\ pc[c] \in UserLabels => ctx[c] \in Users
    /\ pc[c] \in {"add", "addpost"} => names[c] > 0
    /\ ctx[c] \in Users => ctx[c] \in authed[c]
    /\ after[c] \in Users => after[c] \in authed[c]
    /\ pc[c] = "none" <=> conn[c] = "none"
    /\ pc[c] = "dead" <=> conn[c] = "dead"
    /\ pc[c] = "remove" => conn[c] = "closed"

\* The handler of c has set u away for the last time.
Finished(c, u) ==
    /\ ctx[c] = u
    /\ \/ pc[c] = "ret"
       \/ after[c] = Return /\ pc[c] \in {"postaway", "disc", "remove"}

\* As long as no SetAway fails, an online user still has a handler to come
\* that will set it away, unless its client hangs up or it changes the user.
OnlineHasClosing ==
    (up /\ awayFailures = 0) =>
        \A u \in Users : status[u] = "Online" =>
            \E c \in Conns : u \in authed[c] /\ pc[c] # "dead" /\ ~Finished(c, u)

\* The FLAP being handled is the only one of a client that waits for its
\* answer; there is none behind it when the socket is closed, and nobody is
\* noted for later outside handleCloseFn.
OneAtATime(c) ==
    LET closing == {"away", "postaway", "disc", "remove"} IN
    /\ buf[c] <= 1
    /\ pc[c] \in InRequest \/ conn[c] = "closed" => buf[c] = 0
    /\ pc[c] \in InRequest \ closing => conn[c] = "open"
    /\ after[c] \in Users => pc[c] \in closing /\ after[c] = ctx[c]

\* The handler of c has tried to set u away and has one try left at most.
TriedOnce(c, u) ==
    /\ ctx[c] = u
    /\ \/ pc[c] \in {"postaway", "disc", "remove", "ret"}
       \/ pc[c] = "loop" /\ conn[c] = "closed"
       \/ pc[c] = "away" /\ after[c] = Return

\* Until one SetAway has failed, an online user has a handler to come that
\* will try twice; after that, one that will try once.
OnlineHasRetry ==
    (up /\ ~pipelined /\ awayFailures <= 1) =>
        \A u \in Users : status[u] = "Online" =>
            \E c \in Conns :
                /\ u \in authed[c] /\ pc[c] # "dead" /\ ~Finished(c, u)
                /\ awayFailures = 0 => ~TriedOnce(c, u)

\* An entry belongs to a handler of that user that has not returned from
\* the handleCloseFn that removes it.
EntryHasHandler ==
    \A u \in Users : sessions[u] # NoConn =>
        LET c == sessions[u] IN
        /\ u \in authed[c]
        /\ pc[c] \notin {"none", "dead"}
        /\ ~(pc[c] = "ret" /\ ctx[c] = u)

\* The strengthening of the properties above that every step preserves.
IInv ==
    /\ TypeOK
    /\ \A c \in Conns : Shape(c)
    /\ ~pipelined => \A c \in Conns : OneAtATime(c)
    /\ OnlineHasClosing
    /\ OnlineHasRetry
    /\ OnlineHasOrigin
    /\ EntryHasHandler
    /\ RequesterRegistered

=============================================================================
