--------------------------- MODULE MessageDelivery ---------------------------
(***************************************************************************)
(* A message from the sender's request to the recipient's socket: SNAC     *)
(* 04/06 in the sender's handler (services/0x04_ICBM.go), the channel of   *)
(* one message, the goroutine of message_delivery_routine.go, and the      *)
(* messages table (models/Message.go).                                     *)
(*                                                                         *)
(* The handlers are those of SessionTable, of which Handler is an          *)
(* implementation.  A message is named by its place in the history sent.   *)
(*                                                                         *)
(*   stage[c]  idle     the handler of c is not in a 04/06 request         *)
(*             insert   before InsertMessage                               *)
(*             post     at icbm.CommCh <- message                          *)
(*             ack      before session.Send of the acknowledgement         *)
(*   routine   recv     at <-commCh                                        *)
(*             lookup   before GetSession(message.To)                      *)
(*             author   before UserByScreenName(message.From)              *)
(*             send     before session.Send                                *)
(*             mark     before MarkDelivered                               *)
(***************************************************************************)
EXTENDS SessionTable, Naturals, Sequences, FiniteSets

CONSTANTS
    Cookies,    \* message ids that clients choose
    StoreFlags, \* whether a message carries TLV 6, store if offline ...
    AckFlags,   \* ... and TLV 3, acknowledge: both BOOLEAN, or one value
    MaxMsgs     \* bound: messages submitted

ASSUME MessageAssumption ==
    MaxMsgs \in Nat /\ StoreFlags \subseteq BOOLEAN /\ AckFlags \subseteq BOOLEAN

VARIABLES
    sent,       \* history: the messages submitted, in order
    stage,      \* where the handler of a connection is
    req,        \* the message it is busy with
    commCh,     \* the channel
    routine,    \* where the delivery goroutine is
    msg,        \* the message it holds
    target,     \* the session it looked up for it
    rows,       \* the messages table: what became of the contents
    wire,       \* history: the messages written to a connection, in order
    acks        \* history: the acknowledgements written

mdVars == <<sent, stage, req, commCh, routine, msg, target, rows, wire, acks>>
vars == <<tableVars, mdVars>>

Ids == 1..MaxMsgs
Messages == [via : Conns, from : Users, to : Users, cookie : Cookies,
             store : StoreFlags, ack : AckFlags]
Stages == {"idle", "insert", "post", "ack"}
RoutineStages == {"recv", "lookup", "author", "send", "mark"}
ChanCap == 1    \* make(chan *models.Message, 1)

TypeOK ==
    /\ TableTypeOK
    /\ sent \in Seq(Messages) /\ Len(sent) <= MaxMsgs
    /\ stage \in [Conns -> Stages]
    /\ req \in [Conns -> 0..MaxMsgs]
    /\ commCh \in Seq(Ids) /\ Len(commCh) <= ChanCap
    /\ routine \in RoutineStages
    /\ msg \in 0..MaxMsgs
    /\ target \in Conns \cup {NoConn}
    /\ rows \in [Ids -> {"absent", "stored", "cleared"}]
    /\ wire \in [Conns -> Seq(Ids)]
    /\ acks \in SUBSET [id : Ids, conn : Conns, name : Users]

Init ==
    /\ TableInit
    /\ sent = <<>>
    /\ stage = [c \in Conns |-> "idle"]
    /\ req = [c \in Conns |-> 0]
    /\ commCh = <<>>
    /\ routine = "recv"
    /\ msg = 0
    /\ target = NoConn
    /\ rows = [i \in Ids |-> "absent"]
    /\ wire = [c \in Conns |-> <<>>]
    /\ acks = {}

-----------------------------------------------------------------------------
(***************************************************************************)
(* The handlers outside this request.  A handler does one thing at a time. *)
(***************************************************************************)

Elsewhere ==
    /\ \/ \E c \in Conns : /\ stage[c] = "idle"
                           /\ \/ Accept(c) \/ Disconnect(c)
                              \/ \E u \in Users : Authenticate(c, u) \/ SetSession(u, c)
       \/ \E u \in Users : RemoveSession(u)
    /\ UNCHANGED mdVars

\* What is in memory goes with the process; the table stays.
Crash ==
    /\ Halt
    /\ stage' = [c \in Conns |-> "idle"]
    /\ req' = [c \in Conns |-> 0]
    /\ commCh' = <<>>
    /\ routine' = "recv"
    /\ msg' = 0
    /\ target' = NoConn
    /\ UNCHANGED <<sent, rows, wire, acks>>

-----------------------------------------------------------------------------
(***************************************************************************)
(* SNAC 04/06 in the handler of c.                                         *)
(***************************************************************************)

Finish(c) ==
    /\ stage' = [stage EXCEPT ![c] = "idle"]
    /\ req' = [req EXCEPT ![c] = 0]

\* An error: handleFn closes the socket (and goes on as in Elsewhere).
Fail(c) ==
    /\ Finish(c)
    /\ conn' = [conn EXCEPT ![c] = "closed"]
    /\ UNCHANGED <<sessions, authed, sent, commCh, routine, msg, target, rows,
                   wire, acks>>

\* Mutant: the message to be stored goes straight to the channel.
SubmitUnsaved(c) ==
    /\ stage[c] = "idle" /\ Served(c) /\ Len(sent) < MaxMsgs
    /\ \E m \in Messages : m.via = c /\ m.from \in authed[c] /\ sent' = Append(sent, m)
    /\ stage' = [stage EXCEPT ![c] = "post"]
    /\ req' = [req EXCEPT ![c] = Len(sent) + 1]
    /\ UNCHANGED <<tableVars, commCh, routine, msg, target, rows, wire, acks>>

\* A well-formed request of a signed-on user; malformed ones end before they
\* touch anything (Elsewhere).
Submit(c) ==
    /\ stage[c] = "idle" /\ Served(c) /\ Len(sent) < MaxMsgs
    /\ \E m \in Messages :
          /\ m.via = c /\ m.from \in authed[c]
          /\ sent' = Append(sent, m)
          /\ stage' = [stage EXCEPT ![c] = IF m.store THEN "insert" ELSE "post"]
    /\ req' = [req EXCEPT ![c] = Len(sent) + 1]
    /\ UNCHANGED <<tableVars, commCh, routine, msg, target, rows, wire, acks>>

InsertMessage(c) ==
    /\ stage[c] = "insert"
    /\ \/ /\ rows' = [rows EXCEPT ![req[c]] = "stored"]
          /\ stage' = [stage EXCEPT ![c] = "post"]
          /\ UNCHANGED <<tableVars, sent, req, commCh, routine, msg, target,
                         wire, acks>>
       \/ Fail(c)

\* Mutant: a queue without a limit.
PostAlways(c) ==
    /\ stage[c] = "post"
    /\ commCh' = Append(commCh, req[c])
    /\ Finish(c)
    /\ UNCHANGED <<tableVars, sent, routine, msg, target, rows, wire, acks>>

\* The send blocks while the channel is full.
Post(c) ==
    /\ stage[c] = "post" /\ Len(commCh) < ChanCap
    /\ commCh' = Append(commCh, req[c])
    /\ IF sent[req[c]].ack
       THEN stage' = [stage EXCEPT ![c] = "ack"] /\ UNCHANGED req
       ELSE Finish(c)
    /\ UNCHANGED <<tableVars, sent, routine, msg, target, rows, wire, acks>>

\* The acknowledgement carries the screen name of the user of the context.
Ack(c) ==
    /\ stage[c] = "ack"
    /\ \/ /\ conn[c] = "open"
          /\ acks' = acks \cup {[id |-> req[c], conn |-> c, name |-> sent[req[c]].from]}
          /\ Finish(c)
          /\ UNCHANGED <<tableVars, sent, commCh, routine, msg, target, rows, wire>>
       \/ Fail(c)

-----------------------------------------------------------------------------
(***************************************************************************)
(* The delivery goroutine.                                                 *)
(***************************************************************************)

\* At the receive the routine holds nothing.
Proceed(label) ==
    /\ routine' = label
    /\ IF label = "recv" THEN msg' = 0 /\ target' = NoConn
                         ELSE UNCHANGED <<msg, target>>

Receive ==
    /\ routine = "recv" /\ commCh # <<>>
    /\ routine' = "lookup"
    /\ msg' = Head(commCh)
    /\ commCh' = Tail(commCh)
    /\ UNCHANGED <<tableVars, sent, stage, req, target, rows, wire, acks>>

\* Mutant: looks up the author's session.
LookupAuthor ==
    /\ routine = "lookup"
    /\ LET s == sessions[sent[msg].from] IN
         IF s = NoConn THEN Proceed("recv")
         ELSE routine' = "author" /\ target' = s /\ UNCHANGED msg
    /\ UNCHANGED <<tableVars, sent, stage, req, commCh, rows, wire, acks>>

\* No session: the message is dropped.
Lookup ==
    /\ routine = "lookup"
    /\ LET s == sessions[sent[msg].to] IN
         IF s = NoConn THEN Proceed("recv")
         ELSE routine' = "author" /\ target' = s /\ UNCHANGED msg
    /\ UNCHANGED <<tableVars, sent, stage, req, commCh, rows, wire, acks>>

\* Mutant: an error ends the goroutine.
AuthorReturns ==
    /\ routine = "author"
    /\ \E l \in {"send", "returned"} : Proceed(l)
    /\ UNCHANGED <<tableVars, sent, stage, req, commCh, rows, wire, acks>>

\* The author's row is read for the status; an error drops the message.
Author ==
    /\ routine = "author"
    /\ \E l \in {"send", "recv"} : Proceed(l)
    /\ UNCHANGED <<tableVars, sent, stage, req, commCh, rows, wire, acks>>

\* Mutant: marks the message as delivered whether or not it was written.
SendMarksAnyway ==
    /\ routine = "send"
    /\ \/ conn[target] = "open" /\ wire' = [wire EXCEPT ![target] = Append(@, msg)]
       \/ UNCHANGED wire
    /\ Proceed(IF sent[msg].store THEN "mark" ELSE "recv")
    /\ UNCHANGED <<tableVars, sent, stage, req, commCh, rows, acks>>

\* Mutant: a message that was not written is put behind the one waiting.
SendRequeues ==
    /\ routine = "send"
    /\ \/ /\ conn[target] = "open"
          /\ wire' = [wire EXCEPT ![target] = Append(@, msg)]
          /\ Proceed(IF sent[msg].store THEN "mark" ELSE "recv")
          /\ UNCHANGED commCh
       \/ /\ commCh # <<>>
          /\ commCh' = <<msg>> /\ msg' = Head(commCh)
          /\ routine' = "lookup" /\ target' = NoConn
          /\ UNCHANGED wire
    /\ UNCHANGED <<tableVars, sent, stage, req, rows, acks>>

\* The socket found at the lookup may be closed by now; a write may also
\* fail on an open one.  Either way the message is dropped.
Send ==
    /\ routine = "send"
    /\ \/ /\ conn[target] = "open"
          /\ wire' = [wire EXCEPT ![target] = Append(@, msg)]
          /\ Proceed(IF sent[msg].store THEN "mark" ELSE "recv")
       \/ Proceed("recv") /\ UNCHANGED wire
    /\ UNCHANGED <<tableVars, sent, stage, req, commCh, rows, acks>>

\* Mutant: a failed update starts over with the write.
MarkDeliveredRetries ==
    /\ routine = "mark"
    /\ \/ rows' = [rows EXCEPT ![msg] = "cleared"] /\ Proceed("recv")
       \/ Proceed("send") /\ UNCHANGED rows
    /\ UNCHANGED <<tableVars, sent, stage, req, commCh, wire, acks>>

\* UPDATE ... WHERE cookie = ?: every row with this cookie.
MarkDelivered ==
    /\ routine = "mark"
    /\ \/ rows' = [i \in Ids |->
                     IF rows[i] # "absent" /\ sent[i].cookie = sent[msg].cookie
                     THEN "cleared" ELSE rows[i]]
       \/ UNCHANGED rows
    /\ Proceed("recv")
    /\ UNCHANGED <<tableVars, sent, stage, req, commCh, wire, acks>>

-----------------------------------------------------------------------------

Routine == Receive \/ Lookup \/ Author \/ Send \/ MarkDelivered

Next ==
    \/ Elsewhere \/ Crash
    \/ \E c \in Conns : Submit(c) \/ InsertMessage(c) \/ Post(c) \/ Ack(c)
    \/ Routine

Spec == Init /\ [][Next]_vars

(***************************************************************************)
(* The goroutine runs, the database answers and a write ends (see Handler); *)
(* senders waiting for the channel are served in order.                    *)
(***************************************************************************)
FairSpec ==
    /\ Spec
    /\ WF_vars(Routine)
    /\ \A c \in Conns : /\ WF_vars(InsertMessage(c) \/ Ack(c))
                        /\ SF_vars(Post(c))

-----------------------------------------------------------------------------
(***************************************************************************)
(* Properties.                                                             *)
(***************************************************************************)

Written(c) == {wire[c][k] : k \in DOMAIN wire[c]}
WrittenAnywhere == UNION {Written(c) : c \in Conns}

\* A message is written only to a connection that authenticated as its
\* recipient, and it was sent by one that authenticated as its author.  The
\* routine looks the session up, queries the database and writes much later
\* (message_delivery_routine.go:34, 46, 74), across reconnects and crashes.
WrittenToAddressee ==
    \A c \in Conns : \A i \in Written(c) :
        sent[i].to \in authed[c] /\ sent[i].from \in authed[sent[i].via]

\* A message reaches at most one connection and is written there once: the
\* routine never retries, whatever step fails after the write
\* (message_delivery_routine.go:74-85).
WrittenOnce ==
    \A c, d \in Conns : \A k \in DOMAIN wire[c], l \in DOMAIN wire[d] :
        wire[c][k] = wire[d][l] => c = d /\ k = l

\* What one connection sends to another arrives in the order of sending:
\* the handler blocks in the channel send (0x04:210) and one goroutine
\* writes (message_delivery_routine.go:25).
SenderOrder ==
    \A c \in Conns : \A k, l \in DOMAIN wire[c] :
        (k < l /\ sent[wire[c][k]].via = sent[wire[c][l]].via)
            => wire[c][k] < wire[c][l]

\* Contents are cleared only after a message with the row's cookie was
\* written: "Once messages are delivered, clear their contents"
\* (models/Message.go:43).  With distinct cookies it is the row's message.
ClearedWasWritten ==
    \A i \in Ids : rows[i] = "cleared" =>
        \E j \in WrittenAnywhere : sent[j].cookie = sent[i].cookie

\* A message to be stored that was acknowledged to its sender is in the
\* table with its contents as long as no message with its cookie has been
\* written, across crashes of the process (0x04:195-222).
AckedIsKept ==
    \A a \in acks :
        sent[a.id].store =>
            \/ rows[a.id] = "stored"
            \/ \E j \in WrittenAnywhere : sent[j].cookie = sent[a.id].cookie

(***************************************************************************)
(* Seen from the users this is a mailbox: a message is on its way while a   *)
(* handler holds it before the channel, in the channel, and while the       *)
(* routine holds it before the write.                                      *)
(***************************************************************************)
Handing(c) == stage[c] \in {"insert", "post"}
Held == routine \in {"lookup", "author", "send"}

Pending ==
    {req[c] : c \in {d \in Conns : Handing(d)}}
        \cup {commCh[k] : k \in DOMAIN commCh}
        \cup {i \in {msg} : Held}

Box == INSTANCE Mailbox WITH origin <- [i \in DOMAIN sent |-> sent[i].via],
                             pending <- Pending,
                             inbox <- wire

\* The delivery does nothing to a message that a mailbox does not allow: no
\* step of a handler or of the routine repeats a write, lets a message
\* overtake another of its sender (0x04:210, message_delivery_routine.go:25)
\* or brings back one that was dropped.
ImplementsMailbox == Box!BoxSpec

\* No message stays on its way for ever, although every handler waits for
\* one channel of capacity 1 (0x04:210) and a single routine serves it.
MessagesSettle == \A i \in Ids : Box!Settles(i)

-----------------------------------------------------------------------------
(***************************************************************************)
(* The inductive invariant behind WrittenToAddressee and ClearedWasWritten. *)
(***************************************************************************)

\* Whoever is busy with a message is busy with a submitted one.
BusyWithSubmitted ==
    /\ \A c \in Conns : stage[c] # "idle" => req[c] \in DOMAIN sent /\ Served(c)
    /\ \A k \in DOMAIN commCh : commCh[k] \in DOMAIN sent
    /\ routine # "recv" => msg \in DOMAIN sent
    /\ \A c \in Conns : \A k \in DOMAIN wire[c] : wire[c][k] \in DOMAIN sent
    /\ \A i \in Ids : rows[i] # "absent" => i \in DOMAIN sent

\* The author of a message is who its connection authenticated as.
AuthorIsSender == \A i \in DOMAIN sent : sent[i].from \in authed[sent[i].via]

\* The session the routine keeps from its lookup is the recipient's, even
\* when the recipient is registered elsewhere by now.
TargetIsAddressee ==
    routine \in {"author", "send"} =>
        target \in Conns /\ sent[msg].to \in authed[target]

\* The routine marks a message only after it has written it.
MarkingIsWritten == routine = "mark" => msg \in WrittenAnywhere

\* The strengthening that every step preserves.
IInv ==
    /\ TypeOK
    /\ RegisteredOwner
    /\ BusyWithSubmitted
    /\ AuthorIsSender
    /\ TargetIsAddressee
    /\ WrittenToAddressee
    /\ MarkingIsWritten
    /\ ClearedWasWritten

-----------------------------------------------------------------------------
(***************************************************************************)
(* What the refinement and AckedIsKept need besides.                       *)
(***************************************************************************)

\* The messages of one sender are on their way in the order of sending: a
\* handler has at most one, which is younger than those it has posted.
InTransit ==
    /\ \A c \in Conns : Handing(c) =>
          /\ sent[req[c]].via = c
          /\ \A k \in DOMAIN commCh : sent[commCh[k]].via = c => commCh[k] < req[c]
          /\ Held /\ sent[msg].via = c => msg < req[c]
    /\ Held => \A k \in DOMAIN commCh :
          sent[commCh[k]].via = sent[msg].via => msg < commCh[k]

\* A message to be stored has its row before it is posted or acknowledged.
StoredFirst ==
    /\ \A c \in Conns : stage[c] \in {"post", "ack"} /\ sent[req[c]].store
          => rows[req[c]] # "absent"
    /\ \A a \in acks : a.id \in DOMAIN sent
          /\ (sent[a.id].store => rows[a.id] # "absent")

=============================================================================
