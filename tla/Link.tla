-------------------------------- MODULE Link --------------------------------
(***************************************************************************)
(* One connection, below the services.  Its handler reads bytes in pieces  *)
(* of any size, cuts FLAP frames out of a buffer and handles them one      *)
(* after the other (Handle and handleFn, server.go); it and, from the      *)
(* first registration of the session on, the two delivery goroutines write *)
(* frames, each numbered from a counter that they share without a lock     *)
(* (Session.Send, session.go).                                             *)
(*                                                                         *)
(*   pc          top     at the head of the loop of Handle                 *)
(*               hello   in the Send of the greeting                       *)
(*               read    in conn.Read                                      *)
(*               parse   at the head of the inner loop                     *)
(*               handle  in handleFn with a frame                          *)
(*               reply   in the Send of an answer                          *)
(*               login   in the Send of the answer to 17/02                *)
(*               bye     before the Send of its second frame               *)
(*               second  in that Send                                      *)
(*               leave   before 17/02 returns                              *)
(*               ret     Handle has returned                               *)
(*   sender[p]   idle    p is not in Send                                  *)
(*               load, store   before the two halves of += 1               *)
(*               stamp   before the counter is copied into the frame       *)
(*               write   before conn.Write                                 *)
(***************************************************************************)
EXTENDS Codec

CONSTANTS
    Inputs,     \* what a client may send, see ClientInput
    Chunk,      \* bytes that one conn.Read returns at most, 512 in the code
    Routines,   \* the delivery goroutines
    Numbers,    \* values of SequenceNumber, 65536 in the code
    MaxSends    \* bound: frames of the delivery goroutines

Senders == {"handler"} \cup Routines

\* Nothing looks at the numbers of the client's frames.
Encode(frame) == MarshalFLAP([channel |-> frame.channel, seq |-> 0, data |-> frame.data])[1]

\* A header is there, it starts with the mark, and so are all its data.
Whole(b) == Len(b) >= HeaderLen /\ b[1] = Mark /\ Len(b) >= FlapLength(b)

\* Where the k-th frame of x ends.
End(x, k) == IF k = 0 THEN 0 ELSE x.ends[k]

\* The bytes of a client: frames, each behind the one before, and then
\* anything that is not a frame.
ClientInput(x) ==
    /\ x.bytes \in Seq(Byte)
    /\ x.frames \in Seq([channel : Byte, data : Seq(Byte)])
    /\ x.ends \in Seq(Nat) /\ Len(x.ends) = Len(x.frames)
    /\ \A k \in 1..Len(x.frames) :
          /\ Len(x.frames[k].data) < Word
          /\ x.ends[k] <= Len(x.bytes)
          /\ SubSeq(x.bytes, End(x, k - 1) + 1, x.ends[k]) = Encode(x.frames[k])
    /\ ~Whole(From(x.bytes, End(x, Len(x.frames)) + 1))

ASSUME LinkAssumption ==
    /\ \A x \in Inputs : ClientInput(x)
    /\ Chunk \in Nat \ {0}
    /\ Numbers \in Nat \ {0, 1}
    /\ MaxSends \in Nat
    /\ "handler" \notin Routines

VARIABLES
    input,      \* what this client sends: [frames, ends, bytes]
    nread,      \* how many bytes of it have been read
    buf,        \* the buffer of Handle
    flap,       \* the frame in handleFn
    handled,    \* history: the frames that were handed to handleFn
    user,       \* the context's user: <<the TLV that signed on>>, or <<>>
    ctx,        \* the context has its session, was replaced by one that has
                \* none, or is nil
    registered, \* the session has been in the session manager
    greeted,    \* GreetedClient
    pc,         \* where the handler is
    link,       \* open, gone (the client has left), closed by the server
    seq,        \* SequenceNumber
    sender,     \* where each sender is in Send
    reg,        \* the value it has loaded
    stamp,      \* the number in its frame
    sends,      \* how many frames the goroutines have begun to send
    wire,       \* the frames written: [by, seq, what]
    disturbed   \* history: two Sends have overlapped, or one has failed

reading == <<nread, buf, flap, handled>>
context == <<user, ctx, registered, greeted>>
writing == <<seq, sender, reg, stamp, sends, wire, disturbed>>
vars    == <<input, reading, context, pc, link, writing>>

Init ==
    /\ input \in Inputs
    /\ nread = 0 /\ buf = <<>> /\ flap = <<>> /\ handled = <<>>
    /\ user = <<>> /\ ctx = "session" /\ registered = FALSE /\ greeted = FALSE
    /\ pc = "top"
    /\ link = "open"
    /\ seq = 0
    /\ sender = [p \in Senders |-> "idle"]
    /\ reg = [p \in Senders |-> 0]
    /\ stamp = [p \in Senders |-> 0]
    /\ sends = 0 /\ wire = <<>> /\ disturbed = FALSE

Replying == {"reply", "login", "second"}
Sending == Replying \cup {"hello"}
Pcs == {"top", "hello", "read", "parse", "handle", "reply", "login", "bye", "second",
        "leave", "ret"}
Frames == [by : Senders, seq : 0..Numbers - 1, what : {"hello", "answer", "notice"}]

\* What the handler has read is a matter of Cut, below.
TypeOK ==
    /\ input \in Inputs
    /\ ctx \in {"session", "background", "nil"}
    /\ registered \in BOOLEAN /\ greeted \in BOOLEAN
    /\ pc \in Pcs
    /\ link \in {"open", "gone", "closed"}
    /\ seq \in 0..Numbers - 1
    /\ sender \in [Senders -> {"idle", "load", "store", "stamp", "write"}]
    /\ reg \in [Senders -> 0..Numbers - 1]
    /\ stamp \in [Senders -> 0..Numbers - 1]
    /\ sends \in 0..MaxSends
    /\ wire \in Seq(Frames)
    /\ disturbed \in BOOLEAN

-----------------------------------------------------------------------------
(***************************************************************************)
(* Session.Send, statement by statement.                                   *)
(***************************************************************************)

Goes(p, l) == sender' = [sender EXCEPT ![p] = l]

BeginSend(p) ==
    /\ sender[p] = "idle" /\ Goes(p, "load")
    /\ disturbed' = (disturbed \/ \E q \in Senders : sender[q] # "idle")

Load(p) ==
    /\ sender[p] = "load" /\ Goes(p, "store")
    /\ reg' = [reg EXCEPT ![p] = seq]
    /\ UNCHANGED <<input, reading, context, pc, link, seq, stamp, sends, wire, disturbed>>

\* Mutant: the counter stays at its largest value.
StoreSaturates(p) ==
    /\ sender[p] = "store" /\ Goes(p, "stamp")
    /\ seq' = Min({reg[p] + 1, Numbers - 1})
    /\ UNCHANGED <<input, reading, context, pc, link, reg, stamp, sends, wire, disturbed>>

Store(p) ==
    /\ sender[p] = "store" /\ Goes(p, "stamp")
    /\ seq' = (reg[p] + 1) % Numbers
    /\ UNCHANGED <<input, reading, context, pc, link, reg, stamp, sends, wire, disturbed>>

Stamp(p) ==
    /\ sender[p] = "stamp" /\ Goes(p, "write")
    /\ stamp' = [stamp EXCEPT ![p] = seq]
    /\ UNCHANGED <<input, reading, context, pc, link, seq, reg, sends, wire, disturbed>>

What(p) == IF p # "handler" THEN "notice" ELSE IF pc = "hello" THEN "hello" ELSE "answer"

\* Whatever Send returned, the client counts as greeted.
Return(p) ==
    /\ Goes(p, "idle")
    /\ IF p # "handler" THEN UNCHANGED <<greeted, pc>>
       ELSE IF pc = "hello" THEN greeted' = TRUE /\ pc' = "read"
       ELSE /\ pc' = (CASE pc = "login" -> "bye" [] pc = "second" -> "leave" [] OTHER -> "parse")
            /\ UNCHANGED greeted

Write(p) ==
    /\ sender[p] = "write" /\ link = "open"
    /\ wire' = Append(wire, [by |-> p, seq |-> stamp[p], what |-> What(p)])
    /\ Return(p)
    /\ UNCHANGED <<input, reading, user, ctx, registered, link, seq, reg, stamp, sends, disturbed>>

\* A notice that is too long is not marshalled, and a socket that one of the
\* two sides has closed is not written to; the number is spent.
SendFails(p) ==
    /\ sender[p] = "write" /\ (p # "handler" \/ link # "open")
    /\ disturbed' = TRUE
    /\ Return(p)
    /\ UNCHANGED <<input, reading, user, ctx, registered, link, seq, reg, stamp, sends, wire>>

\* Mutant: a goroutine finds the session before it is registered.
NotifyEarly(p) ==
    /\ sends < MaxSends /\ BeginSend(p)
    /\ sends' = sends + 1
    /\ UNCHANGED <<input, reading, context, pc, link, seq, reg, stamp, wire>>

\* A goroutine has got the session from the manager, now or earlier.
Notify(p) ==
    /\ registered /\ sends < MaxSends /\ BeginSend(p)
    /\ sends' = sends + 1
    /\ UNCHANGED <<input, reading, context, pc, link, seq, reg, stamp, wire>>

-----------------------------------------------------------------------------
(***************************************************************************)
(* Handle.                                                                 *)
(***************************************************************************)

Top ==
    /\ pc = "top"
    /\ IF greeted THEN pc' = "read" /\ UNCHANGED <<sender, disturbed>>
                  ELSE pc' = "hello" /\ BeginSend("handler")
    /\ UNCHANGED <<input, reading, context, link, seq, reg, stamp, sends, wire>>

\* Some of what has arrived, which the client may have left behind.
Read ==
    /\ pc = "read" /\ link # "closed" /\ pc' = "parse"
    /\ \E n \in 1..Chunk :
          /\ nread + n <= Len(input.bytes)
          /\ nread' = nread + n
          /\ buf' = buf \o SubSeq(input.bytes, nread + 1, nread + n)
    /\ UNCHANGED <<input, flap, handled, context, link, writing>>

\* Mutant: a quiet client is taken for a lost one.
TimeoutReturns ==
    /\ pc = "read" /\ link = "open" /\ pc' = "ret"
    /\ UNCHANGED <<input, reading, context, link, writing>>

\* Nothing within 30 seconds.
Timeout ==
    /\ pc = "read" /\ link = "open" /\ pc' = "top"
    /\ UNCHANGED <<input, reading, context, link, writing>>

\* The end of the stream, or a socket that one of the two sides has closed.
ReadFails ==
    /\ pc = "read" /\ link # "open" /\ pc' = "ret"
    /\ UNCHANGED <<input, reading, context, link, writing>>

Frame == SubSeq(buf, 1, FlapLength(buf))

\* Mutant: a frame without data is not seen.
CompleteWithData == Len(buf) > HeaderLen /\ buf[1] = Mark /\ Len(buf) >= FlapLength(buf)

Complete == Whole(buf)

\* Otherwise the bytes stay where they are.
Parse ==
    /\ pc = "parse"
    /\ IF Complete
       THEN /\ pc' = "handle"
            /\ flap' = UnmarshalFLAP(Frame)
            /\ buf' = From(buf, FlapLength(buf) + 1)
       ELSE pc' = "top" /\ UNCHANGED <<flap, buf>>
    /\ UNCHANGED <<input, nread, handled, context, link, writing>>

Ignore == UNCHANGED <<user, ctx, link, writing>> /\ pc' = "parse"

Answer(l) ==
    /\ BeginSend("handler")
    /\ UNCHANGED <<link, seq, reg, stamp, sends, wire>> /\ pc' = l

\* handleCloseFn and the error paths close the socket; the loop goes on with
\* what is in the buffer.
CloseLink == link' = "closed" /\ UNCHANGED writing /\ pc' = "parse"

\* The process ends, and nothing that anybody sends will arrive.
Panic == link' = "closed" /\ UNCHANGED <<user, ctx, writing>> /\ pc' = "ret"

\* "A hello" with nothing but the protocol version.
Hello == <<0, 0, 0, 1>>

\* The name, if there is a password, or else the cookie.
Credential(tlvs) ==
    LET name == FindTLV(tlvs, 1) IN
    IF name # NoResult /\ FindTLV(tlvs, 2) # NoResult THEN name ELSE FindTLV(tlvs, 6)

\* AuthenticateFLAPCookie: the version is skipped, the credential looked for
\* and the user accepted, or not; one that does not exist is dereferenced.
SignOn(data) ==
    \/ \E tlvs \in {UnmarshalTLVs(From(data, 5))} :
          /\ tlvs # NoResult /\ Credential(tlvs[1]) # NoResult
          /\ \/ user' = Credential(tlvs[1]) /\ Answer("reply") /\ UNCHANGED ctx
             \/ Panic
    \/ Ignore

\* A SNAC is answered, or not, or its service fails; one that cannot be read
\* closes the socket.  17/02 returns a context without session or user, after
\* one frame or two, and 02/04 one that is nil when it fails.
Request(data) ==
    \/ SNACReadable(data) /\ Answer("reply") /\ UNCHANGED <<user, ctx>>
    \/ /\ SNACReadable(data)
       /\ Answer("reply") \/ Answer("login")
       /\ ctx' = "background" /\ user' = <<>>
    \/ SNACReadable(data) /\ Ignore
    \/ CloseLink /\ UNCHANGED <<user, ctx>>
    \/ SNACReadable(data) /\ CloseLink /\ ctx' \in {"background", "nil"} /\ user' = <<>>

\* handleFn: a frame of a signed-on user first registers the session.
HandleFrame ==
    /\ pc = "handle"
    /\ handled' = Append(handled, [channel |-> flap[1].channel, data |-> flap[1].data])
    /\ flap' = <<>>
    /\ registered' = (registered \/ user # <<>>)
    /\ LET channel == flap[1].channel data == flap[1].data IN
       CASE ctx = "nil" -> Panic
         [] ctx = "background" -> Ignore
         [] ctx = "session" /\ channel = 1 /\ Len(data) < 4 -> Panic
         [] ctx = "session" /\ channel = 1 /\ Len(data) >= 4 /\ data # Hello -> SignOn(data)
         [] ctx = "session" /\ channel = 2 -> Request(data)
         [] ctx = "session" /\ channel = 4 /\ user # <<>> -> CloseLink /\ UNCHANGED <<user, ctx>>
         [] OTHER -> Ignore
    /\ UNCHANGED <<input, nread, buf, greeted>>

\* 17/02 tells the client to leave, whether it has accepted it or not ...
Bye ==
    /\ pc = "bye" /\ Answer("second")
    /\ UNCHANGED <<input, reading, context>>

\* ... and, if it has or the frame was not sent, closes the socket.
Leave ==
    /\ pc = "leave" /\ pc' = "parse" /\ link' \in {link, "closed"}
    /\ UNCHANGED <<input, reading, context, writing>>

HangUp ==
    /\ link = "open" /\ link' = "gone"
    /\ UNCHANGED <<input, reading, context, pc, writing>>

-----------------------------------------------------------------------------

SendStep(p) == Load(p) \/ Store(p) \/ Stamp(p) \/ Write(p) \/ SendFails(p)

Loop == Top \/ ReadFails \/ Parse \/ HandleFrame \/ Bye \/ Leave

Next ==
    \/ \E p \in Senders : SendStep(p)
    \/ \E p \in Routines : Notify(p)
    \/ Loop \/ Read \/ Timeout \/ HangUp

Spec == Init /\ [][Next]_vars

\* The scheduler runs the handler and the goroutines; what the client has
\* sent arrives between time-outs in the end; a write to a client that does
\* not read is assumed to end.
Fairness ==
    /\ WF_vars(Loop) /\ SF_vars(Read)
    /\ \A p \in Senders : WF_vars(SendStep(p))

FairSpec == Spec /\ Fairness

-----------------------------------------------------------------------------
(***************************************************************************)
(* Properties.                                                             *)
(***************************************************************************)

\* However the bytes are cut into reads, and whatever time-outs, errors and
\* answers come between: a handler that waits for more has handled exactly
\* the frames of which every byte has been read, as the client sent them
\* (server.go:87-112).  Bytes after them that are no frame are never handled.
Framed ==
    pc = "read" =>
        LET k == Len(handled) IN
        /\ k <= Len(input.frames) /\ handled = SubSeq(input.frames, 1, k)
        /\ End(input, k) <= nread
        /\ k < Len(input.frames) => nread < End(input, k + 1)

\* Every frame is handled in the end, unless the socket is closed first.
AllHandled == <>(handled = input.frames \/ link # "open")

\* The greeting is the first frame on the wire, with number 1, and is sent
\* once, whoever else sends: nobody has the session before (server.go:54-59,
\* 135).
GreetedFirst ==
    \A i \in DOMAIN wire :
        (wire[i].what = "hello") = (i = 1) /\ (i = 1 => wire[i].seq = 1)

\* The numbers on the wire are consecutive, round the end of the counter as
\* well, as long as no two Sends overlap and none fails (session.go:57-76).
Consecutive ==
    ~disturbed => \A i \in 1..Len(wire) - 1 : wire[i + 1].seq = (wire[i].seq + 1) % Numbers

\* tlv is one of data, as MarshalTLV writes it, and the TLVs before it are of
\* other types.
First(tlv, data) ==
    \E k \in 0..Len(data) :
        LET end == k + 4 + Len(tlv.data) IN
        /\ end <= Len(data) /\ SubSeq(data, k + 1, end) = MarshalTLV(tlv.type, tlv.data)
        /\ \E before \in {UnmarshalTLVs(SubSeq(data, 1, k))} :
              before # NoResult /\ FindTLV(before[1], tlv.type) = NoResult

\* Whoever is signed on was named by a name or a cookie that this client has
\* sent in a sign-on, the first of its type, unharmed by framing and decoding,
\* and by nothing that lies in another TLV or behind the end of one
\* (AuthenticateFLAPCookie, 0x17:42-80; tlv.go:42-83).
UserIsCredential ==
    user # <<>> =>
        \E i \in DOMAIN handled :
            /\ handled[i].channel = 1 /\ user[1].type \in {1, 6}
            /\ First(user[1], From(handled[i].data, 5))

-----------------------------------------------------------------------------
(***************************************************************************)
(* The inductive invariant behind the properties above.                    *)
(***************************************************************************)

\* How many frames have been cut out of the buffer.
Taken == Len(handled) + (IF pc = "handle" THEN 1 ELSE 0)

\* What has been handled is what was sent first, the frame in handleFn comes
\* next, and the buffer is the rest of what was read; there is no frame at its
\* head when the handler waits for more.
Cut ==
    /\ handled \in Seq([channel : Byte, data : Seq(Byte)]) /\ nread \in Nat
    /\ Taken <= Len(input.frames)
    /\ handled = SubSeq(input.frames, 1, Len(handled))
    /\ End(input, Taken) <= nread /\ nread <= Len(input.bytes)
    /\ buf = SubSeq(input.bytes, End(input, Taken) + 1, nread)
    /\ pc = "handle" =>
          flap = << [channel |-> input.frames[Taken].channel, seq |-> 0,
                     data |-> input.frames[Taken].data] >>
    /\ pc \in {"top", "hello", "read"} => ~Complete

\* The handler is in Send exactly while it greets or answers.
HandlerSends == (sender["handler"] = "idle") = (pc \notin Sending)

\* Until the greeting is out nobody has the session; if it did not get out,
\* nothing will.
GreetingPending ==
    /\ (pc \in {"top", "hello"} \/ greeted)
    /\ pc = "hello" => ~greeted
    /\ ~greeted => /\ wire = <<>> /\ user = <<>> /\ ~registered
                   /\ \A p \in Routines : sender[p] = "idle"
                   /\ ~disturbed
    /\ greeted /\ wire = <<>> => link # "open"

LastSeq == IF wire = <<>> THEN 0 ELSE wire[Len(wire)].seq

\* While Sends do not overlap, the counter is that of the last frame, or one
\* more in the second half of a Send.
InStep ==
    ~disturbed =>
        /\ \A p, q \in Senders : sender[p] # "idle" /\ sender[q] # "idle" => p = q
        /\ (\A p \in Senders : sender[p] \in {"idle", "load", "store"}) => seq = LastSeq
        /\ \A p \in Senders :
              /\ sender[p] = "store" => reg[p] = LastSeq
              /\ sender[p] \in {"stamp", "write"} => seq = (LastSeq + 1) % Numbers
              /\ sender[p] = "write" => stamp[p] = seq

SendInv ==
    /\ TypeOK
    /\ HandlerSends
    /\ GreetingPending
    /\ InStep
    /\ Consecutive
    /\ GreetedFirst

IInv == SendInv /\ Cut /\ UserIsCredential

=============================================================================
