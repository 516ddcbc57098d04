# A TLA+ model of aim-oscar-server

aim-oscar-server speaks AOL's OSCAR protocol to AIM clients: clients sign on over
TCP, send each other messages through the server and are told when their buddies
come and go. This directory models the part of the server where its goroutines
meet, checks it with TLC and proves the main properties with TLAPS. All paths
below are relative to `src/`.

## The system

| part | state | operations | talks to |
|---|---|---|---|
| connection handler, one goroutine per TCP connection (`server.go`) | read buffer, context (session, user) | accept, read, split into FLAPs, handle one FLAP, close | services, session map, `onlineCh`, database |
| session manager (`session_manager.go`) | map from screen name to `*Session`, under a RWMutex | SetSession, GetSession, RemoveSession | handlers write, the two goroutines read |
| services 0x01, 0x02, 0x03, 0x04, 0x17 (`services/`) | none of their own | one per SNAC subtype, run in the handler's goroutine | database, both channels, the session's socket |
| message delivery (`message_delivery_routine.go`) | channel of capacity 1 | receive, look up, query the author, write, mark | session map, `messages`, the recipient's socket |
| online notification (`online_routine.go`) | channel of capacity 1 | receive, query buddies, write to each, write to the user | session map, `buddies`, `users`, sockets |
| database | `users` (status, cipher, texts), `messages`, `buddies` | single statements, no transactions | survives the process |
| session (`oscar/session.go`) | socket, sequence number, screen name | Send, Disconnect | written by handler and both goroutines |
| codecs (`oscar/`, `util/`) | none | FLAP, SNAC, TLV, buffers | 16-bit lengths, which may wrap |
| start and stop (`main.go`) | | reset of all statuses, accept loop, exit on a signal | |

What is hard here:

- **Interleaving.** Several connections of one user share one map entry and one
  `users` row, and each handler closes without looking at the others.
- **Stale reads.** The delivery goroutine looks a session up, queries the
  database, and writes to what it found before.
- **Protocol sequences.** FLAPs that arrived in one read are all handled, also
  those behind a sign-off; each of them registers the session again.
- **Partial failure.** Errors of statements and writes are logged and the rest
  goes on; some lead to a context without session, or to a nil context.
- **Shared counters.** The number of a frame is incremented by three goroutines
  without a lock, and wraps at 16 bits.
- **Bytes.** A read may end anywhere in a frame; lengths come from the client and
  are added and subtracted in 16 bits.
- **Blocking.** Both channels hold one element and all handlers send on them, in
  the middle of requests and of closing.
- **Crashes.** Only the database is left: statuses, keys, lists and stored messages.

What makes each part correct:

- handlers: a user whose connections are all finished is away and unregistered; a
  user served on its only connection is registered; handlers that close return;
  nothing of an earlier process is believed;
- session map: a lookup by name finds a connection of that user, of this process;
- delivery: to the addressee only, at most once, in the sender's order; stored
  contents are neither cleared early nor lost after the acknowledgement;
- notification: users who list each other agree on who is online once everything
  is quiet, nobody who signed off is shown online, and notices go only to users
  related by a list;
- buddy lists: a user has every buddy once;
- authentication: who signs on knows the password and does not use another's key,
  cookies are given to verified accounts, a right password is refused only when somebody
  interfered, and a key that was overwritten or cleared opens nothing any more;
- one connection: exactly the frames the client sent are handled, in any
  segmentation; the greeting comes first and once; frame numbers are consecutive;
- lengths: no announced length makes the server read or write another length, and
  it is known which texts are too long.

## The modules

`SessionTable` is the interface. It has the session map, the state of each socket
and, as a history, the names each connection has authenticated as, and says which
changes the handlers may make: register under an authenticated name, close, remove
a name after some connection of that user was closed, end with everything. It is
what the delivery goroutines may rely on. A removed entry is nil and an absent one
does not exist, which GetSession does not tell apart; both are `NoConn`.

`Handler` is the detailed specification of `server.go` and of what services do to
shared state. One program counter `pc[c]` per connection has a label in front of
each access to shared state (see the module's header), so that TLC interleaves
handlers between them. The correspondence:

| code | Handler |
|---|---|
| `main.go:62-67`, `117-131`, `135-143` | `Start`, `Crash`, `Accept` |
| read loop of `Handle` | `ReadData`, `HangUp`, `ReadClosed` |
| `handleFn` up to the service | `Drop`, `Take` |
| error of a service, then Disconnect and handleCloseFn | `Fail`, then the closing labels |
| channel 1 with a cookie or password | `SignOn` |
| SNAC 01/02, 01/0e, 02/04 | `Ready`, `SelfInfo`, `SetInfo`, then `Post` |
| SNAC 03/04 | `AddName`, `AddPost`, once per name |
| SNAC 17/02 | `Authorize` |
| subtypes that only read and answer | `Reply` |
| channel 4, and the other calls of `handleCloseFn` | `SetAway`, `PostAway`, `Disconnect`, `RemoveSession` |
| nil dereferences | `Panic`, which ends the process |
| the receive of `online_routine.go` | `Drain` |

The buffer is the number of complete FLAPs in it; what a FLAP asks for is chosen
when it is taken. A context is the user in it, or `Anon` (session, no user),
`Background` (neither: what 17/02 returns, because it shadows `ctx`) or `NilCtx`
(what 02/04 returns on malformed TLVs). `after[c]` is the context `handleFn`
returns once `handleCloseFn` is done, or `Return` when `Handle` itself returns. A
04/06 request is a `Reply` here: it touches none of this module's state; its own
blocking send is in `MessageDelivery`. A user's `status` has the two values that
this code writes.

`Mailbox` is what message delivery promises to users, without handlers, sessions or
tables: a message is pending until it is written to one connection or lost, is
written once, and does not overtake an older one of its sender.

`MessageDelivery` extends `SessionTable` with the 04/06 request, the channel, the
delivery goroutine, the `messages` table, and histories of what was written and
acknowledged. The handlers outside this request are *any* behaviour of
SessionTable (`Elsewhere`), except that one that is busy with a message does
nothing else. As `Handler` implements `SessionTable`, what holds here holds with
the real handlers. A message is its position in `sent`; its contents are left out,
its row is absent, stored or cleared. It implements `Mailbox` (`Box`): pending are
the messages that a handler holds before the channel, that are in it, and that the
goroutine holds before its write.

`MessageText` follows the *length* of a message: what the 04/06 request announces,
the 16-bit subtraction and the three reads of its handler, the TLV and the frame the
goroutine writes. The client may announce anything that fits in one frame.

`OnlineNotification` extends `SessionTable` with the data that presence is about:
the status column, the buddies table, and the `*models.User` values, which handlers
share with the goroutine through the channel (`objs`: the routine reads the status
of the object when it writes, and SNAC 02/04 changes the object but not the row).
The handlers appear again with their writes of object and row and their channel
sends; the goroutine with its query, both loops and each `Send`. Histories record
the last that each connection was told of each user (`heard`), what a connection
has announced (`said`), pairs that were listed or added, users with overlapping
connections, and whether a query or write was lost. To each buddy the routine looks at
the object's status twice (`Write`, then `WriteAway`), and tells nothing when it became
Online in between. The routine's loops run in any
order, as the query has no ORDER BY. `lists` counts the rows of a pair, because 03/04
looks for a row in one statement (`CountBuddy`) and inserts in the next
(`InsertBuddy`), and nothing keeps the table free of duplicates. `Requested`, `Faults` and
`InitialLists` choose what an instance exercises. Object and row of Ready, SelfInfo
and SetAway change in one step: the routine reads them in different steps anyway,
and the channel send, which is what it can wait for, is a step of its own.

`Auth` is signing on: the request for a key (17/06) as the statements that store and
send it, the authorization request (17/02), the sign-on FLAP with a cookie or, for
clients of version 1.0, with a roasted password, the sign-off that clears the key,
later passes of `handleCloseFn` that clear it again, and restarts. A key is a number,
0 is the empty column, and a hash is the key in it together with whether the password was
right. Cookie and proof are the same hash, so a client can make both: `Hashes` is what it
can offer at any time, its password with the keys it was sent or with none, and the cookies
it was given. 17/02 and the sign-on compare that with what the row says at their moment
(`Expected`) and require nothing else to have come before. Statements that fail and clients
or processes that go away in between are `Lost` and `Restart`.

`Codec` has the conversions of `oscar/` on bytes: FLAP and TLV both ways, TLV lists,
the SNAC header, and the sizes `TLV.MarshalBinary` computes. `Link` uses it for one
connection below the services: `Handle` reads pieces of up to `Chunk` bytes, times
out, cuts frames and hands them to `handleFn`, while it and the delivery goroutines
are in `Session.Send`, whose `SequenceNumber += 1` is a load and a store. What the client
sends (`ClientInput`) is frames, the places where they end, and bytes: the frames one
behind the other and then anything that is no frame. A sign-on is decoded as it is in
the code, up to its credential (`Credential`): the name in TLV 1 when there is a password
in TLV 2, or else the cookie in TLV 6. Whether that is accepted is left open (`Auth` has
it), and so is the answer of a service: none, one, or an error that closes the socket.
The context that a handler returns is kept as far as it decides what becomes of the next
frame: after 17/02 (`background`) all are ignored, after a failed 02/04 (`nil`) the next one
ends the process, as does a sign-on with less than the four bytes of the version or of a
user that does not exist. 17/02 answers with one frame (no such user) or with two; after
the second it closes the socket if it has given out a cookie.

| code | Link |
|---|---|
| `server.go:50-60`, `74-92` | `Top`, `Read`, `Timeout`, `ReadFails` |
| `server.go:94-112`, `handleFn` | `Parse`, `HandleFrame` with `SignOn`, `Request`, `CloseLink`, `Panic` |
| the end of 17/02, `services/0x17:220-266` | `Bye`, `Leave` |
| `oscar/session.go` | `BeginSend`, `Load`, `Store`, `Stamp`, `Write`, `SendFails` |
| the two goroutines, once they have the session | `Notify` |

The MC modules add the instances that are not in the cfg files: symmetry, initial
lists, dialogues, lengths; the `*_proofs` modules hold the theorems.

`Handler`, `MessageDelivery` and `OnlineNotification` share `SessionTable`: `Handler`
implements it, `MessageDelivery` is composed with anything that does, and
`OnlineNotification`, which has the handlers in more detail where presence is
concerned, implements it again. `Auth`, `Link` and
`MessageText` stand alone, because they share with the rest only what they leave
open: `Handler!SignOn` may or may not accept any user, its FLAPs are those that `Link`
cuts, and `MessageDelivery!Send` may fail, which is what a text that is too long does.

Definitions whose comment begins with "Mutant" are wrong on purpose: each is a
plausible bug in the definition below it, used to see that a property notices.

## The runs

| run | instance | shows |
|---|---|---|
| `handler_two_users` | 2 connections, 2 users, 2 FLAPs a read, 2 boots | `SettledOffline`, `OnlineHasOrigin`, `RequesterRegistered`, the inductive invariant, `ImplementsTable` |
| `handler_closing` | 2 connections, 1 user, 2 FLAPs a read, 1 failing SetAway, fair | `SettledAway`, `ClosedTerminates`, the inductive invariant |
| `delivery_order` | 2 connections, 2 users, 1 cookie, 2 messages | `WrittenToAddressee`, `WrittenOnce`, `SenderOrder`, the inductive invariant, `ImplementsMailbox`; `RegisteredOwner` and `LoneStaysRegistered` of the interface |
| `delivery_table` | 2 connections, 1 user, 2 cookies, 2 messages, stored, fair | `ClearedWasWritten`, `AckedIsKept`, `MessagesSettle` |
| `presence` | 2 connections, 2 users who list each other, 2 sign-ons, Ready, SetInfo, sign-off, failing statements, restart | `MutualBuddiesAgree`, `NoGhosts` |
| `presence_lists` | 2 connections, 2 users, 3 objects, lists that change, lost notices, restart | `ToldOfRelated`, `BuddiesOnce`, the inductive invariant |
| `auth_signon` | 2 clients, 1 user, 4 keys, 2 connections that are being closed | `OnlyEntitled`, `RefusedOnlyIfDisturbed`, `CookieSpent`, the inductive invariant |
| `link_frames` | 3 dialogues, each with a tail of its own, 8 bytes a read, 1 goroutine with 2 frames, 4 numbers, fair | `Framed`, `UserIsCredential`, `AllHandled`, `GreetedFirst`, `Consecutive`, the inductive invariant |
| `text_lengths` | 26 lengths around every limit, for three fields each, 2 lengths of names | `TextAsAnnounced`, `TextWritten`, `OnlyLongestFail` |
| `handler_reconnect`, `handler_hangup`, `presence_strangers` | smallest | the disagreements below |

Bounds. Two connections are enough for every pairwise race on a map entry, a row
or a channel; more are left to the theorems. Two users are needed for a connection
that changes user and for names to be told apart. `MaxBuf = 2` lets one FLAP be
handled behind the one that signs off, which is when a closed connection is registered
again. `MaxBoots = 2` is one restart; `Conns` are never reused, so old and new
connections meet. `MaxNames = 1` leaves the loop of 03/04 one turn (a further turn
repeats the same two steps; the theorems hold for any bound). `MaxAwayFailures` is 0
except where the failure is the question. `MaxMsgs = 2` is the least for order and for
a shared cookie, and fills the channel while the goroutine holds a message.
`auth_signon` has one user because no statement touches two rows; two clients and two
connections that are being closed write a key and clear it between any two steps of the
other, and four keys let each have two of its own, one spent and one in use.

`link_frames` keeps the bytes real and makes three numbers small: 8 bytes a read
instead of 512, so that every frame is cut in every place; 4 frame numbers instead of
65536, so that they wrap; 2 frames of one goroutine, so that two Sends overlap. Its
dialogues are a sign-on by cookie, with another TLV in front of it, and a request, a
sign-off and a frame behind it; an early sign-off, a broken TLV and an old client that
sends name and password; and a SNAC that is cut short, followed by a sign-on that is too
short and ends the process. Behind them come a frame after a byte that is not the mark, part
of a frame, and nothing. `text_lengths` has the full
16 bits: its lengths are those where a comparison or a wrap changes its outcome.

The presence runs split requests and faults between them to stay small: what changes
lists and notices that are lost in one, what changes statuses and statements that
fail in the other, each together with restarts. The last parts of the inductive invariant
(`SpeaksTrue`, `Agreement`) speak of users who list each other from the start, whom
`presence_lists` does not have; with `IInv` added to its cfg, `presence` checks them too
(4.4 million states, about five minutes).

Runs of `Handler`, `OnlineNotification`, `Link` and `MessageText` do not check for
deadlock, because a server that ended and is not started again, or all of whose clients
have left, and a message that was written are legitimate ends. A handler stuck in a
channel send is what `ClosedTerminates` and `MessagesSettle` look for. `auth_signon` and
both delivery runs check for deadlock. `SessionTable` has no run of its own:
`delivery_order` explores all of its behaviours that two connections can have.

Symmetry is used in safety runs only: the specifications compare users and
connections only for equality.

### Fairness

`Handler!FairSpec`: weak fairness for each handler's own steps and for the
receiver of `onlineCh`, strong fairness for channel sends. Go's scheduler runs
every runnable goroutine; waiting senders of a Go channel are served in order, so
a sender for which the channel has room again and again gets its turn. The
database is assumed to answer. Writes to sockets are assumed to end: the program
sets no write deadline, so a client that stops reading while its connection stays
up is outside these runs. Nothing is assumed of clients (they need not
send, hang up or reconnect), nor of crashes and restarts. `MessageDelivery!FairSpec`
is the same for the delivery goroutine and for the handlers inside a 04/06 request.
`Link!FairSpec` has weak fairness for the handler's loop and for each sender, and
strong fairness for `Read`: what the client has sent arrives between time-outs in the
end, although a time-out may come first any number of times.

### Where code and comments disagree

- `handler_reconnect`: the first connection of a user closes after the second one
  has registered; `RemoveSession` (`server.go:220`) takes a name and removes the
  second one's entry. Until the second connection's next FLAP the user counts as
  "not connected" (`message_delivery_routine.go:33`) and messages are dropped.
- `handler_hangup`: on EOF `Handle` returns at `server.go:84` without
  `handleCloseFn`; the entry stays, so the "disconnected" test at
  `online_routine.go:90` does not see it, and the status stays online.
- `presence_strangers`: the query (`online_routine.go:35`) finds those who list the
  user; the second loop, commented "Get the user's list of online buddies" (line
  95), goes over the same rows. A user is told of people who list him, and never
  told of a buddy who does not list him and was online before.

Not claims of a comment that a run can refute, but of interest to whoever works on
this code:

- The acknowledgement of a message carries the sender's name
  (`services/0x04_ICBM.go:219`), the comment at line 212 says the recipient's.
- 02/04 sets the status in memory and posts the user, while
  `services/0x02_location_services.go:81` does not write the column. Buddies can be
  told Online of a user whose row says Away.
- `users.verified` is looked at when a cookie is issued
  (`services/0x17_authorization_registration_service.go:225-226`, "Only users that have
  verified their email can use the service"); a sign-on does not look at it, neither with a
  roasted password nor with a cookie, which is a hash that clients can make themselves.
  `OnlyEntitled` claims it of the cookies that 17/02 gives out, and of nothing else.
- A sign-off spends cookies by emptying `users.cipher` (`models/User.go:87`), with which a
  cookie over the empty string fits. `CookieSpent` is about keys that were generated.
- Two Sends at once may write equal or swapped numbers (`oscar/session.go:57`), which is
  why `Consecutive` speaks of Sends that do not overlap.
- A text that together with the sender's name is longer than 65460 bytes is accepted, stored
  and acknowledged, and cannot be delivered (`OnlyLongestFail`).
- Two connections of one user can insert the same buddy twice, each between count and
  insert of the other; the user is then notified twice. `BuddiesOnce` is about users
  whose connections do not overlap.
- `online_routine.go:50` and `71` read the status of an object that its handler may be
  writing. A buddy for whom it was Away at the first and Online at the second is told
  nothing; the announcement that follows the write puts it right.

The positive properties are stated around these: `SettledOffline` speaks of users
whose handlers ended in `handleCloseFn`, `RequesterRegistered` and
`LoneStaysRegistered` of a user's only connection. The presence properties speak of
users who list each other, then and all the time before, so that both the announcement
of the one and the list of the other lead to the watcher. The watcher is visible:
its row says Online, so that the query does not pass it over, and it has announced
itself. `MutualBuddiesAgree` asks that object, row and last announcement of the other agree
on Online, which leaves out a 02/04 that changed the object only; `NoGhosts` that the row
says Away, which leaves out a SetAway that failed for good. Both leave out users with
overlapping connections (the old one may announce Away after the new one's Online), users
whom somebody added meanwhile (`services/0x03:51-84` posts a row it read before the
insert), and runs in which a query or write of the routine failed, which it does not repeat.

## The proofs

For every set of users, connections, clients, cookies, goroutines, lists and lengths, and
for all bounds:

| module | theorem | states |
|---|---|---|
| `SessionTable_proofs` | `TableType`, `Owner`, `LoneStays` | types; a lookup finds a live connection of that user; close before remove |
| `Handler_proofs` | `Inductive`, `TypeCorrect` | `IInv`, types |
| | `Settled`, `Origin`, `Registered` | `SettledOffline`, `OnlineHasOrigin`, `RequesterRegistered` |
| | `Repaired` | `SettledAway` |
| | `Refinement` | `Spec => ImplementsTable` |
| `Mailbox_proofs` | `BoxInductive` | once, in order, of every mailbox |
| `MessageDelivery_proofs` | `Inductive`, `TypeCorrect` | `IInv`, types |
| | `Addressing`, `Clearing`, `Kept` | `WrittenToAddressee`, `ClearedWasWritten`, `AckedIsKept` |
| | `UsesTable` | the delivery adds no behaviour to the interface |
| | `Refinement` | `Spec => ImplementsMailbox` |
| | `WritesOnce`, `InSenderOrder` | `WrittenOnce`, `SenderOrder`, from the refinement |
| `OnlineNotification_proofs` | `Inductive`, `TypeCorrect` | `IInv`, types |
| | `UsesTable` | its handlers, too, implement the interface |
| | `Related`, `Once` | `ToldOfRelated`, `BuddiesOnce` |
| | `Agree`, `Ghosts` | `MutualBuddiesAgree`, `NoGhosts` |
| `Auth_proofs` | `Inductive`, `TypeCorrect` | `IInv`, types |
| | `Entitled`, `Refused`, `Spent` | `OnlyEntitled`, `RefusedOnlyIfDisturbed`, `CookieSpent` |
| `Link_proofs` | `Inductive`, `Greeting`, `Numbering` | `IInv`, `GreetedFirst`, `Consecutive` |
| | `Framing`, `SignedOn` | `Framed`, `UserIsCredential` |
| | `TLVsRoundTrip` | `oscar/` decodes bytes to a list of TLVs exactly if they consist of it |
| | `FLAPRoundTrip`, `TLVRoundTrip` | what `oscar/` marshals it reads back, header and data |
| `MessageText_proofs` | `Inductive`, `TypeCorrect` | types, and what the limits leave |
| | `Announced`, `Written`, `Longest` | `TextAsAnnounced`, `TextWritten`, `OnlyLongestFail`, for all 16-bit lengths |

Assumptions: the named ASSUMEs of the modules, that is that sentinels differ from
users, connections and each other, that bounds are naturals, that there are at least two
frame numbers, that lengths are 16 and 8 bits wide, and what a client may send
(`ClientInput`).

*Handler.* `SettledOffline` is not inductive: it speaks of users all of whose
handlers have finished and says nothing about the steps before. `OnlineHasClosing`
turns it around: while a user is online, some connection that authenticated as the
user is neither dead nor past its last SetAway (`Finished`). Writing Online makes
the writer that connection; it loses the role only by its last SetAway, which
writes Away. `EntryHasHandler` does the same for the map. `Shape` relates a
handler's own variables (a label that works on a user has one in the context; the
user of the context has been authenticated; socket and label agree), which is also
what the refinement needs for its guards. `StatusEffect` and `MapEffect` say once
what a handler's step can do to the statuses and to the map, `Frame` that it leaves
the other handlers alone; the invariant is proved from these three. `OnlineHasRetry` is
the same for `SettledAway`: until one SetAway has failed, an online user has a handler that
has not tried yet and so will try twice; after that, one that has a try left (`TriedOnce`
tells the two apart). A second try is used up by a FLAP behind the sign-off, which
is why the property is about clients that wait: with them nothing is in the buffer
when the socket is closed (`OneAtATime`).

*Refinement.* Nearly every step changes at most one of `sessions`, `conn` and
`authed`; `Shape` gives the guard (registered under an authenticated name, removed
after the close). The end of the process is `Halt`.

*MessageDelivery.* `TargetIsAddressee` carries the result of the lookup over the
database query: whoever was registered under the name had authenticated
(`RegisteredOwner`, from SessionTable) and `authed` only grows, so it does not matter
what happened to the entry. `MarkingIsWritten` does the same from the write to the
update. The refinement needs that a message is held in one place only and that
the channel and the goroutine hold messages in the order of their senders; a step then
is a Submit, a Deliver, a Lose or a stutter. That every mailbox writes once and in order
is proved in `Mailbox_proofs` from `WrittenFirst` (what is pending is newer than what its
sender has had written) and carried over by the refinement. `Kept` follows a
stored message from the insert to the acknowledgement: its row can only be cleared
by a message with its cookie, which has been written by then.

*OnlineNotification.* `References` says that places in `objs` stay valid and that a
handler at work has a user its connection authenticated as; `Growth` proves that objects
only grow and keep their user, whatever the step. `HeldRelated` carries the query's rows
and the looked-up session to the writes, as `TargetIsAddressee` does. `BuddiesOnce`
needs `OneAtWork`: of a user without overlap one connection at most is unfinished, so
that what it has counted is still absent when it inserts (`AbsentKept`).

`Agreement` turns both presence properties into one about the future: if the status of a
buddy is `Settled`, that is row and last announcement agree, then whoever is visible knows
it, or an announcement of either waits in the channel, or the routine is about to tell:
of the buddy (`TellsOf`), or, when it works for the watcher, from the row that its query
has found (`TellsTo`). The routine tells the truth because of `SpeaksTrue`: nothing else is
announced of a user who is settled. `AtWork` says that the lookup finds the watcher. The proof
goes by what can make each part true: `SettledCause` and `VisibleCause` (the step that
settles a user or makes a watcher visible puts an announcement in the channel), then
`CoveredKept` and `CoveredServed` (other steps keep the disjunct, and the routine goes
from each to the next). At rest the channel is empty and the routine idle, which leaves
that the watcher knows.

*Auth.* `KeysFresh` says that a key is stored once at most and never comes back,
`KeysPrivate` that it is sent to one client at most, `HoldsCurrent` that a client nobody has
disturbed finds its own key in the row, `CookiesMade` that cookies go to clients that could
have made them, of verified accounts. The lemma `Offered` puts the last together for what a
client offers: a hash that fits is of the right password and of a key that it was sent, or of
the empty one. The three properties follow from these at the steps that read the row.

*Link.* The invariant relates the sender's place in Send to the counter and the last
frame: while nobody else is in Send, what was loaded is the counter, what was stored is
its successor, and the last frame carries the number before. `GreetedFirst` needs that
no goroutine sends before the session is registered, and that nothing is registered
before the greeting. For `Framed`, `Cut` says that what has been handled are the first
frames that were sent and that the buffer is the rest of what has been read. The places
where frames end are part of the input, instead of being summed up by recursion, so that
the next cut is a fact about one frame: `NextFrame` (its header gives its end) and
`NoFrame` (behind the last one nothing is cut). They and `FLAPRoundTrip` rest on lemmas
about the two bytes of a 16-bit word (`PutGet`), for every length below 65536.

`TLVsRoundTrip` is the one induction over data. `UnmarshalTLVs` recurs over the places of
its input from the back (`TLVsAt`), and what is true of a place has to be shown from the
next TLV's place. The library's induction theorems cannot be used, as they take an
operator; its least number principle (`LeastNumber`) speaks of a set, and gives the same
when the set is that of the places where the statement fails (`Downward`). That the
recursive function satisfies its own equation is proved first (`PlacesExist`,
`UnmarshalTLVsEquation`), then that what is decoded lies in the bytes (`DecodedLies`)
and that what lies there is decoded (`LyingDecoded`). `UserIsCredential` follows at the step
that signs on: the credential is the first of its type in the list (`FindTLV`), so it lies in
the bytes behind TLVs of other types (`FoundInBytes`, `BeforeTLV`); every other step
keeps the user or forgets it, and `handled` only grows.

*MessageText.* Linear arithmetic over the one fact that the request fits in a
frame, in which a text leaves room for its headers.

Only model-checked: `ClosedTerminates`, `MessagesSettle` and `AllHandled`, as liveness under
fairness is out of the prover's reach. Every safety property of a passing run has a theorem.

## Not modelled

- A write that never ends. The program sets no write deadline, so a client that stops
  reading can block the goroutine that writes to it. Nothing in the code ends that
  write, and without the assumption that it ends no liveness holds.
- The service manager: a map filled before the first connection; an unknown family is
  a FLAP that changes nothing.
- 0x13 and 0x0f (not registered, `main.go:91-92`) and 0x18 (does nothing).
- The buffer's 8-, 32- and 64-bit reads and writes (the 16-bit ones with another width)
  and the hex dump of the log.
- Configuration, logging, metrics, the database connection, migrations and the tool that adds
  users: no state the protocol depends on. Verifying an account is `Auth!Verify`.
- Contents of messages, profiles and away texts.
- The instant between the closing of the channels on a signal and `os.Exit` in
  `main.go`: it ends in the same state as the crash that `Handler` has at every point.

## Running

    tlc -workers 2 -config MCHandler_two_users.cfg MCHandler
    tlapm Handler_proofs.tla

`PROJECT.json` lists the runs with their properties, the mutants, the source lines
behind every definition, the hazards and the theorems.
