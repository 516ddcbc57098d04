-------------------------------- MODULE Mailbox --------------------------------
(***************************************************************************)
(* What message delivery promises to its users: a message is on its way    *)
(* until it is written to one connection or lost, it is written at most    *)
(* once, and it does not overtake an earlier one from the same connection. *)
(* Nothing is promised about the order of different senders, and a message *)
(* may be lost at any time.  MessageDelivery.tla implements this           *)
(* specification.                                                          *)
(***************************************************************************)
EXTENDS Naturals, Sequences

CONSTANT Conns      \* connections, of senders and of recipients

VARIABLES
    origin,     \* the connections that sent message 1, 2, ...
    pending,    \* the messages on their way
    inbox       \* the messages written to a connection, in order

boxVars == <<origin, pending, inbox>>

BoxInit ==
    /\ origin = <<>>
    /\ pending = {}
    /\ inbox = [c \in Conns |-> <<>>]

Submit(c) ==
    /\ origin' = Append(origin, c)
    /\ pending' = pending \cup {Len(origin) + 1}
    /\ UNCHANGED inbox

\* Only the oldest message of its sender can be written.
Deliver(i, c) ==
    /\ i \in pending
    /\ \A j \in pending : origin[j] = origin[i] => i <= j
    /\ pending' = pending \ {i}
    /\ inbox' = [inbox EXCEPT ![c] = Append(@, i)]
    /\ UNCHANGED origin

\* Some are dropped: a failed step drops one, the end of the process all.
Lose ==
    /\ pending' \in SUBSET pending
    /\ UNCHANGED <<origin, inbox>>

BoxNext ==
    \/ \E c \in Conns : Submit(c)
    \/ \E i \in pending, c \in Conns : Deliver(i, c)
    \/ Lose

BoxSpec == BoxInit /\ [][BoxNext]_boxVars

-----------------------------------------------------------------------------
(***************************************************************************)
(* What follows for every implementation.                                  *)
(***************************************************************************)

BoxTypeOK ==
    /\ origin \in Seq(Conns)
    /\ pending \subseteq DOMAIN origin
    /\ inbox \in [Conns -> Seq(DOMAIN origin)]

\* A message is written to one connection at most, and once: no step after
\* the write may start it over (message_delivery_routine.go:74-85).
Once ==
    \A c, d \in Conns : \A k \in DOMAIN inbox[c], l \in DOMAIN inbox[d] :
        inbox[c][k] = inbox[d][l] => c = d /\ k = l

\* What one connection receives from another comes in the order of sending
\* (0x04_ICBM.go:210, message_delivery_routine.go:25).
InOrder ==
    \A c \in Conns : \A k, l \in DOMAIN inbox[c] :
        (k < l /\ origin[inbox[c][k]] = origin[inbox[c][l]])
            => inbox[c][k] < inbox[c][l]

\* What is still on its way was sent later than what was written.
WrittenFirst ==
    \A c \in Conns : \A k \in DOMAIN inbox[c], j \in pending :
        origin[inbox[c][k]] = origin[j] => inbox[c][k] < j

BoxInv == BoxTypeOK /\ Once /\ InOrder /\ WrittenFirst

\* Message i does not stay on its way for ever: it is written or dropped.
Settles(i) == i \in pending ~> i \notin pending

=============================================================================
