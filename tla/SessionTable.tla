---------------------------- MODULE SessionTable ----------------------------
(***************************************************************************)
(* What the connection handlers promise to the two delivery goroutines:   *)
(* the map of SessionManager (session_manager.go), who may write it, and  *)
(* which TCP connections this process has closed.                          *)
(*                                                                         *)
(* The map is keyed by screen name and a connection may be entered only   *)
(* under a name it has authenticated as.  Nothing ties a removal to the   *)
(* connection that is registered: RemoveSession takes a name only.        *)
(* Handler.tla implements this specification; MessageDelivery.tla is      *)
(* checked against every behaviour it allows.                              *)
(***************************************************************************)

CONSTANTS
    Users,      \* users, identified with their screen names
    Conns,      \* TCP connections; each is accepted at most once
    NoConn      \* the nil *Session of an absent or removed entry

ASSUME NoConnAssumption == NoConn \notin Conns

VARIABLES
    sessions,   \* SessionManager.sessions: screen name -> session or nil
    conn,       \* the socket as this process holds it
    authed      \* history: the users a connection has authenticated as

tableVars == <<sessions, conn, authed>>

\* A closed socket keeps its handler until the buffered FLAPs are handled; a
\* dead one belonged to a process that has ended.
Sockets == {"none", "open", "closed", "dead"}

Served(c) == conn[c] \in {"open", "closed"}

TableTypeOK ==
    /\ sessions \in [Users -> Conns \cup {NoConn}]
    /\ conn \in [Conns -> Sockets]
    /\ authed \in [Conns -> SUBSET Users]

TableInit ==
    /\ sessions = [u \in Users |-> NoConn]
    /\ conn = [c \in Conns |-> "none"]
    /\ authed = [c \in Conns |-> {}]

-----------------------------------------------------------------------------

Accept(c) ==
    /\ conn[c] = "none"
    /\ conn' = [conn EXCEPT ![c] = "open"]
    /\ UNCHANGED <<sessions, authed>>

\* The handler of c puts user u in its context.  The FLAP may have been
\* buffered before the socket was closed, so conn[c] may be "closed".
Authenticate(c, u) ==
    /\ Served(c)
    /\ authed' = [authed EXCEPT ![c] = @ \cup {u}]
    /\ UNCHANGED <<sessions, conn>>

\* Mutant: registers without a name the connection has authenticated as.
SetSessionUnchecked(u, c) ==
    /\ Served(c)
    /\ sessions' = [sessions EXCEPT ![u] = c]
    /\ UNCHANGED <<conn, authed>>

SetSession(u, c) ==
    /\ Served(c) /\ u \in authed[c]
    /\ sessions' = [sessions EXCEPT ![u] = c]
    /\ UNCHANGED <<conn, authed>>

Disconnect(c) ==
    /\ conn[c] = "open"
    /\ conn' = [conn EXCEPT ![c] = "closed"]
    /\ UNCHANGED <<sessions, authed>>

\* Mutant: the entry goes while the socket is open.
RemoveSessionFirst(u) ==
    /\ \E c \in Conns : u \in authed[c] /\ conn[c] = "open"
    /\ sessions' = [sessions EXCEPT ![u] = NoConn]
    /\ UNCHANGED <<conn, authed>>

\* Some connection of u has been closed; the entry may be another one's.
RemoveSession(u) ==
    /\ \E c \in Conns : u \in authed[c] /\ conn[c] = "closed"
    /\ sessions' = [sessions EXCEPT ![u] = NoConn]
    /\ UNCHANGED <<conn, authed>>

\* The process ends: the map is gone and the kernel closes every socket.
Halt ==
    /\ sessions' = [u \in Users |-> NoConn]
    /\ conn' = [c \in Conns |-> IF conn[c] = "none" THEN "none" ELSE "dead"]
    /\ UNCHANGED authed

TableNext ==
    \/ \E c \in Conns : Accept(c) \/ Disconnect(c)
    \/ \E c \in Conns, u \in Users : Authenticate(c, u) \/ SetSession(u, c)
    \/ \E u \in Users : RemoveSession(u)
    \/ Halt

TableSpec == TableInit /\ [][TableNext]_tableVars

-----------------------------------------------------------------------------
(***************************************************************************)
(* Properties.                                                             *)
(***************************************************************************)

\* A lookup by name never yields a connection of somebody else, nor one of
\* an earlier process: whatever GetSession(u) returns has authenticated as u
\* here.  The two delivery goroutines rely on it, they never check who is at
\* the other end (message_delivery_routine.go:34, online_routine.go:48).
RegisteredOwner ==
    \A u \in Users : sessions[u] # NoConn =>
        u \in authed[sessions[u]] /\ Served(sessions[u])

Lone(c, u) == \A d \in Conns \ {c} : u \notin authed[d]

\* The only connection of a user stays registered as long as it is open:
\* handleCloseFn closes the socket before it removes the entry
\* (server.go:219-220), so no lookup that misses can precede the close.
LoneStaysRegistered ==
    [][ \A c \in Conns, u \in Users :
          (sessions[u] = c /\ Lone(c, u) /\ sessions'[u] # c)
             => conn'[c] \in {"closed", "dead"} ]_tableVars

=============================================================================
