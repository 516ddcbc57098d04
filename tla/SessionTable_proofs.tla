------------------------- MODULE SessionTable_proofs -------------------------
(***************************************************************************)
(* Proofs about SessionTable, for every set of users and connections.      *)
(***************************************************************************)
EXTENDS SessionTable, TLAPS

\* Every operation of the session map and of the sockets keeps the types.
LEMMA TableTypeStep ==
    ASSUME TableTypeOK, [TableNext]_tableVars
    PROVE  TableTypeOK'
<1> USE DEF TableTypeOK, Sockets
<1>1. ASSUME NEW c \in Conns, Accept(c) PROVE TableTypeOK'
  BY <1>1 DEF Accept
<1>2. ASSUME NEW c \in Conns, Disconnect(c) PROVE TableTypeOK'
  BY <1>2 DEF Disconnect
<1>3. ASSUME NEW c \in Conns, NEW u \in Users, Authenticate(c, u)
      PROVE  TableTypeOK'
  BY <1>3 DEF Authenticate
<1>4. ASSUME NEW c \in Conns, NEW u \in Users, SetSession(u, c)
      PROVE  TableTypeOK'
  BY <1>4 DEF SetSession
<1>5. ASSUME NEW u \in Users, RemoveSession(u) PROVE TableTypeOK'
  BY <1>5 DEF RemoveSession
<1>6. CASE Halt
  BY <1>6 DEF Halt
<1>7. CASE UNCHANGED tableVars
  BY <1>7 DEF tableVars
<1> QED
  BY <1>1, <1>2, <1>3, <1>4, <1>5, <1>6, <1>7 DEF TableNext

\* The session map, the sockets and the history of sign-ons keep their types.
THEOREM TableType == TableSpec => []TableTypeOK
<1>1. TableInit => TableTypeOK
  BY DEF TableInit, TableTypeOK, Sockets
<1>2. TableTypeOK /\ [TableNext]_tableVars => TableTypeOK'
  BY TableTypeStep
<1> QED
  BY <1>1, <1>2, PTL DEF TableSpec

-----------------------------------------------------------------------------

\* A step keeps RegisteredOwner: only SetSession enters a connection, after
\* it authenticated as that user; a served socket stays served until Halt,
\* which empties the map.
LEMMA RegisteredOwnerStep ==
    ASSUME TableTypeOK, RegisteredOwner, [TableNext]_tableVars
    PROVE  RegisteredOwner'
<1> USE NoConnAssumption DEF TableTypeOK, RegisteredOwner, Served, Sockets
<1>1. ASSUME NEW c \in Conns, Accept(c) PROVE RegisteredOwner'
  BY <1>1 DEF Accept
<1>2. ASSUME NEW c \in Conns, Disconnect(c) PROVE RegisteredOwner'
  BY <1>2 DEF Disconnect
<1>3. ASSUME NEW c \in Conns, NEW u \in Users, Authenticate(c, u)
      PROVE  RegisteredOwner'
  BY <1>3 DEF Authenticate
<1>4. ASSUME NEW c \in Conns, NEW u \in Users, SetSession(u, c)
      PROVE  RegisteredOwner'
  BY <1>4 DEF SetSession
<1>5. ASSUME NEW u \in Users, RemoveSession(u) PROVE RegisteredOwner'
  BY <1>5 DEF RemoveSession
<1>6. CASE Halt
  BY <1>6 DEF Halt
<1>7. CASE UNCHANGED tableVars
  BY <1>7 DEF tableVars
<1> QED
  BY <1>1, <1>2, <1>3, <1>4, <1>5, <1>6, <1>7 DEF TableNext

\* GetSession(u) never returns a connection of somebody else or of an
\* earlier process.
THEOREM Owner == TableSpec => []RegisteredOwner
<1>1. TableInit => RegisteredOwner
  BY DEF TableInit, RegisteredOwner
<1>2. TableTypeOK /\ RegisteredOwner /\ [TableNext]_tableVars => RegisteredOwner'
  BY RegisteredOwnerStep
<1> QED
  BY <1>1, <1>2, TableType, PTL DEF TableSpec

-----------------------------------------------------------------------------

\* The only connection of a user is not removed from the map before this
\* process has closed it.
THEOREM LoneStays == TableSpec => LoneStaysRegistered
<1> DEFINE Keeps == \A c \in Conns, u \in Users :
              (sessions[u] = c /\ Lone(c, u) /\ sessions'[u] # c)
                 => conn'[c] \in {"closed", "dead"}
<1>1. TableTypeOK /\ RegisteredOwner /\ [TableNext]_tableVars => [Keeps]_tableVars
  <2> SUFFICES ASSUME TableTypeOK, RegisteredOwner, TableNext,
                      NEW c \in Conns, NEW u \in Users,
                      sessions[u] = c, Lone(c, u), sessions'[u] # c
               PROVE  conn'[c] \in {"closed", "dead"}
    OBVIOUS
  <2>1. u \in authed[c] /\ Served(c)
    BY NoConnAssumption DEF RegisteredOwner
  <2>2. ASSUME NEW d \in Conns, Accept(d) \/ Disconnect(d) PROVE FALSE
    BY <2>2 DEF Accept, Disconnect
  <2>3. ASSUME NEW d \in Conns, NEW v \in Users, Authenticate(d, v) PROVE FALSE
    BY <2>3 DEF Authenticate
  <2>4. ASSUME NEW d \in Conns, NEW v \in Users, SetSession(v, d) PROVE FALSE
    <3>1. v = u /\ d # c
      BY <2>4 DEF SetSession, TableTypeOK
    <3> QED
      BY <3>1, <2>4 DEF SetSession, Lone
  <2>5. ASSUME NEW v \in Users, RemoveSession(v) PROVE conn'[c] = "closed"
    <3>1. v = u
      BY <2>5 DEF RemoveSession, TableTypeOK
    <3>2. PICK d \in Conns : u \in authed[d] /\ conn[d] = "closed"
      BY <2>5, <3>1 DEF RemoveSession
    <3>3. d = c
      BY <3>2 DEF Lone
    <3> QED
      BY <3>2, <3>3, <2>5 DEF RemoveSession
  <2>6. CASE Halt
    BY <2>6, <2>1 DEF Halt, Served, TableTypeOK
  <2> QED
    BY <2>2, <2>3, <2>4, <2>5, <2>6 DEF TableNext
<1>2. TableSpec => [][Keeps]_tableVars
  BY <1>1, TableType, Owner, PTL DEF TableSpec
<1> QED
  BY <1>2 DEF LoneStaysRegistered

=============================================================================
