------------------------------ MODULE Auth_proofs ------------------------------
(***************************************************************************)
(* Proofs about Auth, for every set of users and clients and every bound.  *)
(***************************************************************************)
EXTENDS Auth, TLAPS

\* A client that goes somewhere has a stage, and with it a key.
LEMMA GoesTyped ==
    ASSUME TypeOK, NEW k \in Clients, NEW l \in Stages, NEW n \in Keys, Goto(k, l), With(k, n)
    PROVE  stage' \in [Clients -> Stages] /\ key' \in [Clients -> Keys]
BY DEF TypeOK, Goto, With

\* Whatever a client offers is a hash with a key.
LEMMA HashesTyped ==
    ASSUME TypeOK, NEW k \in Clients, NEW h \in Hashes(k)
    PROVE  h.key \in Keys
<1>1. CASE h \in {Hash(n, right[k]) : n \in known[k] \cup {0}}
  BY <1>1, AuthAssumption DEF Hash, TypeOK, Keys
<1>2. CASE h \in {Hash(n, TRUE) : n \in cookies[k]}
  BY <1>2 DEF Hash, TypeOK
<1> QED
  BY <1>1, <1>2 DEF Hashes

\* Every step keeps the types.
LEMMA TypeStep ==
    ASSUME TypeOK, [Next]_vars
    PROVE  TypeOK'
<1> USE AuthAssumption DEF TypeOK
<1>1. ASSUME NEW u \in Users, NEW n \in Keys, NEW S, SetCipher(u, n, S)
      PROVE  /\ cipher' \in [Users -> Keys] /\ gone' \in [Users -> SUBSET Keys]
             /\ own' \in [Clients -> Keys] /\ disturbed' \in [Clients -> BOOLEAN]
  BY <1>1 DEF SetCipher
<1>2. ASSUME NEW u \in Users, SetAway(u)
      PROVE  /\ cipher' \in [Users -> Keys] /\ gone' \in [Users -> SUBSET Keys]
             /\ own' \in [Clients -> Keys] /\ disturbed' \in [Clients -> BOOLEAN]
  <2>1. 0 \in Keys
    BY DEF Keys
  <2> QED
    BY <1>1, <1>2, <2>1 DEF SetAway, row
<1>3. ASSUME NEW k \in Clients, Done(k)
      PROVE  stage' \in [Clients -> Stages] /\ key' \in [Clients -> Keys]
  BY <1>3, GoesTyped DEF Done, Stages, Keys
<1>4. ASSUME NEW k \in Clients, Lost(k) PROVE TypeOK'
  BY <1>3, <1>4 DEF Lost, row
<1>5. ASSUME NEW u \in Users, Verify(u) PROVE TypeOK'
  BY <1>5 DEF Verify, client, row
<1>6. ASSUME NEW u \in Users, CloseAgain(u) PROVE TypeOK'
  <2>1. closing' \in [Users -> 0..MaxClosing]
    BY <1>6 DEF CloseAgain
  <2> QED
    BY <1>2, <1>6, <2>1 DEF CloseAgain, client
<1>7. ASSUME NEW k \in Clients, RequestKey(k) PROVE TypeOK'
  <2>1. keys' \in Keys /\ keys + 1 \in Keys
    BY <1>7 DEF RequestKey, Keys
  <2> QED
    BY <1>7, <2>1, GoesTyped DEF RequestKey, row, Stages
<1>8. ASSUME NEW k \in Clients, StoreKey(k) PROVE TypeOK'
  <2>1. CASE Lost(k)
    BY <1>4, <2>1
  <2>2. CASE ~Lost(k)
    <3>1. stage' \in [Clients -> Stages]
      BY <1>8, <2>2 DEF StoreKey, Goto, Stages
    <3> QED
      BY <1>1, <1>8, <2>2, <3>1 DEF StoreKey
  <2> QED
    BY <2>1, <2>2
<1>9. ASSUME NEW k \in Clients, SendKey(k) \/ Issue(k) PROVE TypeOK'
  <2>1. CASE Lost(k)
    BY <1>4, <2>1
  <2>2. CASE ~Lost(k)
    <3>1. known' \in [Clients -> SUBSET Keys] /\ cookies' \in [Clients -> SUBSET Keys]
      BY <1>9, <2>2 DEF SendKey, Issue
    <3> QED
      BY <1>3, <1>9, <2>2, <3>1 DEF SendKey, Issue, row
  <2> QED
    BY <2>1, <2>2
<1>10. ASSUME NEW k \in Clients, Authorize(k) \/ SignOn(k) PROVE TypeOK'
  <2>1. \E h \in Hashes(k), l \in {"issue", "badaccount", "badpassword", "on", "badcookie"} :
           With(k, h.key) /\ Goto(k, l)
    BY <1>10 DEF Authorize, SignOn
  <2>2. stage' \in [Clients -> Stages] /\ key' \in [Clients -> Keys]
    BY <2>1, HashesTyped, GoesTyped DEF Stages
  <2> QED
    BY <1>10, <2>2 DEF Authorize, SignOn, row
<1>11. ASSUME NEW k \in Clients, SignOnRoasted(k) PROVE TypeOK'
  BY <1>11, GoesTyped DEF SignOnRoasted, row, Stages, Keys
<1>12. ASSUME NEW k \in Clients, HangUp(k) \/ GiveUp(k) PROVE TypeOK'
  BY <1>4, <1>12 DEF HangUp, GiveUp
<1>13. ASSUME NEW k \in Clients, SignOff(k) PROVE TypeOK'
  <2>1. closing' \in [Users -> 0..MaxClosing]
    BY <1>13 DEF SignOff
  <2> QED
    BY <1>2, <1>3, <1>13, <2>1 DEF SignOff
<1>14. CASE Restart
  BY <1>14 DEF Restart, row, Stages, Keys
<1>15. CASE UNCHANGED vars
  BY <1>15 DEF vars, client, row
<1> QED
  BY <1>5, <1>6, <1>7, <1>8, <1>9, <1>10, <1>11, <1>12, <1>13, <1>14, <1>15 DEF Next

-----------------------------------------------------------------------------
(***************************************************************************)
(* What a write to the row, and the end of a request, do to the invariant. *)
(***************************************************************************)

\* The parts of the invariant that are about keys and cookies.
Sound ==
    /\ KeysFresh
    /\ KeysPrivate
    /\ HoldsCurrent
    /\ CookiesMade
    /\ RefusedOnlyIfDisturbed

\* Handlers that clear the key disturb everybody who holds one.
LEMMA SetAwaySound ==
    ASSUME TypeOK, Sound, NEW u \in Users, SetAway(u), UNCHANGED <<client, verified, keys>>
    PROVE  Sound'
<1> USE DEF TypeOK, Keys, client
<1>1. CASE SetCipher(u, 0, {})
  <2>1. /\ cipher' = [cipher EXCEPT ![u] = 0]
        /\ gone' = [gone EXCEPT ![u] = @ \cup {cipher[u]}]
        /\ \A k \in Clients : own'[k] = own[k] /\ disturbed'[k] = (disturbed[k] \/ who[k] = u)
    BY <1>1 DEF SetCipher
  <2>2. KeysFresh'
    BY <2>1 DEF Sound, KeysFresh, KeysPrivate, Asking
  <2>3. KeysPrivate'
    BY <2>1 DEF Sound, KeysPrivate, Asking
  <2>4. HoldsCurrent' /\ CookiesMade' /\ RefusedOnlyIfDisturbed'
    BY <2>1 DEF Sound, HoldsCurrent, CookiesMade, RefusedOnlyIfDisturbed
  <2> QED
    BY <2>2, <2>3, <2>4 DEF Sound
<1>2. CASE UNCHANGED row
  BY <1>2 DEF row, Sound, KeysFresh, KeysPrivate, Asking, HoldsCurrent, CookiesMade,
              RefusedOnlyIfDisturbed
<1> QED
  BY <1>1, <1>2 DEF SetAway

\* A client whose request is over keeps what it has.
LEMMA DoneSound ==
    ASSUME TypeOK, Sound, NEW k \in Clients, Done(k),
           UNCHANGED <<who, right, known, cookies, row, verified, keys>>
    PROVE  Sound'
<1> USE DEF TypeOK, Keys, Done, Goto, With, row
<1>1. KeysFresh' /\ HoldsCurrent' /\ CookiesMade' /\ RefusedOnlyIfDisturbed'
  BY DEF Sound, KeysFresh, HoldsCurrent, CookiesMade, RefusedOnlyIfDisturbed
<1>2. KeysPrivate'
  BY DEF Sound, KeysPrivate, Asking
<1> QED
  BY <1>1, <1>2 DEF Sound

\* What a client offers is made with a key that it was sent or the empty one,
\* and if it is right, so is the password.
LEMMA Offered ==
    ASSUME TypeOK, Sound, NEW k \in Clients, NEW h \in Hashes(k)
    PROVE  /\ h.key \in known[k] \cup {0} /\ h.key <= keys
           /\ h = Hash(h.key, h.good) /\ (h.good <=> right[k])
<1>1. PICK n \in known[k] \cup {0} : h = Hash(n, right[k])
  <2>1. CASE h \in {Hash(n, right[k]) : n \in known[k] \cup {0}}
    BY <2>1
  <2>2. CASE h \in {Hash(n, TRUE) : n \in cookies[k]}
    BY <2>2 DEF Sound, CookiesMade, TypeOK
  <2> QED
    BY <2>1, <2>2 DEF Hashes
<1>2. h.key = n /\ h.good = right[k]
  BY <1>1 DEF Hash
<1>3. n <= keys
  BY DEF TypeOK, Keys, Sound, KeysPrivate
<1> QED
  BY <1>1, <1>2, <1>3

-----------------------------------------------------------------------------

\* Every step keeps the invariant about keys and cookies.
LEMMA SoundStep ==
    ASSUME TypeOK, Sound, [Next]_vars
    PROVE  Sound'
<1> USE DEF TypeOK, Keys, Goto, With
<1>1. ASSUME NEW u \in Users, Verify(u) PROVE Sound'
  <2>1. \A v \in Users : verified[v] => verified'[v]
    BY <1>1 DEF Verify
  <2> QED
    BY <1>1, <2>1 DEF Verify, client, row, Sound, KeysFresh, KeysPrivate, Asking,
                      HoldsCurrent, CookiesMade, RefusedOnlyIfDisturbed
<1>2. ASSUME NEW u \in Users, CloseAgain(u) PROVE Sound'
  BY <1>2, SetAwaySound DEF CloseAgain
<1>3. ASSUME NEW k \in Clients, RequestKey(k) PROVE Sound'
  <2> USE <1>3 DEF RequestKey, row
  <2>1. KeysFresh'
    BY DEF Sound, KeysFresh
  <2>2. KeysPrivate'
    BY DEF Sound, KeysPrivate, Asking
  <2>3. HoldsCurrent' /\ CookiesMade' /\ RefusedOnlyIfDisturbed'
    BY DEF Sound, HoldsCurrent, CookiesMade, RefusedOnlyIfDisturbed
  <2> QED
    BY <2>1, <2>2, <2>3 DEF Sound
<1>4. ASSUME NEW k \in Clients, StoreKey(k) PROVE Sound'
  <2>1. CASE SetCipher(who[k], key[k], {k}) /\ stage[k] = "key"
             /\ stage' = [stage EXCEPT ![k] = "sendkey"]
             /\ UNCHANGED <<who, right, key, known, cookies, verified, keys, closing>>
    <3>1. /\ cipher' = [cipher EXCEPT ![who[k]] = key[k]]
          /\ gone' = [gone EXCEPT ![who[k]] = @ \cup {cipher[who[k]]}]
          /\ own'[k] = key[k] /\ ~disturbed'[k]
          /\ \A j \in Clients \ {k} : /\ own'[j] = own[j]
                                      /\ disturbed'[j] = (disturbed[j] \/ who[j] = who[k])
      BY <2>1 DEF SetCipher
    <3>2. KeysFresh'
      BY <2>1, <3>1 DEF Sound, KeysFresh, KeysPrivate, Asking
    <3>3. KeysPrivate'
      BY <2>1, <3>1 DEF Sound, KeysPrivate, Asking
    <3>4. HoldsCurrent'
      BY <2>1, <3>1 DEF Sound, HoldsCurrent
    <3>5. CookiesMade' /\ RefusedOnlyIfDisturbed'
      BY <2>1, <3>1 DEF Sound, CookiesMade, RefusedOnlyIfDisturbed
    <3> QED
      BY <3>2, <3>3, <3>4, <3>5 DEF Sound
  <2>2. CASE Lost(k)
    BY <2>2, DoneSound DEF Lost
  <2> QED
    BY <1>4, <2>1, <2>2 DEF StoreKey
<1>5. ASSUME NEW k \in Clients, SendKey(k) PROVE Sound'
  <2>1. CASE Lost(k)
    BY <2>1, DoneSound DEF Lost
  <2>2. CASE ~Lost(k)
    <3>1. /\ stage[k] = "sendkey" /\ stage' = [stage EXCEPT ![k] = "idle"]
          /\ key' = [key EXCEPT ![k] = 0] /\ known' = [known EXCEPT ![k] = @ \cup {key[k]}]
          /\ UNCHANGED <<who, right, cookies, row, verified, keys>>
      BY <1>5, <2>2 DEF SendKey, Done
    <3>2. KeysFresh' /\ HoldsCurrent' /\ CookiesMade' /\ RefusedOnlyIfDisturbed'
      BY <3>1 DEF row, Sound, KeysFresh, HoldsCurrent, CookiesMade, RefusedOnlyIfDisturbed
    <3>3. KeysPrivate'
      BY <3>1 DEF row, Sound, KeysPrivate, Asking
    <3> QED
      BY <3>2, <3>3 DEF Sound
  <2> QED
    BY <2>1, <2>2
<1>6. ASSUME NEW k \in Clients, Authorize(k) PROVE Sound'
  <2>1. PICK h \in Hashes(k) :
           /\ key' = [key EXCEPT ![k] = h.key]
           /\ stage' = [stage EXCEPT ![k] = IF h # Expected(k) THEN "badpassword"
                                            ELSE IF verified[who[k]] THEN "issue"
                                            ELSE "badaccount"]
    BY <1>6 DEF Authorize
  <2>2. /\ h.key \in known[k] \cup {0} /\ h.key <= keys
        /\ h = Hash(h.key, h.good) /\ (h.good <=> right[k])
    BY Offered
  <2>3. /\ stage'[k] \in {"badpassword", "issue", "badaccount"}
        /\ stage'[k] = "issue" => right[k] /\ verified[who[k]]
        /\ stage'[k] = "badpassword" /\ right[k] => h.key # cipher[who[k]]
    BY <2>1, <2>2 DEF Expected, Hash
  <2> HIDE DEF Goto, With
  <2>4. KeysFresh' /\ HoldsCurrent'
    BY <1>6, <2>1, <2>3 DEF Authorize, row, Sound, KeysFresh, HoldsCurrent
  <2>5. KeysPrivate'
    BY <1>6, <2>1, <2>2, <2>3 DEF Authorize, row, Sound, KeysPrivate, Asking
  <2>6. CookiesMade'
    BY <1>6, <2>1, <2>2, <2>3 DEF Authorize, row, Sound, CookiesMade
  <2>7. RefusedOnlyIfDisturbed'
    BY <1>6, <2>1, <2>2, <2>3 DEF Authorize, row, Sound, HoldsCurrent, RefusedOnlyIfDisturbed
  <2> QED
    BY <2>4, <2>5, <2>6, <2>7 DEF Sound
<1>7. ASSUME NEW k \in Clients, Issue(k) PROVE Sound'
  <2>1. CASE Lost(k)
    BY <2>1, DoneSound DEF Lost
  <2>2. CASE ~Lost(k)
    <3>1. /\ stage[k] = "issue" /\ stage' = [stage EXCEPT ![k] = "idle"]
          /\ key' = [key EXCEPT ![k] = 0] /\ cookies' = [cookies EXCEPT ![k] = @ \cup {key[k]}]
          /\ UNCHANGED <<who, right, known, row, verified, keys>>
      BY <1>7, <2>2 DEF Issue, Done
    <3>2. KeysFresh' /\ HoldsCurrent' /\ CookiesMade' /\ RefusedOnlyIfDisturbed'
      BY <3>1 DEF row, Sound, KeysFresh, HoldsCurrent, CookiesMade, RefusedOnlyIfDisturbed
    <3>3. KeysPrivate'
      BY <3>1 DEF row, Sound, KeysPrivate, Asking
    <3> QED
      BY <3>2, <3>3 DEF Sound
  <2> QED
    BY <2>1, <2>2
<1>8. ASSUME NEW k \in Clients, SignOn(k) PROVE Sound'
  <2>1. PICK h \in Hashes(k) :
           /\ key' = [key EXCEPT ![k] = h.key]
           /\ stage' = [stage EXCEPT ![k] = IF h = Expected(k) THEN "on" ELSE "badcookie"]
    BY <1>8 DEF SignOn
  <2>2. /\ h.key \in known[k] \cup {0} /\ h.key <= keys
        /\ h = Hash(h.key, h.good) /\ (h.good <=> right[k])
    BY Offered
  <2>3. /\ stage'[k] \in {"on", "badcookie"}
        /\ stage'[k] = "on" => right[k]
        /\ stage'[k] = "badcookie" /\ right[k] => h.key # cipher[who[k]]
    BY <2>1, <2>2 DEF Expected, Hash
  <2> HIDE DEF Goto, With
  <2>4. KeysFresh' /\ HoldsCurrent'
    BY <1>8, <2>1, <2>3 DEF SignOn, row, Sound, KeysFresh, HoldsCurrent
  <2>5. KeysPrivate'
    BY <1>8, <2>1, <2>2, <2>3 DEF SignOn, row, Sound, KeysPrivate, Asking
  <2>6. CookiesMade'
    BY <1>8, <2>1, <2>2, <2>3 DEF SignOn, row, Sound, CookiesMade
  <2>7. RefusedOnlyIfDisturbed'
    BY <1>8, <2>1, <2>2, <2>3 DEF SignOn, row, Sound, HoldsCurrent, RefusedOnlyIfDisturbed
  <2> QED
    BY <2>4, <2>5, <2>6, <2>7 DEF Sound
<1>9. ASSUME NEW k \in Clients, SignOnRoasted(k) PROVE Sound'
  <2>1. KeysFresh' /\ HoldsCurrent' /\ CookiesMade' /\ RefusedOnlyIfDisturbed'
    BY <1>9 DEF SignOnRoasted, row, Sound, KeysFresh, HoldsCurrent, CookiesMade,
                RefusedOnlyIfDisturbed
  <2>2. KeysPrivate'
    BY <1>9 DEF SignOnRoasted, row, Sound, KeysPrivate, Asking
  <2> QED
    BY <2>1, <2>2 DEF Sound
<1>10. ASSUME NEW k \in Clients, HangUp(k) \/ GiveUp(k) PROVE Sound'
  BY <1>10, DoneSound DEF HangUp, GiveUp, Lost
<1>11. ASSUME NEW k \in Clients, SignOff(k) PROVE Sound'
  <2>1. /\ stage[k] = "on" /\ stage' = [stage EXCEPT ![k] = "idle"]
        /\ key' = [key EXCEPT ![k] = 0]
        /\ UNCHANGED <<who, right, known, cookies, verified, keys>>
    BY <1>11 DEF SignOff, Done
  <2>2. CASE SetCipher(who[k], 0, {})
    <3>1. /\ cipher' = [cipher EXCEPT ![who[k]] = 0]
          /\ gone' = [gone EXCEPT ![who[k]] = @ \cup {cipher[who[k]]}]
          /\ \A j \in Clients : /\ own'[j] = own[j]
                                /\ disturbed'[j] = (disturbed[j] \/ who[j] = who[k])
      BY <2>2 DEF SetCipher
    <3>2. KeysFresh'
      BY <2>1, <3>1 DEF Sound, KeysFresh, KeysPrivate, Asking
    <3>3. KeysPrivate'
      BY <2>1, <3>1 DEF Sound, KeysPrivate, Asking
    <3>4. HoldsCurrent' /\ CookiesMade' /\ RefusedOnlyIfDisturbed'
      BY <2>1, <3>1 DEF Sound, HoldsCurrent, CookiesMade, RefusedOnlyIfDisturbed
    <3> QED
      BY <3>2, <3>3, <3>4 DEF Sound
  <2>3. CASE UNCHANGED row
    BY <2>1, <2>3, DoneSound DEF Done
  <2> QED
    BY <1>11, <2>2, <2>3 DEF SignOff, SetAway
<1>12. CASE Restart
  <2> DEFINE cut == {k \in Clients : stage[k] \in {"key", "sendkey", "issue", "on"}}
  <2>1. /\ \A k \in Clients : /\ stage'[k] = IF k \in cut THEN "idle" ELSE stage[k]
                              /\ key'[k] = IF k \in cut THEN 0 ELSE key[k]
        /\ UNCHANGED <<who, right, known, cookies, row, verified, keys>>
    BY <1>12 DEF Restart
  <2>2. KeysFresh' /\ HoldsCurrent' /\ CookiesMade' /\ RefusedOnlyIfDisturbed'
    BY <2>1 DEF row, Sound, KeysFresh, HoldsCurrent, CookiesMade, RefusedOnlyIfDisturbed
  <2>3. KeysPrivate'
    BY <2>1 DEF row, Sound, KeysPrivate, Asking
  <2> QED
    BY <2>2, <2>3 DEF Sound
<1>13. CASE UNCHANGED vars
  BY <1>13 DEF vars, client, row, Sound, KeysFresh, KeysPrivate, Asking, HoldsCurrent,
               CookiesMade, RefusedOnlyIfDisturbed
<1> QED
  BY <1>1, <1>2, <1>3, <1>4, <1>5, <1>6, <1>7, <1>8, <1>9, <1>10, <1>11, <1>12, <1>13
     DEF Next

\* The strengthened invariant, for all users and clients.
THEOREM Inductive == Spec => []IInv
<1>1. Init => IInv
  BY AuthAssumption
     DEF Init, IInv, TypeOK, Keys, Stages, KeysFresh, KeysPrivate, Asking, HoldsCurrent,
         CookiesMade, RefusedOnlyIfDisturbed
<1>2. IInv /\ [Next]_vars => IInv'
  BY TypeStep, SoundStep DEF IInv, Sound
<1> QED
  BY <1>1, <1>2, PTL DEF Spec

\* Keys, stages and counters keep their types.
THEOREM TypeCorrect == Spec => []TypeOK
BY Inductive, PTL DEF IInv

\* Who is on knows the password and uses the empty key or one of its own; what
\* 17/02 has given out went to verified accounts.
THEOREM Entitled == Spec => []OnlyEntitled
<1>1. IInv => OnlyEntitled
  <2> SUFFICES ASSUME IInv, NEW k \in Clients
               PROVE  /\ stage[k] = "on" =>
                            /\ right[k]
                            /\ key[k] # 0 => \A j \in Clients : key[k] \in known[j] <=> j = k
                      /\ cookies[k] # {} => right[k] /\ verified[who[k]]
    BY DEF OnlyEntitled
  <2>1. /\ stage[k] = "on" => right[k] /\ key[k] \in known[k] \cup {0}
        /\ cookies[k] # {} => right[k] /\ verified[who[k]]
    BY DEF IInv, CookiesMade
  <2>2. \A j \in Clients \ {k} : known[k] \cap known[j] = {}
    BY DEF IInv, KeysPrivate
  <2> QED
    BY <2>1, <2>2
<1> QED
  BY <1>1, Inductive, PTL

\* The right password with the own key is refused only to a client that
\* somebody disturbed.
THEOREM Refused == Spec => []RefusedOnlyIfDisturbed
BY Inductive, PTL DEF IInv

\* No cookie over a generated key is accepted after the key was overwritten or
\* cleared, whoever has made it.
THEOREM Spent == Spec => CookieSpent
<1>1. IInv /\ [Next]_vars =>
        [\A k \in Clients : (stage[k] # "on" /\ stage'[k] = "on" /\ key'[k] # 0)
              => key'[k] \notin gone[who[k]]]_vars
  <2> SUFFICES ASSUME IInv, Next, NEW k \in Clients,
                      stage[k] # "on", stage'[k] = "on", key'[k] # 0
               PROVE  key'[k] \notin gone[who[k]]
    OBVIOUS
  <2> USE DEF IInv, TypeOK, Goto, With
  <2>1. key'[k] = cipher[who[k]]
    <3>1. CASE \E u \in Users : Verify(u) \/ CloseAgain(u)
      BY <3>1 DEF Verify, CloseAgain, client
    <3>2. CASE Restart
      BY <3>2 DEF Restart
    <3>3. ASSUME NEW j \in Clients,
                 \/ RequestKey(j) \/ StoreKey(j) \/ SendKey(j) \/ Authorize(j) \/ Issue(j)
                 \/ SignOnRoasted(j) \/ HangUp(j) \/ SignOff(j) \/ GiveUp(j)
          PROVE  FALSE
      BY <3>3 DEF RequestKey, StoreKey, SendKey, Authorize, Issue, SignOnRoasted,
                  HangUp, SignOff, GiveUp, Lost, Done
    <3>4. ASSUME NEW j \in Clients, SignOn(j) PROVE key'[k] = cipher[who[k]]
      <4>1. PICK h \in Hashes(j) :
               /\ key' = [key EXCEPT ![j] = h.key]
               /\ stage' = [stage EXCEPT ![j] = IF h = Expected(j) THEN "on" ELSE "badcookie"]
        BY <3>4 DEF SignOn
      <4>2. j = k /\ h = Expected(k)
        BY <4>1
      <4> QED
        BY <4>1, <4>2 DEF Expected, Hash
    <3> QED
      BY <3>1, <3>2, <3>3, <3>4 DEF Next
  <2> QED
    BY <2>1 DEF KeysFresh
<1> QED
  BY <1>1, Inductive, PTL DEF Spec, CookieSpent

=============================================================================
