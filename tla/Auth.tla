--------------------------------- MODULE Auth ---------------------------------
(***************************************************************************)
(* Signing on with the MD5 keys of services/0x17: a client asks for a key  *)
(* (SNAC 17/06), which is stored in users.cipher, proves that it knows the *)
(* password by hashing it with the key (17/02), gets a cookie and presents *)
(* it on a second connection (AuthenticateFLAPCookie).  Signing off clears *)
(* the key (User.SetAway).  The row has one key for all connections of the *)
(* user, and every statement of every handler may come between two steps.  *)
(*                                                                         *)
(* The cookie is the same hash, in other digits, with the user's number:   *)
(* whoever has the key and the password can make it without 17/02, and     *)
(* nothing requires a 17/06 either, as the column may be empty.  A client  *)
(* therefore offers what it can make of the keys that it was sent, of the  *)
(* empty key, and what it was given, whenever it likes.                    *)
(*                                                                         *)
(* A hash is known by the key and by whether the password in it is the     *)
(* user's; keys are numbered as they are generated (64 random characters,  *)
(* taken as never repeating), and 0 is the empty string of the column.     *)
(*                                                                         *)
(*   stage[k]  idle       no request of client k is being served           *)
(*             key        17/06, before the key is stored                  *)
(*             sendkey    17/06, before the key is sent                    *)
(*             issue      17/02, before the cookie is sent                 *)
(*             on         signed on                                        *)
(*             badpassword, badaccount   17/02 answered with an error      *)
(*             badcookie  the sign-on was ignored                          *)
(***************************************************************************)
EXTENDS Naturals

CONSTANTS
    Users,
    Clients,    \* programs, each of somebody who signs on as one user
    MaxKeys,    \* bound: keys generated
    MaxClosing  \* bound: connections of a user that are being closed

ASSUME AuthAssumption == MaxKeys \in Nat /\ MaxClosing \in Nat

VARIABLES
    who,        \* the user a client signs on as
    right,      \* whether the password it was given is the user's
    cipher,     \* users.cipher
    verified,   \* users.verified, and not deleted
    keys,       \* number of keys generated so far
    stage,      \* where a client and the handler that serves it are
    key,        \* the key of the request or the sign-on, 0 at rest
    known,      \* the keys a client was sent
    cookies,    \* the keys in the cookies it was given
    closing,    \* connections of a user whose handler has yet to return
    gone,       \* history: keys that were overwritten or cleared
    own,        \* history: the last key that was stored for a client
    disturbed   \* history: somebody else has written the row since

client == <<who, right, stage, key, known, cookies>>
row    == <<cipher, gone, own, disturbed>>
vars   == <<client, row, verified, keys, closing>>

Stages == {"idle", "key", "sendkey", "issue", "on", "badpassword", "badaccount",
           "badcookie"}
Keys == 0..MaxKeys

TypeOK ==
    /\ who \in [Clients -> Users]
    /\ right \in [Clients -> BOOLEAN]
    /\ cipher \in [Users -> Keys]
    /\ verified \in [Users -> BOOLEAN]
    /\ keys \in Keys
    /\ stage \in [Clients -> Stages]
    /\ key \in [Clients -> Keys]
    /\ known \in [Clients -> SUBSET Keys]
    /\ cookies \in [Clients -> SUBSET Keys]
    /\ closing \in [Users -> 0..MaxClosing]
    /\ gone \in [Users -> SUBSET Keys]
    /\ own \in [Clients -> Keys]
    /\ disturbed \in [Clients -> BOOLEAN]

Init ==
    /\ who \in [Clients -> Users]
    /\ right \in [Clients -> BOOLEAN]
    /\ cipher = [u \in Users |-> 0]
    /\ verified \in [Users -> BOOLEAN]
    /\ keys = 0
    /\ stage = [k \in Clients |-> "idle"]
    /\ key = [k \in Clients |-> 0]
    /\ known = [k \in Clients |-> {}]
    /\ cookies = [k \in Clients |-> {}]
    /\ closing = [u \in Users |-> 0]
    /\ gone = [u \in Users |-> {}]
    /\ own = [k \in Clients |-> 0]
    /\ disturbed = [k \in Clients |-> FALSE]

Goto(k, l) == stage' = [stage EXCEPT ![k] = l]

With(k, n) == key' = [key EXCEPT ![k] = n]

-----------------------------------------------------------------------------
(***************************************************************************)
(* The row.                                                                *)
(***************************************************************************)

\* UPDATE users SET cipher on behalf of the clients in mine.
SetCipher(u, new, mine) ==
    /\ cipher' = [cipher EXCEPT ![u] = new]
    /\ gone' = [gone EXCEPT ![u] = @ \cup {cipher[u]}]
    /\ own' = [k \in Clients |-> IF k \in mine THEN new ELSE own[k]]
    /\ disturbed' = [k \in Clients |->
                        IF k \in mine THEN FALSE ELSE disturbed[k] \/ who[k] = u]

\* Mutant: only the status is written.
SetAwayKeepsCipher(u) ==
    \/ /\ gone' = [gone EXCEPT ![u] = @ \cup {cipher[u]}]
       /\ UNCHANGED <<cipher, own, disturbed>>
    \/ UNCHANGED row

\* An update that fails is logged (handleCloseFn).
SetAway(u) == SetCipher(u, 0, {}) \/ UNCHANGED row

\* The address is confirmed, outside the server.
Verify(u) ==
    /\ verified' = [verified EXCEPT ![u] = TRUE]
    /\ UNCHANGED <<client, row, keys, closing>>

-----------------------------------------------------------------------------
(***************************************************************************)
(* SNAC 17/06, the request for a key.                                      *)
(***************************************************************************)

RequestKey(k) ==
    /\ stage[k] = "idle" /\ keys < MaxKeys
    /\ keys' = keys + 1
    /\ With(k, keys + 1)
    /\ Goto(k, "key")
    /\ UNCHANGED <<who, right, known, cookies, row, verified, closing>>

Done(k) == Goto(k, "idle") /\ With(k, 0)

\* The connection ends, and with it the request.
Lost(k) == Done(k) /\ UNCHANGED <<who, right, known, cookies, row, verified, keys, closing>>

\* Mutant: an error of the update is not looked at.
StoreKeyUnchecked(k) ==
    /\ stage[k] = "key" /\ Goto(k, "sendkey")
    /\ \/ SetCipher(who[k], key[k], {k})
       \/ own' = [own EXCEPT ![k] = key[k]] /\ UNCHANGED <<cipher, gone, disturbed>>
    /\ UNCHANGED <<who, right, key, known, cookies, verified, keys, closing>>

StoreKey(k) ==
    /\ stage[k] = "key"
    /\ \/ /\ SetCipher(who[k], key[k], {k})
          /\ Goto(k, "sendkey")
          /\ UNCHANGED <<who, right, key, known, cookies, verified, keys, closing>>
       \/ Lost(k)

SendKey(k) ==
    /\ stage[k] = "sendkey"
    /\ \/ /\ known' = [known EXCEPT ![k] = @ \cup {key[k]}]
          /\ Done(k)
          /\ UNCHANGED <<who, right, cookies, row, verified, keys, closing>>
       \/ Lost(k)

-----------------------------------------------------------------------------
(***************************************************************************)
(* SNAC 17/02, the authorization request.                                  *)
(***************************************************************************)

Hash(n, good) == [key |-> n, good |-> good]

\* What a client can offer: hashes of its password with the empty key and
\* with those it was sent, and those in the cookies it was given.
Hashes(k) == {Hash(n, right[k]) : n \in known[k] \cup {0}} \cup {Hash(n, TRUE) : n \in cookies[k]}

\* What the server compares it with.
Expected(k) == Hash(cipher[who[k]], TRUE)

\* Mutant: after the error is sent the handler goes on.
AuthorizeGoesOn(k) ==
    /\ stage[k] = "idle" /\ Goto(k, "issue") /\ With(k, cipher[who[k]])
    /\ UNCHANGED <<who, right, known, cookies, row, verified, keys, closing>>

\* The row is read once; both its key and the account are checked, and the
\* cookie is made of what it says.
Authorize(k) ==
    /\ stage[k] = "idle"
    /\ \E h \in Hashes(k) :
          /\ With(k, h.key)
          /\ Goto(k, IF h # Expected(k) THEN "badpassword"
                     ELSE IF verified[who[k]] THEN "issue" ELSE "badaccount")
    /\ UNCHANGED <<who, right, known, cookies, row, verified, keys, closing>>

\* The cookie is sent, whether it arrives or not, and the socket closed.
Issue(k) ==
    /\ stage[k] = "issue"
    /\ \/ /\ cookies' = [cookies EXCEPT ![k] = @ \cup {key[k]}]
          /\ Done(k)
          /\ UNCHANGED <<who, right, known, row, verified, keys, closing>>
       \/ Lost(k)

-----------------------------------------------------------------------------
(***************************************************************************)
(* The sign-on FLAP, and the end of a signed-on connection.                *)
(***************************************************************************)

\* The hash is computed again from the row of this moment; nothing is asked
\* of the account, nor of where the cookie comes from.
SignOn(k) ==
    /\ stage[k] = "idle"
    /\ \E h \in Hashes(k) :
          With(k, h.key) /\ Goto(k, IF h = Expected(k) THEN "on" ELSE "badcookie")
    /\ UNCHANGED <<who, right, known, cookies, row, verified, keys, closing>>

\* Clients of version 1.0 send the roasted password, and need no key.
SignOnRoasted(k) ==
    /\ stage[k] = "idle" /\ right[k]
    /\ Goto(k, "on") /\ With(k, 0)
    /\ UNCHANGED <<who, right, known, cookies, row, verified, keys, closing>>

\* The client hangs up or the network fails; Handle returns.
HangUp(k) == stage[k] = "on" /\ Lost(k)

\* handleCloseFn, called by handleFn; the handler goes on to read.
SignOff(k) ==
    /\ stage[k] = "on" /\ closing[who[k]] < MaxClosing
    /\ SetAway(who[k])
    /\ closing' = [closing EXCEPT ![who[k]] = @ + 1]
    /\ Done(k)
    /\ UNCHANGED <<who, right, known, cookies, verified, keys>>

\* A later pass through handleCloseFn of a connection that is being closed:
\* for a FLAP that was buffered, or the last before Handle returns.
CloseAgain(u) ==
    /\ closing[u] > 0
    /\ SetAway(u)
    /\ \E n \in {closing[u], closing[u] - 1} : closing' = [closing EXCEPT ![u] = n]
    /\ UNCHANGED <<client, verified, keys>>

\* The person has seen the error.
GiveUp(k) == stage[k] \in {"badpassword", "badaccount", "badcookie"} /\ Lost(k)

\* The process ends and is started again: the key stays in the table, and
\* clients keep what they have.
Restart ==
    LET cut == {k \in Clients : stage[k] \in {"key", "sendkey", "issue", "on"}} IN
    /\ stage' = [k \in Clients |-> IF k \in cut THEN "idle" ELSE stage[k]]
    /\ key' = [k \in Clients |-> IF k \in cut THEN 0 ELSE key[k]]
    /\ closing' = [u \in Users |-> 0]
    /\ UNCHANGED <<who, right, known, cookies, row, verified, keys>>

-----------------------------------------------------------------------------

Next ==
    \/ \E u \in Users : Verify(u) \/ CloseAgain(u)
    \/ \E k \in Clients :
          \/ RequestKey(k) \/ StoreKey(k) \/ SendKey(k)
          \/ Authorize(k) \/ Issue(k)
          \/ SignOn(k) \/ SignOnRoasted(k) \/ HangUp(k) \/ SignOff(k) \/ GiveUp(k)
    \/ Restart

Spec == Init /\ [][Next]_vars

-----------------------------------------------------------------------------
(***************************************************************************)
(* Properties.                                                             *)
(***************************************************************************)

\* Who is on knows the password; by a cookie over a generated key, the key
\* was sent to this client and to nobody else.  Whatever others ask for or
\* store meanwhile, nobody gets in on another's key, not even with the right
\* password and not by way of 17/02, whose cookie is made of the row's key
\* (0x17:210, 247, 100).  What 17/02 gives out, it gives to verified accounts
\* (0x17:226); a sign-on asks for that no more than a client that makes its
\* cookie itself.
OnlyEntitled ==
    \A k \in Clients :
        /\ stage[k] = "on" =>
              /\ right[k]
              /\ key[k] # 0 => \A j \in Clients : key[k] \in known[j] <=> j = k
        /\ cookies[k] # {} => right[k] /\ verified[who[k]]

\* A client whose own key was stored, and who hashes the right password with
\* it, is told that the password or the cookie is wrong only if another
\* request has written users.cipher since: a second key request (0x17:155) or
\* a pass through handleCloseFn of an older connection (models/User.go:87).
\* Failed statements and restarts are no reason.
RefusedOnlyIfDisturbed ==
    \A k \in Clients :
        ( /\ right[k] /\ stage[k] \in {"badpassword", "badcookie"}
          /\ key[k] # 0 /\ key[k] = own[k] )
        => disturbed[k]

\* A generated key that was overwritten or cleared opens no session any more:
\* a sign-off spends the cookies over the key it clears, for good, whether
\* 17/02 or the client has made them (models/User.go:87, 0x17:100).  It does
\* not spend those over the empty key, which are good whenever the row has
\* none.
CookieSpent ==
    [][ \A k \in Clients :
          (stage[k] # "on" /\ stage'[k] = "on" /\ key'[k] # 0)
             => key'[k] \notin gone[who[k]] ]_vars

-----------------------------------------------------------------------------
(***************************************************************************)
(* The inductive invariant behind the properties.                          *)
(***************************************************************************)

\* The handler of k has a key that it has not sent yet.
Asking(k) == stage[k] \in {"key", "sendkey"}

\* A key is stored once at most, and does not come back.
KeysFresh ==
    /\ \A u \in Users : /\ cipher[u] <= keys /\ \A n \in gone[u] : n <= keys
                        /\ cipher[u] # 0 => cipher[u] \notin gone[u]
    /\ \A k \in Clients : stage[k] = "key" =>
          \A u \in Users : cipher[u] # key[k] /\ key[k] \notin gone[u]

\* A key is sent once at most.
KeysPrivate ==
    \A k \in Clients :
        /\ key[k] <= keys /\ own[k] <= keys
        /\ \A n \in known[k] : n # 0 /\ n <= keys
        /\ \A j \in Clients \ {k} : known[k] \cap known[j] = {}
        /\ Asking(k) => /\ key[k] # 0
                        /\ \A j \in Clients : key[k] \notin known[j]
                        /\ \A j \in Clients \ {k} : Asking(j) => key[j] # key[k]

\* Whom nobody has disturbed finds the own key in the row.
HoldsCurrent ==
    \A k \in Clients : ~disturbed[k] /\ own[k] # 0 => cipher[who[k]] = own[k]

\* What a client has been given it could have made.
CookiesMade ==
    \A k \in Clients :
        /\ cookies[k] \subseteq known[k] \cup {0}
        /\ cookies[k] # {} => right[k] /\ verified[who[k]]
        /\ stage[k] = "issue" => right[k] /\ verified[who[k]]
        /\ stage[k] = "on" => right[k]
        /\ stage[k] \in {"issue", "on"} => key[k] \in known[k] \cup {0}

IInv ==
    /\ TypeOK
    /\ KeysFresh
    /\ KeysPrivate
    /\ HoldsCurrent
    /\ CookiesMade
    /\ RefusedOnlyIfDisturbed

=============================================================================
