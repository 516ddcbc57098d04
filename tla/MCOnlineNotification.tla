------------------------ MODULE MCOnlineNotification ------------------------
(* Instances of OnlineNotification for TLC. *)
EXTENDS OnlineNotification, TLC

Symmetry == Permutations(Conns) \cup Permutations(Users)

\* Initial contents of the buddies table.
Nobody  == {{}}
Mutual  == {{p \in Users \X Users : p[1] # p[2]}}
Anybody == SUBSET (Users \X Users)

=============================================================================
