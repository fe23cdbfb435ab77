------------------------------ MODULE Exclusive ------------------------------
(***************************************************************************)
(* What a lock promises: a resource is taken only while nobody uses it,    *)
(* and never passes from one user to another without having been free.     *)
(* RepoServer implements it for the files of a repository, CoreDb for the  *)
(* opening of a database.                                                  *)
(***************************************************************************)
CONSTANTS Resources, Parties

VARIABLE users   \* who uses each resource

Init == users = [r \in Resources |-> {}]

Take(r) ==
  /\ users[r] = {}
  /\ \E u \in Parties : users' = [users EXCEPT ![r] = {u}]

\* A crash may leave several at once.
Leave(S) == users' = [r \in Resources |-> IF r \in S THEN {} ELSE users[r]]

Next == (\E r \in Resources : Take(r)) \/ (\E S \in SUBSET Resources : Leave(S))

Spec == Init /\ [][Next]_users
=============================================================================
