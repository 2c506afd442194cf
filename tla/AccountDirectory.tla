--------------------------- MODULE AccountDirectory ---------------------------
(***************************************************************************)
(* What the directory of accounts promises: which Stellar public key is    *)
(* registered for which user.  No two users share a key.  A request to     *)
(* register a key is admitted while no other key is registered; a key that *)
(* was admitted before another one was stored may still replace it.        *)
(***************************************************************************)
CONSTANTS
  Users,
  Keys,
  None

VARIABLES
  key,       \* key[u]: AppUser.stellarPublicKey, or None
  admitted   \* admitted[u]: keys that may still be stored for user u

directory == <<key, admitted>>

KeyTypeOK ==
  /\ key \in [Users -> Keys \cup {None}]
  /\ admitted \in [Users -> SUBSET Keys]

NoKeys ==
  /\ key = [u \in Users |-> None]
  /\ admitted = [u \in Users |-> {}]

Admit(u, k) ==
  /\ key[u] \in {None, k}
  /\ admitted' = [admitted EXCEPT ![u] = @ \cup {k}]
  /\ UNCHANGED key

\* Mutant: keys need not be unique.
RegisterShared(u, k) ==
  /\ k \in admitted[u]
  /\ key' = [key EXCEPT ![u] = k]
  /\ \E rest \in {admitted[u], admitted[u] \ {k}} :
       admitted' = [admitted EXCEPT ![u] = rest]

\* Another request for the same key may or may not be under way.
Register(u, k) ==
  /\ k \in admitted[u]
  /\ \A v \in Users \ {u} : key[v] # k
  /\ key' = [key EXCEPT ![u] = k]
  /\ \E rest \in {admitted[u], admitted[u] \ {k}} :
       admitted' = [admitted EXCEPT ![u] = rest]

\* Requests fail, or are lost when the server restarts.
Forget ==
  /\ \E left \in [Users -> SUBSET Keys] :
       /\ \A u \in Users : left[u] \subseteq admitted[u]
       /\ admitted' = left
  /\ UNCHANGED key

DirectoryNext ==
  \/ \E u \in Users, k \in Keys : Admit(u, k)
  \/ \E u \in Users, k \in Keys : Register(u, k)
  \/ Forget

DirectorySpec == NoKeys /\ [][DirectoryNext]_directory

-----------------------------------------------------------------------------

\* No two users have the same key.
KeysDiffer ==
  \A u, v \in Users : key[u] # None /\ key[u] = key[v] => u = v

\* User u has a key, and no request that could still replace it is under way.
Settled(u) == key[u] # None /\ admitted[u] \subseteq {key[u]}

\* "Keys are immutable": from when no earlier request is under way, the key
\* of a user never changes.
KeyIsForever ==
  [][\A u \in Users : Settled(u) => key'[u] = key[u] /\ Settled(u)']_directory
=============================================================================
