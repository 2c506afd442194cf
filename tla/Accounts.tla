------------------------------- MODULE Accounts -------------------------------
(***************************************************************************)
(* Accounts of the backend: UsersController and UsersService, the guard    *)
(* that admits bootstrap tokens, OnboardingService, and the admin flag     *)
(* (AdminGuard, AdminService and the script provision-admin).              *)
(*                                                                         *)
(* A user is named by the phone number.  Each request runs in a handler    *)
(* that gives way at every database and every Horizon call, so that what   *)
(* it has read may have changed when it writes.  A client may send a       *)
(* request again, and one user may onboard on several devices, each with a *)
(* key of its own.                                                         *)
(*                                                                         *)
(* Access tokens are modelled in AuthSessions: here a user who has ever    *)
(* had a key may hold one.                                                 *)
(***************************************************************************)
CONSTANTS
  Users,     \* phone numbers
  Keys,      \* public keys of devices
  Handlers,  \* request handlers running at the same time
  None

ASSUME NoneAssumption == None \notin Users /\ None \notin Keys

VARIABLES
  exists,     \* users who have a row
  key,        \* key[u]: AppUser.stellarPublicKey, or None
  activated,  \* users whose stellarAccountActivated is set
  admins,     \* users whose isAdmin is set
  bootstrap,  \* users for whom a bootstrap token is alive
  funded,     \* keys whose account exists on the Stellar ledger
  pc,         \* pc[h]: where handler h is
  who,        \* who[h]: the user whose row handler h works on
  arg,        \* arg[h]: the key that h was given, or read from the row
  stored      \* history: <<u, k>> for every key ever stored for a user

table   == <<exists, key, activated, admins>>
handler == <<pc, who, arg>>
vars    == <<table, bootstrap, funded, handler, stored>>

-----------------------------------------------------------------------------

Stages ==
  {"free", "creating", "clash", "own", "writing", "asking", "marking",
   "promoting", "demoting"}

Init ==
  /\ exists = {}
  /\ key = [u \in Users |-> None]
  /\ activated = {}
  /\ admins = {}
  /\ bootstrap = {}
  /\ funded = {}
  /\ pc = [h \in Handlers |-> "free"]
  /\ who = [h \in Handlers |-> None]
  /\ arg = [h \in Handlers |-> None]
  /\ stored = {}

Begin(h, stage, u, k) ==
  /\ pc[h] = "free"
  /\ pc' = [pc EXCEPT ![h] = stage]
  /\ who' = [who EXCEPT ![h] = u]
  /\ arg' = [arg EXCEPT ![h] = k]

Goto(h, stage) == pc' = [pc EXCEPT ![h] = stage] /\ UNCHANGED <<who, arg>>

Finish(h) ==
  /\ pc' = [pc EXCEPT ![h] = "free"]
  /\ who' = [who EXCEPT ![h] = None]
  /\ arg' = [arg EXCEPT ![h] = None]

-----------------------------------------------------------------------------
(* POST /users.                                                            *)

\* The row of the phone number is there.  A bootstrap token is only given
\* while it has no key.
GetExisting(u) ==
  /\ u \in exists
  /\ key[u] = None
  /\ bootstrap' = bootstrap \cup {u}
  /\ UNCHANGED <<table, funded, handler, stored>>

BeginCreate(h, u) ==
  /\ u \notin exists
  /\ Begin(h, "creating", u, None)
  /\ UNCHANGED <<table, bootstrap, funded, stored>>

FinishCreate(h) ==
  /\ pc[h] = "creating"
  /\ who[h] \notin exists
  /\ exists' = exists \cup {who[h]}
  /\ bootstrap' = bootstrap \cup {who[h]}
  /\ Finish(h)
  /\ UNCHANGED <<key, activated, admins, funded, stored>>

\* Phone numbers are unique: the second of two creations fails.
CreateRefused(h) ==
  /\ pc[h] = "creating"
  /\ who[h] \in exists
  /\ Finish(h)
  /\ UNCHANGED <<table, bootstrap, funded, stored>>

-----------------------------------------------------------------------------
(* PATCH /users/:id/stellar-public-key.                                    *)

\* The guard admits a bootstrap token, or an access token of the user.
BeginSetKey(h, u, k) ==
  /\ u \in bootstrap \/ \E j \in Keys : <<u, j>> \in stored
  /\ Begin(h, "clash", u, k)
  /\ UNCHANGED <<table, bootstrap, funded, stored>>

\* Another user has the key now.
Clash(h) == \E v \in Users \ {who[h]} : key[v] = arg[h]

CheckClash(h) ==
  /\ pc[h] = "clash"
  /\ ~Clash(h)
  /\ Goto(h, "own")
  /\ UNCHANGED <<table, bootstrap, funded, stored>>

\* Mutant: a registered key may be replaced.
CheckAnyKey(h) ==
  /\ pc[h] = "own"
  /\ Goto(h, "writing")
  /\ UNCHANGED <<table, bootstrap, funded, stored>>

\* The user has no key, or this one.
CheckOwnKey(h) ==
  /\ pc[h] = "own"
  /\ key[who[h]] \in {None, arg[h]}
  /\ Goto(h, "writing")
  /\ UNCHANGED <<table, bootstrap, funded, stored>>

\* The key is another user's, or the user has another key: 400.
RejectKey(h) ==
  /\ \/ pc[h] = "clash" /\ Clash(h)
     \/ pc[h] = "own" /\ key[who[h]] \notin {None, arg[h]}
  /\ Finish(h)
  /\ UNCHANGED <<table, bootstrap, funded, stored>>

\* Nothing is checked again when the row is updated.
WriteKey(h) ==
  /\ pc[h] = "writing"
  /\ ~Clash(h)
  /\ key' = [key EXCEPT ![who[h]] = arg[h]]
  /\ stored' = stored \cup {<<who[h], arg[h]>>}
  /\ Finish(h)
  /\ UNCHANGED <<exists, activated, admins, bootstrap, funded>>

\* Keys are unique: the update fails.
WriteRefused(h) ==
  /\ pc[h] = "writing"
  /\ Clash(h)
  /\ Finish(h)
  /\ UNCHANGED <<table, bootstrap, funded, stored>>

\* Ten minutes have passed since the token was signed.
LapseBootstrap(u) ==
  /\ u \in bootstrap
  /\ bootstrap' = bootstrap \ {u}
  /\ UNCHANGED <<table, funded, handler, stored>>

-----------------------------------------------------------------------------
(* Onboarding: getStatus and confirmActivation.                            *)

\* The row is read: it has a key.
BeginActivation(h, u) ==
  /\ key[u] # None
  /\ Begin(h, "asking", u, key[u])
  /\ UNCHANGED <<table, bootstrap, funded, stored>>

\* Mutant: the answer of Horizon is not looked at.
AskNobody(h) ==
  /\ pc[h] = "asking"
  /\ Goto(h, "marking")
  /\ UNCHANGED <<table, bootstrap, funded, stored>>

\* isAccountFunded, with the key that was read.
AskHorizon(h) ==
  /\ pc[h] = "asking"
  /\ arg[h] \in funded
  /\ Goto(h, "marking")
  /\ UNCHANGED <<table, bootstrap, funded, stored>>

NotFunded(h) ==
  /\ pc[h] = "asking"
  /\ arg[h] \notin funded
  /\ Finish(h)
  /\ UNCHANGED <<table, bootstrap, funded, stored>>

\* markStellarAccountActivated, for the user: the key is not looked at.
MarkActivated(h) ==
  /\ pc[h] = "marking"
  /\ activated' = activated \cup {who[h]}
  /\ Finish(h)
  /\ UNCHANGED <<exists, key, admins, bootstrap, funded, stored>>

\* Friendbot, or a payment, creates the account of key k.
Fund(k) ==
  /\ k \notin funded
  /\ funded' = funded \cup {k}
  /\ UNCHANGED <<table, bootstrap, handler, stored>>

-----------------------------------------------------------------------------
(* The admin flag.                                                         *)

\* Mutant: AdminGuard is missing.
BeginSetAdminUnguarded(h, a, u, stage) ==
  /\ Begin(h, stage, u, None)
  /\ UNCHANGED <<table, bootstrap, funded, stored>>

\* AdminGuard reads the row of the caller, a.
BeginSetAdmin(h, a, u, stage) ==
  /\ a \in admins
  /\ Begin(h, stage, u, None)
  /\ UNCHANGED <<table, bootstrap, funded, stored>>

\* Mutant: the flag is set whether or not the user has a row.
SetAdminAnyway(h) ==
  /\ pc[h] \in {"promoting", "demoting"}
  /\ admins' = IF pc[h] = "promoting" THEN admins \cup {who[h]} ELSE admins \ {who[h]}
  /\ Finish(h)
  /\ UNCHANGED <<exists, key, activated, bootstrap, funded, stored>>

\* setAdminStatus: the caller's row is not read again.
SetAdmin(h) ==
  /\ pc[h] \in {"promoting", "demoting"}
  /\ who[h] \in exists
  /\ admins' = IF pc[h] = "promoting" THEN admins \cup {who[h]} ELSE admins \ {who[h]}
  /\ Finish(h)
  /\ UNCHANGED <<exists, key, activated, bootstrap, funded, stored>>

SetAdminRefused(h) ==
  /\ pc[h] \in {"promoting", "demoting"}
  /\ who[h] \notin exists
  /\ Finish(h)
  /\ UNCHANGED <<table, bootstrap, funded, stored>>

\* The script provision-admin, run by an operator.
Provision(u) ==
  /\ u \in exists
  /\ admins' = admins \cup {u}
  /\ UNCHANGED <<exists, key, activated, bootstrap, funded, handler, stored>>

\* A request in progress is lost: the server restarts, or the database or
\* Horizon cannot be reached.
Restart ==
  /\ pc' = [h \in Handlers |-> "free"]
  /\ who' = [h \in Handlers |-> None]
  /\ arg' = [h \in Handlers |-> None]
  /\ UNCHANGED <<table, bootstrap, funded, stored>>

Next ==
  \/ \E u \in Users : GetExisting(u)
  \/ \E h \in Handlers, u \in Users : BeginCreate(h, u)
  \/ \E h \in Handlers : FinishCreate(h)
  \/ \E h \in Handlers : CreateRefused(h)
  \/ \E h \in Handlers, u \in Users, k \in Keys : BeginSetKey(h, u, k)
  \/ \E h \in Handlers : CheckClash(h)
  \/ \E h \in Handlers : CheckOwnKey(h)
  \/ \E h \in Handlers : RejectKey(h)
  \/ \E h \in Handlers : WriteKey(h)
  \/ \E h \in Handlers : WriteRefused(h)
  \/ \E u \in Users : LapseBootstrap(u)
  \/ \E h \in Handlers, u \in Users : BeginActivation(h, u)
  \/ \E h \in Handlers : AskHorizon(h)
  \/ \E h \in Handlers : NotFunded(h)
  \/ \E h \in Handlers : MarkActivated(h)
  \/ \E k \in Keys : Fund(k)
  \/ \E h \in Handlers, a, u \in Users, stage \in {"promoting", "demoting"} :
       BeginSetAdmin(h, a, u, stage)
  \/ \E h \in Handlers : SetAdmin(h)
  \/ \E h \in Handlers : SetAdminRefused(h)
  \/ \E u \in Users : Provision(u)
  \/ Restart

Spec == Init /\ [][Next]_vars

-----------------------------------------------------------------------------
(* Properties.                                                             *)

\* Type invariant: only users who have a row have anything else, and the key
\* of a user is among those ever stored for the user.
TypeOK ==
  /\ exists \subseteq Users
  /\ key \in [Users -> Keys \cup {None}]
  /\ activated \subseteq exists
  /\ admins \subseteq exists
  /\ bootstrap \subseteq exists
  /\ funded \subseteq Keys
  /\ pc \in [Handlers -> Stages]
  /\ who \in [Handlers -> Users \cup {None}]
  /\ arg \in [Handlers -> Keys \cup {None}]
  /\ stored \subseteq exists \X Keys
  /\ \A h \in Handlers :
       /\ pc[h] # "free" => who[h] \in Users
       /\ pc[h] \in {"clash", "own", "writing", "asking", "marking"} =>
            who[h] \in exists /\ arg[h] \in Keys
  /\ \A u \in Users : key[u] # None => <<u, key[u]>> \in stored

\* The onboarding flag tells the truth: the account of an activated user is on
\* the ledger.  The one exception is a user for whom a second key was stored.
ActivatedIsFunded ==
  \A u \in activated :
    key[u] \in funded \/ \E k \in Keys \ {key[u]} : <<u, k>> \in stored

\* A promotion is under way.
Promoting == \E h \in Handlers : pc[h] = "promoting"

\* There is no way to become an admin but from an admin: once nobody is one,
\* and no request of a former admin is under way, only the script makes one.
AdminsComeFromAdmins ==
  [][admins = {} /\ ~Promoting =>
       ~Promoting' /\ (admins' = {} \/ \E u \in Users : Provision(u))]_vars

\* The keys that handlers are about to store for user u.
Admitted(u) == {k \in Keys : \E h \in Handlers :
                  pc[h] = "writing" /\ who[h] = u /\ arg[h] = k}

\* The rows and the requests together keep the promise of the directory: no
\* two users share a key, and a key is replaced by none that was not admitted
\* while the user had no other.
Directory == INSTANCE AccountDirectory WITH admitted <- [u \in Users |-> Admitted(u)]
KeepsDirectory == Directory!DirectorySpec
=============================================================================
