---------------------------- MODULE AccountsProofs ----------------------------
(***************************************************************************)
(* Proofs about Accounts for every number of users, keys and handlers: the *)
(* onboarding flag, the admin flag, and the promise of AccountDirectory.   *)
(***************************************************************************)
EXTENDS Accounts, TLAPS

-----------------------------------------------------------------------------
(* Types.                                                                  *)

LEMMA TypeInit == Init => TypeOK
  BY NoneAssumption DEF Init, TypeOK, Stages

LEMMA TypeStep == TypeOK /\ [Next]_vars => TypeOK'
  <1> SUFFICES ASSUME TypeOK, [Next]_vars
               PROVE  TypeOK'
    OBVIOUS
  <1> USE NoneAssumption
  <1> USE DEF TypeOK, Stages
  <1>1. ASSUME NEW u \in Users, GetExisting(u) \/ LapseBootstrap(u)
        PROVE  TypeOK'
    BY <1>1 DEF GetExisting, LapseBootstrap, table, handler
  <1>2. ASSUME NEW h \in Handlers, NEW u \in Users, BeginCreate(h, u)
        PROVE  TypeOK'
    BY <1>2 DEF BeginCreate, Begin, table
  <1>3. ASSUME NEW h \in Handlers, FinishCreate(h)
        PROVE  TypeOK'
    BY <1>3 DEF FinishCreate, Finish
  <1>4. ASSUME NEW h \in Handlers,
               CreateRefused(h) \/ RejectKey(h) \/ WriteRefused(h) \/ NotFunded(h)
                 \/ SetAdminRefused(h)
        PROVE  TypeOK'
    BY <1>4 DEF CreateRefused, RejectKey, WriteRefused, NotFunded, SetAdminRefused, Finish, table
  <1>5. ASSUME NEW h \in Handlers, NEW u \in Users, NEW k \in Keys, BeginSetKey(h, u, k)
        PROVE  TypeOK'
    BY <1>5 DEF BeginSetKey, Begin, table
  <1>6. ASSUME NEW h \in Handlers, CheckClash(h) \/ CheckOwnKey(h) \/ AskHorizon(h)
        PROVE  TypeOK'
    BY <1>6 DEF CheckClash, CheckOwnKey, AskHorizon, Goto, table
  <1>7. ASSUME NEW h \in Handlers, WriteKey(h)
        PROVE  TypeOK'
    BY <1>7 DEF WriteKey, Finish
  <1>8. ASSUME NEW h \in Handlers, NEW u \in Users, BeginActivation(h, u)
        PROVE  TypeOK'
    BY <1>8 DEF BeginActivation, Begin, table
  <1>9. ASSUME NEW h \in Handlers, MarkActivated(h) \/ SetAdmin(h)
        PROVE  TypeOK'
    BY <1>9 DEF MarkActivated, SetAdmin, Finish
  <1>10. ASSUME NEW k \in Keys, Fund(k)
         PROVE  TypeOK'
    BY <1>10 DEF Fund, table, handler
  <1>11. ASSUME NEW h \in Handlers, NEW a \in Users, NEW u \in Users,
                NEW stage \in {"promoting", "demoting"}, BeginSetAdmin(h, a, u, stage)
         PROVE  TypeOK'
    BY <1>11 DEF BeginSetAdmin, Begin, table
  <1>12. ASSUME NEW u \in Users, Provision(u)
         PROVE  TypeOK'
    BY <1>12 DEF Provision, handler
  <1>13. CASE Restart
    BY <1>13 DEF Restart, table
  <1>14. CASE UNCHANGED vars
    BY <1>14 DEF vars, table, handler
  <1> HIDE DEF TypeOK, Stages
  <1> QED
    BY <1>1, <1>2, <1>3, <1>4, <1>5, <1>6, <1>7, <1>8, <1>9, <1>10, <1>11, <1>12, <1>13, <1>14
    DEF Next

\* Only users who have a row have a key, a token or a flag, for any number of
\* users and requests; and every handler that writes has a key to write.
THEOREM TypeCorrect == Spec => []TypeOK
  BY TypeInit, TypeStep, PTL DEF Spec

-----------------------------------------------------------------------------
(* The onboarding flag.                                                    *)

\* What an activation has read and heard stays true while it waits, although
\* the user's key may be replaced: some key of the user is funded.
ActivationInv ==
  /\ \A h \in Handlers :
       /\ pc[h] \in {"asking", "marking"} => <<who[h], arg[h]>> \in stored
       /\ pc[h] = "marking" => arg[h] \in funded
  /\ \A u \in activated : \E k \in funded : <<u, k>> \in stored

LEMMA ActivationInit == Init => ActivationInv
  BY DEF Init, ActivationInv

LEMMA ActivationStep == TypeOK /\ ActivationInv /\ [Next]_vars => ActivationInv'
  <1> SUFFICES ASSUME TypeOK, ActivationInv, [Next]_vars
               PROVE  ActivationInv'
    OBVIOUS
  <1> USE NoneAssumption
  <1> USE DEF ActivationInv
  <1>1. ASSUME NEW h \in Handlers, NEW u \in Users, BeginActivation(h, u)
        PROVE  ActivationInv'
    BY <1>1 DEF BeginActivation, Begin, table, TypeOK
  <1>2. ASSUME NEW h \in Handlers, AskHorizon(h)
        PROVE  ActivationInv'
    BY <1>2 DEF AskHorizon, Goto, table, TypeOK
  <1>3. ASSUME NEW h \in Handlers, MarkActivated(h)
        PROVE  ActivationInv'
    BY <1>3 DEF MarkActivated, Finish, TypeOK
  <1>4. ASSUME NEW h \in Handlers, WriteKey(h)
        PROVE  ActivationInv'
    BY <1>4 DEF WriteKey, Finish, TypeOK
  <1>5. ASSUME NEW h \in Handlers,
               FinishCreate(h) \/ CreateRefused(h) \/ RejectKey(h) \/ WriteRefused(h)
                 \/ NotFunded(h) \/ SetAdmin(h) \/ SetAdminRefused(h)
        PROVE  ActivationInv'
    BY <1>5 DEF FinishCreate, CreateRefused, RejectKey, WriteRefused, NotFunded, SetAdmin,
      SetAdminRefused, Finish, table, TypeOK
  <1>6. ASSUME NEW h \in Handlers, NEW u \in Users,
               BeginCreate(h, u) \/ \E k \in Keys : BeginSetKey(h, u, k)
        PROVE  ActivationInv'
    BY <1>6 DEF BeginCreate, BeginSetKey, Begin, table, TypeOK
  <1>7. ASSUME NEW h \in Handlers, CheckClash(h) \/ CheckOwnKey(h)
        PROVE  ActivationInv'
    BY <1>7 DEF CheckClash, CheckOwnKey, Goto, table, TypeOK
  <1>8. ASSUME NEW h \in Handlers, NEW a \in Users, NEW u \in Users,
               NEW stage \in {"promoting", "demoting"}, BeginSetAdmin(h, a, u, stage)
        PROVE  ActivationInv'
    BY <1>8 DEF BeginSetAdmin, Begin, table, TypeOK
  <1>9. ASSUME NEW k \in Keys, Fund(k)
        PROVE  ActivationInv'
    BY <1>9 DEF Fund, table, handler
  <1>10. ASSUME NEW u \in Users, GetExisting(u) \/ LapseBootstrap(u) \/ Provision(u)
         PROVE  ActivationInv'
    BY <1>10 DEF GetExisting, LapseBootstrap, Provision, table, handler
  <1>11. CASE Restart
    BY <1>11 DEF Restart, table
  <1>12. CASE UNCHANGED vars
    BY <1>12 DEF vars, table, handler
  <1> HIDE DEF ActivationInv
  <1> QED
    BY <1>1, <1>2, <1>3, <1>4, <1>5, <1>6, <1>7, <1>8, <1>9, <1>10, <1>11, <1>12 DEF Next

\* An activated user has a funded account, unless a second key was stored.
THEOREM ActivatedAreFunded == Spec => []ActivatedIsFunded
  <1>1. TypeOK /\ ActivationInv => ActivatedIsFunded
    BY DEF TypeOK, ActivationInv, ActivatedIsFunded
  <1> QED
    BY <1>1, TypeInit, TypeStep, ActivationInit, ActivationStep, PTL DEF Spec

-----------------------------------------------------------------------------
(* The admin flag.                                                         *)

\* Nobody becomes an admin by a request once there is none and none is under
\* way: the operator's script is the only source of a first admin.
THEOREM AdminsOnlyFromAdmins == Spec => AdminsComeFromAdmins
  <1>1. ASSUME TypeOK, [Next]_vars, admins = {}, ~Promoting
        PROVE  ~Promoting' /\ (admins' = {} \/ \E u \in Users : Provision(u))
    <2> USE <1>1 DEF Promoting, TypeOK
    <2>1. ASSUME NEW h \in Handlers, SetAdmin(h)
          PROVE  ~Promoting' /\ admins' = {}
      BY <2>1 DEF SetAdmin, Finish
    <2>2. ASSUME NEW u \in Users, Provision(u)
          PROVE  ~Promoting'
      BY <2>2 DEF Provision, handler
    <2>3. ASSUME NEW h \in Handlers, FinishCreate(h) \/ WriteKey(h) \/ MarkActivated(h)
          PROVE  ~Promoting' /\ admins' = {}
      BY <2>3 DEF FinishCreate, WriteKey, MarkActivated, Finish
    <2>4. ASSUME NEW h \in Handlers,
                 CreateRefused(h) \/ RejectKey(h) \/ WriteRefused(h) \/ NotFunded(h)
                   \/ SetAdminRefused(h)
          PROVE  ~Promoting' /\ admins' = {}
      BY <2>4 DEF CreateRefused, RejectKey, WriteRefused, NotFunded, SetAdminRefused, Finish, table
    <2>5. ASSUME NEW h \in Handlers, CheckClash(h) \/ CheckOwnKey(h) \/ AskHorizon(h)
          PROVE  ~Promoting' /\ admins' = {}
      BY <2>5 DEF CheckClash, CheckOwnKey, AskHorizon, Goto, table
    <2>6. ASSUME NEW h \in Handlers, NEW u \in Users,
                 BeginCreate(h, u) \/ \E k \in Keys : BeginSetKey(h, u, k)
          PROVE  ~Promoting' /\ admins' = {}
      BY <2>6 DEF BeginCreate, BeginSetKey, Begin, table
    <2>7. ASSUME NEW h \in Handlers, NEW u \in Users, BeginActivation(h, u)
          PROVE  ~Promoting' /\ admins' = {}
      BY <2>7 DEF BeginActivation, Begin, table
    <2>8. ASSUME NEW h \in Handlers, NEW a \in Users, NEW u \in Users,
                 NEW stage \in {"promoting", "demoting"}, BeginSetAdmin(h, a, u, stage)
          PROVE  ~Promoting' /\ admins' = {}
      BY <2>8 DEF BeginSetAdmin
    <2>9. ASSUME NEW u \in Users, GetExisting(u) \/ LapseBootstrap(u)
          PROVE  ~Promoting' /\ admins' = {}
      BY <2>9 DEF GetExisting, LapseBootstrap, table, handler
    <2>10. ASSUME NEW k \in Keys, Fund(k)
           PROVE  ~Promoting' /\ admins' = {}
      BY <2>10 DEF Fund, table, handler
    <2>11. CASE Restart
      BY <2>11 DEF Restart, table
    <2>12. CASE UNCHANGED vars
      BY <2>12 DEF vars, table, handler
    <2> HIDE DEF Promoting, TypeOK
    <2>13. (~Promoting' /\ admins' = {}) \/ \E u \in Users : Provision(u)
      <3>1. Next \/ UNCHANGED vars
        BY <1>1
      <3> HIDE <1>1
      <3> QED
        BY <3>1, <2>1, <2>3, <2>4, <2>5, <2>6, <2>7, <2>8, <2>9, <2>10, <2>11, <2>12 DEF Next
    <2> QED BY <2>2, <2>13
  <1> QED BY <1>1, TypeInit, TypeStep, PTL DEF Spec, AdminsComeFromAdmins

-----------------------------------------------------------------------------
(* The promise of the directory.                                           *)

\* A step that changes no key and lets no further handler write is a stutter
\* of the directory, or a loss of requests.
LEMMA NothingAdmitted ==
  ASSUME UNCHANGED key, \A u \in Users : Admitted(u)' \subseteq Admitted(u)
  PROVE  Directory!Forget
  <1> DEFINE left == [u \in Users |-> Admitted(u)']
  <1>1. left \in [Users -> SUBSET Keys]
    BY DEF Admitted
  <1>2. \A u \in Users : left[u] \subseteq Admitted(u)
    OBVIOUS
  <1> QED BY <1>1, <1>2 DEF Directory!Forget

\* CheckOwnKey admits the key of its request.
LEMMA CheckAdmits ==
  ASSUME TypeOK, NEW h \in Handlers, CheckOwnKey(h),
         NEW u \in Users, u = who[h], NEW k \in Keys, k = arg[h]
  PROVE  Directory!Admit(u, k)
  <1> DEFINE before == [v \in Users |-> Admitted(v)]
  <1>1. /\ UNCHANGED <<key, who, arg>>
        /\ pc' = [pc EXCEPT ![h] = "writing"] /\ pc \in [Handlers -> Stages]
        /\ key[u] \in {None, k}
    BY DEF CheckOwnKey, Goto, TypeOK, table
  <1>2. \A v \in Users \ {u} : Admitted(v)' = Admitted(v)
    BY <1>1 DEF Admitted
  <1>3. Admitted(u)' = Admitted(u) \cup {k}
    BY <1>1 DEF Admitted
  <1>4. before' = [before EXCEPT ![u] = @ \cup {k}]
    BY <1>2, <1>3
  <1> QED BY <1>1, <1>4 DEF Directory!Admit

\* WriteKey registers a key that was admitted.
LEMMA WriteRegisters ==
  ASSUME TypeOK, NEW h \in Handlers, WriteKey(h),
         NEW u \in Users, u = who[h], NEW k \in Keys, k = arg[h]
  PROVE  Directory!Register(u, k)
  <1> DEFINE before == [v \in Users |-> Admitted(v)]
  <1>1. /\ pc[h] = "writing"
        /\ pc' = [pc EXCEPT ![h] = "free"] /\ pc \in [Handlers -> Stages]
        /\ who' = [who EXCEPT ![h] = None] /\ who \in [Handlers -> Users \cup {None}]
        /\ arg' = [arg EXCEPT ![h] = None] /\ arg \in [Handlers -> Keys \cup {None}]
    BY DEF WriteKey, Finish, TypeOK
  <1>2. k \in Admitted(u)
    BY <1>1 DEF Admitted
  <1>3. \A v \in Users \ {u} : Admitted(v)' = Admitted(v)
    BY <1>1 DEF Admitted
  <1>4. Admitted(u)' \subseteq Admitted(u) /\ Admitted(u) \ {k} \subseteq Admitted(u)'
    BY <1>1 DEF Admitted
  <1>5. Admitted(u)' \in {Admitted(u), Admitted(u) \ {k}}
    BY <1>4
  <1>6. before' = [before EXCEPT ![u] = Admitted(u)']
    BY <1>3
  <1>7. before[u] = Admitted(u)
    OBVIOUS
  <1> HIDE DEF before
  <1>8. /\ key' = [key EXCEPT ![u] = k]
        /\ \A v \in Users \ {u} : key[v] # k
    BY DEF WriteKey, Clash
  <1> QED BY <1>2, <1>5, <1>6, <1>7, <1>8 DEF Directory!Register, before

\* Every step is one of the directory: CheckOwnKey admits, WriteKey registers,
\* and the others change no key and admit nothing.
LEMMA StepsOfDirectory == TypeOK /\ [Next]_vars => Directory!DirectoryNext
  <1> SUFFICES ASSUME TypeOK, [Next]_vars
               PROVE  Directory!DirectoryNext
    OBVIOUS
  <1> USE DEF Admitted
  <1>1. ASSUME NEW h \in Handlers, CheckOwnKey(h)
        PROVE  \E u \in Users, k \in Keys : Directory!Admit(u, k)
    <2>1. who[h] \in Users /\ arg[h] \in Keys
      BY <1>1 DEF CheckOwnKey, TypeOK
    <2> QED BY <1>1, <2>1, CheckAdmits
  <1>2. ASSUME NEW h \in Handlers, WriteKey(h)
        PROVE  \E u \in Users, k \in Keys : Directory!Register(u, k)
    <2>1. who[h] \in Users /\ arg[h] \in Keys
      BY <1>2 DEF WriteKey, TypeOK
    <2> QED BY <1>2, <2>1, WriteRegisters
  <1> DEFINE quiet == UNCHANGED key /\ \A u \in Users : Admitted(u)' \subseteq Admitted(u)
  <1>3. ASSUME NEW u \in Users, GetExisting(u) \/ LapseBootstrap(u) \/ Provision(u)
        PROVE  quiet
    BY <1>3 DEF GetExisting, LapseBootstrap, Provision, table, handler
  <1>4. ASSUME NEW h \in Handlers, NEW u \in Users,
               BeginCreate(h, u) \/ BeginActivation(h, u) \/ \E k \in Keys : BeginSetKey(h, u, k)
        PROVE  quiet
    BY <1>4 DEF BeginCreate, BeginActivation, BeginSetKey, Begin, table, TypeOK
  <1>5. ASSUME NEW h \in Handlers, NEW a \in Users, NEW u \in Users,
               NEW stage \in {"promoting", "demoting"}, BeginSetAdmin(h, a, u, stage)
        PROVE  quiet
    BY <1>5 DEF BeginSetAdmin, Begin, table, TypeOK
  <1>6. ASSUME NEW h \in Handlers, CheckClash(h) \/ AskHorizon(h)
        PROVE  quiet
    BY <1>6 DEF CheckClash, AskHorizon, Goto, table, TypeOK
  <1>7. ASSUME NEW h \in Handlers,
               FinishCreate(h) \/ CreateRefused(h) \/ RejectKey(h) \/ WriteRefused(h)
                 \/ NotFunded(h) \/ MarkActivated(h) \/ SetAdmin(h) \/ SetAdminRefused(h)
        PROVE  quiet
    BY <1>7 DEF FinishCreate, CreateRefused, RejectKey, WriteRefused, NotFunded, MarkActivated,
      SetAdmin, SetAdminRefused, Finish, table, TypeOK
  <1>8. ASSUME NEW k \in Keys, Fund(k)
        PROVE  quiet
    BY <1>8 DEF Fund, table, handler
  <1>9. ASSUME Restart
        PROVE  quiet
    BY <1>9 DEF Restart, table
  <1>10. ASSUME UNCHANGED vars
         PROVE  quiet
    BY <1>10 DEF vars, table, handler
  <1>11. ASSUME quiet
         PROVE  Directory!Forget
    <2> HIDE DEF Admitted
    <2> QED BY <1>11, NothingAdmitted
  <1> HIDE DEF quiet, Admitted
  <1> QED
    BY <1>1, <1>2, <1>3, <1>4, <1>5, <1>6, <1>7, <1>8, <1>9, <1>10, <1>11
    DEF Next, Directory!DirectoryNext

\* The rows and the requests keep the promise of AccountDirectory, whatever
\* order the two reads and the write of each request come in.
THEOREM AccountsKeepDirectory == Spec => KeepsDirectory
  <1>1. Init => Directory!NoKeys
    BY DEF Init, Directory!NoKeys, Admitted
  <1>2. TypeOK /\ [Next]_vars => [Directory!DirectoryNext]_(Directory!directory)
    BY StepsOfDirectory
  <1> QED
    BY <1>1, <1>2, TypeInit, TypeStep, PTL DEF Spec, KeepsDirectory, Directory!DirectorySpec

\* "Keys are immutable": once a user has a key and no other request of the
\* user has passed its check, no step of any request changes it.
THEOREM KeysAreForever == Spec => Directory!KeyIsForever
  <1>1. ASSUME NEW u \in Users, TypeOK, [Next]_vars, Directory!Settled(u)
        PROVE  key'[u] = key[u] /\ Directory!Settled(u)'
    <2>1. key \in [Users -> Keys \cup {None}] /\ key[u] # None /\ Admitted(u) \subseteq {key[u]}
      BY <1>1 DEF TypeOK, Directory!Settled
    <2>2. ASSUME NEW v \in Users, NEW k \in Keys, Directory!Admit(v, k)
          PROVE  key'[u] = key[u] /\ Admitted(u)' \subseteq {key[u]}
      <3>1. Admitted(u)' = IF u = v THEN Admitted(u) \cup {k} ELSE Admitted(u)
        BY <2>2 DEF Directory!Admit
      <3> QED BY <2>1, <2>2, <3>1 DEF Directory!Admit
    <2>3. ASSUME NEW v \in Users, NEW k \in Keys, Directory!Register(v, k)
          PROVE  key'[u] = key[u] /\ Admitted(u)' \subseteq {key[u]}
      <3>1. Admitted(u)' \subseteq Admitted(u)
        BY <2>3 DEF Directory!Register
      <3>2. k \in Admitted(v) /\ key' = [key EXCEPT ![v] = k]
        BY <2>3 DEF Directory!Register
      <3> QED BY <2>1, <3>1, <3>2
    <2>4. ASSUME Directory!Forget
          PROVE  key'[u] = key[u] /\ Admitted(u)' \subseteq {key[u]}
      <3>1. Admitted(u)' \subseteq Admitted(u) /\ UNCHANGED key
        BY <2>4 DEF Directory!Forget
      <3> QED BY <2>1, <3>1
    <2>5. Directory!DirectoryNext
      BY <1>1, StepsOfDirectory
    <2>6. key'[u] = key[u] /\ Admitted(u)' \subseteq {key[u]}
      BY <2>2, <2>3, <2>4, <2>5 DEF Directory!DirectoryNext
    <2> QED BY <2>1, <2>6 DEF Directory!Settled
  <1>2. TypeOK /\ [Next]_vars =>
          [\A u \in Users : Directory!Settled(u) =>
             key'[u] = key[u] /\ Directory!Settled(u)']_(Directory!directory)
    BY <1>1
  <1> QED BY <1>2, TypeInit, TypeStep, PTL DEF Spec, Directory!KeyIsForever

=============================================================================
