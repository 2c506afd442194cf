---------------------------- MODULE AuthSessions ----------------------------
(***************************************************************************)
(* AuthService for one user: challenge-response login and the rotation of  *)
(* refresh tokens.                                                         *)
(*                                                                         *)
(* Every HTTP request runs in a handler of its own and gives way at each   *)
(* database call, so handlers interleave between reading a row and writing *)
(* it.  The LoginChallenge table holds at most one row for the user; the   *)
(* RefreshToken table one row per token.  A signature is modelled by the   *)
(* challenge it was made over.  Requests can be sent concurrently and      *)
(* again: by the app after it was killed or its call timed out, and for    *)
(* /auth/challenge, which is public, by anyone.                            *)
(***************************************************************************)
EXTENDS Naturals, FiniteSets

CONSTANTS
  Handlers,    \* request handlers running at the same time
  Challenges,  \* challenge messages (each with its own nonce)
  Tokens,      \* refresh tokens, by jti
  None

VARIABLES
  row,      \* loginChallenge: the user's pending challenge, or None
  made,     \* challenges created so far
  token,    \* refreshToken: token[t] is "absent", "live" or "revoked"
  lapsed,   \* challenges and tokens whose expiresAt has passed
  pc,       \* pc[h]: where handler h is
  arg,      \* arg[h]: the signed challenge or the token presented to h
  took,     \* took[h]: the challenge row h's conditional delete removed
  logins,   \* history: successful logins
  rotated   \* history: rotations of refresh tokens

tables  == <<row, made, token>>
handler == <<pc, arg, took>>
history == <<logins, rotated>>
vars    == <<tables, lapsed, handler, history>>

-----------------------------------------------------------------------------

Ids == Challenges \cup Tokens

Stages == {"free", "login", "stale", "verified", "consumed", "refresh", "found", "retired"}

Login == [signed : Challenges, row : Challenges, token : Tokens]

Rotation == [old : Tokens, new : Tokens]

ASSUME NoneAssumption == None \notin Ids /\ Challenges \cap Tokens = {}

Init ==
  /\ row = None
  /\ made = {}
  /\ token = [t \in Tokens |-> "absent"]
  /\ lapsed = {}
  /\ pc = [h \in Handlers |-> "free"]
  /\ arg = [h \in Handlers |-> None]
  /\ took = [h \in Handlers |-> None]
  /\ logins = {}
  /\ rotated = {}

Goto(h, stage) == pc' = [pc EXCEPT ![h] = stage]

Finish(h) ==
  /\ Goto(h, "free")
  /\ arg' = [arg EXCEPT ![h] = None]
  /\ took' = [took EXCEPT ![h] = None]

-----------------------------------------------------------------------------
(* Login.                                                                  *)

\* createChallenge: the upsert replaces whatever challenge was pending.
CreateChallenge(c) ==
  /\ c \notin made
  /\ made' = made \cup {c}
  /\ row' = c
  /\ UNCHANGED <<token, lapsed, handler, history>>

\* A login request arrives with a signature over challenge c.
ReceiveLogin(h, c) ==
  /\ pc[h] = "free"
  /\ c \in made
  /\ Goto(h, "login")
  /\ arg' = [arg EXCEPT ![h] = c]
  /\ UNCHANGED <<tables, lapsed, took, history>>

\* The pending row is read: it is there, in time, and what was signed.
VerifySignature(h) ==
  /\ pc[h] = "login"
  /\ row = arg[h]
  /\ row \notin lapsed
  /\ Goto(h, "verified")
  /\ UNCHANGED <<tables, lapsed, arg, took, history>>

\* The row is absent, or another challenge than was signed.
RejectLogin(h) ==
  /\ pc[h] = "login"
  /\ row = None \/ (row \notin lapsed /\ row # arg[h])
  /\ Finish(h)
  /\ UNCHANGED <<tables, lapsed, history>>

\* The row has expired: it will be deleted, and the login rejected.
FindStale(h) ==
  /\ pc[h] = "login"
  /\ row \in lapsed
  /\ Goto(h, "stale")
  /\ UNCHANGED <<tables, lapsed, arg, took, history>>

\* That delete names the user only.
DeleteStale(h) ==
  /\ pc[h] = "stale"
  /\ row' = None
  /\ Finish(h)
  /\ UNCHANGED <<made, token, lapsed, history>>

\* Mutant: the delete's affected-row count is not looked at.
ConsumeUncounted(h) ==
  /\ pc[h] = "verified"
  /\ took' = [took EXCEPT ![h] = arg[h]]
  /\ row' = None
  /\ Goto(h, "consumed")
  /\ UNCHANGED <<made, token, lapsed, arg, history>>

\* The conditional delete: the user's row if it is in time now.
Consume(h) ==
  /\ pc[h] = "verified"
  /\ row # None /\ row \notin lapsed
  /\ took' = [took EXCEPT ![h] = row]
  /\ row' = None
  /\ Goto(h, "consumed")
  /\ UNCHANGED <<made, token, lapsed, arg, history>>

\* It removed nothing: another login was first, or the time is up.
ConsumeNothing(h) ==
  /\ pc[h] = "verified"
  /\ row = None \/ row \in lapsed
  /\ Finish(h)
  /\ UNCHANGED <<tables, lapsed, history>>

\* issueTokens for a login.
IssueLogin(h, t) ==
  /\ pc[h] = "consumed"
  /\ token[t] = "absent"
  /\ token' = [token EXCEPT ![t] = "live"]
  /\ logins' = logins \cup {[signed |-> arg[h], row |-> took[h], token |-> t]}
  /\ Finish(h)
  /\ UNCHANGED <<row, made, lapsed, rotated>>

-----------------------------------------------------------------------------
(* Refresh.                                                                *)

ReceiveRefresh(h, t) ==
  /\ pc[h] = "free"
  /\ token[t] # "absent"
  /\ Goto(h, "refresh")
  /\ arg' = [arg EXCEPT ![h] = t]
  /\ UNCHANGED <<tables, lapsed, took, history>>

\* Mutant: whether the token was revoked is not looked at.
FindTokenRevoked(h) ==
  /\ pc[h] = "refresh"
  /\ arg[h] \notin lapsed
  /\ Goto(h, "found")
  /\ UNCHANGED <<tables, lapsed, arg, took, history>>

\* The stored token is read: live and in time.
FindToken(h) ==
  /\ pc[h] = "refresh"
  /\ token[arg[h]] = "live"
  /\ arg[h] \notin lapsed
  /\ Goto(h, "found")
  /\ UNCHANGED <<tables, lapsed, arg, took, history>>

RejectRefresh(h) ==
  /\ pc[h] = "refresh"
  /\ token[arg[h]] = "revoked" \/ arg[h] \in lapsed
  /\ Finish(h)
  /\ UNCHANGED <<tables, lapsed, history>>

\* Mutant: the row of the old token is deleted.
RetireDeleting(h) ==
  /\ pc[h] = "found"
  /\ token' = [token EXCEPT ![arg[h]] = "absent"]
  /\ Goto(h, "retired")
  /\ UNCHANGED <<row, made, lapsed, arg, took, history>>

\* After the user was looked up, the old token is revoked unconditionally.
Retire(h) ==
  /\ pc[h] = "found"
  /\ token' = [token EXCEPT ![arg[h]] = "revoked"]
  /\ Goto(h, "retired")
  /\ UNCHANGED <<row, made, lapsed, arg, took, history>>

\* issueTokens for a refresh.
IssueRefresh(h, t) ==
  /\ pc[h] = "retired"
  /\ token[t] = "absent"
  /\ token' = [token EXCEPT ![t] = "live"]
  /\ rotated' = rotated \cup {[old |-> arg[h], new |-> t]}
  /\ Finish(h)
  /\ UNCHANGED <<row, made, lapsed, logins>>

-----------------------------------------------------------------------------

\* Five minutes, or thirty days, pass.
Lapse(x) ==
  /\ x \notin lapsed
  /\ x \in made \/ x \in {t \in Tokens : token[t] # "absent"}
  /\ lapsed' = lapsed \cup {x}
  /\ UNCHANGED <<tables, handler, history>>

\* The server restarts: every request in progress is lost, the tables stay.
Restart ==
  /\ pc' = [h \in Handlers |-> "free"]
  /\ arg' = [h \in Handlers |-> None]
  /\ took' = [h \in Handlers |-> None]
  /\ UNCHANGED <<tables, lapsed, history>>

Next ==
  \/ \E c \in Challenges : CreateChallenge(c)
  \/ \E h \in Handlers, c \in Challenges : ReceiveLogin(h, c)
  \/ \E h \in Handlers : VerifySignature(h)
  \/ \E h \in Handlers : RejectLogin(h)
  \/ \E h \in Handlers : FindStale(h)
  \/ \E h \in Handlers : DeleteStale(h)
  \/ \E h \in Handlers : Consume(h)
  \/ \E h \in Handlers : ConsumeNothing(h)
  \/ \E h \in Handlers, t \in Tokens : IssueLogin(h, t)
  \/ \E h \in Handlers, t \in Tokens : ReceiveRefresh(h, t)
  \/ \E h \in Handlers : FindToken(h)
  \/ \E h \in Handlers : RejectRefresh(h)
  \/ \E h \in Handlers : Retire(h)
  \/ \E h \in Handlers, t \in Tokens : IssueRefresh(h, t)
  \/ \E x \in Ids : Lapse(x)
  \/ Restart

Spec == Init /\ [][Next]_vars

-----------------------------------------------------------------------------
(* Properties.                                                             *)

\* Type invariant of the tables and the handlers: a handler holds what its
\* stage needs, and the tokens it names are stored.
TypeOK ==
  /\ row \in made \cup {None}
  /\ made \subseteq Challenges
  /\ token \in [Tokens -> {"absent", "live", "revoked"}]
  /\ lapsed \subseteq Ids
  /\ pc \in [Handlers -> Stages]
  /\ arg \in [Handlers -> Ids \cup {None}]
  /\ took \in [Handlers -> Challenges \cup {None}]
  /\ \A h \in Handlers :
       /\ pc[h] \in {"login", "stale", "verified", "consumed"} => arg[h] \in made
       /\ pc[h] = "consumed" => took[h] \in made
       /\ pc[h] \in {"refresh", "found", "retired"} =>
            arg[h] \in Tokens /\ token[arg[h]] # "absent"
  /\ logins \subseteq Login
  /\ rotated \subseteq Rotation

\* "Exactly one login can ever consume a challenge, even under concurrent
\* attempts": two logins never rest on the same row.
OneLoginPerRow == \A l, k \in logins : l.row = k.row => l = k

\* A token that was rotated is revoked, and its successor is another token.
RotatedIsRevoked ==
  \A r \in rotated : token[r.old] = "revoked" /\ r.new # r.old

\* A refresh that begins to read after a token was rotated is never let
\* through, and a revoked token is never live again.
RotatedStaysDead ==
  [][\A t \in Tokens : token[t] = "revoked" =>
       /\ token'[t] = "revoked"
       /\ \A h \in Handlers : pc'[h] = "found" /\ arg[h] = t => pc[h] = "found"]_vars
=============================================================================
