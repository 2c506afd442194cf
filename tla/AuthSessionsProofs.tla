-------------------------- MODULE AuthSessionsProofs --------------------------
(***************************************************************************)
(* Proofs about AuthSessions for any number of concurrent requests.        *)
(***************************************************************************)
EXTENDS AuthSessions, TLAPS

-----------------------------------------------------------------------------
(* Types.                                                                  *)

LEMMA TypeStep == TypeOK /\ [Next]_vars => TypeOK'
  <1> SUFFICES ASSUME TypeOK, [Next]_vars
               PROVE  TypeOK'
    OBVIOUS
  <1> USE NoneAssumption DEF TypeOK, Ids, Stages, tables, handler, history, Goto, Finish
  <1>1. ASSUME NEW c \in Challenges, CreateChallenge(c)
        PROVE  TypeOK'
    BY <1>1 DEF CreateChallenge
  <1>2. ASSUME NEW h \in Handlers, NEW c \in Challenges, ReceiveLogin(h, c)
        PROVE  TypeOK'
    BY <1>2 DEF ReceiveLogin
  <1>3. ASSUME NEW h \in Handlers, VerifySignature(h)
        PROVE  TypeOK'
    BY <1>3 DEF VerifySignature
  <1>4. ASSUME NEW h \in Handlers, RejectLogin(h) \/ ConsumeNothing(h) \/ RejectRefresh(h)
        PROVE  TypeOK'
    BY <1>4 DEF RejectLogin, ConsumeNothing, RejectRefresh
  <1>5. ASSUME NEW h \in Handlers, FindStale(h)
        PROVE  TypeOK'
    BY <1>5 DEF FindStale
  <1>6. ASSUME NEW h \in Handlers, DeleteStale(h)
        PROVE  TypeOK'
    BY <1>6 DEF DeleteStale
  <1>7. ASSUME NEW h \in Handlers, Consume(h)
        PROVE  TypeOK'
    BY <1>7 DEF Consume
  <1>8. ASSUME NEW h \in Handlers, NEW t \in Tokens, IssueLogin(h, t)
        PROVE  TypeOK'
    <2>1. [signed |-> arg[h], row |-> took[h], token |-> t] \in Login
      BY <1>8 DEF IssueLogin, Login
    <2> QED BY <1>8, <2>1 DEF IssueLogin
  <1>9. ASSUME NEW h \in Handlers, NEW t \in Tokens, ReceiveRefresh(h, t)
        PROVE  TypeOK'
    BY <1>9 DEF ReceiveRefresh
  <1>10. ASSUME NEW h \in Handlers, FindToken(h)
         PROVE  TypeOK'
    BY <1>10 DEF FindToken
  <1>11. ASSUME NEW h \in Handlers, Retire(h)
         PROVE  TypeOK'
    BY <1>11 DEF Retire
  <1>12. ASSUME NEW h \in Handlers, NEW t \in Tokens, IssueRefresh(h, t)
         PROVE  TypeOK'
    <2>1. [old |-> arg[h], new |-> t] \in Rotation
      BY <1>12 DEF IssueRefresh, Rotation
    <2> QED BY <1>12, <2>1 DEF IssueRefresh
  <1>13. ASSUME NEW x \in Ids, Lapse(x)
         PROVE  TypeOK'
    BY <1>13 DEF Lapse
  <1>14. CASE Restart
    BY <1>14 DEF Restart
  <1>15. CASE UNCHANGED vars
    BY <1>15 DEF vars
  <1> QED
    BY <1>1, <1>2, <1>3, <1>4, <1>5, <1>6, <1>7, <1>8, <1>9, <1>10, <1>11, <1>12,
       <1>13, <1>14, <1>15
    DEF Next

\* Every reachable state is well typed.
THEOREM TypeCorrect == Spec => []TypeOK
  <1>1. Init => TypeOK
    BY DEF Init, TypeOK, Stages, Ids
  <1>2. TypeOK /\ [Next]_vars => TypeOK'
    BY TypeStep
  <1> QED BY <1>1, <1>2, PTL DEF Spec

-----------------------------------------------------------------------------
(* Challenges.                                                             *)

\* A row is in one place at a time: pending, in the hands of the one handler
\* whose delete removed it, or spent on one login.
RowInv ==
  /\ TypeOK
  /\ \A l \in logins : l.row \in made /\ l.row # row
  /\ \A h \in Handlers : pc[h] = "consumed" =>
       /\ took[h] # row
       /\ \A l \in logins : l.row # took[h]
       /\ \A k \in Handlers : pc[k] = "consumed" /\ took[k] = took[h] => k = h
  /\ OneLoginPerRow

LEMMA RowStep == RowInv /\ [Next]_vars => RowInv'
  <1> SUFFICES ASSUME RowInv, [Next]_vars
               PROVE  RowInv'
    OBVIOUS
  <1>1. TypeOK /\ TypeOK'
    BY TypeStep DEF RowInv
  <1> USE NoneAssumption DEF RowInv, OneLoginPerRow, tables, handler, history, Goto, Finish
  <1>2. ASSUME NEW c \in Challenges, CreateChallenge(c)
        PROVE  RowInv'
    BY <1>1, <1>2 DEF CreateChallenge, TypeOK
  <1>3. ASSUME NEW h \in Handlers, Consume(h)
        PROVE  RowInv'
    <2>1. row \in Challenges /\ row # None /\ row' = None
      BY <1>3 DEF Consume, TypeOK
    <2>2. /\ \A k \in Handlers : pc'[k] = "consumed" <=> k = h \/ pc[k] = "consumed"
          /\ took'[h] = row /\ \A k \in Handlers \ {h} : took'[k] = took[k]
          /\ pc[h] # "consumed"
      BY <1>3 DEF Consume, TypeOK
    <2>3. made' = made /\ logins' = logins
      BY <1>3 DEF Consume
    <2>4. None \notin made
      BY <1>1 DEF TypeOK, Ids
    <2> QED BY <1>1, <2>1, <2>2, <2>3, <2>4 DEF TypeOK
  <1>4. ASSUME NEW h \in Handlers, NEW t \in Tokens, IssueLogin(h, t)
        PROVE  RowInv'
    <2> DEFINE l == [signed |-> arg[h], row |-> took[h], token |-> t]
    <2>1. /\ logins' = logins \cup {l} /\ l.row = took[h] /\ row' = row /\ made' = made
          /\ took[h] \in made /\ pc[h] = "consumed"
      BY <1>4 DEF IssueLogin, TypeOK
    <2>2. \A k \in Handlers : /\ pc'[k] = "consumed" <=> k # h /\ pc[k] = "consumed"
                              /\ k # h => took'[k] = took[k]
      BY <1>4 DEF IssueLogin, TypeOK
    <2> HIDE DEF l
    <2> QED BY <1>1, <2>1, <2>2
  <1>5. CASE /\ UNCHANGED <<made, logins>>
             /\ row' \in {row, None}
             /\ \A k \in Handlers : pc'[k] = "consumed" => pc[k] = "consumed" /\ took'[k] = took[k]
    BY <1>1, <1>5 DEF TypeOK, Ids
  <1>6. ASSUME NEW h \in Handlers,
               \/ VerifySignature(h)
               \/ RejectLogin(h)
               \/ FindStale(h)
               \/ DeleteStale(h)
               \/ ConsumeNothing(h)
        PROVE  RowInv'
    BY <1>1, <1>5, <1>6
    DEF VerifySignature, RejectLogin, FindStale, DeleteStale, ConsumeNothing, TypeOK
  <1>7. ASSUME NEW h \in Handlers,
               \/ \E c \in Challenges : ReceiveLogin(h, c)
               \/ \E t \in Tokens : ReceiveRefresh(h, t) \/ IssueRefresh(h, t)
               \/ FindToken(h)
               \/ RejectRefresh(h)
               \/ Retire(h)
        PROVE  RowInv'
    BY <1>1, <1>5, <1>7
    DEF ReceiveLogin, ReceiveRefresh, IssueRefresh, FindToken, RejectRefresh, Retire, TypeOK
  <1>8. CASE Restart \/ (\E x \in Ids : Lapse(x)) \/ UNCHANGED vars
    BY <1>1, <1>5, <1>8 DEF Restart, Lapse, vars
  <1> QED BY <1>2, <1>3, <1>4, <1>6, <1>7, <1>8 DEF Next

\* Exactly one login consumes a challenge row, however many run concurrently.
THEOREM LoginsConsumeOnce == Spec => []OneLoginPerRow
  <1>1. Init => RowInv
    <2>1. Init => TypeOK
      BY DEF Init, TypeOK, Stages, Ids
    <2> QED BY <2>1 DEF Init, RowInv, OneLoginPerRow
  <1>2. RowInv /\ [Next]_vars => RowInv'
    BY RowStep
  <1>3. RowInv => OneLoginPerRow
    BY DEF RowInv
  <1> QED BY <1>1, <1>2, <1>3, PTL DEF Spec

-----------------------------------------------------------------------------
(* Refresh tokens.                                                         *)

\* A token is revoked before its successor can be issued.
RotationInv ==
  /\ TypeOK
  /\ RotatedIsRevoked
  /\ \A h \in Handlers : pc[h] = "retired" => token[arg[h]] = "revoked"

\* How one step can change the tokens and the handlers that look at them.
LEMMA TokenStep ==
  ASSUME TypeOK, [Next]_vars
  PROVE  /\ \A t \in Tokens : token[t] = "revoked" => token'[t] = "revoked"
         /\ \A h \in Handlers : pc'[h] = "found" /\ pc[h] # "found" =>
              arg[h] \in Tokens /\ token[arg[h]] = "live"
         /\ \A h \in Handlers : pc'[h] = "retired" =>
              arg'[h] = arg[h] /\ (pc[h] = "retired" \/ token'[arg[h]] = "revoked")
  <1> USE DEF TypeOK, Stages, tables, handler, history, Goto, Finish
  <1>1. CASE \E h \in Handlers : FindToken(h)
    BY <1>1 DEF FindToken
  <1>2. CASE \E h \in Handlers : Retire(h)
    BY <1>2 DEF Retire
  <1>3. CASE \E h \in Handlers, t \in Tokens : IssueLogin(h, t) \/ IssueRefresh(h, t)
    BY <1>3 DEF IssueLogin, IssueRefresh
  <1>4. CASE \E h \in Handlers, x \in Ids : ReceiveLogin(h, x) \/ ReceiveRefresh(h, x)
    BY <1>4 DEF ReceiveLogin, ReceiveRefresh
  <1>5. CASE \E h \in Handlers : VerifySignature(h) \/ FindStale(h) \/ DeleteStale(h) \/ Consume(h)
    BY <1>5 DEF VerifySignature, FindStale, DeleteStale, Consume
  <1>6. CASE \E h \in Handlers : RejectLogin(h) \/ ConsumeNothing(h) \/ RejectRefresh(h)
    BY <1>6 DEF RejectLogin, ConsumeNothing, RejectRefresh
  <1>7. CASE \/ \E c \in Challenges : CreateChallenge(c)
             \/ \E x \in Ids : Lapse(x)
             \/ Restart
             \/ UNCHANGED vars
    BY <1>7 DEF CreateChallenge, Lapse, Restart, vars
  <1> QED BY <1>1, <1>2, <1>3, <1>4, <1>5, <1>6, <1>7 DEF Next, Ids

LEMMA RotationStep == RotationInv /\ [Next]_vars => RotationInv'
  <1> SUFFICES ASSUME RotationInv, [Next]_vars
               PROVE  RotationInv'
    OBVIOUS
  <1>1. TypeOK /\ TypeOK'
    BY TypeStep DEF RotationInv
  <1>2. \A h \in Handlers : pc'[h] = "retired" => token'[arg'[h]] = "revoked"
    BY <1>1, TokenStep DEF RotationInv, TypeOK
  <1>3. ASSUME NEW r \in rotated
        PROVE  token'[r.old] = "revoked" /\ r.new # r.old
    BY <1>1, <1>3, TokenStep DEF RotationInv, RotatedIsRevoked, TypeOK, Rotation
  <1>4. ASSUME NEW r \in rotated' \ rotated
        PROVE  token'[r.old] = "revoked" /\ r.new # r.old
    <2>1. PICK h \in Handlers, t \in Tokens : IssueRefresh(h, t)
      BY <1>4
      DEF Next, vars, tables, handler, history, CreateChallenge, ReceiveLogin, VerifySignature,
          RejectLogin, FindStale, DeleteStale, Consume, ConsumeNothing, IssueLogin,
          ReceiveRefresh, FindToken, RejectRefresh, Retire, Lapse, Restart
    <2>2. r = [old |-> arg[h], new |-> t] /\ pc[h] = "retired" /\ token[t] = "absent"
      BY <1>4, <2>1 DEF IssueRefresh
    <2>3. token[arg[h]] = "revoked" /\ arg[h] \in Tokens
      BY <1>1, <2>2 DEF RotationInv, TypeOK
    <2> QED BY <1>1, <2>2, <2>3, TokenStep
  <1> QED BY <1>1, <1>2, <1>3, <1>4 DEF RotationInv, RotatedIsRevoked

\* A token that was exchanged for a successor is revoked.
THEOREM RotationRevokes == Spec => []RotatedIsRevoked
  <1>1. Init => RotationInv
    BY DEF Init, RotationInv, RotatedIsRevoked, TypeOK, Stages, Ids
  <1>2. RotationInv /\ [Next]_vars => RotationInv'
    BY RotationStep
  <1>3. RotationInv => RotatedIsRevoked
    BY DEF RotationInv
  <1> QED BY <1>1, <1>2, <1>3, PTL DEF Spec

\* A revoked token is never live again and no later request gets past it.
THEOREM RevokedForGood == Spec => RotatedStaysDead
  <1> DEFINE Dead ==
        \A t \in Tokens : token[t] = "revoked" =>
          /\ token'[t] = "revoked"
          /\ \A h \in Handlers : pc'[h] = "found" /\ arg[h] = t => pc[h] = "found"
  <1>1. TypeOK /\ [Next]_vars => [Dead]_vars
    BY TokenStep
  <1> QED BY <1>1, TypeCorrect, PTL DEF Spec, RotatedStaysDead
=============================================================================
