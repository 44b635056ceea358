----------------------- MODULE AccountSecurity_proofs -----------------------
(* Proofs about AccountSecurity, for every set of requests, passwords and  *)
(* factors and every bound.                                                *)
EXTENDS AccountSecurity, TLAPS

-----------------------------------------------------------------------------
(* Sequences as functions *)

LEMMA SeqElement ==
    ASSUME NEW S, NEW s \in Seq(S)
    PROVE  /\ s \in [DOMAIN s -> S]
           /\ DOMAIN s = 1..Len(s)
           /\ Len(s) \in Nat
  OBVIOUS

(* A function on the domain of a sequence is a sequence as long as that.   *)
LEMMA SeqOnDomain ==
    ASSUME NEW S, NEW T, NEW s \in Seq(S), NEW f \in [DOMAIN s -> T]
    PROVE  /\ f \in Seq(T)
           /\ Len(f) = Len(s)
           /\ DOMAIN f = DOMAIN s
  <1>1. Len(s) \in Nat /\ DOMAIN s = 1..Len(s)
    OBVIOUS
  <1>2. f \in [1..Len(s) -> T]
    BY <1>1
  <1> QED
    BY <1>1, <1>2

LEMMA SeqAppended ==
    ASSUME NEW S, NEW s \in Seq(S), NEW e \in S
    PROVE  /\ Append(s, e) \in Seq(S)
           /\ Len(Append(s, e)) = Len(s) + 1
           /\ DOMAIN Append(s, e) = DOMAIN s \cup {Len(s) + 1}
           /\ Len(s) + 1 \notin DOMAIN s
           /\ Append(s, e)[Len(s) + 1] = e
           /\ \A i \in DOMAIN s : Append(s, e)[i] = s[i]
  OBVIOUS

-----------------------------------------------------------------------------
(* Types, with the requests in flight: each stage of a request has the     *)
(* argument the stage before left it.                                      *)

Stages ==
    {"idle", "login", "upgraded", "save", "continue", "deliver", "normal",
     "enroll", "challenge", "change", "confirmFirst", "confirmMore",
     "register", "registerFirst", "registerMore", "regenerate",
     "acknowledge", "factor", "factorShown", "passkeyLogin",
     "passkeyStepUp", "stepUp", "issue"}

LoginArg == [legacy : BOOLEAN, mustChange : BOOLEAN]

Request == [at : Stages, sid : Nat, ver : 0..MaxVersion, auth : AuthStates,
            grant : Nat, pw : Passwords \cup {NoPassword}, by : Proofs,
            arg : Nat \cup StepUpActions \cup LoginArg]

ArgIn(q, challengeRows, resetRows) ==
    /\ q.at \in {"login", "upgraded"} => q.arg \in LoginArg
    /\ q.at \in {"register", "registerFirst", "registerMore",
                  "passkeyLogin", "passkeyStepUp"} =>
          q.arg \in DOMAIN challengeRows
    /\ q.at = "passkeyStepUp" =>
          (challengeRows[q.arg].st = "open" =>
              challengeRows[q.arg].purpose = "stepUp")
    /\ q.at = "deliver" => q.arg \in DOMAIN resetRows
    /\ q.at \in {"stepUp", "issue"} => q.arg \in StepUpActions

ChallengesOK ==
    \A c \in DOMAIN challenges :
        challenges[c].st = "open" /\ challenges[c].purpose = "stepUp" =>
            challenges[c].act \in StepUpActions

RequestsOK ==
    /\ req \in [Requests -> Request]
    /\ \A r \in Requests : ArgIn(req[r], challenges, resets)

TypeInv == TypeOK /\ RequestsOK /\ ChallengesOK

(* Each request stays where it was or got an argument that is good now.    *)
Moved ==
    /\ req' \in [Requests -> Request]
    /\ \A q \in Requests :
          req'[q] = req[q] \/ ArgIn(req'[q], challenges', resets')

LEMMA RequestsKept ==
    ASSUME RequestsOK, Moved,
           DOMAIN challenges \subseteq DOMAIN challenges',
           DOMAIN resets \subseteq DOMAIN resets',
           \A c \in DOMAIN challenges :
               challenges'[c].st = "open" =>
                   /\ challenges[c].st = "open"
                   /\ challenges'[c].purpose = challenges[c].purpose
    PROVE  RequestsOK'
  BY SMT DEF RequestsOK, Moved, ArgIn

QuietStep(r) ==
    \/ LoginReadsMfa(r)
    \/ \E c \in DOMAIN challenges : LoadRegistration(r, c)
    \/ ConfirmTotpReads(r) \/ RegistrationReads(r)
    \/ RegenerateReads(r) \/ AcknowledgeReads(r) \/ FactorReadsUser(r)
    \/ \E c \in DOMAIN challenges : LoadAuthentication(r, c)
    \/ CompleteMfaLogin(r)
    \/ \E act \in StepUpActions : StepUpPassword(r, act)
    \/ LoginReadsAccount(r) \/ Abandon(r)
    \/ \E s \in DOMAIN store, access \in Access : Admit(r, s, access)

LEMMA Typed ==
    ASSUME TypeInv
    PROVE  /\ user \in UserRow /\ chosen \in Passwords
           /\ mfa \in SettingsRow
           /\ method \in [Methods -> MethodRow]
           /\ codes \subseteq CodeRow
           /\ stepUps \in Seq(StepUpRow)
           /\ challenges \in Seq(ChallengeRow)
           /\ grants \in Seq(GrantRow)
           /\ resets \in Seq(ResetRow)
           /\ store \in Seq(SessionRow)
           /\ req \in [Requests -> Request]
           /\ \A r \in Requests : ArgIn(req[r], challenges, resets)
  BY DEF TypeInv, TypeOK, RequestsOK

(* The columns a request copies.                                           *)
LEMMA Columns ==
    ASSUME TypeInv
    PROVE  /\ user.pw \in Passwords
           /\ {user.legacy, user.mustChange, user.active} \subseteq BOOLEAN
           /\ user.version \in 0..MaxVersion
           /\ \A s \in DOMAIN store :
                 /\ s \in Nat
                 /\ store[s].ver \in 0..MaxVersion
                 /\ store[s].auth \in AuthStates
                 /\ store[s].grant \in Nat
                 /\ store[s].by \in Proofs
           /\ DOMAIN challenges \subseteq Nat
           /\ DOMAIN grants \subseteq Nat
  <1>1. user \in UserRow /\ store \in Seq(SessionRow)
        /\ challenges \in Seq(ChallengeRow) /\ grants \in Seq(GrantRow)
    BY Typed
  <1>2. store \in [1..Len(store) -> SessionRow] /\ Len(store) \in Nat
    BY <1>1, SeqElement
  <1> QED
    BY <1>1, <1>2, SeqElement DEF UserRow, SessionRow

(* The ways a request moves.                                               *)
LEMMA IdleIsRequest == Idle \in Request
  BY BoundsAssumption DEF Idle, Request, Stages, AuthStates, Proofs

LEMMA FinishMoves ==
    ASSUME TypeInv, NEW r \in Requests, Finish(r)
    PROVE  Moved
  BY Typed, IdleIsRequest DEF Finish, Moved, ArgIn, Idle

LEMMA StayMoves ==
    ASSUME TypeInv, UNCHANGED req
    PROVE  Moved
  BY Typed DEF Moved

FreeStages ==
    {"save", "continue", "confirmFirst", "confirmMore", "regenerate",
     "acknowledge", "factorShown", "factor"}

LEMMA GotoMoves ==
    ASSUME TypeInv, NEW r \in Requests, NEW at \in FreeStages, Goto(r, at)
    PROVE  Moved
  <1>1. req \in [Requests -> Request]
    BY Typed
  <1>2. [req[r] EXCEPT !.at = at] \in Request
    BY <1>1 DEF Request, Stages, FreeStages
  <1> QED
    BY <1>1, <1>2 DEF Goto, Moved, ArgIn, Request, FreeStages

LEMMA ReopenMoves ==
    ASSUME TypeInv, NEW r \in Requests, user' \in UserRow,
           NEW auth \in AuthStates, NEW grant \in Nat, NEW by \in Proofs,
           Reopen(r, auth, grant, by)
    PROVE  Moved
  <1>1. req \in [Requests -> Request]
    BY Typed
  <1>2. user'.version \in 0..MaxVersion
    BY DEF UserRow
  <1>3. [req[r] EXCEPT !.at = "save", !.ver = user'.version, !.auth = auth,
                       !.grant = grant, !.by = by, !.arg = 0] \in Request
    BY <1>1, <1>2 DEF Request, Stages
  <1> QED
    BY <1>1, <1>3 DEF Reopen, Moved, ArgIn, Request

LEMMA ByTyped ==
    ASSUME TypeInv, NEW r \in Requests
    PROVE  StillBy(r) \in Proofs /\ ChangeBy(r) \in Proofs
  BY Typed DEF StillBy, ChangeBy, Proofs, Request

LEMMA QuietTypes ==
    ASSUME TypeInv, NEW r \in Requests, QuietStep(r)
    PROVE  TypeInv'
  <1>1. UNCHANGED <<user, chosen, factors, oneTime, resets, store>>
    BY DEF QuietStep, LoginReadsMfa, LoadRegistration, ConfirmTotpReads,
           RegistrationReads, RegenerateReads, AcknowledgeReads,
           FactorReadsUser, LoadAuthentication, CompleteMfaLogin,
           StepUpPassword, LoginReadsAccount, Abandon, Admit
  <1>2. UNCHANGED <<challenges, resets>>
    BY <1>1 DEF oneTime
  <1>3. Moved
    <2>0. req \in [Requests -> Request]
      BY Typed
    <2>1. CASE LoginReadsMfa(r)
      <3>1. PICK auth \in AuthStates :
              req' = [req EXCEPT ![r] = [req[r] EXCEPT
                         !.at = "save", !.auth = auth, !.arg = 0]]
        BY <1>2, <2>0, <2>1 DEF LoginReadsMfa, AuthStates
      <3>2. [req[r] EXCEPT !.at = "save", !.auth = auth, !.arg = 0] \in Request
        BY <2>0 DEF Request, Stages
      <3> QED
        BY <1>2, <2>0, <3>1, <3>2 DEF ArgIn, Moved, Request
    <2>2. ASSUME NEW c \in DOMAIN challenges, LoadRegistration(r, c)
          PROVE  Moved
      <3>1. [req[r] EXCEPT !.at = "register", !.arg = c] \in Request
        BY <2>0, Columns DEF Request, Stages
      <3> QED
        BY <1>2, <2>0, <2>2, <3>1 DEF LoadRegistration, GotoWith, ArgIn, Moved, Request
    <2>3. CASE \/ ConfirmTotpReads(r) \/ RegenerateReads(r)
               \/ AcknowledgeReads(r)
      <3>1. PICK at \in {"confirmFirst", "confirmMore", "regenerate",
                         "acknowledge"} : Goto(r, at)
        BY <2>3 DEF ConfirmTotpReads, RegenerateReads, AcknowledgeReads
      <3> QED
        BY <3>1, GotoMoves DEF FreeStages
    <2>11. CASE RegistrationReads(r)
      <3>1. PICK at \in {"registerFirst", "registerMore"} :
              req' = [req EXCEPT ![r] = [req[r] EXCEPT !.at = at]]
        BY <2>0, <2>11 DEF RegistrationReads, Goto
      <3>2. [req[r] EXCEPT !.at = at] \in Request
        BY <2>0 DEF Request, Stages
      <3>3. req[r].arg \in DOMAIN challenges
        BY <2>11, Typed DEF RegistrationReads, ArgIn
      <3> QED
        BY <1>2, <2>0, <3>1, <3>2, <3>3 DEF ArgIn, Moved, Request
    <2>4. CASE FactorReadsUser(r)
      <3>1. [req[r] EXCEPT !.at = "factor", !.ver = user.version] \in Request
        BY <2>0, Columns DEF Request, Stages
      <3>2. req' = [req EXCEPT ![r] =
                       [req[r] EXCEPT !.at = "factor", !.ver = user.version]]
        BY <1>2, <2>0, <2>4 DEF FactorReadsUser
      <3> QED
        BY <1>2, <2>0, <3>1, <3>2 DEF ArgIn, Moved, Request
    <2>5. CASE \E c \in DOMAIN challenges : LoadAuthentication(r, c)
      BY <1>2, <2>0, <2>5, Columns
         DEF LoadAuthentication, GotoWith, ArgIn, Moved, Request, Stages
    <2>6. CASE CompleteMfaLogin(r)
      <3>1. PICK auth \in AuthStates :
              req' = [req EXCEPT ![r] = [req[r] EXCEPT
                         !.at = "save", !.auth = auth, !.grant = 0,
                         !.by = "factor", !.arg = 0]]
        BY <1>2, <2>0, <2>6 DEF CompleteMfaLogin, AuthStates
      <3>2. [req[r] EXCEPT !.at = "save", !.auth = auth, !.grant = 0,
                           !.by = "factor", !.arg = 0] \in Request
        <4>1. req[r] \in Request
          BY <2>0
        <4>2. \A by \in Proofs :
                [req[r] EXCEPT !.at = "save", !.auth = auth, !.grant = 0,
                               !.by = by, !.arg = 0] \in Request
          BY <4>1 DEF Request, Stages
        <4> QED
          BY <4>2 DEF Proofs
      <3> QED
        BY <1>2, <2>0, <3>1, <3>2 DEF ArgIn, Moved, Request
    <2>7. ASSUME NEW act \in StepUpActions, StepUpPassword(r, act)
          PROVE  Moved
      <3>1. [req[r] EXCEPT !.at = "stepUp", !.arg = act] \in Request
        BY <2>0 DEF Request, Stages
      <3> QED
        BY <1>2, <2>0, <2>7, <3>1 DEF StepUpPassword, GotoWith, ArgIn, Moved, Request
    <2>8. CASE LoginReadsAccount(r)
      BY <1>2, <2>0, <2>8, Columns
         DEF LoginReadsAccount, Idle, ArgIn, Moved, LoginArg, AuthStates, Request,
             Stages, Proofs
    <2>9. CASE Abandon(r)
      BY <1>2, <2>0, <2>9, BoundsAssumption
         DEF Abandon, Finish, Idle, ArgIn, Moved, AuthStates, Request, Stages,
             Proofs
    <2>10. CASE \E s \in DOMAIN store, access \in Access : Admit(r, s, access)
      BY <1>2, <2>0, <2>10, Columns DEF Admit, ArgIn, Moved, Access, Request, Stages
    <2> QED
      BY <2>1, <2>2, <2>3, <2>4, <2>5, <2>6, <2>7, <2>8, <2>9, <2>10, <2>11
         DEF QuietStep
  <1>4. TypeOK' /\ ChallengesOK'
    BY <1>1 DEF TypeInv, TypeOK, ChallengesOK, factors, oneTime
  <1>5. RequestsOK'
    BY <1>2, <1>3, RequestsKept DEF TypeInv
  <1> QED
    BY <1>4, <1>5 DEF TypeInv

-----------------------------------------------------------------------------
(* The other steps, by what they touch *)

SessionStep ==
    \/ \E r \in Requests : SaveSession(r) \/ ContinueSession(r)
    \/ \E s \in DOMAIN store : RejectSession(s) \/ Logout(s)

PasswordStep ==
    \/ \E r \in Requests :
          UpgradePasswordHash(r) \/ \E p \in Passwords : ReplacePassword(r, p)
    \/ \E p \in Passwords : IssueTemporaryPassword(p)
    \/ \E t \in DOMAIN resets, p \in Passwords : ConfirmPasswordReset(t, p)

ResetStep ==
    \E r \in Requests :
        RequestPasswordReset(r) \/ DeliverReset(r) \/ FailResetDelivery(r)

RowStep ==
    \E r \in Requests :
        \/ StartWebAuthnRegistration(r) \/ LoginPasskeyStart(r)
        \/ StepUpPasskeyStart(r)
        \/ LoginPasskeyFinish(r) \/ PasskeyCounterMoved(r)
        \/ StepUpPasskeyFinish(r) \/ IssueStepUp(r)

FactorStep ==
    \E r \in Requests :
        \/ \E m \in TotpIds : StartTotpEnrollment(r, m)
        \/ \E m \in TotpIds, n \in Steps :
              ConfirmTotpEnrollment(r, m, n) \/ LoginTotp(r, m, n)
                  \/ StepUpTotp(r, m, n)
        \/ \E m \in PasskeyIds : ConfirmWebAuthnRegistration(r, m)
        \/ RegenerateRecoveryCodes(r) \/ AcknowledgeRecoveryCodes(r)
        \/ \E c \in Unspent : ConsumeRecoveryCode(r, c)
        \/ \E m \in Methods, k \in DOMAIN stepUps : RemoveOwnMethod(r, m, k)
        \/ \E k \in DOMAIN stepUps : DisableOwnMfa(r, k)

AdminStep ==
    \/ ResetUserMfa
    \/ \E enabled \in BOOLEAN :
          SetSupportCapability(enabled) \/ SetAdminCapability(enabled)
    \/ SetAccountActive
    \/ ChangeEmailOrRole

LEMMA StepKinds ==
    ASSUME Next
    PROVE  \/ \E r \in Requests : QuietStep(r)
           \/ SessionStep \/ PasswordStep \/ ResetStep \/ RowStep
           \/ FactorStep \/ AdminStep
  BY DEF Next, RequestStep, OtherStep, QuietStep, SessionStep, PasswordStep,
         ResetStep, RowStep, FactorStep, AdminStep

(* Types are kept once the rows a step writes are typed and its request    *)
(* has moved.                                                              *)
RowsStay ==
    /\ DOMAIN challenges \subseteq DOMAIN challenges'
    /\ DOMAIN resets \subseteq DOMAIN resets'
    /\ \A c \in DOMAIN challenges :
          challenges'[c].st = "open" =>
              /\ challenges[c].st = "open"
              /\ challenges'[c].purpose = challenges[c].purpose

LEMMA TypesKept ==
    ASSUME TypeInv, TypeOK', Moved, RowsStay, ChallengesOK'
    PROVE  TypeInv'
  <1>1. RequestsOK'
    BY RequestsKept DEF TypeInv, RowsStay
  <1> QED
    BY <1>1 DEF TypeInv

LEMMA TypesKeptSameChallenges ==
    ASSUME TypeInv, TypeOK', Moved, UNCHANGED challenges,
           DOMAIN resets \subseteq DOMAIN resets'
    PROVE  TypeInv'
  BY TypesKept DEF TypeInv, RowsStay, ChallengesOK

LEMMA GoneIsSession == Gone \in SessionRow
  BY BoundsAssumption DEF Gone, SessionRow, AuthStates, Proofs

LEMMA SessionTypes ==
    ASSUME TypeInv, SessionStep
    PROVE  TypeInv'
  <1>1. store \in Seq(SessionRow) /\ store \in [DOMAIN store -> SessionRow]
    BY Typed, SeqElement
  <1>2. UNCHANGED <<user, chosen, factors, oneTime, resets>>
    BY DEF SessionStep, SaveSession, ContinueSession, RejectSession, Logout
  <1>3. store' \in Seq(SessionRow) /\ Moved
    <2>1. ASSUME NEW r \in Requests, SaveSession(r)
          PROVE  store' \in Seq(SessionRow) /\ Moved
      <3> DEFINE session == [kept |-> TRUE, ver |-> req[r].ver,
                             auth |-> req[r].auth, grant |-> req[r].grant,
                             pw |-> req[r].pw, by |-> req[r].by]
                 others == [s \in DOMAIN store |->
                               IF s = req[r].sid THEN Gone ELSE store[s]]
      <3>1. session \in SessionRow
        BY Typed DEF Request, SessionRow
      <3>2. others \in [DOMAIN store -> SessionRow]
        BY <1>1, GoneIsSession
      <3>3. others \in Seq(SessionRow)
        BY <1>1, <3>2, SeqOnDomain
      <3>4. store' = Append(others, session) /\ Finish(r)
        BY <2>1 DEF SaveSession
      <3>5. store' \in Seq(SessionRow)
        BY <3>1, <3>3, <3>4, SeqAppended
      <3> QED
        BY <3>4, <3>5, FinishMoves
    <2>2. ASSUME NEW r \in Requests, ContinueSession(r)
          PROVE  store' \in Seq(SessionRow) /\ Moved
      <3> DEFINE session == [kept |-> TRUE, ver |-> req[r].ver,
                             auth |-> req[r].auth, grant |-> req[r].grant,
                             pw |-> NoPassword, by |-> req[r].by]
      <3>1. session \in SessionRow
        BY Typed DEF Request, SessionRow
      <3>2. store' = [store EXCEPT ![req[r].sid] = session] /\ Finish(r)
        BY <2>2 DEF ContinueSession
      <3>3. store' \in [DOMAIN store -> SessionRow]
        BY <1>1, <3>1, <3>2
      <3> QED
        BY <1>1, <3>2, <3>3, SeqOnDomain, FinishMoves
    <2>3. ASSUME NEW s \in DOMAIN store, RejectSession(s) \/ Logout(s)
          PROVE  store' \in Seq(SessionRow) /\ Moved
      <3>1. store' = [store EXCEPT ![s] = Gone] /\ UNCHANGED req
        BY <2>3 DEF RejectSession, Logout
      <3>2. store' \in [DOMAIN store -> SessionRow]
        BY <1>1, <3>1, GoneIsSession
      <3> QED
        BY <1>1, <3>1, <3>2, SeqOnDomain, StayMoves
    <2> QED
      BY <2>1, <2>2, <2>3 DEF SessionStep
  <1>4. TypeOK'
    BY <1>2, <1>3 DEF TypeInv, TypeOK, factors, oneTime
  <1> QED
    BY <1>2, <1>3, <1>4, TypesKeptSameChallenges DEF oneTime

LEMMA NoSessionsTyped ==
    ASSUME TypeInv
    PROVE  NoSessions \in Seq(SessionRow)
  <1>1. NoSessions \in [DOMAIN store -> SessionRow]
    BY GoneIsSession DEF NoSessions
  <1> QED
    BY <1>1, Typed, SeqOnDomain

LEMMA ResetsTyped ==
    ASSUME TypeInv
    PROVE  /\ resets \in [DOMAIN resets -> ResetRow]
           /\ AllConsumed \in Seq(ResetRow)
           /\ AllConsumed \in [DOMAIN resets -> ResetRow]
           /\ DOMAIN AllConsumed = DOMAIN resets
           /\ Len(AllConsumed) = Len(resets)
  <1>1. resets \in [DOMAIN resets -> ResetRow]
    BY Typed, SeqElement
  <1>2. AllConsumed \in [DOMAIN resets -> ResetRow]
    BY <1>1 DEF AllConsumed, ResetRow
  <1> QED
    BY <1>1, <1>2, Typed, SeqOnDomain

LEMMA BumpedTyped ==
    ASSUME TypeInv, CanBump
    PROVE  Bumped \in UserRow /\ Bumped = [user EXCEPT !.version = @ + 1]
  <1>1. user.version + 1 \in 0..MaxVersion
    BY Columns, BoundsAssumption DEF CanBump
  <1>2. user \in UserRow
    BY Typed
  <1> QED
    BY <1>1, <1>2 DEF Bumped, UserRow

LEMMA NewPasswordTypes ==
    ASSUME TypeInv, NEW p \in Passwords, NEW mustChange \in BOOLEAN,
           NewPassword(p, mustChange)
    PROVE  /\ user' \in UserRow
           /\ user'.version = user.version + 1
           /\ user'.pw = p /\ user'.mustChange = mustChange
           /\ chosen' = p
           /\ store' = NoSessions /\ store' \in Seq(SessionRow)
  <1>1. user' = [Bumped EXCEPT !.pw = p, !.legacy = FALSE,
                               !.mustChange = mustChange]
    BY DEF NewPassword
  <1>2. Bumped \in UserRow /\ Bumped.version = user.version + 1
    BY Typed, BumpedTyped DEF NewPassword, UserRow
  <1>3. /\ user' \in UserRow /\ user'.version = user.version + 1
        /\ user'.pw = p /\ user'.mustChange = mustChange
    BY <1>1, <1>2 DEF UserRow
  <1> QED
    BY <1>3, NoSessionsTyped DEF NewPassword

LEMMA PasswordTypes ==
    ASSUME TypeInv, PasswordStep
    PROVE  TypeInv'
  <1> DEFINE Result ==
        /\ UNCHANGED <<factors, oneTime>>
        /\ user' \in UserRow /\ chosen' \in Passwords
        /\ store' \in Seq(SessionRow)
        /\ resets' \in Seq(ResetRow) /\ DOMAIN resets' = DOMAIN resets
        /\ Moved
  <1>1. Result
    <2>1. ASSUME NEW r \in Requests, UpgradePasswordHash(r)
          PROVE  Result
      <3>1. Moved
        <4>1. req' = [req EXCEPT ![r].at = "upgraded"]
              /\ req[r].at = "login"
          BY <2>1 DEF UpgradePasswordHash, Goto
        <4>2. [req[r] EXCEPT !.at = "upgraded"] \in Request
          BY Typed DEF Request, Stages
        <4>3. ArgIn([req[r] EXCEPT !.at = "upgraded"], challenges', resets')
          BY <4>1, Typed DEF ArgIn, Request
        <4> QED
          BY <4>1, <4>2, <4>3, Typed DEF Moved
      <3>2. user' \in UserRow
        BY <2>1, Typed DEF UpgradePasswordHash, UserRow, Request
      <3>3. UNCHANGED <<chosen, factors, oneTime, resets, store>>
        BY <2>1 DEF UpgradePasswordHash
      <3> QED
        BY <3>1, <3>2, <3>3, Typed
    <2>2. ASSUME NEW r \in Requests, NEW p \in Passwords, ReplacePassword(r, p)
          PROVE  Result
      <3> DEFINE next == [req[r] EXCEPT
              !.at = "save", !.ver = user'.version, !.auth = "authenticated",
              !.grant = 0, !.pw = p, !.by = ChangeBy(r), !.arg = 0]
      <3>1. /\ NewPassword(p, FALSE) /\ req' = [req EXCEPT ![r] = next]
            /\ UNCHANGED <<factors, oneTime, resets>>
        BY <2>2 DEF ReplacePassword
      <3>2. user' \in UserRow /\ chosen' = p /\ store' \in Seq(SessionRow)
        BY <3>1, NewPasswordTypes
      <3>3. Moved
        <4>1. next \in Request
          <5>1. req[r] \in Request /\ ChangeBy(r) \in Proofs
            BY Typed, ByTyped
          <5>2. user'.version \in 0..MaxVersion
            BY <3>2 DEF UserRow
          <5>3. \A auth \in AuthStates, by \in Proofs, ver \in 0..MaxVersion :
                  [req[r] EXCEPT !.at = "save", !.ver = ver, !.auth = auth,
                                 !.grant = 0, !.pw = p, !.by = by, !.arg = 0]
                    \in Request
            BY <5>1 DEF Request, Stages
          <5> QED
            BY <5>1, <5>2, <5>3 DEF AuthStates
        <4>2. ArgIn(next, challenges', resets')
          BY Typed DEF ArgIn, Request
        <4> QED
          BY <3>1, <4>1, <4>2, Typed DEF Moved
      <3> QED
        BY <3>1, <3>2, <3>3, Typed
    <2>3. ASSUME NEW p \in Passwords, IssueTemporaryPassword(p)
          PROVE  Result
      <3>1. /\ NewPassword(p, TRUE)
            /\ UNCHANGED <<factors, oneTime, resets, req>>
        BY <2>3 DEF IssueTemporaryPassword
      <3>2. user' \in UserRow /\ chosen' = p /\ store' \in Seq(SessionRow)
        BY <3>1, NewPasswordTypes
      <3> QED
        BY <3>1, <3>2, StayMoves, Typed
    <2>4. ASSUME NEW t \in DOMAIN resets, NEW p \in Passwords,
                 ConfirmPasswordReset(t, p)
          PROVE  Result
      <3>1. /\ NewPassword(p, FALSE)
            /\ resets' = [AllConsumed EXCEPT ![t].uses = @ + 1]
            /\ UNCHANGED <<factors, oneTime, req>>
        BY <2>4 DEF ConfirmPasswordReset
      <3>2. user' \in UserRow /\ chosen' = p /\ store' \in Seq(SessionRow)
        BY <3>1, NewPasswordTypes
      <3>3. resets' \in [DOMAIN resets -> ResetRow]
        <4>1. AllConsumed \in [DOMAIN resets -> ResetRow]
          BY ResetsTyped
        <4>2. [AllConsumed[t] EXCEPT !.uses = @ + 1] \in ResetRow
          BY <4>1 DEF ResetRow
        <4> QED
          BY <3>1, <4>1, <4>2
      <3>4. resets' \in Seq(ResetRow) /\ DOMAIN resets' = DOMAIN resets
        BY <3>3, Typed, SeqOnDomain
      <3> QED
        BY <3>1, <3>2, <3>4, StayMoves
    <2> HIDE DEF Result
    <2> QED
      BY <2>1, <2>2, <2>3, <2>4 DEF PasswordStep
  <1>2. TypeOK'
    BY <1>1 DEF TypeInv, TypeOK, factors, oneTime
  <1> QED
    BY <1>1, <1>2, TypesKeptSameChallenges DEF oneTime

LEMMA ResetTypes ==
    ASSUME TypeInv, ResetStep
    PROVE  TypeInv'
  <1>1. UNCHANGED <<user, chosen, factors, oneTime, store>>
    BY DEF ResetStep, RequestPasswordReset, DeliverReset, FailResetDelivery
  <1> DEFINE Result == /\ resets' \in Seq(ResetRow)
                       /\ DOMAIN resets \subseteq DOMAIN resets'
                       /\ Moved
  <1>2. Result
    <2>1. ASSUME NEW r \in Requests, RequestPasswordReset(r)
          PROVE  Result
      <3> DEFINE row == [consumed |-> FALSE, sent |-> FALSE, uses |-> 0]
                 q == [Idle EXCEPT !.at = "deliver", !.arg = Len(resets) + 1]
      <3>1. resets' = Append(AllConsumed, row) /\ req' = [req EXCEPT ![r] = q]
        BY <2>1 DEF RequestPasswordReset
      <3>2. row \in ResetRow
        BY DEF ResetRow
      <3>3. /\ resets' \in Seq(ResetRow)
            /\ DOMAIN resets' = DOMAIN resets \cup {Len(resets) + 1}
        BY <3>1, <3>2, ResetsTyped, SeqAppended
      <3>4. q \in Request /\ q.at = "deliver" /\ q.arg = Len(resets) + 1
        <4>1. Len(resets) + 1 \in Nat
          BY Typed, SeqElement
        <4> QED
          BY <4>1, IdleIsRequest DEF Request, Stages
      <3>5. ArgIn(q, challenges', resets')
        BY <3>3, <3>4 DEF ArgIn
      <3> HIDE DEF q
      <3> QED
        BY <3>1, <3>3, <3>4, <3>5, Typed DEF Moved
    <2>2. ASSUME NEW r \in Requests, DeliverReset(r) \/ FailResetDelivery(r)
          PROVE  Result
      <3>1. req[r].arg \in DOMAIN resets
        BY <2>2, Typed DEF DeliverReset, FailResetDelivery, ArgIn
      <3>2. CASE DeliverReset(r)
        <4>1. resets' = [resets EXCEPT ![req[r].arg].sent = TRUE] /\ Finish(r)
          BY <3>2 DEF DeliverReset
        <4>2. resets' \in [DOMAIN resets -> ResetRow]
          BY <3>1, <4>1, ResetsTyped DEF ResetRow
        <4> QED
          BY <4>1, <4>2, FinishMoves, Typed, SeqOnDomain
      <3>3. CASE FailResetDelivery(r)
        <4>1. /\ resets' = [resets EXCEPT ![req[r].arg].consumed = TRUE]
              /\ Finish(r)
          BY <3>3 DEF FailResetDelivery
        <4>2. resets' \in [DOMAIN resets -> ResetRow]
          BY <3>1, <4>1, ResetsTyped DEF ResetRow
        <4> QED
          BY <4>1, <4>2, FinishMoves, Typed, SeqOnDomain
      <3> QED
        BY <2>2, <3>2, <3>3
    <2> HIDE DEF Result
    <2> QED
      BY <2>1, <2>2 DEF ResetStep
  <1>3. TypeOK'
    BY <1>1, <1>2 DEF TypeInv, TypeOK, factors, oneTime
  <1> QED
    BY <1>1, <1>2, <1>3, TypesKeptSameChallenges DEF oneTime

-----------------------------------------------------------------------------
(* One-time rows *)

ChallengesTyped ==
    /\ challenges \in [DOMAIN challenges -> ChallengeRow]
    /\ Len(challenges) \in Nat
    /\ DOMAIN challenges = 1..Len(challenges)

LEMMA TypedChallenges ==
    ASSUME TypeInv
    PROVE  ChallengesTyped
  BY Typed, SeqElement DEF ChallengesTyped

ChallengesMove ==
    /\ challenges' \in Seq(ChallengeRow)
    /\ ChallengesOK'
    /\ RowsStay

LEMMA NewChallengeTypes ==
    ASSUME TypeInv, UNCHANGED resets,
           NEW purpose \in {"registration", "authentication", "stepUp"},
           NEW sid \in Nat, NEW ver \in Nat,
           NEW act \in StepUpActions \cup {"none"},
           purpose = "stepUp" => act \in StepUpActions,
           NewChallenge(purpose, sid, ver, act)
    PROVE  ChallengesMove
  <1> DEFINE row == [st |-> "open", purpose |-> purpose, sid |-> sid,
                     ver |-> ver, act |-> act, uses |-> 0]
  <1>1. challenges' = Append(challenges, row)
    BY DEF NewChallenge
  <1>2. row \in ChallengeRow
    BY DEF ChallengeRow, RowStates
  <1>3. challenges \in Seq(ChallengeRow)
    BY Typed
  <1>4. /\ challenges' \in Seq(ChallengeRow)
        /\ DOMAIN challenges' = DOMAIN challenges \cup {Len(challenges) + 1}
        /\ Len(challenges) + 1 \notin DOMAIN challenges
        /\ challenges'[Len(challenges) + 1] = row
        /\ \A i \in DOMAIN challenges : challenges'[i] = challenges[i]
    BY <1>1, <1>2, <1>3, SeqAppended
  <1>5. row.st = "open" /\ row.purpose = purpose /\ row.act = act
    OBVIOUS
  <1> HIDE DEF row
  <1>6. ChallengesOK'
    BY <1>4, <1>5 DEF TypeInv, ChallengesOK
  <1> QED
    BY <1>4, <1>6 DEF ChallengesMove, RowsStay

(* A challenge that is open stays as it is or is consumed.                 *)
LEMMA ConsumedChallengeTypes ==
    ASSUME TypeInv, UNCHANGED resets, NEW c \in DOMAIN challenges,
           NEW uses \in Nat,
           challenges' = [challenges EXCEPT ![c].st = "consumed",
                                            ![c].uses = uses]
    PROVE  ChallengesMove
  <1> DEFINE row == [challenges[c] EXCEPT !.st = "consumed", !.uses = uses]
  <1>0. challenges \in [DOMAIN challenges -> ChallengeRow]
    BY TypedChallenges DEF ChallengesTyped
  <1>1. row \in ChallengeRow /\ row.st = "consumed"
    BY <1>0 DEF ChallengeRow, RowStates
  <1>2. challenges' = [challenges EXCEPT ![c] = row]
    BY <1>0
  <1> HIDE DEF row
  <1>3. challenges' \in [DOMAIN challenges -> ChallengeRow]
    BY <1>0, <1>1, <1>2
  <1>4. /\ challenges' \in Seq(ChallengeRow)
        /\ DOMAIN challenges' = DOMAIN challenges
    BY <1>3, Typed, SeqOnDomain
  <1>5. \A i \in DOMAIN challenges :
          challenges'[i].st = "open" => challenges'[i] = challenges[i]
    BY <1>0, <1>1, <1>2
  <1>6. ChallengesOK'
    BY <1>4, <1>5 DEF TypeInv, ChallengesOK
  <1> QED
    BY <1>4, <1>5, <1>6 DEF ChallengesMove, RowsStay

(* The challenge a request loaded is still there.                          *)
LoadedStages == {"register", "registerFirst", "registerMore", "passkeyLogin",
                 "passkeyStepUp"}

LEMMA LoadedChallenge ==
    ASSUME TypeInv, NEW r \in Requests,
           req[r].at \in LoadedStages
    PROVE  /\ req[r].arg \in DOMAIN challenges
           /\ challenges[req[r].arg] \in ChallengeRow
           /\ challenges[req[r].arg].uses \in Nat
  <1>1. req[r].arg \in DOMAIN challenges
    BY Typed DEF ArgIn, LoadedStages
  <1>2. challenges[req[r].arg] \in ChallengeRow
    BY <1>1, TypedChallenges DEF ChallengesTyped
  <1> QED
    BY <1>1, <1>2 DEF ChallengeRow

LEMMA ConsumeChallengeTypes ==
    ASSUME TypeInv, UNCHANGED resets, NEW r \in Requests,
           req[r].at \in LoadedStages,
           ConsumeChallenge(req[r].arg)
    PROVE  ChallengesMove
  <1> DEFINE c == req[r].arg
  <1>1. c \in DOMAIN challenges /\ challenges[c].uses + 1 \in Nat
    BY LoadedChallenge
  <1>2. challenges \in [DOMAIN challenges -> ChallengeRow]
    BY TypedChallenges DEF ChallengesTyped
  <1>3. challenges' = [challenges EXCEPT ![c].st = "consumed",
                                         ![c].uses = challenges[c].uses + 1]
    BY <1>1, <1>2 DEF ConsumeChallenge, ChallengeRow
  <1> HIDE DEF c
  <1> QED
    BY <1>1, <1>3, ConsumedChallengeTypes

LEMMA RowTypes ==
    ASSUME TypeInv, RowStep
    PROVE  TypeInv'
  <1>1. UNCHANGED <<user, chosen, factors, grants, resets, store>>
    BY DEF RowStep, StartWebAuthnRegistration, LoginPasskeyStart,
           StepUpPasskeyStart, LoginPasskeyFinish, PasskeyCounterMoved,
           StepUpPasskeyFinish, IssueStepUp
  <1> DEFINE Result ==
        /\ stepUps' \in Seq(StepUpRow)
        /\ ChallengesMove
        /\ Moved
  <1>2. Result
    <2>0. PICK r \in Requests :
            \/ StartWebAuthnRegistration(r) \/ LoginPasskeyStart(r)
            \/ StepUpPasskeyStart(r)
            \/ LoginPasskeyFinish(r) \/ PasskeyCounterMoved(r)
            \/ StepUpPasskeyFinish(r) \/ IssueStepUp(r)
      BY DEF RowStep
    <2>1. CASE StartWebAuthnRegistration(r) \/ LoginPasskeyStart(r)
      <3>1. PICK purpose \in {"registration", "authentication"} :
              NewChallenge(purpose, 0, 0, "none")
        BY <2>1 DEF StartWebAuthnRegistration, LoginPasskeyStart
      <3>2. Finish(r) /\ UNCHANGED stepUps
        BY <2>1 DEF StartWebAuthnRegistration, LoginPasskeyStart
      <3> QED
        BY <1>1, <3>1, <3>2, NewChallengeTypes, FinishMoves, Typed
    <2>2. CASE StepUpPasskeyStart(r)
      <3>1. /\ NewChallenge("stepUp", req[r].sid, req[r].ver, req[r].arg)
            /\ Finish(r) /\ UNCHANGED stepUps
            /\ req[r].at = "stepUp"
        BY <2>2 DEF StepUpPasskeyStart
      <3>2. req[r] \in Request /\ req[r].arg \in StepUpActions
        BY <3>1, Typed DEF ArgIn
      <3>3. req[r].sid \in Nat /\ req[r].ver \in Nat
        BY <3>2, BoundsAssumption DEF Request
      <3> QED
        BY <1>1, <3>1, <3>2, <3>3, NewChallengeTypes, FinishMoves, Typed
    <2>3. CASE LoginPasskeyFinish(r)
      BY <1>1, <2>3, ConsumeChallengeTypes, GotoMoves, Typed
         DEF LoginPasskeyFinish, FreeStages, LoadedStages
    <2>4. CASE PasskeyCounterMoved(r)
      <3> DEFINE c == req[r].arg
      <3>1. /\ req[r].at \in {"passkeyLogin", "passkeyStepUp"}
            /\ challenges' = [challenges EXCEPT ![c].st = "consumed"]
            /\ Finish(r) /\ UNCHANGED stepUps
        BY <2>4 DEF PasskeyCounterMoved
      <3>2. /\ challenges \in [DOMAIN challenges -> ChallengeRow]
            /\ c \in DOMAIN challenges /\ challenges[c].uses \in Nat
        BY <3>1, LoadedChallenge, TypedChallenges
           DEF ChallengesTyped, LoadedStages
      <3>3. challenges' = [challenges EXCEPT
                ![c].st = "consumed", ![c].uses = challenges[c].uses]
        BY <3>1, <3>2 DEF ChallengeRow
      <3> HIDE DEF c
      <3>4. ChallengesMove
        BY <1>1, <3>2, <3>3, ConsumedChallengeTypes
      <3> QED
        BY <3>1, <3>4, FinishMoves, Typed
    <2>5. CASE StepUpPasskeyFinish(r)
      <3> DEFINE c == req[r].arg
                 act == challenges[c].act
      <3>1. /\ req[r].at = "passkeyStepUp"
            /\ ConsumeChallenge(c)
            /\ req' = [req EXCEPT ![r].at = "issue", ![r].arg = act]
            /\ UNCHANGED stepUps
        BY <2>5 DEF StepUpPasskeyFinish, GotoWith
      <3>2. ChallengesMove
        BY <1>1, <3>1, ConsumeChallengeTypes DEF LoadedStages
      <3>3. act \in StepUpActions
        BY <3>1, Typed DEF ConsumeChallenge, ArgIn, TypeInv, ChallengesOK
      <3> HIDE DEF act
      <3>0. req[r] \in Request
        BY Typed
      <3>4. [req[r] EXCEPT !.at = "issue", !.arg = act] \in Request
        BY <3>0, <3>3 DEF Request, Stages
      <3>5. ArgIn([req[r] EXCEPT !.at = "issue", !.arg = act],
                  challenges', resets')
        BY <3>3, Typed DEF ArgIn, Request
      <3>6. req' = [req EXCEPT
                        ![r] = [req[r] EXCEPT !.at = "issue", !.arg = act]]
        BY <3>1, Typed
      <3>7. Moved
        BY <3>4, <3>5, <3>6, Typed DEF Moved
      <3> QED
        BY <3>1, <3>2, <3>7, Typed
    <2>6. CASE IssueStepUp(r)
      <3> DEFINE row == [sid |-> req[r].sid, ver |-> req[r].ver,
                         act |-> req[r].arg, st |-> "open", uses |-> 0]
      <3>1. /\ stepUps' = Append(stepUps, row)
            /\ Finish(r) /\ UNCHANGED challenges
            /\ req[r].at = "issue"
        BY <2>6 DEF IssueStepUp
      <3>2. req[r] \in Request /\ req[r].arg \in StepUpActions
        BY <3>1, Typed DEF ArgIn
      <3>3. row \in StepUpRow
        BY <3>2, BoundsAssumption DEF Request, StepUpRow, RowStates
      <3>4. stepUps' \in Seq(StepUpRow)
        BY <3>1, <3>3, Typed, SeqAppended
      <3>5. ChallengesMove
        BY <1>1, <3>1, Typed
           DEF ChallengesMove, RowsStay, TypeInv, ChallengesOK
      <3> QED
        BY <3>1, <3>4, <3>5, FinishMoves
    <2> HIDE DEF Result
    <2> QED
      BY <2>0, <2>1, <2>2, <2>3, <2>4, <2>5, <2>6
  <1>3. TypeOK'
    BY <1>1, <1>2 DEF TypeInv, TypeOK, factors, ChallengesMove
  <1> QED
    BY <1>2, <1>3, TypesKept DEF ChallengesMove

-----------------------------------------------------------------------------
(* Factors *)

VersionMoves ==
    /\ user' = Bumped /\ user' \in UserRow
    /\ user'.version = user.version + 1
    /\ store' = NoSessions /\ store' \in Seq(SessionRow)

LEMMA IncrementTypes ==
    ASSUME TypeInv, incrementSessionVersion
    PROVE  VersionMoves
  <1>1. user' = Bumped /\ user' \in UserRow /\ store' = NoSessions
    BY BumpedTyped DEF incrementSessionVersion
  <1>2. user'.version = user.version + 1
    BY <1>1, Typed DEF Bumped, UserRow
  <1> QED
    BY <1>1, <1>2, NoSessionsTyped DEF VersionMoves

LEMMA NewCodesTyped == NewCodes \subseteq CodeRow
  <1>1. ASSUME NEW i \in 1..CodesPerSet
        PROVE  [i |-> i, consumed |-> FALSE] \in CodeRow
    BY <1>1 DEF CodeRow
  <1> QED
    BY <1>1 DEF NewCodes

LEMMA NoMethodsTyped ==
    ASSUME TypeInv
    PROVE  NoMethods \in [Methods -> MethodRow]
  <1>1. method \in [Methods -> MethodRow]
    BY Typed
  <1> QED
    BY <1>1 DEF NoMethods, MethodRow

LEMMA RowsDeleted ==
    ASSUME TypeInv
    PROVE  /\ NoStepUps \in Seq(StepUpRow)
           /\ NoGrants \in Seq(GrantRow)
           /\ NoChallenges \in Seq(ChallengeRow)
           /\ DOMAIN NoChallenges = DOMAIN challenges
  <1>1. NoStepUps \in [DOMAIN stepUps -> StepUpRow]
    <2>1. stepUps \in [DOMAIN stepUps -> StepUpRow]
      BY Typed, SeqElement
    <2> QED
      BY <2>1 DEF NoStepUps, NoStepUp, StepUpRow, RowStates, StepUpActions
  <1>2. NoGrants \in [DOMAIN grants -> GrantRow]
    BY DEF NoGrants, GrantRow, RowStates
  <1>3. NoChallenges \in [DOMAIN challenges -> ChallengeRow]
    <2>1. challenges \in [DOMAIN challenges -> ChallengeRow]
      BY Typed, SeqElement
    <2> QED
      BY <2>1 DEF NoChallenges, ChallengeRow, RowStates
  <1> QED
    BY <1>1, <1>2, <1>3, Typed, SeqOnDomain

LEMMA ChallengesDeleted ==
    ASSUME TypeInv, challenges' = NoChallenges, UNCHANGED resets
    PROVE  ChallengesMove
  <1>1. \A c \in DOMAIN challenges : challenges'[c].st = "deleted"
    BY DEF NoChallenges
  <1> QED
    BY <1>1, RowsDeleted DEF ChallengesMove, ChallengesOK, RowsStay

LEMMA ChallengesStay ==
    ASSUME TypeInv, UNCHANGED <<challenges, resets>>
    PROVE  ChallengesMove
  BY Typed DEF ChallengesMove, RowsStay, TypeInv, ChallengesOK

FactorRowsTyped ==
    /\ mfa' \in SettingsRow
    /\ method' \in [Methods -> MethodRow]
    /\ codes' \subseteq CodeRow
    /\ stepUps' \in Seq(StepUpRow)
    /\ grants' \in Seq(GrantRow)
    /\ ChallengesMove

LEMMA FactorTypesKept ==
    ASSUME TypeInv, FactorRowsTyped, Moved, user' \in UserRow,
           store' \in Seq(SessionRow), UNCHANGED <<chosen, resets>>
    PROVE  TypeInv'
  <1>1. TypeOK'
    BY DEF TypeInv, TypeOK, FactorRowsTyped, ChallengesMove
  <1> QED
    BY <1>1, TypesKept DEF FactorRowsTyped, ChallengesMove

LEMMA AdminTypes ==
    ASSUME TypeInv, AdminStep
    PROVE  TypeInv'
  <1>1. CASE ResetUserMfa
    <2>1. /\ incrementSessionVersion /\ UNCHANGED <<chosen, resets, req>>
          /\ method' = NoMethods /\ codes' = {} /\ challenges' = NoChallenges
          /\ grants' = NoGrants /\ stepUps' = NoStepUps
      BY <1>1 DEF ResetUserMfa
    <2>2. mfa' \in SettingsRow
      BY <1>1 DEF ResetUserMfa, SettingsRow
    <2>3. FactorRowsTyped
      BY <2>1, <2>2, RowsDeleted, ChallengesDeleted, NoMethodsTyped
         DEF FactorRowsTyped
    <2> QED
      BY <2>1, <2>3, IncrementTypes, StayMoves, FactorTypesKept
         DEF VersionMoves
  <1>2. ASSUME NEW enabled \in BOOLEAN,
               SetSupportCapability(enabled) \/ SetAdminCapability(enabled)
        PROVE  TypeInv'
    <2>1. /\ incrementSessionVersion
          /\ UNCHANGED <<chosen, method, codes, oneTime, resets, req>>
      BY <1>2 DEF SetSupportCapability, SetAdminCapability
    <2>2. mfa' \in SettingsRow
      <3>1. mfa \in SettingsRow
        BY Typed
      <3> QED
        BY <1>2, <3>1, SettingAssumption
           DEF SetSupportCapability, SetAdminCapability, SettingsRow
    <2>3. FactorRowsTyped
      BY <2>1, <2>2, ChallengesStay, Typed DEF FactorRowsTyped, oneTime
    <2> QED
      BY <2>1, <2>3, IncrementTypes, StayMoves, FactorTypesKept
         DEF VersionMoves
  <1>3. CASE SetAccountActive \/ ChangeEmailOrRole
    <2>1. UNCHANGED <<chosen, factors, oneTime, resets, store, req>> /\ CanBump
      BY <1>3 DEF SetAccountActive, ChangeEmailOrRole
    <2>2. user' \in UserRow
      BY <1>3, BumpedTyped
         DEF SetAccountActive, ChangeEmailOrRole, UserRow
    <2>3. FactorRowsTyped
      BY <2>1, ChallengesStay, Typed DEF FactorRowsTyped, oneTime, factors
    <2> QED
      BY <2>1, <2>2, <2>3, StayMoves, FactorTypesKept, Typed
  <1> QED
    BY <1>1, <1>2, <1>3 DEF AdminStep

LEMMA AddMethodTypes ==
    ASSUME TypeInv, NEW r \in Requests, NEW m \in Methods,
           NEW step \in 0..MaxTimeStep, NEW first \in BOOLEAN,
           AddMethod(r, m, step, first)
    PROVE  /\ mfa' \in SettingsRow /\ method' \in [Methods -> MethodRow]
           /\ codes' \subseteq CodeRow /\ VersionMoves /\ Moved
  <1>1. method' \in [Methods -> MethodRow]
    <2>1. [st |-> "active", step |-> step] \in MethodRow
      BY DEF MethodRow
    <2> QED
      BY <2>1, Typed DEF AddMethod
  <1>2. codes' \subseteq CodeRow
    BY Typed, NewCodesTyped DEF AddMethod
  <1>3. mfa' \in SettingsRow
    <2>1. mfa \in SettingsRow
      BY Typed
    <2> QED
      BY <2>1 DEF AddMethod, SettingsRow
  <1>4. VersionMoves
    BY IncrementTypes DEF AddMethod
  <1>5. Moved
    <2>1. PICK auth \in AuthStates :
            Reopen(r, auth, req[r].grant, "factor")
      BY DEF AddMethod, AuthStates
    <2>2. req[r].grant \in Nat
      BY Typed DEF Request
    <2> QED
      BY <1>4, <2>1, <2>2, ReopenMoves DEF VersionMoves, Proofs
  <1> QED
    BY <1>1, <1>2, <1>3, <1>4, <1>5

LEMMA ConsumedTyped ==
    ASSUME TypeInv, NEW k \in DOMAIN stepUps
    PROVE  /\ Consumed(k) \in Seq(StepUpRow)
           /\ DOMAIN Consumed(k) = DOMAIN stepUps
           /\ Consumed(k)[k] \in StepUpRow
  <1>1. stepUps \in Seq(StepUpRow) /\ stepUps[k] \in StepUpRow
    BY Typed, SeqElement
  <1> DEFINE row == [stepUps[k] EXCEPT !.st = "consumed", !.uses = @ + 1]
  <1>2. row \in StepUpRow
    <2>1. stepUps[k].uses + 1 \in Nat
      BY <1>1 DEF StepUpRow
    <2>2. \A uses \in Nat :
            [stepUps[k] EXCEPT !.st = "consumed", !.uses = uses] \in StepUpRow
      BY <1>1 DEF StepUpRow, RowStates
    <2>3. row = [stepUps[k] EXCEPT !.st = "consumed",
                                   !.uses = stepUps[k].uses + 1]
      OBVIOUS
    <2> QED
      BY <2>1, <2>2, <2>3
  <1>3. Consumed(k) = [stepUps EXCEPT ![k] = row]
    BY <1>1 DEF Consumed
  <1> HIDE DEF row
  <1>4. Consumed(k) \in [DOMAIN stepUps -> StepUpRow]
    BY <1>1, <1>2, <1>3, SeqElement
  <1> QED
    BY <1>1, <1>4, SeqOnDomain

LEMMA AcceptTotpTypes ==
    ASSUME TypeInv, NEW m \in TotpIds, NEW n \in Steps, AcceptTotp(m, n)
    PROVE  method' \in [Methods -> MethodRow]
  <1>1. method \in [Methods -> MethodRow] /\ m \in Methods
    BY Typed DEF Methods
  <1>2. [method[m] EXCEPT !.step = n] \in MethodRow
    BY <1>1, BoundsAssumption DEF MethodRow, Steps
  <1> QED
    BY <1>1, <1>2 DEF AcceptTotp

LEMMA FactorTypes ==
    ASSUME TypeInv, FactorStep
    PROVE  TypeInv'
  <1>0. PICK r \in Requests :
          \/ \E m \in TotpIds : StartTotpEnrollment(r, m)
          \/ \E m \in TotpIds, n \in Steps :
                ConfirmTotpEnrollment(r, m, n) \/ LoginTotp(r, m, n)
                    \/ StepUpTotp(r, m, n)
          \/ \E m \in PasskeyIds : ConfirmWebAuthnRegistration(r, m)
          \/ RegenerateRecoveryCodes(r) \/ AcknowledgeRecoveryCodes(r)
          \/ \E c \in Unspent : ConsumeRecoveryCode(r, c)
          \/ \E m \in Methods, k \in DOMAIN stepUps : RemoveOwnMethod(r, m, k)
          \/ \E k \in DOMAIN stepUps : DisableOwnMfa(r, k)
    BY DEF FactorStep
  <1>1. ASSUME NEW m \in TotpIds, StartTotpEnrollment(r, m)
        PROVE  TypeInv'
    <2>1. /\ Finish(r)
          /\ UNCHANGED <<user, chosen, mfa, codes, oneTime, resets, store>>
      BY <1>1 DEF StartTotpEnrollment
    <2>2. method' \in [Methods -> MethodRow]
      <3>1. method \in [Methods -> MethodRow]
        BY Typed
      <3>2. \A n \in Methods, st \in {"pending", "gone"} :
              [method[n] EXCEPT !.st = st] \in MethodRow
        BY <3>1 DEF MethodRow
      <3> QED
        BY <1>1, <3>1, <3>2 DEF StartTotpEnrollment
    <2>3. FactorRowsTyped
      BY <2>1, <2>2, ChallengesStay, Typed DEF FactorRowsTyped, oneTime
    <2> QED
      BY <2>1, <2>3, FinishMoves, FactorTypesKept, Typed
  <1>2. ASSUME NEW m \in TotpIds, NEW n \in Steps,
               ConfirmTotpEnrollment(r, m, n)
        PROVE  TypeInv'
    <2>1. /\ AddMethod(r, m, n, req[r].at = "confirmFirst")
          /\ UNCHANGED <<chosen, oneTime, resets>>
          /\ m \in Methods /\ n \in 0..MaxTimeStep
      BY <1>2, BoundsAssumption DEF ConfirmTotpEnrollment, Methods, Steps
    <2>2. FactorRowsTyped
      BY <2>1, AddMethodTypes, ChallengesStay, Typed
         DEF FactorRowsTyped, oneTime
    <2> QED
      BY <2>1, <2>2, AddMethodTypes, FactorTypesKept DEF VersionMoves
  <1>3. ASSUME NEW m \in PasskeyIds, ConfirmWebAuthnRegistration(r, m)
        PROVE  TypeInv'
    <2>1. /\ AddMethod(r, m, 0, req[r].at = "registerFirst")
          /\ UNCHANGED <<chosen, stepUps, grants, resets>>
          /\ m \in Methods /\ 0 \in 0..MaxTimeStep
          /\ req[r].at \in LoadedStages /\ ConsumeChallenge(req[r].arg)
      BY <1>3, BoundsAssumption
         DEF ConfirmWebAuthnRegistration, Methods, LoadedStages
    <2>2. ChallengesMove
      BY <2>1, LoadedChallenge, ConsumeChallengeTypes
    <2>3. FactorRowsTyped
      BY <2>1, <2>2, AddMethodTypes, Typed DEF FactorRowsTyped
    <2> QED
      BY <2>1, <2>3, AddMethodTypes, FactorTypesKept DEF VersionMoves
  <1>4. ASSUME NEW m \in TotpIds, NEW n \in Steps,
               LoginTotp(r, m, n) \/ StepUpTotp(r, m, n)
        PROVE  TypeInv'
    <2>1. /\ AcceptTotp(m, n)
          /\ UNCHANGED <<user, chosen, mfa, codes, oneTime, resets, store>>
      BY <1>4 DEF LoginTotp, StepUpTotp
    <2>2. FactorRowsTyped
      BY <2>1, AcceptTotpTypes, ChallengesStay, Typed
         DEF FactorRowsTyped, oneTime
    <2>3. Moved
      <3>1. CASE LoginTotp(r, m, n)
        BY <3>1, GotoMoves DEF LoginTotp, FreeStages
      <3>2. CASE StepUpTotp(r, m, n)
        <4>1. req \in [Requests -> Request] /\ req[r].arg \in StepUpActions
          BY <3>2, Typed DEF StepUpTotp, ArgIn
        <4>2. [req[r] EXCEPT !.at = "issue"] \in Request
          BY <4>1 DEF Request, Stages
        <4> QED
          BY <3>2, <4>1, <4>2 DEF StepUpTotp, Goto, Moved, ArgIn, Request
      <3> QED
        BY <1>4, <3>1, <3>2
    <2> QED
      BY <2>1, <2>2, <2>3, FactorTypesKept, Typed
  <1>5. CASE RegenerateRecoveryCodes(r)
    <2>1. /\ codes' = NewCodes /\ incrementSessionVersion
          /\ Reopen(r, "enrollment", req[r].grant, StillBy(r))
          /\ UNCHANGED <<chosen, method, oneTime, resets>>
      BY <1>5 DEF RegenerateRecoveryCodes
    <2>2. mfa' \in SettingsRow
      <3>1. mfa \in SettingsRow
        BY Typed
      <3> QED
        BY <1>5, <3>1 DEF RegenerateRecoveryCodes, SettingsRow
    <2>3. FactorRowsTyped
      BY <2>1, <2>2, NewCodesTyped, ChallengesStay, Typed
         DEF FactorRowsTyped, oneTime
    <2>4. req[r].grant \in Nat
      BY Typed DEF Request
    <2>5. Moved
      BY <2>1, <2>4, IncrementTypes, ReopenMoves, ByTyped
         DEF VersionMoves, AuthStates
    <2> QED
      BY <2>1, <2>3, <2>5, IncrementTypes, FactorTypesKept DEF VersionMoves
  <1>6. CASE AcknowledgeRecoveryCodes(r)
    <2>1. /\ incrementSessionVersion
          /\ Reopen(r, "authenticated", 0, StillBy(r))
          /\ UNCHANGED <<chosen, method, codes, stepUps, challenges, resets>>
      BY <1>6 DEF AcknowledgeRecoveryCodes
    <2>2. mfa' \in SettingsRow
      <3>1. mfa \in SettingsRow
        BY Typed
      <3> QED
        BY <1>6, <3>1 DEF AcknowledgeRecoveryCodes, SettingsRow
    <2>3. grants' \in Seq(GrantRow)
      <3>1. grants \in Seq(GrantRow) /\ grants \in [DOMAIN grants -> GrantRow]
        BY Typed, SeqElement
      <3>2. \A g \in DOMAIN grants :
              [grants[g] EXCEPT !.st = "consumed"] \in GrantRow
        BY <3>1 DEF GrantRow, RowStates
      <3>3. grants' \in [DOMAIN grants -> GrantRow]
        BY <1>6, <3>1, <3>2 DEF AcknowledgeRecoveryCodes
      <3> QED
        BY <3>1, <3>3, SeqOnDomain
    <2>4. FactorRowsTyped
      BY <2>1, <2>2, <2>3, ChallengesStay, Typed DEF FactorRowsTyped
    <2>5. Moved
      BY <2>1, IncrementTypes, ReopenMoves, ByTyped
         DEF VersionMoves, AuthStates
    <2> QED
      BY <2>1, <2>4, <2>5, IncrementTypes, FactorTypesKept DEF VersionMoves
  <1>7. ASSUME NEW c \in Unspent, ConsumeRecoveryCode(r, c)
        PROVE  TypeInv'
    <2>1. /\ incrementSessionVersion /\ method' = NoMethods
          /\ codes' = (codes \ {c}) \cup {[c EXCEPT !.consumed = TRUE]}
          /\ grants' = Append(grants, [sid |-> req[r].sid, st |-> "open"])
          /\ UNCHANGED <<chosen, stepUps, challenges, resets>>
          /\ req' = [req EXCEPT ![r] = [req[r] EXCEPT
                !.at = "continue", !.ver = user'.version, !.auth = "recovery",
                !.grant = Len(grants) + 1, !.by = "factor"]]
      BY <1>7, Typed DEF ConsumeRecoveryCode
    <2>2. mfa' \in SettingsRow
      <3>1. mfa \in SettingsRow
        BY Typed
      <3> QED
        BY <1>7, <3>1 DEF ConsumeRecoveryCode, SettingsRow
    <2>3. codes' \subseteq CodeRow
      <3>1. [c EXCEPT !.consumed = TRUE] \in CodeRow
        BY Typed DEF Unspent, CodeRow
      <3> QED
        BY <2>1, <3>1, Typed
    <2>4. grants' \in Seq(GrantRow)
      <3>1. req[r].sid \in Nat
        BY Typed DEF Request
      <3>2. [sid |-> req[r].sid, st |-> "open"] \in GrantRow
        BY <3>1 DEF GrantRow, RowStates
      <3> QED
        BY <2>1, <3>2, Typed, SeqAppended
    <2>5. FactorRowsTyped
      BY <2>1, <2>2, <2>3, <2>4, NoMethodsTyped, ChallengesStay, Typed
         DEF FactorRowsTyped
    <2>6. Moved
      <3>1. req \in [Requests -> Request] /\ Len(grants) + 1 \in Nat
        BY Typed, SeqElement
      <3>2. user'.version \in 0..MaxVersion
        BY <2>1, IncrementTypes DEF VersionMoves, UserRow
      <3>3. [req[r] EXCEPT
               !.at = "continue", !.ver = user'.version, !.auth = "recovery",
               !.grant = Len(grants) + 1, !.by = "factor"] \in Request
        BY <3>1, <3>2 DEF Request, Stages, AuthStates, Proofs
      <3> QED
        BY <2>1, <3>1, <3>3 DEF Moved, ArgIn, Request
    <2> QED
      BY <2>1, <2>5, <2>6, IncrementTypes, FactorTypesKept DEF VersionMoves
  <1>8. ASSUME NEW m \in Methods, NEW k \in DOMAIN stepUps,
               RemoveOwnMethod(r, m, k)
        PROVE  TypeInv'
    <2>1. /\ incrementSessionVersion
          /\ Reopen(r, "authenticated", 0, StillBy(r))
          /\ UNCHANGED <<chosen, mfa, codes, challenges, grants, resets>>
          /\ stepUps' = Consumed(k)
          /\ method' = [method EXCEPT ![m].st = "gone"]
      BY <1>8 DEF RemoveOwnMethod
    <2>2. method' \in [Methods -> MethodRow]
      <3>1. method \in [Methods -> MethodRow]
        BY Typed
      <3>2. [method[m] EXCEPT !.st = "gone"] \in MethodRow
        BY <3>1 DEF MethodRow
      <3> QED
        BY <2>1, <3>1, <3>2
    <2>3. FactorRowsTyped
      BY <2>1, <2>2, ConsumedTyped, ChallengesStay, Typed DEF FactorRowsTyped
    <2>4. Moved
      BY <2>1, IncrementTypes, ReopenMoves, ByTyped
         DEF VersionMoves, AuthStates
    <2> QED
      BY <2>1, <2>3, <2>4, IncrementTypes, FactorTypesKept DEF VersionMoves
  <1>9. ASSUME NEW k \in DOMAIN stepUps, DisableOwnMfa(r, k)
        PROVE  TypeInv'
    <2>1. /\ incrementSessionVersion
          /\ Reopen(r, "authenticated", 0, StillBy(r))
          /\ UNCHANGED <<chosen, resets>>
          /\ challenges' = NoChallenges /\ grants' = NoGrants
          /\ method' = NoMethods /\ codes' = {}
      BY <1>9 DEF DisableOwnMfa
    <2>2. mfa' \in SettingsRow
      BY <1>9 DEF DisableOwnMfa, SettingsRow
    <2>3. stepUps' \in Seq(StepUpRow)
      <3>1. stepUps \in Seq(StepUpRow) /\ stepUps \in [DOMAIN stepUps -> StepUpRow]
        BY Typed, SeqElement
      <3>2. \A l \in DOMAIN stepUps : NoStepUp(stepUps[l]) \in StepUpRow
        BY <3>1 DEF NoStepUp, StepUpRow, RowStates, StepUpActions
      <3>3. Consumed(k)[k] \in StepUpRow
        BY ConsumedTyped
      <3>4. stepUps' \in [DOMAIN stepUps -> StepUpRow]
        BY <1>9, <3>1, <3>2, <3>3 DEF DisableOwnMfa
      <3> QED
        BY <3>1, <3>4, SeqOnDomain
    <2>4. FactorRowsTyped
      BY <2>1, <2>2, <2>3, RowsDeleted, ChallengesDeleted, NoMethodsTyped
         DEF FactorRowsTyped
    <2>5. Moved
      BY <2>1, IncrementTypes, ReopenMoves, ByTyped
         DEF VersionMoves, AuthStates
    <2> QED
      BY <2>1, <2>4, <2>5, IncrementTypes, FactorTypesKept DEF VersionMoves
  <1> QED
    BY <1>0, <1>1, <1>2, <1>3, <1>4, <1>5, <1>6, <1>7, <1>8, <1>9

LEMMA TypesInductive ==
    ASSUME TypeInv, [Next]_vars
    PROVE  TypeInv'
  <1>1. CASE UNCHANGED vars
    BY <1>1
       DEF vars, factors, oneTime, TypeInv, TypeOK, RequestsOK, ChallengesOK
  <1>2. CASE Next
    BY <1>2, StepKinds, QuietTypes, SessionTypes, PasswordTypes, ResetTypes,
       RowTypes, FactorTypes, AdminTypes
  <1> QED
    BY <1>1, <1>2

LEMMA TypesInitially ==
    ASSUME Init
    PROVE  TypeInv
  <1>1. user \in UserRow /\ chosen \in Passwords
    BY BoundsAssumption DEF Init, UserRow
  <1>2. method \in [Methods -> MethodRow]
    BY BoundsAssumption DEF Init, NoMethod, MethodRow
  <1>3. codes \subseteq CodeRow /\ mfa \in SettingsRow
    BY NewCodesTyped DEF Init, SettingsRow
  <1>4. /\ stepUps \in Seq(StepUpRow) /\ challenges \in Seq(ChallengeRow)
        /\ grants \in Seq(GrantRow) /\ resets \in Seq(ResetRow)
        /\ store \in Seq(SessionRow)
    BY DEF Init
  <1>5. TypeOK
    BY <1>1, <1>2, <1>3, <1>4 DEF TypeOK
  <1>6. RequestsOK
    BY IdleIsRequest DEF Init, RequestsOK, ArgIn, Idle
  <1>7. ChallengesOK
    BY DEF Init, ChallengesOK
  <1> QED
    BY <1>5, <1>6, <1>7 DEF TypeInv

LEMMA Typing == Spec => []TypeInv
  <1> QED
    BY TypesInitially, TypesInductive, PTL DEF Spec

(* Every row of the account's tables keeps the columns the code gives it.  *)
THEOREM TypeCorrect == Spec => []TypeOK
  <1>1. TypeInv => TypeOK
    BY DEF TypeInv
  <1> QED
    BY <1>1, Typing, PTL

-----------------------------------------------------------------------------
(* The password *)

LEMMA PasswordKept ==
    ASSUME TypeInv, LastChosenPasswordStands, [Next]_vars
    PROVE  LastChosenPasswordStands'
  <1> USE DEF LastChosenPasswordStands
  <1>1. user \in UserRow
    BY Typed
  <1>2. CASE UNCHANGED <<user, chosen>>
    BY <1>2
  <1>3. ASSUME NEW r \in Requests, UpgradePasswordHash(r)
        PROVE  user'.pw = chosen'
    BY <1>1, <1>3 DEF UpgradePasswordHash, UserRow
  <1>4. ASSUME NEW p \in Passwords, NEW mustChange \in BOOLEAN,
               NewPassword(p, mustChange)
        PROVE  user'.pw = chosen'
    BY <1>1, <1>4 DEF NewPassword, Bumped, UserRow
  <1>5. CASE user' = Bumped /\ UNCHANGED chosen
    BY <1>1, <1>5 DEF Bumped, UserRow
  <1>6. CASE SetAccountActive
    BY <1>1, <1>6 DEF SetAccountActive, Bumped, UserRow
  <1>7. CASE PasswordStep
    BY <1>3, <1>4, <1>7
       DEF PasswordStep, ReplacePassword, IssueTemporaryPassword,
           ConfirmPasswordReset
  <1>8. CASE SessionStep \/ ResetStep \/ RowStep
             \/ \E r \in Requests : QuietStep(r)
    BY <1>2, <1>8
       DEF SessionStep, SaveSession, ContinueSession, RejectSession, Logout,
           ResetStep, RequestPasswordReset, DeliverReset, FailResetDelivery,
           RowStep, StartWebAuthnRegistration, LoginPasskeyStart,
           StepUpPasskeyStart, LoginPasskeyFinish, PasskeyCounterMoved,
           StepUpPasskeyFinish, IssueStepUp, QuietStep, LoginReadsMfa,
           LoadRegistration, ConfirmTotpReads, RegistrationReads,
           RegenerateReads, AcknowledgeReads, FactorReadsUser,
           LoadAuthentication, CompleteMfaLogin, StepUpPassword,
           LoginReadsAccount, Abandon, Admit
  <1>9. CASE FactorStep
    BY <1>2, <1>5, <1>9
       DEF FactorStep, StartTotpEnrollment, ConfirmTotpEnrollment, LoginTotp,
           StepUpTotp, ConfirmWebAuthnRegistration, AddMethod,
           RegenerateRecoveryCodes, AcknowledgeRecoveryCodes,
           ConsumeRecoveryCode, RemoveOwnMethod, DisableOwnMfa,
           incrementSessionVersion
  <1>10. CASE AdminStep
    BY <1>5, <1>6, <1>10
       DEF AdminStep, ResetUserMfa, SetSupportCapability, SetAdminCapability,
           ChangeEmailOrRole, incrementSessionVersion
  <1> QED
    BY <1>2, <1>7, <1>8, <1>9, <1>10, StepKinds DEF vars

(* No slow login brings an older password back over a newer one.           *)
THEOREM PasswordStands == Spec => []LastChosenPasswordStands
  <1>1. Init => LastChosenPasswordStands
    BY DEF Init, LastChosenPasswordStands
  <1> QED
    BY <1>1, PasswordKept, Typing, PTL DEF Spec

-----------------------------------------------------------------------------
(* Factors *)

LEMMA ActiveKept ==
    ASSUME TypeInv,
           \/ UNCHANGED method
           \/ \E r \in Requests, m \in TotpIds : StartTotpEnrollment(r, m)
           \/ \E m \in TotpIds, n \in Steps : AcceptTotp(m, n)
    PROVE  ActiveMethods' = ActiveMethods
  <1>1. method \in [Methods -> MethodRow] /\ TotpIds \subseteq Methods
    BY Typed DEF Methods
  <1>2. ASSUME NEW r \in Requests, NEW m \in TotpIds,
               StartTotpEnrollment(r, m)
        PROVE  ActiveMethods' = ActiveMethods
    <2>1. \A n \in Methods :
            method'[n].st = "active" <=> method[n].st = "active"
      BY <1>1, <1>2 DEF StartTotpEnrollment, MethodRow
    <2> QED
      BY <2>1 DEF ActiveMethods
  <1>3. ASSUME NEW m \in TotpIds, NEW n \in Steps, AcceptTotp(m, n)
        PROVE  ActiveMethods' = ActiveMethods
    <2>1. method' = [method EXCEPT ![m] = [method[m] EXCEPT !.step = n]]
      BY <1>1, <1>3 DEF AcceptTotp
    <2>2. [method[m] EXCEPT !.step = n].st = method[m].st
      BY <1>1 DEF MethodRow
    <2>3. \A k \in Methods : method'[k].st = method[k].st
      BY <1>1, <2>1, <2>2
    <2> QED
      BY <2>3 DEF ActiveMethods
  <1> QED
    BY <1>2, <1>3 DEF ActiveMethods

LastFactorGoes ==
    (ActiveMethods # {} /\ ActiveMethods' = {}) =>
        ~mfa'.completed /\ ~mfa'.acked

LEMMA AddMethodKeepsOne ==
    ASSUME TypeInv, NEW r \in Requests, NEW m \in Methods, NEW step,
           NEW first, AddMethod(r, m, step, first)
    PROVE  LastFactorGoes
  <1>1. method \in [Methods -> MethodRow]
    BY Typed
  <1>2. m \in ActiveMethods'
    BY <1>1 DEF AddMethod, ActiveMethods
  <1> QED
    BY <1>2 DEF LastFactorGoes

LEMMA LastFactorGoing ==
    ASSUME TypeInv, Next
    PROVE  LastFactorGoes
  <1>1. mfa \in SettingsRow /\ method \in [Methods -> MethodRow]
    BY Typed
  <1>2. CASE ActiveMethods' = ActiveMethods
    BY <1>2 DEF LastFactorGoes
  <1>3. CASE PasswordStep \/ SessionStep \/ ResetStep \/ RowStep
             \/ \E r \in Requests : QuietStep(r)
    <2>1. UNCHANGED method
      BY <1>3
         DEF PasswordStep, UpgradePasswordHash, ReplacePassword,
             IssueTemporaryPassword, ConfirmPasswordReset, SessionStep,
             SaveSession, ContinueSession, RejectSession, Logout, ResetStep,
             RequestPasswordReset, DeliverReset, FailResetDelivery, RowStep,
             StartWebAuthnRegistration, LoginPasskeyStart, StepUpPasskeyStart,
             LoginPasskeyFinish, PasskeyCounterMoved, StepUpPasskeyFinish,
             IssueStepUp, QuietStep, LoginReadsMfa, LoadRegistration,
             ConfirmTotpReads, RegistrationReads, RegenerateReads,
             AcknowledgeReads, FactorReadsUser, LoadAuthentication,
             CompleteMfaLogin, StepUpPassword, LoginReadsAccount, Abandon,
             Admit, factors
    <2> QED
      BY <1>2, <2>1, ActiveKept
  <1>4. CASE AdminStep
    <2>1. CASE ResetUserMfa
      BY <2>1 DEF ResetUserMfa, LastFactorGoes
    <2>2. CASE UNCHANGED method
      BY <1>2, <2>2, ActiveKept
    <2> QED
      BY <1>4, <2>1, <2>2
         DEF AdminStep, SetSupportCapability, SetAdminCapability,
             SetAccountActive, ChangeEmailOrRole, factors
  <1>5. ASSUME NEW r \in Requests,
               \/ \E m \in TotpIds : StartTotpEnrollment(r, m)
               \/ \E m \in TotpIds, n \in Steps :
                     LoginTotp(r, m, n) \/ StepUpTotp(r, m, n)
               \/ RegenerateRecoveryCodes(r) \/ AcknowledgeRecoveryCodes(r)
        PROVE  LastFactorGoes
    <2>1. \/ UNCHANGED method
          \/ \E m \in TotpIds : StartTotpEnrollment(r, m)
          \/ \E m \in TotpIds, n \in Steps : AcceptTotp(m, n)
      BY <1>5 DEF LoginTotp, StepUpTotp, RegenerateRecoveryCodes,
                  AcknowledgeRecoveryCodes
    <2> QED
      BY <1>2, <2>1, ActiveKept
  <1>6. ASSUME NEW r \in Requests,
               \/ \E m \in TotpIds, n \in Steps : ConfirmTotpEnrollment(r, m, n)
               \/ \E m \in PasskeyIds : ConfirmWebAuthnRegistration(r, m)
        PROVE  LastFactorGoes
    BY <1>6, AddMethodKeepsOne
       DEF ConfirmTotpEnrollment, ConfirmWebAuthnRegistration, Methods
  <1>7. ASSUME NEW r \in Requests,
               \/ \E c \in Unspent : ConsumeRecoveryCode(r, c)
               \/ \E k \in DOMAIN stepUps : DisableOwnMfa(r, k)
        PROVE  LastFactorGoes
    <2>1. \/ mfa' = [mfa EXCEPT !.enforced = TRUE, !.completed = FALSE,
                                !.acked = FALSE]
          \/ mfa' = [enforced |-> FALSE, completed |-> FALSE, acked |-> FALSE,
                     policy |-> FALSE]
      BY <1>7 DEF ConsumeRecoveryCode, DisableOwnMfa
    <2>2. CASE mfa' = [mfa EXCEPT !.enforced = TRUE, !.completed = FALSE,
                                  !.acked = FALSE]
      <3>1. mfa'.completed = FALSE /\ mfa'.acked = FALSE
        BY ONLY <1>1, <2>2 DEF SettingsRow
      <3> QED
        BY <3>1 DEF LastFactorGoes
    <2>3. CASE mfa' = [enforced |-> FALSE, completed |-> FALSE,
                       acked |-> FALSE, policy |-> FALSE]
      BY <2>3 DEF LastFactorGoes
    <2> QED
      BY <2>1, <2>2, <2>3
  <1>8. ASSUME NEW r \in Requests, NEW m \in Methods,
               NEW k \in DOMAIN stepUps, RemoveOwnMethod(r, m, k)
        PROVE  LastFactorGoes
    <2>1. PICK other \in ActiveMethods : other # m
      BY <1>8 DEF RemoveOwnMethod
    <2>2. other \in ActiveMethods'
      BY <1>1, <1>8, <2>1 DEF RemoveOwnMethod, ActiveMethods
    <2> QED
      BY <2>2 DEF LastFactorGoes
  <1> QED
    BY <1>3, <1>4, <1>5, <1>6, <1>7, <1>8, StepKinds DEF FactorStep

(* The enrolment ends in the transaction that takes the last factor away.  *)
THEOREM LastFactorEnds == Spec => LastFactorEndsEnrollment
  <1>1. TypeInv /\ [Next]_vars => [LastFactorGoes]_vars
    BY LastFactorGoing
  <1> QED
    BY <1>1, Typing, PTL DEF Spec, LastFactorEndsEnrollment, LastFactorGoes

-----------------------------------------------------------------------------
(* One-time rows: an unspent row was never used.                           *)

SpentOnce(row) == row.uses <= 1 /\ (row.st = "open" => row.uses = 0)

SpendInv ==
    /\ \A c \in DOMAIN challenges : SpentOnce(challenges[c])
    /\ \A k \in DOMAIN stepUps : SpentOnce(stepUps[k])
    /\ \A t \in DOMAIN resets :
          resets[t].uses <= 1 /\ (~resets[t].consumed => resets[t].uses = 0)

ChallengesSpend ==
    \A c \in DOMAIN challenges' : SpentOnce(challenges'[c])
StepUpsSpend == \A k \in DOMAIN stepUps' : SpentOnce(stepUps'[k])
ResetsSpend ==
    \A t \in DOMAIN resets' :
        resets'[t].uses <= 1 /\ (~resets'[t].consumed => resets'[t].uses = 0)

LEMMA SpendStays ==
    ASSUME SpendInv
    PROVE  /\ UNCHANGED challenges => ChallengesSpend
           /\ UNCHANGED stepUps => StepUpsSpend
           /\ UNCHANGED resets => ResetsSpend
  BY DEF SpendInv, ChallengesSpend, StepUpsSpend, ResetsSpend

LEMMA SpendTogether ==
    ASSUME ChallengesSpend, StepUpsSpend, ResetsSpend
    PROVE  SpendInv'
  BY DEF SpendInv, ChallengesSpend, StepUpsSpend, ResetsSpend, SpentOnce

LEMMA NewChallengeSpends ==
    ASSUME TypeInv, SpendInv, NEW purpose, NEW sid, NEW ver, NEW act,
           NewChallenge(purpose, sid, ver, act)
    PROVE  ChallengesSpend
  <1> DEFINE row == [st |-> "open", purpose |-> purpose, sid |-> sid,
                     ver |-> ver, act |-> act, uses |-> 0]
  <1>1. challenges' = Append(challenges, row) /\ challenges \in Seq(ChallengeRow)
    BY Typed DEF NewChallenge
  <1>2. SpentOnce(row)
    BY DEF SpentOnce
  <1> HIDE DEF row
  <1>3. /\ DOMAIN challenges' = DOMAIN challenges \cup {Len(challenges) + 1}
        /\ challenges'[Len(challenges) + 1] = row
        /\ \A c \in DOMAIN challenges : challenges'[c] = challenges[c]
    BY <1>1
  <1> QED
    BY <1>2, <1>3 DEF SpendInv, ChallengesSpend

LEMMA ConsumingSpends ==
    ASSUME TypeInv, SpendInv, NEW r \in Requests,
           req[r].at \in LoadedStages,
           ConsumeChallenge(req[r].arg)
    PROVE  ChallengesSpend
  <1> DEFINE c == req[r].arg
             row == [challenges[c] EXCEPT !.st = "consumed", !.uses = @ + 1]
  <1>1. /\ challenges \in [DOMAIN challenges -> ChallengeRow]
        /\ c \in DOMAIN challenges /\ challenges[c] \in ChallengeRow
    BY LoadedChallenge, TypedChallenges DEF ChallengesTyped
  <1>2. challenges[c].uses = 0
    BY <1>1 DEF SpendInv, SpentOnce, ConsumeChallenge
  <1>3. SpentOnce(row)
    BY <1>1, <1>2 DEF SpentOnce, ChallengeRow
  <1>4. challenges' = [challenges EXCEPT ![c] = row]
    BY <1>1 DEF ConsumeChallenge
  <1> HIDE DEF c, row
  <1> QED
    BY <1>1, <1>3, <1>4 DEF SpendInv, ChallengesSpend

LEMMA ConsumedSpends ==
    ASSUME TypeInv, SpendInv, NEW k \in DOMAIN stepUps, stepUps[k].st = "open"
    PROVE  /\ SpentOnce(Consumed(k)[k])
           /\ DOMAIN Consumed(k) = DOMAIN stepUps
           /\ \A l \in DOMAIN stepUps : l # k => Consumed(k)[l] = stepUps[l]
  <1> DEFINE row == [stepUps[k] EXCEPT !.st = "consumed", !.uses = @ + 1]
  <1>1. stepUps \in [DOMAIN stepUps -> StepUpRow] /\ stepUps[k] \in StepUpRow
    BY Typed, SeqElement
  <1>2. stepUps[k].uses = 0
    BY DEF SpendInv, SpentOnce
  <1>3. SpentOnce(row)
    BY <1>1, <1>2 DEF SpentOnce, StepUpRow
  <1>4. Consumed(k) = [stepUps EXCEPT ![k] = row]
    BY <1>1 DEF Consumed
  <1> HIDE DEF row
  <1> QED
    BY <1>1, <1>3, <1>4

LEMMA DeletedSpends ==
    ASSUME TypeInv, SpendInv
    PROVE  /\ challenges' = NoChallenges => ChallengesSpend
           /\ stepUps' = NoStepUps => StepUpsSpend
           /\ \A k \in DOMAIN stepUps : SpentOnce(NoStepUp(stepUps[k]))
  BY DEF SpendInv, SpentOnce, NoChallenges, NoStepUps, NoStepUp,
         ChallengesSpend, StepUpsSpend

LEMMA AllConsumedRows ==
    ASSUME TypeInv
    PROVE  /\ resets \in [DOMAIN resets -> ResetRow]
           /\ AllConsumed \in Seq(ResetRow)
           /\ DOMAIN AllConsumed = DOMAIN resets
           /\ Len(AllConsumed) = Len(resets)
           /\ \A t \in DOMAIN resets :
                 /\ AllConsumed[t].consumed
                 /\ AllConsumed[t].sent = resets[t].sent
                 /\ AllConsumed[t].uses = resets[t].uses
  <1>1. resets \in Seq(ResetRow) /\ resets \in [DOMAIN resets -> ResetRow]
    BY Typed, SeqElement
  <1>2. AllConsumed \in [DOMAIN resets -> ResetRow]
    BY <1>1 DEF AllConsumed, ResetRow
  <1>3. \A t \in DOMAIN resets :
          /\ AllConsumed[t].consumed
          /\ AllConsumed[t].sent = resets[t].sent
          /\ AllConsumed[t].uses = resets[t].uses
    BY <1>1 DEF AllConsumed, ResetRow
  <1> QED
    BY <1>1, <1>2, <1>3, SeqOnDomain

(* What each operation on reset tokens does to the columns.                *)
LEMMA ResetRequested ==
    ASSUME TypeInv, NEW r \in Requests, RequestPasswordReset(r)
    PROVE  /\ Len(resets') = Len(resets) + 1
           /\ DOMAIN resets' = DOMAIN resets \cup {Len(resets) + 1}
           /\ Len(resets) + 1 \notin DOMAIN resets
           /\ resets'[Len(resets) + 1] =
                 [consumed |-> FALSE, sent |-> FALSE, uses |-> 0]
           /\ \A t \in DOMAIN resets :
                 /\ resets'[t].consumed
                 /\ resets'[t].sent = resets[t].sent
                 /\ resets'[t].uses = resets[t].uses
  <1> DEFINE row == [consumed |-> FALSE, sent |-> FALSE, uses |-> 0]
  <1>1. row \in ResetRow /\ resets' = Append(AllConsumed, row)
    BY DEF RequestPasswordReset, ResetRow
  <1>2. /\ AllConsumed \in Seq(ResetRow)
        /\ DOMAIN AllConsumed = DOMAIN resets
        /\ Len(AllConsumed) = Len(resets)
    BY AllConsumedRows
  <1> HIDE DEF row
  <1>3. /\ Len(resets') = Len(resets) + 1
        /\ DOMAIN resets' = DOMAIN resets \cup {Len(resets) + 1}
        /\ Len(resets) + 1 \notin DOMAIN resets
        /\ resets'[Len(resets) + 1] = row
        /\ \A t \in DOMAIN resets : resets'[t] = AllConsumed[t]
    BY <1>1, <1>2, SeqAppended
  <1> QED
    BY <1>3, AllConsumedRows DEF row

LEMMA DeliveryEnded ==
    ASSUME TypeInv, NEW r \in Requests,
           DeliverReset(r) \/ FailResetDelivery(r)
    PROVE  /\ req[r].at = "deliver" /\ req[r].arg \in DOMAIN resets
           /\ DOMAIN resets' = DOMAIN resets /\ Len(resets') = Len(resets)
           /\ \A t \in DOMAIN resets : t # req[r].arg => resets'[t] = resets[t]
           /\ resets'[req[r].arg].uses = resets[req[r].arg].uses
           /\ \/ resets'[req[r].arg].consumed = resets[req[r].arg].consumed
              \/ /\ resets'[req[r].arg].consumed
                 /\ resets'[req[r].arg].sent = resets[req[r].arg].sent
  <1> DEFINE t == req[r].arg
  <1>1. req[r].at = "deliver" /\ t \in DOMAIN resets
    BY Typed DEF DeliverReset, FailResetDelivery, ArgIn
  <1>2. resets \in Seq(ResetRow) /\ resets \in [DOMAIN resets -> ResetRow]
    BY Typed, SeqElement
  <1>3. CASE DeliverReset(r)
    <2> DEFINE row == [resets[t] EXCEPT !.sent = TRUE]
    <2>1. /\ row \in ResetRow /\ row.uses = resets[t].uses
          /\ row.consumed = resets[t].consumed /\ row.sent
      BY <1>1, <1>2 DEF ResetRow
    <2>2. resets' = [resets EXCEPT ![t] = row]
      BY <1>1, <1>2, <1>3 DEF DeliverReset
    <2> HIDE DEF row, t
    <2>4. resets' \in [DOMAIN resets -> ResetRow]
      BY <1>1, <1>2, <2>1, <2>2
    <2>5. DOMAIN resets' = DOMAIN resets /\ Len(resets') = Len(resets)
      BY <1>2, <2>4, SeqOnDomain
    <2>6. /\ \A u \in DOMAIN resets : u # t => resets'[u] = resets[u]
          /\ resets'[t].uses = resets[t].uses
          /\ resets'[t].consumed = resets[t].consumed
      BY <1>1, <1>2, <2>1, <2>2
    <2> QED
      BY <1>1, <2>5, <2>6 DEF t
  <1>4. CASE FailResetDelivery(r)
    <2> DEFINE row == [resets[t] EXCEPT !.consumed = TRUE]
    <2>1. /\ row \in ResetRow /\ row.uses = resets[t].uses
          /\ row.sent = resets[t].sent /\ row.consumed
      BY <1>1, <1>2 DEF ResetRow
    <2>2. resets' = [resets EXCEPT ![t] = row]
      BY <1>1, <1>2, <1>4 DEF FailResetDelivery
    <2> HIDE DEF row, t
    <2>3. resets' \in [DOMAIN resets -> ResetRow]
      BY <1>1, <1>2, <2>1, <2>2
    <2>4. DOMAIN resets' = DOMAIN resets /\ Len(resets') = Len(resets)
      BY <1>2, <2>3, SeqOnDomain
    <2>5. /\ \A u \in DOMAIN resets : u # t => resets'[u] = resets[u]
          /\ resets'[t].uses = resets[t].uses
          /\ resets'[t].consumed /\ resets'[t].sent = resets[t].sent
      BY <1>1, <1>2, <2>1, <2>2
    <2> QED
      BY <1>1, <1>4, <2>4, <2>5 DEF t
  <1> QED
    BY <1>3, <1>4

LEMMA ResetConfirmed ==
    ASSUME TypeInv, NEW t \in DOMAIN resets, NEW p \in Passwords,
           ConfirmPasswordReset(t, p)
    PROVE  /\ DOMAIN resets' = DOMAIN resets /\ Len(resets') = Len(resets)
           /\ ~resets[t].consumed
           /\ \A u \in DOMAIN resets :
                 /\ resets'[u].consumed
                 /\ resets'[u].sent = resets[u].sent
                 /\ resets'[u].uses =
                       IF u = t THEN resets[t].uses + 1 ELSE resets[u].uses
  <1> DEFINE row == [AllConsumed[t] EXCEPT !.uses = @ + 1]
  <1>1. /\ AllConsumed \in Seq(ResetRow) /\ DOMAIN AllConsumed = DOMAIN resets
        /\ AllConsumed \in [DOMAIN resets -> ResetRow]
        /\ Len(AllConsumed) = Len(resets)
    BY AllConsumedRows, SeqElement
  <1>2. AllConsumed[t] \in ResetRow
    BY <1>1
  <1>3. /\ row \in ResetRow /\ row.uses = AllConsumed[t].uses + 1
        /\ row.consumed = AllConsumed[t].consumed
        /\ row.sent = AllConsumed[t].sent
    BY <1>2 DEF ResetRow
  <1>4. resets' = [AllConsumed EXCEPT ![t] = row]
    BY <1>1 DEF ConfirmPasswordReset
  <1> HIDE DEF row
  <1>5. resets' \in [DOMAIN AllConsumed -> ResetRow]
    BY <1>1, <1>3, <1>4
  <1>6. DOMAIN resets' = DOMAIN resets /\ Len(resets') = Len(resets)
    BY <1>1, <1>5, SeqOnDomain
  <1>7. \A u \in DOMAIN resets :
          resets'[u] = IF u = t THEN row ELSE AllConsumed[u]
    BY <1>1, <1>4
  <1>8. ~resets[t].consumed
    BY DEF ConfirmPasswordReset
  <1> QED
    BY <1>3, <1>6, <1>7, <1>8, AllConsumedRows

LEMMA SpendKept ==
    ASSUME TypeInv, SpendInv, [Next]_vars
    PROVE  SpendInv'
  <1>1. CASE UNCHANGED oneTime /\ UNCHANGED resets
    BY <1>1, SpendStays, SpendTogether DEF oneTime
  <1>2. CASE \/ SessionStep
             \/ \E r \in Requests : QuietStep(r)
             \/ \E r \in Requests : UpgradePasswordHash(r)
             \/ \E r \in Requests, p \in Passwords : ReplacePassword(r, p)
             \/ \E p \in Passwords : IssueTemporaryPassword(p)
    BY <1>1, <1>2
       DEF SessionStep, SaveSession, ContinueSession, RejectSession, Logout,
           QuietStep, LoginReadsMfa, LoadRegistration, ConfirmTotpReads,
           RegistrationReads, RegenerateReads, AcknowledgeReads,
           FactorReadsUser, LoadAuthentication, CompleteMfaLogin,
           StepUpPassword, LoginReadsAccount, Abandon, Admit,
           UpgradePasswordHash, ReplacePassword, IssueTemporaryPassword
  <1>3. ASSUME NEW t \in DOMAIN resets, NEW p \in Passwords,
               ConfirmPasswordReset(t, p)
        PROVE  SpendInv'
    <2>1. resets[t].uses = 0
      BY <1>3, ResetConfirmed DEF SpendInv
    <2>2. ResetsSpend
      BY <1>3, <2>1, ResetConfirmed DEF ResetsSpend, SpendInv
    <2> QED
      BY <1>3, <2>2, SpendStays, SpendTogether
         DEF ConfirmPasswordReset, oneTime
  <1>4. CASE ResetStep
    <2>1. ASSUME NEW r \in Requests, RequestPasswordReset(r)
          PROVE  ResetsSpend
      BY <2>1, ResetRequested DEF ResetsSpend, SpendInv
    <2>2. ASSUME NEW r \in Requests, DeliverReset(r) \/ FailResetDelivery(r)
          PROVE  ResetsSpend
      BY <2>2, DeliveryEnded DEF ResetsSpend, SpendInv
    <2>3. UNCHANGED oneTime /\ ResetsSpend
      BY <1>4, <2>1, <2>2
         DEF ResetStep, RequestPasswordReset, DeliverReset, FailResetDelivery
    <2> QED
      BY <2>3, SpendStays, SpendTogether DEF oneTime
  <1>5. CASE RowStep
    <2>1. ASSUME NEW r \in Requests,
                 StartWebAuthnRegistration(r) \/ LoginPasskeyStart(r)
                     \/ StepUpPasskeyStart(r)
          PROVE  ChallengesSpend /\ UNCHANGED <<stepUps, resets>>
      BY <2>1, NewChallengeSpends
         DEF StartWebAuthnRegistration, LoginPasskeyStart, StepUpPasskeyStart
    <2>2. ASSUME NEW r \in Requests,
                 LoginPasskeyFinish(r) \/ StepUpPasskeyFinish(r)
          PROVE  ChallengesSpend /\ UNCHANGED <<stepUps, resets>>
      BY <2>2, ConsumingSpends
         DEF LoginPasskeyFinish, StepUpPasskeyFinish, LoadedStages
    <2>3. ASSUME NEW r \in Requests, PasskeyCounterMoved(r)
          PROVE  ChallengesSpend /\ UNCHANGED <<stepUps, resets>>
      <3> DEFINE c == req[r].arg
                 row == [challenges[c] EXCEPT !.st = "consumed"]
      <3>1. /\ challenges \in [DOMAIN challenges -> ChallengeRow]
            /\ c \in DOMAIN challenges /\ challenges[c] \in ChallengeRow
        BY <2>3, LoadedChallenge, TypedChallenges
           DEF ChallengesTyped, PasskeyCounterMoved, LoadedStages
      <3>2. SpentOnce(row)
        BY <3>1 DEF SpentOnce, SpendInv, ChallengeRow
      <3>3. challenges' = [challenges EXCEPT ![c] = row]
        BY <2>3, <3>1 DEF PasskeyCounterMoved
      <3> HIDE DEF c, row
      <3>4. ChallengesSpend
        BY <3>1, <3>2, <3>3 DEF SpendInv, ChallengesSpend
      <3> QED
        BY <2>3, <3>4 DEF PasskeyCounterMoved
    <2>4. ASSUME NEW r \in Requests, IssueStepUp(r)
          PROVE  StepUpsSpend /\ UNCHANGED <<challenges, resets>>
      <3> DEFINE row == [sid |-> req[r].sid, ver |-> req[r].ver,
                         act |-> req[r].arg, st |-> "open", uses |-> 0]
      <3>1. stepUps' = Append(stepUps, row) /\ stepUps \in Seq(StepUpRow)
        BY <2>4, Typed DEF IssueStepUp
      <3>2. SpentOnce(row)
        BY DEF SpentOnce
      <3> HIDE DEF row
      <3>3. /\ DOMAIN stepUps' = DOMAIN stepUps \cup {Len(stepUps) + 1}
            /\ stepUps'[Len(stepUps) + 1] = row
            /\ \A k \in DOMAIN stepUps : stepUps'[k] = stepUps[k]
        BY <3>1
      <3>4. StepUpsSpend
        BY <3>2, <3>3 DEF SpendInv, StepUpsSpend
      <3> QED
        BY <2>4, <3>4 DEF IssueStepUp
    <2> QED
      BY <1>5, <2>1, <2>2, <2>3, <2>4, SpendStays, SpendTogether DEF RowStep
  <1>6. CASE AdminStep
    <2>1. CASE ResetUserMfa
      BY <2>1, DeletedSpends, SpendStays, SpendTogether DEF ResetUserMfa
    <2> QED
      BY <1>1, <1>6, <2>1
         DEF AdminStep, SetSupportCapability, SetAdminCapability,
             SetAccountActive, ChangeEmailOrRole
  <1>7. ASSUME NEW r \in Requests, NEW m \in PasskeyIds,
               ConfirmWebAuthnRegistration(r, m)
        PROVE  SpendInv'
    BY <1>7, ConsumingSpends, SpendStays, SpendTogether
       DEF ConfirmWebAuthnRegistration, LoadedStages
  <1>8. ASSUME NEW r \in Requests, NEW m \in Methods,
               NEW k \in DOMAIN stepUps, RemoveOwnMethod(r, m, k)
        PROVE  SpendInv'
    <2>1. StepUpsSpend
      BY <1>8, ConsumedSpends
         DEF RemoveOwnMethod, Presents, StepUpsSpend, SpendInv
    <2> QED
      BY <1>8, <2>1, SpendStays, SpendTogether DEF RemoveOwnMethod
  <1>9. ASSUME NEW r \in Requests, NEW k \in DOMAIN stepUps,
               DisableOwnMfa(r, k)
        PROVE  SpendInv'
    <2>1. \A l \in DOMAIN stepUps : SpentOnce(NoStepUp(stepUps[l]))
      BY DeletedSpends
    <2>2. SpentOnce(Consumed(k)[k])
      BY <1>9, ConsumedSpends DEF DisableOwnMfa, Presents
    <2>3. StepUpsSpend
      BY <1>9, <2>1, <2>2 DEF DisableOwnMfa, StepUpsSpend, SpendInv
    <2>4. ChallengesSpend /\ UNCHANGED resets
      BY <1>9, DeletedSpends DEF DisableOwnMfa
    <2> QED
      BY <2>3, <2>4, SpendStays, SpendTogether
  <1>10. ASSUME NEW r \in Requests,
               \/ \E m \in TotpIds : StartTotpEnrollment(r, m)
               \/ \E m \in TotpIds, n \in Steps :
                     ConfirmTotpEnrollment(r, m, n) \/ LoginTotp(r, m, n)
                         \/ StepUpTotp(r, m, n)
               \/ RegenerateRecoveryCodes(r) \/ AcknowledgeRecoveryCodes(r)
               \/ \E c \in Unspent : ConsumeRecoveryCode(r, c)
        PROVE  SpendInv'
    <2>1. UNCHANGED <<stepUps, challenges, resets>>
      BY <1>10
         DEF StartTotpEnrollment, ConfirmTotpEnrollment, LoginTotp, StepUpTotp,
             RegenerateRecoveryCodes, AcknowledgeRecoveryCodes,
             ConsumeRecoveryCode, oneTime
    <2> QED
      BY <2>1, SpendStays, SpendTogether
  <1> QED
    BY <1>1, <1>2, <1>3, <1>4, <1>5, <1>6, <1>7, <1>8, <1>9, <1>10, StepKinds
       DEF vars, PasswordStep, FactorStep

(* A challenge, an authorisation or a reset token has its effect once.     *)
THEOREM SpentAtMostOnce == Spec => []NothingIsSpentTwice
  <1>1. Init => SpendInv
    BY DEF Init, SpendInv
  <1>2. SpendInv => NothingIsSpentTwice
    BY DEF SpendInv, NothingIsSpentTwice, SpentOnce
  <1> QED
    BY <1>1, <1>2, SpendKept, Typing, PTL DEF Spec

-----------------------------------------------------------------------------
(* Reset tokens: one that is not the newest is spent; the token a request  *)
(* delivers was not sent, and nobody else delivers it.                     *)

Delivering(r, t) == req[r].at = "deliver" /\ req[r].arg = t

ResetInv ==
    /\ \A t \in DOMAIN resets :
          ~resets[t].consumed => t = Len(resets) /\ resets[t].uses = 0
    /\ NewestResetWorks
    /\ \A r \in Requests, t \in DOMAIN resets : Delivering(r, t) =>
          /\ ~resets[t].sent
          /\ t = Len(resets) /\ resets[t].uses = 0 => ~resets[t].consumed
    /\ \A r, q \in Requests, t \in DOMAIN resets :
          Delivering(r, t) /\ Delivering(q, t) => r = q

NoneStartsDelivering ==
    \A r \in Requests : req'[r].at = "deliver" => req'[r] = req[r]

LEMMA ResetsStay ==
    ASSUME ResetInv, NoneStartsDelivering, UNCHANGED resets
    PROVE  ResetInv'
  BY DEF ResetInv, NoneStartsDelivering, NewestResetWorks, Delivering

LEMMA FinishDelivers ==
    ASSUME TypeInv, NEW r \in Requests, Finish(r)
    PROVE  NoneStartsDelivering
  BY Typed DEF Finish, Idle, NoneStartsDelivering

LEMMA StagesDeliver ==
    ASSUME TypeInv, NEW r \in Requests, NEW x, x.at # "deliver",
           req' = [req EXCEPT ![r] = x]
    PROVE  NoneStartsDelivering
  BY Typed DEF NoneStartsDelivering

LEMMA GotoDelivers ==
    ASSUME TypeInv, NEW r \in Requests, NEW at, at # "deliver", Goto(r, at)
    PROVE  NoneStartsDelivering
  <1>1. req' = [req EXCEPT ![r] = [req[r] EXCEPT !.at = at]]
    BY Typed DEF Goto
  <1>2. [req[r] EXCEPT !.at = at].at = at
    BY Typed DEF Request
  <1> QED
    BY <1>1, <1>2, StagesDeliver

LEMMA GotoWithDelivers ==
    ASSUME TypeInv, NEW r \in Requests, NEW at, NEW arg, at # "deliver",
           GotoWith(r, at, arg)
    PROVE  NoneStartsDelivering
  <1>1. req' = [req EXCEPT ![r] = [req[r] EXCEPT !.at = at, !.arg = arg]]
    BY Typed DEF GotoWith
  <1>2. [req[r] EXCEPT !.at = at, !.arg = arg].at = at
    BY Typed DEF Request
  <1> QED
    BY <1>1, <1>2, StagesDeliver

LEMMA ReopenDelivers ==
    ASSUME TypeInv, NEW r \in Requests, NEW auth, NEW grant, NEW by,
           Reopen(r, auth, grant, by)
    PROVE  NoneStartsDelivering
  <1>1. [req[r] EXCEPT !.at = "save", !.ver = user'.version, !.auth = auth,
                       !.grant = grant, !.by = by, !.arg = 0].at = "save"
    BY Typed DEF Request
  <1> QED
    BY <1>1, StagesDeliver DEF Reopen

LEMMA QuietDelivers ==
    ASSUME TypeInv, NEW r \in Requests, QuietStep(r)
    PROVE  NoneStartsDelivering /\ UNCHANGED resets
  <1>0. req[r] \in Request
    BY Typed
  <1>1. CASE LoginReadsMfa(r)
    <2>1. PICK auth :
            req' = [req EXCEPT ![r] = [req[r] EXCEPT
                       !.at = "save", !.auth = auth, !.arg = 0]]
      BY <1>1, Typed DEF LoginReadsMfa
    <2>2. [req[r] EXCEPT !.at = "save", !.auth = auth, !.arg = 0].at = "save"
      BY <1>0 DEF Request
    <2> QED
      BY <1>1, <2>1, <2>2, StagesDeliver DEF LoginReadsMfa
  <1>2. CASE CompleteMfaLogin(r)
    <2>1. PICK auth :
            req' = [req EXCEPT ![r] = [req[r] EXCEPT
                       !.at = "save", !.auth = auth, !.grant = 0,
                       !.by = "factor", !.arg = 0]]
      BY <1>2, Typed DEF CompleteMfaLogin
    <2>2. [req[r] EXCEPT !.at = "save", !.auth = auth, !.grant = 0,
                         !.by = "factor", !.arg = 0].at = "save"
      BY <1>0 DEF Request
    <2> QED
      BY <1>2, <2>1, <2>2, StagesDeliver DEF CompleteMfaLogin
  <1>3. CASE FactorReadsUser(r)
    <2>1. req' = [req EXCEPT ![r] =
                     [req[r] EXCEPT !.at = "factor", !.ver = user.version]]
      BY <1>3, Typed DEF FactorReadsUser
    <2>2. [req[r] EXCEPT !.at = "factor", !.ver = user.version].at = "factor"
      BY <1>0 DEF Request
    <2> QED
      BY <1>3, <2>1, <2>2, StagesDeliver DEF FactorReadsUser
  <1>4. CASE LoginReadsAccount(r)
    BY <1>4, Typed
       DEF LoginReadsAccount, Idle, NoneStartsDelivering
  <1>5. CASE \E s \in DOMAIN store, access \in Access : Admit(r, s, access)
    BY <1>5, Typed DEF Admit, Access, NoneStartsDelivering
  <1>6. CASE Abandon(r)
    BY <1>6, FinishDelivers DEF Abandon
  <1>7. CASE \/ ConfirmTotpReads(r) \/ RegistrationReads(r)
             \/ RegenerateReads(r) \/ AcknowledgeReads(r)
    BY <1>7, GotoDelivers
       DEF ConfirmTotpReads, RegistrationReads, RegenerateReads,
           AcknowledgeReads
  <1>8. CASE \/ \E c \in DOMAIN challenges :
                  LoadRegistration(r, c) \/ LoadAuthentication(r, c)
             \/ \E act \in StepUpActions : StepUpPassword(r, act)
    BY <1>8, GotoWithDelivers
       DEF LoadRegistration, LoadAuthentication, StepUpPassword
  <1> QED
    BY <1>1, <1>2, <1>3, <1>4, <1>5, <1>6, <1>7, <1>8 DEF QuietStep

LEMMA OthersDeliver ==
    ASSUME TypeInv,
           \/ SessionStep \/ RowStep \/ FactorStep \/ AdminStep
           \/ PasswordStep
    PROVE  NoneStartsDelivering
  <1>1. CASE UNCHANGED req
    BY <1>1 DEF NoneStartsDelivering
  <1>2. CASE \E r \in Requests : Finish(r)
    BY <1>2, FinishDelivers
  <1>3. CASE \E r \in Requests, auth \in AuthStates, grant \in Nat,
                by \in Proofs : Reopen(r, auth, grant, by)
    BY <1>3, ReopenDelivers
  <1>4. CASE \E r \in Requests, at \in {"upgraded", "factorShown", "issue"} :
                Goto(r, at)
    BY <1>4, GotoDelivers
  <1>5. CASE SessionStep \/ AdminStep
    BY <1>1, <1>2, <1>5
       DEF SessionStep, SaveSession, ContinueSession, RejectSession, Logout,
           AdminStep, ResetUserMfa, SetSupportCapability, SetAdminCapability,
           SetAccountActive, ChangeEmailOrRole
  <1>6. CASE PasswordStep
    <2>1. ASSUME NEW r \in Requests, NEW p, ReplacePassword(r, p)
          PROVE  NoneStartsDelivering
      <3>1. [req[r] EXCEPT
               !.at = "save", !.ver = user'.version, !.auth = "authenticated",
               !.grant = 0, !.pw = p, !.by = ChangeBy(r),
               !.arg = 0].at = "save"
        BY Typed DEF Request
      <3> QED
        BY <2>1, <3>1, StagesDeliver DEF ReplacePassword
    <2> QED
      BY <1>1, <1>4, <1>6, <2>1
         DEF PasswordStep, UpgradePasswordHash, IssueTemporaryPassword,
             ConfirmPasswordReset
  <1>7. CASE RowStep
    <2>1. ASSUME NEW r \in Requests, StepUpPasskeyFinish(r)
          PROVE  NoneStartsDelivering
      BY <2>1, GotoWithDelivers DEF StepUpPasskeyFinish
    <2> QED
      BY <1>2, <1>4, <1>7, <2>1
         DEF RowStep, StartWebAuthnRegistration, LoginPasskeyStart,
             StepUpPasskeyStart, LoginPasskeyFinish, PasskeyCounterMoved,
             IssueStepUp
  <1>8. CASE FactorStep
    <2>1. ASSUME NEW r \in Requests, NEW c \in Unspent,
                 ConsumeRecoveryCode(r, c)
          PROVE  NoneStartsDelivering
      <3>1. [req[r] EXCEPT
               !.at = "continue", !.ver = user'.version, !.auth = "recovery",
               !.grant = Len(grants) + 1, !.by = "factor"].at = "continue"
        BY Typed DEF Request
      <3> QED
        BY <2>1, <3>1, StagesDeliver DEF ConsumeRecoveryCode
    <2>2. \A r \in Requests : req[r].grant \in Nat
      BY Typed DEF Request
    <2>3. ASSUME NEW r \in Requests, NEW m, NEW step, NEW first,
                 AddMethod(r, m, step, first)
          PROVE  NoneStartsDelivering
      BY <2>3, ReopenDelivers DEF AddMethod
    <2>4. \A r \in Requests : StillBy(r) \in Proofs
      BY ByTyped
    <2> QED
      BY <1>2, <1>3, <1>4, <1>8, <2>1, <2>2, <2>3, <2>4
         DEF FactorStep, StartTotpEnrollment, ConfirmTotpEnrollment, LoginTotp,
             StepUpTotp, ConfirmWebAuthnRegistration, RegenerateRecoveryCodes,
             AcknowledgeRecoveryCodes, RemoveOwnMethod, DisableOwnMfa,
             AuthStates
  <1> QED
    BY <1>5, <1>6, <1>7, <1>8

LEMMA ResetRequestKept ==
    ASSUME TypeInv, ResetInv, NEW r \in Requests, RequestPasswordReset(r)
    PROVE  ResetInv'
  <1>1. /\ \A q \in Requests \ {r} : req'[q] = req[q]
        /\ \A t : Delivering(r, t)' => t = Len(resets) + 1
    BY Typed DEF RequestPasswordReset, Idle, Delivering
  <1>2. \A q \in Requests : \A t :
          Delivering(q, t) => t \in DOMAIN resets
    BY Typed DEF Delivering, ArgIn
  <1>3. /\ Len(resets') = Len(resets) + 1
        /\ DOMAIN resets' = DOMAIN resets \cup {Len(resets) + 1}
        /\ Len(resets) + 1 \notin DOMAIN resets
        /\ resets'[Len(resets) + 1] =
              [consumed |-> FALSE, sent |-> FALSE, uses |-> 0]
        /\ \A t \in DOMAIN resets :
              /\ resets'[t].consumed
              /\ resets'[t].sent = resets[t].sent
    BY ResetRequested
  <1>4. \A q \in Requests \ {r} : \A t : Delivering(q, t)' => Delivering(q, t)
    BY <1>1 DEF Delivering
  <1>5. \A t \in DOMAIN resets' :
          ~resets'[t].consumed => t = Len(resets') /\ resets'[t].uses = 0
    BY <1>3
  <1>6. NewestResetWorks'
    BY <1>3 DEF NewestResetWorks
  <1>7. \A q \in Requests, t \in DOMAIN resets' : Delivering(q, t)' =>
          /\ ~resets'[t].sent
          /\ t = Len(resets') /\ resets'[t].uses = 0 => ~resets'[t].consumed
    BY <1>1, <1>2, <1>3, <1>4 DEF ResetInv
  <1>8. \A p, q \in Requests, t \in DOMAIN resets' :
          Delivering(p, t)' /\ Delivering(q, t)' => p = q
    BY <1>1, <1>2, <1>3, <1>4 DEF ResetInv
  <1> QED
    BY <1>5, <1>6, <1>7, <1>8 DEF ResetInv

LEMMA DeliveryEndKept ==
    ASSUME TypeInv, ResetInv, NEW r \in Requests,
           DeliverReset(r) \/ FailResetDelivery(r)
    PROVE  ResetInv'
  <1> DEFINE u == req[r].arg
  <1>1. /\ \A q \in Requests \ {r} : req'[q] = req[q]
        /\ req'[r].at # "deliver"
    BY Typed DEF DeliverReset, FailResetDelivery, Finish, Idle
  <1>2. \A q \in Requests : \A t :
          Delivering(q, t)' => q # r /\ Delivering(q, t)
    BY <1>1 DEF Delivering
  <1>3. /\ Delivering(r, u) /\ u \in DOMAIN resets
        /\ DOMAIN resets' = DOMAIN resets /\ Len(resets') = Len(resets)
        /\ \A t \in DOMAIN resets : t # u => resets'[t] = resets[t]
        /\ resets'[u].uses = resets[u].uses
        /\ \/ resets'[u].consumed = resets[u].consumed
           \/ resets'[u].consumed /\ resets'[u].sent = resets[u].sent
    BY DeliveryEnded DEF Delivering
  <1> HIDE DEF u
  <1>4. /\ ~resets[u].sent
        /\ u = Len(resets) /\ resets[u].uses = 0 => ~resets[u].consumed
    BY <1>3 DEF ResetInv
  <1>5. \A t \in DOMAIN resets' :
          ~resets'[t].consumed => t = Len(resets') /\ resets'[t].uses = 0
    BY <1>3 DEF ResetInv
  <1>6. NewestResetWorks'
    BY <1>3, <1>4 DEF NewestResetWorks, ResetInv
  <1>7. \A q \in Requests, t \in DOMAIN resets' : Delivering(q, t)' =>
          /\ t # u
          /\ ~resets'[t].sent
          /\ t = Len(resets') /\ resets'[t].uses = 0 => ~resets'[t].consumed
    BY <1>2, <1>3 DEF ResetInv
  <1>8. \A p, q \in Requests, t \in DOMAIN resets' :
          Delivering(p, t)' /\ Delivering(q, t)' => p = q
    BY <1>2, <1>3 DEF ResetInv
  <1> QED
    BY <1>5, <1>6, <1>7, <1>8 DEF ResetInv

LEMMA ResetConfirmKept ==
    ASSUME TypeInv, ResetInv, NEW u \in DOMAIN resets, NEW p \in Passwords,
           ConfirmPasswordReset(u, p)
    PROVE  ResetInv'
  <1>1. \A q \in Requests : \A t : Delivering(q, t)' <=> Delivering(q, t)
    BY DEF ConfirmPasswordReset, Delivering
  <1>2. u = Len(resets) /\ resets[u].uses = 0
    BY ResetConfirmed DEF ResetInv
  <1>3. /\ DOMAIN resets' = DOMAIN resets /\ Len(resets') = Len(resets)
        /\ resets'[u].uses = 1
        /\ \A t \in DOMAIN resets :
              resets'[t].consumed /\ resets'[t].sent = resets[t].sent
    BY <1>2, ResetConfirmed
  <1>4. NewestResetWorks'
    BY <1>2, <1>3 DEF NewestResetWorks
  <1>5. \A q \in Requests, t \in DOMAIN resets' : Delivering(q, t)' =>
          ~resets'[t].sent /\ ~(t = Len(resets') /\ resets'[t].uses = 0)
    BY <1>1, <1>2, <1>3 DEF ResetInv
  <1> QED
    BY <1>1, <1>3, <1>4, <1>5 DEF ResetInv

LEMMA ResetKept ==
    ASSUME TypeInv, ResetInv, [Next]_vars
    PROVE  ResetInv'
  <1>1. CASE UNCHANGED vars
    BY <1>1 DEF vars, ResetInv, NewestResetWorks, Delivering
  <1>2. CASE ResetStep
    BY <1>2, ResetRequestKept, DeliveryEndKept DEF ResetStep
  <1>3. CASE \E r \in Requests : QuietStep(r)
    BY <1>3, QuietDelivers, ResetsStay
  <1>4. CASE SessionStep \/ RowStep \/ FactorStep \/ AdminStep
    <2>1. UNCHANGED resets
      BY <1>4
         DEF SessionStep, SaveSession, ContinueSession, RejectSession, Logout,
             AdminStep, ResetUserMfa, SetSupportCapability,
             SetAdminCapability, SetAccountActive, ChangeEmailOrRole,
             RowStep, StartWebAuthnRegistration, LoginPasskeyStart,
             StepUpPasskeyStart, LoginPasskeyFinish, PasskeyCounterMoved,
             StepUpPasskeyFinish, IssueStepUp,
             FactorStep, StartTotpEnrollment, ConfirmTotpEnrollment, LoginTotp,
             StepUpTotp, ConfirmWebAuthnRegistration, RegenerateRecoveryCodes,
             AcknowledgeRecoveryCodes, ConsumeRecoveryCode, RemoveOwnMethod,
             DisableOwnMfa
    <2> QED
      BY <1>4, <2>1, OthersDeliver, ResetsStay
  <1>5. CASE PasswordStep
    <2>1. CASE \E t \in DOMAIN resets, p \in Passwords :
                  ConfirmPasswordReset(t, p)
      BY <2>1, ResetConfirmKept
    <2>2. CASE UNCHANGED resets
      BY <1>5, <2>2, OthersDeliver, ResetsStay
    <2> QED
      BY <1>5, <2>1, <2>2
         DEF PasswordStep, UpgradePasswordHash, ReplacePassword,
             IssueTemporaryPassword
  <1> QED
    BY <1>1, <1>2, <1>3, <1>4, <1>5, StepKinds

(* The failed delivery of an older token leaves the newest one usable.     *)
THEOREM NewestTokenWorks == Spec => []NewestResetWorks
  <1>1. Init => ResetInv
    BY DEF Init, ResetInv, NewestResetWorks
  <1>2. ResetInv => NewestResetWorks
    BY DEF ResetInv
  <1> QED
    BY <1>1, <1>2, ResetKept, Typing, PTL DEF Spec

-----------------------------------------------------------------------------
(* A step leaves alone what a login decides on, or ends the version.       *)

AccountSame ==
    /\ user'.version = user.version
    /\ user'.pw = user.pw
    /\ user'.mustChange = user.mustChange
    /\ user'.active = user.active
    /\ ActiveMethods' = ActiveMethods
    /\ mfa' = mfa
    /\ RequiresMfaLogin' = RequiresMfaLogin
    /\ grants' = grants

AccountBumped ==
    /\ user'.version = user.version + 1
    /\ \/ store' = NoSessions
       \/ UNCHANGED store

AccountMoves == AccountSame \/ AccountBumped

LEMMA SameWhenUnchanged ==
    ASSUME UNCHANGED <<user, mfa, method, codes, grants>>
    PROVE  AccountSame
  BY DEF AccountSame, ActiveMethods, RequiresMfaLogin

LEMMA SameWhenActiveKept ==
    ASSUME UNCHANGED <<user, mfa, codes, grants>>,
           ActiveMethods' = ActiveMethods
    PROVE  AccountSame
  BY DEF AccountSame, RequiresMfaLogin

LEMMA NewPasswordBumps ==
    ASSUME TypeInv, NEW p \in Passwords, NEW mustChange \in BOOLEAN,
           NewPassword(p, mustChange)
    PROVE  AccountBumped /\ store' = NoSessions
  BY Typed DEF NewPassword, Bumped, UserRow, AccountBumped

LEMMA IncrementBumps ==
    ASSUME TypeInv, incrementSessionVersion
    PROVE  AccountBumped /\ store' = NoSessions
  BY IncrementTypes DEF VersionMoves, AccountBumped

LEMMA ActiveFlagBumps ==
    ASSUME TypeInv, SetAccountActive
    PROVE  AccountBumped
  <1>1. user \in UserRow
    BY Typed
  <1>2. user'.version = user.version + 1
    BY <1>1 DEF SetAccountActive, Bumped, UserRow
  <1> QED
    BY <1>2 DEF SetAccountActive, AccountBumped

LEMMA UpgradeSame ==
    ASSUME TypeInv, NEW r \in Requests, UpgradePasswordHash(r)
    PROVE  AccountSame
  <1>1. user \in UserRow
    BY Typed
  <1>2. /\ user'.version = user.version /\ user'.pw = user.pw
        /\ user'.mustChange = user.mustChange /\ user'.active = user.active
    BY <1>1 DEF UpgradePasswordHash, UserRow
  <1>3. UNCHANGED <<mfa, method, codes, grants>>
    BY DEF UpgradePasswordHash, factors, oneTime
  <1> QED
    BY <1>2, <1>3 DEF AccountSame, ActiveMethods, RequiresMfaLogin

LEMMA TotpSame ==
    ASSUME TypeInv, NEW r \in Requests,
           \/ \E m \in TotpIds : StartTotpEnrollment(r, m)
           \/ \E m \in TotpIds, n \in Steps :
                 LoginTotp(r, m, n) \/ StepUpTotp(r, m, n)
    PROVE  AccountSame
  <1>1. UNCHANGED <<user, mfa, codes, grants>>
    BY DEF StartTotpEnrollment, LoginTotp, StepUpTotp, oneTime
  <1>2. ActiveMethods' = ActiveMethods
    BY ActiveKept DEF LoginTotp, StepUpTotp
  <1> QED
    BY <1>1, <1>2, SameWhenActiveKept

LEMMA QuietSame ==
    ASSUME NEW r \in Requests, QuietStep(r)
    PROVE  AccountSame /\ UNCHANGED store
  BY SameWhenUnchanged
     DEF QuietStep, LoginReadsMfa, LoadRegistration, ConfirmTotpReads,
         RegistrationReads, RegenerateReads, AcknowledgeReads,
         FactorReadsUser, LoadAuthentication, CompleteMfaLogin,
         StepUpPassword, LoginReadsAccount, Abandon, Admit, factors, oneTime

LEMMA SessionsAndRowsSame ==
    ASSUME SessionStep \/ ResetStep \/ RowStep
    PROVE  AccountSame
  BY SameWhenUnchanged
     DEF SessionStep, SaveSession, ContinueSession, RejectSession, Logout,
         ResetStep, RequestPasswordReset, DeliverReset, FailResetDelivery,
         RowStep, StartWebAuthnRegistration, LoginPasskeyStart,
         StepUpPasskeyStart, LoginPasskeyFinish, PasskeyCounterMoved,
         StepUpPasskeyFinish, IssueStepUp, factors, oneTime

LEMMA Accounts ==
    ASSUME TypeInv, Next
    PROVE  AccountMoves
  <1> USE DEF AccountMoves
  <1>1. CASE SessionStep \/ ResetStep \/ RowStep
             \/ \E r \in Requests : QuietStep(r)
    BY <1>1, SessionsAndRowsSame, QuietSame
  <1>2. CASE PasswordStep
    BY <1>2, UpgradeSame, NewPasswordBumps
       DEF PasswordStep, ReplacePassword, IssueTemporaryPassword,
           ConfirmPasswordReset
  <1>3. CASE AdminStep
    <2>1. CASE ChangeEmailOrRole
      BY <2>1, Typed DEF ChangeEmailOrRole, Bumped, UserRow, AccountBumped
    <2> QED
      BY <1>3, <2>1, IncrementBumps, ActiveFlagBumps
         DEF AdminStep, ResetUserMfa, SetSupportCapability, SetAdminCapability
  <1>4. CASE FactorStep
    BY <1>4, TotpSame, IncrementBumps
       DEF FactorStep, ConfirmTotpEnrollment, ConfirmWebAuthnRegistration,
           AddMethod, RegenerateRecoveryCodes, AcknowledgeRecoveryCodes,
           ConsumeRecoveryCode, RemoveOwnMethod, DisableOwnMfa
  <1> QED
    BY <1>1, <1>2, <1>3, <1>4, StepKinds

-----------------------------------------------------------------------------
(* An active factor is one a login has to show.                            *)

FactorsEnforced == ActiveMethods # {} => mfa.enforced

LEMMA NoMethodsActive ==
    ASSUME TypeInv, method' = NoMethods
    PROVE  ActiveMethods' = {}
  BY Typed DEF NoMethods, ActiveMethods, MethodRow

LEMMA EnforcedKept ==
    ASSUME TypeInv, FactorsEnforced, [Next]_vars
    PROVE  FactorsEnforced'
  <1>1. mfa \in SettingsRow /\ method \in [Methods -> MethodRow]
    BY Typed
  <1>2. CASE AccountSame
    BY <1>2 DEF AccountSame, FactorsEnforced
  <1>3. CASE UNCHANGED <<mfa, method>>
    BY <1>3 DEF FactorsEnforced, ActiveMethods
  <1>4. CASE \/ SessionStep \/ ResetStep \/ RowStep
             \/ \E r \in Requests : QuietStep(r)
    BY <1>2, <1>4, SessionsAndRowsSame, QuietSame
  <1>5. CASE PasswordStep
    BY <1>3, <1>5
       DEF PasswordStep, UpgradePasswordHash, ReplacePassword,
           IssueTemporaryPassword, ConfirmPasswordReset, factors
  <1>6. CASE AdminStep
    <2>1. CASE ResetUserMfa
      BY <2>1 DEF ResetUserMfa, FactorsEnforced
    <2>2. ASSUME NEW enabled \in BOOLEAN,
                 SetSupportCapability(enabled) \/ SetAdminCapability(enabled)
          PROVE  FactorsEnforced'
      <3>1. mfa.enforced => mfa'.enforced
        BY <1>1, <2>2
           DEF SetSupportCapability, SetAdminCapability, SettingsRow
      <3>2. ActiveMethods' = ActiveMethods
        BY <2>2 DEF SetSupportCapability, SetAdminCapability, ActiveMethods
      <3> QED
        BY <3>1, <3>2 DEF FactorsEnforced
    <2> QED
      BY <1>3, <1>6, <2>1, <2>2
         DEF AdminStep, SetAccountActive, ChangeEmailOrRole, factors
  <1>7. ASSUME NEW r \in Requests,
               \/ \E m \in TotpIds, n \in Steps : ConfirmTotpEnrollment(r, m, n)
               \/ \E m \in PasskeyIds : ConfirmWebAuthnRegistration(r, m)
               \/ AcknowledgeRecoveryCodes(r)
        PROVE  FactorsEnforced'
    <2>1. mfa'.enforced
      BY <1>1, <1>7
         DEF ConfirmTotpEnrollment, ConfirmWebAuthnRegistration, AddMethod,
             AcknowledgeRecoveryCodes, SettingsRow
    <2> QED
      BY <2>1 DEF FactorsEnforced
  <1>8. ASSUME NEW r \in Requests,
               \/ \E c \in Unspent : ConsumeRecoveryCode(r, c)
               \/ \E k \in DOMAIN stepUps : DisableOwnMfa(r, k)
        PROVE  FactorsEnforced'
    BY <1>8, NoMethodsActive
       DEF ConsumeRecoveryCode, DisableOwnMfa, FactorsEnforced
  <1>9. ASSUME NEW r \in Requests, RegenerateRecoveryCodes(r)
        PROVE  FactorsEnforced'
    BY <1>1, <1>9
       DEF RegenerateRecoveryCodes, FactorsEnforced, ActiveMethods, SettingsRow
  <1>10. ASSUME NEW r \in Requests, NEW m \in Methods,
                NEW k \in DOMAIN stepUps, RemoveOwnMethod(r, m, k)
         PROVE  FactorsEnforced'
    BY <1>10 DEF RemoveOwnMethod, FactorsEnforced
  <1> QED
    BY <1>2, <1>3, <1>4, <1>5, <1>6, <1>7, <1>8, <1>9, <1>10, StepKinds, TotpSame
       DEF vars, factors, FactorStep

LEMMA Enforced == Spec => []FactorsEnforced
  <1>1. ASSUME Init
        PROVE  FactorsEnforced
    <2>1. PICK on \in SUBSET Methods :
            /\ method = [m \in Methods |-> [NoMethod EXCEPT
                  !.st = IF m \in on THEN "active" ELSE @]]
            /\ mfa = [enforced |-> on # {}, completed |-> on # {},
                      acked |-> on # {}, policy |-> FALSE]
      BY <1>1, Zenon DEF Init
    <2>2. \A m \in Methods \ on : method[m].st = "none"
      BY <2>1 DEF NoMethod
    <2>3. mfa.enforced = (on # {})
      BY <2>1
    <2> QED
      BY <2>2, <2>3 DEF FactorsEnforced, ActiveMethods
  <1> QED
    BY <1>1, EnforcedKept, Typing, PTL DEF Spec

-----------------------------------------------------------------------------
(* Logins: what a request read, or a session was opened with, is true of   *)
(* the account as long as its version is the account's.  A request that    *)
(* showed a password and no more is past the restricted stages only where  *)
(* no second factor is asked for, or the password has to be changed first. *)

LoginStages == {"login", "upgraded", "save"}
EarlyStages == {"idle", "deliver", "login", "upgraded"}
CodesStages == {"regenerate", "acknowledge"}
OrdinaryStages ==
    {"normal", "enroll", "confirmFirst", "confirmMore", "register",
     "registerFirst", "registerMore", "passkeyStepUp", "stepUp", "issue"}
        \cup CodesStages
FactorStages == {"factor", "factorShown", "passkeyLogin"}

RequestLogin(q, u, required) ==
    /\ q.ver <= u.version
    /\ q.at \notin LoginStages => q.pw = NoPassword
    /\ q.at \in OrdinaryStages => q.auth # "challenge"
    /\ q.at \in FactorStages => q.auth = "challenge"
    /\ q.ver = u.version =>
          /\ q.pw # NoPassword => q.pw = u.pw
          /\ q.at \in {"login", "upgraded"} =>
                q.arg.mustChange = u.mustChange
          /\ q.at \in OrdinaryStages => ~u.mustChange
          /\ q.at \in CodesStages => required
          /\ (/\ q.by = "password" /\ q.at \notin EarlyStages
              /\ q.auth # "challenge") => u.mustChange \/ ~required

SessionLogin(s, u, required) ==
    /\ s.ver <= u.version
    /\ (s.kept /\ s.ver = u.version) =>
          /\ s.pw # NoPassword => s.pw = u.pw
          /\ (s.by = "password" /\ s.auth # "challenge") =>
                u.mustChange \/ ~required

LoginInv ==
    /\ \A r \in Requests : RequestLogin(req[r], user, RequiresMfaLogin)
    /\ \A s \in DOMAIN store :
          SessionLogin(store[s], user, RequiresMfaLogin)

RequestsFollow ==
    \A q \in Requests :
        req'[q] = req[q] \/ RequestLogin(req'[q], user', RequiresMfaLogin')

StoreFollows ==
    \A s \in DOMAIN store' :
        \/ s \in DOMAIN store /\ store'[s] = store[s]
        \/ SessionLogin(store'[s], user', RequiresMfaLogin')

LEMMA LoginFollows ==
    ASSUME TypeInv, LoginInv, AccountMoves, RequestsFollow, StoreFollows
    PROVE  LoginInv'
  <1>1. user.version \in Nat
    BY Columns, BoundsAssumption
  <1>2. ASSUME NEW r \in Requests, req'[r] = req[r]
        PROVE  RequestLogin(req'[r], user', RequiresMfaLogin')
    <2>1. req[r].ver \in Nat /\ RequestLogin(req[r], user, RequiresMfaLogin)
      BY Typed, BoundsAssumption DEF Request, LoginInv
    <2>2. CASE AccountSame
      BY <1>2, <2>1, <2>2 DEF AccountSame, RequestLogin
    <2>3. CASE AccountBumped
      BY <1>1, <1>2, <2>1, <2>3 DEF AccountBumped, RequestLogin
    <2> QED
      BY <2>2, <2>3 DEF AccountMoves
  <1>3. ASSUME NEW s \in DOMAIN store', s \in DOMAIN store,
               store'[s] = store[s]
        PROVE  SessionLogin(store'[s], user', RequiresMfaLogin')
    <2>1. store[s].ver \in Nat /\ SessionLogin(store[s], user, RequiresMfaLogin)
      BY <1>3, Columns, BoundsAssumption DEF LoginInv
    <2>2. CASE AccountSame
      BY <1>3, <2>1, <2>2 DEF AccountSame, SessionLogin
    <2>3. CASE AccountBumped
      BY <1>1, <1>3, <2>1, <2>3 DEF AccountBumped, SessionLogin
    <2> QED
      BY <2>2, <2>3 DEF AccountMoves
  <1> QED
    BY <1>2, <1>3 DEF RequestsFollow, StoreFollows, LoginInv

LEMMA OneFollows ==
    ASSUME TypeInv, NEW r \in Requests, NEW q,
           req' = [req EXCEPT ![r] = q],
           RequestLogin(q, user', RequiresMfaLogin')
    PROVE  RequestsFollow
  BY Typed DEF RequestsFollow

LEMMA StayFollows ==
    ASSUME UNCHANGED req
    PROVE  RequestsFollow
  BY DEF RequestsFollow

LEMMA Versions ==
    ASSUME TypeInv, AccountMoves
    PROVE  /\ user.version \in Nat /\ user'.version \in Nat
           /\ user.version <= user'.version
  <1>1. user.version \in Nat
    BY Columns, BoundsAssumption
  <1> QED
    BY <1>1 DEF AccountMoves, AccountSame, AccountBumped

LEMMA FinishFollows ==
    ASSUME TypeInv, AccountMoves, NEW r \in Requests, Finish(r)
    PROVE  RequestsFollow
  <1>1. RequestLogin(Idle, user', RequiresMfaLogin')
    BY Versions
       DEF Idle, RequestLogin, EarlyStages, OrdinaryStages, FactorStages,
           CodesStages
  <1> QED
    BY <1>1, OneFollows DEF Finish

(* What a request past its restricted stages carries.                      *)
LEMMA Carried ==
    ASSUME TypeInv, LoginInv, NEW r \in Requests
    PROVE  /\ req[r].ver \in Nat /\ req[r].ver <= user.version
           /\ RequestLogin(req[r], user, RequiresMfaLogin)
           /\ req[r].at \notin LoginStages => req[r].pw = NoPassword
  BY Typed, BoundsAssumption DEF LoginInv, RequestLogin, Request

(* A request goes on, with what it carries, to the next stage of its kind. *)
GoesOn(from, to) ==
    \/ from \in OrdinaryStages /\ to \in OrdinaryStages \ CodesStages
    \/ from \in OrdinaryStages /\ to \in CodesStages /\ RequiresMfaLogin
    \/ from \in FactorStages /\ to \in FactorStages

LEMMA StageFollows ==
    ASSUME TypeInv, LoginInv, AccountSame, NEW r \in Requests, NEW q,
           q.pw = req[r].pw, q.ver = req[r].ver, q.auth = req[r].auth,
           q.by = req[r].by, GoesOn(req[r].at, q.at),
           req' = [req EXCEPT ![r] = q]
    PROVE  RequestsFollow
  <1>1. RequestLogin(req[r], user, RequiresMfaLogin)
    BY Carried
  <1>2. req[r].at \notin LoginStages \cup EarlyStages
    BY DEF GoesOn, LoginStages, EarlyStages, OrdinaryStages, CodesStages,
           FactorStages
  <1>3. q.at \notin LoginStages \cup EarlyStages
    BY DEF GoesOn, LoginStages, EarlyStages, OrdinaryStages, CodesStages,
           FactorStages
  <1>4. \/ /\ req[r].at \in OrdinaryStages /\ q.at \in OrdinaryStages
           /\ q.at \notin FactorStages
           /\ q.at \in CodesStages => RequiresMfaLogin
        \/ /\ req[r].at \in FactorStages /\ q.at \in FactorStages
           /\ q.at \notin OrdinaryStages \cup CodesStages
    BY DEF GoesOn, OrdinaryStages, CodesStages, FactorStages
  <1>5. RequestLogin(q, user', RequiresMfaLogin')
    BY <1>1, <1>2, <1>3, <1>4 DEF RequestLogin, AccountSame, EarlyStages
  <1> QED
    BY <1>5, OneFollows

LEMMA GotoFollows ==
    ASSUME TypeInv, LoginInv, AccountSame, NEW r \in Requests, NEW at,
           GoesOn(req[r].at, at), Goto(r, at)
    PROVE  RequestsFollow
  <1> DEFINE q == [req[r] EXCEPT !.at = at]
  <1>1. req' = [req EXCEPT ![r] = q]
    BY Typed DEF Goto
  <1>2. /\ q.pw = req[r].pw /\ q.ver = req[r].ver /\ q.auth = req[r].auth
        /\ q.by = req[r].by /\ q.at = at
    BY Typed DEF Request
  <1> HIDE DEF q
  <1> QED
    BY <1>1, <1>2, StageFollows

LEMMA GotoWithFollows ==
    ASSUME TypeInv, LoginInv, AccountSame, NEW r \in Requests, NEW at,
           NEW arg, GoesOn(req[r].at, at), GotoWith(r, at, arg)
    PROVE  RequestsFollow
  <1> DEFINE q == [req[r] EXCEPT !.at = at, !.arg = arg]
  <1>1. req' = [req EXCEPT ![r] = q]
    BY Typed DEF GotoWith
  <1>2. /\ q.pw = req[r].pw /\ q.ver = req[r].ver /\ q.auth = req[r].auth
        /\ q.by = req[r].by /\ q.at = at
    BY Typed DEF Request
  <1> HIDE DEF q
  <1> QED
    BY <1>1, <1>2, StageFollows

(* A request about to save or to continue a session is all right when a    *)
(* factor was shown, or none is asked for.                                 *)
LEMMA OpeningFollows ==
    ASSUME TypeInv, LoginInv, AccountMoves, NEW r \in Requests, NEW q,
           req[r].at \notin LoginStages,
           q.at \in {"save", "continue"}, q.pw = req[r].pw,
           q.ver \in {req[r].ver, user'.version},
           q.by # "password" \/ user'.mustChange \/ ~RequiresMfaLogin',
           req' = [req EXCEPT ![r] = q]
    PROVE  RequestsFollow
  <1>1. q.ver <= user'.version /\ q.pw = NoPassword
    BY Carried, Versions
  <1>2. q.at \notin OrdinaryStages \cup FactorStages \cup CodesStages
                       \cup {"login", "upgraded"}
    BY DEF OrdinaryStages, FactorStages, CodesStages
  <1>3. RequestLogin(q, user', RequiresMfaLogin')
    BY <1>1, <1>2 DEF RequestLogin
  <1> QED
    BY <1>3, OneFollows

LEMMA ReopenFollows ==
    ASSUME TypeInv, LoginInv, AccountMoves, NEW r \in Requests,
           req[r].at \notin LoginStages, NEW auth, NEW grant, NEW by,
           by # "password" \/ user'.mustChange \/ ~RequiresMfaLogin',
           Reopen(r, auth, grant, by)
    PROVE  RequestsFollow
  <1> DEFINE q == [req[r] EXCEPT
                      !.at = "save", !.ver = user'.version, !.auth = auth,
                      !.grant = grant, !.by = by, !.arg = 0]
  <1>1. req' = [req EXCEPT ![r] = q]
    BY DEF Reopen
  <1>2. /\ q.at = "save" /\ q.pw = req[r].pw /\ q.ver = user'.version
        /\ q.by = by
    BY Typed DEF Request
  <1> HIDE DEF q
  <1> QED
    BY <1>1, <1>2, OpeningFollows

LEMMA StoreEnds ==
    ASSUME TypeInv, AccountMoves
    PROVE  /\ UNCHANGED store => StoreFollows
           /\ store' = NoSessions => StoreFollows
           /\ \A s : store' = [store EXCEPT ![s] = Gone] => StoreFollows
  <1>1. SessionLogin(Gone, user', RequiresMfaLogin')
    BY Versions DEF SessionLogin, Gone
  <1> QED
    BY <1>1, Typed, SeqElement DEF StoreFollows, NoSessions

LEMMA LoginReadsFollow ==
    ASSUME TypeInv, NEW r \in Requests, LoginReadsAccount(r)
    PROVE  RequestsFollow
  <1> DEFINE q == [Idle EXCEPT
                !.at = "login", !.ver = user.version, !.pw = user.pw,
                !.arg = [legacy |-> user.legacy,
                         mustChange |-> user.mustChange]]
  <1>1. req' = [req EXCEPT ![r] = q] /\ UNCHANGED user
    BY DEF LoginReadsAccount
  <1>2. /\ q.at = "login" /\ q.ver = user.version /\ q.pw = user.pw
        /\ q.arg.mustChange = user.mustChange
    BY DEF Idle
  <1> HIDE DEF q
  <1>3. RequestLogin(q, user', RequiresMfaLogin')
    BY <1>1, <1>2, Columns, BoundsAssumption
       DEF RequestLogin, LoginStages, EarlyStages, OrdinaryStages,
           FactorStages, CodesStages
  <1> QED
    BY <1>1, <1>3, Typed DEF RequestsFollow

LEMMA UpgradeFollows ==
    ASSUME TypeInv, LoginInv, NEW r \in Requests, UpgradePasswordHash(r)
    PROVE  RequestsFollow
  <1> DEFINE q == [req[r] EXCEPT !.at = "upgraded"]
  <1>1. req' = [req EXCEPT ![r] = q] /\ req[r].at = "login"
    BY Typed DEF UpgradePasswordHash, Goto
  <1>2. /\ q.at = "upgraded" /\ q.ver = req[r].ver /\ q.pw = req[r].pw
        /\ q.arg = req[r].arg
    BY Typed DEF Request
  <1> HIDE DEF q
  <1>3. RequestLogin(req[r], user, RequiresMfaLogin)
    BY DEF LoginInv
  <1>4. /\ user'.version = user.version /\ user'.pw = user.pw
        /\ user'.mustChange = user.mustChange
    BY UpgradeSame DEF AccountSame
  <1>5. RequestLogin(q, user', RequiresMfaLogin')
    BY <1>1, <1>2, <1>3, <1>4
       DEF RequestLogin, LoginStages, EarlyStages, OrdinaryStages,
           FactorStages, CodesStages
  <1> QED
    BY <1>1, <1>5, Typed DEF RequestsFollow

LEMMA LoginDecisionFollows ==
    ASSUME TypeInv, LoginInv, NEW r \in Requests, LoginReadsMfa(r)
    PROVE  RequestsFollow
  <1>1. /\ req[r].at \in {"login", "upgraded"} /\ req[r].arg \in LoginArg
        /\ RequestLogin(req[r], user, RequiresMfaLogin)
    BY Typed DEF LoginReadsMfa, ArgIn, LoginInv
  <1>2. PICK auth \in AuthStates :
          /\ req' = [req EXCEPT ![r] = [req[r] EXCEPT
                       !.at = "save", !.auth = auth, !.arg = 0]]
          /\ auth # "challenge" => req[r].arg.mustChange \/ ~RequiresMfaLogin
    BY <1>1, Typed DEF LoginReadsMfa, AuthStates, LoginArg
  <1> DEFINE q == [req[r] EXCEPT !.at = "save", !.auth = auth, !.arg = 0]
  <1>3. /\ q.at = "save" /\ q.ver = req[r].ver /\ q.pw = req[r].pw
        /\ q.auth = auth
    BY Typed DEF Request
  <1> HIDE DEF q
  <1>4. UNCHANGED user /\ RequiresMfaLogin' = RequiresMfaLogin
    BY DEF LoginReadsMfa, RequiresMfaLogin, ActiveMethods, factors
  <1>5. RequestLogin(q, user', RequiresMfaLogin')
    BY <1>1, <1>2, <1>3, <1>4
       DEF RequestLogin, LoginStages, OrdinaryStages, FactorStages, CodesStages
  <1> QED
    BY <1>2, <1>5, Typed DEF RequestsFollow, q

LEMMA AdmitFollows ==
    ASSUME TypeInv, LoginInv, NEW r \in Requests, NEW s \in DOMAIN store,
           NEW access \in Access, Admit(r, s, access)
    PROVE  RequestsFollow
  <1> DEFINE q == [at |-> access, sid |-> s, ver |-> store[s].ver,
                   auth |-> store[s].auth, grant |-> store[s].grant,
                   pw |-> NoPassword, by |-> store[s].by, arg |-> 0]
  <1>1. /\ req' = [req EXCEPT ![r] = q] /\ Live(s)
        /\ MayEnter(access, store[s], s)
    BY DEF Admit
  <1>2. UNCHANGED user /\ RequiresMfaLogin' = RequiresMfaLogin
    BY DEF Admit, RequiresMfaLogin, ActiveMethods, factors
  <1>3. /\ q.at = access /\ q.ver = store[s].ver /\ q.auth = store[s].auth
        /\ q.pw = NoPassword /\ q.by = store[s].by
    OBVIOUS
  <1> HIDE DEF q
  <1>4. /\ access \in OrdinaryStages => access \in {"normal", "enroll"}
        /\ access \notin FactorStages \cup CodesStages \cup LoginStages
    BY DEF Access, OrdinaryStages, FactorStages, CodesStages, LoginStages
  <1>5. /\ access \in {"normal", "enroll"} =>
              store[s].auth # "challenge" /\ ~user.mustChange
        /\ store[s].kept /\ store[s].ver = user.version
        /\ SessionLogin(store[s], user, RequiresMfaLogin)
    BY <1>1 DEF MayEnter, Live, LoginInv
  <1>6. RequestLogin(q, user', RequiresMfaLogin')
    BY <1>2, <1>3, <1>4, <1>5 DEF RequestLogin, SessionLogin, LoginStages
  <1> QED
    BY <1>1, <1>6, OneFollows

LEMMA FactorReadsFollow ==
    ASSUME TypeInv, LoginInv, NEW r \in Requests, FactorReadsUser(r)
    PROVE  RequestsFollow
  <1> DEFINE q == [req[r] EXCEPT !.at = "factor", !.ver = user.version]
  <1>1. /\ req' = [req EXCEPT ![r] = q] /\ UNCHANGED user
        /\ req[r].at = "challenge" /\ req[r].auth = "challenge"
    BY Typed DEF FactorReadsUser
  <1>2. /\ q.at = "factor" /\ q.ver = user.version
        /\ q.pw = req[r].pw /\ q.auth = req[r].auth
    BY Typed DEF Request
  <1> HIDE DEF q
  <1>3. req[r].pw = NoPassword /\ user.version <= user.version
    BY <1>1, Carried, Columns, BoundsAssumption DEF LoginStages
  <1>4. RequestLogin(q, user', RequiresMfaLogin')
    BY <1>1, <1>2, <1>3
       DEF RequestLogin, OrdinaryStages, FactorStages, CodesStages
  <1> QED
    BY <1>1, <1>4, OneFollows

LEMMA QuietFollows ==
    ASSUME TypeInv, FactorsEnforced, LoginInv, NEW r \in Requests, QuietStep(r)
    PROVE  RequestsFollow /\ StoreFollows
  <1>0. AccountSame /\ AccountMoves /\ UNCHANGED store
    BY QuietSame DEF AccountMoves
  <1> SUFFICES RequestsFollow
    BY <1>0, StoreEnds
  <1>1. CASE CompleteMfaLogin(r)
    <2>1. PICK auth :
            req' = [req EXCEPT ![r] = [req[r] EXCEPT
                       !.at = "save", !.auth = auth, !.grant = 0,
                       !.by = "factor", !.arg = 0]]
      BY <1>1, Typed DEF CompleteMfaLogin
    <2> DEFINE q == [req[r] EXCEPT !.at = "save", !.auth = auth, !.grant = 0,
                                   !.by = "factor", !.arg = 0]
    <2>2. /\ q.at = "save" /\ q.pw = req[r].pw /\ q.ver = req[r].ver
          /\ q.by = "factor"
      BY Typed DEF Request
    <2>3. req' = [req EXCEPT ![r] = q] /\ req[r].at \notin LoginStages
      BY <1>1, <2>1 DEF CompleteMfaLogin, LoginStages
    <2> HIDE DEF q
    <2> QED
      BY <1>0, <2>2, <2>3, OpeningFollows
  <1>2. CASE Abandon(r)
    BY <1>0, <1>2, FinishFollows DEF Abandon
  <1>3. CASE ConfirmTotpReads(r) \/ RegistrationReads(r)
    <2>1. PICK at \in {"confirmFirst", "confirmMore", "registerFirst",
                       "registerMore"} : Goto(r, at)
      BY <1>3 DEF ConfirmTotpReads, RegistrationReads
    <2>2. GoesOn(req[r].at, at)
      BY <1>3
         DEF ConfirmTotpReads, RegistrationReads, GoesOn, OrdinaryStages,
             CodesStages
    <2> QED
      BY <1>0, <2>1, <2>2, GotoFollows
  <1>4. CASE RegenerateReads(r) \/ AcknowledgeReads(r)
    <2>1. PICK at \in CodesStages : Goto(r, at)
      BY <1>4 DEF RegenerateReads, AcknowledgeReads, CodesStages
    <2>2. ActiveMethods # {} /\ req[r].at = "enroll"
      BY <1>4 DEF RegenerateReads, AcknowledgeReads
    <2>3. RequiresMfaLogin
      BY <2>2 DEF FactorsEnforced, RequiresMfaLogin
    <2>4. GoesOn(req[r].at, at)
      BY <2>2, <2>3 DEF GoesOn, OrdinaryStages
    <2> QED
      BY <1>0, <2>1, <2>4, GotoFollows
  <1>5. CASE \/ \E c \in DOMAIN challenges :
                  LoadRegistration(r, c) \/ LoadAuthentication(r, c)
             \/ \E act \in StepUpActions : StepUpPassword(r, act)
    <2>1. PICK at, arg : GotoWith(r, at, arg) /\ GoesOn(req[r].at, at)
      BY <1>5
         DEF LoadRegistration, LoadAuthentication, StepUpPassword, GoesOn,
             OrdinaryStages, CodesStages, FactorStages
    <2> QED
      BY <1>0, <2>1, GotoWithFollows
  <1> QED
    BY <1>1, <1>2, <1>3, <1>4, <1>5, LoginReadsFollow, LoginDecisionFollows,
       AdmitFollows, FactorReadsFollow
       DEF QuietStep

LEMMA SaveFollows ==
    ASSUME TypeInv, LoginInv, AccountMoves, NEW r \in Requests, SaveSession(r)
    PROVE  StoreFollows
  <1> DEFINE session == [kept |-> TRUE, ver |-> req[r].ver,
                         auth |-> req[r].auth, grant |-> req[r].grant,
                         pw |-> req[r].pw,
                         by |-> req[r].by]
             others == [s \in DOMAIN store |->
                           IF s = req[r].sid THEN Gone ELSE store[s]]
  <1>1. /\ req[r].at = "save" /\ store' = Append(others, session)
        /\ UNCHANGED user /\ RequiresMfaLogin' = RequiresMfaLogin
    BY DEF SaveSession, RequiresMfaLogin, ActiveMethods, factors
  <1>2. SessionLogin(session, user', RequiresMfaLogin')
    BY <1>1 DEF LoginInv, RequestLogin, SessionLogin, EarlyStages
  <1>3. SessionLogin(Gone, user', RequiresMfaLogin')
    BY Versions DEF SessionLogin, Gone
  <1>4. store \in Seq(SessionRow) /\ Gone \in SessionRow
    BY Typed, GoneIsSession
  <1>5. /\ others \in Seq(SessionRow) /\ Len(others) = Len(store)
        /\ DOMAIN others = DOMAIN store
    <2>1. others \in [DOMAIN store -> SessionRow]
      BY <1>4, SeqElement
    <2> HIDE DEF others
    <2> QED
      BY <1>4, <2>1, SeqOnDomain
  <1>6. \A s \in DOMAIN store : others[s] \in {Gone, store[s]}
    OBVIOUS
  <1> HIDE DEF session, others
  <1>7. /\ DOMAIN store' = DOMAIN store \cup {Len(store) + 1}
        /\ store'[Len(store) + 1] = session
        /\ \A s \in DOMAIN store : store'[s] \in {Gone, store[s]}
    BY <1>1, <1>5, <1>6
  <1> QED
    BY <1>2, <1>3, <1>7 DEF StoreFollows

LEMMA ContinueFollows ==
    ASSUME TypeInv, LoginInv, AccountMoves, NEW r \in Requests,
           ContinueSession(r)
    PROVE  StoreFollows
  <1> DEFINE session == [kept |-> TRUE, ver |-> req[r].ver,
                         auth |-> req[r].auth, grant |-> req[r].grant,
                         pw |-> NoPassword,
                         by |-> req[r].by]
  <1>1. /\ store' = [store EXCEPT ![req[r].sid] = session]
        /\ req[r].at = "continue" /\ UNCHANGED user
        /\ RequiresMfaLogin' = RequiresMfaLogin
    BY DEF ContinueSession, RequiresMfaLogin, ActiveMethods, factors
  <1>2. RequestLogin(req[r], user, RequiresMfaLogin)
    BY Carried
  <1>3. SessionLogin(session, user', RequiresMfaLogin')
    BY <1>1, <1>2 DEF RequestLogin, SessionLogin, EarlyStages
  <1> HIDE DEF session
  <1> QED
    BY <1>1, <1>3, Typed DEF StoreFollows

(* A transaction that keeps what the session showed never takes a password *)
(* alone for enough where a factor is asked for.                           *)
LEMMA StillEnough ==
    ASSUME TypeInv, LoginInv, NEW r \in Requests,
           req[r].at \in OrdinaryStages, StillBy(r) = "password"
    PROVE  ~RequiresMfaLogin /\ req[r].at \notin CodesStages
  <1>1. /\ req[r].by = "password" /\ req[r].ver = user.version
        /\ req[r].at \notin EarlyStages
    BY DEF StillBy, OrdinaryStages, CodesStages, EarlyStages
  <1> QED
    BY <1>1, Carried DEF RequestLogin

LEMMA FactorFollows ==
    ASSUME TypeInv, FactorsEnforced, LoginInv, AccountMoves, FactorStep
    PROVE  RequestsFollow /\ StoreFollows
  <1>1. UNCHANGED store \/ store' = NoSessions
    BY DEF FactorStep, StartTotpEnrollment, ConfirmTotpEnrollment, LoginTotp,
           StepUpTotp, ConfirmWebAuthnRegistration, AddMethod,
           RegenerateRecoveryCodes, AcknowledgeRecoveryCodes,
           ConsumeRecoveryCode, RemoveOwnMethod, DisableOwnMfa,
           incrementSessionVersion
  <1>2. ASSUME NEW r \in Requests, NEW c \in Unspent, ConsumeRecoveryCode(r, c)
        PROVE  RequestsFollow
    <2> DEFINE q == [req[r] EXCEPT
               !.at = "continue", !.ver = user'.version, !.auth = "recovery",
               !.grant = Len(grants) + 1, !.by = "factor"]
    <2>1. req' = [req EXCEPT ![r] = q] /\ req[r].at \notin LoginStages
      BY <1>2, Typed DEF ConsumeRecoveryCode, LoginStages
    <2>2. /\ q.at = "continue" /\ q.pw = req[r].pw
          /\ q.ver = user'.version /\ q.by = "factor"
      BY Typed DEF Request
    <2> HIDE DEF q
    <2> QED
      BY <2>1, <2>2, OpeningFollows
  <1>3. ASSUME NEW r \in Requests,
               \/ \E m \in TotpIds, n \in Steps : ConfirmTotpEnrollment(r, m, n)
               \/ \E m \in PasskeyIds : ConfirmWebAuthnRegistration(r, m)
        PROVE  RequestsFollow
    BY <1>3, ReopenFollows
       DEF ConfirmTotpEnrollment, ConfirmWebAuthnRegistration, AddMethod,
           LoginStages
  <1>4. ASSUME NEW r \in Requests,
               RegenerateRecoveryCodes(r) \/ AcknowledgeRecoveryCodes(r)
        PROVE  RequestsFollow
    <2>1. PICK auth, grant : Reopen(r, auth, grant, StillBy(r))
      BY <1>4 DEF RegenerateRecoveryCodes, AcknowledgeRecoveryCodes
    <2>2. req[r].at \in CodesStages /\ req[r].at \notin LoginStages
      BY <1>4
         DEF RegenerateRecoveryCodes, AcknowledgeRecoveryCodes, CodesStages,
             LoginStages
    <2>3. StillBy(r) # "password"
      BY <2>2, StillEnough DEF OrdinaryStages
    <2> QED
      BY <2>1, <2>2, <2>3, ReopenFollows
  <1>5. ASSUME NEW r \in Requests, NEW m \in Methods,
               NEW k \in DOMAIN stepUps, RemoveOwnMethod(r, m, k)
        PROVE  RequestsFollow
    <2>1. /\ Reopen(r, "authenticated", 0, StillBy(r))
          /\ req[r].at = "normal" /\ ActiveMethods # {}
      BY <1>5 DEF RemoveOwnMethod
    <2>2. RequiresMfaLogin
      BY <2>1 DEF FactorsEnforced, RequiresMfaLogin
    <2>3. StillBy(r) # "password"
      BY <2>1, <2>2, StillEnough DEF OrdinaryStages
    <2> QED
      BY <2>1, <2>3, ReopenFollows DEF LoginStages
  <1>6. ASSUME NEW r \in Requests, NEW k \in DOMAIN stepUps,
               DisableOwnMfa(r, k)
        PROVE  RequestsFollow
    <2>1. /\ Reopen(r, "authenticated", 0, StillBy(r))
          /\ req[r].at = "normal" /\ ~RequiresMfaLogin'
      BY <1>6 DEF DisableOwnMfa, RequiresMfaLogin
    <2> QED
      BY <2>1, ReopenFollows DEF LoginStages
  <1>7. ASSUME NEW r \in Requests, NEW m \in TotpIds,
               \/ StartTotpEnrollment(r, m)
               \/ \E n \in Steps : LoginTotp(r, m, n) \/ StepUpTotp(r, m, n)
        PROVE  RequestsFollow
    <2>1. AccountSame
      BY <1>7, TotpSame
    <2>2. \/ Finish(r)
          \/ \E at : Goto(r, at) /\ GoesOn(req[r].at, at)
      BY <1>7
         DEF StartTotpEnrollment, LoginTotp, StepUpTotp, GoesOn,
             OrdinaryStages, CodesStages, FactorStages
    <2> QED
      BY <2>1, <2>2, FinishFollows, GotoFollows
  <1> QED
    BY <1>1, <1>2, <1>3, <1>4, <1>5, <1>6, <1>7, StoreEnds DEF FactorStep

LEMMA ResetRequestFollows ==
    ASSUME TypeInv, AccountMoves, NEW r \in Requests, RequestPasswordReset(r)
    PROVE  RequestsFollow
  <1> DEFINE q == [Idle EXCEPT !.at = "deliver", !.arg = Len(resets) + 1]
  <1>1. req' = [req EXCEPT ![r] = q]
    BY DEF RequestPasswordReset
  <1>2. q.at = "deliver" /\ q.ver = 0 /\ q.pw = NoPassword
    BY DEF Idle
  <1> HIDE DEF q
  <1>3. RequestLogin(q, user', RequiresMfaLogin')
    BY <1>2, Versions
       DEF RequestLogin, EarlyStages, OrdinaryStages, FactorStages, CodesStages
  <1> QED
    BY <1>1, <1>3, OneFollows

LEMMA ReplaceFollows ==
    ASSUME TypeInv, LoginInv, NEW r \in Requests, NEW p \in Passwords,
           ReplacePassword(r, p)
    PROVE  RequestsFollow
  <1> DEFINE q == [req[r] EXCEPT
              !.at = "save", !.ver = user'.version, !.auth = "authenticated",
              !.grant = 0, !.pw = p, !.by = ChangeBy(r), !.arg = 0]
  <1>1. /\ req' = [req EXCEPT ![r] = q] /\ NewPassword(p, FALSE)
        /\ req[r].at \in {"normal", "change"}
    BY DEF ReplacePassword
  <1>2. /\ q.at = "save" /\ q.ver = user'.version /\ q.pw = p
        /\ q.by = ChangeBy(r)
    BY Typed DEF Request
  <1> HIDE DEF q
  <1>3. user'.pw = p /\ user'.version \in Nat
    <2>1. user'.pw = p /\ user' \in UserRow
      BY <1>1, NewPasswordTypes
    <2> QED
      BY <2>1, BoundsAssumption DEF UserRow
  <1>4. RequiresMfaLogin' = RequiresMfaLogin
    BY DEF ReplacePassword, RequiresMfaLogin, ActiveMethods, factors
  <1>5. ChangeBy(r) = "password" => ~RequiresMfaLogin
    <2>1. CASE req[r].at = "normal"
      BY <2>1, StillEnough DEF ChangeBy, OrdinaryStages
    <2>2. CASE req[r].at = "change"
      BY <2>2 DEF ChangeBy, StillBy
    <2> QED
      BY <1>1, <2>1, <2>2
  <1>6. RequestLogin(q, user', RequiresMfaLogin')
    BY <1>2, <1>3, <1>4, <1>5
       DEF RequestLogin, LoginStages, OrdinaryStages, FactorStages, CodesStages
  <1> QED
    BY <1>1, <1>6, OneFollows

LEMMA OthersFollow ==
    ASSUME TypeInv, LoginInv, AccountMoves,
           \/ SessionStep \/ PasswordStep \/ ResetStep \/ RowStep
           \/ AdminStep
    PROVE  RequestsFollow /\ StoreFollows
  <1>1. CASE SessionStep
    BY <1>1, SaveFollows, ContinueFollows, FinishFollows, StayFollows, StoreEnds
       DEF SessionStep, SaveSession, ContinueSession, RejectSession, Logout
  <1>2. CASE PasswordStep
    <2>1. UNCHANGED store \/ store' = NoSessions
      BY <1>2
         DEF PasswordStep, UpgradePasswordHash, ReplacePassword,
             IssueTemporaryPassword, ConfirmPasswordReset, NewPassword
    <2>2. RequestsFollow
      BY <1>2, ReplaceFollows, UpgradeFollows, StayFollows
         DEF PasswordStep, IssueTemporaryPassword, ConfirmPasswordReset
    <2> QED
      BY <2>1, <2>2, StoreEnds
  <1>3. CASE ResetStep
    BY <1>3, ResetRequestFollows, FinishFollows, StoreEnds
       DEF ResetStep, RequestPasswordReset, DeliverReset, FailResetDelivery
  <1>4. CASE RowStep
    <2>1. AccountSame /\ UNCHANGED store
      BY <1>4, SessionsAndRowsSame
         DEF RowStep, StartWebAuthnRegistration, LoginPasskeyStart,
             StepUpPasskeyStart, LoginPasskeyFinish, PasskeyCounterMoved,
             StepUpPasskeyFinish, IssueStepUp
    <2>2. PICK r \in Requests :
            \/ Finish(r)
            \/ LoginPasskeyFinish(r) \/ StepUpPasskeyFinish(r)
      BY <1>4
         DEF RowStep, StartWebAuthnRegistration, LoginPasskeyStart,
             StepUpPasskeyStart, PasskeyCounterMoved, IssueStepUp
    <2>3. CASE LoginPasskeyFinish(r)
      BY <2>1, <2>3, GotoFollows, StoreEnds
         DEF LoginPasskeyFinish, GoesOn, FactorStages
    <2>4. CASE StepUpPasskeyFinish(r)
      BY <2>1, <2>4, GotoWithFollows, StoreEnds
         DEF StepUpPasskeyFinish, GoesOn, OrdinaryStages, CodesStages
    <2> QED
      BY <2>1, <2>2, <2>3, <2>4, FinishFollows, StoreEnds
  <1>5. CASE AdminStep
    BY <1>5, StayFollows, StoreEnds
       DEF AdminStep, ResetUserMfa, SetSupportCapability, SetAdminCapability,
           SetAccountActive, ChangeEmailOrRole, incrementSessionVersion
  <1> QED
    BY <1>1, <1>2, <1>3, <1>4, <1>5

LEMMA LoginKept ==
    ASSUME TypeInv, FactorsEnforced, LoginInv, [Next]_vars
    PROVE  LoginInv'
  <1>1. CASE UNCHANGED vars
    BY <1>1 DEF vars, factors, LoginInv, RequiresMfaLogin, ActiveMethods
  <1>2. CASE Next
    <2>1. AccountMoves
      BY <1>2, Accounts
    <2>2. RequestsFollow /\ StoreFollows
      BY <1>2, <2>1, StepKinds, QuietFollows, FactorFollows, OthersFollow
    <2> QED
      BY <2>1, <2>2, LoginFollows
  <1> QED
    BY <1>1, <1>2

LEMMA LoginInitially ==
    ASSUME Init
    PROVE  LoginInv
  <1>1. RequestLogin(Idle, user, RequiresMfaLogin)
    BY DEF Init, RequestLogin, Idle, EarlyStages, OrdinaryStages,
           FactorStages, CodesStages
  <1> QED
    BY <1>1 DEF Init, LoginInv

LEMMA Logins == Spec => []LoginInv
  BY LoginInitially, LoginKept, Typing, Enforced, PTL DEF Spec

(* A session that a login or a password change opened is usable only under *)
(* the password it was opened with.                                        *)
THEOREM LoginsAreCurrent == Spec => []LoginSessionsAreCurrent
  <1>1. LoginInv => LoginSessionsAreCurrent
    BY DEF LoginInv, SessionLogin, LoginSessionsAreCurrent, Live
  <1> QED
    BY <1>1, Logins, PTL

(* No usable session of an account that by now has to show a second factor *)
(* showed a password and no more, but for the two cases the property names:*)
(* the required password change and the request that was too late.         *)
THEOREM NoFactorSkipped == Spec => []SecondFactorIsNotSkipped
  <1>1. LoginInv => SecondFactorIsNotSkipped
    BY DEF LoginInv, SessionLogin, SecondFactorIsNotSkipped, Live
  <1> QED
    BY <1>1, Logins, PTL

-----------------------------------------------------------------------------
(* Closing sessions *)

SessionsClose ==
    (\/ user'.pw # user.pw
     \/ user'.active # user.active
     \/ ActiveMethods' # ActiveMethods
     \/ mfa'.acked # mfa.acked) => \A s \in DOMAIN store : ~Live(s)'

(* No session of the version before lets anybody in.                       *)
LEMMA BumpCloses ==
    ASSUME TypeInv, LoginInv, AccountBumped
    PROVE  \A s \in DOMAIN store' : ~Live(s)'
  <1>1. user.version \in Nat /\ user'.version = user.version + 1
    BY Columns, BoundsAssumption DEF AccountBumped
  <1>2. ASSUME NEW s \in DOMAIN store, UNCHANGED store
        PROVE  ~Live(s)'
    <2>1. store[s].ver <= user.version /\ store[s].ver \in Nat
      BY Columns, BoundsAssumption DEF LoginInv, SessionLogin
    <2> QED
      BY <1>1, <1>2, <2>1 DEF Live
  <1>3. ASSUME store' = NoSessions, NEW s \in DOMAIN store'
        PROVE  ~Live(s)'
    BY <1>3 DEF Live, NoSessions, Gone
  <1> QED
    BY <1>2, <1>3 DEF AccountBumped

LEMMA SessionsClosing ==
    ASSUME TypeInv, LoginInv, Next
    PROVE  SessionsClose
  <1>1. CASE AccountSame
    BY <1>1 DEF AccountSame, SessionsClose
  <1>2. CASE AccountBumped
    <2>1. DOMAIN store' = DOMAIN store
      BY <1>2 DEF AccountBumped, NoSessions
    <2> QED
      BY <1>2, <2>1, BumpCloses DEF SessionsClose
  <1> QED
    BY <1>1, <1>2, Accounts DEF AccountMoves

(* A change of password, of the account's being active, of its factors or  *)
(* of their acknowledged codes leaves no earlier session usable.           *)
THEOREM SessionsAreClosed == Spec => IdentityChangesCloseSessions
  <1>1. TypeInv /\ LoginInv /\ [Next]_vars => [SessionsClose]_vars
    BY SessionsClosing
  <1> QED
    BY <1>1, Typing, Logins, PTL
       DEF Spec, IdentityChangesCloseSessions, SessionsClose

-----------------------------------------------------------------------------
(* The refinement of AccountAccess                                         *)

LEMMA WayIn ==
    \A w : w \in Ways <=>
        \E s \in DOMAIN store, a \in Access :
            /\ Live(s) /\ MayEnter(a, store[s], s)
            /\ w = [session |-> s, shown |-> store[s].pw, by |-> store[s].by,
                    purpose |-> a]
  BY DEF Ways, WaysOf

(* A session one may enter with showed nothing but the current password,   *)
(* and is good for that purpose.                                           *)
EntryIsEarned ==
    \A s \in DOMAIN store, a \in Access :
        Live(s) /\ MayEnter(a, store[s], s) =>
            /\ user.active
            /\ store[s].pw \in {NoPassword, user.pw}
            /\ store[s].by \in Proofs
            /\ Entry!Good(store[s].by, a)

LEMMA EntryIsAlwaysEarned == TypeInv /\ LoginInv => EntryIsEarned
  <1> SUFFICES ASSUME TypeInv, LoginInv,
                      NEW s \in DOMAIN store, NEW a \in Access,
                      Live(s), MayEnter(a, store[s], s)
               PROVE  /\ user.active
                      /\ store[s].pw \in {NoPassword, user.pw}
                      /\ store[s].by \in Proofs
                      /\ Entry!Good(store[s].by, a)
    BY DEF EntryIsEarned
  <1>1. /\ store[s].kept /\ user.active /\ store[s].ver = user.version
        /\ store[s].auth \in AuthStates /\ store[s].by \in Proofs
    BY Columns DEF Live
  <1>2. /\ store[s].pw # NoPassword => store[s].pw = user.pw
        /\ (store[s].by = "password" /\ store[s].auth # "challenge") =>
              user.mustChange \/ ~RequiresMfaLogin
    BY <1>1 DEF LoginInv, SessionLogin
  <1>3. user.mustChange => a = "change"
    BY DEF MayEnter
  <1>4. a = "normal" => store[s].auth = "authenticated" /\ ~MustEnrol
    BY <1>1 DEF MayEnter, AuthStates, MustEnrol
  <1>5. Entry!Good(store[s].by, a)
    BY <1>2, <1>3, <1>4 DEF Entry!Good, Account
  <1> QED
    BY <1>1, <1>2, <1>5

LEMMA AccountTyped ==
    ASSUME TypeInv
    PROVE  Account \in Entry!Account
  <1>1. ActiveMethods \subseteq Methods
    BY DEF ActiveMethods
  <1>2. /\ user.pw \in Passwords /\ user.active \in BOOLEAN
        /\ user.mustChange \in BOOLEAN /\ mfa.acked \in BOOLEAN
    BY Typed DEF UserRow, SettingsRow
  <1>3. RequiresMfaLogin \in BOOLEAN /\ MustEnrol \in BOOLEAN
    BY Typed DEF RequiresMfaLogin, MustEnrol, SettingsRow
  <1> QED
    BY <1>1, <1>2, <1>3 DEF Account, Entry!Account

AccountIsTyped == Account \in Entry!Account

LEMMA AccountIsAlwaysTyped == TypeInv => AccountIsTyped
  BY AccountTyped DEF AccountIsTyped

LEMMA SameAccount ==
    ASSUME AccountSame
    PROVE  /\ Account' = Account
           /\ Enrolled' <=> Enrolled
           /\ PolicyRequired' <=> PolicyRequired
           /\ EnrollmentIncomplete' <=> EnrollmentIncomplete
  <1>1. /\ Enrolled' <=> Enrolled
        /\ PolicyRequired' <=> PolicyRequired
    BY DEF AccountSame, Enrolled, PolicyRequired
  <1>2. EnrollmentIncomplete' <=> EnrollmentIncomplete
    BY <1>1 DEF AccountSame, EnrollmentIncomplete
  <1>3. MustEnrol' = MustEnrol
    BY DEF AccountSame, MustEnrol, Enrolled, PolicyRequired,
           EnrollmentIncomplete
  <1>4. Account' = Account
    BY <1>3 DEF AccountSame, Account
  <1> QED
    BY <1>1, <1>2, <1>4

(* A session that stays lets in for what it did.                           *)
LEMMA SameSession ==
    ASSUME AccountSame, NEW s, store'[s] = store[s], NEW a
    PROVE  /\ Live(s)' <=> Live(s)
           /\ MayEnter(a, store[s], s)' <=> MayEnter(a, store[s], s)
  <1>1. Live(s)' <=> Live(s)
    BY DEF AccountSame, Live
  <1>2. GrantValid(store[s].grant, s)' <=> GrantValid(store[s].grant, s)
    BY DEF AccountSame, GrantValid
  <1>3. user'.mustChange = user.mustChange
    BY DEF AccountSame
  <1>4. MayEnter(a, store[s], s)' <=> MayEnter(a, store[s], s)
    BY <1>2, <1>3, SameAccount DEF MayEnter
  <1> QED
    BY <1>1, <1>4

Stays(s) == s \in DOMAIN store /\ store'[s] = store[s]

LEMMA WaysClose ==
    ASSUME AccountSame, \A s \in DOMAIN store' : ~Live(s)' \/ Stays(s)
    PROVE  Entry!AccessNext
  <1>1. ASSUME NEW w \in Ways'
        PROVE  w \in Ways
    <2>1. PICK s \in DOMAIN store', a \in Access :
             /\ Live(s)' /\ MayEnter(a, store[s], s)'
             /\ w = [session |-> s, shown |-> store'[s].pw,
                      by |-> store'[s].by, purpose |-> a]
      BY <1>1 DEF Ways, WaysOf
    <2>2. s \in DOMAIN store /\ store'[s] = store[s]
      BY <2>1 DEF Stays
    <2>3. Live(s) /\ MayEnter(a, store[s], s)
      BY <2>1, <2>2, SameSession
    <2> QED
      BY <2>1, <2>2, <2>3, WayIn
  <1>2. Account' = Account
    BY SameAccount
  <1> QED
    BY <1>1, <1>2 DEF Entry!AccessNext, Entry!Close

LEMMA WaysOpen ==
    ASSUME AccountSame, EntryIsEarned', NEW n \in DOMAIN store',
           \A s \in DOMAIN store' \ {n} : ~Live(s)' \/ Stays(s)
    PROVE  Entry!AccessNext
  <1>1. CASE \A a \in Access : ~(Live(n)' /\ MayEnter(a, store[n], n)')
    <2>1. ASSUME NEW w \in Ways'
          PROVE  w \in Ways
      <3>1. PICK s \in DOMAIN store', a \in Access :
               /\ Live(s)' /\ MayEnter(a, store[s], s)'
               /\ w = [session |-> s, shown |-> store'[s].pw,
                        by |-> store'[s].by, purpose |-> a]
        BY <2>1 DEF Ways, WaysOf
      <3>2. s # n
        BY <1>1, <3>1
      <3>3. s \in DOMAIN store /\ store'[s] = store[s]
        BY <3>1, <3>2 DEF Stays
      <3>4. Live(s) /\ MayEnter(a, store[s], s)
        BY <3>1, <3>3, SameSession
      <3> QED
        BY <3>1, <3>3, <3>4, WayIn
    <2>2. Account' = Account
      BY SameAccount
    <2> QED
      BY <2>1, <2>2 DEF Entry!AccessNext, Entry!Close
  <1>2. CASE \E a \in Access : Live(n)' /\ MayEnter(a, store[n], n)'
    <2>1. PICK b \in Access : Live(n)' /\ MayEnter(b, store[n], n)'
      BY <1>2
    <2> DEFINE v == [session |-> n, shown |-> store'[n].pw,
                     by |-> store'[n].by, purpose |-> b]
    <2>2. v \in Ways'
      BY <2>1 DEF Ways, WaysOf
    <2>3. /\ user'.active /\ store'[n].pw \in {NoPassword, user'.pw}
          /\ store'[n].by \in Proofs
      BY <2>1 DEF EntryIsEarned
    <2>4. Account' = Account /\ Account.on = user'.active
          /\ Account.password = user'.pw
      BY SameAccount DEF Account, AccountSame
    <2>5. ASSUME NEW w \in Ways'
          PROVE  \/ w \in Ways /\ w.session # n
                 \/ /\ w.session = n /\ w.shown = store'[n].pw
                    /\ w.by = store'[n].by
                    /\ Entry!Good(store'[n].by, w.purpose)
      <3>1. PICK s \in DOMAIN store', a \in Access :
               /\ Live(s)' /\ MayEnter(a, store[s], s)'
               /\ w = [session |-> s, shown |-> store'[s].pw,
                        by |-> store'[s].by, purpose |-> a]
        BY <2>5 DEF Ways, WaysOf
      <3>2. CASE s = n
        <4>1. Entry!Good(store[n].by, a)'
          BY <3>1, <3>2 DEF EntryIsEarned
        <4>2. Entry!Good(store'[n].by, a)
          BY <2>4, <4>1 DEF Entry!Good
        <4> QED
          BY <3>1, <3>2, <4>2
      <3>3. CASE s # n
        <4>1. s \in DOMAIN store /\ store'[s] = store[s]
          BY <3>1, <3>3 DEF Stays
        <4>2. Live(s) /\ MayEnter(a, store[s], s)
          BY <3>1, <4>1, SameSession
        <4> QED
          BY <3>1, <3>3, <4>1, <4>2, WayIn
      <3> QED
        BY <3>2, <3>3
    <2>6. Entry!LetIn(n, store'[n].pw, store'[n].by)
      BY <2>3, <2>4, <2>5 DEF Entry!LetIn
    <2>7. v.session = n /\ v.shown = store'[n].pw /\ v.by = store'[n].by
      OBVIOUS
    <2> HIDE DEF v
    <2> QED
      BY <2>2, <2>6, <2>7 DEF Entry!AccessNext
  <1> QED
    BY <1>1, <1>2

LEMMA StoreMoves ==
    ASSUME Next
    PROVE  SessionStep \/ UNCHANGED store \/ store' = NoSessions
  <1>1. CASE \E r \in Requests : QuietStep(r)
    BY <1>1
       DEF QuietStep, LoginReadsMfa, LoadRegistration, ConfirmTotpReads,
           RegistrationReads, RegenerateReads, AcknowledgeReads,
           FactorReadsUser, LoadAuthentication, CompleteMfaLogin,
           StepUpPassword, LoginReadsAccount, Abandon, Admit
  <1>2. CASE FactorStep
    BY <1>2
       DEF FactorStep, StartTotpEnrollment, ConfirmTotpEnrollment, LoginTotp,
           StepUpTotp, ConfirmWebAuthnRegistration, AddMethod,
           RegenerateRecoveryCodes, AcknowledgeRecoveryCodes,
           ConsumeRecoveryCode, RemoveOwnMethod, DisableOwnMfa,
           incrementSessionVersion
  <1>3. CASE PasswordStep
    BY <1>3
       DEF PasswordStep, UpgradePasswordHash, ReplacePassword,
           IssueTemporaryPassword, ConfirmPasswordReset, NewPassword
  <1>4. CASE ResetStep \/ RowStep
    BY <1>4
       DEF ResetStep, RequestPasswordReset, DeliverReset, FailResetDelivery,
           RowStep, StartWebAuthnRegistration, LoginPasskeyStart,
           StepUpPasskeyStart, LoginPasskeyFinish, PasskeyCounterMoved,
           StepUpPasskeyFinish, IssueStepUp
  <1>5. CASE AdminStep
    BY <1>5
       DEF AdminStep, ResetUserMfa, SetSupportCapability, SetAdminCapability,
           SetAccountActive, ChangeEmailOrRole, incrementSessionVersion
  <1> QED
    BY <1>1, <1>2, <1>3, <1>4, <1>5, StepKinds

(* The request's old session goes and one more is appended.                *)
LEMMA SavedStore ==
    ASSUME TypeInv, NEW r \in Requests, SaveSession(r)
    PROVE  \E n \in DOMAIN store' :
              \A s \in DOMAIN store' \ {n} : ~Live(s)' \/ Stays(s)
  <1> DEFINE session == [kept |-> TRUE, ver |-> req[r].ver,
                         auth |-> req[r].auth, grant |-> req[r].grant,
                         pw |-> req[r].pw,
                         by |-> req[r].by]
             others == [s \in DOMAIN store |->
                           IF s = req[r].sid THEN Gone ELSE store[s]]
  <1>1. store' = Append(others, session)
    BY DEF SaveSession
  <1>2. store \in Seq(SessionRow) /\ Gone \in SessionRow
    BY Typed, GoneIsSession
  <1>3. /\ others \in Seq(SessionRow) /\ Len(others) = Len(store)
        /\ DOMAIN others = DOMAIN store
    <2>1. others \in [DOMAIN store -> SessionRow]
      BY <1>2, SeqElement
    <2> HIDE DEF others
    <2> QED
      BY <1>2, <2>1, SeqOnDomain
  <1>4. \A s \in DOMAIN store : others[s] \in {Gone, store[s]}
    OBVIOUS
  <1> HIDE DEF session, others
  <1>5. /\ DOMAIN store' = DOMAIN store \cup {Len(store) + 1}
        /\ \A s \in DOMAIN store : store'[s] \in {Gone, store[s]}
    BY <1>1, <1>3, <1>4
  <1>6. \A s \in DOMAIN store : ~Live(s)' \/ Stays(s)
    BY <1>5 DEF Live, Gone, Stays
  <1> QED
    BY <1>5, <1>6

LEMMA SessionEnters ==
    ASSUME TypeInv, AccountSame, EntryIsEarned', SessionStep
    PROVE  Entry!AccessNext
  <1>1. ASSUME NEW r \in Requests, SaveSession(r)
        PROVE  Entry!AccessNext
    BY <1>1, SavedStore, WaysOpen
  <1>2. ASSUME NEW r \in Requests, ContinueSession(r)
        PROVE  Entry!AccessNext
    <2>1. DOMAIN store' = DOMAIN store
          /\ \A s \in DOMAIN store \ {req[r].sid} : store'[s] = store[s]
      BY <1>2, Typed DEF ContinueSession
    <2>2. CASE req[r].sid \in DOMAIN store
      BY <2>1, <2>2, WaysOpen DEF Stays
    <2>3. CASE req[r].sid \notin DOMAIN store
      BY <2>1, <2>3, WaysClose DEF Stays
    <2> QED
      BY <2>2, <2>3
  <1>3. ASSUME NEW n \in DOMAIN store, RejectSession(n) \/ Logout(n)
        PROVE  Entry!AccessNext
    <2>1. /\ DOMAIN store' = DOMAIN store
          /\ store'[n] = Gone
          /\ \A s \in DOMAIN store \ {n} : store'[s] = store[s]
      BY <1>3, Typed DEF RejectSession, Logout
    <2>2. ~Live(n)'
      BY <2>1 DEF Live, Gone
    <2> QED
      BY <2>1, <2>2, WaysClose DEF Stays
  <1> QED
    BY <1>1, <1>2, <1>3 DEF SessionStep

LEMMA StepEnters ==
    ASSUME TypeInv, LoginInv, Next, EntryIsEarned', AccountIsTyped'
    PROVE  Entry!AccessNext
  <1>1. CASE AccountBumped
    <2>1. Ways' = {}
      BY <1>1, BumpCloses DEF Ways, WaysOf
    <2> QED
      BY <2>1 DEF Entry!AccessNext, Entry!ChangeAccount, AccountIsTyped
  <1>2. CASE AccountSame
    <2>1. CASE SessionStep
      BY <1>2, <2>1, SessionEnters
    <2>2. CASE UNCHANGED store
      BY <1>2, <2>2, WaysClose DEF Stays
    <2>3. CASE store' = NoSessions
      <3>1. \A s \in DOMAIN store' : ~Live(s)'
        BY <2>3 DEF Live, NoSessions, Gone
      <3> QED
        BY <1>2, <3>1, WaysClose
    <2> QED
      BY <2>1, <2>2, <2>3, StoreMoves
  <1> QED
    BY <1>1, <1>2, Accounts DEF AccountMoves

LEMMA NothingEnters ==
    ASSUME UNCHANGED vars
    PROVE  UNCHANGED Entry!accessVars
  <1>1. AccountSame
    BY SameWhenUnchanged DEF vars, factors, oneTime
  <1>2. Ways' = Ways
    BY DEF vars, factors, oneTime, Ways, WaysOf, Live, MayEnter, GrantValid,
           Enrolled, ActiveMethods, PolicyRequired, EnrollmentIncomplete
  <1> QED
    BY <1>1, <1>2, SameAccount DEF Entry!accessVars

(* README.md 294-310, 325-333: the requests on an account, whatever they   *)
(* remember of it, let nobody in but as AccountAccess allows.  A request   *)
(* that saves a session carries the version it read the account under, and *)
(* every transaction that changes the account moves the version on.        *)
THEOREM EntryIsAsPromised == Spec => EntersAsPromised
  <1>1. Init => Entry!AccessInit
    <2> SUFFICES ASSUME Init PROVE Entry!AccessInit
      OBVIOUS
    <2>1. Account \in Entry!Account
      BY TypesInitially, AccountTyped
    <2>2. Ways = {}
      BY DEF Init, Ways
    <2> QED
      BY <2>1, <2>2 DEF Entry!AccessInit
  <1>2. TypeInv /\ LoginInv /\ EntryIsEarned' /\ AccountIsTyped' /\ [Next]_vars
           => [Entry!AccessNext]_Entry!accessVars
    BY StepEnters, NothingEnters
  <1> QED
    BY <1>1, <1>2, Typing, Logins, EntryIsAlwaysEarned, AccountIsAlwaysTyped,
       PTL DEF Spec, EntersAsPromised, Entry!AccessSpec

-----------------------------------------------------------------------------
(* What the refuted sentence needs *)

(* A request changes the account under the version it was admitted with or *)
(* not at all, and no required password change is made for an account that *)
(* asks for a second factor.                                               *)
ChangesInTime ==
    \A r \in Requests :
        (user'.version # user.version /\ req'[r] # req[r]) =>
            /\ req[r].ver = user.version
            /\ req[r].at = "change" => ~RequiresMfaLogin

Plain == {"password", "factor"}

AllPlain ==
    /\ \A r \in Requests : req[r].by \in Plain
    /\ \A s \in DOMAIN store : store[s].by \in Plain

(* What a step leaves of it in the requests, and in the sessions.          *)
RequestsPlain == \A r \in Requests : req'[r].by \in Plain
SessionsPlain == \A s \in DOMAIN store' : store'[s].by \in Plain

LEMMA OneRequestStaysPlain ==
    ASSUME TypeInv, AllPlain, NEW r \in Requests, NEW q,
           req' = [req EXCEPT ![r] = q], q.by \in Plain
    PROVE  RequestsPlain
  BY Typed DEF RequestsPlain, AllPlain

LEMMA StagesStayPlain ==
    ASSUME TypeInv, AllPlain, NEW r \in Requests,
           \/ Finish(r)
           \/ \E at : Goto(r, at)
           \/ \E at, arg : GotoWith(r, at, arg)
    PROVE  RequestsPlain
  <1>1. req \in [Requests -> Request] /\ req[r].by \in Plain
    BY Typed DEF AllPlain
  <1>2. Idle.by \in Plain
    BY DEF Idle, Plain
  <1>3. CASE Finish(r)
    BY <1>2, <1>3, OneRequestStaysPlain DEF Finish
  <1>4. ASSUME NEW at, Goto(r, at)
        PROVE  RequestsPlain
    <2> DEFINE q == [req[r] EXCEPT !.at = at]
    <2>1. req' = [req EXCEPT ![r] = q]
      BY <1>1, <1>4 DEF Goto
    <2>2. q.by = req[r].by
      BY <1>1 DEF Request
    <2> HIDE DEF q
    <2> QED
      BY <1>1, <2>1, <2>2, OneRequestStaysPlain
  <1>5. ASSUME NEW at, NEW arg, GotoWith(r, at, arg)
        PROVE  RequestsPlain
    <2> DEFINE q == [req[r] EXCEPT !.at = at, !.arg = arg]
    <2>1. req' = [req EXCEPT ![r] = q]
      BY <1>1, <1>5 DEF GotoWith
    <2>2. q.by = req[r].by
      BY <1>1 DEF Request
    <2> HIDE DEF q
    <2> QED
      BY <1>1, <2>1, <2>2, OneRequestStaysPlain
  <1> QED
    BY <1>3, <1>4, <1>5

(* The version moves on, and a request that changed something was in time. *)
LEMMA InTime ==
    ASSUME TypeInv, AllPlain, ChangesInTime, user' = Bumped \/
               user'.version = user.version + 1,
           NEW r \in Requests, req'[r] # req[r]
    PROVE  /\ StillBy(r) \in Plain
           /\ req[r].at = "change" => ~RequiresMfaLogin
  <1>1. user.version \in Nat /\ user \in UserRow
    BY Typed, Columns, BoundsAssumption
  <1>2. user'.version # user.version
    BY <1>1 DEF Bumped, UserRow
  <1> QED
    BY <1>2 DEF ChangesInTime, StillBy, AllPlain

LEMMA ReopenStaysPlain ==
    ASSUME TypeInv, AllPlain, NEW r \in Requests, NEW auth, NEW grant,
           NEW by \in Plain, Reopen(r, auth, grant, by)
    PROVE  RequestsPlain
  <1> DEFINE q == [req[r] EXCEPT !.at = "save", !.ver = user'.version,
                      !.auth = auth, !.grant = grant, !.by = by, !.arg = 0]
  <1>1. req' = [req EXCEPT ![r] = q]
    BY DEF Reopen
  <1>2. q.by = by
    BY Typed DEF Request
  <1> HIDE DEF q
  <1> QED
    BY <1>1, <1>2, OneRequestStaysPlain

LEMMA ClosedStoreIsPlain ==
    ASSUME AllPlain, UNCHANGED store \/ store' = NoSessions
    PROVE  SessionsPlain
  BY DEF AllPlain, SessionsPlain, NoSessions, Gone, Plain

LEMMA QuietStaysPlain ==
    ASSUME TypeInv, AllPlain, NEW r \in Requests, QuietStep(r)
    PROVE  RequestsPlain /\ SessionsPlain
  <1>1. UNCHANGED store
    BY QuietSame
  <1> SUFFICES RequestsPlain
    BY <1>1, ClosedStoreIsPlain
  <1>2. req \in [Requests -> Request] /\ req[r].by \in Plain
    BY Typed DEF AllPlain
  <1>3. CASE LoginReadsMfa(r)
    <2>1. PICK auth : req' = [req EXCEPT ![r] = [req[r] EXCEPT
                          !.at = "save", !.auth = auth, !.arg = 0]]
      BY <1>2, <1>3 DEF LoginReadsMfa
    <2> DEFINE q == [req[r] EXCEPT !.at = "save", !.auth = auth, !.arg = 0]
    <2>2. req' = [req EXCEPT ![r] = q]
      BY <2>1
    <2>3. q.by = req[r].by
      BY <1>2 DEF Request
    <2> HIDE DEF q
    <2> QED
      BY <1>2, <2>2, <2>3, OneRequestStaysPlain
  <1>4. CASE CompleteMfaLogin(r)
    <2>1. PICK auth : req' = [req EXCEPT ![r] = [req[r] EXCEPT
                          !.at = "save", !.auth = auth, !.grant = 0,
                          !.by = "factor", !.arg = 0]]
      BY <1>2, <1>4 DEF CompleteMfaLogin
    <2> DEFINE q == [req[r] EXCEPT !.at = "save", !.auth = auth, !.grant = 0,
                                   !.by = "factor", !.arg = 0]
    <2>2. req' = [req EXCEPT ![r] = q]
      BY <2>1
    <2>3. q.by \in Plain
      BY <1>2 DEF Request, Plain
    <2> HIDE DEF q
    <2> QED
      BY <2>2, <2>3, OneRequestStaysPlain
  <1>5. CASE LoginReadsAccount(r)
    <2> DEFINE q == [Idle EXCEPT
          !.at = "login", !.ver = user.version, !.pw = user.pw,
          !.arg = [legacy |-> user.legacy, mustChange |-> user.mustChange]]
    <2>1. req' = [req EXCEPT ![r] = q]
      BY <1>5 DEF LoginReadsAccount
    <2>2. q.by \in Plain
      BY DEF Idle, Plain
    <2> HIDE DEF q
    <2> QED
      BY <2>1, <2>2, OneRequestStaysPlain
  <1>6. ASSUME NEW s \in DOMAIN store, NEW access \in Access,
               Admit(r, s, access)
        PROVE  RequestsPlain
    <2> DEFINE q == [at |-> access, sid |-> s, ver |-> store[s].ver,
                     auth |-> store[s].auth, grant |-> store[s].grant,
                     pw |-> NoPassword, by |-> store[s].by, arg |-> 0]
    <2>1. req' = [req EXCEPT ![r] = q]
      BY <1>6 DEF Admit
    <2>2. q.by \in Plain
      BY DEF AllPlain
    <2> HIDE DEF q
    <2> QED
      BY <2>1, <2>2, OneRequestStaysPlain
  <1>7. CASE FactorReadsUser(r)
    <2> DEFINE q == [req[r] EXCEPT !.at = "factor", !.ver = user.version]
    <2>1. req' = [req EXCEPT ![r] = q]
      BY <1>2, <1>7 DEF FactorReadsUser
    <2>2. q.by = req[r].by
      BY <1>2 DEF Request
    <2> HIDE DEF q
    <2> QED
      BY <1>2, <2>1, <2>2, OneRequestStaysPlain
  <1>8. CASE \/ \E c \in DOMAIN challenges :
                   LoadRegistration(r, c) \/ LoadAuthentication(r, c)
             \/ ConfirmTotpReads(r) \/ RegistrationReads(r)
             \/ RegenerateReads(r) \/ AcknowledgeReads(r)
             \/ \E act \in StepUpActions : StepUpPassword(r, act)
             \/ Abandon(r)
    BY <1>8, StagesStayPlain
       DEF LoadRegistration, LoadAuthentication, ConfirmTotpReads,
           RegistrationReads, RegenerateReads, AcknowledgeReads,
           StepUpPassword, Abandon
  <1> QED
    BY <1>3, <1>4, <1>5, <1>6, <1>7, <1>8 DEF QuietStep

LEMMA SessionsStayPlain ==
    ASSUME TypeInv, AllPlain, SessionStep
    PROVE  RequestsPlain /\ SessionsPlain
  <1>1. store \in Seq(SessionRow) /\ Gone \in SessionRow
        /\ Gone.by \in Plain
    BY Typed, GoneIsSession DEF Gone, Plain
  <1>2. ASSUME NEW r \in Requests, SaveSession(r)
        PROVE  RequestsPlain /\ SessionsPlain
    <2> DEFINE session == [kept |-> TRUE, ver |-> req[r].ver,
                           auth |-> req[r].auth, grant |-> req[r].grant,
                           pw |-> req[r].pw, by |-> req[r].by]
               others == [s \in DOMAIN store |->
                             IF s = req[r].sid THEN Gone ELSE store[s]]
    <2>1. store' = Append(others, session) /\ Finish(r)
      BY <1>2 DEF SaveSession
    <2>2. others \in [DOMAIN store -> SessionRow]
      BY <1>1, SeqElement
    <2>3. \A s \in DOMAIN store : others[s].by \in Plain
      BY <1>1 DEF AllPlain
    <2>4. session.by \in Plain
      BY DEF AllPlain
    <2> HIDE DEF session, others
    <2>5. others \in Seq(SessionRow) /\ DOMAIN others = DOMAIN store
      BY <1>1, <2>2, SeqOnDomain
    <2>6. \A s \in DOMAIN store' :
             store'[s] = session \/ (s \in DOMAIN store /\ store'[s] = others[s])
      BY <2>1, <2>5
    <2> QED
      BY <2>1, <2>3, <2>4, <2>6, StagesStayPlain DEF SessionsPlain
  <1>3. ASSUME NEW r \in Requests, ContinueSession(r)
        PROVE  RequestsPlain /\ SessionsPlain
    <2> DEFINE session == [kept |-> TRUE, ver |-> req[r].ver,
                           auth |-> req[r].auth, grant |-> req[r].grant,
                           pw |-> NoPassword, by |-> req[r].by]
    <2>1. store' = [store EXCEPT ![req[r].sid] = session] /\ Finish(r)
      BY <1>3 DEF ContinueSession
    <2>2. session.by \in Plain
      BY DEF AllPlain
    <2> HIDE DEF session
    <2>3. SessionsPlain
      BY <1>1, <2>1, <2>2, SeqElement DEF SessionsPlain, AllPlain
    <2> QED
      BY <2>1, <2>3, StagesStayPlain
  <1>4. ASSUME NEW s \in DOMAIN store, RejectSession(s) \/ Logout(s)
        PROVE  RequestsPlain /\ SessionsPlain
    <2>1. store' = [store EXCEPT ![s] = Gone] /\ UNCHANGED req
      BY <1>4 DEF RejectSession, Logout
    <2>2. RequestsPlain
      BY <2>1 DEF RequestsPlain, AllPlain
    <2>3. \A n \in DOMAIN store' : store'[n] \in {Gone, store[n]}
      BY <1>1, <2>1, SeqElement
    <2>4. SessionsPlain
      BY <1>1, <2>1, <2>3, SeqElement DEF SessionsPlain, AllPlain
    <2> QED
      BY <2>2, <2>4
  <1> QED
    BY <1>2, <1>3, <1>4 DEF SessionStep

LEMMA RowsStayPlain ==
    ASSUME TypeInv, AllPlain, ResetStep \/ RowStep \/ AdminStep
    PROVE  RequestsPlain /\ SessionsPlain
  <1>1. UNCHANGED store \/ store' = NoSessions
    BY DEF ResetStep, RowStep, AdminStep, RequestPasswordReset,
           DeliverReset, FailResetDelivery, StartWebAuthnRegistration,
           LoginPasskeyStart, StepUpPasskeyStart, LoginPasskeyFinish,
           PasskeyCounterMoved, StepUpPasskeyFinish, IssueStepUp,
           ResetUserMfa, SetSupportCapability, SetAdminCapability,
           SetAccountActive, ChangeEmailOrRole, incrementSessionVersion
  <1> SUFFICES RequestsPlain
    BY <1>1, ClosedStoreIsPlain
  <1>2. CASE AdminStep
    <2>1. UNCHANGED req
      BY <1>2
         DEF AdminStep, ResetUserMfa, SetSupportCapability,
             SetAdminCapability, SetAccountActive, ChangeEmailOrRole
    <2> QED
      BY <2>1 DEF RequestsPlain, AllPlain
  <1>3. ASSUME NEW r \in Requests, RequestPasswordReset(r)
        PROVE  RequestsPlain
    <2> DEFINE q == [Idle EXCEPT !.at = "deliver", !.arg = Len(resets) + 1]
    <2>1. req' = [req EXCEPT ![r] = q]
      BY <1>3 DEF RequestPasswordReset
    <2>2. q.by \in Plain
      BY DEF Idle, Plain
    <2> HIDE DEF q
    <2> QED
      BY <2>1, <2>2, OneRequestStaysPlain
  <1>4. CASE \/ RowStep
             \/ \E r \in Requests : DeliverReset(r) \/ FailResetDelivery(r)
    BY <1>4, StagesStayPlain
       DEF RowStep, StartWebAuthnRegistration, LoginPasskeyStart,
           StepUpPasskeyStart, LoginPasskeyFinish, PasskeyCounterMoved,
           StepUpPasskeyFinish, IssueStepUp, DeliverReset, FailResetDelivery
  <1> QED
    BY <1>2, <1>3, <1>4 DEF ResetStep

LEMMA PasswordsStayPlain ==
    ASSUME TypeInv, AllPlain, ChangesInTime, PasswordStep
    PROVE  RequestsPlain /\ SessionsPlain
  <1>1. UNCHANGED store \/ store' = NoSessions
    BY DEF PasswordStep, UpgradePasswordHash, ReplacePassword,
           IssueTemporaryPassword, ConfirmPasswordReset, NewPassword
  <1> SUFFICES RequestsPlain
    BY <1>1, ClosedStoreIsPlain
  <1>2. ASSUME NEW r \in Requests, UpgradePasswordHash(r)
        PROVE  RequestsPlain
    BY <1>2, StagesStayPlain DEF UpgradePasswordHash
  <1>3. ASSUME NEW r \in Requests, NEW p \in Passwords, ReplacePassword(r, p)
        PROVE  RequestsPlain
    <2> DEFINE q == [req[r] EXCEPT
          !.at = "save", !.ver = user'.version, !.auth = "authenticated",
          !.grant = 0, !.pw = p, !.by = ChangeBy(r), !.arg = 0]
    <2>1. req' = [req EXCEPT ![r] = q]
      BY <1>3 DEF ReplacePassword
    <2>2. q.by = ChangeBy(r) /\ q.at = "save"
      BY Typed DEF Request
    <2> HIDE DEF q
    <2>3. req'[r] # req[r]
      BY <1>3, <2>1, <2>2, Typed DEF ReplacePassword
    <2>4. user'.version = user.version + 1
      BY <1>3, Typed DEF ReplacePassword, NewPassword, Bumped, UserRow
    <2>5. ChangeBy(r) \in Plain
      BY <2>3, <2>4, InTime DEF ChangeBy
    <2> QED
      BY <2>1, <2>2, <2>5, OneRequestStaysPlain
  <1>4. CASE \/ \E p \in Passwords : IssueTemporaryPassword(p)
             \/ \E t \in DOMAIN resets, p \in Passwords :
                   ConfirmPasswordReset(t, p)
    BY <1>4
       DEF IssueTemporaryPassword, ConfirmPasswordReset, RequestsPlain,
           AllPlain
  <1> QED
    BY <1>2, <1>3, <1>4 DEF PasswordStep

LEMMA FactorsStayPlain ==
    ASSUME TypeInv, AllPlain, ChangesInTime, FactorStep
    PROVE  RequestsPlain /\ SessionsPlain
  <1>1. UNCHANGED store \/ store' = NoSessions
    BY DEF FactorStep, StartTotpEnrollment, ConfirmTotpEnrollment, LoginTotp,
           StepUpTotp, ConfirmWebAuthnRegistration, AddMethod,
           RegenerateRecoveryCodes, AcknowledgeRecoveryCodes,
           ConsumeRecoveryCode, RemoveOwnMethod, DisableOwnMfa,
           incrementSessionVersion
  <1> SUFFICES RequestsPlain
    BY <1>1, ClosedStoreIsPlain
  <1>2. ASSUME NEW r \in Requests,
               \/ \E m \in TotpIds : StartTotpEnrollment(r, m)
               \/ \E m \in TotpIds, n \in Steps :
                     LoginTotp(r, m, n) \/ StepUpTotp(r, m, n)
        PROVE  RequestsPlain
    BY <1>2, StagesStayPlain DEF StartTotpEnrollment, LoginTotp, StepUpTotp
  <1>3. ASSUME NEW r \in Requests,
               \/ \E m \in TotpIds, n \in Steps : ConfirmTotpEnrollment(r, m, n)
               \/ \E m \in PasskeyIds : ConfirmWebAuthnRegistration(r, m)
        PROVE  RequestsPlain
    <2>1. PICK auth, grant : Reopen(r, auth, grant, "factor")
      BY <1>3
         DEF ConfirmTotpEnrollment, ConfirmWebAuthnRegistration, AddMethod
    <2> QED
      BY <2>1, ReopenStaysPlain DEF Plain
  <1>4. ASSUME NEW r \in Requests,
               \/ RegenerateRecoveryCodes(r) \/ AcknowledgeRecoveryCodes(r)
               \/ \E m \in Methods, k \in DOMAIN stepUps :
                     RemoveOwnMethod(r, m, k)
               \/ \E k \in DOMAIN stepUps : DisableOwnMfa(r, k)
        PROVE  RequestsPlain
    <2>1. PICK auth, grant : Reopen(r, auth, grant, StillBy(r))
      BY <1>4
         DEF RegenerateRecoveryCodes, AcknowledgeRecoveryCodes,
             RemoveOwnMethod, DisableOwnMfa
    <2>2. user' = Bumped /\ req[r].at # "save"
      BY <1>4
         DEF RegenerateRecoveryCodes, AcknowledgeRecoveryCodes,
             RemoveOwnMethod, DisableOwnMfa, incrementSessionVersion
    <2>3. req'[r].at = "save"
      BY <2>1, Typed DEF Reopen, Request
    <2>4. StillBy(r) \in Plain
      BY <2>2, <2>3, InTime
    <2> QED
      BY <2>1, <2>4, ReopenStaysPlain
  <1>5. ASSUME NEW r \in Requests, NEW c \in Unspent,
               ConsumeRecoveryCode(r, c)
        PROVE  RequestsPlain
    <2> DEFINE q == [req[r] EXCEPT
          !.at = "continue", !.ver = user'.version, !.auth = "recovery",
          !.grant = Len(grants) + 1, !.by = "factor"]
    <2>1. req' = [req EXCEPT ![r] = q]
      BY <1>5 DEF ConsumeRecoveryCode
    <2>2. q.by \in Plain
      BY Typed DEF Request, Plain
    <2> HIDE DEF q
    <2> QED
      BY <2>1, <2>2, OneRequestStaysPlain
  <1> QED
    BY <1>2, <1>3, <1>4, <1>5 DEF FactorStep

(* README.md 325-327, 408-409: the work of an enrolled account is reached  *)
(* after a second factor only, as long as no account that asks for one has *)
(* its required password change made, and every request that changes the   *)
(* account does so under the version it was admitted with.  No other step  *)
(* lets a password alone in.                                               *)
THEOREM PasswordStaysOutUnlessChangedOrLate ==
    Spec /\ [][ChangesInTime]_vars => []PasswordAloneStaysOut
  <1>1. Init => AllPlain
    BY DEF Init, Idle, AllPlain, Plain
  <1>2. TypeInv /\ AllPlain /\ Next /\ ChangesInTime => AllPlain'
    <2> SUFFICES ASSUME TypeInv, AllPlain, Next, ChangesInTime
                 PROVE  AllPlain'
      OBVIOUS
    <2>1. RequestsPlain /\ SessionsPlain
      BY StepKinds, QuietStaysPlain, SessionsStayPlain, RowsStayPlain,
         PasswordsStayPlain, FactorsStayPlain
    <2> QED
      BY <2>1 DEF RequestsPlain, SessionsPlain, AllPlain
  <1>3. AllPlain /\ UNCHANGED vars => AllPlain'
    BY DEF vars, AllPlain
  <1>4. AllPlain /\ SecondFactorIsNotSkipped => PasswordAloneStaysOut
    BY DEF AllPlain, Plain, SecondFactorIsNotSkipped,
           PasswordAloneStaysOut, MayEnter
  <1> QED
    BY <1>1, <1>2, <1>3, <1>4, Typing, NoFactorSkipped, PTL DEF Spec

=============================================================================
