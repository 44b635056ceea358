-------------------------- MODULE AccountSecurity --------------------------
(* One account's credentials and what is opened with them: the users row   *)
(* (password hash, session version), the second factors, recovery codes    *)
(* and MFA settings, the one-time rows (challenges, step-up                *)
(* authorisations, recovery grants, reset tokens), the sessions table, and *)
(* the requests in flight.  A request keeps in memory what it read, so it  *)
(* may act on a session, a version or a challenge that has changed since.  *)
(* Each database transaction is one step: those of the account meet on the *)
(* row locks they take.  A read outside the transaction is its own step.   *)
EXTENDS Integers, FiniteSets, Sequences

CONSTANTS
    Requests,          \* requests the server handles at the same time
    Passwords,         \* passwords the account may be given
    NoPassword,        \* no member of Passwords
    TotpIds,           \* ids of authenticator-app rows of user_mfa_methods
    PasskeyIds,        \* ids of passkey rows of user_mfa_methods
    CodesPerSet,       \* recovery codes in a set
    AllUsersEnforced,  \* the allUsersEnforcementEnabled setting
    MaxVersion,        \* bound on users.session_version
    MaxSessions,       \* bound on the session ids ever generated
    MaxRows,           \* bound on the one-time rows, of all kinds together
    MaxFactorRows,     \* and on each of challenges, authorisations, grants
    MaxTimeStep        \* bound on the authenticator's time steps

ASSUME NoPasswordAssumption == NoPassword \notin Passwords
ASSUME SettingAssumption == AllUsersEnforced \in BOOLEAN
ASSUME BoundsAssumption == {CodesPerSet, MaxVersion, MaxTimeStep} \subseteq Nat

VARIABLES
    user,        \* the users row
    chosen,      \* the password last chosen by the owner or an administrator
    mfa,         \* the user_mfa_settings row
    method,      \* user_mfa_methods and their credentials
    codes,       \* user_mfa_recovery_codes
    stepUps,     \* mfa_step_up_authorizations
    challenges,  \* mfa_challenges
    grants,      \* mfa_recovery_grants
    resets,      \* password_reset_tokens
    store,       \* the sessions table, by session id
    req          \* the requests in flight

factors == <<mfa, method, codes>>
oneTime == <<stepUps, challenges, grants>>
vars == <<user, chosen, factors, oneTime, resets, store, req>>

Methods == TotpIds \cup PasskeyIds
StepUpActions == Methods \cup {"disable"}
Access == {"normal", "enroll", "challenge", "change"}
AuthStates == {"authenticated", "challenge", "enrollment", "recovery"}
Proofs == {"password", "factor", "change", "late"}

-----------------------------------------------------------------------------
(* Reading the account *)

ActiveMethods == {m \in Methods : method[m].st = "active"}

Enrolled == ActiveMethods # {} /\ mfa.completed /\ mfa.acked

EnrollmentIncomplete == mfa.enforced /\ ~Enrolled

PolicyRequired == AllUsersEnforced \/ mfa.policy

(* A login must show a second factor: codes that were all consumed count.  *)
RequiresMfaLogin == mfa.enforced /\ (ActiveMethods # {} \/ codes # {})

Unspent == {c \in codes : ~c.consumed}

GrantValid(g, sid) ==
    /\ g \in DOMAIN grants
    /\ grants[g] = [sid |-> sid, st |-> "open"]

(* A session row opens the account only under the current version.         *)
Live(s) == store[s].kept /\ user.active /\ store[s].ver = user.version

(* The order of the refusals of the authorisation guard does not matter    *)
(* here: a refusal changes nothing.                                        *)
MayEnter(access, session, sid) ==
    /\ user.mustChange => access = "change"
    /\ session.auth = "challenge" => access = "challenge"
    /\ session.auth = "enrollment" => access \in {"enroll", "change"}
    /\ session.auth = "recovery" =>
          access = "enroll" /\ GrantValid(session.grant, sid)
    /\ (session.auth = "authenticated" /\ ~Enrolled
            /\ (PolicyRequired \/ EnrollmentIncomplete)) =>
          access \in {"enroll", "change"}

-----------------------------------------------------------------------------
(* Sessions and requests *)

(* by is no column: what the owner showed since the login.  pw is the      *)
(* password the session was opened with, if it was opened with one.        *)
Gone == [kept |-> FALSE, ver |-> 0, auth |-> "authenticated", grant |-> 0,
         pw |-> NoPassword, by |-> "password"]

Idle == [at |-> "idle", sid |-> 0, ver |-> 0, auth |-> "authenticated",
         grant |-> 0, pw |-> NoPassword, by |-> "password", arg |-> 0]

Goto(r, at) == req' = [req EXCEPT ![r].at = at]
GotoWith(r, at, arg) == req' = [req EXCEPT ![r].at = at, ![r].arg = arg]
Finish(r) == req' = [req EXCEPT ![r] = Idle]

RowsLeft ==
    Len(stepUps) + Len(challenges) + Len(grants) + Len(resets) < MaxRows
FactorRowsLeft(rows) == RowsLeft /\ Len(rows) < MaxFactorRows

CanBump == user.version < MaxVersion
Bumped == [user EXCEPT !.version = @ + 1]
NoSessions == [s \in DOMAIN store |-> Gone]

(* mutant: the sessions are deleted, the version stays *)
incrementSessionVersion_RowsOnly ==
    /\ CanBump
    /\ user' = user
    /\ store' = NoSessions

(* The users row gets the next version and every session row is deleted.   *)
incrementSessionVersion ==
    /\ CanBump
    /\ user' = Bumped
    /\ store' = NoSessions

(* The request goes on to open a session of its own under the version its  *)
(* transaction returned.                                                   *)
Reopen(r, auth, grant, by) ==
    req' = [req EXCEPT ![r] = [@ EXCEPT
        !.at = "save", !.ver = user'.version, !.auth = auth,
        !.grant = grant, !.by = by, !.arg = 0]]

(* A transaction does not compare the version its session had with the     *)
(* row's: what was enough when the request came may not be any more.       *)
StillBy(r) ==
    IF req[r].by = "password" /\ req[r].ver # user.version THEN "late"
    ELSE req[r].by

(* establishMfaSession: the old session id is destroyed, a new one saved.  *)
SaveSession(r) ==
    LET session == [kept |-> TRUE, ver |-> req[r].ver, auth |-> req[r].auth,
                    grant |-> req[r].grant, pw |-> req[r].pw,
                    by |-> req[r].by]
        others == [s \in DOMAIN store |->
                      IF s = req[r].sid THEN Gone ELSE store[s]]
    IN  /\ req[r].at = "save"
        /\ Len(store) < MaxSessions
        /\ store' = Append(others, session)
        /\ Finish(r)
        /\ UNCHANGED <<user, chosen, factors, oneTime, resets>>

(* continueMfaSession: the same id is saved again, even when its row was   *)
(* deleted since.                                                          *)
ContinueSession(r) ==
    LET session == [kept |-> TRUE, ver |-> req[r].ver, auth |-> req[r].auth,
                    grant |-> req[r].grant, pw |-> NoPassword,
                    by |-> req[r].by]
    IN  /\ req[r].at = "continue"
        /\ store' = [store EXCEPT ![req[r].sid] = session]
        /\ Finish(r)
        /\ UNCHANGED <<user, chosen, factors, oneTime, resets>>

Admit(r, s, access) ==
    /\ req[r].at = "idle"
    /\ Live(s)
    /\ MayEnter(access, store[s], s)
    /\ req' = [req EXCEPT ![r] =
          [at |-> access, sid |-> s, ver |-> store[s].ver,
           auth |-> store[s].auth, grant |-> store[s].grant,
           pw |-> NoPassword, by |-> store[s].by, arg |-> 0]]
    /\ UNCHANGED <<user, chosen, factors, oneTime, resets, store>>

RejectSession(s) ==
    /\ store[s].kept
    /\ ~Live(s)
    /\ store' = [store EXCEPT ![s] = Gone]
    /\ UNCHANGED <<user, chosen, factors, oneTime, resets, req>>

Logout(s) ==
    /\ store[s].kept
    /\ store' = [store EXCEPT ![s] = Gone]
    /\ UNCHANGED <<user, chosen, factors, oneTime, resets, req>>

(* A refusal, an error that rolls the transaction back, a lock cycle the   *)
(* database breaks, or the end of the process: the request is over and     *)
(* what it had committed stays.                                            *)
Abandon(r) ==
    /\ req[r].at # "idle"
    /\ Finish(r)
    /\ UNCHANGED <<user, chosen, factors, oneTime, resets, store>>

-----------------------------------------------------------------------------
(* Login with a password *)

(* One SELECT returns the hash and the account, and the hash matches.      *)
LoginReadsAccount(r) ==
    /\ req[r].at = "idle"
    /\ user.active
    /\ req' = [req EXCEPT ![r] = [Idle EXCEPT
          !.at = "login", !.ver = user.version, !.pw = user.pw,
          !.arg = [legacy |-> user.legacy, mustChange |-> user.mustChange]]]
    /\ UNCHANGED <<user, chosen, factors, oneTime, resets, store>>

(* mutant: the row is updated whatever hash it has by now *)
UpgradePasswordHash_Unconditional(r) ==
    /\ req[r].at = "login"
    /\ req[r].arg.legacy
    /\ user' = [user EXCEPT !.pw = req[r].pw, !.legacy = FALSE]
    /\ Goto(r, "upgraded")
    /\ UNCHANGED <<chosen, factors, oneTime, resets, store>>

(* The weaker hash is replaced unless it is no longer the one verified.    *)
UpgradePasswordHash(r) ==
    /\ req[r].at = "login"
    /\ req[r].arg.legacy
    /\ user' = IF user.pw = req[r].pw /\ user.legacy
               THEN [user EXCEPT !.pw = req[r].pw, !.legacy = FALSE]
               ELSE user
    /\ Goto(r, "upgraded")
    /\ UNCHANGED <<chosen, factors, oneTime, resets, store>>

LoginReadsMfa(r) ==
    LET auth == CASE req[r].arg.mustChange -> "authenticated"
                  [] ~req[r].arg.mustChange /\ RequiresMfaLogin -> "challenge"
                  [] ~req[r].arg.mustChange /\ ~RequiresMfaLogin ->
                        IF PolicyRequired \/ EnrollmentIncomplete
                        THEN "enrollment" ELSE "authenticated"
    IN  /\ req[r].at \in {"login", "upgraded"}
        /\ req' = [req EXCEPT ![r] = [@ EXCEPT
              !.at = "save", !.auth = auth, !.arg = 0]]
        /\ UNCHANGED <<user, chosen, factors, oneTime, resets, store>>

-----------------------------------------------------------------------------
(* Password changes *)

(* mutant: the sessions are deleted, the version stays *)
NewPassword_SameVersion(p, mustChange) ==
    /\ CanBump
    /\ p # user.pw
    /\ user' = [user EXCEPT !.pw = p, !.legacy = FALSE,
                            !.mustChange = mustChange]
    /\ chosen' = p
    /\ store' = NoSessions

(* mutant: the new hash is not written *)
NewPassword_NoHash(p, mustChange) ==
    /\ CanBump
    /\ p # user.pw
    /\ user' = [Bumped EXCEPT !.pw = NoPassword, !.legacy = FALSE,
                              !.mustChange = mustChange]
    /\ chosen' = p
    /\ store' = NoSessions

NewPassword(p, mustChange) ==
    /\ CanBump
    /\ p # user.pw
    /\ user' = [Bumped EXCEPT !.pw = p, !.legacy = FALSE,
                              !.mustChange = mustChange]
    /\ chosen' = p
    /\ store' = NoSessions

(* The session after the change is a full one: a login with a temporary    *)
(* password asked for no factor, and neither does the change.              *)
ChangeBy(r) ==
    IF req[r].at = "change" /\ req[r].by = "password" /\ RequiresMfaLogin
    THEN "change" ELSE StillBy(r)

(* Self-service (the owner repeats the current password) or required at    *)
(* the first login.                                                        *)
ReplacePassword(r, p) ==
    /\ \/ req[r].at = "normal"
       \/ req[r].at = "change" /\ user.mustChange
    /\ user.active
    /\ NewPassword(p, FALSE)
    /\ req' = [req EXCEPT ![r] = [@ EXCEPT
          !.at = "save", !.ver = user'.version, !.auth = "authenticated",
          !.grant = 0, !.pw = p, !.by = ChangeBy(r), !.arg = 0]]
    /\ UNCHANGED <<factors, oneTime, resets>>

IssueTemporaryPassword(p) ==
    /\ NewPassword(p, TRUE)
    /\ UNCHANGED <<factors, oneTime, resets, req>>

AllConsumed == [t \in DOMAIN resets |-> [resets[t] EXCEPT !.consumed = TRUE]]

RequestPasswordReset(r) ==
    /\ req[r].at = "idle"
    /\ user.active
    /\ RowsLeft
    /\ resets' = Append(AllConsumed,
                        [consumed |-> FALSE, sent |-> FALSE, uses |-> 0])
    /\ req' = [req EXCEPT ![r] = [Idle EXCEPT !.at = "deliver",
                                              !.arg = Len(resets) + 1]]
    /\ UNCHANGED <<user, chosen, factors, oneTime, store>>

DeliverReset(r) ==
    /\ req[r].at = "deliver"
    /\ resets' = [resets EXCEPT ![req[r].arg].sent = TRUE]
    /\ Finish(r)
    /\ UNCHANGED <<user, chosen, factors, oneTime, store>>

(* mutant: every outstanding token of the user is withdrawn *)
FailResetDelivery_AllOfUser(r) ==
    /\ req[r].at = "deliver"
    /\ resets' = AllConsumed
    /\ Finish(r)
    /\ UNCHANGED <<user, chosen, factors, oneTime, store>>

FailResetDelivery(r) ==
    /\ req[r].at = "deliver"
    /\ resets' = [resets EXCEPT ![req[r].arg].consumed = TRUE]
    /\ Finish(r)
    /\ UNCHANGED <<user, chosen, factors, oneTime, store>>

ConfirmPasswordReset(t, p) ==
    /\ resets[t].sent
    /\ ~resets[t].consumed
    /\ user.active
    /\ NewPassword(p, FALSE)
    /\ resets' = [AllConsumed EXCEPT ![t].uses = @ + 1]
    /\ UNCHANGED <<factors, oneTime, req>>

-----------------------------------------------------------------------------
(* Enrolling factors *)

NewCodes == {[i |-> i, consumed |-> FALSE] : i \in 1..CodesPerSet}

(* first was read earlier in the transaction, without a lock: two requests *)
(* may both add a first method.                                            *)
AddMethod(r, m, step, first) ==
    /\ method' = [method EXCEPT ![m] = [st |-> "active", step |-> step]]
    /\ codes' = IF first THEN NewCodes ELSE codes
    /\ mfa' = [mfa EXCEPT !.enforced = TRUE, !.acked = @ /\ ~first]
    /\ incrementSessionVersion
    /\ Reopen(r, IF first THEN "enrollment" ELSE "authenticated",
              req[r].grant, "factor")

StartTotpEnrollment(r, m) ==
    /\ req[r].at = "enroll"
    /\ ActiveMethods \cap TotpIds = {}
    /\ method[m].st = "none"
    /\ method' = [n \in Methods |->
          CASE n = m -> [method[n] EXCEPT !.st = "pending"]
            [] n # m /\ method[n].st = "pending" ->
                  [method[n] EXCEPT !.st = "gone"]
            [] OTHER -> method[n]]
    /\ Finish(r)
    /\ UNCHANGED <<user, chosen, mfa, codes, oneTime, resets, store>>

ConfirmTotpReads(r) ==
    /\ req[r].at = "enroll"
    /\ \E m \in TotpIds : method[m].st = "pending"
    /\ Goto(r, IF ActiveMethods = {} THEN "confirmFirst" ELSE "confirmMore")
    /\ UNCHANGED <<user, chosen, factors, oneTime, resets, store>>

ConfirmTotpEnrollment(r, m, step) ==
    /\ req[r].at \in {"confirmFirst", "confirmMore"}
    /\ method[m].st = "pending"
    /\ AddMethod(r, m, step, req[r].at = "confirmFirst")
    /\ UNCHANGED <<chosen, oneTime, resets>>

NewChallenge(purpose, sid, ver, act) ==
    /\ FactorRowsLeft(challenges)
    /\ challenges' = Append(challenges,
          [st |-> "open", purpose |-> purpose, sid |-> sid, ver |-> ver,
           act |-> act, uses |-> 0])

StartWebAuthnRegistration(r) ==
    /\ req[r].at = "enroll"
    /\ NewChallenge("registration", 0, 0, "none")
    /\ Finish(r)
    /\ UNCHANGED <<user, chosen, factors, stepUps, grants, resets, store>>

(* loadChallenge, before the credential is verified *)
LoadRegistration(r, c) ==
    /\ req[r].at = "enroll"
    /\ challenges[c].st = "open"
    /\ challenges[c].purpose = "registration"
    /\ GotoWith(r, "register", c)
    /\ UNCHANGED <<user, chosen, factors, oneTime, resets, store>>

(* mutant: consumed_at is not looked at again after the verification *)
ConsumeChallenge_AsLoaded(c) ==
    /\ challenges' = [challenges EXCEPT ![c].st = "consumed",
                                        ![c].uses = @ + 1]

ConsumeChallenge(c) ==
    /\ challenges[c].st = "open"
    /\ challenges' = [challenges EXCEPT ![c].st = "consumed",
                                        ![c].uses = @ + 1]

(* The methods are read in the transaction that consumes the challenge.    *)
RegistrationReads(r) ==
    /\ req[r].at = "register"
    /\ challenges[req[r].arg].st = "open"
    /\ Goto(r, IF ActiveMethods = {} THEN "registerFirst" ELSE "registerMore")
    /\ UNCHANGED <<user, chosen, factors, oneTime, resets, store>>

ConfirmWebAuthnRegistration(r, m) ==
    /\ req[r].at \in {"registerFirst", "registerMore"}
    /\ method[m].st = "none"
    /\ ConsumeChallenge(req[r].arg)
    /\ AddMethod(r, m, 0, req[r].at = "registerFirst")
    /\ UNCHANGED <<chosen, stepUps, grants, resets>>

(* The handler looks for an active method before its transaction.          *)
RegenerateReads(r) ==
    /\ req[r].at = "enroll"
    /\ ActiveMethods # {}
    /\ Goto(r, "regenerate")
    /\ UNCHANGED <<user, chosen, factors, oneTime, resets, store>>

RegenerateRecoveryCodes(r) ==
    /\ req[r].at = "regenerate"
    /\ codes' = NewCodes
    /\ mfa' = [mfa EXCEPT !.acked = FALSE]
    /\ incrementSessionVersion
    /\ Reopen(r, "enrollment", req[r].grant, StillBy(r))
    /\ UNCHANGED <<chosen, method, oneTime, resets>>

(* The methods are read without a lock, the settings row with one.         *)
AcknowledgeReads(r) ==
    /\ req[r].at = "enroll"
    /\ ActiveMethods # {}
    /\ Goto(r, "acknowledge")
    /\ UNCHANGED <<user, chosen, factors, oneTime, resets, store>>

AcknowledgeRecoveryCodes(r) ==
    /\ req[r].at = "acknowledge"
    /\ mfa' = [mfa EXCEPT !.enforced = TRUE, !.completed = TRUE,
                          !.acked = TRUE]
    /\ grants' = [g \in DOMAIN grants |->
          IF g = req[r].grant /\ grants[g].st = "open"
          THEN [grants[g] EXCEPT !.st = "consumed"] ELSE grants[g]]
    /\ incrementSessionVersion
    /\ Reopen(r, "authenticated", 0, StillBy(r))
    /\ UNCHANGED <<chosen, method, codes, stepUps, challenges, resets>>

-----------------------------------------------------------------------------
(* Login with a second factor *)

(* requireUser reads the account again after the guard; the version read   *)
(* here is the one the session will carry.                                 *)
FactorReadsUser(r) ==
    /\ req[r].at = "challenge"
    /\ req[r].auth = "challenge"
    /\ user.active
    /\ req' = [req EXCEPT ![r].at = "factor", ![r].ver = user.version]
    /\ UNCHANGED <<user, chosen, factors, oneTime, resets, store>>

(* A time step is accepted once: it must be later than the last accepted.  *)
AcceptTotp(m, step) ==
    /\ method[m].st = "active"
    /\ step > method[m].step
    /\ method' = [method EXCEPT ![m].step = step]

LoginTotp(r, m, step) ==
    /\ req[r].at = "factor"
    /\ AcceptTotp(m, step)
    /\ Goto(r, "factorShown")
    /\ UNCHANGED <<user, chosen, mfa, codes, oneTime, resets, store>>

LoginPasskeyStart(r) ==
    /\ req[r].at = "factor"
    /\ ActiveMethods \cap PasskeyIds # {}
    /\ NewChallenge("authentication", 0, 0, "none")
    /\ Finish(r)
    /\ UNCHANGED <<user, chosen, factors, stepUps, grants, resets, store>>

(* verifyWebAuthnAuthentication up to its transaction: the challenge and   *)
(* an active credential are read.                                          *)
LoadAuthentication(r, c) ==
    /\ challenges[c].st = "open"
    /\ ActiveMethods \cap PasskeyIds # {}
    /\ \/ /\ req[r].at = "factor"
          /\ challenges[c].purpose = "authentication"
          /\ GotoWith(r, "passkeyLogin", c)
       \/ /\ req[r].at = "normal"
          /\ challenges[c].purpose = "stepUp"
          /\ GotoWith(r, "passkeyStepUp", c)
    /\ UNCHANGED <<user, chosen, factors, oneTime, resets, store>>

LoginPasskeyFinish(r) ==
    /\ req[r].at = "passkeyLogin"
    /\ ConsumeChallenge(req[r].arg)
    /\ Goto(r, "factorShown")
    /\ UNCHANGED <<user, chosen, factors, stepUps, grants, resets, store>>

(* The signature counter moved since it was read: the transaction ends     *)
(* without an answer and without an error, the challenge stays consumed.   *)
PasskeyCounterMoved(r) ==
    /\ req[r].at \in {"passkeyLogin", "passkeyStepUp"}
    /\ challenges[req[r].arg].st = "open"
    /\ challenges' = [challenges EXCEPT ![req[r].arg].st = "consumed"]
    /\ Finish(r)
    /\ UNCHANGED <<user, chosen, factors, stepUps, grants, resets, store>>

CompleteMfaLogin(r) ==
    LET auth == IF EnrollmentIncomplete THEN "enrollment" ELSE "authenticated"
    IN  /\ req[r].at = "factorShown"
        /\ req' = [req EXCEPT ![r] = [@ EXCEPT
              !.at = "save", !.auth = auth, !.grant = 0, !.by = "factor",
              !.arg = 0]]
        /\ UNCHANGED <<user, chosen, factors, oneTime, resets, store>>

NoMethods ==
    [m \in Methods |-> IF method[m].st \in {"pending", "active"}
                       THEN [method[m] EXCEPT !.st = "gone"]
                       ELSE method[m]]

(* mutant: the completed enrolment is left to be overwritten by the next    *)
ConsumeRecoveryCode_KeepsEnrollment(r, c) ==
    /\ req[r].at = "challenge"
    /\ req[r].auth = "challenge"
    /\ FactorRowsLeft(grants)
    /\ codes' = (codes \ {c}) \cup {[c EXCEPT !.consumed = TRUE]}
    /\ method' = NoMethods
    /\ mfa' = [mfa EXCEPT !.enforced = TRUE, !.acked = FALSE]
    /\ incrementSessionVersion
    /\ grants' = Append(grants, [sid |-> req[r].sid, st |-> "open"])
    /\ req' = [req EXCEPT ![r] = [@ EXCEPT
          !.at = "continue", !.ver = user'.version, !.auth = "recovery",
          !.grant = Len(grants) + 1, !.by = "factor"]]
    /\ UNCHANGED <<chosen, stepUps, challenges, resets>>

ConsumeRecoveryCode(r, c) ==
    /\ req[r].at = "challenge"
    /\ req[r].auth = "challenge"
    /\ FactorRowsLeft(grants)
    /\ codes' = (codes \ {c}) \cup {[c EXCEPT !.consumed = TRUE]}
    /\ method' = NoMethods
    /\ mfa' = [mfa EXCEPT !.enforced = TRUE, !.completed = FALSE,
                          !.acked = FALSE]
    /\ incrementSessionVersion
    /\ grants' = Append(grants, [sid |-> req[r].sid, st |-> "open"])
    /\ req' = [req EXCEPT ![r] = [@ EXCEPT
          !.at = "continue", !.ver = user'.version, !.auth = "recovery",
          !.grant = Len(grants) + 1, !.by = "factor"]]
    /\ UNCHANGED <<chosen, stepUps, challenges, resets>>

-----------------------------------------------------------------------------
(* Step-up and what it is for *)

(* verifyStepUpPassword reads the hash; the owner gives the password.      *)
StepUpPassword(r, act) ==
    /\ req[r].at = "normal"
    /\ user.active
    /\ GotoWith(r, "stepUp", act)
    /\ UNCHANGED <<user, chosen, factors, oneTime, resets, store>>

StepUpTotp(r, m, step) ==
    /\ req[r].at = "stepUp"
    /\ AcceptTotp(m, step)
    /\ Goto(r, "issue")
    /\ UNCHANGED <<user, chosen, mfa, codes, oneTime, resets, store>>

StepUpPasskeyStart(r) ==
    /\ req[r].at = "stepUp"
    /\ ActiveMethods \cap PasskeyIds # {}
    /\ NewChallenge("stepUp", req[r].sid, req[r].ver, req[r].arg)
    /\ Finish(r)
    /\ UNCHANGED <<user, chosen, factors, stepUps, grants, resets, store>>

(* A challenge of another session or version is consumed and then refused: *)
(* that is PasskeyCounterMoved's effect on the challenge.                  *)
StepUpPasskeyFinish(r) ==
    LET c == req[r].arg
    IN  /\ req[r].at = "passkeyStepUp"
        /\ challenges[c].sid = req[r].sid
        /\ challenges[c].ver = req[r].ver
        /\ ConsumeChallenge(c)
        /\ GotoWith(r, "issue", challenges[c].act)
        /\ UNCHANGED <<user, chosen, factors, stepUps, grants, resets, store>>

IssueStepUp(r) ==
    /\ req[r].at = "issue"
    /\ FactorRowsLeft(stepUps)
    /\ stepUps' = Append(stepUps,
          [sid |-> req[r].sid, ver |-> req[r].ver, act |-> req[r].arg,
           st |-> "open", uses |-> 0])
    /\ Finish(r)
    /\ UNCHANGED <<user, chosen, factors, challenges, grants, resets, store>>

Presents(r, k, act) ==
    /\ stepUps[k].st = "open"
    /\ stepUps[k].sid = req[r].sid
    /\ stepUps[k].ver = req[r].ver
    /\ stepUps[k].act = act

Consumed(k) == [stepUps EXCEPT ![k].st = "consumed", ![k].uses = @ + 1]

RemoveOwnMethod(r, m, k) ==
    /\ req[r].at = "normal"
    /\ Presents(r, k, m)
    /\ m \in ActiveMethods
    /\ ActiveMethods # {m}
    /\ stepUps' = Consumed(k)
    /\ method' = [method EXCEPT ![m].st = "gone"]
    /\ incrementSessionVersion
    /\ Reopen(r, "authenticated", 0, StillBy(r))
    /\ UNCHANGED <<chosen, mfa, codes, challenges, grants, resets>>

NoChallenges == [c \in DOMAIN challenges |-> [st |-> "deleted",
    purpose |-> "registration", sid |-> 0, ver |-> 0, act |-> "none",
    uses |-> challenges[c].uses]]
NoGrants == [g \in DOMAIN grants |-> [sid |-> 0, st |-> "deleted"]]
NoStepUp(row) == [sid |-> 0, ver |-> 0, act |-> "disable",
                  st |-> "deleted", uses |-> row.uses]
NoStepUps == [k \in DOMAIN stepUps |-> NoStepUp(stepUps[k])]

DisableOwnMfa(r, k) ==
    /\ req[r].at = "normal"
    /\ ~AllUsersEnforced
    /\ Presents(r, k, "disable")
    /\ stepUps' = [l \in DOMAIN stepUps |->
          IF l = k THEN Consumed(k)[k]
          ELSE IF stepUps[l].st = "open" THEN NoStepUp(stepUps[l])
          ELSE stepUps[l]]
    /\ challenges' = NoChallenges
    /\ grants' = NoGrants
    /\ method' = NoMethods
    /\ codes' = {}
    /\ mfa' = [enforced |-> FALSE, completed |-> FALSE, acked |-> FALSE,
               policy |-> FALSE]
    /\ incrementSessionVersion
    /\ Reopen(r, "authenticated", 0, StillBy(r))
    /\ UNCHANGED <<chosen, resets>>

-----------------------------------------------------------------------------
(* What an administrator does to the account *)

ResetUserMfa ==
    /\ method' = NoMethods
    /\ codes' = {}
    /\ challenges' = NoChallenges
    /\ grants' = NoGrants
    /\ stepUps' = NoStepUps
    /\ mfa' = [enforced |-> TRUE, completed |-> FALSE, acked |-> FALSE,
               policy |-> TRUE]
    /\ incrementSessionVersion
    /\ UNCHANGED <<chosen, resets, req>>

(* mutant: the sessions that were opened before go on *)
SetSupportCapability_KeepsSessions(enabled) ==
    /\ mfa' = [mfa EXCEPT !.enforced = @ \/ enabled,
                          !.policy = enabled \/ AllUsersEnforced]
    /\ UNCHANGED <<user, store, chosen, method, codes, oneTime, resets, req>>

SetSupportCapability(enabled) ==
    /\ mfa' = [mfa EXCEPT !.enforced = @ \/ enabled,
                          !.policy = enabled \/ AllUsersEnforced]
    /\ incrementSessionVersion
    /\ UNCHANGED <<chosen, method, codes, oneTime, resets, req>>

(* required: the capability is given and administrators must enrol.        *)
SetAdminCapability(required) ==
    /\ mfa' = [mfa EXCEPT !.policy = required]
    /\ incrementSessionVersion
    /\ UNCHANGED <<chosen, method, codes, oneTime, resets, req>>

(* mutant: only the flag is written *)
SetAccountActive_FlagOnly ==
    /\ CanBump
    /\ user' = [user EXCEPT !.active = ~@]
    /\ UNCHANGED <<chosen, factors, oneTime, resets, store, req>>

(* The session rows stay: their version is what closes them.               *)
SetAccountActive ==
    /\ CanBump
    /\ user' = [Bumped EXCEPT !.active = ~@]
    /\ UNCHANGED <<chosen, factors, oneTime, resets, store, req>>

ChangeEmailOrRole ==
    /\ CanBump
    /\ user' = Bumped
    /\ UNCHANGED <<chosen, factors, oneTime, resets, store, req>>

-----------------------------------------------------------------------------
NoMethod == [st |-> "none", step |-> 0]

(* The account has a temporary password or one hashed with the older cost, *)
(* some enrolled factors (one authenticator app at most) or none; nobody   *)
(* is logged in.                                                           *)
Init ==
    /\ \E p \in Passwords, mustChange \in BOOLEAN :
          /\ user = [pw |-> p, legacy |-> ~mustChange, mustChange |-> mustChange,
                     active |-> TRUE, version |-> 0]
          /\ chosen = p
    /\ \E on \in SUBSET Methods :
          /\ Cardinality(on \cap TotpIds) <= 1
          /\ method = [m \in Methods |-> [NoMethod EXCEPT
                !.st = IF m \in on THEN "active" ELSE @]]
          /\ codes = IF on = {} THEN {}
                     ELSE NewCodes
          /\ mfa = [enforced |-> on # {}, completed |-> on # {},
                    acked |-> on # {}, policy |-> FALSE]
    /\ stepUps = <<>>
    /\ challenges = <<>>
    /\ grants = <<>>
    /\ resets = <<>>
    /\ store = <<>>
    /\ req = [r \in Requests |-> Idle]

Steps == 1..MaxTimeStep

RequestStep(r) ==
    \/ SaveSession(r) \/ ContinueSession(r) \/ Abandon(r)
    \/ \E s \in DOMAIN store, access \in Access : Admit(r, s, access)
    \/ LoginReadsAccount(r) \/ UpgradePasswordHash(r) \/ LoginReadsMfa(r)
    \/ \E p \in Passwords : ReplacePassword(r, p)
    \/ RequestPasswordReset(r) \/ DeliverReset(r) \/ FailResetDelivery(r)
    \/ \E m \in TotpIds : StartTotpEnrollment(r, m)
    \/ ConfirmTotpReads(r) \/ RegistrationReads(r)
    \/ \E m \in TotpIds, n \in Steps : ConfirmTotpEnrollment(r, m, n)
    \/ StartWebAuthnRegistration(r)
    \/ \E c \in DOMAIN challenges : LoadRegistration(r, c)
    \/ \E m \in PasskeyIds : ConfirmWebAuthnRegistration(r, m)
    \/ RegenerateReads(r) \/ RegenerateRecoveryCodes(r)
    \/ AcknowledgeReads(r) \/ AcknowledgeRecoveryCodes(r)
    \/ FactorReadsUser(r)
    \/ \E m \in TotpIds, n \in Steps : LoginTotp(r, m, n)
    \/ LoginPasskeyStart(r)
    \/ \E c \in DOMAIN challenges : LoadAuthentication(r, c)
    \/ LoginPasskeyFinish(r) \/ PasskeyCounterMoved(r) \/ CompleteMfaLogin(r)
    \/ \E c \in Unspent : ConsumeRecoveryCode(r, c)
    \/ \E act \in StepUpActions : StepUpPassword(r, act)
    \/ \E m \in TotpIds, n \in Steps : StepUpTotp(r, m, n)
    \/ StepUpPasskeyStart(r) \/ StepUpPasskeyFinish(r) \/ IssueStepUp(r)
    \/ \E m \in Methods, k \in DOMAIN stepUps : RemoveOwnMethod(r, m, k)
    \/ \E k \in DOMAIN stepUps : DisableOwnMfa(r, k)

OtherStep ==
    \/ \E s \in DOMAIN store : RejectSession(s) \/ Logout(s)
    \/ \E p \in Passwords : IssueTemporaryPassword(p)
    \/ \E t \in DOMAIN resets, p \in Passwords : ConfirmPasswordReset(t, p)
    \/ ResetUserMfa
    \/ \E enabled \in BOOLEAN : SetSupportCapability(enabled)
    \/ \E required \in BOOLEAN : SetAdminCapability(required)
    \/ SetAccountActive
    \/ ChangeEmailOrRole

Next == OtherStep \/ \E r \in Requests : RequestStep(r)

Spec == Init /\ [][Next]_vars

-----------------------------------------------------------------------------
(* The ways into the account the rows stand for *)

MustEnrol == ~Enrolled /\ (PolicyRequired \/ EnrollmentIncomplete)

Account ==
    [password |-> user.pw, on |-> user.active, factors |-> ActiveMethods,
     confirmed |-> mfa.acked, second |-> RequiresMfaLogin,
     change |-> user.mustChange, enrol |-> MustEnrol]

WaysOf(s) ==
    {[session |-> s, shown |-> store[s].pw, by |-> store[s].by,
      purpose |-> access] :
        access \in {a \in Access : MayEnter(a, store[s], s)}}

Ways == UNION {WaysOf(s) : s \in {n \in DOMAIN store : Live(n)}}

Entry == INSTANCE AccountAccess WITH
    NotShown <- NoPassword, Factors <- Methods, Purposes <- Access,
    Shown <- Proofs, account <- Account, ways <- Ways

-----------------------------------------------------------------------------
(* Properties *)

RowStates == {"open", "consumed", "deleted"}
UserRow == [pw : Passwords, legacy : BOOLEAN, mustChange : BOOLEAN,
            active : BOOLEAN, version : 0..MaxVersion]
SettingsRow == [enforced : BOOLEAN, completed : BOOLEAN, acked : BOOLEAN,
                policy : BOOLEAN]
MethodRow == [st : {"none", "pending", "active", "gone"},
              step : 0..MaxTimeStep]
CodeRow == [i : 1..CodesPerSet, consumed : BOOLEAN]
StepUpRow == [sid : Nat, ver : Nat, act : StepUpActions, st : RowStates,
              uses : Nat]
ChallengeRow == [st : RowStates, sid : Nat, ver : Nat, uses : Nat,
                 purpose : {"registration", "authentication", "stepUp"},
                 act : StepUpActions \cup {"none"}]
GrantRow == [sid : Nat, st : RowStates]
ResetRow == [consumed : BOOLEAN, sent : BOOLEAN, uses : Nat]
SessionRow == [kept : BOOLEAN, ver : 0..MaxVersion, auth : AuthStates,
               grant : Nat, pw : Passwords \cup {NoPassword}, by : Proofs]

(* Every row of the account's tables has the columns the code gives it.    *)
TypeOK ==
    /\ user \in UserRow
    /\ chosen \in Passwords
    /\ mfa \in SettingsRow
    /\ method \in [Methods -> MethodRow]
    /\ codes \subseteq CodeRow
    /\ stepUps \in Seq(StepUpRow)
    /\ challenges \in Seq(ChallengeRow)
    /\ grants \in Seq(GrantRow)
    /\ resets \in Seq(ResetRow)
    /\ store \in Seq(SessionRow)

(* The hash upgrade of a slow login races a password change or a reset: it *)
(* never brings the older password back.                                   *)
LastChosenPasswordStands == user.pw = chosen

(* A login verifies the password, a change replaces it, and both save      *)
(* their session later: it is usable only while that password is the       *)
(* account's.                                                              *)
LoginSessionsAreCurrent ==
    \A s \in DOMAIN store :
        Live(s) /\ store[s].pw # NoPassword => store[s].pw = user.pw

(* A login decides on the MFA state it read, and what it opens is reopened *)
(* by requests that decide on what they read: no account that by now has   *)
(* to show a second factor is open to sessions that showed a password and  *)
(* no more since their login.  Not so in two cases: "change", a required   *)
(* password change opened the account to a temporary password and the new  *)
(* one; "late", the request was admitted before the account was closed and *)
(* committed after.                                                        *)
SecondFactorIsNotSkipped ==
    \A s \in DOMAIN store :
        (/\ Live(s)
         /\ RequiresMfaLogin
         /\ store[s].auth # "challenge"
         /\ ~user.mustChange) => store[s].by # "password"

(* README.md 325-327, 408-409: the requests that an enrolled account's     *)
(* session is for reach it after a second factor only.                     *)
PasswordAloneStaysOut ==
    \A s \in DOMAIN store :
        (/\ Live(s)
         /\ RequiresMfaLogin
         /\ MayEnter("normal", store[s], s)) => store[s].by = "factor"

(* A challenge loaded by two requests, an authorisation presented by two,  *)
(* a reset token confirmed twice: each row has its effect at most once.    *)
NothingIsSpentTwice ==
    /\ \A c \in DOMAIN challenges : challenges[c].uses <= 1
    /\ \A k \in DOMAIN stepUps : stepUps[k].uses <= 1
    /\ \A t \in DOMAIN resets : resets[t].uses <= 1

(* The token of the newest reset request, once delivered, works until it   *)
(* is used: the failed delivery of an older one does not take it away.     *)
NewestResetWorks ==
    \A t \in DOMAIN resets :
        (t = Len(resets) /\ resets[t].sent /\ resets[t].uses = 0) =>
            ~resets[t].consumed

(* An account whose last factor goes has its enrolment undone in the same  *)
(* transaction: no other operation takes the last factor away.             *)
LastFactorEndsEnrollment ==
    [][(ActiveMethods # {} /\ ActiveMethods' = {}) =>
          ~mfa'.completed /\ ~mfa'.acked]_vars

(* Whatever changes what proves the owner's identity closes every session  *)
(* opened before: the password, the factors, their acknowledged codes, the *)
(* account's being active.                                                 *)
IdentityChangesCloseSessions ==
    [][(\/ user'.pw # user.pw
        \/ user'.active # user.active
        \/ ActiveMethods' # ActiveMethods
        \/ mfa'.acked # mfa.acked) => \A s \in DOMAIN store : ~Live(s)']_vars

(* README.md 294-310 and 325-333: taken together, the requests and what    *)
(* they remember let nobody in but as AccountAccess allows.  A session is  *)
(* opened for the account as it is when its row is saved, whatever its     *)
(* request read before, and none survives a change of the account: of its  *)
(* password, its factors, its settings or the policy it is under.  (The    *)
(* promise leaves out what SecondFactorIsNotSkipped does.)                 *)
EntersAsPromised == Entry!AccessSpec

=============================================================================
