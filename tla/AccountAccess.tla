----------------------------- MODULE AccountAccess -----------------------------
(***************************************************************************)
(* What the sessions of an account are good for, with no version, row or   *)
(* request in sight (README.md 294-310, 325-333, 386-417).                 *)
(*                                                                         *)
(* A way in is a session with one of the purposes it may be used for now.  *)
(* Sessions are opened one at a time, for the account as it is at that     *)
(* moment: one that showed a password showed the current one, ordinary     *)
(* work waits for a required password change and for a required            *)
(* enrolment, and a password alone never does where the account asks for a *)
(* second factor.  Whatever changes about the account, nobody stays in.    *)
(*                                                                         *)
(* README.md 325-327 promises more than is kept here: a required password  *)
(* change, and a request that was under way when the account was closed,   *)
(* do let in whoever showed a password only.  These ways are marked.       *)
(***************************************************************************)

CONSTANTS
    Passwords,  \* passwords the account may be given
    NotShown,   \* the password of a session that was not opened with one
    Shown,      \* what was shown since the login: "password" is no more
    Factors,    \* second factors the account may have
    Purposes    \* what a request may be for

VARIABLES
    account,    \* what the owner must show, and has to do first
    ways        \* the ways in

accessVars == <<account, ways>>

Account == [password : Passwords, on : BOOLEAN, factors : SUBSET Factors,
            confirmed : BOOLEAN,   \* the owner has the recovery codes
            second : BOOLEAN,      \* a login has to show a second factor
            change : BOOLEAN,      \* the password has to be changed first
            enrol : BOOLEAN]       \* a second factor has to be enrolled first

AccessInit == account \in Account /\ ways = {}

(* What a session may be used for as the account is. *)
Good(by, purpose) ==
    /\ account.change => purpose = "change"
    /\ purpose = "normal" =>
          /\ ~account.enrol
          /\ account.second => by # "password"

LetIn(session, shown, by) ==
    /\ UNCHANGED account
    /\ account.on
    /\ shown \in {NotShown, account.password}
    /\ by \in Shown
    /\ \A w \in ways' :
          \/ w \in ways /\ w.session # session
          \/ /\ w.session = session /\ w.shown = shown /\ w.by = by
             /\ Good(by, w.purpose)

Close == UNCHANGED account /\ ways' \subseteq ways

ChangeAccount == ways' = {} /\ account' \in Account

AccessNext ==
    \/ Close
    \/ ChangeAccount
    \/ \E w \in ways' : LetIn(w.session, w.shown, w.by)

AccessSpec == AccessInit /\ [][AccessNext]_accessVars

=============================================================================
