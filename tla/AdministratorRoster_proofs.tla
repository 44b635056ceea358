---------------------- MODULE AdministratorRoster_proofs ----------------------
(* What the refuted sentence of AdministratorRoster needs to be true, for  *)
(* any number of accounts, administrators and requests.                    *)
EXTENDS AdministratorRoster, TLAPS

(* Whoever takes a capability or an account away is at that moment, and    *)
(* not only when his request was admitted, an active administrator, and    *)
(* does not close his own account.                                         *)
ActsAsAdministrator ==
    \A r \in Requests :
        (active' # active \/ admins' # admins) /\ req'[r] # req[r] =>
            /\ req[r].actor \in active \cap admins
            /\ req[r].actor \in active'

-----------------------------------------------------------------------------
(* The target of a removal is never who asked for it: refused when the     *)
(* capabilities are counted, and still so when the row is written.         *)

Stages == {"idle", "admitted", "counted"}

Request == [at : Stages, actor : Accounts \cup {Nobody},
            target : Accounts \cup {Nobody}]

NobodyRemovesHimself ==
    \A r \in Requests :
        req[r].at = "counted" => req[r].target # req[r].actor

RosterInv ==
    /\ req \in [Requests -> Request]
    /\ NobodyRemovesHimself

LEMMA IdleIsRequest == Idle \in Request /\ Idle.at = "idle"
  BY DEF Idle, Request, Stages

LEMMA FinishKeeps ==
    ASSUME RosterInv, NEW r \in Requests, Finish(r)
    PROVE  RosterInv'
  <1>1. req' \in [Requests -> Request]
    BY IdleIsRequest DEF RosterInv, Finish
  <1>2. \A q \in Requests : req'[q] = Idle \/ req'[q] = req[q]
    BY DEF RosterInv, Finish
  <1> QED
    BY <1>1, <1>2, IdleIsRequest DEF RosterInv, NobodyRemovesHimself

LEMMA RosterStep ==
    ASSUME RosterInv, NEW r \in Requests, RequestStep(r)
    PROVE  RosterInv'
  <1>1. ASSUME NEW a \in Accounts, Admit(r, a)
        PROVE  RosterInv'
    <2> DEFINE q == [Idle EXCEPT !.at = "admitted", !.actor = a]
    <2>1. q \in Request /\ q.at = "admitted"
      BY DEF Idle, Request, Stages
    <2>2. req' = [req EXCEPT ![r] = q]
      BY <1>1 DEF Admit
    <2> HIDE DEF q
    <2> QED
      BY <2>1, <2>2 DEF RosterInv, NobodyRemovesHimself
  <1>2. ASSUME NEW a \in Accounts, CountAdministrators(r, a)
        PROVE  RosterInv'
    <2> DEFINE q == [req[r] EXCEPT !.at = "counted", !.target = a]
    <2>1. req[r] \in Request
      BY DEF RosterInv
    <2>2. q \in Request /\ q.target = a /\ q.actor = req[r].actor
      BY <2>1 DEF Request, Stages
    <2>3. req' = [req EXCEPT ![r] = q] /\ a # req[r].actor
      BY <1>2 DEF CountAdministrators, RosterInv
    <2> HIDE DEF q
    <2> QED
      BY <2>2, <2>3 DEF RosterInv, NobodyRemovesHimself
  <1>3. CASE \/ \E a \in Accounts :
                   \/ GiveCapability(r, a)
                   \/ \E on \in BOOLEAN : setAdminStaffActive(r, a, on)
             \/ TakeCapability(r) \/ Abandon(r)
    BY <1>3, FinishKeeps
       DEF GiveCapability, setAdminStaffActive, TakeCapability, Abandon
  <1> QED
    BY <1>1, <1>2, <1>3 DEF RequestStep

LEMMA Roster == Spec => []RosterInv
  <1>1. Init => RosterInv
    BY IdleIsRequest DEF Init, RosterInv, NobodyRemovesHimself
  <1>2. RosterInv /\ [Next]_vars => RosterInv'
    <2>1. RosterInv /\ Next => RosterInv'
      BY RosterStep DEF Next
    <2>2. RosterInv /\ UNCHANGED vars => RosterInv'
      BY DEF vars, RosterInv, NobodyRemovesHimself
    <2> QED
      BY <2>1, <2>2
  <1> QED
    BY <1>1, <1>2, PTL DEF Spec

-----------------------------------------------------------------------------
(* The administrator who acts is the one who remains.                      *)
LEMMA ActorRemains ==
    ASSUME RosterInv, AnAdministratorRemains, ActsAsAdministrator,
           NEW r \in Requests, RequestStep(r)
    PROVE  AnAdministratorRemains'
  <1>1. CASE active \cap admins \subseteq active' \cap admins'
    BY <1>1 DEF AnAdministratorRemains
  <1>2. ASSUME NEW a \in Accounts, NEW on \in BOOLEAN,
               setAdminStaffActive(r, a, on)
        PROVE  AnAdministratorRemains'
    <2>1. req[r].at = "admitted" /\ req'[r] = Idle
      BY <1>2 DEF setAdminStaffActive, Finish, RosterInv
    <2>2. req'[r] # req[r]
      BY <2>1, IdleIsRequest
    <2>3. active' # active => req[r].actor \in active' \cap admins
      BY <2>2 DEF ActsAsAdministrator
    <2>4. admins' = admins
      BY <1>2 DEF setAdminStaffActive
    <2> QED
      BY <2>3, <2>4 DEF AnAdministratorRemains
  <1>3. CASE TakeCapability(r)
    <2>1. /\ req[r].at = "counted" /\ req'[r] = Idle
          /\ admins' = admins \ {req[r].target} /\ active' = active
      BY <1>3 DEF TakeCapability, Finish, RosterInv
    <2>2. req'[r] # req[r]
      BY <2>1, IdleIsRequest
    <2>3. req[r].target # req[r].actor
      BY <2>1 DEF RosterInv, NobodyRemovesHimself
    <2>4. admins' # admins => req[r].actor \in active \cap admins
      BY <2>2 DEF ActsAsAdministrator
    <2> QED
      BY <2>1, <2>3, <2>4 DEF AnAdministratorRemains
  <1>4. CASE \/ \E a \in Accounts :
                   Admit(r, a) \/ GiveCapability(r, a) \/ CountAdministrators(r, a)
             \/ Abandon(r)
    BY <1>1, <1>4 DEF Admit, GiveCapability, CountAdministrators, Abandon
  <1> QED
    BY <1>2, <1>3, <1>4 DEF RequestStep

(* server/auth/admin-account-security.ts 248: at least one active          *)
(* administrator remains as long as whoever takes a capability or closes   *)
(* an account is an active administrator when it is written, and not       *)
(* himself the account closed.  The count of capabilities adds nothing to  *)
(* that, and no other step takes the last administrator away.              *)
THEOREM AdministratorRemainsIfOneActs ==
    ASSUME Seeded \in Accounts
    PROVE  Spec /\ [][ActsAsAdministrator]_vars => []AnAdministratorRemains
  <1>1. Init => AnAdministratorRemains
    BY DEF Init, AnAdministratorRemains
  <1>2. RosterInv /\ AnAdministratorRemains /\ Next /\ ActsAsAdministrator
           => AnAdministratorRemains'
    BY ActorRemains DEF Next
  <1>3. AnAdministratorRemains /\ UNCHANGED vars => AnAdministratorRemains'
    BY DEF vars, AnAdministratorRemains
  <1> QED
    BY <1>1, <1>2, <1>3, Roster, PTL DEF Spec

=============================================================================
