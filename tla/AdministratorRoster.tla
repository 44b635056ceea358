------------------------- MODULE AdministratorRoster -------------------------
(* Who administers the office: the accounts that are active, the accounts  *)
(* that hold the administrator capability, and the requests of admitted    *)
(* administrators that change either.  A request keeps the principal it    *)
(* was admitted with; a removal counts the capabilities and then writes,   *)
(* holding the row lock of its target only.  The version bumps are left    *)
(* out: they close sessions, and an administrator logs in again.           *)
EXTENDS FiniteSets, Naturals

CONSTANTS
    Accounts,  \* the users rows
    Staff,     \* the accounts with a staff profile
    Seeded,    \* the administrator of the initial roster, who has none
    Requests,  \* requests the server handles at the same time
    Nobody     \* no member of Accounts

VARIABLES
    active,    \* users.is_active and staff_profiles.is_active
    admins,    \* holders of an active row of user_capabilities
    req        \* the requests in flight

vars == <<active, admins, req>>

Idle == [at |-> "idle", actor |-> Nobody, target |-> Nobody]

Init ==
    /\ active = Accounts
    /\ admins = {Seeded}
    /\ req = [r \in Requests |-> Idle]

(* SELECT ... FOR UPDATE of the target, held until the removal commits.    *)
LockedByOther(r, account) ==
    \E q \in Requests \ {r} :
        req[q].at = "counted" /\ req[q].target = account

(* The row of the target is locked; the audit row refers to the actor's.   *)
MayWrite(r, target) ==
    /\ ~LockedByOther(r, target)
    /\ ~LockedByOther(r, req[r].actor)

Finish(r) == req' = [req EXCEPT ![r] = Idle]

(* The authorisation guard loads the principal once, before the handler.   *)
Admit(r, actor) ==
    /\ req[r].at = "idle"
    /\ actor \in active \cap admins
    /\ req' = [req EXCEPT ![r] = [Idle EXCEPT !.at = "admitted",
                                              !.actor = actor]]
    /\ UNCHANGED <<active, admins>>

GiveCapability(r, target) ==
    /\ req[r].at = "admitted"
    /\ MayWrite(r, target)
    /\ admins' = admins \cup {target}
    /\ Finish(r)
    /\ UNCHANGED active

(* Up to the count: of capabilities, whoever's account is active.          *)
CountAdministrators(r, target) ==
    /\ req[r].at = "admitted"
    /\ target # req[r].actor
    /\ ~LockedByOther(r, target)
    /\ Cardinality(admins) > 1
    /\ req' = [req EXCEPT ![r].at = "counted", ![r].target = target]
    /\ UNCHANGED <<active, admins>>

TakeCapability(r) ==
    /\ req[r].at = "counted"
    /\ ~LockedByOther(r, req[r].actor)
    /\ admins' = admins \ {req[r].target}
    /\ Finish(r)
    /\ UNCHANGED active

setAdminStaffActive(r, target, on) ==
    /\ req[r].at = "admitted"
    /\ target \in Staff
    /\ (target \in active) # on
    /\ MayWrite(r, target)
    /\ active' = IF on THEN active \cup {target} ELSE active \ {target}
    /\ Finish(r)
    /\ UNCHANGED admins

(* A refusal, an error, or the deadlock detector of the database.          *)
Abandon(r) ==
    /\ req[r].at # "idle"
    /\ Finish(r)
    /\ UNCHANGED <<active, admins>>

RequestStep(r) ==
    \/ \E account \in Accounts :
          \/ Admit(r, account)
          \/ GiveCapability(r, account)
          \/ CountAdministrators(r, account)
          \/ \E on \in BOOLEAN : setAdminStaffActive(r, account, on)
    \/ TakeCapability(r)
    \/ Abandon(r)

Next == \E r \in Requests : RequestStep(r)

Spec == Init /\ [][Next]_vars

-----------------------------------------------------------------------------
(* The refusal of the removal says that at least one active administrator  *)
(* must remain: somebody can still log in and administer the accounts.     *)
AnAdministratorRemains == active \cap admins # {}

=============================================================================
