------------------------------- MODULE PayoutBook -------------------------------
(***************************************************************************)
(* What the pay sheets promise whoever is paid from them, with no sheet,   *)
(* row or status in sight (README.md 739-798).                             *)
(*                                                                         *)
(* House and every producer keep a count of months.  House starts in a     *)
(* month an admin picks, a producer in the month House is in.  A month is  *)
(* paid out at once: for policies whose money is there and which the chain *)
(* has not paid out before, and each under the producer it is assigned to  *)
(* at that moment.  Paying out moves the chain to the next month; several  *)
(* chains pay out together only along with House.  Nothing else writes to  *)
(* the book, and nothing is ever struck from it.                           *)
(***************************************************************************)
EXTENDS Naturals

CONSTANTS
    Policies,     \* approved policies
    Producers,    \* producers, each the owner of a chain
    House,        \* the agency's own chain
    Unassigned,   \* a policy without a producer
    FirstMonths   \* months House may start in

Chains == {House} \cup Producers

VARIABLES
    month,     \* the month a chain is in; 0 before it starts
    received,  \* live policies whose money the MGA has paid
    book       \* what has been paid out

bookVars == <<month, received, book>>

BookInit ==
    /\ month = [c \in Chains |-> 0]
    /\ received = {}
    /\ book = {}

Started(c) == month[c] # 0

PaidOut(c) == {e.policy : e \in {f \in book : f.chain = c}}

StartHouse(m) ==
    /\ ~Started(House)
    /\ month' = [month EXCEPT ![House] = m]
    /\ UNCHANGED <<received, book>>

(* Money comes in, goes back or moves with a correction; the producers C   *)
(* it makes due for a share start their months.                            *)
MoveMoney(C, R) ==
    /\ C # {} => Started(House)
    /\ \A c \in C : ~Started(c)
    /\ month' = [c \in Chains |-> IF c \in C THEN month[House] ELSE month[c]]
    /\ received' = R
    /\ UNCHANGED book

Entries(C, due, assigned) ==
    UNION {{[chain |-> c, month |-> month[c], policy |-> p, producer |-> assigned[p]] :
                p \in due[c]} : c \in C}

PayOut(C, due, assigned) ==
    /\ \A c, d \in C : c # d => House \in C
    /\ \A c \in C :
           /\ Started(c)
           /\ due[c] # {}
           /\ due[c] \subseteq received \ PaidOut(c)
    /\ month' = [c \in Chains |-> IF c \in C THEN month[c] + 1 ELSE month[c]]
    /\ book' = book \cup Entries(C, due, assigned)
    /\ UNCHANGED received

BookNext ==
    \/ \E m \in FirstMonths : StartHouse(m)
    \/ \E C \in SUBSET Producers, R \in SUBSET Policies : MoveMoney(C, R)
    \/ \E C \in SUBSET Chains :
           \E due \in [C -> SUBSET Policies],
              assigned \in [Policies -> Producers \cup {Unassigned}] :
                  PayOut(C, due, assigned)

BookSpec == BookInit /\ [][BookNext]_bookVars

-----------------------------------------------------------------------------
(* What follows from it *)

(* A chain pays a policy out once, under one producer.                     *)
PaidAtMostOnce ==
    \A e, f \in book : e.chain = f.chain /\ e.policy = f.policy => e = f

(* From the first month a chain paid something out to the month it is in   *)
(* it paid something out in every one.                                     *)
NoMonthIsSkipped ==
    \A e \in book :
        /\ e.month < month[e.chain]
        /\ \A m \in e.month .. month[e.chain] - 1 :
              \E f \in book : f.chain = e.chain /\ f.month = m

(* Nobody is paid before House has started.                                *)
HouseStartsFirst == \A c \in Chains : Started(c) => Started(House)

=============================================================================
