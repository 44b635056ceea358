--------------------------- MODULE PaySheetSettlement ---------------------------
(***************************************************************************)
(* Where an MGA-paid policy is settled.                                    *)
(*                                                                         *)
(* Every owner has a chain of monthly pay sheets: the agency's House chain *)
(* (owner type 'sophia') and one chain per producer.  A policy the MGA has *)
(* paid is attached to the open sheet of House and, when it is assigned to *)
(* a producer, of that producer; closing a sheet freezes it and opens the  *)
(* next month.  An action below is one committed transaction: the database *)
(* serialises all of them except a correction on one advisory lock         *)
(* (drizzle/0044, 164-306), and a correction commits on its policy row.    *)
(* A request that raises is rolled back whole, so it is no step here.      *)
(*                                                                         *)
(* Left out: amounts and rates' values (a close reads only whether a rate  *)
(* is in effect), the expected-version check of delete, restore and        *)
(* correction (a stale request raises), audit rows, business generations.  *)
(***************************************************************************)
EXTENDS Integers

CONSTANTS
    Policies,          \* approved policies
    Producers,         \* producers, each the owner of a chain
    Sophia,            \* the House chain
    Unassigned,        \* producer_user_id IS NULL (kaylee_split = 'none')
    BootstrapPeriods,  \* periods an admin may pick for the first House sheet
    Horizon            \* last month ordinal a sheet may have (bound)

Chains == {Sophia} \cup Producers

(* pay_sheets_period_check *)
Period == [year : 2000 .. 9999, month : 1 .. 12]

Ordinal(m) == 12 * m.year + m.month

(* mutant: the year never turns *)
NextPeriod_NoYearEnd(m) == [year |-> m.year, month |-> m.month + 1]

NextPeriod(m) ==
    IF m.month = 12
    THEN [year |-> m.year + 1, month |-> 1]
    ELSE [year |-> m.year, month |-> m.month + 1]

ASSUME SettlementAssumptions ==
    /\ Sophia \notin Producers
    /\ Unassigned \notin Chains
    /\ Horizon \in Nat
    /\ Horizon <= 12 * 9999 + 12
    /\ BootstrapPeriods \subseteq {m \in Period : Ordinal(m) <= Horizon}

Sheet == [chain : Chains, period : Period]
Row   == [sheet : Sheet, policy : Policies]

Successor(s) == [chain |-> s.chain, period |-> NextPeriod(s.period)]

VARIABLES
    policies,      \* policies: MGA paid, assigned producer, soft-deleted
    openSheets,    \* pay_sheets with status 'open'
    closedSheets,  \* pay_sheets with status 'closed'
    attached,      \* pay_sheet_policies
    frozen,        \* frozen_policy_snapshot of the rows of closed sheets
    rated          \* producers with a rate effective today

vars == <<policies, openSheets, closedSheets, attached, frozen, rated>>

PolicyRow == [paid : BOOLEAN, producer : Producers \cup {Unassigned}, deleted : BOOLEAN]

Init ==
    /\ policies \in [Policies -> {r \in PolicyRow : ~r.paid /\ ~r.deleted}]
    /\ openSheets = {}
    /\ closedSheets = {}
    /\ attached = {}
    /\ frozen = {}
    /\ rated = {}

-----------------------------------------------------------------------------
(* Reading the tables *)

OpenOf(c) == {s \in openSheets : s.chain = c}

RowsOf(s) == {a \in attached : a.sheet = s}

(* A closed sheet of the chain already carries the policy. *)
Settled(p, c) ==
    \E a \in attached :
        a.policy = p /\ a.sheet.chain = c /\ a.sheet \in closedSheets

SettledAnywhere(p) == \E c \in Chains : Settled(p, c)

Live(p) == ~policies[p].deleted

(* The chains that must carry the policy once the MGA has paid it. *)
ChainsOf(p) == {Sophia} \cup ({policies[p].producer} \ {Unassigned})

-----------------------------------------------------------------------------
(* Opening chains *)

(* A chain with history but no open sheet is reported, never repaired. *)
CanInitialize(c) == ~ \E s \in openSheets \cup closedSheets : s.chain = c

InitializeSophia(m) ==
    /\ CanInitialize(Sophia)
    /\ openSheets' = openSheets \cup {[chain |-> Sophia, period |-> m]}
    /\ UNCHANGED <<policies, closedSheets, attached, frozen, rated>>

(* mutant: in the month after it *)
FirstSheets_MonthAfter(c) ==
    {[chain |-> c, period |-> NextPeriod(h.period)] : h \in OpenOf(Sophia)}

(* A producer's first sheet starts in the month House is in now. *)
FirstSheets(c) == {[chain |-> c, period |-> h.period] : h \in OpenOf(Sophia)}

(* A chargeback on the open House sheet mirrors onto its producer. *)
OpenChainForMirror(c) ==
    /\ OpenOf(Sophia) # {}
    /\ c \in rated
    /\ CanInitialize(c)
    /\ openSheets' = openSheets \cup FirstSheets(c)
    /\ UNCHANGED <<policies, closedSheets, attached, frozen, rated>>

-----------------------------------------------------------------------------
(* MGA payment state and placement *)

WithPaid(P, paid) ==
    [p \in Policies |-> IF p \in P THEN [policies[p] EXCEPT !.paid = paid] ELSE policies[p]]

(* Producers of P that have no open sheet yet. *)
LazyChains(P) ==
    {c \in Producers : OpenOf(c) = {} /\ \E p \in P : policies[p].producer = c}

(* mutant: attaches whatever the chain has settled *)
Place_IgnoresHistory(P) ==
    /\ OpenOf(Sophia) # {}
    /\ \A c \in LazyChains(P) : CanInitialize(c)
    /\ openSheets' = openSheets \cup UNION {FirstSheets(c) : c \in LazyChains(P)}
    /\ attached' = attached \cup
           {a \in [sheet : openSheets', policy : P] : a.sheet.chain \in ChainsOf(a.policy)}

(* Attach P to every chain that must carry it and has not settled it. *)
Place(P) ==
    /\ OpenOf(Sophia) # {}
    /\ \A c \in LazyChains(P) : CanInitialize(c)
    /\ openSheets' = openSheets \cup UNION {FirstSheets(c) : c \in LazyChains(P)}
    /\ attached' = attached \cup
           {a \in [sheet : openSheets', policy : P] :
               /\ a.sheet.chain \in ChainsOf(a.policy)
               /\ ~Settled(a.policy, a.sheet.chain)}

(* mutant: history is detached with the rest *)
Detach_AllSheets(P) == attached' = {a \in attached : a.policy \notin P}

(* mutant: only the House row is detached *)
Detach_HouseOnly(P) ==
    attached' = {a \in attached : a.policy \in P =>
                     a.sheet \in closedSheets \/ a.sheet.chain # Sophia}

(* Detach P from the open sheets; closed history keeps its rows. *)
Detach(P) ==
    attached' = {a \in attached : a.policy \in P => a.sheet \in closedSheets}

MarkPaid(P) ==
    /\ policies' = WithPaid(P, TRUE)
    /\ Place(P)
    /\ UNCHANGED <<closedSheets, frozen, rated>>

MarkUnpaid(P) ==
    /\ policies' = WithPaid(P, FALSE)
    /\ Detach(P)
    /\ UNCHANGED <<openSheets, closedSheets, frozen, rated>>

(* One payable: placement runs even when the payment state is unchanged. *)
ChangeMgaPayableState(p, paid) ==
    /\ Live(p)
    /\ IF paid THEN MarkPaid({p}) ELSE MarkUnpaid({p})

(* All live policies G of one MGA; those already in the state are skipped. *)
ChangeMgaPayableGroupState(G, paid) ==
    LET P == {p \in G : policies[p].paid # paid}
    IN  /\ \A p \in G : Live(p)
        /\ P # {}
        /\ IF paid THEN MarkPaid(P) ELSE MarkUnpaid(P)

-----------------------------------------------------------------------------
(* Closing *)

(* mutant: a month without policies may close *)
Closable_EmptyAllowed(s) ==
    /\ s.chain \in Producers => s.chain \in rated
    /\ Ordinal(NextPeriod(s.period)) <= Horizon

(* What the close refuses for business reasons. *)
Closable(s) ==
    /\ RowsOf(s) # {}
    /\ s.chain \in Producers => s.chain \in rated
    /\ Ordinal(NextPeriod(s.period)) <= Horizon

(* What the triggers and unique indexes hit by a close demand. *)
CloseIntegrity(s) ==
    /\ \A a \in RowsOf(s) : Live(a.policy) /\ ~Settled(a.policy, s.chain)
    /\ OpenOf(s.chain) = {s}
    /\ Successor(s) \notin openSheets \cup closedSheets

Snapshot(a) ==
    [sheet |-> a.sheet, policy |-> a.policy, producer |-> policies[a.policy].producer]

(* mutant: the next month is not opened *)
CloseSheets_NoSuccessor(S) ==
    /\ \A s \in S : Closable(s) /\ CloseIntegrity(s)
    /\ openSheets' = openSheets \ S
    /\ closedSheets' = closedSheets \cup S
    /\ frozen' = frozen \cup {Snapshot(a) : a \in {b \in attached : b.sheet \in S}}
    /\ UNCHANGED <<policies, attached, rated>>

(* The sheets S close together or not at all. *)
CloseSheets(S) ==
    /\ \A s \in S : Closable(s) /\ CloseIntegrity(s)
    /\ openSheets' = (openSheets \ S) \cup {Successor(s) : s \in S}
    /\ closedSheets' = closedSheets \cup S
    /\ frozen' = frozen \cup {Snapshot(a) : a \in {b \in attached : b.sheet \in S}}
    /\ UNCHANGED <<policies, attached, rated>>

(* Closing House takes along every producer sheet that has a policy. *)
CascadeTargets(s, cascade) ==
    IF s.chain = Sophia /\ cascade
    THEN {s} \cup {t \in openSheets : t.chain # Sophia /\ RowsOf(t) # {}}
    ELSE {s}

(* mutant: a repeated House close cascades again *)
ClosePaySheet_CascadesAgain(s, cascade) ==
    \/ s \in openSheets /\ CloseSheets(CascadeTargets(s, cascade))
    \/ s \in closedSheets /\ CloseSheets(CascadeTargets(s, cascade) \ {s})

(* A repeated close answers with the first close's result and does nothing. *)
ClosePaySheet(s, cascade) ==
    \/ s \in openSheets /\ CloseSheets(CascadeTargets(s, cascade))
    \/ s \in closedSheets /\ UNCHANGED vars

(* Closing a producer's month locks the rate it was paid at. *)
RateIsLocked(c) == \E s \in closedSheets : s.chain = c

(* A rate takes effect, or an admin moves an unlocked one to a later date. *)
ChangeProducerRate(c) ==
    /\ \/ c \notin rated /\ rated' = rated \cup {c}
       \/ c \in rated /\ ~RateIsLocked(c) /\ rated' = rated \ {c}
    /\ UNCHANGED <<policies, openSheets, closedSheets, attached, frozen>>

-----------------------------------------------------------------------------
(* Deletion, restoration and correction of an approved policy *)

(* mutant: the open sheets keep the deleted policy *)
SoftDeletePolicy_KeepsRows(p) ==
    /\ Live(p)
    /\ policies' = [policies EXCEPT ![p].deleted = TRUE]
    /\ UNCHANGED <<openSheets, closedSheets, attached, frozen, rated>>

SoftDeletePolicy(p) ==
    /\ Live(p)
    /\ policies' = [policies EXCEPT ![p].deleted = TRUE]
    /\ Detach({p})
    /\ UNCHANGED <<openSheets, closedSheets, frozen, rated>>

(* mutant: a restored policy is not placed again *)
RestorePolicy_NotPlaced(p) ==
    /\ ~Live(p)
    /\ policies' = [policies EXCEPT ![p].deleted = FALSE]
    /\ UNCHANGED <<openSheets, closedSheets, attached, frozen, rated>>

RestorePolicy(p) ==
    /\ ~Live(p)
    /\ policies' = [policies EXCEPT ![p].deleted = FALSE]
    /\ IF policies[p].paid /\ ~SettledAnywhere(p)
       THEN Place({p})
       ELSE UNCHANGED <<openSheets, attached>>
    /\ UNCHANGED <<closedSheets, frozen, rated>>

(* A correction rewrites the policy row and never its placements. *)
CorrectAssignment(p, producer) ==
    /\ Live(p)
    /\ producer # policies[p].producer
    /\ policies' = [policies EXCEPT ![p].producer = producer]
    /\ UNCHANGED <<openSheets, closedSheets, attached, frozen, rated>>

Next ==
    \/ \E m \in BootstrapPeriods : InitializeSophia(m)
    \/ \E c \in Producers : OpenChainForMirror(c) \/ ChangeProducerRate(c)
    \/ \E p \in Policies, paid \in BOOLEAN : ChangeMgaPayableState(p, paid)
    \/ \E G \in SUBSET Policies, paid \in BOOLEAN : ChangeMgaPayableGroupState(G, paid)
    \/ \E s \in openSheets \cup closedSheets, cascade \in BOOLEAN : ClosePaySheet(s, cascade)
    \/ \E p \in Policies : SoftDeletePolicy(p) \/ RestorePolicy(p)
    \/ \E p \in Policies, q \in Producers \cup {Unassigned} : CorrectAssignment(p, q)

Spec == Init /\ [][Next]_vars

-----------------------------------------------------------------------------
(* The payout book the tables stand for *)

MonthOf(c) ==
    IF OpenOf(c) = {} THEN 0 ELSE Ordinal((CHOOSE s \in OpenOf(c) : TRUE).period)

Entry(f) ==
    [chain |-> f.sheet.chain, month |-> Ordinal(f.sheet.period),
     policy |-> f.policy, producer |-> f.producer]

Months == [c \in Chains |-> MonthOf(c)]
Received == {p \in Policies : policies[p].paid /\ Live(p)}
Book == {Entry(f) : f \in frozen}

Payouts == INSTANCE PayoutBook WITH
    House <- Sophia,
    FirstMonths <- {Ordinal(m) : m \in BootstrapPeriods},
    month <- Months, received <- Received, book <- Book

-----------------------------------------------------------------------------
(* Correctness *)

(* Every table holds rows of its own type, and sheets have one status. *)
TypeOK ==
    /\ policies \in [Policies -> PolicyRow]
    /\ openSheets \subseteq Sheet
    /\ closedSheets \subseteq Sheet
    /\ openSheets \cap closedSheets = {}
    /\ attached \subseteq [sheet : openSheets \cup closedSheets, policy : Policies]
    /\ frozen \subseteq [sheet : closedSheets, policy : Policies,
                         producer : Producers \cup {Unassigned}]
    /\ rated \subseteq Producers

(* A chain that settled a policy never carries it on another sheet, open   *)
(* or closed, whatever the order of payments, closes, deletions,           *)
(* restorations and corrections (README.md 784-791).                       *)
SingleSettlement ==
    \A a, b \in attached :
        /\ a.policy = b.policy
        /\ a.sheet.chain = b.sheet.chain
        /\ a.sheet \in closedSheets
        => a = b

(* A chain is an unbroken run of closed months followed by its one open    *)
(* month: closes and lazy openings neither skip, fork nor reuse a period,  *)
(* across December too.                                                    *)
ChainIsUnbroken ==
    /\ \A s, t \in openSheets : s.chain = t.chain => s = t
    /\ \A s \in closedSheets : Successor(s) \in openSheets \cup closedSheets
    /\ \A s \in openSheets, t \in closedSheets :
           s.chain = t.chain => Ordinal(t.period) < Ordinal(s.period)

(* The triggers and indexes behind a close never refuse an open sheet: a   *)
(* month can always be closed once it has a policy and a rate.             *)
CloseIsNeverRefused == \A s \in openSheets : CloseIntegrity(s)

(* An open sheet carries only policies that are live and MGA-paid, so a    *)
(* close never pays out a deleted policy or money not received.            *)
OpenSheetsCarryPaidLivePolicies ==
    \A a \in attached :
        a.sheet \in openSheets => policies[a.policy].paid /\ Live(a.policy)

(* Money received for a live policy is on some sheet: no order of closes,  *)
(* deletions, restorations and corrections drops it from every chain.      *)
PaidPolicyIsOnASheet ==
    \A p \in Policies :
        policies[p].paid /\ Live(p) => \E a \in attached : a.policy = p

(* Every closed month has a policy, and exactly its rows are frozen, once. *)
ClosedSheetIsFrozen ==
    /\ \A s \in closedSheets : RowsOf(s) # {}
    /\ \A a \in attached : a.sheet \in closedSheets =>
           \E f \in frozen : f.sheet = a.sheet /\ f.policy = a.policy
    /\ \A f \in frozen : [sheet |-> f.sheet, policy |-> f.policy] \in attached
    /\ \A f, g \in frozen : f.sheet = g.sheet /\ f.policy = g.policy => f = g

(* No step reopens a closed month, adds or removes one of its rows or      *)
(* rewrites a snapshot, corrections of a settled policy included.          *)
ClosedHistoryIsImmutable ==
    [][/\ closedSheets \subseteq closedSheets'
       /\ {a \in attached : a.sheet \in closedSheets}
             = {a \in attached' : a.sheet \in closedSheets}
       /\ frozen = {f \in frozen' : f.sheet \in closedSheets}]_vars

(* Several months close in one step only under a House close; in particular *)
(* repeating a close never advances the producers' new sheets.              *)
CascadeNeedsItsHouseClose ==
    [][\A s, t \in closedSheets' \ closedSheets :
          s # t => \E h \in closedSheets' \ closedSheets : h.chain = Sophia]_vars

(* The transactions together do what PayoutBook promises: a payout is of   *)
(* money received, once per chain, in the month the chain is in, with the  *)
(* same producer on House's sheet and the producer's own, and no other     *)
(* operation moves a month or touches what was paid out.                   *)
KeepsTheBook == Payouts!BookSpec

(* docs/KPI_ACTUALS_CONTRACT.md 10-11: a policy paid out to a producer also *)
(* reaches House, whose closed sheets are the company's only facts.         *)
ProducerSettlementReachesHouse ==
    \A p \in Policies :
        policies[p].paid /\ Live(p) /\ SettledAnywhere(p)
            => \E a \in attached : a.policy = p /\ a.sheet.chain = Sophia

(* README.md 784-786: besides House, a policy settles once, on its assigned *)
(* producer's chain.                                                        *)
SettlesWithOneProducer ==
    \A p \in Policies : \A c, d \in Producers : Settled(p, c) /\ Settled(p, d) => c = d

=============================================================================
