------------------------ MODULE PaySheetSettlement_proofs ------------------------
(***************************************************************************)
(* Theorems about PaySheetSettlement for every set of policies and         *)
(* producers and every horizon.                                            *)
(***************************************************************************)
EXTENDS PaySheetSettlement, TLAPS

(* The next period is the following month, December's being January, and   *)
(* stays within what pay_sheets_period_check admits below the horizon.     *)
LEMMA NextPeriodIsNextMonth ==
    ASSUME NEW m \in Period
    PROVE  /\ Ordinal(m) \in Nat
           /\ Ordinal(NextPeriod(m)) = Ordinal(m) + 1
           /\ Ordinal(NextPeriod(m)) <= Horizon => NextPeriod(m) \in Period
  <1> DEFINE y == m.year
             k == m.month
  <1>1. y \in 2000 .. 9999 /\ k \in 1 .. 12
    BY DEF Period
  <1>2. m.year = y /\ m.month = k
    OBVIOUS
  <1> HIDE DEF y, k
  <1>3. Ordinal(m) = 12 * y + k
    BY <1>2 DEF Ordinal
  <1>4. CASE k = 12
    <2> DEFINE n == [year |-> y + 1, month |-> 1]
    <2>1. NextPeriod(m) = n
      BY <1>2, <1>4 DEF NextPeriod
    <2>2. n.year = y + 1 /\ n.month = 1
      OBVIOUS
    <2> HIDE DEF n
    <2>3. Ordinal(n) = 12 * (y + 1) + 1
      BY <2>2 DEF Ordinal
    <2>4. 12 * (y + 1) + 1 <= Horizon => y + 1 \in 2000 .. 9999
      BY <1>1, SettlementAssumptions
    <2>5. y + 1 \in 2000 .. 9999 => n \in Period
      BY DEF n, Period
    <2>6. 12 * (y + 1) + 1 = 12 * y + k + 1 /\ 12 * y + k \in Nat
      BY <1>1, <1>4
    <2>7. QED
      BY <1>3, <2>1, <2>3, <2>4, <2>5, <2>6
  <1>5. CASE k # 12
    <2> DEFINE n == [year |-> y, month |-> k + 1]
    <2>1. NextPeriod(m) = n
      BY <1>2, <1>5 DEF NextPeriod
    <2>2. n.year = y /\ n.month = k + 1
      OBVIOUS
    <2>3. n \in Period
      BY <1>1, <1>5 DEF Period
    <2> HIDE DEF n
    <2>4. Ordinal(n) = 12 * y + (k + 1)
      BY <2>2 DEF Ordinal
    <2>5. 12 * y + (k + 1) = 12 * y + k + 1 /\ 12 * y + k \in Nat
      BY <1>1
    <2>6. QED
      BY <1>3, <2>1, <2>3, <2>4, <2>5
  <1>6. QED
    BY <1>4, <1>5

(* The successor of a sheet belongs to the same chain, one month later.    *)
LEMMA SuccessorSheet ==
    ASSUME NEW s \in Sheet
    PROVE  /\ Successor(s).chain = s.chain
           /\ Successor(s).period = NextPeriod(s.period)
           /\ Ordinal(Successor(s).period) = Ordinal(s.period) + 1
           /\ Ordinal(s.period) \in Nat
           /\ Ordinal(NextPeriod(s.period)) <= Horizon => Successor(s) \in Sheet
  <1>1. s.period \in Period /\ s.chain \in Chains
    BY DEF Sheet
  <1>2. QED
    BY <1>1, NextPeriodIsNextMonth DEF Sheet, Successor

(* A step names the operation that took it.                                *)
LEMMA StepCases ==
    ASSUME Next, NEW Q,
           ASSUME NEW m \in BootstrapPeriods, InitializeSophia(m) PROVE Q,
           ASSUME NEW c \in Producers, OpenChainForMirror(c) PROVE Q,
           ASSUME NEW c \in Producers, ChangeProducerRate(c) PROVE Q,
           ASSUME NEW P \in SUBSET Policies, \A p \in P : Live(p), MarkPaid(P) PROVE Q,
           ASSUME NEW P \in SUBSET Policies, MarkUnpaid(P) PROVE Q,
           ASSUME NEW S \in SUBSET openSheets, CloseSheets(S) PROVE Q,
           ASSUME UNCHANGED vars PROVE Q,
           ASSUME NEW p \in Policies, SoftDeletePolicy(p) PROVE Q,
           ASSUME NEW p \in Policies, RestorePolicy(p) PROVE Q,
           ASSUME NEW p \in Policies, NEW q \in Producers \cup {Unassigned},
                  CorrectAssignment(p, q) PROVE Q
    PROVE  Q
  <1>1. ASSUME NEW p \in Policies, NEW paid \in BOOLEAN, ChangeMgaPayableState(p, paid)
        PROVE  Q
    <2>1. {p} \in SUBSET Policies
      OBVIOUS
    <2>2. \A r \in {p} : Live(r)
      BY <1>1 DEF ChangeMgaPayableState
    <2>3. CASE paid
      BY <1>1, <2>1, <2>2, <2>3 DEF ChangeMgaPayableState
    <2>4. CASE ~paid
      BY <1>1, <2>1, <2>4 DEF ChangeMgaPayableState
    <2>5. QED
      BY <2>3, <2>4
  <1>2. ASSUME NEW G \in SUBSET Policies, NEW paid \in BOOLEAN,
               ChangeMgaPayableGroupState(G, paid)
        PROVE  Q
    <2> DEFINE P == {p \in G : policies[p].paid # paid}
    <2>1. P \in SUBSET Policies
      OBVIOUS
    <2>2. \A p \in P : Live(p)
      BY <1>2 DEF ChangeMgaPayableGroupState
    <2>3. CASE paid
      <3>1. MarkPaid(P)
        BY <1>2, <2>3 DEF ChangeMgaPayableGroupState
      <3>2. QED
        BY <2>1, <2>2, <3>1
    <2>4. CASE ~paid
      <3>1. MarkUnpaid(P)
        BY <1>2, <2>4 DEF ChangeMgaPayableGroupState
      <3>2. QED
        BY <2>1, <3>1
    <2>5. QED
      BY <2>3, <2>4
  <1>3. ASSUME NEW s \in openSheets \cup closedSheets, NEW cascade \in BOOLEAN,
               ClosePaySheet(s, cascade)
        PROVE  Q
    <2>1. CASE s \in openSheets /\ CloseSheets(CascadeTargets(s, cascade))
      <3>1. CascadeTargets(s, cascade) \in SUBSET openSheets
        BY <2>1 DEF CascadeTargets
      <3>2. QED
        BY <2>1, <3>1
    <2>2. QED
      BY <1>3, <2>1 DEF ClosePaySheet
  <1>4. QED
    BY <1>1, <1>2, <1>3 DEF Next

-----------------------------------------------------------------------------
(* What opening chains and placing policies do to the tables.              *)

(* A chain opened lazily gets sheets of the right type, in a chain that    *)
(* had none.                                                               *)
LEMMA FirstSheetsOpenANewChain ==
    ASSUME TypeOK, NEW c \in Producers, CanInitialize(c), NEW s \in FirstSheets(c)
    PROVE  s \in Sheet /\ s.chain = c /\ s \notin openSheets \cup closedSheets
  <1>1. PICK h \in openSheets : s = [chain |-> c, period |-> h.period]
    BY DEF FirstSheets, OpenOf
  <1>2. h.period \in Period
    BY DEF TypeOK, Sheet
  <1>3. s \in Sheet /\ s.chain = c
    BY <1>1, <1>2 DEF Sheet, Chains
  <1>4. QED
    BY <1>3 DEF CanInitialize

(* Placement opens only chains without a sheet, and attaches P to open     *)
(* sheets of chains that have not settled it.                              *)
LEMMA PlaceEffect ==
    ASSUME TypeOK, NEW P \in SUBSET Policies, Place(P)
    PROVE  /\ openSheets \subseteq openSheets'
           /\ \A s \in openSheets' \ openSheets :
                  /\ s \in Sheet
                  /\ s.chain \in Producers
                  /\ CanInitialize(s.chain)
                  /\ s \notin closedSheets
                  /\ s \in FirstSheets(s.chain)
           /\ attached \subseteq attached'
           /\ \A a \in attached' \ attached :
                  /\ a \in [sheet : openSheets', policy : P]
                  /\ ~Settled(a.policy, a.sheet.chain)
  <1>1. \A s \in openSheets' \ openSheets :
            \E c \in LazyChains(P) : s \in FirstSheets(c)
    BY DEF Place
  <1>2. \A c \in LazyChains(P) : c \in Producers /\ CanInitialize(c)
    BY DEF Place, LazyChains
  <1>3. \A s \in openSheets' \ openSheets :
            /\ s \in Sheet
            /\ s.chain \in Producers
            /\ CanInitialize(s.chain)
            /\ s \notin closedSheets
            /\ s \in FirstSheets(s.chain)
    <2> TAKE s \in openSheets' \ openSheets
    <2>1. PICK c \in LazyChains(P) : s \in FirstSheets(c)
      BY <1>1
    <2>2. QED
      BY <1>2, <2>1, FirstSheetsOpenANewChain
  <1>4. openSheets \subseteq openSheets' /\ attached \subseteq attached'
    BY DEF Place
  <1>5. \A a \in attached' \ attached :
            /\ a \in [sheet : openSheets', policy : P]
            /\ ~Settled(a.policy, a.sheet.chain)
    BY DEF Place
  <1>6. QED
    BY <1>3, <1>4, <1>5

-----------------------------------------------------------------------------
(* Every table holds rows of its type; a sheet is open or closed.          *)
LEMMA PlaceKeepsTypes ==
    ASSUME TypeOK, NEW P \in SUBSET Policies, Place(P),
           policies' \in [Policies -> PolicyRow], UNCHANGED <<closedSheets, frozen, rated>>
    PROVE  TypeOK'
  <1>1. openSheets' \subseteq Sheet /\ openSheets' \cap closedSheets' = {}
    BY PlaceEffect DEF TypeOK
  <1>2. attached' \subseteq [sheet : openSheets' \cup closedSheets', policy : Policies]
    BY PlaceEffect DEF TypeOK
  <1>3. QED
    BY <1>1, <1>2 DEF TypeOK

LEMMA WithPaidType ==
    ASSUME TypeOK, NEW P \in SUBSET Policies, NEW paid \in BOOLEAN
    PROVE  WithPaid(P, paid) \in [Policies -> PolicyRow]
  BY DEF TypeOK, WithPaid, PolicyRow

(* The sheets of a close move to history and their successors open.        *)
LEMMA CloseKeepsTypes ==
    ASSUME TypeOK, NEW S \in SUBSET openSheets, CloseSheets(S)
    PROVE  TypeOK'
  <1>1. \A s \in S : Successor(s) \in Sheet /\ Successor(s) \notin openSheets \cup closedSheets
    BY SuccessorSheet DEF TypeOK, CloseSheets, Closable, CloseIntegrity
  <1>2. openSheets' \subseteq Sheet /\ closedSheets' \subseteq Sheet
    BY <1>1 DEF TypeOK, CloseSheets
  <1>3. openSheets' \cap closedSheets' = {}
    BY <1>1 DEF TypeOK, CloseSheets
  <1>4. attached' \subseteq [sheet : openSheets' \cup closedSheets', policy : Policies]
    BY DEF TypeOK, CloseSheets
  <1>5. frozen' \subseteq [sheet : closedSheets', policy : Policies,
                          producer : Producers \cup {Unassigned}]
    <2>1. \A a \in attached : a.sheet \in S =>
             Snapshot(a) \in [sheet : S, policy : Policies,
                              producer : Producers \cup {Unassigned}]
      BY DEF TypeOK, PolicyRow, Snapshot
    <2>2. QED
      BY <2>1 DEF TypeOK, CloseSheets
  <1>6. QED
    BY <1>2, <1>3, <1>4, <1>5 DEF TypeOK, CloseSheets

(* Type correctness: the tables keep their shape, and no sheet is ever     *)
(* both open and closed.                                                   *)
THEOREM TypeCorrect == Spec => []TypeOK
  <1>1. Init => TypeOK
    BY DEF Init, TypeOK
  <1>2. TypeOK /\ [Next]_vars => TypeOK'
    <2> SUFFICES ASSUME TypeOK, [Next]_vars PROVE TypeOK'
      OBVIOUS
    <2>1. CASE UNCHANGED vars
      BY <2>1 DEF vars, TypeOK
    <2>2. ASSUME NEW m \in BootstrapPeriods, InitializeSophia(m) PROVE TypeOK'
      <3>1. [chain |-> Sophia, period |-> m] \in Sheet
        BY SettlementAssumptions DEF Sheet, Chains
      <3>2. [chain |-> Sophia, period |-> m] \notin closedSheets
        BY <2>2 DEF InitializeSophia, CanInitialize
      <3>3. QED
        BY <2>2, <3>1, <3>2 DEF InitializeSophia, TypeOK
    <2>3. ASSUME NEW c \in Producers, OpenChainForMirror(c) PROVE TypeOK'
      <3>1. \A s \in FirstSheets(c) : s \in Sheet /\ s \notin closedSheets
        BY <2>3, FirstSheetsOpenANewChain DEF OpenChainForMirror
      <3>2. QED
        BY <2>3, <3>1 DEF OpenChainForMirror, TypeOK
    <2>4. ASSUME NEW c \in Producers, ChangeProducerRate(c) PROVE TypeOK'
      BY <2>4 DEF ChangeProducerRate, TypeOK
    <2>5. ASSUME NEW P \in SUBSET Policies, \A p \in P : Live(p), MarkPaid(P) PROVE TypeOK'
      BY <2>5, WithPaidType, PlaceKeepsTypes DEF MarkPaid
    <2>6. ASSUME NEW P \in SUBSET Policies, MarkUnpaid(P) PROVE TypeOK'
      BY <2>6, WithPaidType DEF MarkUnpaid, Detach, TypeOK
    <2>7. ASSUME NEW S \in SUBSET openSheets, CloseSheets(S) PROVE TypeOK'
      BY <2>7, CloseKeepsTypes
    <2>8. ASSUME NEW p \in Policies, SoftDeletePolicy(p) PROVE TypeOK'
      BY <2>8 DEF SoftDeletePolicy, Detach, TypeOK, PolicyRow
    <2>9. ASSUME NEW p \in Policies, RestorePolicy(p) PROVE TypeOK'
      <3>1. policies' \in [Policies -> PolicyRow]
        BY <2>9 DEF RestorePolicy, TypeOK, PolicyRow
      <3>2. CASE Place({p})
        BY <2>9, <3>1, <3>2, PlaceKeepsTypes DEF RestorePolicy
      <3>3. CASE UNCHANGED <<openSheets, attached>>
        BY <2>9, <3>1, <3>3 DEF RestorePolicy, TypeOK
      <3>4. QED
        BY <2>9, <3>2, <3>3 DEF RestorePolicy
    <2>10. ASSUME NEW p \in Policies, NEW q \in Producers \cup {Unassigned},
                  CorrectAssignment(p, q)
           PROVE  TypeOK'
      BY <2>10 DEF CorrectAssignment, TypeOK, PolicyRow
    <2>11. QED
      BY <2>1, <2>2, <2>3, <2>4, <2>5, <2>6, <2>7, <2>8, <2>9, <2>10, StepCases
  <1>3. QED
    BY <1>1, <1>2, PTL DEF Spec

-----------------------------------------------------------------------------
(* Settlement.                                                             *)

LEMMA RowIsItsSheetAndPolicy ==
    ASSUME TypeOK, NEW a \in attached, NEW b \in attached,
           a.sheet = b.sheet, a.policy = b.policy
    PROVE  a = b
  BY DEF TypeOK

(* A step that leaves history alone and attaches only unsettled policies   *)
(* to sheets outside history keeps settlement single.                      *)
LEMMA AttachingKeepsSettlementSingle ==
    ASSUME SingleSettlement, UNCHANGED closedSheets,
           \A a \in attached' \ attached :
               a.sheet \notin closedSheets /\ ~Settled(a.policy, a.sheet.chain)
    PROVE  SingleSettlement'
  <1> SUFFICES ASSUME NEW a \in attached', NEW b \in attached',
                      a.policy = b.policy, a.sheet.chain = b.sheet.chain,
                      a.sheet \in closedSheets
               PROVE  a = b
    BY DEF SingleSettlement
  <1>1. a \in attached
    OBVIOUS
  <1>2. CASE b \in attached
    BY <1>1, <1>2 DEF SingleSettlement
  <1>3. CASE b \notin attached
    BY <1>1, <1>3 DEF Settled
  <1>4. QED
    BY <1>2, <1>3

(* A close settles policies its chain had not settled, from its only open  *)
(* sheet.                                                                  *)
LEMMA CloseKeepsSettlementSingle ==
    ASSUME TypeOK, SingleSettlement, NEW S \in SUBSET openSheets, CloseSheets(S)
    PROVE  SingleSettlement'
  <1> SUFFICES ASSUME NEW a \in attached, NEW b \in attached,
                      a.policy = b.policy, a.sheet.chain = b.sheet.chain,
                      a.sheet \in closedSheets'
               PROVE  a = b
    BY DEF SingleSettlement, CloseSheets
  <1>1. CASE a.sheet \in closedSheets
    BY <1>1 DEF SingleSettlement
  <1>2. CASE a.sheet \in S
    <2>1. CloseIntegrity(a.sheet) /\ a \in RowsOf(a.sheet)
      BY <1>2 DEF CloseSheets, RowsOf
    <2>2. b.sheet \notin closedSheets
      BY <2>1 DEF CloseIntegrity, Settled
    <2>3. b.sheet \in openSheets
      BY <2>2 DEF TypeOK
    <2>4. b.sheet = a.sheet
      BY <2>1, <2>3 DEF CloseIntegrity, OpenOf
    <2>5. QED
      BY <2>4, RowIsItsSheetAndPolicy
  <1>3. QED
    BY <1>1, <1>2 DEF CloseSheets

(* A policy settles at most once in an owner's chain, and once settled is  *)
(* on no other sheet of it (README.md 784-791), for any interleaving of    *)
(* the operations.                                                         *)
THEOREM SettlementIsSingle == Spec => []SingleSettlement
  <1>1. Init => SingleSettlement
    BY DEF Init, SingleSettlement
  <1>2. TypeOK /\ SingleSettlement /\ [Next]_vars => SingleSettlement'
    <2> SUFFICES ASSUME TypeOK, SingleSettlement, [Next]_vars PROVE SingleSettlement'
      OBVIOUS
    <2>1. ASSUME UNCHANGED closedSheets, attached' \subseteq attached
          PROVE  SingleSettlement'
      BY <2>1 DEF SingleSettlement
    <2>2. ASSUME NEW P \in SUBSET Policies, Place(P), UNCHANGED closedSheets
          PROVE  SingleSettlement'
      <3>1. \A a \in attached' \ attached :
                a.sheet \notin closedSheets /\ ~Settled(a.policy, a.sheet.chain)
        BY <2>2, PlaceEffect DEF TypeOK
      <3>2. QED
        BY <2>2, <3>1, AttachingKeepsSettlementSingle
    <2>3. CASE UNCHANGED vars
      BY <2>1, <2>3 DEF vars
    <2>4. ASSUME NEW m \in BootstrapPeriods, InitializeSophia(m) PROVE SingleSettlement'
      BY <2>1, <2>4 DEF InitializeSophia
    <2>5. ASSUME NEW c \in Producers, OpenChainForMirror(c) PROVE SingleSettlement'
      BY <2>1, <2>5 DEF OpenChainForMirror
    <2>6. ASSUME NEW c \in Producers, ChangeProducerRate(c) PROVE SingleSettlement'
      BY <2>1, <2>6 DEF ChangeProducerRate
    <2>7. ASSUME NEW P \in SUBSET Policies, \A p \in P : Live(p), MarkPaid(P)
          PROVE  SingleSettlement'
      BY <2>2, <2>7 DEF MarkPaid
    <2>8. ASSUME NEW P \in SUBSET Policies, MarkUnpaid(P) PROVE SingleSettlement'
      BY <2>1, <2>8 DEF MarkUnpaid, Detach
    <2>9. ASSUME NEW S \in SUBSET openSheets, CloseSheets(S) PROVE SingleSettlement'
      BY <2>9, CloseKeepsSettlementSingle
    <2>10. ASSUME NEW p \in Policies, SoftDeletePolicy(p) PROVE SingleSettlement'
      BY <2>1, <2>10 DEF SoftDeletePolicy, Detach
    <2>11. ASSUME NEW p \in Policies, RestorePolicy(p) PROVE SingleSettlement'
      <3>1. CASE Place({p})
        BY <2>2, <2>11, <3>1 DEF RestorePolicy
      <3>2. CASE UNCHANGED <<openSheets, attached>>
        BY <2>1, <2>11, <3>2 DEF RestorePolicy
      <3>3. QED
        BY <2>11, <3>1, <3>2 DEF RestorePolicy
    <2>12. ASSUME NEW p \in Policies, NEW q \in Producers \cup {Unassigned},
                  CorrectAssignment(p, q)
           PROVE  SingleSettlement'
      BY <2>1, <2>12 DEF CorrectAssignment
    <2>13. QED
      BY <2>3, <2>4, <2>5, <2>6, <2>7, <2>8, <2>9, <2>10, <2>11, <2>12, StepCases
  <1>3. QED
    BY <1>1, <1>2, TypeCorrect, PTL DEF Spec

-----------------------------------------------------------------------------
(* Chains.                                                                 *)

(* A chain without sheets that gets its first one, in the month of the one *)
(* open House sheet, is unbroken.                                          *)
LEMMA OpeningKeepsChainsUnbroken ==
    ASSUME TypeOK, ChainIsUnbroken, UNCHANGED closedSheets,
           openSheets \subseteq openSheets',
           \A s \in openSheets' \ openSheets :
               CanInitialize(s.chain) /\ s \in FirstSheets(s.chain)
    PROVE  ChainIsUnbroken'
  <1>1. ASSUME NEW s \in openSheets', NEW t \in openSheets', s.chain = t.chain
        PROVE  s = t
    <2>1. CASE s \in openSheets /\ t \in openSheets
      BY <1>1, <2>1 DEF ChainIsUnbroken
    <2>2. CASE s \notin openSheets /\ t \notin openSheets
      <3>1. \A h, k \in OpenOf(Sophia) : h = k
        BY DEF OpenOf, ChainIsUnbroken
      <3>2. s \in FirstSheets(s.chain) /\ t \in FirstSheets(s.chain)
        BY <1>1, <2>2
      <3>3. QED
        BY <3>1, <3>2 DEF FirstSheets
    <2>3. CASE s \in openSheets /\ t \notin openSheets
      BY <1>1, <2>3 DEF CanInitialize
    <2>4. CASE s \notin openSheets /\ t \in openSheets
      BY <1>1, <2>4 DEF CanInitialize
    <2>5. QED
      BY <2>1, <2>2, <2>3, <2>4
  <1>2. \A s \in closedSheets' : Successor(s) \in openSheets' \cup closedSheets'
    BY DEF ChainIsUnbroken
  <1>3. ASSUME NEW s \in openSheets', NEW t \in closedSheets', s.chain = t.chain
        PROVE  Ordinal(t.period) < Ordinal(s.period)
    <2>1. CASE s \in openSheets
      BY <1>3, <2>1 DEF ChainIsUnbroken
    <2>2. CASE s \notin openSheets
      BY <1>3, <2>2 DEF CanInitialize
    <2>3. QED
      BY <2>1, <2>2
  <1>4. QED
    BY <1>1, <1>2, <1>3 DEF ChainIsUnbroken

(* A close moves each of its chains one month on.                          *)
LEMMA CloseKeepsChainsUnbroken ==
    ASSUME TypeOK, ChainIsUnbroken, NEW S \in SUBSET openSheets, CloseSheets(S)
    PROVE  ChainIsUnbroken'
  <1>1. /\ openSheets' = (openSheets \ S) \cup {Successor(s) : s \in S}
        /\ closedSheets' = closedSheets \cup S
    BY DEF CloseSheets
  <1>2. \A s \in S : /\ Successor(s).chain = s.chain
                     /\ Ordinal(Successor(s).period) = Ordinal(s.period) + 1
                     /\ Ordinal(s.period) \in Nat
    BY SuccessorSheet DEF TypeOK
  <1>3. \A s, t \in openSheets : s.chain = t.chain => s = t
    BY DEF ChainIsUnbroken
  <1>4. ASSUME NEW s \in openSheets', NEW t \in openSheets', s.chain = t.chain
        PROVE  s = t
    <2>1. CASE s \in openSheets \ S /\ t \in openSheets \ S
      BY <1>3, <1>4, <2>1
    <2>2. ASSUME NEW u \in openSheets \ S, NEW v \in S, u.chain = Successor(v).chain
          PROVE  FALSE
      BY <1>2, <1>3, <2>2
    <2>3. ASSUME NEW u \in S, NEW v \in S, s = Successor(u), t = Successor(v)
          PROVE  s = t
      BY <1>2, <1>3, <1>4, <2>3
    <2>4. QED
      BY <1>1, <1>4, <2>1, <2>2, <2>3
  <1>5. ASSUME NEW s \in closedSheets'
        PROVE  Successor(s) \in openSheets' \cup closedSheets'
    BY <1>1 DEF ChainIsUnbroken
  <1>6. ASSUME NEW s \in openSheets', NEW t \in closedSheets', s.chain = t.chain
        PROVE  Ordinal(t.period) < Ordinal(s.period)
    <2>1. CASE s \in openSheets \ S /\ t \in closedSheets
      BY <1>6, <2>1 DEF ChainIsUnbroken
    <2>2. CASE s \in openSheets \ S /\ t \in S
      BY <1>3, <1>6, <2>2
    <2>3. ASSUME NEW u \in S, s = Successor(u), t \in closedSheets
          PROVE  Ordinal(t.period) < Ordinal(s.period)
      <3>1. Ordinal(t.period) < Ordinal(u.period)
        BY <1>2, <1>6, <2>3 DEF ChainIsUnbroken
      <3>2. Ordinal(t.period) \in Nat
        BY <2>3, SuccessorSheet DEF TypeOK
      <3>3. QED
        BY <1>2, <2>3, <3>1, <3>2
    <2>4. ASSUME NEW u \in S, s = Successor(u), t \in S
          PROVE  Ordinal(t.period) < Ordinal(s.period)
      <3>1. t = u
        BY <1>2, <1>3, <1>6, <2>4
      <3>2. QED
        BY <1>2, <2>4, <3>1
    <2>5. QED
      BY <1>1, <1>6, <2>1, <2>2, <2>3, <2>4
  <1>7. QED
    BY <1>4, <1>5, <1>6 DEF ChainIsUnbroken

(* Every chain is an unbroken run of months ending in its one open sheet,  *)
(* for any number of closes, cascades and lazy openings.                   *)
THEOREM ChainsStayUnbroken == Spec => []ChainIsUnbroken
  <1>1. Init => ChainIsUnbroken
    BY DEF Init, ChainIsUnbroken
  <1>2. TypeOK /\ ChainIsUnbroken /\ [Next]_vars => ChainIsUnbroken'
    <2> SUFFICES ASSUME TypeOK, ChainIsUnbroken, [Next]_vars PROVE ChainIsUnbroken'
      OBVIOUS
    <2>1. ASSUME UNCHANGED <<openSheets, closedSheets>> PROVE ChainIsUnbroken'
      BY <2>1 DEF ChainIsUnbroken
    <2>2. ASSUME NEW P \in SUBSET Policies, Place(P), UNCHANGED closedSheets
          PROVE  ChainIsUnbroken'
      BY <2>2, PlaceEffect, OpeningKeepsChainsUnbroken
    <2>3. CASE UNCHANGED vars
      BY <2>1, <2>3 DEF vars
    <2>4. ASSUME NEW m \in BootstrapPeriods, InitializeSophia(m) PROVE ChainIsUnbroken'
      BY <2>4 DEF InitializeSophia, CanInitialize, ChainIsUnbroken
    <2>5. ASSUME NEW c \in Producers, OpenChainForMirror(c) PROVE ChainIsUnbroken'
      <3>1. \A s \in openSheets' \ openSheets :
                CanInitialize(s.chain) /\ s \in FirstSheets(s.chain)
        BY <2>5, FirstSheetsOpenANewChain DEF OpenChainForMirror
      <3>2. QED
        BY <2>5, <3>1, OpeningKeepsChainsUnbroken DEF OpenChainForMirror
    <2>6. ASSUME NEW c \in Producers, ChangeProducerRate(c) PROVE ChainIsUnbroken'
      BY <2>1, <2>6 DEF ChangeProducerRate
    <2>7. ASSUME NEW P \in SUBSET Policies, \A p \in P : Live(p), MarkPaid(P)
          PROVE  ChainIsUnbroken'
      BY <2>2, <2>7 DEF MarkPaid
    <2>8. ASSUME NEW P \in SUBSET Policies, MarkUnpaid(P) PROVE ChainIsUnbroken'
      BY <2>1, <2>8 DEF MarkUnpaid
    <2>9. ASSUME NEW S \in SUBSET openSheets, CloseSheets(S) PROVE ChainIsUnbroken'
      BY <2>9, CloseKeepsChainsUnbroken
    <2>10. ASSUME NEW p \in Policies, SoftDeletePolicy(p) PROVE ChainIsUnbroken'
      BY <2>1, <2>10 DEF SoftDeletePolicy
    <2>11. ASSUME NEW p \in Policies, RestorePolicy(p) PROVE ChainIsUnbroken'
      <3>1. CASE Place({p})
        BY <2>2, <2>11, <3>1 DEF RestorePolicy
      <3>2. CASE UNCHANGED <<openSheets, attached>>
        BY <2>1, <2>11, <3>2 DEF RestorePolicy
      <3>3. QED
        BY <2>11, <3>1, <3>2 DEF RestorePolicy
    <2>12. ASSUME NEW p \in Policies, NEW q \in Producers \cup {Unassigned},
                  CorrectAssignment(p, q)
           PROVE  ChainIsUnbroken'
      BY <2>1, <2>12 DEF CorrectAssignment
    <2>13. QED
      BY <2>3, <2>4, <2>5, <2>6, <2>7, <2>8, <2>9, <2>10, <2>11, <2>12, StepCases
  <1>3. QED
    BY <1>1, <1>2, TypeCorrect, PTL DEF Spec

-----------------------------------------------------------------------------
(* What an open sheet carries.                                             *)

(* Placement adds rows of P only, and none to a sheet already there turns  *)
(* open.                                                                   *)
LEMMA PlaceKeepsOpenSheetsPaid ==
    ASSUME TypeOK, OpenSheetsCarryPaidLivePolicies, NEW P \in SUBSET Policies, Place(P),
           \A p \in P : policies'[p].paid /\ ~policies'[p].deleted,
           \A p \in Policies \ P : policies'[p] = policies[p],
           UNCHANGED closedSheets
    PROVE  OpenSheetsCarryPaidLivePolicies'
  <1> SUFFICES ASSUME NEW a \in attached', a.sheet \in openSheets'
               PROVE  policies'[a.policy].paid /\ ~policies'[a.policy].deleted
    BY DEF OpenSheetsCarryPaidLivePolicies, Live
  <1>1. CASE a \in attached
    <2>1. a.sheet \in openSheets /\ a.policy \in Policies
      BY <1>1, PlaceEffect DEF TypeOK
    <2>2. policies[a.policy].paid /\ ~policies[a.policy].deleted
      BY <1>1, <2>1 DEF OpenSheetsCarryPaidLivePolicies, Live
    <2>3. QED
      BY <2>1, <2>2
  <1>2. CASE a \notin attached
    BY <1>2, PlaceEffect
  <1>3. QED
    BY <1>1, <1>2

(* An open sheet never carries a deleted policy or one the MGA has not     *)
(* paid, so none is paid out.                                              *)
THEOREM OpenSheetsStayPaidAndLive == Spec => []OpenSheetsCarryPaidLivePolicies
  <1>1. Init => OpenSheetsCarryPaidLivePolicies
    BY DEF Init, OpenSheetsCarryPaidLivePolicies
  <1>2. TypeOK /\ OpenSheetsCarryPaidLivePolicies /\ [Next]_vars
            => OpenSheetsCarryPaidLivePolicies'
    <2> SUFFICES ASSUME TypeOK, OpenSheetsCarryPaidLivePolicies, [Next]_vars
                 PROVE  OpenSheetsCarryPaidLivePolicies'
      OBVIOUS
    <2>1. ASSUME UNCHANGED <<policies, attached>>,
                 \A s \in openSheets' \ openSheets : s \notin closedSheets
          PROVE  OpenSheetsCarryPaidLivePolicies'
      BY <2>1 DEF OpenSheetsCarryPaidLivePolicies, Live, TypeOK
    <2>2. ASSUME NEW P \in SUBSET Policies, Detach(P),
                 \A p \in Policies \ P : policies'[p] = policies[p],
                 UNCHANGED <<openSheets, closedSheets>>
          PROVE  OpenSheetsCarryPaidLivePolicies'
      <3>1. \A a \in attached' : a.sheet \in openSheets' =>
                a \in attached /\ a.policy \in Policies \ P
        BY <2>2 DEF Detach, TypeOK
      <3>2. QED
        BY <2>2, <3>1 DEF OpenSheetsCarryPaidLivePolicies, Live
    <2>3. CASE UNCHANGED vars
      BY <2>1, <2>3 DEF vars
    <2>4. ASSUME NEW m \in BootstrapPeriods, InitializeSophia(m)
          PROVE  OpenSheetsCarryPaidLivePolicies'
      BY <2>1, <2>4 DEF InitializeSophia, CanInitialize
    <2>5. ASSUME NEW c \in Producers, OpenChainForMirror(c)
          PROVE  OpenSheetsCarryPaidLivePolicies'
      <3>1. \A s \in openSheets' \ openSheets : s \notin closedSheets
        BY <2>5, FirstSheetsOpenANewChain DEF OpenChainForMirror
      <3>2. QED
        BY <2>1, <2>5, <3>1 DEF OpenChainForMirror
    <2>6. ASSUME NEW c \in Producers, ChangeProducerRate(c)
          PROVE  OpenSheetsCarryPaidLivePolicies'
      BY <2>1, <2>6 DEF ChangeProducerRate
    <2>7. ASSUME NEW P \in SUBSET Policies, \A p \in P : Live(p), MarkPaid(P)
          PROVE  OpenSheetsCarryPaidLivePolicies'
      <3>1. \A p \in Policies :
                policies'[p] = IF p \in P THEN [policies[p] EXCEPT !.paid = TRUE] ELSE policies[p]
        BY <2>7 DEF MarkPaid, WithPaid
      <3>2. \A p \in P : policies'[p].paid /\ ~policies'[p].deleted
        BY <2>7, <3>1 DEF Live, TypeOK, PolicyRow
      <3>3. QED
        BY <2>7, <3>1, <3>2, PlaceKeepsOpenSheetsPaid DEF MarkPaid
    <2>8. ASSUME NEW P \in SUBSET Policies, MarkUnpaid(P)
          PROVE  OpenSheetsCarryPaidLivePolicies'
      BY <2>2, <2>8 DEF MarkUnpaid, WithPaid
    <2>9. ASSUME NEW S \in SUBSET openSheets, CloseSheets(S)
          PROVE  OpenSheetsCarryPaidLivePolicies'
      BY <2>1, <2>9 DEF CloseSheets, CloseIntegrity
    <2>10. ASSUME NEW p \in Policies, SoftDeletePolicy(p)
           PROVE  OpenSheetsCarryPaidLivePolicies'
      BY <2>2, <2>10 DEF SoftDeletePolicy, TypeOK
    <2>11. ASSUME NEW p \in Policies, RestorePolicy(p)
           PROVE  OpenSheetsCarryPaidLivePolicies'
      <3>1. /\ policies'[p].paid = policies[p].paid
            /\ ~policies'[p].deleted
            /\ \A q \in Policies \ {p} : policies'[q] = policies[q]
        BY <2>11 DEF RestorePolicy, TypeOK, PolicyRow
      <3>2. CASE policies[p].paid /\ Place({p})
        BY <2>11, <3>1, <3>2, PlaceKeepsOpenSheetsPaid DEF RestorePolicy
      <3>3. CASE UNCHANGED <<openSheets, attached>>
        BY <2>11, <3>1, <3>3 DEF OpenSheetsCarryPaidLivePolicies, Live, TypeOK
      <3>4. QED
        BY <2>11, <3>2, <3>3 DEF RestorePolicy
    <2>12. ASSUME NEW p \in Policies, NEW q \in Producers \cup {Unassigned},
                  CorrectAssignment(p, q)
           PROVE  OpenSheetsCarryPaidLivePolicies'
      <3>1. \A r \in Policies : /\ policies'[r].paid = policies[r].paid
                                /\ policies'[r].deleted = policies[r].deleted
        BY <2>12 DEF CorrectAssignment, TypeOK, PolicyRow
      <3>2. QED
        BY <2>12, <3>1 DEF CorrectAssignment, OpenSheetsCarryPaidLivePolicies, Live, TypeOK
    <2>13. QED
      BY <2>3, <2>4, <2>5, <2>6, <2>7, <2>8, <2>9, <2>10, <2>11, <2>12, StepCases
  <1>3. QED
    BY <1>1, <1>2, TypeCorrect, PTL DEF Spec

(* The triggers and unique indexes behind a close accept every open sheet: *)
(* nothing deleted or already settled is on it, and its next month is free.*)
THEOREM ClosingIsNeverRefused == Spec => []CloseIsNeverRefused
  <1>1. TypeOK /\ SingleSettlement /\ ChainIsUnbroken /\ OpenSheetsCarryPaidLivePolicies
            => CloseIsNeverRefused
    <2> SUFFICES ASSUME TypeOK, SingleSettlement, ChainIsUnbroken,
                        OpenSheetsCarryPaidLivePolicies, NEW s \in openSheets
                 PROVE  CloseIntegrity(s)
      BY DEF CloseIsNeverRefused
    <2>1. ASSUME NEW a \in RowsOf(s) PROVE Live(a.policy) /\ ~Settled(a.policy, s.chain)
      <3>1. a \in attached /\ a.sheet = s
        BY DEF RowsOf
      <3>2. Live(a.policy)
        BY <3>1 DEF OpenSheetsCarryPaidLivePolicies
      <3>3. ASSUME NEW b \in attached, b.policy = a.policy, b.sheet.chain = s.chain,
                   b.sheet \in closedSheets
            PROVE  FALSE
        BY <3>1, <3>3 DEF SingleSettlement, TypeOK
      <3>4. QED
        BY <3>2, <3>3 DEF Settled
    <2>2. OpenOf(s.chain) = {s}
      BY DEF OpenOf, ChainIsUnbroken
    <2>3. /\ Successor(s).chain = s.chain
          /\ Ordinal(Successor(s).period) = Ordinal(s.period) + 1
          /\ Ordinal(s.period) \in Nat
      BY SuccessorSheet DEF TypeOK
    <2>4. Successor(s) \notin openSheets
      <3>1. ASSUME Successor(s) \in openSheets PROVE FALSE
        <4>1. Successor(s) = s
          BY <2>3, <3>1 DEF ChainIsUnbroken
        <4>2. Ordinal(s.period) = Ordinal(s.period) + 1
          BY <2>3, <4>1
        <4>3. QED
          BY <2>3, <4>2
      <3>2. QED
        BY <3>1
    <2>5. Successor(s) \notin closedSheets
      <3>1. ASSUME Successor(s) \in closedSheets PROVE FALSE
        <4>1. Ordinal(Successor(s).period) < Ordinal(s.period)
          BY <2>3, <3>1 DEF ChainIsUnbroken
        <4>2. QED
          BY <2>3, <4>1
      <3>2. QED
        BY <3>1
    <2>6. QED
      BY <2>1, <2>2, <2>4, <2>5 DEF CloseIntegrity
  <1>2. QED
    BY <1>1, TypeCorrect, SettlementIsSingle, ChainsStayUnbroken,
       OpenSheetsStayPaidAndLive, PTL

-----------------------------------------------------------------------------
(* History.                                                                *)

HistoryRows == {a \in attached : a.sheet \in closedSheets}

(* A step either leaves the closed sheets, their rows and the snapshots    *)
(* alone, or it closes sheets.                                             *)
HistoryStep ==
    \/ UNCHANGED <<closedSheets, frozen, HistoryRows>>
    \/ \E S \in SUBSET openSheets : CloseSheets(S)

LEMMA HistoryChangesOnlyByClosing ==
    ASSUME TypeOK, [Next]_vars
    PROVE  HistoryStep
  <1>1. ASSUME UNCHANGED <<closedSheets, frozen, attached>> PROVE HistoryStep
    BY <1>1 DEF HistoryRows, HistoryStep
  <1>2. ASSUME NEW P \in SUBSET Policies, Place(P), UNCHANGED <<closedSheets, frozen>>
        PROVE  HistoryStep
    <2>1. HistoryRows \subseteq HistoryRows'
      BY <1>2, PlaceEffect DEF HistoryRows
    <2>2. \A a \in attached' \ attached : a.sheet \notin closedSheets
      BY <1>2, PlaceEffect DEF TypeOK
    <2>3. HistoryRows' \subseteq HistoryRows
      BY <1>2, <2>2 DEF HistoryRows
    <2>4. QED
      BY <1>2, <2>1, <2>3 DEF HistoryStep
  <1>3. ASSUME NEW P \in SUBSET Policies, Detach(P), UNCHANGED <<closedSheets, frozen>>
        PROVE  HistoryStep
    BY <1>3 DEF Detach, HistoryRows, HistoryStep
  <1>4. CASE UNCHANGED vars
    BY <1>1, <1>4 DEF vars
  <1>5. ASSUME NEW m \in BootstrapPeriods, InitializeSophia(m) PROVE HistoryStep
    BY <1>1, <1>5 DEF InitializeSophia
  <1>6. ASSUME NEW c \in Producers, OpenChainForMirror(c) PROVE HistoryStep
    BY <1>1, <1>6 DEF OpenChainForMirror
  <1>7. ASSUME NEW c \in Producers, ChangeProducerRate(c) PROVE HistoryStep
    BY <1>1, <1>7 DEF ChangeProducerRate
  <1>8. ASSUME NEW P \in SUBSET Policies, \A p \in P : Live(p), MarkPaid(P) PROVE HistoryStep
    BY <1>2, <1>8 DEF MarkPaid
  <1>9. ASSUME NEW P \in SUBSET Policies, MarkUnpaid(P) PROVE HistoryStep
    BY <1>3, <1>9 DEF MarkUnpaid
  <1>10. ASSUME NEW S \in SUBSET openSheets, CloseSheets(S) PROVE HistoryStep
    BY <1>10 DEF HistoryStep
  <1>11. ASSUME NEW p \in Policies, SoftDeletePolicy(p) PROVE HistoryStep
    BY <1>3, <1>11 DEF SoftDeletePolicy
  <1>12. ASSUME NEW p \in Policies, RestorePolicy(p) PROVE HistoryStep
    <2>1. CASE Place({p})
      BY <1>2, <1>12, <2>1 DEF RestorePolicy
    <2>2. CASE UNCHANGED <<openSheets, attached>>
      BY <1>1, <1>12, <2>2 DEF RestorePolicy
    <2>3. QED
      BY <1>12, <2>1, <2>2 DEF RestorePolicy
  <1>13. ASSUME NEW p \in Policies, NEW q \in Producers \cup {Unassigned},
                CorrectAssignment(p, q)
         PROVE  HistoryStep
    BY <1>1, <1>13 DEF CorrectAssignment
  <1>14. QED
    BY <1>4, <1>5, <1>6, <1>7, <1>8, <1>9, <1>10, <1>11, <1>12, <1>13, StepCases

(* Closed months, their rows and their snapshots never change, whatever is *)
(* deleted, restored or corrected afterwards.                              *)
THEOREM HistoryIsImmutable == Spec => ClosedHistoryIsImmutable
  <1> DEFINE A == /\ closedSheets \subseteq closedSheets'
                  /\ {a \in attached : a.sheet \in closedSheets}
                        = {a \in attached' : a.sheet \in closedSheets}
                  /\ frozen = {f \in frozen' : f.sheet \in closedSheets}
  <1>1. TypeOK /\ TypeOK' /\ [Next]_vars => A
    <2> SUFFICES ASSUME TypeOK, TypeOK', [Next]_vars PROVE A
      OBVIOUS
    <2>1. CASE UNCHANGED <<closedSheets, frozen, HistoryRows>>
      BY <2>1 DEF HistoryRows, TypeOK
    <2>2. ASSUME NEW S \in SUBSET openSheets, CloseSheets(S) PROVE A
      <3>1. closedSheets' = closedSheets \cup S /\ attached' = attached
        BY <2>2 DEF CloseSheets
      <3>2. \A f \in frozen' : f \in frozen \/ f.sheet \in S
        BY <2>2 DEF CloseSheets, Snapshot
      <3>3. frozen = {f \in frozen' : f.sheet \in closedSheets}
        BY <2>2, <3>2 DEF CloseSheets, TypeOK
      <3>4. QED
        BY <3>1, <3>3
    <2>3. QED
      BY <2>1, <2>2, HistoryChangesOnlyByClosing DEF HistoryStep
  <1>2. QED
    BY <1>1, TypeCorrect, PTL DEF Spec, ClosedHistoryIsImmutable

(* A closed month has a policy, and the snapshots are exactly its rows.    *)
THEOREM ClosedSheetsAreFrozen == Spec => []ClosedSheetIsFrozen
  <1>1. Init => ClosedSheetIsFrozen
    BY DEF Init, ClosedSheetIsFrozen
  <1>2. TypeOK /\ ClosedSheetIsFrozen /\ [Next]_vars => ClosedSheetIsFrozen'
    <2> SUFFICES ASSUME TypeOK, ClosedSheetIsFrozen, [Next]_vars
                 PROVE  ClosedSheetIsFrozen'
      OBVIOUS
    <2>1. CASE UNCHANGED <<closedSheets, frozen, HistoryRows>>
      <3>1. \A a : a \in attached /\ a.sheet \in closedSheets
                       <=> a \in attached' /\ a.sheet \in closedSheets'
        BY <2>1 DEF HistoryRows
      <3>2. \A s \in closedSheets' : RowsOf(s)' # {}
        BY <2>1, <3>1 DEF ClosedSheetIsFrozen, RowsOf
      <3>3. \A f \in frozen : [sheet |-> f.sheet, policy |-> f.policy] \in attached'
        BY <3>1 DEF ClosedSheetIsFrozen, TypeOK
      <3>4. QED
        BY <2>1, <3>1, <3>2, <3>3 DEF ClosedSheetIsFrozen
    <2>2. ASSUME NEW S \in SUBSET openSheets, CloseSheets(S) PROVE ClosedSheetIsFrozen'
      <3> DEFINE Taken == {b \in attached : b.sheet \in S}
      <3>1. /\ closedSheets' = closedSheets \cup S
            /\ attached' = attached
            /\ frozen' = frozen \cup {Snapshot(a) : a \in Taken}
        BY <2>2 DEF CloseSheets
      <3>2. \A a \in Taken : /\ Snapshot(a).sheet = a.sheet
                             /\ Snapshot(a).policy = a.policy
                             /\ a = [sheet |-> a.sheet, policy |-> a.policy]
        BY DEF Snapshot, TypeOK
      <3>3. \A s \in closedSheets' : RowsOf(s)' # {}
        BY <2>2, <3>1 DEF ClosedSheetIsFrozen, CloseSheets, Closable, RowsOf
      <3>4. \A a \in attached' : a.sheet \in closedSheets' =>
                \E f \in frozen' : f.sheet = a.sheet /\ f.policy = a.policy
        BY <3>1, <3>2 DEF ClosedSheetIsFrozen
      <3>5. \A f \in frozen' : [sheet |-> f.sheet, policy |-> f.policy] \in attached'
        <4>1. \A f \in frozen : [sheet |-> f.sheet, policy |-> f.policy] \in attached'
          BY <3>1 DEF ClosedSheetIsFrozen
        <4>2. ASSUME NEW a \in Taken, NEW f, f = Snapshot(a)
              PROVE  [sheet |-> f.sheet, policy |-> f.policy] \in attached'
          BY <3>1, <3>2, <4>2
        <4>3. QED
          BY <3>1, <4>1, <4>2
      <3>6. ASSUME NEW f \in frozen', NEW g \in frozen', f.sheet = g.sheet, f.policy = g.policy
            PROVE  f = g
        <4>1. CASE f \in frozen /\ g \in frozen
          BY <3>6, <4>1 DEF ClosedSheetIsFrozen
        <4>2. ASSUME NEW a \in Taken, NEW b \in Taken, f = Snapshot(a), g = Snapshot(b)
              PROVE  f = g
          BY <3>2, <3>6, <4>2
        <4>3. \A h \in frozen, a \in Taken : h.sheet # Snapshot(a).sheet
          BY <3>2 DEF TypeOK
        <4>4. QED
          BY <3>1, <3>6, <4>1, <4>2, <4>3
      <3>7. QED
        BY <3>3, <3>4, <3>5, <3>6 DEF ClosedSheetIsFrozen
    <2>3. QED
      BY <2>1, <2>2, HistoryChangesOnlyByClosing DEF HistoryStep
  <1>3. QED
    BY <1>1, <1>2, TypeCorrect, PTL DEF Spec

-----------------------------------------------------------------------------
(* Coverage.                                                               *)

(* Placing a policy leaves it on House: on the open sheet, or settled.     *)
LEMMA PlacementReachesHouse ==
    ASSUME TypeOK, NEW P \in SUBSET Policies, Place(P), NEW p \in P
    PROVE  \E a \in attached' : a.policy = p /\ a.sheet.chain = Sophia
  <1>1. CASE Settled(p, Sophia)
    BY <1>1, PlaceEffect DEF Settled
  <1>2. CASE ~Settled(p, Sophia)
    <2>1. PICK h \in openSheets : h.chain = Sophia
      BY DEF Place, OpenOf
    <2>2. h \in openSheets' /\ Sophia \in ChainsOf(p)
      BY <2>1, PlaceEffect DEF ChainsOf
    <2> DEFINE a == [sheet |-> h, policy |-> p]
    <2>3. a.sheet = h /\ a.policy = p
      OBVIOUS
    <2>4. a \in attached'
      BY <1>2, <2>1, <2>2 DEF Place
    <2> HIDE DEF a
    <2>5. QED
      BY <2>1, <2>3, <2>4
  <1>3. QED
    BY <1>1, <1>2

(* Money received for a live policy is on a sheet of some chain.           *)
THEOREM PaidPoliciesAreOnASheet == Spec => []PaidPolicyIsOnASheet
  <1>1. Init => PaidPolicyIsOnASheet
    BY DEF Init, PaidPolicyIsOnASheet
  <1>2. TypeOK /\ PaidPolicyIsOnASheet /\ [Next]_vars => PaidPolicyIsOnASheet'
    <2> SUFFICES ASSUME TypeOK, PaidPolicyIsOnASheet, [Next]_vars
                 PROVE  PaidPolicyIsOnASheet'
      OBVIOUS
    <2>1. ASSUME attached \subseteq attached',
                 \A p \in Policies : policies'[p].paid /\ ~policies'[p].deleted
                                        => policies[p].paid /\ ~policies[p].deleted
          PROVE  PaidPolicyIsOnASheet'
      BY <2>1 DEF PaidPolicyIsOnASheet, Live
    <2>2. ASSUME NEW P \in SUBSET Policies, Place(P),
                 \A p \in Policies \ P : policies'[p] = policies[p]
          PROVE  PaidPolicyIsOnASheet'
      <3>1. attached \subseteq attached'
        BY <2>2, PlaceEffect
      <3>2. \A p \in P : \E a \in attached' : a.policy = p
        BY <2>2, PlacementReachesHouse
      <3>3. QED
        BY <2>2, <3>1, <3>2 DEF PaidPolicyIsOnASheet, Live
    <2>3. ASSUME NEW P \in SUBSET Policies, Detach(P),
                 \A p \in P : ~policies'[p].paid \/ policies'[p].deleted,
                 \A p \in Policies \ P : policies'[p] = policies[p]
          PROVE  PaidPolicyIsOnASheet'
      BY <2>3 DEF PaidPolicyIsOnASheet, Live, Detach
    <2>4. CASE UNCHANGED vars
      BY <2>1, <2>4 DEF vars
    <2>5. ASSUME NEW m \in BootstrapPeriods, InitializeSophia(m) PROVE PaidPolicyIsOnASheet'
      BY <2>1, <2>5 DEF InitializeSophia
    <2>6. ASSUME NEW c \in Producers, OpenChainForMirror(c) PROVE PaidPolicyIsOnASheet'
      BY <2>1, <2>6 DEF OpenChainForMirror
    <2>7. ASSUME NEW c \in Producers, ChangeProducerRate(c) PROVE PaidPolicyIsOnASheet'
      BY <2>1, <2>7 DEF ChangeProducerRate
    <2>8. ASSUME NEW P \in SUBSET Policies, \A p \in P : Live(p), MarkPaid(P)
          PROVE  PaidPolicyIsOnASheet'
      BY <2>2, <2>8 DEF MarkPaid, WithPaid
    <2>9. ASSUME NEW P \in SUBSET Policies, MarkUnpaid(P) PROVE PaidPolicyIsOnASheet'
      <3>1. \A p \in P : ~policies'[p].paid
        BY <2>9 DEF MarkUnpaid, WithPaid, TypeOK, PolicyRow
      <3>2. QED
        BY <2>3, <2>9, <3>1 DEF MarkUnpaid, WithPaid
    <2>10. ASSUME NEW S \in SUBSET openSheets, CloseSheets(S) PROVE PaidPolicyIsOnASheet'
      BY <2>1, <2>10 DEF CloseSheets
    <2>11. ASSUME NEW p \in Policies, SoftDeletePolicy(p) PROVE PaidPolicyIsOnASheet'
      <3>1. policies'[p].deleted
        BY <2>11 DEF SoftDeletePolicy, TypeOK, PolicyRow
      <3>2. QED
        BY <2>3, <2>11, <3>1 DEF SoftDeletePolicy, TypeOK
    <2>12. ASSUME NEW p \in Policies, RestorePolicy(p) PROVE PaidPolicyIsOnASheet'
      <3>1. /\ policies'[p].paid = policies[p].paid
            /\ \A q \in Policies \ {p} : policies'[q] = policies[q]
        BY <2>12 DEF RestorePolicy, TypeOK, PolicyRow
      <3>2. CASE Place({p})
        BY <2>2, <3>1, <3>2
      <3>3. CASE ~(policies[p].paid /\ ~SettledAnywhere(p)) /\ attached' = attached
        <4>1. policies[p].paid => \E a \in attached : a.policy = p
          BY <3>3 DEF SettledAnywhere, Settled
        <4>2. QED
          BY <3>1, <3>3, <4>1 DEF PaidPolicyIsOnASheet, Live
      <3>4. QED
        BY <2>12, <3>2, <3>3 DEF RestorePolicy
    <2>13. ASSUME NEW p \in Policies, NEW q \in Producers \cup {Unassigned},
                  CorrectAssignment(p, q)
           PROVE  PaidPolicyIsOnASheet'
      <3>1. \A r \in Policies : /\ policies'[r].paid = policies[r].paid
                                /\ policies'[r].deleted = policies[r].deleted
        BY <2>13 DEF CorrectAssignment, TypeOK, PolicyRow
      <3>2. QED
        BY <2>1, <2>13, <3>1 DEF CorrectAssignment
    <2>14. QED
      BY <2>4, <2>5, <2>6, <2>7, <2>8, <2>9, <2>10, <2>11, <2>12, <2>13, StepCases
  <1>3. QED
    BY <1>1, <1>2, TypeCorrect, PTL DEF Spec

-----------------------------------------------------------------------------
(* Cascades.                                                               *)

(* Two sheets close in one transaction only together with a House sheet.   *)
LEMMA SheetsCloseTogetherWithHouse ==
    ASSUME TypeOK, [Next]_vars
    PROVE  \A s, t \in closedSheets' \ closedSheets :
               s # t => \E h \in closedSheets' \ closedSheets : h.chain = Sophia
  <1> DEFINE New == closedSheets' \ closedSheets
             A == \A s, t \in New : s # t => \E h \in New : h.chain = Sophia
  <1>1. CASE UNCHANGED closedSheets
    BY <1>1
  <1>2. ASSUME NEW s \in openSheets \cup closedSheets, NEW cascade \in BOOLEAN,
               ClosePaySheet(s, cascade)
        PROVE  A
    <2>1. CASE s \in openSheets /\ CloseSheets(CascadeTargets(s, cascade))
      <3>1. New = CascadeTargets(s, cascade)
        BY <2>1 DEF CloseSheets, CascadeTargets, TypeOK
      <3>2. New = {s} \/ (s \in New /\ s.chain = Sophia)
        BY <3>1 DEF CascadeTargets
      <3>3. QED
        BY <3>2
    <2>2. QED
      BY <1>1, <1>2, <2>1 DEF ClosePaySheet, vars
  <1>3. [Next]_vars => \/ UNCHANGED closedSheets
                       \/ \E s \in openSheets \cup closedSheets, cascade \in BOOLEAN :
                              ClosePaySheet(s, cascade)
    BY DEF Next, vars, InitializeSophia, OpenChainForMirror, ChangeProducerRate,
           ChangeMgaPayableState, ChangeMgaPayableGroupState, MarkPaid, MarkUnpaid,
           SoftDeletePolicy, RestorePolicy, CorrectAssignment
  <1>4. QED
    BY <1>1, <1>2, <1>3

(* A House close may take producers' sheets along; nothing else closes two *)
(* sheets at once, and repeating a close advances no other chain.          *)
THEOREM CascadesFollowHouse == Spec => CascadeNeedsItsHouseClose
  <1>1. TypeOK /\ [Next]_vars =>
            \A s, t \in closedSheets' \ closedSheets :
                s # t => \E h \in closedSheets' \ closedSheets : h.chain = Sophia
    BY SheetsCloseTogetherWithHouse
  <1>2. QED
    BY <1>1, TypeCorrect, PTL DEF Spec, CascadeNeedsItsHouseClose

-----------------------------------------------------------------------------
(* The payout book.                                                        *)

(* 0 stands for no month.                                                  *)
LEMMA MonthsAreNumberedFromOne ==
    ASSUME NEW m \in Period
    PROVE  Ordinal(m) \in Nat \ {0}
  <1> DEFINE y == m.year
             k == m.month
  <1>1. y \in 2000 .. 9999 /\ k \in 1 .. 12
    BY DEF Period
  <1>2. Ordinal(m) = 12 * y + k
    BY DEF Ordinal
  <1> HIDE DEF y, k
  <1>3. QED
    BY <1>1, <1>2

(* The month of a chain is the period of its open sheet, 0 without one.    *)
LEMMA MonthOfOpenSheet ==
    ASSUME TypeOK, ChainIsUnbroken, NEW s \in openSheets
    PROVE  /\ MonthOf(s.chain) = Ordinal(s.period)
           /\ MonthOf(s.chain) \in Nat \ {0}
           /\ OpenOf(s.chain) = {s}
  <1>1. OpenOf(s.chain) = {s}
    BY DEF OpenOf, ChainIsUnbroken
  <1>2. (CHOOSE t \in OpenOf(s.chain) : TRUE) = s
    BY <1>1
  <1>3. MonthOf(s.chain) = Ordinal(s.period)
    BY <1>1, <1>2 DEF MonthOf
  <1>4. s.period \in Period
    BY DEF TypeOK, Sheet
  <1>5. Ordinal(s.period) \in Nat \ {0}
    BY <1>4, MonthsAreNumberedFromOne
  <1>6. QED
    BY <1>1, <1>3, <1>5

LEMMA StartedMeansOpen ==
    ASSUME TypeOK, ChainIsUnbroken, NEW c \in Chains
    PROVE  MonthOf(c) # 0 <=> OpenOf(c) # {}
  <1>1. CASE OpenOf(c) = {}
    BY <1>1 DEF MonthOf
  <1>2. CASE OpenOf(c) # {}
    <2>1. PICK s \in openSheets : s.chain = c
      BY <1>2 DEF OpenOf
    <2>2. QED
      BY <1>2, <2>1, MonthOfOpenSheet
  <1>3. QED
    BY <1>1, <1>2

LEMMA SameSheetsSameMonth ==
    ASSUME NEW c, OpenOf(c)' = OpenOf(c)
    PROVE  MonthOf(c)' = MonthOf(c)
  BY DEF MonthOf

(* A producer that opens in House's month is in House's month.             *)
LEMMA LateStarterJoinsHouse ==
    ASSUME TypeOK, ChainIsUnbroken, OpenOf(Sophia) # {},
           NEW c, OpenOf(c)' = FirstSheets(c)
    PROVE  MonthOf(c)' = MonthOf(Sophia)
  <1>1. PICK h \in openSheets : h.chain = Sophia
    BY DEF OpenOf
  <1>2. OpenOf(Sophia) = {h} /\ MonthOf(Sophia) = Ordinal(h.period)
    BY <1>1, MonthOfOpenSheet
  <1> DEFINE s == [chain |-> c, period |-> h.period]
  <1>3. OpenOf(c)' = {s}
    BY <1>2 DEF FirstSheets
  <1>4. (CHOOSE t \in OpenOf(c)' : TRUE) = s
    BY <1>3
  <1>5. MonthOf(c)' = Ordinal(s.period)
    BY <1>3, <1>4 DEF MonthOf
  <1>6. QED
    BY <1>2, <1>5

(* A step that opens at most first sheets of producers and leaves the      *)
(* snapshots alone moves money, and nothing more.                          *)
LEMMA OpeningMovesMoney ==
    ASSUME TypeOK, ChainIsUnbroken, UNCHANGED frozen,
           NEW C \in SUBSET Producers, C # {} => OpenOf(Sophia) # {},
           \A c \in C : OpenOf(c) = {} /\ OpenOf(c)' = FirstSheets(c),
           \A c \in Chains \ C : OpenOf(c)' = OpenOf(c)
    PROVE  Payouts!BookNext
  <1>1. C # {} => Months[Sophia] # 0
    BY StartedMeansOpen DEF Months, Chains
  <1>2. \A c \in C : Months[c] = 0
    BY StartedMeansOpen DEF Months, Chains
  <1>3. \A c \in C : MonthOf(c)' = MonthOf(Sophia)
    BY LateStarterJoinsHouse
  <1>4. \A c \in Chains \ C : MonthOf(c)' = MonthOf(c)
    BY SameSheetsSameMonth
  <1>5. Months' = [c \in Chains |-> IF c \in C THEN Months[Sophia] ELSE Months[c]]
    BY <1>3, <1>4 DEF Months, Chains
  <1>6. Received' \in SUBSET Policies
    BY DEF Received
  <1>7. Book' = Book
    BY DEF Book, Entry
  <1>8. Payouts!MoveMoney(C, Received')
    BY <1>1, <1>2, <1>5, <1>7 DEF Payouts!MoveMoney, Payouts!Started, Payouts!Chains, Chains
  <1>9. QED
    BY <1>6, <1>8 DEF Payouts!BookNext

(* Opening House starts it in the month the admin picked.                  *)
LEMMA OpeningHouseStartsIt ==
    ASSUME TypeOK, ChainIsUnbroken, NEW m \in BootstrapPeriods, InitializeSophia(m)
    PROVE  Payouts!BookNext
  <1> DEFINE s == [chain |-> Sophia, period |-> m]
             n == Ordinal(m)
  <1>1. OpenOf(Sophia) = {} /\ s.chain = Sophia /\ s.period = m
    BY DEF InitializeSophia, CanInitialize, OpenOf
  <1>2. openSheets' = openSheets \cup {s} /\ UNCHANGED <<policies, frozen>>
    BY DEF InitializeSophia
  <1> HIDE DEF s
  <1>3. OpenOf(Sophia)' = {s}
    BY <1>1, <1>2 DEF OpenOf
  <1>4. (CHOOSE t \in OpenOf(Sophia)' : TRUE) = s
    BY <1>3
  <1>5. MonthOf(Sophia)' = n
    BY <1>1, <1>3, <1>4 DEF MonthOf
  <1>6. \A c \in Chains \ {Sophia} : MonthOf(c)' = MonthOf(c)
    <2>1. \A c \in Chains \ {Sophia} : OpenOf(c)' = OpenOf(c)
      BY <1>1, <1>2 DEF OpenOf
    <2>2. QED
      BY <2>1, SameSheetsSameMonth
  <1>7. Months' = [Months EXCEPT ![Sophia] = n]
    BY <1>5, <1>6 DEF Months, Chains
  <1>8. Months[Sophia] = 0
    BY <1>1 DEF Months, MonthOf, Chains
  <1>9. Received' = Received /\ Book' = Book
    BY <1>2 DEF Received, Book, Entry, Live
  <1>10. Payouts!StartHouse(n)
    BY <1>7, <1>8, <1>9 DEF Payouts!StartHouse, Payouts!Started
  <1>11. QED
    BY <1>10 DEF Payouts!BookNext

(* Placing policies opens the late chains and nothing else.                *)
LEMMA PlacingMovesMoney ==
    ASSUME TypeOK, ChainIsUnbroken, NEW P \in SUBSET Policies, Place(P),
           UNCHANGED frozen
    PROVE  Payouts!BookNext
  <1> DEFINE C == LazyChains(P)
  <1>1. C \in SUBSET Producers /\ OpenOf(Sophia) # {}
    BY DEF LazyChains, Place
  <1>2. openSheets' = openSheets \cup UNION {FirstSheets(c) : c \in C}
    BY DEF Place
  <1>3. \A c \in C : OpenOf(c) = {}
    BY DEF LazyChains
  <1> HIDE DEF C
  <1>4. \A c : \A s \in FirstSheets(c) : s.chain = c
    BY DEF FirstSheets
  <1>5. \A c \in C : OpenOf(c)' = FirstSheets(c)
    BY <1>2, <1>3, <1>4 DEF OpenOf
  <1>6. \A c \in Chains \ C : OpenOf(c)' = OpenOf(c)
    BY <1>2, <1>4 DEF OpenOf
  <1>7. QED
    BY <1>1, <1>3, <1>5, <1>6, OpeningMovesMoney

(* A step that opens no sheet and writes no snapshot moves money at most.  *)
LEMMA KeepingSheetsMovesMoney ==
    ASSUME TypeOK, ChainIsUnbroken, UNCHANGED <<openSheets, frozen>>
    PROVE  Payouts!BookNext
  <1>1. \A c \in Chains \ {} : OpenOf(c)' = OpenOf(c)
    BY DEF OpenOf
  <1>2. {} \in SUBSET Producers /\ UNCHANGED frozen
    OBVIOUS
  <1> DEFINE C == {}
  <1>3. /\ C \in SUBSET Producers
        /\ C # {} => OpenOf(Sophia) # {}
        /\ \A c \in C : OpenOf(c) = {} /\ OpenOf(c)' = FirstSheets(c)
        /\ \A c \in Chains \ C : OpenOf(c)' = OpenOf(c)
    BY <1>1
  <1> HIDE DEF C
  <1>4. QED
    BY <1>2, <1>3, OpeningMovesMoney

(* A closing sheet hands its month to its successor.                       *)
LEMMA ClosingTurnsTheMonth ==
    ASSUME TypeOK, ChainIsUnbroken, NEW S \in SUBSET openSheets, CloseSheets(S),
           NEW s \in S
    PROVE  MonthOf(s.chain)' = MonthOf(s.chain) + 1
  <1> DEFINE n == Successor(s)
  <1>1. n.chain = s.chain /\ Ordinal(n.period) = Ordinal(s.period) + 1
    BY SuccessorSheet DEF TypeOK
  <1>2. \A t \in S : Successor(t).chain = t.chain
    BY SuccessorSheet DEF TypeOK
  <1>3. MonthOf(s.chain) = Ordinal(s.period) /\ OpenOf(s.chain) = {s}
    BY MonthOfOpenSheet
  <1>4. openSheets' = (openSheets \ S) \cup {Successor(t) : t \in S}
    BY DEF CloseSheets
  <1>5. \A t \in openSheets : t.chain = s.chain => t = s
    BY <1>3 DEF OpenOf
  <1>6. n \in openSheets'
    BY <1>4
  <1>7. \A t \in openSheets' : t.chain = s.chain => t = n
    BY <1>2, <1>4, <1>5
  <1> HIDE DEF n
  <1>8. OpenOf(s.chain)' = {n}
    BY <1>1, <1>6, <1>7 DEF OpenOf
  <1>9. (CHOOSE t \in OpenOf(s.chain)' : TRUE) = n
    BY <1>8
  <1>10. MonthOf(s.chain)' = Ordinal(n.period)
    BY <1>8, <1>9 DEF MonthOf
  <1>11. QED
    BY <1>1, <1>3, <1>10

(* What the chain has paid out it has settled.                             *)
LEMMA PaidOutIsSettled ==
    ASSUME TypeOK, ClosedSheetIsFrozen, NEW c, NEW p \in Payouts!PaidOut(c)
    PROVE  Settled(p, c)
  <1>1. PICK f \in frozen : Entry(f).chain = c /\ Entry(f).policy = p
    BY DEF Payouts!PaidOut, Book
  <1>2. f.sheet.chain = c /\ f.policy = p
    BY <1>1 DEF Entry
  <1>3. f.sheet \in closedSheets
    BY DEF TypeOK
  <1> DEFINE a == [sheet |-> f.sheet, policy |-> f.policy]
  <1>4. a \in attached /\ a.sheet = f.sheet /\ a.policy = f.policy
    BY DEF ClosedSheetIsFrozen
  <1>5. QED
    BY <1>2, <1>3, <1>4 DEF Settled

(* The snapshots of a close are the entries of a payout.                   *)
LEMMA SnapshotsAreEntries ==
    ASSUME TypeOK, ChainIsUnbroken, NEW S \in SUBSET openSheets, CloseSheets(S),
           NEW C, C = {s.chain : s \in S},
           NEW due, \A c \in C : due[c] =
               {a.policy : a \in {b \in attached : b.sheet \in S /\ b.sheet.chain = c}},
           NEW assigned, \A p \in Policies : assigned[p] = policies[p].producer
    PROVE  Book' = Book \cup Payouts!Entries(C, due, assigned)
  <1> DEFINE Taken == {b \in attached : b.sheet \in S}
             New == Payouts!Entries(C, due, assigned)
             E(c, p) == [chain |-> c, month |-> Months[c],
                         policy |-> p, producer |-> assigned[p]]
  <1>1. frozen' = frozen \cup {Snapshot(a) : a \in Taken}
    BY DEF CloseSheets
  <1>2. Book' = Book \cup {Entry(Snapshot(a)) : a \in Taken}
    BY <1>1 DEF Book, Entry
  <1>3. ASSUME NEW a \in Taken
        PROVE  /\ Entry(Snapshot(a)) = E(a.sheet.chain, a.policy)
               /\ a.sheet.chain \in C
               /\ a.policy \in due[a.sheet.chain]
    <2>1. a.sheet \in S /\ a.sheet.chain \in Chains /\ a.policy \in Policies
      BY DEF TypeOK, Sheet
    <2>2. Months[a.sheet.chain] = Ordinal(a.sheet.period)
      BY <2>1, MonthOfOpenSheet DEF Months
    <2>3. QED
      BY <2>1, <2>2 DEF Entry, Snapshot
  <1>4. New = UNION {{E(c, p) : p \in due[c]} : c \in C}
    BY DEF Payouts!Entries
  <1>5. \A a \in Taken : Entry(Snapshot(a)) \in New
    BY <1>3, <1>4
  <1>6. ASSUME NEW e \in New PROVE \E a \in Taken : e = Entry(Snapshot(a))
    <2>1. PICK c \in C : \E p \in due[c] : e = E(c, p)
      BY <1>4
    <2>2. PICK p \in due[c] : e = E(c, p)
      BY <2>1
    <2>3. PICK a \in attached : a.sheet \in S /\ a.sheet.chain = c /\ a.policy = p
      BY <2>2
    <2>4. QED
      BY <1>3, <2>2, <2>3
  <1>7. {Entry(Snapshot(a)) : a \in Taken} = New
    BY <1>5, <1>6
  <1>8. QED
    BY <1>2, <1>7

(* A close, alone or along with House, is a payout of the month.           *)
LEMMA ClosingPaysOut ==
    ASSUME TypeOK, ChainIsUnbroken, ClosedSheetIsFrozen, OpenSheetsCarryPaidLivePolicies,
           NEW S \in SUBSET openSheets, CloseSheets(S),
           \A s, t \in S : s # t => \E h \in S : h.chain = Sophia
    PROVE  Payouts!BookNext
  <1> DEFINE C == {s.chain : s \in S}
             Due(c) == {a.policy : a \in {b \in attached :
                                              b.sheet \in S /\ b.sheet.chain = c}}
             due == [c \in C |-> Due(c)]
             assigned == [p \in Policies |-> policies[p].producer]
  <1>1. C \in SUBSET Chains /\ due \in [C -> SUBSET Policies]
    BY DEF TypeOK, Sheet
  <1>2. assigned \in [Policies -> Producers \cup {Unassigned}]
    BY DEF TypeOK, PolicyRow
  <1>3. \A c, d \in C : c # d => Sophia \in C
    OBVIOUS
  <1>4. ASSUME NEW c \in C
        PROVE  /\ Months[c] # 0
               /\ due[c] # {}
               /\ due[c] \subseteq Received \ Payouts!PaidOut(c)
    <2>1. PICK s \in S : c = s.chain
      OBVIOUS
    <2>2. Months[c] # 0
      BY <1>1, <2>1, MonthOfOpenSheet DEF Months
    <2>3. Closable(s) /\ CloseIntegrity(s)
      BY DEF CloseSheets
    <2>4. due[c] = Due(c)
      OBVIOUS
    <2>5. Due(c) # {}
      BY <2>1, <2>3 DEF Closable, RowsOf
    <2>6. ASSUME NEW p \in Due(c) PROVE p \in Received /\ ~Settled(p, c)
      <3>1. PICK a \in attached : a.sheet \in S /\ a.sheet.chain = c /\ a.policy = p
        OBVIOUS
      <3>2. p \in Policies /\ policies[p].paid /\ Live(p)
        BY <3>1 DEF OpenSheetsCarryPaidLivePolicies, TypeOK
      <3>3. CloseIntegrity(a.sheet) /\ a \in RowsOf(a.sheet)
        BY <3>1 DEF CloseSheets, RowsOf
      <3>4. ~Settled(p, c)
        BY <3>1, <3>3 DEF CloseIntegrity
      <3>5. QED
        BY <3>2, <3>4 DEF Received
    <2>7. QED
      BY <2>2, <2>4, <2>5, <2>6, PaidOutIsSettled
  <1>5. Months' = [c \in Chains |-> IF c \in C THEN Months[c] + 1 ELSE Months[c]]
    <2>1. \A c \in C : MonthOf(c)' = MonthOf(c) + 1
      BY ClosingTurnsTheMonth
    <2>2. ASSUME NEW c \in Chains \ C PROVE MonthOf(c)' = MonthOf(c)
      <3>1. \A s \in S : Successor(s).chain \in C
        BY SuccessorSheet DEF TypeOK
      <3>2. openSheets' = (openSheets \ S) \cup {Successor(s) : s \in S}
        BY DEF CloseSheets
      <3>3. OpenOf(c)' = OpenOf(c)
        BY <3>1, <3>2 DEF OpenOf
      <3>4. QED
        BY <3>3, SameSheetsSameMonth
    <2> HIDE DEF C
    <2>3. QED
      BY <1>1, <2>1, <2>2 DEF Months
  <1>6. /\ C = {s.chain : s \in S}
        /\ \A c \in C : due[c] =
               {a.policy : a \in {b \in attached : b.sheet \in S /\ b.sheet.chain = c}}
        /\ \A p \in Policies : assigned[p] = policies[p].producer
    OBVIOUS
  <1> HIDE DEF C, due, assigned
  <1>7. Book' = Book \cup Payouts!Entries(C, due, assigned)
    BY <1>6, SnapshotsAreEntries
  <1>8. Received' = Received
    BY DEF CloseSheets, Received, Live
  <1>9. Payouts!PayOut(C, due, assigned)
    BY <1>3, <1>4, <1>5, <1>7, <1>8, Zenon
       DEF Payouts!PayOut, Payouts!Started, Payouts!Chains, Chains
  <1>10. QED
    BY <1>1, <1>2, <1>9 DEF Payouts!BookNext, Payouts!Chains, Chains

(* The transactions implement PayoutBook: whatever the order of payments,  *)
(* closes, cascades, deletions, restorations and corrections, a payout is  *)
(* of money received, once per chain, in the month the chain is in.        *)
THEOREM TheBookIsKept == Spec => KeepsTheBook
  <1>1. Init => Payouts!BookInit
    <2> SUFFICES ASSUME Init PROVE Payouts!BookInit
      OBVIOUS
    <2>1. Months = [c \in Chains |-> 0]
      BY DEF Init, Months, MonthOf, OpenOf
    <2>2. Received = {} /\ Book = {}
      BY DEF Init, Received, Book
    <2>3. QED
      BY <2>1, <2>2 DEF Payouts!BookInit, Payouts!Chains, Chains
  <1>2. TypeOK /\ ChainIsUnbroken /\ ClosedSheetIsFrozen
          /\ OpenSheetsCarryPaidLivePolicies /\ [Next]_vars
            => [Payouts!BookNext]_(Payouts!bookVars)
    <2> SUFFICES ASSUME TypeOK, ChainIsUnbroken, ClosedSheetIsFrozen,
                        OpenSheetsCarryPaidLivePolicies, Next
                 PROVE  Payouts!BookNext
      <3>1. UNCHANGED vars => UNCHANGED Payouts!bookVars
        BY DEF vars, Payouts!bookVars, Months, MonthOf, OpenOf, Received, Live,
               Book, Entry
      <3>2. QED
        BY <3>1
    <2>1. CASE UNCHANGED vars
      BY <2>1, KeepingSheetsMovesMoney DEF vars
    <2>2. ASSUME NEW m \in BootstrapPeriods, InitializeSophia(m)
          PROVE  Payouts!BookNext
      BY <2>2, OpeningHouseStartsIt
    <2>3. ASSUME NEW c \in Producers, OpenChainForMirror(c) PROVE Payouts!BookNext
      <3> DEFINE C == {c}
      <3>1. C \in SUBSET Producers /\ UNCHANGED frozen
        BY <2>3 DEF OpenChainForMirror
      <3>2. C # {} => OpenOf(Sophia) # {}
        BY <2>3 DEF OpenChainForMirror
      <3>3. \A s \in FirstSheets(c) : s.chain = c
        BY DEF FirstSheets
      <3>4. OpenOf(c) = {} /\ openSheets' = openSheets \cup FirstSheets(c)
        BY <2>3 DEF OpenChainForMirror, CanInitialize, OpenOf
      <3>5. \A d \in C : OpenOf(d) = {} /\ OpenOf(d)' = FirstSheets(d)
        BY <3>3, <3>4 DEF OpenOf
      <3>6. \A d \in Chains \ C : OpenOf(d)' = OpenOf(d)
        BY <3>3, <3>4 DEF OpenOf
      <3> HIDE DEF C
      <3>7. QED
        BY <3>1, <3>2, <3>5, <3>6, OpeningMovesMoney
    <2>4. ASSUME NEW c \in Producers, ChangeProducerRate(c) PROVE Payouts!BookNext
      BY <2>4, KeepingSheetsMovesMoney DEF ChangeProducerRate
    <2>5. ASSUME NEW P \in SUBSET Policies, \A p \in P : Live(p), MarkPaid(P)
          PROVE  Payouts!BookNext
      BY <2>5, PlacingMovesMoney DEF MarkPaid
    <2>6. ASSUME NEW P \in SUBSET Policies, MarkUnpaid(P) PROVE Payouts!BookNext
      BY <2>6, KeepingSheetsMovesMoney DEF MarkUnpaid
    <2>7. ASSUME NEW S \in SUBSET openSheets, CloseSheets(S) PROVE Payouts!BookNext
      <3>1. closedSheets' \ closedSheets = S
        BY <2>7 DEF CloseSheets, TypeOK
      <3>2. \A s, t \in S : s # t => \E h \in S : h.chain = Sophia
        BY <3>1, SheetsCloseTogetherWithHouse
      <3>3. QED
        BY <2>7, <3>2, ClosingPaysOut
    <2>8. ASSUME NEW p \in Policies, SoftDeletePolicy(p) PROVE Payouts!BookNext
      BY <2>8, KeepingSheetsMovesMoney DEF SoftDeletePolicy
    <2>9. ASSUME NEW p \in Policies, RestorePolicy(p) PROVE Payouts!BookNext
      <3>1. CASE Place({p})
        BY <2>9, <3>1, PlacingMovesMoney DEF RestorePolicy
      <3>2. CASE UNCHANGED <<openSheets, attached>>
        BY <2>9, <3>2, KeepingSheetsMovesMoney DEF RestorePolicy
      <3>3. QED
        BY <2>9, <3>1, <3>2 DEF RestorePolicy
    <2>10. ASSUME NEW p \in Policies, NEW q \in Producers \cup {Unassigned},
                  CorrectAssignment(p, q)
           PROVE  Payouts!BookNext
      BY <2>10, KeepingSheetsMovesMoney DEF CorrectAssignment
    <2>11. QED
      BY <2>1, <2>2, <2>3, <2>4, <2>5, <2>6, <2>7, <2>8, <2>9, <2>10, StepCases
  <1>3. QED
    BY <1>1, <1>2, TypeCorrect, ChainsStayUnbroken, ClosedSheetsAreFrozen,
       OpenSheetsStayPaidAndLive, PTL DEF Spec, KeepsTheBook, Payouts!BookSpec

(* What follows from the book holds of the sheets.                         *)
Payments == INSTANCE PayoutBook_proofs WITH
    House <- Sophia,
    FirstMonths <- {Ordinal(m) : m \in BootstrapPeriods},
    month <- Months, received <- Received, book <- Book

LEMMA BootstrapMonths == {Ordinal(m) : m \in BootstrapPeriods} \subseteq Nat
  BY SettlementAssumptions, NextPeriodIsNextMonth DEF Ordinal

(* drizzle/0028 (30-60) and 0039: the payouts the closed sheets recorded   *)
(* leave no month out.                                                     *)
THEOREM NoMonthIsLeftOut == Spec => []Payouts!NoMonthIsSkipped
  <1>1. Payments!BookSpec => []Payments!NoMonthIsSkipped
    BY BootstrapMonths, Payments!BookHasNoGaps
  <1>2. Payouts!BookInit => Payments!BookInit
    BY DEF Payouts!BookInit, Payments!BookInit, Payouts!Chains, Payments!Chains
  <1>3. [Payouts!BookNext]_(Payouts!bookVars) => [Payments!BookNext]_(Payments!bookVars)
    BY DEF Payouts!BookNext, Payments!BookNext, Payouts!bookVars, Payments!bookVars,
           Payouts!StartHouse, Payments!StartHouse, Payouts!MoveMoney,
           Payments!MoveMoney, Payouts!PayOut, Payments!PayOut, Payouts!Started,
           Payments!Started, Payouts!Entries, Payments!Entries,
           Payouts!PaidOut, Payments!PaidOut, Payouts!Chains, Payments!Chains
  <1>4. Payments!NoMonthIsSkipped => Payouts!NoMonthIsSkipped
    BY DEF Payments!NoMonthIsSkipped, Payouts!NoMonthIsSkipped
  <1>5. QED
    BY <1>1, <1>2, <1>3, <1>4, TheBookIsKept, PTL
       DEF KeepsTheBook, Payouts!BookSpec, Payments!BookSpec

-----------------------------------------------------------------------------
(* What the two refuted documents need to be true.                         *)

(* A correction moves a policy to another producer only while no           *)
(* producer's sheet carries it.                                            *)
ReassignsOnlyUnplaced ==
    \A a \in attached :
        a.sheet.chain \in Producers =>
            policies'[a.policy].producer = policies[a.policy].producer

(* A producer's sheet carries a policy only for its assigned producer.     *)
ProducerRowsFollowTheAssignment ==
    \A a \in attached :
        a.sheet.chain \in Producers => policies[a.policy].producer = a.sheet.chain

(* README.md 784-786 read strictly: besides House, only the assigned       *)
(* producer settles a policy.  apply_policy_correction (drizzle/0034, 344) *)
(* is the only operation that can break it: the placement of payments and  *)
(* restorations never does.                                                *)
THEOREM OneProducerUnlessReassigned ==
    Spec /\ [][ReassignsOnlyUnplaced]_vars => []SettlesWithOneProducer
  <1>1. Init => ProducerRowsFollowTheAssignment
    BY DEF Init, ProducerRowsFollowTheAssignment
  <1>2. TypeOK /\ ProducerRowsFollowTheAssignment
          /\ [Next]_vars /\ [ReassignsOnlyUnplaced]_vars
            => ProducerRowsFollowTheAssignment'
    <2> SUFFICES ASSUME TypeOK, ProducerRowsFollowTheAssignment, [Next]_vars,
                        ReassignsOnlyUnplaced
                 PROVE  ProducerRowsFollowTheAssignment'
      BY DEF vars, ProducerRowsFollowTheAssignment
    <2>1. ASSUME attached' \subseteq attached PROVE ProducerRowsFollowTheAssignment'
      BY <2>1 DEF ProducerRowsFollowTheAssignment, ReassignsOnlyUnplaced
    <2>2. ASSUME NEW P \in SUBSET Policies, Place(P),
                 \A p \in Policies : policies'[p].producer = policies[p].producer
          PROVE  ProducerRowsFollowTheAssignment'
      <3>1. \A a \in attached' \ attached :
                a.policy \in Policies /\ a.sheet.chain \in ChainsOf(a.policy)
        BY <2>2 DEF Place
      <3>2. \A a \in attached' \ attached :
                a.sheet.chain \in Producers => policies[a.policy].producer = a.sheet.chain
        BY <3>1, SettlementAssumptions DEF ChainsOf
      <3>3. QED
        BY <2>2, <3>1, <3>2
           DEF ProducerRowsFollowTheAssignment, ReassignsOnlyUnplaced
    <2>3. CASE UNCHANGED vars
      BY <2>1, <2>3 DEF vars
    <2>4. ASSUME NEW m \in BootstrapPeriods, InitializeSophia(m)
          PROVE  ProducerRowsFollowTheAssignment'
      BY <2>1, <2>4 DEF InitializeSophia
    <2>5. ASSUME NEW c \in Producers, OpenChainForMirror(c)
          PROVE  ProducerRowsFollowTheAssignment'
      BY <2>1, <2>5 DEF OpenChainForMirror
    <2>6. ASSUME NEW c \in Producers, ChangeProducerRate(c)
          PROVE  ProducerRowsFollowTheAssignment'
      BY <2>1, <2>6 DEF ChangeProducerRate
    <2>7. ASSUME NEW P \in SUBSET Policies, \A p \in P : Live(p), MarkPaid(P)
          PROVE  ProducerRowsFollowTheAssignment'
      <3>1. \A p \in Policies : policies'[p].producer = policies[p].producer
        BY <2>7 DEF MarkPaid, WithPaid, TypeOK, PolicyRow
      <3>2. QED
        BY <2>2, <2>7, <3>1 DEF MarkPaid
    <2>8. ASSUME NEW P \in SUBSET Policies, MarkUnpaid(P)
          PROVE  ProducerRowsFollowTheAssignment'
      BY <2>1, <2>8 DEF MarkUnpaid, Detach
    <2>9. ASSUME NEW S \in SUBSET openSheets, CloseSheets(S)
          PROVE  ProducerRowsFollowTheAssignment'
      BY <2>1, <2>9 DEF CloseSheets
    <2>10. ASSUME NEW p \in Policies, SoftDeletePolicy(p)
           PROVE  ProducerRowsFollowTheAssignment'
      BY <2>1, <2>10 DEF SoftDeletePolicy, Detach
    <2>11. ASSUME NEW p \in Policies, RestorePolicy(p)
           PROVE  ProducerRowsFollowTheAssignment'
      <3>1. \A q \in Policies : policies'[q].producer = policies[q].producer
        BY <2>11 DEF RestorePolicy, TypeOK, PolicyRow
      <3>2. CASE Place({p})
        BY <2>2, <3>1, <3>2
      <3>3. CASE UNCHANGED <<openSheets, attached>>
        BY <2>1, <3>3
      <3>4. QED
        BY <2>11, <3>2, <3>3 DEF RestorePolicy
    <2>12. ASSUME NEW p \in Policies, NEW q \in Producers \cup {Unassigned},
                  CorrectAssignment(p, q)
           PROVE  ProducerRowsFollowTheAssignment'
      BY <2>1, <2>12 DEF CorrectAssignment
    <2>13. QED
      BY <2>3, <2>4, <2>5, <2>6, <2>7, <2>8, <2>9, <2>10, <2>11, <2>12, StepCases
  <1>3. ProducerRowsFollowTheAssignment => SettlesWithOneProducer
    BY DEF ProducerRowsFollowTheAssignment, SettlesWithOneProducer, Settled
  <1>4. QED
    BY <1>1, <1>2, <1>3, TypeCorrect, PTL DEF Spec

(* A paid policy is restored after a settlement only if House settled it.  *)
RestoresOnlyWithHouse ==
    \A p \in Policies :
        policies[p].deleted /\ ~policies'[p].deleted
            => \/ ~policies[p].paid
               \/ ~SettledAnywhere(p)
               \/ Settled(p, Sophia)

PaidPolicyHasAHouseRow ==
    \A p \in Policies :
        policies[p].paid /\ Live(p)
            => \E a \in attached : a.policy = p /\ a.sheet.chain = Sophia

(* docs/KPI_ACTUALS_CONTRACT.md 10-11: restore_policy (drizzle/0044, 610)  *)
(* is the only operation that can leave a live paid policy without House;  *)
(* payments, closes, cascades, deletions and corrections never do.         *)
THEOREM HouseIsReachedUnlessRestored ==
    Spec /\ [][RestoresOnlyWithHouse]_vars => []ProducerSettlementReachesHouse
  <1>1. Init => PaidPolicyHasAHouseRow
    BY DEF Init, PaidPolicyHasAHouseRow
  <1>2. TypeOK /\ PaidPolicyHasAHouseRow
          /\ [Next]_vars /\ [RestoresOnlyWithHouse]_vars
            => PaidPolicyHasAHouseRow'
    <2> SUFFICES ASSUME TypeOK, PaidPolicyHasAHouseRow, [Next]_vars,
                        RestoresOnlyWithHouse
                 PROVE  PaidPolicyHasAHouseRow'
      BY DEF vars, PaidPolicyHasAHouseRow, Live
    <2>1. ASSUME attached \subseteq attached',
                 \A p \in Policies : policies'[p].paid /\ ~policies'[p].deleted
                                        => policies[p].paid /\ ~policies[p].deleted
          PROVE  PaidPolicyHasAHouseRow'
      BY <2>1 DEF PaidPolicyHasAHouseRow, Live
    <2>2. ASSUME NEW P \in SUBSET Policies, Place(P),
                 \A p \in Policies \ P : policies'[p] = policies[p]
          PROVE  PaidPolicyHasAHouseRow'
      <3>1. attached \subseteq attached'
        BY <2>2, PlaceEffect
      <3>2. \A p \in P : \E a \in attached' : a.policy = p /\ a.sheet.chain = Sophia
        BY <2>2, PlacementReachesHouse
      <3>3. QED
        BY <2>2, <3>1, <3>2 DEF PaidPolicyHasAHouseRow, Live
    <2>3. ASSUME NEW P \in SUBSET Policies, Detach(P),
                 \A p \in P : ~policies'[p].paid \/ policies'[p].deleted,
                 \A p \in Policies \ P : policies'[p] = policies[p]
          PROVE  PaidPolicyHasAHouseRow'
      BY <2>3 DEF PaidPolicyHasAHouseRow, Live, Detach
    <2>4. CASE UNCHANGED vars
      BY <2>1, <2>4 DEF vars
    <2>5. ASSUME NEW m \in BootstrapPeriods, InitializeSophia(m)
          PROVE  PaidPolicyHasAHouseRow'
      BY <2>1, <2>5 DEF InitializeSophia
    <2>6. ASSUME NEW c \in Producers, OpenChainForMirror(c)
          PROVE  PaidPolicyHasAHouseRow'
      BY <2>1, <2>6 DEF OpenChainForMirror
    <2>7. ASSUME NEW c \in Producers, ChangeProducerRate(c)
          PROVE  PaidPolicyHasAHouseRow'
      BY <2>1, <2>7 DEF ChangeProducerRate
    <2>8. ASSUME NEW P \in SUBSET Policies, \A p \in P : Live(p), MarkPaid(P)
          PROVE  PaidPolicyHasAHouseRow'
      BY <2>2, <2>8 DEF MarkPaid, WithPaid
    <2>9. ASSUME NEW P \in SUBSET Policies, MarkUnpaid(P)
          PROVE  PaidPolicyHasAHouseRow'
      <3>1. \A p \in P : ~policies'[p].paid
        BY <2>9 DEF MarkUnpaid, WithPaid, TypeOK, PolicyRow
      <3>2. QED
        BY <2>3, <2>9, <3>1 DEF MarkUnpaid, WithPaid
    <2>10. ASSUME NEW S \in SUBSET openSheets, CloseSheets(S)
           PROVE  PaidPolicyHasAHouseRow'
      BY <2>1, <2>10 DEF CloseSheets
    <2>11. ASSUME NEW p \in Policies, SoftDeletePolicy(p)
           PROVE  PaidPolicyHasAHouseRow'
      <3>1. policies'[p].deleted
        BY <2>11 DEF SoftDeletePolicy, TypeOK, PolicyRow
      <3>2. QED
        BY <2>3, <2>11, <3>1 DEF SoftDeletePolicy, TypeOK
    <2>12. ASSUME NEW p \in Policies, RestorePolicy(p)
           PROVE  PaidPolicyHasAHouseRow'
      <3>1. /\ policies'[p].paid = policies[p].paid
            /\ policies[p].deleted /\ ~policies'[p].deleted
            /\ \A q \in Policies \ {p} : policies'[q] = policies[q]
        BY <2>12 DEF RestorePolicy, TypeOK, PolicyRow, Live
      <3>2. CASE Place({p})
        BY <2>2, <3>1, <3>2
      <3>3. CASE ~(policies[p].paid /\ ~SettledAnywhere(p)) /\ attached' = attached
        <4>1. policies[p].paid =>
                  \E a \in attached : a.policy = p /\ a.sheet.chain = Sophia
          BY <3>1, <3>3 DEF RestoresOnlyWithHouse, Settled
        <4>2. QED
          BY <3>1, <3>3, <4>1 DEF PaidPolicyHasAHouseRow, Live
      <3>4. QED
        BY <2>12, <3>2, <3>3 DEF RestorePolicy
    <2>13. ASSUME NEW p \in Policies, NEW q \in Producers \cup {Unassigned},
                  CorrectAssignment(p, q)
           PROVE  PaidPolicyHasAHouseRow'
      <3>1. \A r \in Policies : /\ policies'[r].paid = policies[r].paid
                                /\ policies'[r].deleted = policies[r].deleted
        BY <2>13 DEF CorrectAssignment, TypeOK, PolicyRow
      <3>2. QED
        BY <2>1, <2>13, <3>1 DEF CorrectAssignment
    <2>14. QED
      BY <2>4, <2>5, <2>6, <2>7, <2>8, <2>9, <2>10, <2>11, <2>12, <2>13, StepCases
  <1>3. PaidPolicyHasAHouseRow => ProducerSettlementReachesHouse
    BY DEF PaidPolicyHasAHouseRow, ProducerSettlementReachesHouse
  <1>4. QED
    BY <1>1, <1>2, <1>3, TypeCorrect, PTL DEF Spec

=============================================================================
