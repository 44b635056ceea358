--------------------------- MODULE PayoutBook_proofs ---------------------------
(* What follows from the book of payouts, whatever keeps it.               *)
EXTENDS PayoutBook, TLAPS

Entry == [chain : Chains, month : Nat, policy : Policies,
          producer : Producers \cup {Unassigned}]

BookTyped ==
    /\ month \in [Chains -> Nat]
    /\ book \subseteq Entry

BookInv == BookTyped /\ PaidAtMostOnce /\ NoMonthIsSkipped /\ HouseStartsFirst

(* The entries a payout adds, one for each policy due on each chain.       *)
LEMMA NewEntries ==
    ASSUME BookTyped, NEW C \in SUBSET Chains, NEW due \in [C -> SUBSET Policies],
           NEW assigned \in [Policies -> Producers \cup {Unassigned}]
    PROVE  \A e : e \in Entries(C, due, assigned) <=>
               \E c \in C : \E p \in due[c] :
                   e = [chain |-> c, month |-> month[c], policy |-> p,
                        producer |-> assigned[p]]
  BY DEF Entries

-----------------------------------------------------------------------------
(* Only a payout writes to the book; a chain that starts paid out nothing. *)

(* Months of chains with entries stand still, the book too.                *)
LEMMA MonthsStart ==
    ASSUME BookInv, UNCHANGED book, month' \in [Chains -> Nat],
           \A c \in Chains : month'[c] = month[c] \/ month[c] = 0
    PROVE  BookTyped' /\ PaidAtMostOnce' /\ NoMonthIsSkipped'
  <1>1. ASSUME NEW e \in book
        PROVE  e.chain \in Chains /\ month'[e.chain] = month[e.chain]
    <2>1. e.chain \in Chains /\ e.month \in Nat /\ e.month < month[e.chain]
      BY DEF BookInv, BookTyped, Entry, NoMonthIsSkipped
    <2>2. month[e.chain] # 0
      BY <2>1 DEF BookInv, BookTyped
    <2> QED
      BY <2>1, <2>2
  <1>2. BookTyped' /\ PaidAtMostOnce'
    BY DEF BookInv, BookTyped, PaidAtMostOnce
  <1>3. NoMonthIsSkipped'
    BY <1>1 DEF BookInv, NoMonthIsSkipped
  <1> QED
    BY <1>2, <1>3

LEMMA HouseStarts ==
    ASSUME FirstMonths \subseteq Nat, BookInv, NEW m \in FirstMonths, StartHouse(m)
    PROVE  BookInv'
  <1>1. month \in [Chains -> Nat] /\ House \in Chains /\ month[House] = 0
    BY DEF BookInv, BookTyped, StartHouse, Started, Chains
  <1>2. /\ month' \in [Chains -> Nat] /\ UNCHANGED book
        /\ \A c \in Chains : month'[c] = month[c] \/ month[c] = 0
    BY <1>1 DEF StartHouse
  <1>3. HouseStartsFirst'
    BY <1>1 DEF BookInv, HouseStartsFirst, Started, StartHouse, Chains
  <1> QED
    BY <1>2, <1>3, MonthsStart DEF BookInv

LEMMA MoneyMoves ==
    ASSUME BookInv, NEW C \in SUBSET Producers, NEW R \in SUBSET Policies,
           MoveMoney(C, R)
    PROVE  BookInv'
  <1>1. month \in [Chains -> Nat] /\ House \in Chains /\ C \subseteq Chains
    BY DEF BookInv, BookTyped, Chains
  <1>2. /\ month' \in [Chains -> Nat] /\ UNCHANGED book
        /\ \A c \in Chains : month'[c] = month[c] \/ month[c] = 0
    BY <1>1 DEF MoveMoney, Started
  <1>3. HouseStartsFirst'
    BY <1>1 DEF BookInv, HouseStartsFirst, Started, MoveMoney
  <1> QED
    BY <1>2, <1>3, MonthsStart DEF BookInv

-----------------------------------------------------------------------------
(* A payout *)

LEMMA PaysOut ==
    ASSUME BookInv, NEW C \in SUBSET Chains, NEW due \in [C -> SUBSET Policies],
           NEW assigned \in [Policies -> Producers \cup {Unassigned}],
           PayOut(C, due, assigned)
    PROVE  BookInv'
  <1>1. /\ month \in [Chains -> Nat] /\ book \subseteq Entry
        /\ month' = [c \in Chains |-> IF c \in C THEN month[c] + 1 ELSE month[c]]
        /\ book' = book \cup Entries(C, due, assigned)
    BY DEF BookInv, BookTyped, PayOut
  <1>2. \A c \in C : /\ due[c] # {} /\ due[c] \subseteq Policies
                     /\ due[c] \cap PaidOut(c) = {}
                     /\ c \in Chains /\ month'[c] = month[c] + 1
    BY <1>1 DEF PayOut
  <1>3. \A e : e \in book' <=>
            \/ e \in book
            \/ \E c \in C : \E p \in due[c] :
                   e = [chain |-> c, month |-> month[c], policy |-> p,
                        producer |-> assigned[p]]
    BY <1>1, NewEntries DEF BookInv
  <1>4. BookTyped'
    <2>1. month' \in [Chains -> Nat]
      BY <1>1
    <2>2. ASSUME NEW e \in book'
          PROVE  e \in Entry
      BY <1>1, <1>2, <1>3, <2>2 DEF Entry
    <2> QED
      BY <2>1, <2>2 DEF BookTyped
  <1>5. PaidAtMostOnce'
    <2> SUFFICES ASSUME NEW e \in book', NEW f \in book',
                        e.chain = f.chain, e.policy = f.policy
                 PROVE  e = f
      BY DEF PaidAtMostOnce
    <2>1. ASSUME NEW x \in book, NEW c \in C, NEW p \in due[c],
                 x.chain = c, x.policy = p
          PROVE  FALSE
      <3>1. p \in PaidOut(c)
        BY <2>1 DEF PaidOut
      <3> QED
        BY <1>2, <3>1
    <2>2. CASE e \in book /\ f \in book
      BY <2>2 DEF BookInv, PaidAtMostOnce
    <2>3. CASE e \notin book /\ f \notin book
      BY <1>3, <2>3
    <2>4. CASE e \in book /\ f \notin book
      BY <1>3, <2>1, <2>4
    <2>5. CASE e \notin book /\ f \in book
      BY <1>3, <2>1, <2>5
    <2> QED
      BY <2>2, <2>3, <2>4, <2>5
  <1>6. NoMonthIsSkipped'
    <2> SUFFICES ASSUME NEW e \in book'
                 PROVE  /\ e.month < month'[e.chain]
                        /\ \A m \in e.month .. month'[e.chain] - 1 :
                              \E f \in book' : f.chain = e.chain /\ f.month = m
      BY DEF NoMonthIsSkipped
    <2>1. ASSUME NEW c \in C
          PROVE  \E f \in book' : f.chain = c /\ f.month = month[c]
      <3>1. PICK p \in due[c] : TRUE
        BY <1>2
      <3> DEFINE f == [chain |-> c, month |-> month[c], policy |-> p,
                       producer |-> assigned[p]]
      <3>2. f \in book'
        BY <1>3, <3>1
      <3>3. f.chain = c /\ f.month = month[c]
        OBVIOUS
      <3> HIDE DEF f
      <3> QED
        BY <3>2, <3>3
    <2>2. CASE e \in book
      <3>1. /\ e.chain \in Chains /\ e.month \in Nat
            /\ e.month < month[e.chain] /\ month[e.chain] \in Nat
            /\ \A m \in e.month .. month[e.chain] - 1 :
                  \E f \in book : f.chain = e.chain /\ f.month = m
        BY <1>1, <2>2 DEF Entry, BookInv, NoMonthIsSkipped
      <3>2. CASE e.chain \in C
        <4>1. month'[e.chain] = month[e.chain] + 1
          BY <1>2, <3>2
        <4>2. ASSUME NEW m \in e.month .. month'[e.chain] - 1
              PROVE  \E f \in book' : f.chain = e.chain /\ f.month = m
          <5>1. m \in e.month .. month[e.chain] - 1 \/ m = month[e.chain]
            BY <3>1, <4>1
          <5> QED
            BY <1>1, <2>1, <3>1, <3>2, <5>1
        <4> QED
          BY <3>1, <4>1, <4>2
      <3>3. CASE e.chain \notin C
        <4>1. month'[e.chain] = month[e.chain]
          BY <1>1, <3>1, <3>3
        <4> QED
          BY <1>1, <3>1, <4>1
      <3> QED
        BY <3>2, <3>3
    <2>3. CASE e \notin book
      <3>1. e.chain \in C /\ e.month = month[e.chain]
        BY <1>3, <2>3
      <3>2. /\ month'[e.chain] = month[e.chain] + 1
            /\ month[e.chain] \in Nat
        BY <1>1, <1>2, <3>1
      <3>3. ASSUME NEW m \in e.month .. month'[e.chain] - 1
            PROVE  m = month[e.chain]
        BY <3>1, <3>2
      <3> QED
        BY <2>1, <3>1, <3>2, <3>3
    <2> QED
      BY <2>2, <2>3
  <1>7. HouseStartsFirst'
    <2>1. ASSUME NEW c \in Chains, month[c] # 0
          PROVE  month'[c] # 0
      BY <1>1, <2>1
    <2>2. ASSUME NEW c \in Chains, month[c] = 0
          PROVE  month'[c] = 0
      BY <1>1, <2>2 DEF PayOut, Started
    <2>3. House \in Chains
      BY DEF Chains
    <2> QED
      BY <2>1, <2>2, <2>3 DEF BookInv, HouseStartsFirst, Started
  <1> QED
    BY <1>4, <1>5, <1>6, <1>7 DEF BookInv

-----------------------------------------------------------------------------
LEMMA BookIsKept ==
    ASSUME FirstMonths \subseteq Nat
    PROVE  BookSpec => []BookInv
  <1>1. BookInit => BookInv
    BY DEF BookInit, BookInv, BookTyped, PaidAtMostOnce, NoMonthIsSkipped,
           HouseStartsFirst, Started
  <1>2. BookInv /\ BookNext => BookInv'
    BY HouseStarts, MoneyMoves, PaysOut DEF BookNext
  <1>3. BookInv /\ UNCHANGED bookVars => BookInv'
    BY DEF bookVars, BookInv, BookTyped, PaidAtMostOnce, NoMonthIsSkipped,
           HouseStartsFirst, Started
  <1> QED
    BY <1>1, <1>2, <1>3, PTL DEF BookSpec

(* README.md 739-798: no chain pays a policy out twice.                    *)
THEOREM BookPaysOnce ==
    ASSUME FirstMonths \subseteq Nat
    PROVE  BookSpec => []PaidAtMostOnce
  BY BookIsKept, PTL DEF BookInv

(* README.md 739-798: a chain closes its months one by one, each with      *)
(* something on it.                                                        *)
THEOREM BookHasNoGaps ==
    ASSUME FirstMonths \subseteq Nat
    PROVE  BookSpec => []NoMonthIsSkipped
  BY BookIsKept, PTL DEF BookInv

(* README.md 739-798: no producer has a month before House has one.        *)
THEOREM BookStartsWithHouse ==
    ASSUME FirstMonths \subseteq Nat
    PROVE  BookSpec => []HouseStartsFirst
  BY BookIsKept, PTL DEF BookInv

=============================================================================
