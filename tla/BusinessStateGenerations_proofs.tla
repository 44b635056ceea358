--------------------- MODULE BusinessStateGenerations_proofs ---------------------
(***************************************************************************)
(* Theorems about BusinessStateGenerations for every set of generations,   *)
(* contents and sessions.                                                  *)
(***************************************************************************)
EXTENDS BusinessStateGenerations, TLAPS

-----------------------------------------------------------------------------
(* The inductive invariant *)

Holds(a) == admin[a].pc \in {"holding", "ready"}

(* FOR UPDATE on the control row excludes FOR UPDATE and FOR SHARE. *)
ControlIsExclusive ==
    /\ \A a, b \in Admins : Holds(a) /\ Holds(b) => a = b
    /\ \A a \in Admins, w \in Writers : Holds(a) => writer[w].pc # "writing"

(* A write past the guard goes to the active generation; an update to the  *)
(* generation of the row it read.                                          *)
WritesAreGuarded ==
    \A w \in Writers :
        /\ writer[w].pc # "idle" => writer[w].row \in Born
        /\ writer[w].pc \in {"guard", "writing"} =>
              /\ writer[w].op \in Operations
              /\ writer[w].target \in Generations
              /\ writer[w].op \notin Inserts => writer[w].target = writer[w].row
              /\ writer[w].op = "house" => writer[w].house
        /\ writer[w].pc = "writing" => writer[w].target = active

(* A House sheet has one holder, and its month may still be closed. *)
HouseIsExclusive ==
    /\ \A w \in Writers : writer[w].house =>
          writer[w].pc # "idle" /\ book[writer[w].row].month < MaxMonth
    /\ \A v, w \in Writers :
          writer[v].house /\ writer[w].house /\ writer[v].row = writer[w].row => v = w

(* What a session read under the control row is still so. *)
ManifestsAreCurrent ==
    \A a \in Admins :
        /\ admin[a].pc # "idle" => admin[a].goal # None
        /\ admin[a].pc = "ready" => admin[a].manifest = book[active]

IInv ==
    /\ TypeOK
    /\ ControlIsExclusive
    /\ WritesAreGuarded
    /\ HouseIsExclusive
    /\ ManifestsAreCurrent
    /\ LinksStayInOneGeneration
    /\ SealedGenerationsVerify

-----------------------------------------------------------------------------
(* The invariant is inductive: transactions that write business rows *)

(* A new holder of a House sheet found it free. *)
LEMMA ReadKeepsInvariant ==
    ASSUME IInv, NEW w \in Writers, NEW g \in Generations, NEW house \in BOOLEAN,
           Read(w, g, house)
    PROVE  IInv'
  <1> USE GenerationAssumptions DEF IInv
  <1>1. TypeOK'
    <2>1. writer[w] \in Writer
      BY DEF TypeOK
    <2>2. [writer[w] EXCEPT !.pc = "reading", !.row = g, !.house = house] \in Writer
      BY <2>1 DEF Read, Writer, Born
    <2>3. writer' = [writer EXCEPT ![w] = [writer[w] EXCEPT !.pc = "reading", !.row = g, !.house = house]]
      BY DEF Read, TypeOK
    <2>4. writer' \in [Writers -> Writer]
      BY <2>2, <2>3 DEF TypeOK
    <2>5. QED
      BY <2>4 DEF Read, TypeOK
  <1>2. ControlIsExclusive'
    BY DEF Read, TypeOK, ControlIsExclusive, ControlHeld, Holds, Writer, IdleWriter
  <1>3. WritesAreGuarded'
    BY DEF Read, TypeOK, WritesAreGuarded, Born, Unborn, Writer, IdleWriter, Inserts, Operations
  <1>4. HouseIsExclusive'
    BY DEF Read, TypeOK, HouseIsExclusive, WritesAreGuarded, Born, Unborn, HouseTaken, HouseHolders, Writer, IdleWriter
  <1>5. ManifestsAreCurrent' /\ LinksStayInOneGeneration' /\ SealedGenerationsVerify'
    BY DEF Read, ManifestsAreCurrent, LinksStayInOneGeneration, SealedGenerationsVerify
  <1>6. QED
    BY <1>1, <1>2, <1>3, <1>4, <1>5

(* An insert takes the active generation, an update that of its row. *)
LEMMA WriteKeepsInvariant ==
    ASSUME IInv, NEW w \in Writers, NEW op \in Operations, Write(w, op)
    PROVE  IInv'
  <1> USE GenerationAssumptions DEF IInv
  <1>1. TypeOK'
    <2>1. writer[w] \in Writer
      BY DEF TypeOK
    <2>2. [writer[w] EXCEPT !.pc = "guard", !.op = op,
                            !.target = IF op \in Inserts THEN active ELSE writer[w].row] \in Writer
      BY <2>1 DEF Write, Writer, Inserts, Operations, TypeOK, WritesAreGuarded, Born
    <2>3. writer' = [writer EXCEPT ![w] = [writer[w] EXCEPT !.pc = "guard", !.op = op,
                            !.target = IF op \in Inserts THEN active ELSE writer[w].row]]
      BY DEF Write, TypeOK
    <2>4. writer' \in [Writers -> Writer]
      BY <2>2, <2>3 DEF TypeOK
    <2>5. QED
      BY <2>4 DEF Write, TypeOK
  <1>2. ControlIsExclusive'
    BY DEF Write, TypeOK, ControlIsExclusive, ControlHeld, Holds, Writer, IdleWriter
  <1>3. WritesAreGuarded'
    BY DEF Write, TypeOK, WritesAreGuarded, Born, Unborn, Writer, IdleWriter, Inserts, Operations
  <1>4. HouseIsExclusive'
    BY DEF Write, TypeOK, HouseIsExclusive, WritesAreGuarded, Born, Unborn, HouseTaken, HouseHolders, Writer, IdleWriter
  <1>5. ManifestsAreCurrent' /\ LinksStayInOneGeneration' /\ SealedGenerationsVerify'
    BY DEF Write, ManifestsAreCurrent, LinksStayInOneGeneration, SealedGenerationsVerify
  <1>6. QED
    BY <1>1, <1>2, <1>3, <1>4, <1>5

(* The guard lets a write through only where it belongs. *)
LEMMA PassGuardKeepsInvariant ==
    ASSUME IInv, NEW w \in Writers, PassGuard(w)
    PROVE  IInv'
  <1> USE GenerationAssumptions DEF IInv
  <1>1. TypeOK'
    <2>1. writer[w] \in Writer
      BY DEF TypeOK
    <2>2. [writer[w] EXCEPT !.pc = "writing"] \in Writer /\ IdleWriter \in Writer
      BY <2>1 DEF Writer, IdleWriter
    <2>3. writer' \in [Writers -> Writer]
      BY <2>2 DEF PassGuard, TypeOK
    <2>4. QED
      BY <2>3 DEF PassGuard, TypeOK
  <1>2. ControlIsExclusive'
    BY DEF PassGuard, TypeOK, ControlIsExclusive, ControlHeld, Holds, Writer, IdleWriter
  <1>3. WritesAreGuarded'
    BY DEF PassGuard, TypeOK, WritesAreGuarded, Born, Unborn, Writer, IdleWriter, Inserts, Operations
  <1>4. HouseIsExclusive'
    BY DEF PassGuard, TypeOK, HouseIsExclusive, WritesAreGuarded, Born, Unborn, HouseTaken, HouseHolders, Writer, IdleWriter
  <1>5. ManifestsAreCurrent' /\ LinksStayInOneGeneration' /\ SealedGenerationsVerify'
    BY DEF PassGuard, ManifestsAreCurrent, LinksStayInOneGeneration, SealedGenerationsVerify
  <1>6. QED
    BY <1>1, <1>2, <1>3, <1>4, <1>5

(* A transaction rolled back leaves nothing. *)
LEMMA RollbackKeepsInvariant ==
    ASSUME IInv, NEW w \in Writers, Rollback(w)
    PROVE  IInv'
  <1> USE GenerationAssumptions DEF IInv
  <1>1. TypeOK'
    BY DEF Rollback, TypeOK, Writer, IdleWriter, Inserts, Operations, Born, Unborn
  <1>2. ControlIsExclusive'
    BY DEF Rollback, TypeOK, ControlIsExclusive, ControlHeld, Holds, Writer, IdleWriter
  <1>3. WritesAreGuarded'
    BY DEF Rollback, TypeOK, WritesAreGuarded, Born, Unborn, Writer, IdleWriter, Inserts, Operations
  <1>4. HouseIsExclusive'
    BY DEF Rollback, TypeOK, HouseIsExclusive, WritesAreGuarded, Born, Unborn, HouseTaken, HouseHolders, Writer, IdleWriter
  <1>5. ManifestsAreCurrent' /\ LinksStayInOneGeneration' /\ SealedGenerationsVerify'
    BY DEF Rollback, ManifestsAreCurrent, LinksStayInOneGeneration, SealedGenerationsVerify
  <1>6. QED
    BY <1>1, <1>2, <1>3, <1>4, <1>5


(* A commit works in the active book, or not at all; only the holder of    *)
(* the House sheet moves the month.                                        *)
CommitsInActive(w) ==
    \/ UNCHANGED book
    \/ \E b \in Promise!OwnBook :
          /\ book' = [book EXCEPT ![active] = b]
          /\ b.month # book[active].month => writer[w].house /\ writer[w].row = active

LEMMA CommitEffect ==
    ASSUME IInv, NEW w \in Writers, Commit(w)
    PROVE  CommitsInActive(w)
  <1> USE GenerationAssumptions
  <1>1. /\ writer[w].target = active /\ active \in Generations
        /\ writer[w].op \in Operations
        /\ writer[w].row \in Generations
        /\ writer[w].op \notin Inserts => writer[w].row = active
        /\ writer[w].op = "house" => writer[w].house /\ book[active].month < MaxMonth
    BY DEF IInv, TypeOK, WritesAreGuarded, HouseIsExclusive, Commit, Born, Inserts
  <1>2. book[active] \in Promise!Book /\ book[active].strays = {}
    BY <1>1 DEF IInv, TypeOK, LinksStayInOneGeneration
  <1>3. ASSUME NEW b \in Outcomes(w, book[active]),
               ~(writer[w].op = "request" /\ writer[w].row # active)
        PROVE  /\ b \in Promise!OwnBook
               /\ b.month # book[active].month => writer[w].house /\ writer[w].row = active
    <2>1. CASE writer[w].op = "work"
      BY <1>1, <1>2, <2>1, <1>3 DEF Outcomes, Promise!OwnBook, Promise!Book
    <2>2. CASE writer[w].op = "targets"
      BY <1>1, <1>2, <2>2, <1>3 DEF Outcomes, Promise!OwnBook, Promise!Book
    <2>3. CASE writer[w].op = "request"
      <3>1. {writer[w].row} \ {writer[w].target} = {}
        BY <1>1, <1>3, <2>3
      <3>2. PICK c \in Contents :
                b = [book[active] EXCEPT !.work = c,
                        !.strays = @ \cup ({writer[w].row} \ {writer[w].target})]
        BY <1>3, <2>3 DEF Outcomes
      <3>3. QED
        BY <1>2, <3>1, <3>2 DEF Promise!OwnBook, Promise!Book
    <2>4. CASE writer[w].op = "house"
      <3>1. writer[w].house /\ writer[w].row = active
        BY <1>1, <2>4 DEF Inserts
      <3>2. CASE book[active].month = 0
        BY <1>1, <1>2, <1>3, <2>4, <3>1, <3>2 DEF Outcomes, Promise!OwnBook, Promise!Book
      <3>3. CASE book[active].month # 0
        BY <1>1, <1>2, <1>3, <2>4, <3>1, <3>3 DEF Outcomes, Promise!OwnBook, Promise!Book
      <3>4. QED
        BY <3>2, <3>3
    <2>5. QED
      BY <1>1, <2>1, <2>2, <2>3, <2>4 DEF Operations, Inserts
  <1>4. QED
    BY <1>1, <1>3 DEF Commit, CommitsInActive

(* Nobody holds the control row when a write commits, and no sealed book   *)
(* is written.                                                             *)
LEMMA CommitKeepsInvariant ==
    ASSUME IInv, NEW w \in Writers, Commit(w)
    PROVE  IInv'
  <1> USE GenerationAssumptions DEF IInv
  <1>1. CommitsInActive(w)
    BY CommitEffect
  <1>2. /\ writer[w].pc = "writing"
        /\ writer' = [writer EXCEPT ![w] = IdleWriter]
        /\ UNCHANGED <<active, generation, admin>>
    BY DEF Commit
  <1>3. \A a \in Admins : ~Holds(a)
    BY <1>2 DEF ControlIsExclusive
  <1>4. TypeOK'
    BY <1>1, <1>2 DEF CommitsInActive, TypeOK, Writer, IdleWriter, Promise!OwnBook
  <1>5. ControlIsExclusive'
    BY <1>2, <1>3 DEF TypeOK, ControlIsExclusive, Holds
  <1>6. WritesAreGuarded'
    BY <1>2 DEF TypeOK, WritesAreGuarded, Born, Unborn, IdleWriter
  <1>7. HouseIsExclusive'
    <2>1. \A v \in Writers : writer'[v].house => v # w /\ writer'[v] = writer[v]
      BY <1>2 DEF TypeOK, IdleWriter
    <2>2. ASSUME NEW v \in Writers, writer'[v].house
          PROVE  book'[writer[v].row].month = book[writer[v].row].month
      BY <1>1, <2>1, <2>2 DEF CommitsInActive, TypeOK, HouseIsExclusive, WritesAreGuarded, Born
    <2>3. QED
      BY <2>1, <2>2 DEF HouseIsExclusive
  <1>8. ManifestsAreCurrent'
    BY <1>2, <1>3 DEF ManifestsAreCurrent, Holds
  <1>9. LinksStayInOneGeneration'
    BY <1>1, <1>2 DEF CommitsInActive, TypeOK, LinksStayInOneGeneration, Promise!OwnBook
  <1>10. SealedGenerationsVerify'
    BY <1>1, <1>2 DEF CommitsInActive, TypeOK, SealedGenerationsVerify
  <1>11. QED
    BY <1>4, <1>5, <1>6, <1>7, <1>8, <1>9, <1>10

-----------------------------------------------------------------------------
(* The invariant is inductive: transactions that switch the generation *)

(* A session that asks holds nothing yet. *)
LEMMA AskKeepsInvariant ==
    ASSUME IInv, NEW a \in Admins, NEW goal \in Generations \cup {Reset}, Ask(a, goal)
    PROVE  IInv'
  <1> USE GenerationAssumptions DEF IInv
  <1>1. TypeOK'
    BY DEF Ask, TypeOK, Admin, IdleAdmin, Born, Unborn
  <1>2. ControlIsExclusive'
    BY DEF Ask, TypeOK, ControlIsExclusive, ControlHeld, ControlShared, Holds, Admin, IdleAdmin
  <1>3. WritesAreGuarded' /\ HouseIsExclusive'
    BY DEF Ask, WritesAreGuarded, HouseIsExclusive, Born, Unborn
  <1>4. ManifestsAreCurrent'
    BY DEF Ask, TypeOK, ManifestsAreCurrent, Admin, IdleAdmin
  <1>5. LinksStayInOneGeneration' /\ SealedGenerationsVerify'
    BY DEF Ask, LinksStayInOneGeneration, SealedGenerationsVerify
  <1>6. QED
    BY <1>1, <1>2, <1>3, <1>4, <1>5

(* The control row is free when it is taken. *)
LEMMA HoldControlKeepsInvariant ==
    ASSUME IInv, NEW a \in Admins, HoldControl(a)
    PROVE  IInv'
  <1> USE GenerationAssumptions DEF IInv
  <1>1. TypeOK'
    BY DEF HoldControl, TypeOK, Admin, IdleAdmin, Born, Unborn
  <1>2. ControlIsExclusive'
    BY DEF HoldControl, TypeOK, ControlIsExclusive, ControlHeld, ControlShared, Holds, Admin, IdleAdmin
  <1>3. WritesAreGuarded' /\ HouseIsExclusive'
    BY DEF HoldControl, WritesAreGuarded, HouseIsExclusive, Born, Unborn
  <1>4. ManifestsAreCurrent'
    BY DEF HoldControl, TypeOK, ManifestsAreCurrent, Admin, IdleAdmin
  <1>5. LinksStayInOneGeneration' /\ SealedGenerationsVerify'
    BY DEF HoldControl, LinksStayInOneGeneration, SealedGenerationsVerify
  <1>6. QED
    BY <1>1, <1>2, <1>3, <1>4, <1>5

(* The manifest is the book at that moment. *)
LEMMA ReadManifestKeepsInvariant ==
    ASSUME IInv, NEW a \in Admins, ReadManifest(a)
    PROVE  IInv'
  <1> USE GenerationAssumptions DEF IInv
  <1>1. TypeOK'
    BY DEF ReadManifest, TypeOK, Admin, IdleAdmin, Born, Unborn
  <1>2. ControlIsExclusive'
    BY DEF ReadManifest, TypeOK, ControlIsExclusive, ControlHeld, ControlShared, Holds, Admin, IdleAdmin
  <1>3. WritesAreGuarded' /\ HouseIsExclusive'
    BY DEF ReadManifest, WritesAreGuarded, HouseIsExclusive, Born, Unborn
  <1>4. ManifestsAreCurrent'
    BY DEF ReadManifest, TypeOK, ManifestsAreCurrent, Admin, IdleAdmin
  <1>5. LinksStayInOneGeneration' /\ SealedGenerationsVerify'
    BY DEF ReadManifest, LinksStayInOneGeneration, SealedGenerationsVerify
  <1>6. QED
    BY <1>1, <1>2, <1>3, <1>4, <1>5

(* A refusal changes nothing. *)
LEMMA RefuseRestoreKeepsInvariant ==
    ASSUME IInv, NEW a \in Admins, RefuseRestore(a)
    PROVE  IInv'
  <1> USE GenerationAssumptions DEF IInv
  <1>1. TypeOK'
    BY DEF RefuseRestore, TypeOK, Admin, IdleAdmin, Born, Unborn
  <1>2. ControlIsExclusive'
    BY DEF RefuseRestore, TypeOK, ControlIsExclusive, ControlHeld, ControlShared, Holds, Admin, IdleAdmin
  <1>3. WritesAreGuarded' /\ HouseIsExclusive'
    BY DEF RefuseRestore, WritesAreGuarded, HouseIsExclusive, Born, Unborn
  <1>4. ManifestsAreCurrent'
    BY DEF RefuseRestore, TypeOK, ManifestsAreCurrent, Admin, IdleAdmin
  <1>5. LinksStayInOneGeneration' /\ SealedGenerationsVerify'
    BY DEF RefuseRestore, LinksStayInOneGeneration, SealedGenerationsVerify
  <1>6. QED
    BY <1>1, <1>2, <1>3, <1>4, <1>5

(* A switch given up changes nothing. *)
LEMMA AbandonKeepsInvariant ==
    ASSUME IInv, NEW a \in Admins, Abandon(a)
    PROVE  IInv'
  <1> USE GenerationAssumptions DEF IInv
  <1>1. TypeOK'
    BY DEF Abandon, TypeOK, Admin, IdleAdmin, Born, Unborn
  <1>2. ControlIsExclusive'
    BY DEF Abandon, TypeOK, ControlIsExclusive, ControlHeld, ControlShared, Holds, Admin, IdleAdmin
  <1>3. WritesAreGuarded' /\ HouseIsExclusive'
    BY DEF Abandon, WritesAreGuarded, HouseIsExclusive, Born, Unborn
  <1>4. ManifestsAreCurrent'
    BY DEF Abandon, TypeOK, ManifestsAreCurrent, Admin, IdleAdmin
  <1>5. LinksStayInOneGeneration' /\ SealedGenerationsVerify'
    BY DEF Abandon, LinksStayInOneGeneration, SealedGenerationsVerify
  <1>6. QED
    BY <1>1, <1>2, <1>3, <1>4, <1>5

(* What a switch reads about the active generation before it commits. *)
LEMMA SwitchFacts ==
    ASSUME IInv, NEW a \in Admins, admin[a].pc = "ready"
    PROVE  /\ active \in Generations
           /\ book[active] \in Promise!Book /\ book[active].strays = {}
           /\ admin[a].manifest = book[active]
           /\ generation[active].status = "active"
           /\ Sealed(a) \in Generation /\ Sealed(a).status = "sealed"
           /\ Sealed(a).checksum = book[active]
           /\ Sealed(a).baseline = generation[active].baseline
           /\ \A w \in Writers : writer[w].pc # "writing"
           /\ \A b \in Admins \ {a} : ~Holds(b)
  <1>1. /\ active \in Generations
        /\ book[active] \in Promise!Book /\ book[active].strays = {}
        /\ admin[a].manifest = book[active]
        /\ generation[active] \in Generation /\ generation[active].status = "active"
    BY DEF IInv, TypeOK, LinksStayInOneGeneration, ManifestsAreCurrent
  <1>2. /\ Sealed(a) \in Generation /\ Sealed(a).status = "sealed"
        /\ Sealed(a).checksum = book[active]
        /\ Sealed(a).baseline = generation[active].baseline
    BY <1>1 DEF Sealed, Generation
  <1>3. QED
    BY <1>1, <1>2 DEF IInv, ControlIsExclusive, Holds

(* The book of a new generation is well formed and links nowhere else. *)
LEMMA OpenedBook ==
    ASSUME NEW b \in Promise!Book, NEW cleared \in BOOLEAN
    PROVE  Promise!Opened(b, cleared) \in Promise!OwnBook
  BY GenerationAssumptions DEF Promise!Opened, Promise!OwnBook, Promise!Book

(* A switch from active to h, whose book and baseline are then c. *)
SwitchesTo(a, h, c) ==
    /\ h \in Generations /\ h # active
    /\ c \in Promise!OwnBook
    /\ book' = [book EXCEPT ![h] = c]
    /\ generation' = [generation EXCEPT
          ![active] = Sealed(a),
          ![h] = [status |-> "active", baseline |-> c, checksum |-> None]]
    /\ active' = h
    /\ admin' = [admin EXCEPT ![a] = IdleAdmin]
    /\ UNCHANGED writer
    /\ h \in Born => c = book[h]

LEMMA ResetSwitches ==
    ASSUME IInv, NEW a \in Admins, NEW g \in Generations, NEW cleared \in BOOLEAN,
           CommitReset(a, g, cleared)
    PROVE  SwitchesTo(a, g, Promise!Opened(book[active], cleared))
  <1>1. admin[a].pc = "ready" /\ g \in Unborn
    BY DEF CommitReset
  <1>2. g # active /\ g \notin Born
    BY <1>1 DEF Unborn, Born, IInv, TypeOK
  <1>3. Promise!Opened(book[active], cleared) \in Promise!OwnBook
    BY <1>1, SwitchFacts, OpenedBook
  <1>4. QED
    BY <1>2, <1>3 DEF CommitReset, SwitchesTo

LEMMA RestoreSwitches ==
    ASSUME IInv, NEW a \in Admins, CommitRestore(a)
    PROVE  SwitchesTo(a, admin[a].goal, book[admin[a].goal])
  <1> DEFINE g == admin[a].goal
  <1>1. g \in Generations /\ generation[g].status = "sealed"
    BY DEF CommitRestore, Restorable, IInv, TypeOK, Admin, ManifestsAreCurrent
  <1>2. g # active
    BY <1>1 DEF IInv, TypeOK
  <1>3. book[g] \in Promise!OwnBook /\ book' = [book EXCEPT ![g] = book[g]]
    BY <1>1 DEF CommitRestore, IInv, TypeOK, LinksStayInOneGeneration, Promise!OwnBook
  <1>4. QED
    BY <1>1, <1>2, <1>3 DEF CommitRestore, SwitchesTo

(* Both switches happen with no write under way and no other switch. *)
LEMMA SwitchKeepsInvariant ==
    ASSUME IInv, NEW a \in Admins, NEW h, NEW c,
           admin[a].pc = "ready", SwitchesTo(a, h, c)
    PROVE  IInv'
  <1> USE GenerationAssumptions DEF IInv
  <1>1. /\ h \in Generations /\ h # active /\ active \in Generations
        /\ c \in Promise!Book /\ c.strays = {} /\ c # None
    BY DEF SwitchesTo, Promise!OwnBook, TypeOK
  <1>2. /\ Sealed(a) \in Generation /\ Sealed(a).status = "sealed"
        /\ Sealed(a).checksum = book[active]
        /\ Sealed(a).baseline = generation[active].baseline
        /\ generation[active].status = "active"
        /\ \A w \in Writers : writer[w].pc # "writing"
        /\ \A b \in Admins \ {a} : ~Holds(b)
    BY SwitchFacts
  <1>3. /\ generation'[active] = Sealed(a)
        /\ generation'[h] = [status |-> "active", baseline |-> c, checksum |-> None]
        /\ \A g \in Generations \ {active, h} : generation'[g] = generation[g]
        /\ generation' \in [Generations -> Generation]
    BY <1>1, <1>2 DEF SwitchesTo, TypeOK, Generation
  <1>4. /\ book'[h] = c
        /\ \A g \in Generations \ {h} : book'[g] = book[g]
        /\ book' \in [Generations -> Promise!Book]
    BY <1>1 DEF SwitchesTo, TypeOK
  <1>5. /\ admin' \in [Admins -> Admin]
        /\ \A b \in Admins : admin'[b] = IF b = a THEN IdleAdmin ELSE admin[b]
    BY DEF SwitchesTo, TypeOK, Admin, IdleAdmin
  <1>6. TypeOK'
    BY <1>1, <1>2, <1>3, <1>4, <1>5 DEF TypeOK, SwitchesTo
  <1>7. Born \subseteq Born'
    BY <1>1, <1>2, <1>3 DEF Born, Unborn
  <1>8. ControlIsExclusive'
    BY <1>2, <1>5 DEF ControlIsExclusive, Holds, SwitchesTo, IdleAdmin
  <1>9. WritesAreGuarded'
    BY <1>2, <1>7 DEF WritesAreGuarded, SwitchesTo
  <1>10. \A g \in Born : book'[g] = book[g]
    BY <1>1, <1>4 DEF SwitchesTo, Born
  <1>11. HouseIsExclusive'
    BY <1>10 DEF HouseIsExclusive, WritesAreGuarded, SwitchesTo
  <1>12. ManifestsAreCurrent'
    BY <1>2, <1>5 DEF ManifestsAreCurrent, Holds, IdleAdmin
  <1>13. LinksStayInOneGeneration'
    BY <1>1, <1>4 DEF LinksStayInOneGeneration
  <1>14. SealedGenerationsVerify'
    <2>1. ASSUME NEW g \in Generations, generation'[g].status = "sealed"
          PROVE  generation'[g].checksum = book'[g]
      <3>1. g # h
        BY <2>1, <1>3
      <3>2. QED
        BY <2>1, <3>1, <1>2, <1>3, <1>4 DEF SealedGenerationsVerify
    <2>2. QED
      BY <2>1 DEF SealedGenerationsVerify
  <1>15. QED
    BY <1>6, <1>8, <1>9, <1>11, <1>12, <1>13, <1>14

-----------------------------------------------------------------------------
(* The invariant *)

LEMMA InitEstablishesInvariant == Init => IInv
  <1> SUFFICES ASSUME Init PROVE IInv
    OBVIOUS
  <1> USE GenerationAssumptions
  <1>1. PICK b \in Promise!OwnBook :
          /\ book = [g \in Generations |-> IF g = First THEN b ELSE Promise!EmptyBook]
          /\ generation = [g \in Generations |->
                IF g = First
                THEN [status |-> "active", baseline |-> b, checksum |-> None]
                ELSE [status |-> "unborn", baseline |-> None, checksum |-> None]]
    BY DEF Init
  <1>2. /\ b \in Promise!Book /\ b.strays = {} /\ b # None
        /\ Promise!EmptyBook \in Promise!Book /\ Promise!EmptyBook.strays = {}
    BY DEF Promise!OwnBook, Promise!Book, Promise!EmptyBook
  <1>3. /\ active = First
        /\ writer = [w \in Writers |-> IdleWriter]
        /\ admin = [a \in Admins |-> IdleAdmin]
    BY DEF Init
  <1>4. IdleWriter \in Writer /\ IdleAdmin \in Admin
    BY DEF IdleWriter, IdleAdmin, Writer, Admin
  <1>5. TypeOK
    BY <1>1, <1>2, <1>3, <1>4 DEF TypeOK, Generation
  <1>6. ControlIsExclusive /\ WritesAreGuarded /\ HouseIsExclusive /\ ManifestsAreCurrent
    BY <1>3 DEF ControlIsExclusive, WritesAreGuarded, HouseIsExclusive, ManifestsAreCurrent,
                Holds, IdleWriter, IdleAdmin
  <1>7. LinksStayInOneGeneration /\ SealedGenerationsVerify
    BY <1>1, <1>2 DEF LinksStayInOneGeneration, SealedGenerationsVerify
  <1>8. QED
    BY <1>5, <1>6, <1>7 DEF IInv

LEMMA WriterKeepsInvariant ==
    ASSUME IInv, NEW w \in Writers, WriterStep(w)
    PROVE  IInv'
  <1>1. ASSUME NEW g \in Generations, NEW house \in BOOLEAN, Read(w, g, house) PROVE IInv'
    BY <1>1, ReadKeepsInvariant
  <1>2. ASSUME NEW op \in Operations, Write(w, op) PROVE IInv'
    BY <1>2, WriteKeepsInvariant
  <1>3. QED
    BY <1>1, <1>2, PassGuardKeepsInvariant, CommitKeepsInvariant, RollbackKeepsInvariant
       DEF WriterStep

LEMMA AdminKeepsInvariant ==
    ASSUME IInv, NEW a \in Admins, AdminStep(a)
    PROVE  IInv'
  <1>1. ASSUME NEW goal \in Generations \cup {Reset}, Ask(a, goal) PROVE IInv'
    BY <1>1, AskKeepsInvariant
  <1>2. ASSUME NEW g \in Generations, NEW cleared \in BOOLEAN, CommitReset(a, g, cleared)
        PROVE  IInv'
    <2>1. admin[a].pc = "ready"
      BY <1>2 DEF CommitReset
    <2>2. QED
      BY <1>2, <2>1, ResetSwitches, SwitchKeepsInvariant
  <1>3. ASSUME CommitRestore(a) PROVE IInv'
    <2>1. admin[a].pc = "ready"
      BY <1>3 DEF CommitRestore
    <2>2. QED
      BY <1>3, <2>1, RestoreSwitches, SwitchKeepsInvariant
  <1>4. QED
    BY <1>1, <1>2, <1>3, HoldControlKeepsInvariant, ReadManifestKeepsInvariant,
       RefuseRestoreKeepsInvariant, AbandonKeepsInvariant DEF AdminStep

LEMMA NextKeepsInvariant == IInv /\ [Next]_vars => IInv'
  <1> SUFFICES ASSUME IInv, [Next]_vars PROVE IInv'
    OBVIOUS
  <1>1. CASE \E w \in Writers : WriterStep(w)
    BY <1>1, WriterKeepsInvariant
  <1>2. CASE \E a \in Admins : AdminStep(a)
    BY <1>2, AdminKeepsInvariant
  <1>3. CASE BreakDeadlock
    BY <1>3, AbandonKeepsInvariant, RollbackKeepsInvariant DEF BreakDeadlock
  <1>4. CASE UNCHANGED vars
    BY <1>4 DEF vars, IInv, TypeOK, ControlIsExclusive, Holds, WritesAreGuarded, Born, Unborn,
                HouseIsExclusive, ManifestsAreCurrent, LinksStayInOneGeneration,
                SealedGenerationsVerify
  <1>5. QED
    BY <1>1, <1>2, <1>3, <1>4 DEF Next

(* Locks, guarded writes and manifests stay as the transitions need them. *)
THEOREM InvariantHolds == Spec => []IInv
  <1>1. QED
    BY InitEstablishesInvariant, NextKeepsInvariant, PTL DEF Spec

(* The control row points to the one active generation, which has a        *)
(* baseline, and every row keeps its columns.                              *)
THEOREM TypeCorrect == Spec => []TypeOK
  <1>1. IInv => TypeOK
    BY DEF IInv
  <1>2. QED
    BY <1>1, InvariantHolds, PTL

(* No write in flight reaches a sealed generation: a restore never fails   *)
(* its checksum.                                                           *)
THEOREM SealedGenerationsStayVerified == Spec => []SealedGenerationsVerify
  <1>1. IInv => SealedGenerationsVerify
    BY DEF IInv
  <1>2. QED
    BY <1>1, InvariantHolds, PTL

(* Linked rows share a generation whatever a transaction read before the   *)
(* switch.                                                                 *)
THEOREM LinksNeverCross == Spec => []LinksStayInOneGeneration
  <1>1. IInv => LinksStayInOneGeneration
    BY DEF IInv
  <1>2. QED
    BY <1>1, InvariantHolds, PTL

-----------------------------------------------------------------------------
(* The promise *)

LEMMA InitIsPromised == Init => Promise!BookInit
  <1> SUFFICES ASSUME Init PROVE Promise!BookInit
    OBVIOUS
  <1>1. PICK b \in Promise!OwnBook :
          /\ book = [g \in Generations |-> IF g = First THEN b ELSE Promise!EmptyBook]
          /\ generation = [g \in Generations |->
                IF g = First
                THEN [status |-> "active", baseline |-> b, checksum |-> None]
                ELSE [status |-> "unborn", baseline |-> None, checksum |-> None]]
    BY DEF Init
  <1>2. [g \in Generations |-> generation[g].baseline]
           = [g \in Generations |-> IF g = First THEN b ELSE None]
    BY <1>1
  <1>3. QED
    BY <1>1, <1>2 DEF Init, Promise!BookInit

(* The steps a session takes before it commits are invisible. *)
LEMMA QuietStep ==
    ASSUME UNCHANGED <<active, book, generation>>
    PROVE  UNCHANGED Promise!bookVars
  BY DEF Promise!bookVars

LEMMA CommitIsWork ==
    ASSUME IInv, NEW w \in Writers, Commit(w)
    PROVE  Promise!Work \/ UNCHANGED Promise!bookVars
  <1>1. UNCHANGED <<active, generation>>
    BY DEF Commit
  <1>2. CommitsInActive(w)
    BY CommitEffect
  <1>3. QED
    BY <1>1, <1>2 DEF CommitsInActive, Promise!Work, Promise!bookVars

LEMMA ResetIsStartFresh ==
    ASSUME IInv, NEW a \in Admins, NEW g \in Generations, NEW cleared \in BOOLEAN,
           CommitReset(a, g, cleared)
    PROVE  Promise!StartFresh(g, cleared)
  <1> DEFINE c == Promise!Opened(book[active], cleared)
             opening == [h \in Generations |-> generation[h].baseline]
  <1>1. admin[a].pc = "ready" /\ g \in Unborn
    BY DEF CommitReset
  <1>2. SwitchesTo(a, g, c)
    BY ResetSwitches
  <1>3. opening[g] = None
    BY <1>1 DEF IInv, TypeOK, Unborn
  <1>4. book'[g] = c
    BY <1>2 DEF SwitchesTo, IInv, TypeOK
  <1>5. opening' = [opening EXCEPT ![g] = c]
    <2>1. Sealed(a).baseline = generation[active].baseline /\ active \in Generations
      BY <1>1, SwitchFacts
    <2>2. \A h \in Generations :
             generation'[h].baseline = IF h = g THEN c ELSE generation[h].baseline
      BY <1>2, <2>1 DEF SwitchesTo, IInv, TypeOK
    <2>3. QED
      BY <2>2
  <1>6. QED
    BY <1>2, <1>3, <1>4, <1>5 DEF SwitchesTo, Promise!StartFresh

LEMMA RestoreIsReturn ==
    ASSUME IInv, NEW a \in Admins, CommitRestore(a)
    PROVE  \E g \in Generations : Promise!Return(g)
  <1> DEFINE opening == [h \in Generations |-> generation[h].baseline]
  <1>1. admin[a].pc = "ready" /\ Restorable(a)
    BY DEF CommitRestore
  <1>2. SwitchesTo(a, admin[a].goal, book[admin[a].goal])
    BY RestoreSwitches
  <1>3. PICK g \in Generations : g = admin[a].goal
    BY <1>2 DEF SwitchesTo
  <1>4. g # active
    BY <1>2, <1>3 DEF SwitchesTo
  <1>5. opening[g] # None
    BY <1>1, <1>3 DEF Restorable, IInv, TypeOK
  <1>6. /\ admin[a].manifest = book[active] /\ active \in Generations
        /\ Sealed(a).baseline = generation[active].baseline
    BY <1>1, SwitchFacts
  <1>7. book[active] = opening[active]
    BY <1>1, <1>6 DEF Restorable
  <1>8. opening' = [opening EXCEPT ![g] = book[g]]
    <2>1. \A h \in Generations :
             generation'[h].baseline = IF h = g THEN book[g] ELSE generation[h].baseline
      BY <1>2, <1>3, <1>4, <1>6 DEF SwitchesTo, IInv, TypeOK
    <2>2. QED
      BY <2>1
  <1>9. UNCHANGED book /\ active' = g
    BY <1>3 DEF CommitRestore
  <1>10. Promise!Return(g)
    BY <1>4, <1>5, <1>7, <1>8, <1>9 DEF Promise!Return
  <1>11. QED
    BY <1>10

LEMMA StepIsPromised ==
    ASSUME IInv, [Next]_vars
    PROVE  [Promise!BookNext]_(Promise!bookVars)
  <1>1. ASSUME NEW w \in Writers, WriterStep(w)
        PROVE  [Promise!BookNext]_(Promise!bookVars)
    <2>1. CASE Commit(w)
      BY <2>1, CommitIsWork DEF Promise!BookNext
    <2>2. CASE ~Commit(w)
      <3>1. UNCHANGED <<active, book, generation>>
        BY <1>1, <2>2 DEF WriterStep, Read, Write, PassGuard, Rollback
      <3>2. QED
        BY <3>1, QuietStep
    <2>3. QED
      BY <2>1, <2>2
  <1>2. ASSUME NEW a \in Admins, AdminStep(a)
        PROVE  [Promise!BookNext]_(Promise!bookVars)
    <2>1. ASSUME NEW g \in Generations, NEW cleared \in BOOLEAN, CommitReset(a, g, cleared)
          PROVE  [Promise!BookNext]_(Promise!bookVars)
      <3>1. Promise!StartFresh(g, cleared)
        BY <2>1, ResetIsStartFresh
      <3>2. QED
        BY <3>1 DEF Promise!BookNext
    <2>2. CASE CommitRestore(a)
      <3>1. \E g \in Generations : Promise!Return(g)
        BY <2>2, RestoreIsReturn
      <3>2. QED
        BY <3>1 DEF Promise!BookNext
    <2>3. ASSUME \/ \E goal \in Generations \cup {Reset} : Ask(a, goal)
                 \/ HoldControl(a) \/ ReadManifest(a) \/ RefuseRestore(a) \/ Abandon(a)
          PROVE  [Promise!BookNext]_(Promise!bookVars)
      <3>1. UNCHANGED <<active, book, generation>>
        BY <2>3 DEF Ask, HoldControl, ReadManifest, RefuseRestore, Abandon
      <3>2. QED
        BY <3>1, QuietStep
    <2>4. QED
      BY <1>2, <2>1, <2>2, <2>3 DEF AdminStep
  <1>3. ASSUME BreakDeadlock
        PROVE  [Promise!BookNext]_(Promise!bookVars)
    <2>1. UNCHANGED <<active, book, generation>>
      BY <1>3 DEF BreakDeadlock, Abandon, Rollback
    <2>2. QED
      BY <2>1, QuietStep
  <1>4. CASE UNCHANGED vars
    BY <1>4, QuietStep DEF vars
  <1>5. QED
    BY <1>1, <1>2, <1>3, <1>4 DEF Next

(* Start Fresh and Restore, with any transactions in flight, implement     *)
(* GenerationBook: no write straddles the switch, a reset deletes nothing, *)
(* a restore hides no work.                                                *)
THEOREM PromiseIsKept == Spec => KeepsThePromise
  <1>1. IInv /\ [Next]_vars => [Promise!BookNext]_(Promise!bookVars)
    BY StepIsPromised
  <1>2. QED
    BY <1>1, InitIsPromised, InvariantHolds, PTL DEF Spec, KeepsThePromise, Promise!BookSpec

=============================================================================
