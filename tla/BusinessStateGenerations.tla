-------------------------- MODULE BusinessStateGenerations --------------------------
(***************************************************************************)
(* Start Fresh and Restore against the transactions in flight              *)
(* (drizzle/0047_business_state_generations.sql).                          *)
(*                                                                         *)
(* Every row of the ten business tables belongs to a generation, and a     *)
(* singleton control row names the active one.  A trigger on every table   *)
(* (the guard) takes the control row FOR SHARE and refuses a write to any  *)
(* other generation; reset and restore take it FOR UPDATE.  Transactions   *)
(* are READ COMMITTED: each statement sees what was committed when it      *)
(* started, so a transaction may have read one generation and write in     *)
(* another.  An action below is one such statement, or the wait for a row  *)
(* lock; what a transaction writes appears when it commits.                *)
(*                                                                         *)
(* Left out: the generation's code, its schema fingerprint and migration   *)
(* count (every migration rewrites them with the control row's), who acts, *)
(* the audit event.  md5 is taken as injective: a checksum is the book it  *)
(* was computed from, and the row counts follow from it.                   *)
(***************************************************************************)
EXTENDS Naturals, FiniteSets

CONSTANTS
    Generations, First, Contents, Blank, MaxMonth, Now, None,
    Writers,   \* sessions of the application
    Admins,    \* sessions that call reset or restore
    Reset      \* the goal of a session that starts fresh

VARIABLES
    active,      \* business_state_control.active_generation_id
    book,        \* committed business rows, by generation
    generation,  \* business_state_generations
    writer,      \* transactions that write business rows
    admin        \* transactions that switch the generation

vars == <<active, book, generation, writer, admin>>

Promise == INSTANCE GenerationBook WITH
    opening <- [g \in Generations |-> generation[g].baseline]

ASSUME GenerationAssumptions ==
    /\ First \in Generations
    /\ Blank \in Contents
    /\ MaxMonth \in Nat
    /\ Now \in 1 .. MaxMonth
    /\ IsFiniteSet(Generations)
    /\ Reset \notin Generations
    /\ None \notin Generations \cup {Reset} \cup Promise!Book

Generation == [status : {"unborn", "active", "sealed"},
               baseline : Promise!Book \cup {None},
               checksum : Promise!Book \cup {None}]

(* "request" and "targets" insert rows, whose generation is the default    *)
(* read by that statement; "work" and "house" update a row read before.    *)
Inserts == {"request", "targets"}
Operations == Inserts \cup {"work", "house"}

Writer == [pc : {"idle", "reading", "guard", "writing"},
           row : Generations \cup {None},      \* generation of the row it read
           house : BOOLEAN,                    \* holds the House sheet of row
           op : Operations \cup {None},
           target : Generations \cup {None}]   \* generation it writes in

Admin == [pc : {"idle", "asking", "holding", "ready"},
          goal : Generations \cup {Reset, None},
          manifest : Promise!Book \cup {None}]

IdleWriter ==
    [pc |-> "idle", row |-> None, house |-> FALSE, op |-> None, target |-> None]

IdleAdmin == [pc |-> "idle", goal |-> None, manifest |-> None]

(* The generation the migration creates takes over the rows there are. *)
Init ==
    /\ active = First
    /\ \E b \in Promise!OwnBook :
           /\ book = [g \in Generations |-> IF g = First THEN b ELSE Promise!EmptyBook]
           /\ generation = [g \in Generations |->
                 IF g = First
                 THEN [status |-> "active", baseline |-> b, checksum |-> None]
                 ELSE [status |-> "unborn", baseline |-> None, checksum |-> None]]
    /\ writer = [w \in Writers |-> IdleWriter]
    /\ admin = [a \in Admins |-> IdleAdmin]

Unborn == {g \in Generations : generation[g].status = "unborn"}
Born   == Generations \ Unborn

-----------------------------------------------------------------------------
(* Row locks.  A reset, once it has read the manifest, also holds the open *)
(* House sheet of the active generation, or the lock on the House chain if *)
(* there is none.                                                          *)

ControlHeld == \E a \in Admins : admin[a].pc \in {"holding", "ready"}

ControlShared == \E w \in Writers : writer[w].pc = "writing"

HouseHolders(g) == {w \in Writers : writer[w].house /\ writer[w].row = g}

HouseTaken(g) ==
    \/ HouseHolders(g) # {}
    \/ \E a \in Admins : admin[a].pc = "ready" /\ admin[a].goal = Reset /\ g = active

-----------------------------------------------------------------------------
(* A transaction that writes business rows *)

(* It reads, and locks, rows of any generation that exists: a request names *)
(* its row by id.  Only the House sheet is looked up in the active one.     *)
Read(w, g, house) ==
    /\ writer[w].pc = "idle"
    /\ g \in Born
    /\ house => g = active /\ ~HouseTaken(g) /\ book[g].month < MaxMonth
    /\ writer' = [writer EXCEPT ![w].pc = "reading", ![w].row = g, ![w].house = house]
    /\ UNCHANGED <<active, book, generation, admin>>

(* Its first write starts, and reaches the guard. *)
Write(w, op) ==
    /\ writer[w].pc = "reading"
    /\ writer[w].house <=> op = "house"
    /\ writer' = [writer EXCEPT ![w].pc = "guard", ![w].op = op,
                    ![w].target = IF op \in Inserts THEN active ELSE writer[w].row]
    /\ UNCHANGED <<active, book, generation, admin>>

(* mutant: the guard only waits *)
PassGuard_NoRefusal(w) ==
    /\ writer[w].pc = "guard"
    /\ ~ControlHeld
    /\ writer[w].target = active
    /\ writer' = [writer EXCEPT ![w].pc = "writing"]
    /\ UNCHANGED <<active, book, generation, admin>>

(* FOR SHARE on the control row, then the comparison with its latest value. *)
PassGuard(w) ==
    /\ writer[w].pc = "guard"
    /\ ~ControlHeld
    /\ IF writer[w].target = active
       THEN writer' = [writer EXCEPT ![w].pc = "writing"]
       ELSE writer' = [writer EXCEPT ![w] = IdleWriter]
    /\ UNCHANGED <<active, book, generation, admin>>

(* What the active book may say after the operation. *)
Outcomes(w, b) ==
    CASE writer[w].op = "work"    -> {[b EXCEPT !.work = c] : c \in Contents}
      [] writer[w].op = "targets" -> {[b EXCEPT !.targets = c] : c \in Contents}
      [] writer[w].op = "request" -> 
            {[b EXCEPT !.work = c, !.strays = @ \cup ({writer[w].row} \ {writer[w].target})]
                : c \in Contents}
      [] writer[w].op = "house"   ->
            IF b.month = 0
            THEN {[b EXCEPT !.month = m] : m \in 1 .. MaxMonth}
            ELSE {[b EXCEPT !.month = @ + 1]}

(* mutant: relationships are not checked at commit *)
Commit_AnyLink(w) ==
    LET g == writer[w].target IN
    /\ writer[w].pc = "writing"
    /\ \E b \in Outcomes(w, book[g]) : book' = [book EXCEPT ![g] = b]
    /\ writer' = [writer EXCEPT ![w] = IdleWriter]
    /\ UNCHANGED <<active, generation, admin>>

(* A deferred trigger refuses a request that left its policy's generation. *)
Commit(w) ==
    LET g == writer[w].target IN
    /\ writer[w].pc = "writing"
    /\ IF writer[w].op = "request" /\ writer[w].row # g
       THEN UNCHANGED book
       ELSE \E b \in Outcomes(w, book[g]) : book' = [book EXCEPT ![g] = b]
    /\ writer' = [writer EXCEPT ![w] = IdleWriter]
    /\ UNCHANGED <<active, generation, admin>>

(* Any error, timeout or lost connection. *)
Rollback(w) ==
    /\ writer[w].pc # "idle"
    /\ writer' = [writer EXCEPT ![w] = IdleWriter]
    /\ UNCHANGED <<active, book, generation, admin>>

-----------------------------------------------------------------------------
(* A transaction that switches the generation *)

(* Bound: no more resets are asked for than there are generations left. *)
ResetsLeft ==
    Cardinality(Unborn) > Cardinality({a \in Admins : admin[a].goal = Reset})

Ask(a, goal) ==
    /\ admin[a].pc = "idle"
    /\ goal = Reset => ResetsLeft
    /\ goal # Reset => goal \in Born
    /\ admin' = [admin EXCEPT ![a].pc = "asking", ![a].goal = goal]
    /\ UNCHANGED <<active, book, generation, writer>>

(* mutant: the control row is locked FOR SHARE *)
HoldControl_Shared(a) ==
    /\ admin[a].pc = "asking"
    /\ ~ControlHeld
    /\ admin' = [admin EXCEPT ![a].pc = "holding"]
    /\ UNCHANGED <<active, book, generation, writer>>

HoldControl(a) ==
    /\ admin[a].pc = "asking"
    /\ ~ControlHeld
    /\ ~ControlShared
    /\ admin' = [admin EXCEPT ![a].pc = "holding"]
    /\ UNCHANGED <<active, book, generation, writer>>

(* A reset waits for the House sheet before it reads the manifest. *)
ReadManifest(a) ==
    /\ admin[a].pc = "holding"
    /\ admin[a].goal = Reset => ~HouseTaken(active)
    /\ admin' = [admin EXCEPT ![a].pc = "ready", ![a].manifest = book[active]]
    /\ UNCHANGED <<active, book, generation, writer>>

Sealed(a) == [generation[active] EXCEPT !.status = "sealed", !.checksum = admin[a].manifest]

(* mutant: the baseline of the new generation is not recorded *)
CommitReset_NoBaseline(a, g, cleared) ==
    LET b == Promise!Opened(book[active], cleared) IN
    /\ admin[a].pc = "ready" /\ admin[a].goal = Reset
    /\ g \in Unborn
    /\ book' = [book EXCEPT ![g] = b]
    /\ generation' = [generation EXCEPT
          ![active] = Sealed(a),
          ![g] = [status |-> "active", baseline |-> None, checksum |-> None]]
    /\ active' = g
    /\ admin' = [admin EXCEPT ![a] = IdleAdmin]
    /\ UNCHANGED writer

CommitReset(a, g, cleared) ==
    LET b == Promise!Opened(book[active], cleared) IN
    /\ admin[a].pc = "ready" /\ admin[a].goal = Reset
    /\ g \in Unborn
    /\ book' = [book EXCEPT ![g] = b]
    /\ generation' = [generation EXCEPT
          ![active] = Sealed(a),
          ![g] = [status |-> "active", baseline |-> b, checksum |-> None]]
    /\ active' = g
    /\ admin' = [admin EXCEPT ![a] = IdleAdmin]
    /\ UNCHANGED writer

(* mutant: work done since the active generation was opened is no obstacle *)
Restorable_OverWork(a) ==
    LET g == admin[a].goal IN
    /\ generation[g].status = "sealed"
    /\ generation[g].checksum = book[g]

Restorable(a) ==
    LET g == admin[a].goal IN
    /\ generation[g].status = "sealed"
    /\ generation[active].baseline = admin[a].manifest
    /\ generation[g].checksum = book[g]

CommitRestore(a) ==
    LET g == admin[a].goal IN
    /\ admin[a].pc = "ready" /\ g # Reset
    /\ Restorable(a)
    /\ generation' = [generation EXCEPT
          ![active] = Sealed(a),
          ![g] = [status |-> "active", baseline |-> book[g], checksum |-> None]]
    /\ active' = g
    /\ admin' = [admin EXCEPT ![a] = IdleAdmin]
    /\ UNCHANGED <<book, writer>>

RefuseRestore(a) ==
    /\ admin[a].pc = "ready" /\ admin[a].goal # Reset
    /\ ~Restorable(a)
    /\ admin' = [admin EXCEPT ![a] = IdleAdmin]
    /\ UNCHANGED <<active, book, generation, writer>>

(* Any error, timeout or lost connection. *)
Abandon(a) ==
    /\ admin[a].pc # "idle"
    /\ admin' = [admin EXCEPT ![a] = IdleAdmin]
    /\ UNCHANGED <<active, book, generation, writer>>

-----------------------------------------------------------------------------
(* A reset waits for a House sheet whose holder waits at the guard for the *)
(* reset: PostgreSQL cancels one of the two.                               *)

Deadlocked(a, w) ==
    /\ admin[a].pc = "holding" /\ admin[a].goal = Reset
    /\ w \in HouseHolders(active) /\ writer[w].pc = "guard"

BreakDeadlock ==
    \E a \in Admins, w \in Writers :
        /\ Deadlocked(a, w)
        /\ Abandon(a) \/ Rollback(w)

WriterStep(w) ==
    \/ \E g \in Generations, house \in BOOLEAN : Read(w, g, house)
    \/ \E op \in Operations : Write(w, op)
    \/ PassGuard(w)
    \/ Commit(w)
    \/ Rollback(w)

AdminStep(a) ==
    \/ \E goal \in Generations \cup {Reset} : Ask(a, goal)
    \/ HoldControl(a)
    \/ ReadManifest(a)
    \/ \E g \in Generations, cleared \in BOOLEAN : CommitReset(a, g, cleared)
    \/ CommitRestore(a)
    \/ RefuseRestore(a)
    \/ Abandon(a)

Next ==
    \/ \E w \in Writers : WriterStep(w)
    \/ \E a \in Admins : AdminStep(a)
    \/ BreakDeadlock

Spec == Init /\ [][Next]_vars

(* A transaction whose lock is granted runs on to its end, and PostgreSQL  *)
(* finds deadlocks and serves the waiters of a row lock in turn; nobody is *)
(* bound to start a transaction, to fail, or to get the control row for a  *)
(* reset that a stream of writers keeps shared.                            *)
Fairness ==
    /\ \A w \in Writers :
           /\ WF_vars(\E op \in Operations : Write(w, op))
           /\ SF_vars(PassGuard(w))
           /\ WF_vars(Commit(w))
    /\ \A a \in Admins :
           /\ SF_vars(ReadManifest(a))
           /\ WF_vars(\E g \in Generations, cleared \in BOOLEAN : CommitReset(a, g, cleared))
           /\ WF_vars(CommitRestore(a) \/ RefuseRestore(a))
    /\ WF_vars(BreakDeadlock)

FairSpec == Spec /\ Fairness

-----------------------------------------------------------------------------
(* Properties *)

(* Rows keep their columns; the control row points to the one generation   *)
(* whose status is 'active', and that one has a baseline to compare with.  *)
TypeOK ==
    /\ active \in Generations
    /\ book \in [Generations -> Promise!Book]
    /\ generation \in [Generations -> Generation]
    /\ writer \in [Writers -> Writer]
    /\ admin \in [Admins -> Admin]
    /\ \A g \in Generations :
          /\ generation[g].status = "active" <=> g = active
          /\ generation[g].status = "unborn" <=> generation[g].baseline = None

(* A sealed generation stays what its checksum says, so a restore is never *)
(* refused for it: no write that was in flight when it was sealed lands    *)
(* after the manifest was read.                                            *)
SealedGenerationsVerify ==
    \A g \in Generations :
        generation[g].status = "sealed" => generation[g].checksum = book[g]

(* BUSINESS_STATE_GENERATIONS.md 51-52: linked rows share one generation,  *)
(* also when a transaction read its policy before a switch and inserted    *)
(* the request after it.                                                   *)
LinksStayInOneGeneration ==
    \A g \in Generations : book[g].strays = {}

(* BUSINESS_STATE_GENERATIONS.md 52-54 and 76-77: whatever transactions    *)
(* are in flight, the books change as GenerationBook allows: a write never *)
(* straddles the switch, a reset deletes nothing, and a restore hides no   *)
(* work.                                                                   *)
KeepsThePromise == Promise!BookSpec

(* A write that reached the guard is let through, refused or cancelled,    *)
(* and a session that holds the control row releases it: a reset or a      *)
(* restore never leaves the application waiting.                           *)
WaitersAreAnswered ==
    /\ \A w \in Writers : writer[w].pc = "guard" ~> writer[w].pc # "guard"
    /\ \A a \in Admins : admin[a].pc = "holding" ~> admin[a].pc = "idle"

=============================================================================
