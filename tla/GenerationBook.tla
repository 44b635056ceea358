------------------------------ MODULE GenerationBook ------------------------------
(***************************************************************************)
(* What Start Fresh and Restore promise, with no transaction in sight      *)
(* (docs/BUSINESS_STATE_GENERATIONS.md).                                   *)
(*                                                                         *)
(* The business data is a book per generation, and one generation is       *)
(* active.  Work goes to the active book alone.  Start Fresh opens the     *)
(* book of a new generation and leaves the old one as it is.  Return opens *)
(* an old book again, as it was left, and only from a book nobody has      *)
(* worked in since it was opened, so that no work is hidden by it.         *)
(***************************************************************************)
EXTENDS Naturals

CONSTANTS
    Generations,  \* identities of generations (bound on Start Fresh)
    First,        \* the generation migration 0047 creates
    Contents,     \* what the policies, or the KPI targets, of a generation say
    Blank,        \* the content of a table with no rows
    MaxMonth,     \* last month ordinal (bound)
    Now,          \* month of the calendar when a generation is opened
    None          \* SQL NULL

(* The rows of one generation, as far as anything tells them apart: month  *)
(* is the open House month, 0 when there is none; strays are the other     *)
(* generations its rows link to.                                           *)
Book == [work : Contents, targets : Contents, month : 0 .. MaxMonth,
         strays : SUBSET Generations]

EmptyBook == [work |-> Blank, targets |-> Blank, month |-> 0, strays |-> {}]

OwnBook == {b \in Book : b.strays = {}}

(* KPI targets are copied unless cleared; the House month carries on. *)
Opened(b, cleared) ==
    [work |-> Blank, targets |-> IF cleared THEN Blank ELSE b.targets,
     month |-> IF b.month = 0 THEN Now ELSE b.month, strays |-> {}]

VARIABLES
    active,   \* the generation in use
    book,     \* the book of every generation
    opening   \* the book as it was when last opened; None if it never was

bookVars == <<active, book, opening>>

BookInit ==
    /\ active = First
    /\ \E b \in OwnBook :
           /\ book = [g \in Generations |-> IF g = First THEN b ELSE EmptyBook]
           /\ opening = [g \in Generations |-> IF g = First THEN b ELSE None]

Work ==
    /\ \E b \in OwnBook : book' = [book EXCEPT ![active] = b]
    /\ UNCHANGED <<active, opening>>

StartFresh(g, cleared) ==
    /\ opening[g] = None
    /\ book' = [book EXCEPT ![g] = Opened(book[active], cleared)]
    /\ active' = g
    /\ opening' = [opening EXCEPT ![g] = book'[g]]

Return(g) ==
    /\ g # active
    /\ opening[g] # None
    /\ book[active] = opening[active]
    /\ active' = g
    /\ opening' = [opening EXCEPT ![g] = book[g]]
    /\ UNCHANGED book

BookNext ==
    \/ Work
    \/ \E g \in Generations : Return(g) \/ \E cleared \in BOOLEAN : StartFresh(g, cleared)

BookSpec == BookInit /\ [][BookNext]_bookVars

=============================================================================
