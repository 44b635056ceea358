------------------------------ MODULE TurnInReview ------------------------------
(***************************************************************************)
(* What becomes of a turn-in, with no queue entry, link or payload in      *)
(* sight (README.md 661-666, server/approval-queue/README.md).             *)
(*                                                                         *)
(* Every turn-in leads a life of its own: it is written, put under review  *)
(* or up for help, taken back, sent back and written again, and accepted   *)
(* into the ledger at most once.  One that was ever under review is        *)
(* accepted only from there.  While it is hidden nothing happens to it,    *)
(* and it comes back as it went.                                           *)
(***************************************************************************)
CONSTANTS
    TurnIns,    \* identities of turn-ins
    Texts,      \* what a turn-in may say
    Complete,   \* the texts that may be reviewed or accepted
    Nothing     \* no text

VARIABLES
    stage,     \* where a turn-in stands
    text,      \* what it says
    hidden,    \* deleted for the time being
    reviewed,  \* it has been under review
    accepted   \* the texts the ledger holds for it

reviewVars == <<stage, text, hidden, reviewed, accepted>>

ReviewInit ==
    /\ stage = [t \in TurnIns |-> "unwritten"]
    /\ text = [t \in TurnIns |-> Nothing]
    /\ hidden = [t \in TurnIns |-> FALSE]
    /\ reviewed = [t \in TurnIns |-> FALSE]
    /\ accepted = [t \in TurnIns |-> {}]

Move(t, from, to) ==
    /\ stage[t] \in from
    /\ ~hidden[t]
    /\ stage' = [stage EXCEPT ![t] = to]

Write(t, c) ==
    /\ Move(t, {"unwritten", "written", "sent back"}, "written")
    /\ text' = [text EXCEPT ![t] = c]
    /\ UNCHANGED <<hidden, reviewed, accepted>>

PutUnderReview(t) ==
    /\ text[t] \in Complete
    /\ Move(t, {"written"}, "under review")
    /\ reviewed' = [reviewed EXCEPT ![t] = TRUE]
    /\ UNCHANGED <<text, hidden, accepted>>

AskForHelp(t) ==
    /\ Move(t, {"written"}, "up for help")
    /\ UNCHANGED <<text, hidden, reviewed, accepted>>

TakeBack(t) ==
    /\ Move(t, {"under review", "up for help"}, "written")
    /\ UNCHANGED <<text, hidden, reviewed, accepted>>

SendBack(t) ==
    /\ Move(t, {"under review", "up for help"}, "sent back")
    /\ UNCHANGED <<text, hidden, reviewed, accepted>>

Accept(t, c) ==
    /\ \/ stage[t] = "under review"
       \/ stage[t] \in {"written", "up for help"} /\ ~reviewed[t]
    /\ stage[t] = "written" => c = text[t]
    /\ Move(t, {"written", "under review", "up for help"}, "accepted")
    /\ accepted[t] = {}
    /\ accepted' = [accepted EXCEPT ![t] = {c}]
    /\ UNCHANGED <<text, hidden, reviewed>>

Hide(t) ==
    /\ stage[t] \in {"written", "under review", "up for help"}
    /\ ~hidden[t]
    /\ hidden' = [hidden EXCEPT ![t] = TRUE]
    /\ UNCHANGED <<stage, text, reviewed, accepted>>

BringBack(t) ==
    /\ hidden[t]
    /\ hidden' = [hidden EXCEPT ![t] = FALSE]
    /\ UNCHANGED <<stage, text, reviewed, accepted>>

ReviewNext ==
    \E t \in TurnIns :
        \/ \E c \in Texts : Write(t, c)
        \/ \E c \in Complete : Accept(t, c)
        \/ PutUnderReview(t) \/ AskForHelp(t) \/ TakeBack(t) \/ SendBack(t)
        \/ Hide(t) \/ BringBack(t)

ReviewSpec == ReviewInit /\ [][ReviewNext]_reviewVars

-----------------------------------------------------------------------------
(* What follows from it *)

(* What is under review may be accepted as it stands, hidden or not.       *)
ReviewedIsComplete ==
    \A t \in TurnIns : stage[t] = "under review" => text[t] \in Complete

(* The ledger holds one text of what was accepted and none of the rest,    *)
(* and nothing accepted is hidden.                                         *)
LedgerFollowsReview ==
    \A t \in TurnIns :
        /\ stage[t] # "accepted" => accepted[t] = {}
        /\ stage[t] = "accepted" =>
              ~hidden[t] /\ \E c \in Complete : accepted[t] = {c}

(* An accepted turn-in is never touched again.                             *)
AcceptedForGood ==
    [][\A t \in TurnIns : stage[t] = "accepted" =>
          /\ stage'[t] = stage[t] /\ text'[t] = text[t]
          /\ hidden'[t] = hidden[t] /\ accepted'[t] = accepted[t]]_reviewVars

=============================================================================
