-------------------------- MODULE TurnInReview_proofs --------------------------
(* What follows from the life of a turn-in, whatever rows keep it.         *)
EXTENDS TurnInReview, TLAPS

ReviewTyped ==
    /\ stage = [t \in TurnIns |-> stage[t]]
    /\ text = [t \in TurnIns |-> text[t]]
    /\ hidden = [t \in TurnIns |-> hidden[t]]
    /\ accepted = [t \in TurnIns |-> accepted[t]]

ReviewInv == ReviewTyped /\ ReviewedIsComplete /\ LedgerFollowsReview

(* A step moves one turn-in; the rest is as it was.                        *)
OthersStay(t) ==
    \A x \in TurnIns \ {t} :
        /\ stage'[x] = stage[x] /\ text'[x] = text[x]
        /\ hidden'[x] = hidden[x] /\ accepted'[x] = accepted[x]

Finished(t) == stage[t] = "accepted"

TurnInStep(t) ==
    \/ \E c \in Texts : Write(t, c)
    \/ \E c \in Complete : Accept(t, c)
    \/ PutUnderReview(t) \/ AskForHelp(t) \/ TakeBack(t) \/ SendBack(t)
    \/ Hide(t) \/ BringBack(t)

(* The turn-in that moved keeps the invariant, and it was not accepted.    *)
LEMMA OneMoves ==
    ASSUME ReviewInv, NEW t \in TurnIns, TurnInStep(t)
    PROVE  /\ ReviewTyped' /\ OthersStay(t) /\ ~Finished(t)
           /\ stage'[t] = "under review" => text'[t] \in Complete
           /\ stage'[t] # "accepted" => accepted'[t] = {}
           /\ stage'[t] = "accepted" =>
                 ~hidden'[t] /\ \E c \in Complete : accepted'[t] = {c}
  <1> USE DEF ReviewInv, ReviewTyped, OthersStay, Finished, Move
  <1>1. ASSUME NEW c \in Texts, Write(t, c)
        PROVE  /\ ReviewTyped' /\ OthersStay(t) /\ ~Finished(t)
               /\ stage'[t] = "written" /\ accepted'[t] = {}
    BY <1>1 DEF Write, LedgerFollowsReview
  <1>2. ASSUME NEW c \in Complete, Accept(t, c)
        PROVE  /\ ReviewTyped' /\ OthersStay(t) /\ ~Finished(t)
               /\ stage'[t] = "accepted" /\ ~hidden'[t] /\ accepted'[t] = {c}
    BY <1>2 DEF Accept
  <1>3. ASSUME PutUnderReview(t)
        PROVE  /\ ReviewTyped' /\ OthersStay(t) /\ ~Finished(t)
               /\ stage'[t] = "under review" /\ text'[t] \in Complete
               /\ accepted'[t] = {}
    BY <1>3 DEF PutUnderReview, LedgerFollowsReview
  <1>4. ASSUME AskForHelp(t) \/ TakeBack(t) \/ SendBack(t)
        PROVE  /\ ReviewTyped' /\ OthersStay(t) /\ ~Finished(t)
               /\ stage'[t] \in {"up for help", "written", "sent back"}
               /\ accepted'[t] = {}
    <2>1. /\ stage[t] \in {"written", "under review", "up for help"}
          /\ \E s \in {"up for help", "written", "sent back"} :
                stage' = [stage EXCEPT ![t] = s]
          /\ UNCHANGED <<text, hidden, reviewed, accepted>>
      BY <1>4 DEF AskForHelp, TakeBack, SendBack
    <2> QED
      BY <2>1 DEF LedgerFollowsReview
  <1>5. ASSUME Hide(t)
        PROVE  /\ ReviewTyped' /\ OthersStay(t) /\ ~Finished(t)
               /\ UNCHANGED <<stage, text, accepted>>
    BY <1>5 DEF Hide
  <1>6. ASSUME BringBack(t)
        PROVE  /\ ReviewTyped' /\ OthersStay(t) /\ ~Finished(t)
               /\ UNCHANGED <<stage, text, accepted>>
    BY <1>6 DEF BringBack, LedgerFollowsReview
  <1>7. /\ stage[t] = "under review" => text[t] \in Complete
        /\ stage[t] # "accepted" => accepted[t] = {}
    BY DEF ReviewedIsComplete, LedgerFollowsReview
  <1> QED
    BY <1>1, <1>2, <1>3, <1>4, <1>5, <1>6, <1>7 DEF TurnInStep

LEMMA ReviewStepKeeps ==
    ReviewInv /\ ReviewNext => ReviewInv'
  <1> SUFFICES ASSUME ReviewInv, NEW t \in TurnIns, TurnInStep(t)
               PROVE  ReviewInv'
    BY DEF ReviewNext, TurnInStep
  <1> QED
    BY OneMoves DEF OthersStay, ReviewInv, ReviewedIsComplete, LedgerFollowsReview

LEMMA ReviewIsKept == ReviewSpec => []ReviewInv
  <1>1. ReviewInit => ReviewInv
    BY DEF ReviewInit, ReviewInv, ReviewTyped, ReviewedIsComplete,
           LedgerFollowsReview
  <1>2. ReviewInv /\ UNCHANGED reviewVars => ReviewInv'
    BY DEF reviewVars, ReviewInv, ReviewTyped, ReviewedIsComplete,
           LedgerFollowsReview
  <1> QED
    BY <1>1, <1>2, ReviewStepKeeps, PTL DEF ReviewSpec

(* server/approval-queue/README.md: what is in the queue can be approved   *)
(* as it stands.                                                           *)
THEOREM ReviewIsOfCompleteTurnIns == ReviewSpec => []ReviewedIsComplete
  BY ReviewIsKept, PTL DEF ReviewInv

(* server/approval-queue/README.md 18-24: a turn-in becomes one policy, or *)
(* none, and README.md 661-666: what was approved is never deleted.        *)
THEOREM LedgerHoldsWhatWasAccepted == ReviewSpec => []LedgerFollowsReview
  BY ReviewIsKept, PTL DEF ReviewInv

(* README.md 661-666: an accepted turn-in stays as it is.                  *)
THEOREM AcceptanceIsForGood == ReviewSpec => AcceptedForGood
  <1>1. ReviewInv /\ [ReviewNext]_reviewVars
          => [\A t \in TurnIns : stage[t] = "accepted" =>
                /\ stage'[t] = stage[t] /\ text'[t] = text[t]
                /\ hidden'[t] = hidden[t] /\ accepted'[t] = accepted[t]]_reviewVars
    <2> SUFFICES ASSUME ReviewInv, NEW d \in TurnIns, TurnInStep(d),
                        NEW t \in TurnIns, stage[t] = "accepted"
                 PROVE  /\ stage'[t] = stage[t] /\ text'[t] = text[t]
                        /\ hidden'[t] = hidden[t] /\ accepted'[t] = accepted[t]
      BY DEF ReviewNext, TurnInStep
    <2> QED
      BY OneMoves DEF OthersStay, Finished
  <1> QED
    BY <1>1, ReviewIsKept, PTL DEF ReviewSpec, AcceptedForGood

=============================================================================
