------------------------- MODULE ApprovalLifecycle_proofs -------------------------
(***************************************************************************)
(* Theorems about ApprovalLifecycle for every set of drafts, submissions   *)
(* and contents.                                                           *)
(***************************************************************************)
EXTENDS ApprovalLifecycle, TLAPS

-----------------------------------------------------------------------------
(* The inductive invariant *)

(* An entry belongs to a draft from the moment it exists. *)
EntriesHaveDrafts ==
    \A e \in Entries : queue[e].status = "unborn" <=> queue[e].draft = None

(* A draft that exists says something. *)
DraftsHaveContent ==
    \A d \in Drafts : drafts[d].status # "unborn" => drafts[d].content \in Contents

(* A draft has a link only from its submission to its next reopening, and  *)
(* only to an entry of its own.                                            *)
LinksAreOwn ==
    \A d \in Drafts : drafts[d].link # None =>
        /\ queue[drafts[d].link].draft = d
        /\ drafts[d].status \in {"submitted", "sent_back", "approved"}

(* Only work that is waiting is deleted, a submission with its draft. *)
DeletionFollowsReview ==
    /\ \A d \in Drafts : drafts[d].deleted =>
          drafts[d].status \in {"draft", "flagged", "submitted"}
    /\ \A e \in Entries : queue[e].deleted => queue[e].status = "pending"
    /\ \A e \in Entries : queue[e].status = "pending" =>
          (queue[e].deleted <=> drafts[queue[e].draft].deleted)

IInv ==
    /\ TypeOK
    /\ EntriesHaveDrafts
    /\ DraftsHaveContent
    /\ LinksAreOwn
    /\ LifecycleIsConsistent
    /\ DeletionFollowsReview
    /\ PendingIsWhatTheDraftSays
    /\ QueuedWorkIsReviewed

-----------------------------------------------------------------------------
(* What a transition leaves behind *)

LEMMA TransitionEffect ==
    ASSUME TypeOK, NEW d \in Drafts, NEW from \in DraftStatus, NEW to \in DraftStatus,
           NEW e \in Entries \cup {None}, TransitionDraft(d, from, to, e)
    PROVE  /\ drafts' \in [Drafts -> Draft]
           /\ drafts[d].status = from /\ ~drafts[d].deleted
           /\ drafts'[d].status = to /\ ~drafts'[d].deleted
           /\ drafts'[d].content = drafts[d].content
           /\ drafts'[d].link = IF to = "submitted" THEN e
                                ELSE IF to = "draft" THEN None ELSE drafts[d].link
           /\ \A x \in Drafts \ {d} : drafts'[x] = drafts[x]
  <1>1. drafts \in [Drafts -> Draft]
    BY DEF TypeOK
  <1>2. QED
    BY <1>1 DEF TransitionDraft, Draft

LEMMA DecideEffect ==
    ASSUME TypeOK, NEW e \in Entries, NEW s \in QueueStatus, Decide(e, s)
    PROVE  /\ queue' \in [Entries -> Submission]
           /\ queue[e].status = "pending" /\ ~queue[e].deleted
           /\ queue'[e].status = s /\ ~queue'[e].deleted
           /\ queue'[e].draft = queue[e].draft
           /\ queue'[e].payload = queue[e].payload
           /\ \A x \in Entries \ {e} : queue'[x] = queue[x]
  <1>1. queue \in [Entries -> Submission]
    BY DEF TypeOK
  <1>2. QED
    BY <1>1 DEF Decide, Submission

-----------------------------------------------------------------------------
(* Steps outside the queue: one draft moves between editing, help and      *)
(* being sent back.                                                        *)

StandaloneChange(d) ==
    /\ queue' = queue /\ ledger' = ledger
    /\ drafts' \in [Drafts -> Draft]
    /\ \A x \in Drafts \ {d} : drafts'[x] = drafts[x]
    /\ drafts[d].status \notin {"submitted", "approved"}
    /\ drafts'[d].status \in {"draft", "flagged", "sent_back"}
    /\ drafts'[d].link = None
    /\ drafts'[d].content \in Contents
    /\ drafts'[d].deleted => drafts'[d].status \in {"draft", "flagged"}

LEMMA StandaloneKeepsIInv ==
    ASSUME IInv, NEW d \in Drafts, StandaloneChange(d)
    PROVE  IInv'
  <1> USE DEF StandaloneChange
  <1>1. \A e \in Entries : queue[e].status \in {"pending", "approved"} => queue[e].draft # d
    BY DEF IInv, EntriesHaveDrafts, LifecycleIsConsistent, EntryAgreesWithDraft, TypeOK, Submission
  <1>2. TypeOK' /\ EntriesHaveDrafts' /\ DraftsHaveContent'
    BY DEF IInv, TypeOK, EntriesHaveDrafts, DraftsHaveContent
  <1>3. LinksAreOwn'
    BY DEF IInv, LinksAreOwn
  <1>4. LifecycleIsConsistent'
    <2>1. \A x \in Drafts : DraftAgreesWithQueue(x)'
      BY DEF IInv, LifecycleIsConsistent, DraftAgreesWithQueue, EntriesOf
    <2>2. \A e \in Entries : queue'[e].draft # None => EntryAgreesWithDraft(e)'
      BY <1>1, LifecycleAssumptions
         DEF IInv, LifecycleIsConsistent, EntryAgreesWithDraft, TypeOK, Submission
    <2>3. \A x \in Drafts : (drafts'[x].status = "approved" <=> InLedger(x)')
      BY DEF IInv, LifecycleIsConsistent, InLedger
    <2>4. QED
      BY <2>1, <2>2, <2>3 DEF IInv, LifecycleIsConsistent
  <1>5. DeletionFollowsReview'
    BY <1>1 DEF IInv, DeletionFollowsReview, TypeOK, Submission, EntriesHaveDrafts
  <1>6. PendingIsWhatTheDraftSays'
    BY <1>1 DEF IInv, PendingIsWhatTheDraftSays, TypeOK, Submission, EntriesHaveDrafts
  <1>7. QueuedWorkIsReviewed'
    BY DEF IInv, QueuedWorkIsReviewed, EntriesOf
  <1>8. QED
    BY <1>2, <1>3, <1>4, <1>5, <1>6, <1>7 DEF IInv

-----------------------------------------------------------------------------
(* Entering the queue *)

LEMMA SubmitKeepsIInv ==
    ASSUME IInv, NEW d \in Drafts, NEW e \in Entries, SubmitForApproval(d, e)
    PROVE  IInv'
  <1>1. /\ drafts' \in [Drafts -> Draft]
        /\ drafts[d].status = "draft" /\ ~drafts[d].deleted
        /\ drafts'[d].status = "submitted" /\ ~drafts'[d].deleted
        /\ drafts'[d].content = drafts[d].content
        /\ drafts'[d].link = e
        /\ \A x \in Drafts \ {d} : drafts'[x] = drafts[x]
    BY TransitionEffect DEF IInv, SubmitForApproval, DraftStatus
  <1>2. /\ queue' \in [Entries -> Submission]
        /\ queue[e].status = "unborn"
        /\ queue'[e].status = "pending" /\ queue'[e].draft = d
        /\ queue'[e].payload = drafts[d].content /\ ~queue'[e].deleted
        /\ \A x \in Entries \ {e} : queue'[x] = queue[x]
    BY DEF IInv, TypeOK, SubmitForApproval, Queueable, Draft, Submission, QueueStatus
  <1>3. ledger' = ledger /\ queue[e].draft = None
    BY <1>2 DEF SubmitForApproval, IInv, EntriesHaveDrafts
  <1>4. \A x \in Entries : queue[x].draft # e /\ (queue[x].draft = d =>
            queue[x].status \notin {"pending", "approved"} /\ drafts[d].link = None)
    BY <1>1, LifecycleAssumptions
       DEF IInv, TypeOK, Submission, LifecycleIsConsistent, EntryAgreesWithDraft, LinksAreOwn
  <1>5. TypeOK' /\ EntriesHaveDrafts' /\ DraftsHaveContent'
    BY <1>1, <1>2, <1>3, LifecycleAssumptions
       DEF IInv, TypeOK, EntriesHaveDrafts, DraftsHaveContent
  <1>6. LinksAreOwn'
    BY <1>1, <1>2, <1>3, LifecycleAssumptions DEF IInv, TypeOK, Draft, LinksAreOwn
  <1>7. LifecycleIsConsistent'
    <2>1. \A x \in Drafts : DraftAgreesWithQueue(x)'
      BY <1>1, <1>2, <1>3, LifecycleAssumptions
         DEF IInv, LifecycleIsConsistent, DraftAgreesWithQueue, EntriesOf
    <2>2. \A x \in Entries : queue'[x].draft # None => EntryAgreesWithDraft(x)'
      BY <1>1, <1>2, <1>3, <1>4, LifecycleAssumptions
         DEF IInv, LifecycleIsConsistent, EntryAgreesWithDraft, TypeOK, Submission
    <2>3. \A x \in Drafts : (drafts'[x].status = "approved" <=> InLedger(x)')
      BY <1>1, <1>3 DEF IInv, LifecycleIsConsistent, InLedger
    <2>4. QED
      BY <1>3, <2>1, <2>2, <2>3 DEF IInv, LifecycleIsConsistent
  <1>8. DeletionFollowsReview'
    BY <1>1, <1>2, <1>4 DEF IInv, DeletionFollowsReview, TypeOK, Submission, EntriesHaveDrafts
  <1>9. PendingIsWhatTheDraftSays'
    BY <1>1, <1>2, <1>4 DEF IInv, PendingIsWhatTheDraftSays, TypeOK, Submission, EntriesHaveDrafts
  <1>10. QueuedWorkIsReviewed'
    <2>1. \A p \in ledger : p.source \in Drafts \ {d}
      BY <1>1 DEF IInv, TypeOK, Policy, LifecycleIsConsistent, InLedger
    <2>2. QED
      BY <1>2, <1>3, <2>1 DEF IInv, QueuedWorkIsReviewed, EntriesOf
  <1>11. QED
    BY <1>5, <1>6, <1>7, <1>8, <1>9, <1>10 DEF IInv

-----------------------------------------------------------------------------
(* Leaving the queue: an entry is decided together with its draft *)

DecisionOn(e, d, s, t) ==
    /\ queue' \in [Entries -> Submission]
    /\ queue[e].status = "pending"
    /\ queue'[e].status = s /\ ~queue'[e].deleted
    /\ queue'[e].draft = d /\ queue[e].draft = d
    /\ queue'[e].payload = queue[e].payload
    /\ \A x \in Entries \ {e} : queue'[x] = queue[x]
    /\ drafts' \in [Drafts -> Draft]
    /\ drafts[d].status = "submitted" /\ drafts[d].link = e
    /\ drafts'[d].status = t /\ ~drafts'[d].deleted
    /\ drafts'[d].link = IF t = "draft" THEN None ELSE e
    /\ drafts'[d].content = drafts[d].content
    /\ \A x \in Drafts \ {d} : drafts'[x] = drafts[x]

(* A pending entry has a draft, which is linked back to it. *)
LEMMA PendingEntry ==
    ASSUME IInv, NEW e \in Entries, queue[e].status = "pending"
    PROVE  /\ queue[e].draft \in Drafts
           /\ drafts[queue[e].draft].status = "submitted"
           /\ drafts[queue[e].draft].link = e
  <1>1. queue[e].draft # None
    BY DEF IInv, EntriesHaveDrafts
  <1>2. QED
    BY <1>1 DEF IInv, TypeOK, Submission, LifecycleIsConsistent, EntryAgreesWithDraft

LEMMA DecisionEffect ==
    ASSUME IInv, NEW e \in Entries, NEW s \in QueueStatus, NEW t \in DraftStatus \ {"submitted"},
           Decide(e, s), TransitionDraft(queue[e].draft, "submitted", t, None)
    PROVE  DecisionOn(e, queue[e].draft, s, t)
  <1> DEFINE d == queue[e].draft
  <1>1. d \in Drafts /\ drafts[d].status = "submitted" /\ drafts[d].link = e
    BY PendingEntry DEF Decide
  <1>2. TypeOK /\ "submitted" \in DraftStatus
    BY DEF IInv, DraftStatus
  <1> HIDE DEF d
  <1>3. TransitionDraft(d, "submitted", t, None)
    BY DEF d
  <1>4. /\ drafts' \in [Drafts -> Draft]
        /\ drafts'[d].status = t /\ ~drafts'[d].deleted
        /\ drafts'[d].link = IF t = "draft" THEN None ELSE e
        /\ drafts'[d].content = drafts[d].content
        /\ \A x \in Drafts \ {d} : drafts'[x] = drafts[x]
    BY <1>1, <1>2, <1>3, TransitionEffect
  <1>5. /\ queue' \in [Entries -> Submission]
        /\ queue[e].status = "pending"
        /\ queue'[e].status = s /\ ~queue'[e].deleted
        /\ queue'[e].draft = queue[e].draft
        /\ queue'[e].payload = queue[e].payload
        /\ \A x \in Entries \ {e} : queue'[x] = queue[x]
    BY <1>2, DecideEffect
  <1>6. DecisionOn(e, d, s, t)
    BY <1>1, <1>4, <1>5 DEF DecisionOn, d
  <1>7. QED
    BY <1>6 DEF d

LEMMA DecisionKeepsTables ==
    ASSUME IInv, NEW e \in Entries, NEW d \in Drafts, NEW s, NEW t, DecisionOn(e, d, s, t),
           \/ s = "withdrawn" /\ t = "draft"
           \/ s = "sent_back" /\ t = "sent_back"
           \/ s = "approved" /\ t = "approved",
           ledger' \subseteq Policy,
           \A x \in Drafts : (drafts'[x].status = "approved" <=> InLedger(x)'),
           \A p, q \in ledger' : p.source = q.source => p = q,
           QueuedWorkIsReviewed'
    PROVE  IInv'
  <1> USE DEF DecisionOn
  <1>1. \A x \in Entries \ {e} :
            queue[x].draft = d => queue[x].status \notin {"pending", "approved"}
    BY LifecycleAssumptions
       DEF IInv, TypeOK, Submission, LifecycleIsConsistent, EntryAgreesWithDraft
  <1>2. TypeOK' /\ EntriesHaveDrafts' /\ DraftsHaveContent'
    BY DEF IInv, TypeOK, EntriesHaveDrafts, DraftsHaveContent
  <1>3. LinksAreOwn'
    BY LifecycleAssumptions DEF IInv, TypeOK, Draft, LinksAreOwn
  <1>4. LifecycleIsConsistent'
    <2>1. \A x \in Drafts : DraftAgreesWithQueue(x)'
      BY <1>1, LifecycleAssumptions
         DEF IInv, LifecycleIsConsistent, DraftAgreesWithQueue, EntriesOf
    <2>2. \A x \in Entries : queue'[x].draft # None => EntryAgreesWithDraft(x)'
      BY <1>1, LifecycleAssumptions
         DEF IInv, LifecycleIsConsistent, EntryAgreesWithDraft, TypeOK, Submission
    <2>3. QED
      BY <2>1, <2>2 DEF LifecycleIsConsistent
  <1>5. DeletionFollowsReview'
    BY <1>1 DEF IInv, DeletionFollowsReview, TypeOK, Submission, EntriesHaveDrafts
  <1>6. PendingIsWhatTheDraftSays'
    BY <1>1 DEF IInv, PendingIsWhatTheDraftSays, TypeOK, Submission, EntriesHaveDrafts
  <1>7. QED
    BY <1>2, <1>3, <1>4, <1>5, <1>6 DEF IInv

LEMMA DecisionKeepsIInv ==
    ASSUME IInv, NEW e \in Entries, NEW d \in Drafts, NEW s, NEW t, DecisionOn(e, d, s, t),
           \/ s = "withdrawn" /\ t = "draft" /\ ledger' = ledger
           \/ s = "sent_back" /\ t = "sent_back" /\ ledger' = ledger
           \/ /\ s = "approved" /\ t = "approved"
              /\ \E c \in Complete :
                    ledger' = ledger \cup {[source |-> d, entry |-> e, content |-> c]}
    PROVE  IInv'
  <1> USE DEF DecisionOn
  <1>1. /\ \A p \in ledger : p.source \in Drafts \ {d}
        /\ ~InLedger(d)
    BY DEF IInv, TypeOK, Policy, LifecycleIsConsistent, InLedger
  <1>2. CASE ledger' = ledger /\ s # "approved" /\ t # "approved"
    <2>1. \A x \in Drafts : (drafts'[x].status = "approved" <=> InLedger(x)')
      BY <1>1, <1>2 DEF IInv, LifecycleIsConsistent, InLedger
    <2>2. QueuedWorkIsReviewed'
      BY <1>1, <1>2 DEF IInv, QueuedWorkIsReviewed, EntriesOf
    <2>3. \A p, q \in ledger' : p.source = q.source => p = q
      BY <1>2 DEF IInv, LifecycleIsConsistent
    <2>4. ledger' \subseteq Policy
      BY <1>2 DEF IInv, TypeOK
    <2>5. QED
      BY <1>2, <2>1, <2>2, <2>3, <2>4, DecisionKeepsTables
  <1>3. CASE s = "approved" /\ t = "approved"
    <2>1. PICK c \in Complete :
              ledger' = ledger \cup {[source |-> d, entry |-> e, content |-> c]}
      BY <1>3
    <2> DEFINE new == [source |-> d, entry |-> e, content |-> c]
    <2>2. new \in Policy /\ new.source = d /\ new.entry = e
      BY DEF Policy
    <2>3. ledger' = ledger \cup {new}
      BY <2>1
    <2> HIDE DEF new
    <2>4. \A x \in Drafts : (drafts'[x].status = "approved" <=> InLedger(x)')
      BY <1>3, <2>2, <2>3 DEF IInv, LifecycleIsConsistent, InLedger
    <2>5. QueuedWorkIsReviewed'
      BY <1>1, <1>3, <2>2, <2>3 DEF IInv, QueuedWorkIsReviewed, EntriesOf
    <2>6. \A p, q \in ledger' : p.source = q.source => p = q
      BY <1>1, <2>2, <2>3 DEF IInv, LifecycleIsConsistent
    <2>7. ledger' \subseteq Policy
      BY <2>2, <2>3 DEF IInv, TypeOK
    <2>8. QED
      BY <1>3, <2>4, <2>5, <2>6, <2>7, DecisionKeepsTables
  <1>4. QED
    BY <1>2, <1>3

-----------------------------------------------------------------------------
(* Past the queue, and moved out of sight *)

LEMMA DirectApprovalKeepsIInv ==
    ASSUME IInv, NEW d \in Drafts, NEW from \in {"draft", "flagged"}, NEW c \in Contents,
           ResolveAdminDirect(d, from, c)
    PROVE  IInv'
  <1> DEFINE new == [source |-> d, entry |-> None, content |-> c]
  <1>1. new \in Policy /\ new.source = d /\ new.entry = None
    BY DEF Policy, ResolveAdminDirect, EnterLedger
  <1>2. /\ ledger' = ledger \cup {new} /\ queue' = queue
        /\ EntriesOf(d) = {} /\ ~InLedger(d)
    BY DEF ResolveAdminDirect, EnterLedger
  <1> HIDE DEF new
  <1>3. /\ drafts' \in [Drafts -> Draft]
        /\ drafts[d].status = from
        /\ drafts'[d].status = "approved" /\ ~drafts'[d].deleted
        /\ drafts'[d].link = drafts[d].link
        /\ drafts'[d].content = drafts[d].content
        /\ \A x \in Drafts \ {d} : drafts'[x] = drafts[x]
    BY TransitionEffect DEF IInv, ResolveAdminDirect, DraftStatus
  <1>4. drafts'[d].link = None
    BY <1>3 DEF IInv, LinksAreOwn
  <1>5. \A e \in Entries : queue[e].draft # d
    BY <1>2 DEF EntriesOf
  <1>6. TypeOK' /\ EntriesHaveDrafts' /\ DraftsHaveContent'
    BY <1>1, <1>2, <1>3 DEF IInv, TypeOK, EntriesHaveDrafts, DraftsHaveContent
  <1>7. LinksAreOwn'
    BY <1>2, <1>3, <1>4 DEF IInv, LinksAreOwn
  <1>8. LifecycleIsConsistent'
    <2>1. \A x \in Drafts : DraftAgreesWithQueue(x)'
      BY <1>2, <1>3, <1>4 DEF IInv, LifecycleIsConsistent, DraftAgreesWithQueue, EntriesOf
    <2>2. \A e \in Entries : queue'[e].draft # None => EntryAgreesWithDraft(e)'
      BY <1>2, <1>3, <1>5
         DEF IInv, LifecycleIsConsistent, EntryAgreesWithDraft, TypeOK, Submission
    <2>3. \A x \in Drafts : (drafts'[x].status = "approved" <=> InLedger(x)')
      BY <1>1, <1>2, <1>3 DEF IInv, LifecycleIsConsistent, InLedger
    <2>4. \A p, q \in ledger' : p.source = q.source => p = q
      BY <1>1, <1>2 DEF IInv, LifecycleIsConsistent, InLedger
    <2>5. QED
      BY <2>1, <2>2, <2>3, <2>4 DEF LifecycleIsConsistent
  <1>9. DeletionFollowsReview'
    BY <1>2, <1>3, <1>5 DEF IInv, DeletionFollowsReview, TypeOK, Submission, EntriesHaveDrafts
  <1>10. PendingIsWhatTheDraftSays'
    BY <1>2, <1>3, <1>5
       DEF IInv, PendingIsWhatTheDraftSays, TypeOK, Submission, EntriesHaveDrafts
  <1>11. QueuedWorkIsReviewed'
    BY <1>1, <1>2 DEF IInv, QueuedWorkIsReviewed, EntriesOf
  <1>12. QED
    BY <1>6, <1>7, <1>8, <1>9, <1>10, <1>11 DEF IInv

LEMMA MoveKeepsIInv ==
    ASSUME IInv, NEW e \in Entries, NEW deleted \in BOOLEAN, SubmissionMovable(e),
           SetSubmissionDeleted(e, deleted)
    PROVE  IInv'
  <1> DEFINE d == queue[e].draft
  <1>1. queue[e].status = "pending" /\ d \in Drafts /\ drafts[d].status = "submitted"
    BY PendingEntry DEF SubmissionMovable
  <1>2. /\ drafts' = [drafts EXCEPT ![d].deleted = deleted]
        /\ queue' = [queue EXCEPT ![e].deleted = deleted]
        /\ ledger' = ledger
    BY DEF SetSubmissionDeleted
  <1>3. d = queue[e].draft
    OBVIOUS
  <1> HIDE DEF d
  <1>4. /\ drafts' \in [Drafts -> Draft]
        /\ drafts'[d].deleted = deleted
        /\ \A x \in Drafts \ {d} : drafts'[x] = drafts[x]
        /\ \A x \in Drafts : /\ drafts'[x].status = drafts[x].status
                             /\ drafts'[x].link = drafts[x].link
                             /\ drafts'[x].content = drafts[x].content
    BY <1>1, <1>2 DEF IInv, TypeOK, Draft
  <1>5. /\ queue' \in [Entries -> Submission]
        /\ queue'[e].deleted = deleted
        /\ \A x \in Entries \ {e} : queue'[x] = queue[x]
        /\ \A x \in Entries : /\ queue'[x].status = queue[x].status
                              /\ queue'[x].draft = queue[x].draft
                              /\ queue'[x].payload = queue[x].payload
    BY <1>2 DEF IInv, TypeOK, Submission
  <1>6. \A x \in Entries \ {e} : queue[x].status = "pending" => queue[x].draft # d
    BY <1>3, PendingEntry DEF SubmissionMovable
  <1>7. TypeOK' /\ EntriesHaveDrafts' /\ DraftsHaveContent' /\ LinksAreOwn'
    BY <1>2, <1>4, <1>5, LifecycleAssumptions
       DEF IInv, TypeOK, Draft, EntriesHaveDrafts, DraftsHaveContent, LinksAreOwn
  <1>8. LifecycleIsConsistent'
    <2>1. \A x \in Drafts : DraftAgreesWithQueue(x)'
      BY <1>4, <1>5 DEF IInv, LifecycleIsConsistent, DraftAgreesWithQueue, EntriesOf
    <2>2. \A x \in Entries : queue'[x].draft # None => EntryAgreesWithDraft(x)'
      BY <1>4, <1>5
         DEF IInv, LifecycleIsConsistent, EntryAgreesWithDraft, TypeOK, Submission
    <2>3. \A x \in Drafts : (drafts'[x].status = "approved" <=> InLedger(x)')
      BY <1>2, <1>4 DEF IInv, LifecycleIsConsistent, InLedger
    <2>4. QED
      BY <1>2, <2>1, <2>2, <2>3 DEF IInv, LifecycleIsConsistent
  <1>9. DeletionFollowsReview'
    BY <1>1, <1>3, <1>4, <1>5, <1>6
       DEF IInv, DeletionFollowsReview, TypeOK, Submission, EntriesHaveDrafts
  <1>10. PendingIsWhatTheDraftSays'
    BY <1>4, <1>5 DEF IInv, PendingIsWhatTheDraftSays, TypeOK, Submission, EntriesHaveDrafts
  <1>11. QueuedWorkIsReviewed'
    BY <1>2, <1>5 DEF IInv, QueuedWorkIsReviewed, EntriesOf
  <1>12. QED
    BY <1>7, <1>8, <1>9, <1>10, <1>11 DEF IInv

-----------------------------------------------------------------------------
(* The invariant is inductive *)

LEMMA InitIInv == Init => IInv
  <1> SUFFICES ASSUME Init PROVE IInv
    OBVIOUS
  <1> USE DEF Init
  <1>1. TypeOK
    BY DEF TypeOK, Draft, Submission
  <1>2. EntriesHaveDrafts /\ DraftsHaveContent /\ LinksAreOwn /\ DeletionFollowsReview
    BY DEF EntriesHaveDrafts, DraftsHaveContent, LinksAreOwn, DeletionFollowsReview
  <1>3. LifecycleIsConsistent
    BY DEF LifecycleIsConsistent, DraftAgreesWithQueue, EntryAgreesWithDraft, InLedger
  <1>4. PendingIsWhatTheDraftSays /\ QueuedWorkIsReviewed
    BY DEF PendingIsWhatTheDraftSays, QueuedWorkIsReviewed
  <1>5. QED
    BY <1>1, <1>2, <1>3, <1>4 DEF IInv

(* The owner's and the admin's steps outside the queue. *)
LEMMA StandaloneSteps ==
    ASSUME IInv, NEW d \in Drafts,
           \/ \E c \in Contents : CreateDraft(d, c) \/ EditOwnDraft(d, c)
           \/ FlagDraftForHelp(d)
           \/ WithdrawFlaggedHelp(d)
           \/ SendBackFlaggedHelp(d)
           \/ SoftDeleteOwnDraft(d)
           \/ SoftDeleteHelp(d)
           \/ RestoreDraft(d)
    PROVE  IInv'
  <1>1. /\ TypeOK
        /\ drafts[d].status \in {"unborn", "draft", "flagged"} => drafts[d].link = None
        /\ drafts[d].status \in {"draft", "flagged"} => drafts[d].content \in Contents
    BY DEF IInv, LinksAreOwn, DraftsHaveContent
  <1>2. ASSUME NEW c \in Contents, CreateDraft(d, c) PROVE StandaloneChange(d)
    <2>1. ~drafts[d].deleted
      BY <1>2 DEF CreateDraft, IInv, DeletionFollowsReview
    <2>2. QED
      BY <1>1, <1>2, <2>1 DEF CreateDraft, StandaloneChange, TypeOK, Draft, DraftStatus
  <1>3. ASSUME NEW c \in Contents, EditOwnDraft(d, c) PROVE StandaloneChange(d)
    BY <1>1, <1>3 DEF EditOwnDraft, StandaloneChange, TypeOK, Draft, DraftStatus
  <1>4. ASSUME FlagDraftForHelp(d) PROVE StandaloneChange(d)
    BY <1>1, <1>4, TransitionEffect DEF FlagDraftForHelp, StandaloneChange, DraftStatus
  <1>5. ASSUME WithdrawFlaggedHelp(d) PROVE StandaloneChange(d)
    BY <1>1, <1>5, TransitionEffect DEF WithdrawFlaggedHelp, StandaloneChange, DraftStatus
  <1>6. ASSUME SendBackFlaggedHelp(d) PROVE StandaloneChange(d)
    BY <1>1, <1>6, TransitionEffect DEF SendBackFlaggedHelp, StandaloneChange, DraftStatus
  <1>7. ASSUME SoftDeleteOwnDraft(d) PROVE StandaloneChange(d)
    BY <1>1, <1>7 DEF SoftDeleteOwnDraft, Discardable, StandaloneChange, TypeOK, Draft
  <1>8. ASSUME SoftDeleteHelp(d) PROVE StandaloneChange(d)
    BY <1>1, <1>8 DEF SoftDeleteHelp, HelpMovable, StandaloneChange, TypeOK, Draft
  <1>9. ASSUME RestoreDraft(d) PROVE StandaloneChange(d)
    BY <1>1, <1>9 DEF RestoreDraft, HelpMovable, Discardable, StandaloneChange, TypeOK, Draft
  <1>10. StandaloneChange(d)
    BY <1>2, <1>3, <1>4, <1>5, <1>6, <1>7, <1>8, <1>9
  <1>11. QED
    BY <1>10, StandaloneKeepsIInv

(* The three decisions on a queued submission. *)
LEMMA QueueDecisions ==
    ASSUME IInv, NEW e \in Entries,
           \/ WithdrawPendingSubmission(e)
           \/ SendBackPendingSubmission(e)
           \/ \E c \in Contents : ResolveQueuedApproval(e, c)
    PROVE  IInv'
  <1>1. CASE WithdrawPendingSubmission(e)
    <2>1. /\ Decide(e, "withdrawn")
          /\ TransitionDraft(queue[e].draft, "submitted", "draft", None)
          /\ ledger' = ledger
      BY <1>1 DEF WithdrawPendingSubmission
    <2>2. queue[e].draft \in Drafts
      BY <2>1, PendingEntry DEF Decide
    <2>3. DecisionOn(e, queue[e].draft, "withdrawn", "draft")
      BY <2>1, DecisionEffect DEF QueueStatus, DraftStatus
    <2>4. QED
      BY <2>1, <2>2, <2>3, DecisionKeepsIInv
  <1>2. CASE SendBackPendingSubmission(e)
    <2>1. /\ Decide(e, "sent_back")
          /\ TransitionDraft(queue[e].draft, "submitted", "sent_back", None)
          /\ ledger' = ledger
      BY <1>2 DEF SendBackPendingSubmission
    <2>2. queue[e].draft \in Drafts
      BY <2>1, PendingEntry DEF Decide
    <2>3. DecisionOn(e, queue[e].draft, "sent_back", "sent_back")
      BY <2>1, DecisionEffect DEF QueueStatus, DraftStatus
    <2>4. QED
      BY <2>1, <2>2, <2>3, DecisionKeepsIInv
  <1>3. ASSUME NEW c \in Contents, ResolveQueuedApproval(e, c)
        PROVE  IInv'
    <2>1. /\ Decide(e, "approved")
          /\ TransitionDraft(queue[e].draft, "submitted", "approved", None)
          /\ c \in Complete
          /\ ledger' = ledger \cup {[source |-> queue[e].draft, entry |-> e, content |-> c]}
      BY <1>3 DEF ResolveQueuedApproval, EnterLedger
    <2>2. queue[e].draft \in Drafts
      BY <2>1, PendingEntry DEF Decide
    <2>3. DecisionOn(e, queue[e].draft, "approved", "approved")
      BY <2>1, DecisionEffect DEF QueueStatus, DraftStatus
    <2>4. QED
      BY <2>1, <2>2, <2>3, DecisionKeepsIInv
  <1>4. QED
    BY <1>1, <1>2, <1>3

LEMMA NextKeepsIInv ==
    ASSUME IInv, [Next]_vars
    PROVE  IInv'
  <1>1. CASE UNCHANGED vars
    <2> USE <1>1 DEF vars
    <2>1. TypeOK' /\ EntriesHaveDrafts' /\ DraftsHaveContent' /\ LinksAreOwn'
      BY DEF IInv, TypeOK, EntriesHaveDrafts, DraftsHaveContent, LinksAreOwn
    <2>2. LifecycleIsConsistent'
      BY DEF IInv, LifecycleIsConsistent, DraftAgreesWithQueue, EntryAgreesWithDraft,
             EntriesOf, InLedger
    <2>3. DeletionFollowsReview' /\ PendingIsWhatTheDraftSays' /\ QueuedWorkIsReviewed'
      BY DEF IInv, DeletionFollowsReview, PendingIsWhatTheDraftSays, QueuedWorkIsReviewed,
             EntriesOf
    <2>4. QED
      BY <2>1, <2>2, <2>3 DEF IInv
  <1>2. CASE Next
    <2>1. ASSUME NEW d \in Drafts, OwnerStep(d) PROVE IInv'
      <3>1. CASE \E e \in Entries : SubmitForApproval(d, e)
        BY <3>1, SubmitKeepsIInv
      <3>2. CASE SubmitAdminDraft(d)
        <4>1. drafts[d].status = "draft"
          BY <3>2 DEF SubmitAdminDraft, ResolveAdminDirect, TransitionDraft
        <4>2. drafts[d].content \in Contents
          BY <4>1 DEF IInv, DraftsHaveContent
        <4>3. QED
          BY <3>2, <4>2, DirectApprovalKeepsIInv DEF SubmitAdminDraft
      <3>3. QED
        BY <2>1, <3>1, <3>2, StandaloneSteps DEF OwnerStep
    <2>2. ASSUME NEW d \in Drafts, HelpStep(d) PROVE IInv'
      <3>1. CASE \E c \in Contents : ApproveFlaggedHelp(d, c)
        BY <3>1, DirectApprovalKeepsIInv DEF ApproveFlaggedHelp
      <3>2. QED
        BY <2>2, <3>1, StandaloneSteps DEF HelpStep
    <2>3. ASSUME NEW e \in Entries, QueueStep(e) PROVE IInv'
      <3>1. CASE SoftDeleteSubmission(e) \/ RestoreSubmission(e)
        BY <3>1, MoveKeepsIInv DEF SoftDeleteSubmission, RestoreSubmission
      <3>2. QED
        BY <2>3, <3>1, QueueDecisions DEF QueueStep
    <2>4. QED
      BY <1>2, <2>1, <2>2, <2>3 DEF Next
  <1>3. QED
    BY <1>1, <1>2

THEOREM InvariantHolds == Spec => []IInv
  <1>1. QED
    BY InitIInv, NextKeepsIInv, PTL DEF Spec

-----------------------------------------------------------------------------
(* The columns of the three tables keep their types, whatever sequence of  *)
(* operations is requested.                                                *)
THEOREM TypeCorrect == Spec => []TypeOK
  <1>1. IInv => TypeOK
    BY DEF IInv
  <1>2. QED
    BY <1>1, InvariantHolds, PTL

(* No transaction ever fails at commit on the deferred consistency trigger *)
(* of 0020 (807-945).                                                      *)
THEOREM LifecycleStaysConsistent == Spec => []LifecycleIsConsistent
  <1>1. IInv => LifecycleIsConsistent
    BY DEF IInv
  <1>2. QED
    BY <1>1, InvariantHolds, PTL

(* A draft that was ever queued reaches the ledger only through an         *)
(* approved entry of its own.                                              *)
THEOREM QueuedWorkStaysReviewed == Spec => []QueuedWorkIsReviewed
  <1>1. IInv => QueuedWorkIsReviewed
    BY DEF IInv
  <1>2. QED
    BY <1>1, InvariantHolds, PTL

(* A pending payload never differs from the draft it was taken from. *)
THEOREM PayloadsMatchDrafts == Spec => []PendingIsWhatTheDraftSays
  <1>1. IInv => PendingIsWhatTheDraftSays
    BY DEF IInv
  <1>2. QED
    BY <1>1, InvariantHolds, PTL

(* Whatever was deleted can be restored. *)
THEOREM DeletionIsRecoverable == Spec => []DeletedWorkIsRestorable
  <1>1. IInv => DeletedWorkIsRestorable
    <2> SUFFICES ASSUME IInv PROVE DeletedWorkIsRestorable
      OBVIOUS
    <2>1. \A d \in Drafts : drafts[d].status # "approved" => ~InLedger(d)
      BY DEF IInv, LifecycleIsConsistent
    <2>2. \A e \in Entries : queue[e].deleted =>
              SubmissionMovable(e) /\ drafts[queue[e].draft].deleted
      BY <2>1, PendingEntry DEF IInv, DeletionFollowsReview, SubmissionMovable
    <2>3. ASSUME NEW d \in Drafts, drafts[d].deleted
          PROVE  \/ HelpMovable(d) \/ Discardable(d)
                 \/ \E e \in Entries :
                       SubmissionMovable(e) /\ queue[e].draft = d /\ queue[e].deleted
      <3>1. CASE drafts[d].status \in {"draft", "flagged"}
        BY <2>1, <3>1 DEF IInv, LinksAreOwn, HelpMovable, Discardable
      <3>2. CASE drafts[d].status = "submitted"
        <4>1. /\ drafts[d].link \in EntriesOf(d)
              /\ queue[drafts[d].link].status = "pending"
          BY <3>2 DEF IInv, LifecycleIsConsistent, DraftAgreesWithQueue
        <4>2. drafts[d].link \in Entries /\ queue[drafts[d].link].draft = d
          BY <4>1 DEF EntriesOf
        <4>3. queue[drafts[d].link].deleted
          BY <2>3, <4>1, <4>2 DEF IInv, DeletionFollowsReview
        <4>4. QED
          BY <2>2, <4>2, <4>3
      <3>3. QED
        BY <2>3, <3>1, <3>2 DEF IInv, DeletionFollowsReview
    <2>4. QED
      BY <2>2, <2>3 DEF DeletedWorkIsRestorable
  <1>2. QED
    BY <1>1, InvariantHolds, PTL

-----------------------------------------------------------------------------
(* What a step leaves alone.  Each step names the one draft and the one    *)
(* entry it may write, both in a state that admits the write.              *)

(* An undeleted draft changes in any way; a deleted one is only restored. *)
WritesDraft(d) ==
    /\ drafts[d].status # "approved"
    /\ drafts[d].deleted => drafts'[d] = [drafts[d] EXCEPT !.deleted = FALSE]
    /\ \A x \in Drafts \ {d} : drafts'[x] = drafts[x]

WritesEntry(e) ==
    /\ queue[e].status \in {"unborn", "pending"}
    /\ queue[e].deleted => queue'[e] = [queue[e] EXCEPT !.deleted = FALSE]
    /\ \A x \in Entries \ {e} : queue'[x] = queue[x]

WritesAreAllowed ==
    /\ \E d \in Drafts : WritesDraft(d)
    /\ queue' = queue \/ \E e \in Entries : WritesEntry(e)
    /\ ledger \subseteq ledger'

LEMMA OwnerAndHelpWrites ==
    ASSUME IInv, NEW d \in Drafts, OwnerStep(d) \/ HelpStep(d)
    PROVE  WritesAreAllowed
  <1>1. drafts \in [Drafts -> Draft] /\ queue \in [Entries -> Submission]
    BY DEF IInv, TypeOK
  <1>2. drafts[d].deleted => drafts[d].status \in {"draft", "flagged", "submitted"}
    BY DEF IInv, DeletionFollowsReview
  <1>3. \A e \in Entries : queue[e].deleted => queue[e].status = "pending"
    BY DEF IInv, DeletionFollowsReview
  <1>4. ASSUME NEW from \in DraftStatus \ {"approved"}, NEW to, NEW e,
               TransitionDraft(d, from, to, e)
        PROVE  WritesDraft(d)
    BY <1>1, <1>4 DEF TransitionDraft, WritesDraft
  <1>5. WritesDraft(d)
    <2>1. ASSUME NEW c \in Contents, CreateDraft(d, c) \/ EditOwnDraft(d, c)
          PROVE  WritesDraft(d)
      BY <1>1, <1>2, <2>1 DEF CreateDraft, EditOwnDraft, WritesDraft
    <2>2. ASSUME NEW e \in Entries, SubmitForApproval(d, e) PROVE WritesDraft(d)
      BY <1>4, <2>2 DEF SubmitForApproval, DraftStatus
    <2>3. ASSUME FlagDraftForHelp(d) \/ WithdrawFlaggedHelp(d) \/ SendBackFlaggedHelp(d)
          PROVE  WritesDraft(d)
      BY <1>4, <2>3 DEF FlagDraftForHelp, WithdrawFlaggedHelp, SendBackFlaggedHelp, DraftStatus
    <2>4. ASSUME SubmitAdminDraft(d) \/ \E c \in Contents : ApproveFlaggedHelp(d, c)
          PROVE  WritesDraft(d)
      BY <1>4, <2>4 DEF SubmitAdminDraft, ApproveFlaggedHelp, ResolveAdminDirect, DraftStatus
    <2>5. ASSUME SoftDeleteOwnDraft(d) \/ SoftDeleteHelp(d) PROVE WritesDraft(d)
      BY <1>1, <2>5
         DEF SoftDeleteOwnDraft, SoftDeleteHelp, Discardable, HelpMovable, WritesDraft
    <2>6. ASSUME RestoreDraft(d) PROVE WritesDraft(d)
      BY <1>1, <2>6 DEF RestoreDraft, Discardable, HelpMovable, WritesDraft
    <2>7. QED
      BY <2>1, <2>2, <2>3, <2>4, <2>5, <2>6 DEF OwnerStep, HelpStep
  <1>6. CASE \E e \in Entries : SubmitForApproval(d, e)
    <2>1. PICK e \in Entries : SubmitForApproval(d, e)
      BY <1>6
    <2>2. WritesEntry(e) /\ ledger' = ledger
      BY <1>1, <1>3, <2>1 DEF SubmitForApproval, Queueable, WritesEntry
    <2>3. QED
      BY <1>5, <2>2 DEF WritesAreAllowed
  <1>7. CASE ~\E e \in Entries : SubmitForApproval(d, e)
    <2>1. queue' = queue /\ ledger \subseteq ledger'
      BY <1>7
         DEF OwnerStep, HelpStep, CreateDraft, EditOwnDraft, FlagDraftForHelp,
             WithdrawFlaggedHelp, SendBackFlaggedHelp, SoftDeleteOwnDraft, SoftDeleteHelp,
             RestoreDraft, SubmitAdminDraft, ApproveFlaggedHelp, ResolveAdminDirect, EnterLedger
    <2>2. QED
      BY <1>5, <2>1 DEF WritesAreAllowed
  <1>8. QED
    BY <1>6, <1>7

LEMMA QueueWrites ==
    ASSUME IInv, NEW e \in Entries, QueueStep(e)
    PROVE  WritesAreAllowed
  <1> DEFINE d == queue[e].draft
  <1>1. drafts \in [Drafts -> Draft] /\ queue \in [Entries -> Submission]
    BY DEF IInv, TypeOK
  <1>2. queue[e].status = "pending"
    BY DEF QueueStep, WithdrawPendingSubmission, ResolveQueuedApproval,
           SendBackPendingSubmission, Decide, SoftDeleteSubmission, RestoreSubmission,
           SubmissionMovable
  <1>3. d \in Drafts /\ drafts[d].status = "submitted"
    BY <1>2, PendingEntry
  <1>4. \/ \E s, t : Decide(e, s) /\ TransitionDraft(d, "submitted", t, None)
        \/ SetSubmissionDeleted(e, TRUE) /\ ~queue[e].deleted /\ ~drafts[d].deleted
        \/ SetSubmissionDeleted(e, FALSE)
    BY DEF QueueStep, WithdrawPendingSubmission, ResolveQueuedApproval,
           SendBackPendingSubmission, SoftDeleteSubmission, RestoreSubmission
  <1>5. ledger \subseteq ledger'
    BY DEF QueueStep, WithdrawPendingSubmission, ResolveQueuedApproval, EnterLedger,
           SendBackPendingSubmission, SoftDeleteSubmission, RestoreSubmission,
           SetSubmissionDeleted
  <1>6. WritesDraft(d)
    BY <1>1, <1>3, <1>4 DEF TransitionDraft, SetSubmissionDeleted, WritesDraft
  <1>7. WritesEntry(e)
    BY <1>1, <1>2, <1>4 DEF Decide, SetSubmissionDeleted, WritesEntry
  <1>8. QED
    BY <1>3, <1>5, <1>6, <1>7 DEF WritesAreAllowed

LEMMA StepWrites ==
    ASSUME IInv, [Next]_vars
    PROVE  UNCHANGED vars \/ WritesAreAllowed
  <1>1. CASE Next
    BY <1>1, OwnerAndHelpWrites, QueueWrites DEF Next
  <1>2. QED
    BY <1>1

(* A decided entry, an approved draft and a ledger policy are never        *)
(* written again by any operation of the lifecycle.                        *)
THEOREM DecisionsStayFinal == Spec => DecisionsAreFinal
  <1> DEFINE A == /\ \A e \in Entries :
                        queue[e].status \notin {"unborn", "pending"} => queue'[e] = queue[e]
                  /\ \A d \in Drafts :
                        drafts[d].status = "approved" => drafts'[d] = drafts[d]
                  /\ ledger \subseteq ledger'
  <1>1. IInv /\ [Next]_vars => A
    <2> SUFFICES ASSUME IInv, [Next]_vars PROVE A
      OBVIOUS
    <2>1. CASE WritesAreAllowed
      BY <2>1 DEF WritesAreAllowed, WritesDraft, WritesEntry
    <2>2. CASE UNCHANGED vars
      BY <2>2 DEF vars
    <2>3. QED
      BY <2>1, <2>2, StepWrites
  <1>2. QED
    BY <1>1, InvariantHolds, PTL DEF Spec, DecisionsAreFinal

(* Deleted work is out of reach of every operation but its restoration,    *)
(* which brings it back as it was.                                         *)
THEOREM DeletedWorkStaysUntouched == Spec => DeletedWorkIsUntouched
  <1> DEFINE A == /\ \A d \in Drafts : drafts[d].deleted =>
                        drafts'[d] \in {drafts[d], [drafts[d] EXCEPT !.deleted = FALSE]}
                  /\ \A e \in Entries : queue[e].deleted =>
                        queue'[e] \in {queue[e], [queue[e] EXCEPT !.deleted = FALSE]}
  <1>1. IInv /\ [Next]_vars => A
    <2> SUFFICES ASSUME IInv, [Next]_vars PROVE A
      OBVIOUS
    <2>1. CASE WritesAreAllowed
      <3>1. PICK d \in Drafts : WritesDraft(d)
        BY <2>1 DEF WritesAreAllowed
      <3>2. \A x \in Drafts : drafts[x].deleted =>
                drafts'[x] \in {drafts[x], [drafts[x] EXCEPT !.deleted = FALSE]}
        BY <3>1 DEF WritesDraft
      <3>3. ASSUME NEW e \in Entries, WritesEntry(e)
            PROVE  \A x \in Entries : queue[x].deleted =>
                      queue'[x] \in {queue[x], [queue[x] EXCEPT !.deleted = FALSE]}
        BY <3>3 DEF WritesEntry
      <3>4. QED
        BY <2>1, <3>2, <3>3 DEF WritesAreAllowed
    <2>2. CASE UNCHANGED vars
      BY <2>2 DEF vars
    <2>3. QED
      BY <2>1, <2>2, StepWrites
  <1>2. QED
    BY <1>1, InvariantHolds, PTL DEF Spec, DeletedWorkIsUntouched

-----------------------------------------------------------------------------
(* The life of a turn-in                                                   *)

LEMMA StageNames ==
    /\ StageOf("unborn") = "unwritten"
    /\ StageOf("draft") = "written"
    /\ StageOf("submitted") = "under review"
    /\ StageOf("flagged") = "up for help"
    /\ StageOf("sent_back") = "sent back"
    /\ StageOf("approved") = "accepted"
  BY DEF StageOf

(* A step that writes one draft moves one turn-in.                         *)
LEMMA OneDraftOneTurnIn ==
    ASSUME drafts' \in [Drafts -> Draft], NEW d \in Drafts,
           \A x \in Drafts \ {d} : drafts'[x] = drafts[x]
    PROVE  /\ Stage' = [Stage EXCEPT ![d] = StageOf(drafts'[d].status)]
           /\ Text' = [Text EXCEPT ![d] = drafts'[d].content]
           /\ Hidden' = [Hidden EXCEPT ![d] = drafts'[d].deleted]
           /\ drafts'[d].status = drafts[d].status => Stage' = Stage
           /\ drafts'[d].content = drafts[d].content => Text' = Text
           /\ drafts'[d].deleted = drafts[d].deleted => Hidden' = Hidden
  <1>1. Stage' = [Stage EXCEPT ![d] = StageOf(drafts'[d].status)]
    BY DEF Stage
  <1>2. Text' = [Text EXCEPT ![d] = drafts'[d].content]
    BY DEF Text
  <1>3. Hidden' = [Hidden EXCEPT ![d] = drafts'[d].deleted]
    BY DEF Hidden
  <1>4. drafts'[d].status = drafts[d].status => Stage' = Stage
    BY DEF Stage
  <1>5. drafts'[d].content = drafts[d].content => Text' = Text
    BY DEF Text
  <1>6. drafts'[d].deleted = drafts[d].deleted => Hidden' = Hidden
    BY DEF Hidden
  <1>7. QED
    BY <1>1, <1>2, <1>3, <1>4, <1>5, <1>6

(* A transition of a draft is a move of its turn-in, text and sight kept.  *)
LEMMA TransitionMoves ==
    ASSUME TypeOK, NEW d \in Drafts, NEW from \in DraftStatus, NEW to \in DraftStatus,
           NEW e \in Entries \cup {None}, TransitionDraft(d, from, to, e)
    PROVE  /\ Stage[d] = StageOf(from) /\ ~Hidden[d]
           /\ Stage' = [Stage EXCEPT ![d] = StageOf(to)]
           /\ UNCHANGED <<Text, Hidden>>
  <1>1. /\ drafts' \in [Drafts -> Draft]
        /\ drafts[d].status = from /\ ~drafts[d].deleted
        /\ drafts'[d].status = to /\ ~drafts'[d].deleted
        /\ drafts'[d].content = drafts[d].content
        /\ \A x \in Drafts \ {d} : drafts'[x] = drafts[x]
    BY TransitionEffect
  <1>2. drafts'[d].deleted = drafts[d].deleted
    BY <1>1 DEF TypeOK, Draft
  <1>3. Stage[d] = StageOf(from) /\ ~Hidden[d]
    BY <1>1 DEF Stage, Hidden
  <1>4. QED
    BY <1>1, <1>2, <1>3, OneDraftOneTurnIn

LEMMA SameEntriesSameReviews ==
    ASSUME \A e \in Entries : queue'[e].draft = queue[e].draft
    PROVE  Reviewed' = Reviewed
  <1>1. \A d \in Drafts : EntriesOf(d)' = EntriesOf(d)
    BY DEF EntriesOf
  <1>2. QED
    BY <1>1 DEF Reviewed

LEMMA SamePoliciesSameTexts ==
    ASSUME ledger' = ledger
    PROVE  Accepted' = Accepted
  BY DEF Accepted

(* The policy of a draft is the one text accepted for it.                  *)
LEMMA NewPolicyIsAccepted ==
    ASSUME TypeOK, NEW d \in Drafts, NEW e, NEW c, EnterLedger(d, e, c)
    PROVE  /\ c \in Complete
           /\ Accepted[d] = {}
           /\ Accepted' = [Accepted EXCEPT ![d] = {c}]
  <1> DEFINE p == [source |-> d, entry |-> e, content |-> c]
  <1>1. ledger' = ledger \cup {p} /\ c \in Complete /\ \A q \in ledger : q.source # d
    BY DEF EnterLedger, InLedger
  <1>2. p.source = d /\ p.content = c
    OBVIOUS
  <1> HIDE DEF p
  <1>3. Accepted[d] = {}
    BY <1>1 DEF Accepted
  <1>4. {q.content : q \in {r \in ledger' : r.source = d}} = {c}
    <2>1. {r \in ledger' : r.source = d} = {p}
      BY <1>1, <1>2
    <2>2. QED
      BY <1>2, <2>1
  <1>5. \A x \in Drafts \ {d} :
            {q.content : q \in {r \in ledger' : r.source = x}} = Accepted[x]
    <2> TAKE x \in Drafts \ {d}
    <2>1. {r \in ledger' : r.source = x} = {r \in ledger : r.source = x}
      BY <1>1, <1>2
    <2>2. QED
      BY <2>1 DEF Accepted
  <1>6. Accepted' = [Accepted EXCEPT ![d] = {c}]
    BY <1>4, <1>5 DEF Accepted
  <1>7. QED
    BY <1>1, <1>3, <1>6

(* The owner's and the admin's steps outside the queue.                    *)
LEMMA StandaloneLives ==
    ASSUME IInv, NEW d \in Drafts,
           \/ \E c \in Contents : CreateDraft(d, c) \/ EditOwnDraft(d, c)
           \/ FlagDraftForHelp(d)
           \/ WithdrawFlaggedHelp(d)
           \/ SendBackFlaggedHelp(d)
           \/ SoftDeleteOwnDraft(d)
           \/ SoftDeleteHelp(d)
           \/ RestoreDraft(d)
    PROVE  Life!ReviewNext
  <1> USE StageNames
  <1>1. TypeOK /\ drafts \in [Drafts -> Draft]
    BY DEF IInv, TypeOK
  <1>2. UNCHANGED <<Reviewed, Accepted>>
    <2>1. queue' = queue /\ ledger' = ledger
      BY DEF CreateDraft, EditOwnDraft, FlagDraftForHelp, WithdrawFlaggedHelp,
             SendBackFlaggedHelp, SoftDeleteOwnDraft, SoftDeleteHelp, RestoreDraft
    <2>2. QED
      BY <2>1, SameEntriesSameReviews, SamePoliciesSameTexts
  <1>3. ASSUME NEW c \in Contents, CreateDraft(d, c) \/ EditOwnDraft(d, c)
        PROVE  Life!Write(d, c)
    <2>1. /\ drafts[d].status \in {"unborn", "draft", "sent_back"} /\ ~drafts[d].deleted
          /\ drafts' \in [Drafts -> Draft]
          /\ drafts'[d].status = "draft" /\ drafts'[d].content = c
          /\ drafts'[d].deleted = drafts[d].deleted
          /\ \A x \in Drafts \ {d} : drafts'[x] = drafts[x]
      <3>1. CASE CreateDraft(d, c)
        <4>1. drafts[d].status = "unborn" /\ ~drafts[d].deleted
          BY <3>1 DEF CreateDraft, IInv, DeletionFollowsReview
        <4>2. QED
          BY <1>1, <3>1, <4>1 DEF CreateDraft, Draft, DraftStatus
      <3>2. CASE EditOwnDraft(d, c)
        BY <1>1, <3>2 DEF EditOwnDraft, Draft, DraftStatus
      <3>3. QED
        BY <1>3, <3>1, <3>2
    <2>2. /\ Stage' = [Stage EXCEPT ![d] = "written"]
          /\ Text' = [Text EXCEPT ![d] = c]
          /\ Hidden' = Hidden
      <3>1. /\ Stage' = [Stage EXCEPT ![d] = StageOf(drafts'[d].status)]
            /\ Text' = [Text EXCEPT ![d] = drafts'[d].content]
            /\ drafts'[d].deleted = drafts[d].deleted => Hidden' = Hidden
        BY <2>1, OneDraftOneTurnIn
      <3>2. QED
        BY <2>1, <3>1
    <2>3. Stage[d] \in {"unwritten", "written", "sent back"} /\ ~Hidden[d]
      BY <2>1 DEF Stage, Hidden
    <2>4. QED
      BY <1>2, <2>2, <2>3 DEF Life!Write, Life!Move
  <1>4. ASSUME FlagDraftForHelp(d) PROVE Life!AskForHelp(d)
    <2>1. TransitionDraft(d, "draft", "flagged", None)
      BY <1>4 DEF FlagDraftForHelp
    <2>2. /\ Stage[d] = "written" /\ ~Hidden[d]
          /\ Stage' = [Stage EXCEPT ![d] = "up for help"]
          /\ UNCHANGED <<Text, Hidden>>
      BY <1>1, <2>1, TransitionMoves DEF DraftStatus
    <2>3. QED
      BY <1>2, <2>2 DEF Life!AskForHelp, Life!Move
  <1>5. ASSUME WithdrawFlaggedHelp(d) PROVE Life!TakeBack(d)
    <2>1. TransitionDraft(d, "flagged", "draft", None)
      BY <1>5 DEF WithdrawFlaggedHelp
    <2>2. /\ Stage[d] = "up for help" /\ ~Hidden[d]
          /\ Stage' = [Stage EXCEPT ![d] = "written"]
          /\ UNCHANGED <<Text, Hidden>>
      BY <1>1, <2>1, TransitionMoves DEF DraftStatus
    <2>3. QED
      BY <1>2, <2>2 DEF Life!TakeBack, Life!Move
  <1>6. ASSUME SendBackFlaggedHelp(d) PROVE Life!SendBack(d)
    <2>1. TransitionDraft(d, "flagged", "sent_back", None)
      BY <1>6 DEF SendBackFlaggedHelp
    <2>2. /\ Stage[d] = "up for help" /\ ~Hidden[d]
          /\ Stage' = [Stage EXCEPT ![d] = "sent back"]
          /\ UNCHANGED <<Text, Hidden>>
      BY <1>1, <2>1, TransitionMoves DEF DraftStatus
    <2>3. QED
      BY <1>2, <2>2 DEF Life!SendBack, Life!Move
  <1>7. ASSUME NEW b \in BOOLEAN,
               drafts' = [drafts EXCEPT ![d].deleted = b]
        PROVE  Hidden' = [Hidden EXCEPT ![d] = b] /\ UNCHANGED <<Stage, Text>>
    <2>1. /\ drafts' \in [Drafts -> Draft]
          /\ drafts'[d].deleted = b
          /\ drafts'[d].status = drafts[d].status
          /\ drafts'[d].content = drafts[d].content
          /\ \A x \in Drafts \ {d} : drafts'[x] = drafts[x]
      BY <1>1, <1>7 DEF Draft
    <2>2. QED
      BY <2>1, OneDraftOneTurnIn
  <1>8. ASSUME SoftDeleteOwnDraft(d) \/ SoftDeleteHelp(d) PROVE Life!Hide(d)
    <2>1. /\ drafts[d].status \in {"draft", "flagged"} /\ ~drafts[d].deleted
          /\ drafts' = [drafts EXCEPT ![d].deleted = TRUE]
      BY <1>8 DEF SoftDeleteOwnDraft, SoftDeleteHelp, Discardable, HelpMovable
    <2>2. Stage[d] \in {"written", "up for help"} /\ ~Hidden[d]
      BY <2>1 DEF Stage, Hidden
    <2>3. Hidden' = [Hidden EXCEPT ![d] = TRUE] /\ UNCHANGED <<Stage, Text>>
      BY <1>7, <2>1
    <2>4. QED
      BY <1>2, <2>2, <2>3 DEF Life!Hide
  <1>9. ASSUME RestoreDraft(d) PROVE Life!BringBack(d)
    <2>1. drafts[d].deleted /\ drafts' = [drafts EXCEPT ![d].deleted = FALSE]
      BY <1>9 DEF RestoreDraft
    <2>2. Hidden[d]
      BY <2>1 DEF Hidden
    <2>3. Hidden' = [Hidden EXCEPT ![d] = FALSE] /\ UNCHANGED <<Stage, Text>>
      BY <1>7, <2>1
    <2>4. QED
      BY <1>2, <2>2, <2>3 DEF Life!BringBack
  <1>10. QED
    BY <1>3, <1>4, <1>5, <1>6, <1>8, <1>9 DEF Life!ReviewNext

LEMMA SubmissionLives ==
    ASSUME IInv, NEW d \in Drafts, NEW e \in Entries, SubmitForApproval(d, e)
    PROVE  Life!ReviewNext
  <1> USE StageNames
  <1>1. TypeOK /\ queue \in [Entries -> Submission]
    BY DEF IInv, TypeOK
  <1>2. TransitionDraft(d, "draft", "submitted", e)
    BY DEF SubmitForApproval
  <1>3. /\ Stage[d] = "written" /\ ~Hidden[d]
        /\ Stage' = [Stage EXCEPT ![d] = "under review"]
        /\ UNCHANGED <<Text, Hidden>>
    BY <1>1, <1>2, TransitionMoves DEF DraftStatus
  <1>4. queue'[e].draft = d /\ \A x \in Entries \ {e} : queue'[x] = queue[x]
    BY <1>1 DEF SubmitForApproval
  <1>5. queue[e].draft = None
    BY DEF SubmitForApproval, Queueable, IInv, EntriesHaveDrafts
  <1>6. Reviewed' = [Reviewed EXCEPT ![d] = TRUE]
    <2>1. EntriesOf(d)' # {}
      BY <1>4 DEF EntriesOf
    <2>2. \A x \in Drafts \ {d} : EntriesOf(x)' = EntriesOf(x)
      BY <1>4, <1>5, LifecycleAssumptions DEF EntriesOf
    <2>3. QED
      BY <2>1, <2>2 DEF Reviewed
  <1>7. Text[d] \in Complete
    BY DEF SubmitForApproval, Queueable, Text
  <1>8. Accepted' = Accepted
    BY SamePoliciesSameTexts DEF SubmitForApproval
  <1>9. Life!PutUnderReview(d)
    BY <1>3, <1>6, <1>7, <1>8 DEF Life!PutUnderReview, Life!Move
  <1>10. QED
    BY <1>9 DEF Life!ReviewNext

(* An admin's own draft and a help request go to the ledger only if the    *)
(* turn-in was never under review.                                         *)
LEMMA DirectApprovalLives ==
    ASSUME IInv, NEW d \in Drafts, NEW from \in {"draft", "flagged"}, NEW c,
           from = "draft" => c = drafts[d].content,
           ResolveAdminDirect(d, from, c)
    PROVE  Life!ReviewNext
  <1> USE StageNames
  <1>1. TypeOK /\ from \in DraftStatus
    BY DEF IInv, DraftStatus
  <1>2. /\ EntriesOf(d) = {}
        /\ TransitionDraft(d, from, "approved", None)
        /\ EnterLedger(d, None, c)
        /\ queue' = queue
    BY DEF ResolveAdminDirect
  <1>3. /\ Stage[d] = StageOf(from) /\ ~Hidden[d]
        /\ Stage' = [Stage EXCEPT ![d] = "accepted"]
        /\ UNCHANGED <<Text, Hidden>>
    BY <1>1, <1>2, TransitionMoves DEF DraftStatus
  <1>4. ~Reviewed[d] /\ Reviewed' = Reviewed
    BY <1>2, SameEntriesSameReviews DEF Reviewed
  <1>5. c \in Complete /\ Accepted[d] = {} /\ Accepted' = [Accepted EXCEPT ![d] = {c}]
    BY <1>1, <1>2, NewPolicyIsAccepted
  <1>6. Stage[d] = "written" => c = Text[d]
    BY <1>3 DEF Text
  <1>7. Life!Accept(d, c)
    BY <1>3, <1>4, <1>5, <1>6 DEF Life!Accept, Life!Move
  <1>8. QED
    BY <1>5, <1>7 DEF Life!ReviewNext

(* A decision through an entry reaches the turn-in it was submitted for.   *)
LEMMA QueueLives ==
    ASSUME IInv, NEW e \in Entries, QueueStep(e)
    PROVE  Life!ReviewNext
  <1> USE StageNames
  <1> DEFINE d == queue[e].draft
  <1>1. TypeOK /\ drafts \in [Drafts -> Draft] /\ queue \in [Entries -> Submission]
    BY DEF IInv, TypeOK
  <1>2. queue[e].status = "pending"
    BY DEF QueueStep, WithdrawPendingSubmission, ResolveQueuedApproval,
           SendBackPendingSubmission, Decide, SoftDeleteSubmission, RestoreSubmission,
           SubmissionMovable
  <1>3. d \in Drafts /\ drafts[d].status = "submitted"
    BY <1>2, PendingEntry
  <1>4. Reviewed' = Reviewed
    <2>1. \E s : queue' = [queue EXCEPT ![e].status = s]
                   \/ queue' = [queue EXCEPT ![e].deleted = s]
      BY DEF QueueStep, WithdrawPendingSubmission, ResolveQueuedApproval,
             SendBackPendingSubmission, Decide, SoftDeleteSubmission, RestoreSubmission,
             SetSubmissionDeleted
    <2>2. \A x \in Entries : queue'[x].draft = queue[x].draft
      <3>1. PICK s : \/ queue' = [queue EXCEPT ![e].status = s]
                     \/ queue' = [queue EXCEPT ![e].deleted = s]
        BY <2>1
      <3>2. queue[e] \in Submission
        BY <1>1
      <3>3. CASE queue' = [queue EXCEPT ![e].status = s]
        <4>1. queue'[e] = [queue[e] EXCEPT !.status = s]
          BY <1>1, <3>3
        <4>2. queue'[e].draft = queue[e].draft
          BY <3>2, <4>1 DEF Submission
        <4>3. QED
          BY <1>1, <3>3, <4>2
      <3>4. CASE queue' = [queue EXCEPT ![e].deleted = s]
        <4>1. queue'[e] = [queue[e] EXCEPT !.deleted = s]
          BY <1>1, <3>4
        <4>2. queue'[e].draft = queue[e].draft
          BY <3>2, <4>1 DEF Submission
        <4>3. QED
          BY <1>1, <3>4, <4>2
      <3>5. QED
        BY <3>1, <3>3, <3>4
    <2>3. QED
      BY <2>2, SameEntriesSameReviews
  <1> HIDE DEF d
  <1>5. ASSUME NEW to \in DraftStatus, TransitionDraft(d, "submitted", to, None)
        PROVE  /\ Stage[d] = "under review" /\ ~Hidden[d]
               /\ Stage' = [Stage EXCEPT ![d] = StageOf(to)]
               /\ UNCHANGED <<Text, Hidden>>
    BY <1>1, <1>3, <1>5, TransitionMoves DEF DraftStatus
  <1>6. CASE WithdrawPendingSubmission(e)
    <2>1. TransitionDraft(d, "submitted", "draft", None) /\ ledger' = ledger
      BY <1>6 DEF WithdrawPendingSubmission, d
    <2>2. /\ Stage[d] = "under review" /\ ~Hidden[d]
          /\ Stage' = [Stage EXCEPT ![d] = "written"]
          /\ UNCHANGED <<Text, Hidden>>
      BY <1>5, <2>1 DEF DraftStatus
    <2>3. Life!TakeBack(d)
      BY <1>4, <2>1, <2>2, SamePoliciesSameTexts DEF Life!TakeBack, Life!Move
    <2>4. QED
      BY <1>3, <2>3 DEF Life!ReviewNext
  <1>7. CASE SendBackPendingSubmission(e)
    <2>1. TransitionDraft(d, "submitted", "sent_back", None) /\ ledger' = ledger
      BY <1>7 DEF SendBackPendingSubmission, d
    <2>2. /\ Stage[d] = "under review" /\ ~Hidden[d]
          /\ Stage' = [Stage EXCEPT ![d] = "sent back"]
          /\ UNCHANGED <<Text, Hidden>>
      BY <1>5, <2>1 DEF DraftStatus
    <2>3. Life!SendBack(d)
      BY <1>4, <2>1, <2>2, SamePoliciesSameTexts DEF Life!SendBack, Life!Move
    <2>4. QED
      BY <1>3, <2>3 DEF Life!ReviewNext
  <1>8. ASSUME NEW c \in Contents, ResolveQueuedApproval(e, c) PROVE Life!ReviewNext
    <2>1. TransitionDraft(d, "submitted", "approved", None) /\ EnterLedger(d, e, c)
      BY <1>8 DEF ResolveQueuedApproval, d
    <2>2. /\ Stage[d] = "under review" /\ ~Hidden[d]
          /\ Stage' = [Stage EXCEPT ![d] = "accepted"]
          /\ UNCHANGED <<Text, Hidden>>
      BY <1>5, <2>1 DEF DraftStatus
    <2>3. c \in Complete /\ Accepted[d] = {} /\ Accepted' = [Accepted EXCEPT ![d] = {c}]
      BY <1>1, <1>3, <2>1, NewPolicyIsAccepted
    <2>4. Life!Accept(d, c)
      BY <1>4, <2>2, <2>3 DEF Life!Accept, Life!Move
    <2>5. QED
      BY <1>3, <2>3, <2>4 DEF Life!ReviewNext
  <1>9. ASSUME NEW b \in BOOLEAN, SetSubmissionDeleted(e, b)
        PROVE  /\ Hidden' = [Hidden EXCEPT ![d] = b]
               /\ UNCHANGED <<Stage, Text, Accepted>>
               /\ Stage[d] = "under review"
    <2>1. drafts' = [drafts EXCEPT ![d].deleted = b] /\ ledger' = ledger
      BY <1>9 DEF SetSubmissionDeleted, d
    <2>2. /\ drafts' \in [Drafts -> Draft]
          /\ drafts'[d].deleted = b
          /\ drafts'[d].status = drafts[d].status
          /\ drafts'[d].content = drafts[d].content
          /\ \A x \in Drafts \ {d} : drafts'[x] = drafts[x]
      BY <1>1, <1>3, <2>1 DEF Draft
    <2>3. Stage[d] = "under review"
      BY <1>3 DEF Stage
    <2>4. QED
      BY <1>3, <2>1, <2>2, <2>3, OneDraftOneTurnIn, SamePoliciesSameTexts
  <1>10. CASE SoftDeleteSubmission(e)
    <2>1. SetSubmissionDeleted(e, TRUE) /\ ~Hidden[d]
      BY <1>3, <1>10 DEF SoftDeleteSubmission, Hidden, d
    <2>2. Life!Hide(d)
      BY <1>4, <1>9, <2>1 DEF Life!Hide
    <2>3. QED
      BY <1>3, <2>2 DEF Life!ReviewNext
  <1>11. CASE RestoreSubmission(e)
    <2>1. SetSubmissionDeleted(e, FALSE) /\ Hidden[d]
      BY <1>3, <1>11 DEF RestoreSubmission, Hidden, d
    <2>2. Life!BringBack(d)
      BY <1>4, <1>9, <2>1 DEF Life!BringBack
    <2>3. QED
      BY <1>3, <2>2 DEF Life!ReviewNext
  <1>12. QED
    BY <1>6, <1>7, <1>8, <1>10, <1>11 DEF QueueStep

(* Draft, queue entries and policy together implement the life of one      *)
(* turn-in of TurnInReview: no transaction moves two, none moves one that  *)
(* is hidden, and one ever reviewed is accepted only from review.          *)
THEOREM EveryLifeIsLed == Spec => EveryTurnInLeadsItsLife
  <1>1. Init => Life!ReviewInit
    <2> SUFFICES ASSUME Init PROVE Life!ReviewInit
      OBVIOUS
    <2>1. Stage = [d \in Drafts |-> "unwritten"]
      BY StageNames DEF Init, Stage
    <2>2. /\ Text = [d \in Drafts |-> None]
          /\ Hidden = [d \in Drafts |-> FALSE]
      BY DEF Init, Text, Hidden
    <2>3. Reviewed = [d \in Drafts |-> FALSE]
      BY LifecycleAssumptions DEF Init, Reviewed, EntriesOf
    <2>4. Accepted = [d \in Drafts |-> {}]
      BY DEF Init, Accepted
    <2>5. QED
      BY <2>1, <2>2, <2>3, <2>4 DEF Life!ReviewInit
  <1>2. IInv /\ [Next]_vars => [Life!ReviewNext]_(Life!reviewVars)
    <2> SUFFICES ASSUME IInv, [Next]_vars
                 PROVE  [Life!ReviewNext]_(Life!reviewVars)
      OBVIOUS
    <2>1. CASE UNCHANGED vars
      BY <2>1 DEF vars, Life!reviewVars, Stage, Text, Hidden, Reviewed, EntriesOf,
                  Accepted
    <2>2. ASSUME NEW d \in Drafts, OwnerStep(d) PROVE Life!ReviewNext
      <3>1. CASE \E e \in Entries : SubmitForApproval(d, e)
        BY <3>1, SubmissionLives
      <3>2. CASE SubmitAdminDraft(d)
        BY <3>2, DirectApprovalLives DEF SubmitAdminDraft
      <3>3. QED
        BY <2>2, <3>1, <3>2, StandaloneLives DEF OwnerStep
    <2>3. ASSUME NEW d \in Drafts, HelpStep(d) PROVE Life!ReviewNext
      <3>1. CASE \E c \in Contents : ApproveFlaggedHelp(d, c)
        BY <3>1, DirectApprovalLives DEF ApproveFlaggedHelp
      <3>2. QED
        BY <2>3, <3>1, StandaloneLives DEF HelpStep
    <2>4. ASSUME NEW e \in Entries, QueueStep(e) PROVE Life!ReviewNext
      BY <2>4, QueueLives
    <2>5. QED
      BY <2>1, <2>2, <2>3, <2>4 DEF Next
  <1>3. QED
    BY <1>1, <1>2, InvariantHolds, PTL
       DEF Spec, EveryTurnInLeadsItsLife, Life!ReviewSpec

-----------------------------------------------------------------------------
(* What the refuted sentence needs to be true.                             *)

(* A draft is flagged only if it was never queued.                         *)
FlagsOnlyUnqueued ==
    \A d \in Drafts :
        drafts[d].status = "draft" /\ drafts'[d].status = "flagged"
            => EntriesOf(d) = {}

FlaggedWasNeverQueued ==
    \A d \in Drafts : drafts[d].status = "flagged" => EntriesOf(d) = {}

(* server/approval-queue/README.md 18-21: flagged help can be pushed       *)
(* through exactly as far as no draft with a history in the queue is       *)
(* flagged; flag_draft_for_help (drizzle/0020, 332) asks for no more than  *)
(* the status.  Nothing else takes the way out from a help request.        *)
THEOREM HelpGoesThroughUnlessQueuedBefore ==
    Spec /\ [][FlagsOnlyUnqueued]_vars => []FlaggedHelpCanBePushedThrough
  <1>1. Init => FlaggedWasNeverQueued
    BY DEF Init, FlaggedWasNeverQueued
  <1>2. IInv /\ FlaggedWasNeverQueued /\ [Next]_vars /\ [FlagsOnlyUnqueued]_vars
          => FlaggedWasNeverQueued'
    <2> SUFFICES ASSUME IInv, FlaggedWasNeverQueued, [Next]_vars, FlagsOnlyUnqueued
                 PROVE  FlaggedWasNeverQueued'
      BY DEF vars, FlaggedWasNeverQueued, EntriesOf
    <2>1. ASSUME \A e \in Entries : queue'[e].draft = queue[e].draft,
                 \A d \in Drafts : drafts'[d].status = "flagged" =>
                     drafts[d].status \in {"draft", "flagged"}
          PROVE  FlaggedWasNeverQueued'
      BY <2>1 DEF FlaggedWasNeverQueued, FlagsOnlyUnqueued, EntriesOf
    <2>2. CASE UNCHANGED vars
      BY <2>1, <2>2 DEF vars
    <2>3. drafts \in [Drafts -> Draft] /\ queue \in [Entries -> Submission] /\ TypeOK
      BY DEF IInv, TypeOK
    <2>4. ASSUME NEW d \in Drafts, NEW e \in Entries, SubmitForApproval(d, e)
          PROVE  FlaggedWasNeverQueued'
      <3>1. queue'[e].draft = d /\ \A x \in Entries \ {e} : queue'[x] = queue[x]
        BY <2>3, <2>4 DEF SubmitForApproval
      <3>2. /\ drafts'[d].status = "submitted"
            /\ \A x \in Drafts \ {d} : drafts'[x] = drafts[x]
        BY <2>3, <2>4, TransitionEffect DEF SubmitForApproval, DraftStatus
      <3>3. QED
        BY <3>1, <3>2 DEF FlaggedWasNeverQueued, EntriesOf
    <2>5. ASSUME NEW d \in Drafts, OwnerStep(d) \/ HelpStep(d),
                 ~ \E e \in Entries : SubmitForApproval(d, e)
          PROVE  FlaggedWasNeverQueued'
      <3>1. queue' = queue
        BY <2>5
           DEF OwnerStep, HelpStep, CreateDraft, EditOwnDraft, FlagDraftForHelp,
               WithdrawFlaggedHelp, SendBackFlaggedHelp, SoftDeleteOwnDraft,
               SoftDeleteHelp, RestoreDraft, SubmitAdminDraft, ApproveFlaggedHelp,
               ResolveAdminDirect
      <3>2. \A x \in Drafts : drafts'[x].status = "flagged" =>
                drafts[x].status \in {"draft", "flagged"}
        BY <2>3, <2>5
           DEF OwnerStep, HelpStep, CreateDraft, EditOwnDraft, FlagDraftForHelp,
               WithdrawFlaggedHelp, SendBackFlaggedHelp, SoftDeleteOwnDraft,
               SoftDeleteHelp, RestoreDraft, SubmitAdminDraft, ApproveFlaggedHelp,
               ResolveAdminDirect, TransitionDraft, Draft
      <3>3. QED
        BY <2>1, <3>1, <3>2
    <2>6. ASSUME NEW e \in Entries, QueueStep(e) PROVE FlaggedWasNeverQueued'
      <3>1. \A x \in Entries : queue'[x].draft = queue[x].draft
        BY <2>3, <2>6
           DEF QueueStep, WithdrawPendingSubmission, ResolveQueuedApproval,
               SendBackPendingSubmission, Decide, SoftDeleteSubmission,
               RestoreSubmission, SetSubmissionDeleted, Submission
      <3>2. \A x \in Drafts : drafts'[x].status = "flagged" =>
                drafts[x].status \in {"draft", "flagged"}
        BY <2>3, <2>6
           DEF QueueStep, WithdrawPendingSubmission, ResolveQueuedApproval,
               SendBackPendingSubmission, TransitionDraft, SoftDeleteSubmission,
               RestoreSubmission, SetSubmissionDeleted, Draft
      <3>3. QED
        BY <2>1, <3>1, <3>2
    <2>7. QED
      BY <2>2, <2>4, <2>5, <2>6 DEF Next
  <1>3. IInv /\ FlaggedWasNeverQueued => FlaggedHelpCanBePushedThrough
    BY DEF IInv, LifecycleIsConsistent, FlaggedWasNeverQueued,
           FlaggedHelpCanBePushedThrough
  <1>4. QED
    BY <1>1, <1>2, <1>3, InvariantHolds, PTL DEF Spec

=============================================================================
