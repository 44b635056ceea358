---------------------------- MODULE ApprovalLifecycle ----------------------------
(***************************************************************************)
(* From a turn-in draft to a ledger policy.                                *)
(*                                                                         *)
(* A staff member's draft reaches the ledger through the approval queue or *)
(* through a help request; an admin's own draft goes there directly.  On   *)
(* the way it may be withdrawn, sent back, reopened, discarded, deleted    *)
(* and restored.  An action below is one committed transaction: each one   *)
(* locks the queue entry, then the draft, before it reads either, and a    *)
(* request that raises is rolled back whole, so it is no step here.        *)
(*                                                                         *)
(* Left out: the actor checks (which account may call an operation), the   *)
(* request timestamps and expected versions (a stale request raises),      *)
(* reasons, audit rows and business generations.  The content of a turn-in *)
(* is one value of Contents.  A queue entry is never 'flagged': the status *)
(* exists in the enumeration and no operation sets it.  The drafts are     *)
(* those of one owner, for nothing but the cap on drafts relates two of    *)
(* them, and the cap is the owner's.                                       *)
(***************************************************************************)
EXTENDS Naturals, FiniteSets

CONSTANTS
    Drafts,     \* identities of drafts
    Entries,    \* identities of queue entries (bound on submissions)
    Contents,   \* what a turn-in may say
    Complete,   \* the contents that pass the validation of a submission
    Blank,      \* the content of a draft with nothing in it
    MaxDrafts,  \* MAX_CONTENT_BEARING_DRAFTS_PER_USER
    None        \* SQL NULL

ASSUME LifecycleAssumptions ==
    /\ None \notin Drafts \cup Entries \cup Contents
    /\ Drafts \cap Entries = {}
    /\ Complete \subseteq Contents
    /\ Blank \in Contents \ Complete
    /\ MaxDrafts \in Nat

VARIABLES
    drafts,  \* drafts; "unborn" is a row not yet inserted
    queue,   \* approval_queue_entries; "unborn" likewise
    ledger   \* policies with a source draft, as approved

vars == <<drafts, queue, ledger>>

DraftStatus == {"draft", "submitted", "flagged", "sent_back", "approved"}
QueueStatus == {"pending", "sent_back", "approved", "withdrawn"}

Draft == [status : DraftStatus \cup {"unborn"}, content : Contents \cup {None},
          link : Entries \cup {None}, deleted : BOOLEAN]

Submission == [status : QueueStatus \cup {"unborn"}, draft : Drafts \cup {None},
               payload : Complete \cup {None}, deleted : BOOLEAN]

Policy == [source : Drafts, entry : Entries \cup {None}, content : Complete]

Init ==
    /\ drafts = [d \in Drafts |->
          [status |-> "unborn", content |-> None, link |-> None, deleted |-> FALSE]]
    /\ queue = [e \in Entries |->
          [status |-> "unborn", draft |-> None, payload |-> None, deleted |-> FALSE]]
    /\ ledger = {}

EntriesOf(d) == {e \in Entries : queue[e].draft = d}

(* policies_source_draft_unique_idx *)
InLedger(d) == \E p \in ledger : p.source = d

(* draftHasContentPredicate: the drafts that count against the cap *)
ActiveDrafts == {d \in Drafts :
    drafts[d].status = "draft" /\ ~drafts[d].deleted /\ drafts[d].content # Blank}

-----------------------------------------------------------------------------
(* The two row updates every operation is made of.  Both tables refuse any *)
(* change of a deleted row but its restoration.                            *)

(* mutant: a reopened draft keeps pointing at its old submission *)
TransitionDraft_KeepsLink(d, from, to, e) ==
    /\ drafts[d].status = from
    /\ ~drafts[d].deleted
    /\ drafts' = [drafts EXCEPT
          ![d].status = to,
          ![d].link = IF to = "submitted" THEN e ELSE @]

(* mutant: a deleted draft still changes status *)
TransitionDraft_Deleted(d, from, to, e) ==
    /\ drafts[d].status = from
    /\ drafts' = [drafts EXCEPT
          ![d].status = to,
          ![d].link = IF to = "submitted" THEN e
                      ELSE IF to = "draft" THEN None ELSE @]

TransitionDraft(d, from, to, e) ==
    /\ drafts[d].status = from
    /\ ~drafts[d].deleted
    /\ drafts' = [drafts EXCEPT
          ![d].status = to,
          ![d].link = IF to = "submitted" THEN e
                      ELSE IF to = "draft" THEN None ELSE @]

(* mutant: an entry already acted on is decided again *)
Decide_Again(e, status) ==
    /\ queue[e].status # "unborn"
    /\ ~queue[e].deleted
    /\ queue' = [queue EXCEPT ![e].status = status]

Decide(e, status) ==
    /\ queue[e].status = "pending"
    /\ ~queue[e].deleted
    /\ queue' = [queue EXCEPT ![e].status = status]

-----------------------------------------------------------------------------
(* What an owner does *)

CreateDraft(d, c) ==
    /\ drafts[d].status = "unborn"
    /\ c # Blank => Cardinality(ActiveDrafts) < MaxDrafts
    /\ drafts' = [drafts EXCEPT ![d].status = "draft", ![d].content = c]
    /\ UNCHANGED <<queue, ledger>>

(* mutant: a draft under review may be edited *)
EditOwnDraft_UnderReview(d, c) ==
    /\ drafts[d].status \in {"draft", "submitted", "sent_back"}
    /\ ~drafts[d].deleted
    /\ drafts' = [drafts EXCEPT ![d].content = c]
    /\ UNCHANGED <<queue, ledger>>

(* Editing a draft that was sent back reopens it. *)
EditOwnDraft(d, c) ==
    /\ drafts[d].status \in {"draft", "sent_back"}
    /\ ~drafts[d].deleted
    /\ drafts' = [drafts EXCEPT ![d].status = "draft", ![d].link = None, ![d].content = c]
    /\ UNCHANGED <<queue, ledger>>

(* A complete draft, and approval_queue_entries_active_draft_idx *)
Queueable(d, e) ==
    /\ drafts[d].content \in Complete
    /\ queue[e].status = "unborn"
    /\ \A f \in EntriesOf(d) : queue[f].status # "pending"

(* mutant: the draft is passed where the entry is expected *)
SubmitForApproval_LinksItself(d, e) ==
    /\ Queueable(d, e)
    /\ TransitionDraft(d, "draft", "submitted", d)
    /\ queue' = [queue EXCEPT ![e] = [status |-> "pending", draft |-> d,
                                      payload |-> drafts[d].content, deleted |-> FALSE]]
    /\ UNCHANGED ledger

SubmitForApproval(d, e) ==
    /\ Queueable(d, e)
    /\ TransitionDraft(d, "draft", "submitted", e)
    /\ queue' = [queue EXCEPT ![e] = [status |-> "pending", draft |-> d,
                                      payload |-> drafts[d].content, deleted |-> FALSE]]
    /\ UNCHANGED ledger

FlagDraftForHelp(d) ==
    /\ TransitionDraft(d, "draft", "flagged", None)
    /\ UNCHANGED <<queue, ledger>>

WithdrawFlaggedHelp(d) ==
    /\ TransitionDraft(d, "flagged", "draft", None)
    /\ UNCHANGED <<queue, ledger>>

WithdrawPendingSubmission(e) ==
    LET d == queue[e].draft IN
    /\ Decide(e, "withdrawn")
    /\ drafts[d].link = e
    /\ TransitionDraft(d, "submitted", "draft", None)
    /\ UNCHANGED ledger

(* mutant: the link alone is looked at *)
Discardable_AnyStatus(d) == drafts[d].link = None /\ ~InLedger(d)

(* Only a draft that stands outside every review may be discarded. *)
Discardable(d) ==
    drafts[d].status = "draft" /\ drafts[d].link = None /\ ~InLedger(d)

SoftDeleteOwnDraft(d) ==
    /\ ~drafts[d].deleted
    /\ Discardable(d)
    /\ drafts' = [drafts EXCEPT ![d].deleted = TRUE]
    /\ UNCHANGED <<queue, ledger>>

-----------------------------------------------------------------------------
(* What an admin decides *)

(* The policy is inserted first, under the unique index on its source.     *)
EnterLedger(d, e, c) ==
    /\ ~InLedger(d)
    /\ c \in Complete
    /\ ledger' = ledger \cup {[source |-> d, entry |-> e, content |-> c]}

(* Approval as submitted, with corrections, or with an override.           *)
ResolveQueuedApproval(e, c) ==
    LET d == queue[e].draft IN
    /\ Decide(e, "approved")
    /\ TransitionDraft(d, "submitted", "approved", None)
    /\ EnterLedger(d, e, c)

(* mutant: the history of the queue is not looked at *)
ResolveAdminDirect_AnyHistory(d, from, c) ==
    /\ TransitionDraft(d, from, "approved", None)
    /\ EnterLedger(d, None, c)
    /\ UNCHANGED queue

(* A draft that was ever queued can only be approved through the queue. *)
ResolveAdminDirect(d, from, c) ==
    /\ EntriesOf(d) = {}
    /\ TransitionDraft(d, from, "approved", None)
    /\ EnterLedger(d, None, c)
    /\ UNCHANGED queue

(* An admin submits a draft of their own, as it stands. *)
SubmitAdminDraft(d) == ResolveAdminDirect(d, "draft", drafts[d].content)

(* A help request is pushed through as stored, or opened and fixed. *)
ApproveFlaggedHelp(d, c) == ResolveAdminDirect(d, "flagged", c)

SendBackPendingSubmission(e) ==
    /\ Decide(e, "sent_back")
    /\ TransitionDraft(queue[e].draft, "submitted", "sent_back", None)
    /\ UNCHANGED ledger

SendBackFlaggedHelp(d) ==
    /\ TransitionDraft(d, "flagged", "sent_back", None)
    /\ UNCHANGED <<queue, ledger>>

-----------------------------------------------------------------------------
(* Recoverable deletion *)

(* A submission is deleted and restored together with its draft. *)
SubmissionMovable(e) ==
    LET d == queue[e].draft IN
    /\ queue[e].status = "pending"
    /\ drafts[d].link = e
    /\ drafts[d].status = "submitted"
    /\ ~InLedger(d)

HelpMovable(d) ==
    drafts[d].status = "flagged" /\ drafts[d].link = None /\ ~InLedger(d)

SetSubmissionDeleted(e, deleted) ==
    /\ queue' = [queue EXCEPT ![e].deleted = deleted]
    /\ drafts' = [drafts EXCEPT ![queue[e].draft].deleted = deleted]
    /\ UNCHANGED ledger

(* mutant: the linked draft is left behind *)
SoftDeleteSubmission_EntryOnly(e) ==
    /\ SubmissionMovable(e)
    /\ ~queue[e].deleted /\ ~drafts[queue[e].draft].deleted
    /\ queue' = [queue EXCEPT ![e].deleted = TRUE]
    /\ UNCHANGED <<drafts, ledger>>

SoftDeleteSubmission(e) ==
    /\ SubmissionMovable(e)
    /\ ~queue[e].deleted /\ ~drafts[queue[e].draft].deleted
    /\ SetSubmissionDeleted(e, TRUE)

RestoreSubmission(e) ==
    /\ SubmissionMovable(e)
    /\ queue[e].deleted /\ drafts[queue[e].draft].deleted
    /\ SetSubmissionDeleted(e, FALSE)

SoftDeleteHelp(d) ==
    /\ ~drafts[d].deleted
    /\ HelpMovable(d)
    /\ drafts' = [drafts EXCEPT ![d].deleted = TRUE]
    /\ UNCHANGED <<queue, ledger>>

(* restore_approval_work('help') and restore_discarded_draft *)
RestoreDraft(d) ==
    /\ drafts[d].deleted
    /\ HelpMovable(d) \/ Discardable(d)
    /\ drafts' = [drafts EXCEPT ![d].deleted = FALSE]
    /\ UNCHANGED <<queue, ledger>>

-----------------------------------------------------------------------------
OwnerStep(d) ==
    \/ \E c \in Contents : CreateDraft(d, c) \/ EditOwnDraft(d, c)
    \/ \E e \in Entries : SubmitForApproval(d, e)
    \/ FlagDraftForHelp(d)
    \/ WithdrawFlaggedHelp(d)
    \/ SoftDeleteOwnDraft(d)
    \/ SubmitAdminDraft(d)

HelpStep(d) ==
    \/ \E c \in Contents : ApproveFlaggedHelp(d, c)
    \/ SendBackFlaggedHelp(d)
    \/ SoftDeleteHelp(d)
    \/ RestoreDraft(d)

QueueStep(e) ==
    \/ WithdrawPendingSubmission(e)
    \/ \E c \in Contents : ResolveQueuedApproval(e, c)
    \/ SendBackPendingSubmission(e)
    \/ SoftDeleteSubmission(e)
    \/ RestoreSubmission(e)

Next ==
    \/ \E d \in Drafts : OwnerStep(d)
    \/ \E d \in Drafts : HelpStep(d)
    \/ \E e \in Entries : QueueStep(e)

Spec == Init /\ [][Next]_vars

-----------------------------------------------------------------------------
(* The life of a turn-in the rows stand for *)

StageOf(status) ==
    CASE status = "unborn"    -> "unwritten"
      [] status = "draft"     -> "written"
      [] status = "submitted" -> "under review"
      [] status = "flagged"   -> "up for help"
      [] status = "sent_back" -> "sent back"
      [] status = "approved"  -> "accepted"

Stage == [d \in Drafts |-> StageOf(drafts[d].status)]
Text == [d \in Drafts |-> drafts[d].content]
Hidden == [d \in Drafts |-> drafts[d].deleted]
Reviewed == [d \in Drafts |-> EntriesOf(d) # {}]
Accepted == [d \in Drafts |-> {p.content : p \in {q \in ledger : q.source = d}}]

Life == INSTANCE TurnInReview WITH
    TurnIns <- Drafts, Texts <- Contents, Nothing <- None,
    stage <- Stage, text <- Text, hidden <- Hidden,
    reviewed <- Reviewed, accepted <- Accepted

-----------------------------------------------------------------------------
(* Properties *)

(* Every row keeps the columns of its table. *)
TypeOK ==
    /\ drafts \in [Drafts -> Draft]
    /\ queue \in [Entries -> Submission]
    /\ ledger \subseteq Policy

(* The deferred constraint trigger of 0020 (807-945) accepts every         *)
(* transaction: a draft is submitted exactly while its linked entry is     *)
(* pending, approved exactly when the ledger has its one policy, and a     *)
(* decided entry never claims a draft that has moved on.                   *)
DraftAgreesWithQueue(d) ==
    /\ drafts[d].status = "submitted" =>
          /\ drafts[d].link \in EntriesOf(d)
          /\ queue[drafts[d].link].status = "pending"
    /\ drafts[d].status = "flagged" => drafts[d].link = None
    /\ drafts[d].status = "sent_back" /\ drafts[d].link # None =>
          /\ drafts[d].link \in EntriesOf(d)
          /\ queue[drafts[d].link].status = "sent_back"
    /\ drafts[d].status = "approved" /\ drafts[d].link # None =>
          /\ drafts[d].link \in EntriesOf(d)
          /\ queue[drafts[d].link].status = "approved"

EntryAgreesWithDraft(e) ==
    LET d == queue[e].draft IN
    /\ queue[e].status = "pending" => drafts[d].status = "submitted" /\ drafts[d].link = e
    /\ queue[e].status = "approved" => drafts[d].status = "approved" /\ drafts[d].link = e
    /\ queue[e].status = "sent_back" /\ drafts[d].link = e => drafts[d].status = "sent_back"

LifecycleIsConsistent ==
    /\ \A d \in Drafts : DraftAgreesWithQueue(d)
    /\ \A e \in Entries : queue[e].draft # None => EntryAgreesWithDraft(e)
    /\ \A d \in Drafts : drafts[d].status = "approved" <=> InLedger(d)
    /\ \A p, q \in ledger : p.source = q.source => p = q

(* No draft that was ever queued reaches the ledger past the queue: its    *)
(* policy names the approved entry it came from.                           *)
QueuedWorkIsReviewed ==
    \A p \in ledger :
        \/ p.entry = None /\ EntriesOf(p.source) = {}
        \/ p.entry \in EntriesOf(p.source) /\ queue[p.entry].status = "approved"

(* What an admin finds in the queue is what the draft says: a draft under  *)
(* review never drifts from the payload it was submitted with.             *)
PendingIsWhatTheDraftSays ==
    \A e \in Entries :
        queue[e].status = "pending" => drafts[queue[e].draft].content = queue[e].payload

(* README.md 661-666: deletion is recoverable.  Whatever was deleted, some *)
(* restore operation accepts it.                                           *)
DeletedWorkIsRestorable ==
    /\ \A d \in Drafts : drafts[d].deleted =>
          \/ HelpMovable(d) \/ Discardable(d)
          \/ \E e \in Entries : SubmissionMovable(e) /\ queue[e].draft = d /\ queue[e].deleted
    /\ \A e \in Entries : queue[e].deleted =>
          SubmissionMovable(e) /\ drafts[queue[e].draft].deleted

(* A decision is final: an entry leaves 'pending' once and for all, and an *)
(* approved draft and its policy never change.                             *)
DecisionsAreFinal ==
    [][/\ \A e \in Entries :
             queue[e].status \notin {"unborn", "pending"} => queue'[e] = queue[e]
       /\ \A d \in Drafts : drafts[d].status = "approved" => drafts'[d] = drafts[d]
       /\ ledger \subseteq ledger']_vars

(* README.md 664-666: deleted work keeps its lifecycle state, content and  *)
(* payload until it is restored, and restoring changes nothing else.       *)
DeletedWorkIsUntouched ==
    [][/\ \A d \in Drafts : drafts[d].deleted =>
             drafts'[d] \in {drafts[d], [drafts[d] EXCEPT !.deleted = FALSE]}
       /\ \A e \in Entries : queue[e].deleted =>
             queue'[e] \in {queue[e], [queue[e] EXCEPT !.deleted = FALSE]}]_vars

(* Draft, entries and policy together lead the life TurnInReview gives a   *)
(* turn-in, and a transaction moves one turn-in alone: no link, retry or   *)
(* decision through an old entry ever reaches another one.                 *)
EveryTurnInLeadsItsLife == Life!ReviewSpec

(* server/approval-queue/README.md 19-21: flagged help is pushed through   *)
(* or opened and fixed by the admin-direct lifecycle.                      *)
FlaggedHelpCanBePushedThrough ==
    \A d \in Drafts :
        drafts[d].status = "flagged" /\ ~drafts[d].deleted
            => EntriesOf(d) = {} /\ ~InLedger(d)

=============================================================================
