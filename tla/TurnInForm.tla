----------------------------- MODULE TurnInForm -----------------------------
(* The turn-in form in one browser page and the drafts it writes: on the   *)
(* Turn-In page it starts empty, on My Drafts it edits the draft the       *)
(* address names.  Automatic saves, the owner's commands, answers that     *)
(* arrive late or never and the owner's other devices interleave.  A call  *)
(* keeps the draft and the fields its handler was rendered with.  React    *)
(* renders what a step sets, and runs its effects, before the next event,  *)
(* timer or answer.  A page that is left leaves its calls behind.          *)
(* Text stands for the fields, Hint for the one the IPFS lookup fills in.  *)
EXTENDS Integers, Sequences, FiniteSets

CONSTANTS
    Texts,      \* what the owner may type
    Blank,      \* no member of Texts: the empty form
    MaxDrafts,  \* bound on the drafts the server accepts from the owner
    MaxCalls,   \* bound on the calls in flight, of this and of left forms
    MaxMoves,   \* bound on what the owner and the browser's effects do
    MaxFaults   \* bound on lost requests, lost answers, other devices and
                \* edits of one millisecond

ASSUME TextAssumption == Texts # {} /\ Blank \notin Texts
ASSUME BoundsAssumption ==
    {MaxDrafts, MaxCalls, MaxMoves, MaxFaults} \subseteq Nat /\ MaxDrafts > 1

VARIABLES
    server,   \* the owner's drafts, by id
    page,     \* 0: Turn-In; d: My Drafts with draft d in the address
    mounted,  \* the form is on the page
    list,     \* the drafts My Drafts holds
    seen,     \* the initialDraft the form's effect last ran for
    state,    \* the form's state: draft, fields, saveState
    refs,     \* pendingRef, lastPersistedInputRef, the queue, the timer
    calls,    \* the calls in flight
    blocked,  \* no active office is configured
    mine,     \* the drafts whose content the form on the page wrote last
    born,     \* those made for this turn-in, unless the answer was lost
    left      \* moves and faults left

clientVars == <<page, mounted, list, seen, state, refs>>
ghosts == <<mine, born>>
vars == <<server, clientVars, calls, blocked, ghosts, left>>

Ids == 1..MaxDrafts
CallIds == 1..MaxCalls

NoDraft == [id |-> 0, st |-> "none", text |-> Blank, hint |-> FALSE, at |-> 0,
            stamp |-> 0]

(* What an answer shows of a draft.  stamp is lastEditedAt, a time in      *)
(* milliseconds that two edits may share; at counts the edits.             *)
Copy(rows, d) == [id |-> d, st |-> rows[d].st, text |-> rows[d].text,
                  hint |-> rows[d].hint, at |-> rows[d].at,
                  stamp |-> rows[d].stamp]

-----------------------------------------------------------------------------
(* The form *)

isEditableDraft(draft) == draft.st \in {"draft", "sent_back"}
MayEdit(draft) == draft = NoDraft \/ isEditableDraft(draft)

emptyForm(draft) == [of |-> draft.id, text |-> Blank, hint |-> FALSE]

(* turnInStateFromDraft, or the empty form once nothing may be edited.     *)
FormOf(draft) ==
    IF isEditableDraft(draft)
    THEN [of |-> draft.id, text |-> draft.text, hint |-> draft.hint]
    ELSE emptyForm(draft)

(* What would be sent; a sent-back draft gets fewer fields.                *)
draftInputSignature(form, draft) ==
    <<draft.st = "sent_back", form.text, form.hint>>
NothingPersisted == <<>>

Accepted(draft, saveState) ==
    [draft |-> draft, form |-> FormOf(draft), save |-> saveState]

NewRefs(draft) ==
    [pending |-> FALSE, queued |-> FALSE, timer |-> FALSE,
     last |-> IF draft = NoDraft THEN NothingPersisted
              ELSE draftInputSignature(FormOf(draft), draft)]

InitialState(draft) ==
    Accepted(draft, IF draft = NoDraft THEN "idle" ELSE "saved")

(* The draft the form is given: none on the Turn-In page.                  *)
Given(onPage, drafts) == IF onPage = 0 THEN NoDraft ELSE drafts[onPage]

Unlocked == mounted /\ state.save # "saving"
Usable == Unlocked /\ ~blocked

Move == left.moves > 0 /\ left' = [left EXCEPT !.moves = @ - 1]
Fault == left.faults > 0 /\ left' = [left EXCEPT !.faults = @ - 1]

-----------------------------------------------------------------------------
(* Calls *)

NoCall == [op |-> "none", at |-> "sent", draft |-> NoDraft,
           form |-> emptyForm(NoDraft), live |-> FALSE, parent |-> FALSE,
           answer |-> NoDraft, since |-> 0]

InFlight(i) == calls[i].op # "none"

EditsOf(draft) == IF draft = NoDraft THEN 0 ELSE server[draft.id].at

(* The handler's promise starts: it holds what was rendered.  A request's  *)
(* clock is read after it was sent: since tells the edits before that.     *)
Start(op) ==
    \E i \in CallIds :
        /\ ~InFlight(i)
        /\ \A j \in CallIds : j < i => InFlight(j)
        /\ calls' = [calls EXCEPT ![i] = [NoCall EXCEPT
              !.op = op, !.draft = state.draft, !.form = state.form,
              !.live = TRUE, !.parent = page # 0,
              !.since = EditsOf(state.draft)]]
        /\ state' = [state EXCEPT !.save = "saving"]

(* save(), from the button, the menu or a timer *)
MaySave == ~blocked /\ MayEdit(state.draft)

StartSave(op) ==
    /\ ~refs.pending
    /\ MaySave
    /\ Start(op)

NeedsSaving ==
    /\ state.form.text # Blank
    /\ draftInputSignature(state.form, state.draft) # refs.last

AutomaticSave(timer) ==
    \/ /\ refs.pending
       /\ refs' = [refs EXCEPT !.queued = TRUE, !.timer = timer]
       /\ UNCHANGED <<state, calls>>
    \/ /\ NeedsSaving
       /\ StartSave("save")
       /\ refs' = [refs EXCEPT !.pending = TRUE, !.timer = timer]

(* The interval finds something to do; otherwise it changes nothing.       *)
IntervalSaves ==
    /\ mounted
    /\ AutomaticSave(refs.timer)
    /\ UNCHANGED <<server, page, mounted, list, seen, blocked, ghosts,
                   left>>

TimerSaves ==
    /\ mounted
    /\ refs.timer
    /\ \/ AutomaticSave(FALSE)
       \/ /\ ~refs.pending
          /\ ~(MaySave /\ NeedsSaving)
          /\ refs' = [refs EXCEPT !.timer = FALSE]
          /\ UNCHANGED <<state, calls>>
    /\ UNCHANGED <<server, page, mounted, list, seen, blocked, ghosts,
                   left>>

-----------------------------------------------------------------------------
(* What the owner does on the page *)

Type(text) ==
    /\ Usable
    /\ Move
    /\ MayEdit(state.draft)
    /\ text # state.form.text
    /\ state' = [state EXCEPT !.form.text = text, !.save = "dirty"]
    /\ UNCHANGED <<server, page, mounted, list, seen, refs, calls, blocked,
                   ghosts>>

Blur ==
    /\ Usable
    /\ Move
    /\ ~refs.timer
    /\ MayEdit(state.draft)
    /\ refs' = [refs EXCEPT !.timer = TRUE]
    /\ UNCHANGED <<server, page, mounted, list, seen, state, calls,
                   blocked, ghosts>>

(* mutant: a cleared form of an existing draft counts as saved *)
clearForm_Saved ==
    /\ Unlocked
    /\ Move
    /\ MayEdit(state.draft)
    /\ state' = [state EXCEPT
          !.form = emptyForm(state.draft),
          !.save = IF state.draft = NoDraft THEN "idle" ELSE "saved"]
    /\ UNCHANGED <<server, page, mounted, list, seen, refs, calls, blocked,
                   ghosts>>

clearForm ==
    /\ Unlocked
    /\ Move
    /\ MayEdit(state.draft)
    /\ state' = [state EXCEPT
          !.form = emptyForm(state.draft),
          !.save = IF state.draft = NoDraft THEN "idle" ELSE "dirty"]
    /\ UNCHANGED <<server, page, mounted, list, seen, refs, calls, blocked,
                   ghosts>>

(* The button saves, the menu saves and starts a new turn-in.              *)
Save(op) ==
    /\ Usable
    /\ Move
    /\ StartSave(op)
    /\ refs' = [refs EXCEPT !.pending = TRUE]
    /\ UNCHANGED <<server, page, mounted, list, seen, blocked, ghosts>>

(* mutant: a write in flight does not hold the submission back *)
submit_Unguarded ==
    /\ Usable
    /\ Move
    /\ state.draft = NoDraft \/ state.draft.st = "draft"
    /\ state.form.text # Blank
    /\ Start("submit")
    /\ refs' = [refs EXCEPT !.pending = TRUE]
    /\ UNCHANGED <<server, page, mounted, list, seen, blocked, ghosts>>

(* The fields pass the validation for a submission.                        *)
submit ==
    /\ Usable
    /\ Move
    /\ ~refs.pending
    /\ state.draft = NoDraft \/ state.draft.st = "draft"
    /\ state.form.text # Blank
    /\ Start("submit")
    /\ refs' = [refs EXCEPT !.pending = TRUE]
    /\ UNCHANGED <<server, page, mounted, list, seen, blocked, ghosts>>

(* The dialog stays usable while the form is locked.                       *)
requestHelp ==
    /\ mounted
    /\ Move
    /\ ~refs.pending
    /\ state.draft.st = "draft"
    /\ Start("help")
    /\ refs' = [refs EXCEPT !.pending = TRUE]
    /\ UNCHANGED <<server, page, mounted, list, seen, blocked, ghosts>>

discardDraft ==
    /\ Unlocked
    /\ Move
    /\ ~refs.pending
    /\ state.draft.st = "draft"
    /\ Start("discard")
    /\ refs' = [refs EXCEPT !.pending = TRUE, !.queued = FALSE,
                            !.timer = FALSE]
    /\ UNCHANGED <<server, page, mounted, list, seen, blocked, ghosts>>

-----------------------------------------------------------------------------
(* What effects do to the form by themselves *)

(* The lookup's answer fills a field in and leaves the indicator.          *)
ipfsLookupAnswers ==
    /\ mounted
    /\ Move
    /\ state.form.text # Blank
    /\ state' = [state EXCEPT !.form.hint = ~@]
    /\ UNCHANGED <<server, page, mounted, list, seen, refs, calls, blocked,
                   ghosts>>

(* The vocabulary arrives: an expiration date is suggested, the form is    *)
(* dirty, whatever it was.                                                 *)
suggestExpiration(text) ==
    /\ mounted
    /\ Move
    /\ MayEdit(state.draft)
    /\ state.form.text # Blank
    /\ text # state.form.text
    /\ state' = [state EXCEPT !.form.text = text, !.save = "dirty"]
    /\ UNCHANGED <<server, page, mounted, list, seen, refs, calls, blocked,
                   ghosts>>

OfficesChange ==
    /\ Move
    /\ blocked' = ~blocked
    /\ UNCHANGED <<server, clientVars, calls, ghosts>>

-----------------------------------------------------------------------------
(* Rendering and navigation *)

Mount(draft) ==
    /\ mounted' = MayEdit(draft)
    /\ seen' = draft
    /\ state' = InitialState(draft)
    /\ refs' = NewRefs(draft)
    /\ mine' = {}
    /\ born' = {}

Left(inFlight, keepsPage) ==
    [i \in CallIds |-> [inFlight[i] EXCEPT
        !.live = FALSE, !.parent = @ /\ keepsPage]]

(* mutant: the effect gives the form up for pending writes too *)
InitialDraftEffect_ResetsPending(draft, pending) ==
    /\ state' = InitialState(draft)
    /\ refs' = NewRefs(draft)

(* The effect on [initialDraft]: a write in flight stays pending.          *)
InitialDraftEffect(draft, pending) ==
    /\ state' = InitialState(draft)
    /\ refs' = [NewRefs(draft) EXCEPT !.pending = pending]

(* React renders what a step left.  My Drafts shows the form for a draft   *)
(* that may be edited, the same form while it is one; the form's effect    *)
(* runs when it is given another draft or another version of its draft.    *)
Rendered(onPage, drafts, next, nextRefs, inFlight) ==
    LET given == Given(onPage, drafts)
    IN  /\ page' = onPage
        /\ list' = drafts
        /\ \/ /\ given = seen
              /\ state' = next
              /\ refs' = nextRefs
              /\ calls' = inFlight
              /\ UNCHANGED <<mounted, seen, ghosts>>
           \/ /\ given # seen
              /\ mounted /\ isEditableDraft(given)
              /\ InitialDraftEffect(given, nextRefs.pending)
              /\ seen' = given
              /\ calls' = inFlight
              /\ born' = IF given.id = seen.id THEN born ELSE {}
              /\ UNCHANGED <<mounted, mine>>
           \/ /\ given # seen
              /\ ~(mounted /\ isEditableDraft(given))
              /\ Mount(given)
              /\ calls' = Left(inFlight, TRUE)

OpenTurnIn ==
    /\ Move
    /\ page # 0
    /\ page' = 0
    /\ Mount(NoDraft)
    /\ calls' = Left(calls, FALSE)
    /\ UNCHANGED <<server, list, blocked>>

Listed == {d \in DOMAIN server : server[d].st # "deleted"}

(* My Drafts loads the list and opens one of it.                           *)
OpenMyDrafts(d) ==
    /\ Move
    /\ d \in Listed
    /\ page' = d
    /\ list' = [e \in Ids |->
          IF e \in Listed THEN Copy(server, e) ELSE NoDraft]
    /\ Mount(list'[d])
    /\ calls' = Left(calls, FALSE)
    /\ UNCHANGED <<server, blocked>>

(* Back to the list and into a draft of it: the list is not loaded again.  *)
ReopenFromList(d) ==
    /\ Move
    /\ page # 0
    /\ list[d] # NoDraft
    /\ page' = d
    /\ Mount(list[d])
    /\ calls' = Left(calls, TRUE)
    /\ UNCHANGED <<server, list, blocked>>

(* Another draft's address while a draft is shown: the same form is given  *)
(* another draft.                                                          *)
SwitchDraft(d) ==
    /\ Move
    /\ page # 0
    /\ d # page
    /\ list[d] # NoDraft
    /\ Rendered(d, list, state, refs, calls)
    /\ UNCHANGED <<server, blocked>>

-----------------------------------------------------------------------------
(* The server *)

Answer(i, d) ==
    calls' = [calls EXCEPT ![i].at = "answered", ![i].since = 0,
                           ![i].answer = Copy(server', d)]

Fail(i) == calls' = [calls EXCEPT ![i].at = "failed", ![i].since = 0]

Written(i, d) ==
    mine' = IF calls[i].live THEN mine \cup {d} ELSE mine \ {d}

MadeBy(i, d) == born' = IF calls[i].live THEN born \cup {d} ELSE born

Writes == {"save", "new", "submit", "help"}

HandleCreate(i) ==
    /\ calls[i].op \in Writes
    /\ calls[i].at = "sent"
    /\ calls[i].draft = NoDraft
    /\ Len(server) < MaxDrafts
    /\ server' = Append(server, [st |-> "draft", text |-> calls[i].form.text,
                                 hint |-> calls[i].form.hint, at |-> 1,
                                 stamp |-> 1])
    /\ Answer(i, Len(server) + 1)
    /\ Written(i, Len(server) + 1)
    /\ MadeBy(i, Len(server) + 1)

EditAllowed(i) ==
    /\ calls[i].draft # NoDraft
    /\ server[calls[i].draft.id].st \in {"draft", "sent_back"}

(* An edit is not earlier than the one before, and seldom as early.        *)
RowEdited(d, fields, stamp) ==
    [server EXCEPT ![d] =
        [st |-> "draft", text |-> fields.text, hint |-> fields.hint,
         at |-> @.at + 1, stamp |-> stamp]]

HandleEdit(i) ==
    LET d == calls[i].draft.id
    IN  /\ calls[i].op \in Writes
        /\ calls[i].at = "sent"
        /\ EditAllowed(i)
        /\ \/ /\ server' = RowEdited(d, calls[i].form, server[d].stamp + 1)
              /\ UNCHANGED left
           \/ /\ Fault
              /\ server' = RowEdited(d, calls[i].form, server[d].stamp)
        /\ Answer(i, d)
        /\ Written(i, d)
        /\ UNCHANGED born

(* The second request of submit and requestHelp *)
HandleFinish(i) ==
    LET d == calls[i].draft.id
    IN  /\ calls[i].op \in {"submit", "help"}
        /\ calls[i].at = "finish"
        /\ server[d].st = "draft"
        /\ server' = [server EXCEPT ![d].st =
              IF calls[i].op = "submit" THEN "submitted" ELSE "flagged"]
        /\ Answer(i, d)
        /\ UNCHANGED ghosts

(* mutant: the request carries no version *)
HandleDiscard_AnyVersion(i) ==
    LET d == calls[i].draft.id
    IN  /\ calls[i].op = "discard"
        /\ calls[i].at = "sent"
        /\ \/ /\ server[d].st = "draft"
              /\ server' = [server EXCEPT ![d].st = "deleted"]
           \/ /\ server[d].st = "deleted"
              /\ UNCHANGED server
        /\ Answer(i, d)
        /\ UNCHANGED ghosts

(* mutant: the row is gone, not marked *)
HandleDiscard_RemovesRow(i) ==
    LET d == calls[i].draft.id
    IN  /\ calls[i].op = "discard"
        /\ calls[i].at = "sent"
        /\ \/ /\ server[d].st = "draft"
              /\ server[d].stamp = calls[i].draft.stamp
              /\ server' = [server EXCEPT ![d].st = "none"]
           \/ /\ server[d].st = "deleted"
              /\ UNCHANGED server
        /\ Answer(i, d)
        /\ UNCHANGED ghosts

(* A draft that is deleted by now is answered before anything else is      *)
(* looked at.                                                              *)
HandleDiscard(i) ==
    LET d == calls[i].draft.id
    IN  /\ calls[i].op = "discard"
        /\ calls[i].at = "sent"
        /\ \/ /\ server[d].st = "draft"
              /\ server[d].stamp = calls[i].draft.stamp
              /\ server' = [server EXCEPT ![d].st = "deleted"]
           \/ /\ server[d].st = "deleted"
              /\ UNCHANGED server
        /\ Answer(i, d)
        /\ UNCHANGED ghosts

(* Another edit came after this request was sent: its clock may be later.  *)
Overtaken(i) == server[calls[i].draft.id].at > calls[i].since

(* A discard is refused for the draft's state or version, or because the   *)
(* clock still shows the time of the last edit.                            *)
Refused(i) ==
    LET d == calls[i].draft.id
    IN  \/ /\ calls[i].op \in Writes
           /\ calls[i].at = "sent"
           /\ IF d = 0 THEN Len(server) = MaxDrafts
              ELSE ~EditAllowed(i) \/ Overtaken(i)
        \/ /\ calls[i].at = "finish"
           /\ server[d].st # "draft" \/ Overtaken(i)
        \/ /\ calls[i].op = "discard"
           /\ calls[i].at = "sent"
           /\ server[d].st # "deleted"

Refuse(i) ==
    /\ Refused(i)
    /\ Fail(i)
    /\ UNCHANGED <<server, ghosts>>

Serve(i) ==
    /\ \/ HandleEdit(i)
       \/ /\ \/ HandleCreate(i) \/ HandleFinish(i) \/ HandleDiscard(i)
             \/ Refuse(i)
          /\ UNCHANGED left
    /\ UNCHANGED <<clientVars, blocked>>

(* The request never arrives, or its answer does not.                      *)
Lose(i) ==
    /\ Fault
    /\ InFlight(i)
    /\ calls[i].at # "failed"
    /\ Fail(i)
    /\ born' = born \ {calls[i].answer.id}
    /\ UNCHANGED <<server, clientVars, blocked, mine>>

OtherDeviceEdits(d, text) ==
    /\ Fault
    /\ server[d].st \in {"draft", "sent_back"}
    /\ text # server[d].text
    /\ \E stamp \in {server[d].stamp, server[d].stamp + 1} :
          server' = RowEdited(d, [server[d] EXCEPT !.text = text], stamp)
    /\ mine' = mine \ {d}
    /\ UNCHANGED <<clientVars, calls, blocked, born>>

(* The owner elsewhere, or whoever reviews the turn-in.                    *)
MovedElsewhere(d, st) ==
    /\ Fault
    /\ \/ server[d].st = "draft" /\ st \in {"submitted", "deleted"}
       \/ server[d].st \in {"submitted", "flagged"} /\ st = "sent_back"
    /\ server' = [server EXCEPT ![d].st = st]
    /\ UNCHANGED <<clientVars, calls, blocked, ghosts>>

-----------------------------------------------------------------------------
(* The promise goes on with the answer *)

(* onDraftChange, where My Drafts is still there to hear it                *)
acceptProjection(i, draft) ==
    IF calls[i].parent THEN [list EXCEPT ![draft.id] = draft] ELSE list

Done(i) == [calls EXCEPT ![i] = NoCall]

(* What is set on a form that is no longer there is lost.                  *)
Own(i, next) == IF calls[i].live THEN next ELSE state

(* mutant: a failed request leaves the form pending *)
Released_AfterSuccess(i) ==
    IF calls[i].live /\ calls[i].at = "answered"
    THEN [refs EXCEPT !.pending = FALSE] ELSE refs

(* finally, of every handler *)
Released(i) ==
    IF calls[i].live THEN [refs EXCEPT !.pending = FALSE] ELSE refs

(* save also turns a queued automatic save into a timer.                   *)
Requeued(i) ==
    IF calls[i].live
    THEN [Released(i) EXCEPT !.queued = FALSE, !.timer = @ \/ refs.queued]
    ELSE refs

Persisted(i, nextRefs, signature) ==
    IF calls[i].live THEN [nextRefs EXCEPT !.last = signature] ELSE nextRefs

SaveAnswered(i) ==
    LET c == calls[i]
    IN  /\ c.op = "save"
        /\ c.at = "answered"
        /\ Rendered(page, acceptProjection(i, c.answer),
                    Own(i, Accepted(c.answer, "saved")),
                    Persisted(i, Requeued(i),
                              draftInputSignature(c.form, c.draft)),
                    Done(i))

(* mutant: only the draft is let go, the fields stay *)
freshForm_KeepsFields(form) == form

freshForm(form) == emptyForm(NoDraft)

(* The form starts anew.  On My Drafts that is the Turn-In page, even when *)
(* another form was opened since.                                          *)
StartNew(i, next, nextRefs) ==
    IF page = 0
    THEN /\ state' = Own(i, next)
         /\ refs' = Persisted(i, nextRefs, NothingPersisted)
         /\ calls' = Done(i)
         /\ mine' = IF calls[i].live THEN {} ELSE mine
         /\ born' = IF calls[i].live THEN {} ELSE born
         /\ UNCHANGED <<page, mounted, list, seen>>
    ELSE /\ page' = 0
         /\ Mount(NoDraft)
         /\ calls' = Left(Done(i), FALSE)
         /\ UNCHANGED list

saveAndStartNewAnswered(i) ==
    LET c == calls[i]
    IN  /\ c.op = "new"
        /\ c.at = "answered"
        /\ StartNew(i, [draft |-> NoDraft, save |-> "idle",
                        form |-> freshForm(FormOf(c.answer))],
                    Requeued(i))

DiscardAnswered(i) ==
    /\ calls[i].op = "discard"
    /\ calls[i].at = "answered"
    /\ StartNew(i, InitialState(NoDraft), Released(i))

(* mutant: the draft is taken over once it is submitted only *)
FirstAnswered_TakesNothing(i) ==
    LET c == calls[i]
    IN  /\ c.op \in {"submit", "help"}
        /\ c.at = "answered"
        /\ c.answer.st = "draft"
        /\ calls' = [calls EXCEPT ![i].at = "finish", ![i].draft = c.answer,
                                  ![i].answer = NoDraft,
                                  ![i].since = EditsOf(c.answer)]
        /\ UNCHANGED <<page, mounted, list, seen, state, refs, ghosts>>

(* submit and requestHelp go on with their second request.                 *)
FirstAnswered(i) ==
    LET c == calls[i]
        next == [calls EXCEPT ![i].at = "finish", ![i].draft = c.answer,
                              ![i].answer = NoDraft,
                              ![i].since = EditsOf(c.answer)]
    IN  /\ c.op \in {"submit", "help"}
        /\ c.at = "answered"
        /\ c.answer.st = "draft"
        /\ IF c.op = "submit"
           THEN Rendered(page, acceptProjection(i, c.answer),
                         Own(i, Accepted(c.answer, state.save)), refs, next)
           ELSE Rendered(page, list, state, refs, next)

SecondAnswered(i) ==
    LET c == calls[i]
    IN  /\ c.op \in {"submit", "help"}
        /\ c.at = "answered"
        /\ c.answer.st # "draft"
        /\ Rendered(page, acceptProjection(i, c.answer),
                    Own(i, Accepted(c.answer, "saved")), Released(i), Done(i))

CallFails(i) ==
    /\ InFlight(i)
    /\ calls[i].at = "failed"
    /\ Rendered(page, list, Own(i, [state EXCEPT !.save = "error"]),
                IF calls[i].op \in {"save", "new"} THEN Requeued(i)
                ELSE Released(i),
                Done(i))

Continue(i) ==
    /\ \/ SaveAnswered(i) \/ saveAndStartNewAnswered(i) \/ FirstAnswered(i)
       \/ SecondAnswered(i) \/ DiscardAnswered(i) \/ CallFails(i)
    /\ UNCHANGED <<server, blocked, left>>

-----------------------------------------------------------------------------
Stored(st) == [st |-> st, text |-> CHOOSE text \in Texts : TRUE,
               hint |-> FALSE, at |-> 1, stamp |-> 1]

(* The owner starts a first turn-in, or opens one of one or two drafts:    *)
(* which text those hold does not matter.                                  *)
Init ==
    /\ \/ server = <<>> /\ page = 0
       \/ server = <<Stored("draft")>> /\ page = 1
       \/ server = <<Stored("sent_back")>> /\ page = 1
       \/ server = <<Stored("draft"), Stored("draft")>> /\ page = 1
    /\ mounted = TRUE
    /\ list = [d \in Ids |->
          IF d \in DOMAIN server THEN Copy(server, d) ELSE NoDraft]
    /\ seen = Given(page, list)
    /\ state = InitialState(seen)
    /\ refs = NewRefs(seen)
    /\ calls = [i \in CallIds |-> NoCall]
    /\ blocked = FALSE
    /\ mine = {}
    /\ born = {}
    /\ left = [moves |-> MaxMoves, faults |-> MaxFaults]

Owner ==
    \/ \E text \in Texts : Type(text)
    \/ Blur \/ clearForm \/ submit \/ requestHelp \/ discardDraft
    \/ \E op \in {"save", "new"} : Save(op)
    \/ OpenTurnIn
    \/ \E d \in Ids : OpenMyDrafts(d) \/ ReopenFromList(d) \/ SwitchDraft(d)

Effects ==
    \/ ipfsLookupAnswers
    \/ \E text \in Texts : suggestExpiration(text)
    \/ OfficesChange

Elsewhere ==
    \E d \in DOMAIN server :
        \/ \E text \in Texts : OtherDeviceEdits(d, text)
        \/ \E st \in {"submitted", "deleted", "sent_back"} :
              MovedElsewhere(d, st)

Next ==
    \/ Owner \/ Effects \/ Elsewhere
    \/ IntervalSaves \/ TimerSaves
    \/ \E i \in CallIds : Serve(i) \/ Lose(i) \/ Continue(i)

(* The browser fires its timers; a request is answered or fails, and its   *)
(* promise goes on.  The owner owes nothing.                               *)
Fairness ==
    /\ WF_vars(IntervalSaves)
    /\ \A i \in CallIds : WF_vars(Serve(i)) /\ WF_vars(Continue(i))

Spec == Init /\ [][Next]_vars /\ Fairness

-----------------------------------------------------------------------------
(* Properties *)

DraftStates == {"none", "draft", "sent_back", "submitted", "flagged", "deleted"}
AnyText == Texts \cup {Blank}
DraftRow == [st : DraftStates \ {"none"}, text : AnyText, hint : BOOLEAN,
             at : Nat, stamp : Nat]
Copies == [id : 0..MaxDrafts, st : DraftStates, text : AnyText,
           hint : BOOLEAN, at : Nat, stamp : Nat]
Fields == [of : 0..MaxDrafts, text : AnyText, hint : BOOLEAN]
FormStates == [draft : Copies, form : Fields,
               save : {"idle", "dirty", "saving", "saved", "error"}]
FormRefs == [pending : BOOLEAN, queued : BOOLEAN, timer : BOOLEAN,
             last : {NothingPersisted} \cup (BOOLEAN \X AnyText \X BOOLEAN)]
Call == [op : Writes \cup {"none", "discard"}, live : BOOLEAN,
         at : {"sent", "finish", "answered", "failed"}, parent : BOOLEAN,
         draft : Copies, form : Fields, answer : Copies, since : Nat]

(* Every draft, copy, call and reference has the shape the code gives it.  *)
TypeOK ==
    /\ server \in Seq(DraftRow)
    /\ Len(server) <= MaxDrafts
    /\ page \in 0..MaxDrafts
    /\ {mounted, blocked} \subseteq BOOLEAN
    /\ list \in [Ids -> Copies]
    /\ seen \in Copies
    /\ state \in FormStates
    /\ refs \in FormRefs
    /\ calls \in [CallIds -> Call]
    /\ {mine, born} \subseteq SUBSET Ids
    /\ left \in [moves : 0..MaxMoves, faults : 0..MaxFaults]

(* Fields that were filled in for one draft are never written to another,  *)
(* nor do the fields of a draft make a new one: whichever draft the page   *)
(* was given while a write was in flight.                                  *)
FieldsGoToTheirDraft ==
    \A i \in CallIds :
        (calls[i].op \in Writes /\ calls[i].at = "sent") =>
            calls[i].form.of = calls[i].draft.id

(* pendingRef is set exactly while a write of this form is in flight, and  *)
(* there is one at most: no second write starts, no form waits for nothing.*)
OneWriteInFlight ==
    mounted =>
        LET own == {i \in CallIds : InFlight(i) /\ calls[i].live}
        IN  Cardinality(own) = IF refs.pending THEN 1 ELSE 0

(* A turn-in becomes one draft, however often it is saved, submitted and   *)
(* retried after a refusal, unless the answer of its creation was lost.    *)
OneDraftPerTurnIn == Cardinality(born) <= 1

(* While the page says saved, what the owner typed is what the server gave *)
(* back for the draft.                                                     *)
SavedMeansStored ==
    (mounted /\ state.save = "saved") =>
        /\ state.draft # NoDraft
        /\ isEditableDraft(state.draft) => state.form.text = state.draft.text

(* A submission is two requests.  No other write of the form comes between *)
(* them: the turn-in is submitted as it was shown, or as another page or   *)
(* device left it.                                                         *)
SubmittedAsShown ==
    \A i \in CallIds :
        LET d == calls[i].draft.id
        IN  (calls[i].at = "finish" /\ calls[i].live /\ d \in mine) =>
                /\ server[d].text = calls[i].form.text
                /\ server[d].hint = calls[i].form.hint

(* A discard takes the draft as the owner saw it: an edit that came        *)
(* between, by another device or by a form that was left, keeps it, unless *)
(* it was made in the same millisecond as the one the owner saw.  (What is *)
(* deleted already stays as it is, whatever the answer says.)              *)
DiscardTakesWhatWasShown ==
    [][\A i \in CallIds :
          LET d == calls[i].draft.id
              shown == calls[i].draft
          IN  (/\ calls[i].op = "discard"
               /\ calls[i].at = "sent"
               /\ calls'[i].at = "answered"
               /\ server[d].st # "deleted") =>
                 \/ /\ server[d].text = shown.text
                    /\ server[d].hint = shown.hint
                 \/ /\ server[d].at > shown.at
                    /\ server[d].stamp = shown.stamp]_vars

(* The server took the fields from this form for its draft, or the form    *)
(* has nothing to send because its draft shows them.                       *)
Kept ==
    LET holds(row) == row.text = state.form.text /\ row.hint = state.form.hint
    IN  \/ \E d \in mine : /\ state.draft = NoDraft \/ state.draft.id = d
                           /\ holds(server[d])
        \/ /\ draftInputSignature(state.form, state.draft) = refs.last
           /\ holds(state.draft)

NothingToKeep ==
    ~mounted \/ blocked \/ ~MayEdit(state.draft) \/ state.form.text = Blank

ServerRefuses ==
    IF state.draft = NoDraft THEN Len(server) = MaxDrafts
    ELSE server[state.draft.id].st \notin {"draft", "sent_back"}

(* What the form goes on showing reaches a server that would take it: the  *)
(* interval, the queue and the blur timer between them send it, whatever   *)
(* failed before.  (Fields that an answer or an effect replaced before     *)
(* they were sent are no longer shown, and lost.)                          *)
WhatStaysIsSaved == []<>(Kept \/ NothingToKeep \/ ServerRefuses)

=============================================================================
