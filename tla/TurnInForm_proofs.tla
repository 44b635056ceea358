-------------------------- MODULE TurnInForm_proofs --------------------------
(* Proofs about TurnInForm, for every set of texts and every bound.        *)
EXTENDS TurnInForm, FiniteSetTheorems, TLAPS

-----------------------------------------------------------------------------
(* What is good, for the drafts the server has                             *)

(* A copy shows a draft of the server as it is or as it was before an edit.*)
CopyOf(c, rows) ==
    c # NoDraft =>
        /\ c.id \in DOMAIN rows
        /\ c.at <= rows[c.id].at
        /\ c.at = rows[c.id].at =>
              c.text = rows[c.id].text /\ c.hint = rows[c.id].hint

GoodServer(rows) == rows \in Seq(DraftRow) /\ Len(rows) <= MaxDrafts

GoodCopy(c, rows) == c \in Copies /\ CopyOf(c, rows)

(* The fields are those of the form's draft; saved means as it shows.      *)
GoodForm(x, rows) ==
    /\ x \in FormStates
    /\ CopyOf(x.draft, rows)
    /\ x.form.of = x.draft.id
    /\ x.save = "saved" =>
          /\ x.draft # NoDraft
          /\ isEditableDraft(x.draft) => x.form.text = x.draft.text

GoodCall(c, rows) ==
    /\ c \in Call
    /\ CopyOf(c.draft, rows)
    /\ CopyOf(c.answer, rows)
    /\ c.at = "finish" => c.op \in {"submit", "help"} /\ c.draft # NoDraft
    /\ c.at = "answered" => c.answer # NoDraft
    /\ c.op \in {"discard", "help"} => c.draft # NoDraft
    /\ (c.op \in Writes /\ c.at = "sent") => c.form.of = c.draft.id

GoodCalls(cs, rows) ==
    cs \in [CallIds -> Call] /\ \A i \in CallIds : GoodCall(cs[i], rows)

GoodList(drafts, rows) ==
    drafts \in [Ids -> Copies] /\ \A d \in Ids : CopyOf(drafts[d], rows)

(* The calls in flight of the form on the page                             *)
OwnCall(c) == c.op # "none" /\ c.live

PendingFor(cs, pending) ==
    /\ \A i \in CallIds : OwnCall(cs[i]) => pending
    /\ pending => \E i \in CallIds : OwnCall(cs[i])
    /\ \A i, j \in CallIds : OwnCall(cs[i]) /\ OwnCall(cs[j]) => i = j

FormInv ==
    /\ GoodServer(server)
    /\ page \in 0..MaxDrafts
    /\ {mounted, blocked} \subseteq BOOLEAN
    /\ GoodList(list, server)
    /\ GoodCopy(seen, server)
    /\ GoodForm(state, server)
    /\ refs \in FormRefs
    /\ GoodCalls(calls, server)
    /\ PendingFor(calls, refs.pending)
    /\ {mine, born} \subseteq SUBSET Ids
    /\ left \in [moves : 0..MaxMoves, faults : 0..MaxFaults]

LEMMA InvIsTyped ==
    ASSUME FormInv
    PROVE  TypeOK
  BY DEF FormInv, TypeOK, GoodServer, GoodList, GoodCopy, GoodForm, GoodCalls

-----------------------------------------------------------------------------
(* The operators of the form                                               *)

LEMMA Bounds ==
    /\ MaxDrafts \in Nat /\ MaxDrafts > 1 /\ MaxCalls \in Nat
    /\ MaxMoves \in Nat /\ MaxFaults \in Nat
    /\ 0 \in 0..MaxDrafts
    /\ Ids \subseteq 0..MaxDrafts
  BY BoundsAssumption DEF Ids

LEMMA NoDraftTyped ==
    /\ NoDraft \in Copies /\ NoDraft.id = 0 /\ NoDraft.st = "none"
    /\ ~isEditableDraft(NoDraft)
    /\ \A rows : GoodCopy(NoDraft, rows)
  BY Bounds
     DEF NoDraft, Copies, AnyText, DraftStates, isEditableDraft, GoodCopy, CopyOf

LEMMA EmptyTyped ==
    ASSUME NEW c \in Copies
    PROVE  emptyForm(c) \in Fields /\ emptyForm(c).of = c.id
  BY DEF emptyForm, Copies, Fields, AnyText

LEMMA FormOfTyped ==
    ASSUME NEW c \in Copies
    PROVE  /\ FormOf(c) \in Fields
           /\ FormOf(c).of = c.id
           /\ isEditableDraft(c) => FormOf(c).text = c.text
  BY EmptyTyped DEF FormOf, Copies, Fields

LEMMA AcceptedGood ==
    ASSUME NEW rows, NEW c, GoodCopy(c, rows),
           NEW save \in {"idle", "dirty", "saving", "saved", "error"},
           save = "saved" => c # NoDraft
    PROVE  GoodForm(Accepted(c, save), rows)
  BY FormOfTyped DEF Accepted, GoodForm, GoodCopy, FormStates

LEMMA InitialGood ==
    ASSUME NEW rows, NEW c, GoodCopy(c, rows)
    PROVE  GoodForm(InitialState(c), rows)
  BY AcceptedGood DEF InitialState

LEMMA SignatureTyped ==
    ASSUME NEW form \in Fields, NEW c \in Copies
    PROVE  draftInputSignature(form, c) \in
             {NothingPersisted} \cup (BOOLEAN \X AnyText \X BOOLEAN)
  BY DEF draftInputSignature, Fields, Copies

LEMMA NewRefsTyped ==
    ASSUME NEW c \in Copies
    PROVE  NewRefs(c) \in FormRefs /\ NewRefs(c).pending = FALSE
  BY FormOfTyped, SignatureTyped DEF NewRefs, FormRefs

LEMMA EditsTyped ==
    ASSUME NEW c, GoodCopy(c, server), GoodServer(server)
    PROVE  EditsOf(c) \in Nat
  <1>1. ASSUME c # NoDraft
        PROVE  server[c.id].at \in Nat
    <2>1. server \in Seq(DraftRow) /\ c.id \in DOMAIN server
      BY <1>1 DEF GoodServer, GoodCopy, CopyOf
    <2>2. server[c.id] \in DraftRow
      BY <2>1
    <2> QED
      BY <2>2 DEF DraftRow
  <1> QED
    BY <1>1 DEF EditsOf

LEMMA CopyTyped ==
    ASSUME NEW rows, GoodServer(rows), NEW d \in DOMAIN rows
    PROVE  /\ GoodCopy(Copy(rows, d), rows)
           /\ Copy(rows, d) # NoDraft
           /\ Copy(rows, d).id = d
           /\ Copy(rows, d).st = rows[d].st
           /\ d \in Ids
  <1>1. rows[d] \in DraftRow /\ d \in Ids /\ d # 0
    BY Bounds DEF GoodServer, Ids
  <1>2. Copy(rows, d) \in Copies
    BY <1>1, Bounds DEF Copy, Copies, DraftRow
  <1> QED
    BY <1>1, <1>2 DEF Copy, GoodCopy, CopyOf, NoDraft, DraftRow

LEMMA GivenGood ==
    ASSUME NEW rows, NEW drafts, GoodList(drafts, rows),
           NEW onPage \in 0..MaxDrafts
    PROVE  GoodCopy(Given(onPage, drafts), rows)
  BY NoDraftTyped, Bounds DEF Given, GoodList, GoodCopy, Ids

LEMMA LeftGood ==
    ASSUME NEW rows, NEW cs, GoodCalls(cs, rows), NEW keeps \in BOOLEAN
    PROVE  /\ GoodCalls(Left(cs, keeps), rows)
           /\ PendingFor(Left(cs, keeps), FALSE)
           /\ \A i \in CallIds : ~Left(cs, keeps)[i].live
  <1>1. ASSUME NEW i \in CallIds
        PROVE  /\ GoodCall(Left(cs, keeps)[i], rows)
               /\ ~Left(cs, keeps)[i].live
    <2>1. cs[i] \in Call /\ GoodCall(cs[i], rows)
      BY DEF GoodCalls
    <2> DEFINE c == [cs[i] EXCEPT !.live = FALSE,
                                  !.parent = cs[i].parent /\ keeps]
    <2>2. Left(cs, keeps)[i] = c
      BY <2>1 DEF Left
    <2>3. /\ c \in Call /\ c.live = FALSE /\ c.op = cs[i].op
          /\ c.at = cs[i].at /\ c.draft = cs[i].draft
          /\ c.answer = cs[i].answer /\ c.form = cs[i].form
      BY <2>1 DEF Call
    <2> HIDE DEF c
    <2> QED
      BY <2>1, <2>2, <2>3 DEF GoodCall
  <1> QED
    BY <1>1 DEF GoodCalls, GoodCall, Left, PendingFor, OwnCall

LEMMA DoneGood ==
    ASSUME NEW rows, NEW cs, GoodCalls(cs, rows), NEW i \in CallIds
    PROVE  GoodCalls([cs EXCEPT ![i] = NoCall], rows)
  <1>1. NoCall \in Call
    BY NoDraftTyped, EmptyTyped DEF NoCall, Call
  <1>2. GoodCall(NoCall, rows)
    BY <1>1, NoDraftTyped DEF GoodCall, GoodCopy, NoCall, Writes
  <1> QED
    BY <1>1, <1>2 DEF GoodCalls

-----------------------------------------------------------------------------
(* The server's drafts: an edit moves a draft on, nothing takes it back    *)

Grow(rows, new) ==
    /\ GoodServer(rows)
    /\ GoodServer(new)
    /\ \A d \in DOMAIN rows :
          /\ d \in DOMAIN new
          /\ rows[d].at <= new[d].at
          /\ rows[d].at = new[d].at =>
                new[d].text = rows[d].text /\ new[d].hint = rows[d].hint

LEMMA GrowCopy ==
    ASSUME NEW rows, NEW new, Grow(rows, new), NEW c \in Copies, CopyOf(c, rows)
    PROVE  CopyOf(c, new)
  <1> SUFFICES ASSUME c # NoDraft
               PROVE  CopyOf(c, new)
    BY DEF CopyOf
  <1> DEFINE d == c.id
  <1>1. /\ d \in DOMAIN rows /\ d \in DOMAIN new /\ c.at <= rows[d].at
        /\ c.at = rows[d].at =>
              c.text = rows[d].text /\ c.hint = rows[d].hint
        /\ rows[d].at <= new[d].at
        /\ rows[d].at = new[d].at =>
              new[d].text = rows[d].text /\ new[d].hint = rows[d].hint
    BY DEF Grow, CopyOf
  <1>2. c.at \in Nat /\ rows[d] \in DraftRow /\ new[d] \in DraftRow
    BY <1>1 DEF Grow, GoodServer, Copies
  <1>3. rows[d].at \in Nat /\ new[d].at \in Nat
    BY <1>2 DEF DraftRow
  <1> QED
    BY <1>1, <1>2, <1>3 DEF CopyOf

LEMMA GrowForm ==
    ASSUME NEW rows, NEW new, Grow(rows, new), NEW x, GoodForm(x, rows)
    PROVE  GoodForm(x, new)
  <1>1. x.draft \in Copies
    BY DEF GoodForm, FormStates
  <1> QED
    BY <1>1, GrowCopy DEF GoodForm

LEMMA GrowList ==
    ASSUME NEW rows, NEW new, Grow(rows, new), NEW drafts,
           GoodList(drafts, rows)
    PROVE  GoodList(drafts, new)
  BY GrowCopy DEF GoodList

LEMMA GrowCalls ==
    ASSUME NEW rows, NEW new, Grow(rows, new), NEW cs, GoodCalls(cs, rows)
    PROVE  GoodCalls(cs, new)
  <1>1. ASSUME NEW i \in CallIds
        PROVE  GoodCall(cs[i], new)
    <2>1. /\ GoodCall(cs[i], rows)
          /\ cs[i].draft \in Copies /\ cs[i].answer \in Copies
      BY DEF GoodCalls, GoodCall, Call
    <2> QED
      BY <2>1, GrowCopy DEF GoodCall
  <1> QED
    BY <1>1 DEF GoodCalls

LEMMA GrowSame ==
    ASSUME NEW rows, GoodServer(rows)
    PROVE  Grow(rows, rows)
  <1>1. \A d \in DOMAIN rows : rows[d] \in DraftRow
    BY DEF GoodServer
  <1> QED
    BY <1>1 DEF Grow, DraftRow

LEMMA GrowAppend ==
    ASSUME NEW rows, GoodServer(rows), Len(rows) < MaxDrafts,
           NEW row \in DraftRow
    PROVE  Grow(rows, Append(rows, row)) /\ Len(rows) + 1 \in DOMAIN Append(rows, row)
  <1>1. /\ rows \in Seq(DraftRow) /\ Append(rows, row) \in Seq(DraftRow)
        /\ Len(Append(rows, row)) = Len(rows) + 1
        /\ Len(rows) + 1 <= MaxDrafts
    BY Bounds DEF GoodServer
  <1>2. ASSUME NEW d \in DOMAIN rows
        PROVE  d \in DOMAIN Append(rows, row) /\ Append(rows, row)[d] = rows[d]
    BY <1>1
  <1>3. \A d \in DOMAIN rows : rows[d] \in DraftRow
    BY <1>1
  <1> QED
    BY <1>1, <1>2, <1>3 DEF Grow, GoodServer, DraftRow

(* One draft is replaced: by a later edit, or by the same content.         *)
LEMMA GrowChange ==
    ASSUME NEW rows, GoodServer(rows), NEW d \in DOMAIN rows,
           NEW row \in DraftRow,
           \/ row.at = rows[d].at + 1
           \/ row.at = rows[d].at /\ row.text = rows[d].text
                                  /\ row.hint = rows[d].hint
    PROVE  Grow(rows, [rows EXCEPT ![d] = row])
  <1> DEFINE new == [rows EXCEPT ![d] = row]
  <1>1. /\ rows \in Seq(DraftRow) /\ new \in Seq(DraftRow)
        /\ Len(new) = Len(rows) /\ DOMAIN new = DOMAIN rows
        /\ \A e \in DOMAIN rows : new[e] = IF e = d THEN row ELSE rows[e]
    BY DEF GoodServer
  <1>5. \A e \in DOMAIN rows : rows[e] \in DraftRow
    BY <1>1
  <1>6. \A x \in DraftRow : x.at \in Nat
    BY DEF DraftRow
  <1>2. \A e \in DOMAIN rows : rows[e] \in DraftRow /\ rows[e].at \in Nat
    BY <1>5, <1>6
  <1>3. GoodServer(new)
    BY <1>1 DEF GoodServer
  <1> HIDE DEF new
  <1>4. Grow(rows, new)
    BY <1>1, <1>2, <1>3 DEF Grow
  <1> QED
    BY <1>4 DEF new

-----------------------------------------------------------------------------
(* The calls                                                               *)

SameOwners(cs, next) ==
    \A i \in CallIds : OwnCall(next[i]) <=> OwnCall(cs[i])

LEMMA OwnersKept ==
    ASSUME NEW cs, NEW next, NEW pending, PendingFor(cs, pending),
           SameOwners(cs, next)
    PROVE  PendingFor(next, pending)
  BY DEF PendingFor, SameOwners

(* One call is replaced.                                                   *)
LEMMA CallChanged ==
    ASSUME NEW rows, NEW cs, GoodCalls(cs, rows), NEW i \in CallIds,
           NEW c, GoodCall(c, rows)
    PROVE  /\ GoodCalls([cs EXCEPT ![i] = c], rows)
           /\ (OwnCall(c) <=> OwnCall(cs[i])) =>
                 SameOwners(cs, [cs EXCEPT ![i] = c])
  BY DEF GoodCalls, GoodCall, SameOwners

LEMMA AnsweredGood ==
    ASSUME NEW rows, GoodServer(rows), NEW cs, GoodCalls(cs, rows),
           NEW i \in CallIds, NEW d \in DOMAIN rows, NEW next,
           next = [cs EXCEPT ![i].at = "answered", ![i].since = 0,
                   ![i].answer = Copy(rows, d)]
    PROVE  GoodCalls(next, rows) /\ SameOwners(cs, next)
  <1>1. /\ GoodCopy(Copy(rows, d), rows) /\ Copy(rows, d) # NoDraft
        /\ cs[i] \in Call /\ GoodCall(cs[i], rows)
    BY CopyTyped DEF GoodCalls
  <1> DEFINE c == [cs[i] EXCEPT !.at = "answered", !.since = 0, !.answer = Copy(rows, d)]
  <1>2. next = [cs EXCEPT ![i] = c]
    BY DEF GoodCalls
  <1>3. /\ c \in Call /\ c.at = "answered" /\ c.answer = Copy(rows, d)
        /\ c.op = cs[i].op /\ c.live = cs[i].live
        /\ c.draft = cs[i].draft /\ c.form = cs[i].form
    BY <1>1 DEF Call, GoodCopy
  <1> HIDE DEF c
  <1>4. GoodCall(c, rows) /\ (OwnCall(c) <=> OwnCall(cs[i]))
    BY <1>1, <1>3 DEF GoodCall, GoodCopy, OwnCall
  <1> QED
    <2>1. GoodCalls([cs EXCEPT ![i] = c], rows)
      BY <1>4, CallChanged
    <2>2. SameOwners(cs, [cs EXCEPT ![i] = c])
      BY <1>4, CallChanged
    <2> QED
      BY <1>2, <2>1, <2>2

LEMMA FailedGood ==
    ASSUME NEW rows, NEW cs, GoodCalls(cs, rows), NEW i \in CallIds, NEW next,
           next = [cs EXCEPT ![i].at = "failed", ![i].since = 0]
    PROVE  GoodCalls(next, rows) /\ SameOwners(cs, next)
  <1>1. cs[i] \in Call /\ GoodCall(cs[i], rows)
    BY DEF GoodCalls
  <1> DEFINE c == [cs[i] EXCEPT !.at = "failed", !.since = 0]
  <1>2. next = [cs EXCEPT ![i] = c]
    BY DEF GoodCalls
  <1>3. /\ c \in Call /\ c.at = "failed" /\ c.answer = cs[i].answer
        /\ c.op = cs[i].op /\ c.live = cs[i].live
        /\ c.draft = cs[i].draft /\ c.form = cs[i].form
    BY <1>1 DEF Call
  <1> HIDE DEF c
  <1>4. GoodCall(c, rows) /\ (OwnCall(c) <=> OwnCall(cs[i]))
    BY <1>1, <1>3 DEF GoodCall, OwnCall
  <1> QED
    <2>1. GoodCalls([cs EXCEPT ![i] = c], rows)
      BY <1>4, CallChanged
    <2>2. SameOwners(cs, [cs EXCEPT ![i] = c])
      BY <1>4, CallChanged
    <2> QED
      BY <1>2, <2>1, <2>2

(* A call of this form ends: none of it is in flight; another's changes    *)
(* nothing for this form.                                                  *)
LEMMA DoneOwners ==
    ASSUME NEW cs, NEW pending \in BOOLEAN, PendingFor(cs, pending),
           NEW i \in CallIds, cs \in [CallIds -> Call], cs[i].op # "none"
    PROVE  PendingFor([cs EXCEPT ![i] = NoCall],
                      IF cs[i].live THEN FALSE ELSE pending)
  <1> DEFINE next == [cs EXCEPT ![i] = NoCall]
  <1>1. /\ ~OwnCall(next[i])
        /\ \A j \in CallIds : j # i => next[j] = cs[j]
        /\ cs[i].live \in BOOLEAN
    BY DEF NoCall, OwnCall, Call
  <1> HIDE DEF next
  <1>2. CASE cs[i].live
    <2>1. OwnCall(cs[i])
      BY <1>2 DEF OwnCall
    <2>2. \A j \in CallIds : ~OwnCall(next[j])
      BY <1>1, <2>1 DEF PendingFor
    <2> QED
      BY <1>2, <2>2 DEF PendingFor, next
  <1>3. CASE ~cs[i].live
    <2>1. ~OwnCall(cs[i])
      BY <1>3 DEF OwnCall
    <2>2. SameOwners(cs, next)
      BY <1>1, <2>1 DEF SameOwners
    <2>3. PendingFor(next, pending)
      BY <2>2, OwnersKept
    <2> QED
      BY <1>3, <2>3 DEF next
  <1> QED
    BY <1>1, <1>2, <1>3

-----------------------------------------------------------------------------
(* The form changes its fields or its indicator, not its draft             *)

LEMMA EditedGood ==
    ASSUME NEW rows, NEW x, GoodForm(x, rows), NEW form \in Fields,
           form.of = x.draft.id,
           NEW save \in {"idle", "dirty", "saving", "saved", "error"},
           save = "saved" => x.save = "saved" /\ form.text = x.form.text
    PROVE  GoodForm([x EXCEPT !.form = form, !.save = save], rows)
  <1> DEFINE y == [x EXCEPT !.form = form, !.save = save]
  <1>1. x \in FormStates
    BY DEF GoodForm
  <1>2. /\ y \in FormStates /\ y.draft = x.draft
        /\ y.form = form /\ y.save = save
    BY <1>1 DEF FormStates
  <1> HIDE DEF y
  <1>3. GoodForm(y, rows)
    BY <1>2 DEF GoodForm
  <1> QED
    BY <1>3 DEF y

LEMMA SaveSet ==
    ASSUME NEW rows, NEW x, GoodForm(x, rows),
           NEW save \in {"idle", "dirty", "saving", "error"}
    PROVE  GoodForm([x EXCEPT !.save = save], rows)
  <1>1. x \in FormStates /\ x.form \in Fields /\ x.form.of = x.draft.id
    BY DEF GoodForm, FormStates
  <1>2. GoodForm([x EXCEPT !.form = x.form, !.save = save], rows)
    BY <1>1, EditedGood
  <1>3. [x EXCEPT !.form = x.form, !.save = save] = [x EXCEPT !.save = save]
    BY <1>1 DEF FormStates
  <1> QED
    BY <1>2, <1>3

LEMMA TextSet ==
    ASSUME NEW rows, NEW x, GoodForm(x, rows), NEW text \in Texts
    PROVE  GoodForm([x EXCEPT !.form.text = text, !.save = "dirty"], rows)
  <1>1. x \in FormStates /\ x.form \in Fields /\ x.form.of = x.draft.id
    BY DEF GoodForm, FormStates
  <1> DEFINE form == [x.form EXCEPT !.text = text]
  <1>2. form \in Fields /\ form.of = x.draft.id
    BY <1>1 DEF Fields, AnyText
  <1>3. [x EXCEPT !.form.text = text, !.save = "dirty"]
          = [x EXCEPT !.form = form, !.save = "dirty"]
    BY <1>1 DEF FormStates
  <1> HIDE DEF form
  <1>4. GoodForm([x EXCEPT !.form = form, !.save = "dirty"], rows)
    BY <1>2, EditedGood
  <1> QED
    BY <1>3, <1>4

LEMMA HintSet ==
    ASSUME NEW rows, NEW x, GoodForm(x, rows)
    PROVE  GoodForm([x EXCEPT !.form.hint = ~@], rows)
  <1>1. x \in FormStates /\ x.form \in Fields /\ x.form.of = x.draft.id
    BY DEF GoodForm, FormStates
  <1> DEFINE form == [x.form EXCEPT !.hint = ~x.form.hint]
  <1>2. form \in Fields /\ form.of = x.draft.id /\ form.text = x.form.text
    BY <1>1 DEF Fields
  <1>3. [x EXCEPT !.form.hint = ~@]
          = [x EXCEPT !.form = form, !.save = x.save]
    BY <1>1 DEF FormStates
  <1>5. x.save \in {"idle", "dirty", "saving", "saved", "error"}
    BY <1>1 DEF FormStates
  <1> HIDE DEF form
  <1>4. GoodForm([x EXCEPT !.form = form, !.save = x.save], rows)
    BY <1>2, <1>5, EditedGood
  <1> QED
    BY <1>3, <1>4

LEMMA FormCleared ==
    ASSUME NEW rows, NEW x, GoodForm(x, rows), NEW save \in {"idle", "dirty"}
    PROVE  GoodForm([x EXCEPT !.form = emptyForm(x.draft), !.save = save], rows)
  <1>1. x.draft \in Copies
    BY DEF GoodForm, FormStates
  <1> QED
    BY <1>1, EmptyTyped, EditedGood

(* The steps that touch nothing but the form on the page                   *)
FormOnly ==
    /\ UNCHANGED <<server, page, mounted, list, seen, refs, calls, ghosts>>
    /\ \/ UNCHANGED blocked
       \/ blocked' = ~blocked
    /\ Move
    /\ GoodForm(state', server)

LEMMA FormOnlyKeeps ==
    ASSUME FormInv, FormOnly
    PROVE  FormInv'
  <1>1. left' \in [moves : 0..MaxMoves, faults : 0..MaxFaults]
    BY Bounds DEF FormInv, FormOnly, Move
  <1>2. {mounted', blocked'} \subseteq BOOLEAN
    BY DEF FormInv, FormOnly
  <1> QED
    BY <1>1, <1>2 DEF FormInv, FormOnly, ghosts

LEMMA FormSteps ==
    ASSUME FormInv,
           \/ \E text \in Texts : Type(text) \/ suggestExpiration(text)
           \/ clearForm \/ ipfsLookupAnswers \/ OfficesChange
    PROVE  FormInv'
  <1>0. GoodForm(state, server)
    BY DEF FormInv
  <1>1. ASSUME NEW text \in Texts, Type(text) \/ suggestExpiration(text)
        PROVE  FormInv'
    <2>2. state' = [state EXCEPT !.form.text = text, !.save = "dirty"]
      BY <1>1 DEF Type, suggestExpiration
    <2>3. GoodForm([state EXCEPT !.form.text = text, !.save = "dirty"], server)
      BY <1>0, TextSet
    <2>1. GoodForm(state', server)
      BY <2>2, <2>3
    <2> QED
      BY <1>1, <2>1, FormOnlyKeeps DEF Type, suggestExpiration, FormOnly
  <1>2. CASE clearForm
    <2> DEFINE save == IF state.draft = NoDraft THEN "idle" ELSE "dirty"
    <2>2. /\ save \in {"idle", "dirty"}
          /\ state' = [state EXCEPT !.form = emptyForm(state.draft),
                                    !.save = save]
      BY <1>2 DEF clearForm
    <2> HIDE DEF save
    <2>3. GoodForm([state EXCEPT !.form = emptyForm(state.draft),
                                 !.save = save], server)
      BY <1>0, <2>2, FormCleared
    <2>1. GoodForm(state', server)
      BY <2>2, <2>3
    <2> QED
      BY <1>2, <2>1, FormOnlyKeeps DEF clearForm, FormOnly
  <1>3. CASE ipfsLookupAnswers
    <2>1. GoodForm(state', server)
      BY <1>0, <1>3, HintSet DEF ipfsLookupAnswers
    <2> QED
      BY <1>3, <2>1, FormOnlyKeeps DEF ipfsLookupAnswers, FormOnly
  <1>4. CASE OfficesChange
    BY <1>0, <1>4, FormOnlyKeeps DEF OfficesChange, clientVars, FormOnly
  <1> QED
    BY <1>1, <1>2, <1>3, <1>4

-----------------------------------------------------------------------------
(* A handler starts                                                        *)

LEMMA StartGood ==
    ASSUME FormInv, ~refs.pending,
           NEW op \in Writes \cup {"discard"}, Start(op),
           op \in {"discard", "help"} => state.draft # NoDraft
    PROVE  /\ GoodForm(state', server)
           /\ GoodCalls(calls', server)
           /\ PendingFor(calls', TRUE)
  <1>1. /\ GoodForm(state, server) /\ GoodCalls(calls, server)
        /\ PendingFor(calls, refs.pending)
    BY DEF FormInv
  <1>2. PICK i \in CallIds :
          calls' = [calls EXCEPT ![i] = [NoCall EXCEPT
              !.op = op, !.draft = state.draft, !.form = state.form,
              !.live = TRUE, !.parent = page # 0,
              !.since = EditsOf(state.draft)]]
    BY DEF Start
  <1>3. state' = [state EXCEPT !.save = "saving"]
    BY DEF Start
  <1> DEFINE c == [NoCall EXCEPT
              !.op = op, !.draft = state.draft, !.form = state.form,
              !.live = TRUE, !.parent = page # 0,
              !.since = EditsOf(state.draft)]
  <1>4. /\ state.draft \in Copies /\ state.form \in Fields
        /\ CopyOf(state.draft, server) /\ state.form.of = state.draft.id
    BY <1>1 DEF GoodForm, FormStates
  <1>11. EditsOf(state.draft) \in Nat
    BY <1>4, EditsTyped DEF GoodCopy, FormInv
  <1>5. /\ c \in Call /\ c.op = op /\ c.draft = state.draft
        /\ c.form = state.form /\ c.live = TRUE /\ c.at = "sent"
        /\ c.answer = NoDraft
    BY <1>4, <1>11, NoDraftTyped, EmptyTyped DEF NoCall, Call
  <1>6. calls' = [calls EXCEPT ![i] = c]
    BY <1>2
  <1> HIDE DEF c
  <1>7. GoodCall(c, server) /\ OwnCall(c)
    BY <1>4, <1>5, NoDraftTyped DEF GoodCall, GoodCopy, OwnCall, Writes
  <1>8. GoodCalls(calls', server)
    BY <1>1, <1>6, <1>7, CallChanged
  <1>9. /\ calls'[i] = c
        /\ \A j \in CallIds : j # i => ~OwnCall(calls'[j])
    BY <1>1, <1>6 DEF GoodCalls, PendingFor
  <1>10. PendingFor(calls', TRUE)
    BY <1>7, <1>9 DEF PendingFor
  <1> QED
    BY <1>1, <1>3, <1>8, <1>10, SaveSet

(* The steps that start a handler, or only note that one is due            *)
Starting ==
    /\ UNCHANGED <<server, page, mounted, list, seen, blocked, ghosts>>
    /\ left' \in [moves : 0..MaxMoves, faults : 0..MaxFaults]
    /\ GoodForm(state', server)
    /\ refs' \in FormRefs
    /\ GoodCalls(calls', server)
    /\ PendingFor(calls', refs'.pending)

LEMMA StartingKeeps ==
    ASSUME FormInv, Starting
    PROVE  FormInv'
  BY DEF FormInv, Starting, ghosts

LEMMA LeftTyped ==
    ASSUME left \in [moves : 0..MaxMoves, faults : 0..MaxFaults],
           Move \/ Fault
    PROVE  left' \in [moves : 0..MaxMoves, faults : 0..MaxFaults]
  BY Bounds DEF Move, Fault

LEMMA AutomaticSteps ==
    ASSUME FormInv, IntervalSaves \/ TimerSaves
    PROVE  FormInv'
  <1>1. /\ refs \in FormRefs /\ refs.timer \in BOOLEAN
        /\ refs.pending \in BOOLEAN
        /\ left \in [moves : 0..MaxMoves, faults : 0..MaxFaults]
        /\ GoodForm(state, server) /\ GoodCalls(calls, server)
        /\ PendingFor(calls, refs.pending)
    BY DEF FormInv, FormRefs
  <1>2. UNCHANGED <<server, page, mounted, list, seen, blocked, ghosts, left>>
    BY DEF IntervalSaves, TimerSaves
  <1>3. ASSUME NEW timer \in BOOLEAN, AutomaticSave(timer)
        PROVE  FormInv'
    <2>1. CASE /\ refs.pending
               /\ refs' = [refs EXCEPT !.queued = TRUE, !.timer = timer]
               /\ UNCHANGED <<state, calls>>
      <3>1. refs' \in FormRefs /\ refs'.pending = refs.pending
        BY <1>1, <2>1 DEF FormRefs
      <3> QED
        BY <1>1, <1>2, <2>1, <3>1, StartingKeeps DEF Starting
    <2>2. CASE /\ StartSave("save")
               /\ refs' = [refs EXCEPT !.pending = TRUE, !.timer = timer]
      <3>1. refs' \in FormRefs /\ refs'.pending = TRUE
        BY <1>1, <2>2 DEF FormRefs
      <3>2. ~refs.pending /\ Start("save") /\ "save" \in Writes
        BY <2>2 DEF StartSave, Writes
      <3>3. /\ GoodForm(state', server) /\ GoodCalls(calls', server)
            /\ PendingFor(calls', TRUE)
        BY <3>2, StartGood
      <3> QED
        BY <1>1, <1>2, <3>1, <3>3, StartingKeeps DEF Starting
    <2> QED
      BY <1>3, <2>1, <2>2 DEF AutomaticSave
  <1>4. CASE IntervalSaves
    BY <1>1, <1>3, <1>4 DEF IntervalSaves
  <1>5. CASE TimerSaves
    <2>1. CASE AutomaticSave(FALSE)
      BY <1>3, <2>1
    <2>2. CASE refs' = [refs EXCEPT !.timer = FALSE] /\ UNCHANGED <<state, calls>>
      <3>1. refs' \in FormRefs /\ refs'.pending = refs.pending
        BY <1>1, <2>2 DEF FormRefs
      <3> QED
        BY <1>1, <1>2, <2>2, <3>1, StartingKeeps DEF Starting
    <2> QED
      BY <1>5, <2>1, <2>2 DEF TimerSaves
  <1> QED
    BY <1>4, <1>5

LEMMA OwnerStarts ==
    ASSUME FormInv,
           \/ \E op \in {"save", "new"} : Save(op)
           \/ Blur \/ submit \/ requestHelp \/ discardDraft
    PROVE  FormInv'
  <1>1. /\ refs \in FormRefs
        /\ left \in [moves : 0..MaxMoves, faults : 0..MaxFaults]
        /\ GoodForm(state, server) /\ GoodCalls(calls, server)
        /\ PendingFor(calls, refs.pending)
    BY DEF FormInv
  <1>2. ASSUME NEW op \in Writes \cup {"discard"}, Start(op), ~refs.pending,
               op \in {"discard", "help"} => state.draft # NoDraft,
               refs' \in FormRefs /\ refs'.pending = TRUE,
               Move,
               UNCHANGED <<server, page, mounted, list, seen, blocked, ghosts>>
        PROVE  FormInv'
    <2>1. /\ GoodForm(state', server) /\ GoodCalls(calls', server)
          /\ PendingFor(calls', TRUE)
      BY <1>2, StartGood
    <2>2. left' \in [moves : 0..MaxMoves, faults : 0..MaxFaults]
      BY <1>1, <1>2, LeftTyped
    <2> QED
      BY <1>2, <2>1, <2>2, StartingKeeps DEF Starting
  <1>3. /\ [refs EXCEPT !.pending = TRUE] \in FormRefs
        /\ [refs EXCEPT !.pending = TRUE].pending = TRUE
        /\ [refs EXCEPT !.pending = TRUE, !.queued = FALSE,
                        !.timer = FALSE] \in FormRefs
        /\ [refs EXCEPT !.pending = TRUE, !.queued = FALSE,
                        !.timer = FALSE].pending = TRUE
        /\ [refs EXCEPT !.timer = TRUE] \in FormRefs
        /\ [refs EXCEPT !.timer = TRUE].pending = refs.pending
    BY <1>1 DEF FormRefs
  <1>4. /\ {"save", "new", "submit", "help"} = Writes
        /\ NoDraft.st # "draft"
    BY NoDraftTyped DEF Writes
  <1>5. ASSUME NEW op \in {"save", "new"}, Save(op)
        PROVE  FormInv'
    BY <1>2, <1>3, <1>4, <1>5 DEF Save, StartSave
  <1>6. CASE submit
    BY <1>2, <1>3, <1>4, <1>6 DEF submit
  <1>7. CASE requestHelp
    BY <1>2, <1>3, <1>4, <1>7 DEF requestHelp
  <1>8. CASE discardDraft
    BY <1>2, <1>3, <1>4, <1>8 DEF discardDraft
  <1>9. CASE Blur
    <2>1. left' \in [moves : 0..MaxMoves, faults : 0..MaxFaults]
      BY <1>1, <1>9, LeftTyped DEF Blur
    <2>2. refs' \in FormRefs /\ refs'.pending = refs.pending
      BY <1>3, <1>9 DEF Blur
    <2> QED
      BY <1>1, <1>9, <2>1, <2>2, StartingKeeps DEF Blur, Starting
  <1> QED
    BY <1>5, <1>6, <1>7, <1>8, <1>9

-----------------------------------------------------------------------------
(* A form is mounted                                                       *)

LEMMA MountGood ==
    ASSUME NEW c, GoodCopy(c, server), Mount(c)
    PROVE  /\ mounted' \in BOOLEAN
           /\ seen' = c
           /\ GoodForm(state', server)
           /\ refs' \in FormRefs /\ refs'.pending = FALSE
           /\ mine' = {} /\ born' = {}
  <1>1. c \in Copies
    BY DEF GoodCopy
  <1> QED
    BY <1>1, InitialGood, NewRefsTyped DEF Mount, MayEdit, isEditableDraft

LEMMA MountSteps ==
    ASSUME FormInv,
           OpenTurnIn \/ \E d \in Ids : OpenMyDrafts(d) \/ ReopenFromList(d)
    PROVE  FormInv'
  <1>1. /\ GoodServer(server) /\ GoodList(list, server)
        /\ GoodCalls(calls, server)
        /\ blocked \in BOOLEAN
        /\ left \in [moves : 0..MaxMoves, faults : 0..MaxFaults]
    BY DEF FormInv
  <1>2. ASSUME NEW c, GoodCopy(c, server), Mount(c), GoodList(list', server),
               page' \in 0..MaxDrafts, Move, UNCHANGED <<server, blocked>>,
               NEW keeps \in BOOLEAN, calls' = Left(calls, keeps)
        PROVE  FormInv'
    <2>1. /\ GoodCalls(calls', server) /\ PendingFor(calls', FALSE)
      BY <1>1, <1>2, LeftGood
    <2>2. left' \in [moves : 0..MaxMoves, faults : 0..MaxFaults]
      BY <1>1, <1>2, LeftTyped
    <2>3. /\ mounted' \in BOOLEAN /\ seen' = c /\ GoodForm(state', server)
          /\ refs' \in FormRefs /\ refs'.pending = FALSE
          /\ mine' = {} /\ born' = {}
      BY <1>2, MountGood
    <2> QED
      BY <1>1, <1>2, <2>1, <2>2, <2>3 DEF FormInv
  <1>3. CASE OpenTurnIn
    <2>1. GoodCopy(NoDraft, server) /\ 0 \in 0..MaxDrafts
      BY NoDraftTyped, Bounds
    <2> QED
      BY <1>1, <1>2, <1>3, <2>1 DEF OpenTurnIn
  <1>4. ASSUME NEW d \in Ids, OpenMyDrafts(d)
        PROVE  FormInv'
    <2>1. /\ list' = [e \in Ids |->
                IF e \in Listed THEN Copy(server, e) ELSE NoDraft]
          /\ page' = d /\ Mount(list'[d]) /\ Move
          /\ calls' = Left(calls, FALSE) /\ UNCHANGED <<server, blocked>>
      BY <1>4 DEF OpenMyDrafts
    <2>2. \A e \in Ids : GoodCopy(list'[e], server)
      BY <1>1, <2>1, CopyTyped, NoDraftTyped DEF Listed
    <2>3. GoodList(list', server)
      BY <2>1, <2>2 DEF GoodList, GoodCopy
    <2>4. page' \in 0..MaxDrafts
      BY <2>1, Bounds
    <2> QED
      BY <1>2, <2>1, <2>2, <2>3, <2>4
  <1>5. ASSUME NEW d \in Ids, ReopenFromList(d)
        PROVE  FormInv'
    <2>1. /\ page' = d /\ Mount(list[d]) /\ Move /\ list' = list
          /\ calls' = Left(calls, TRUE) /\ UNCHANGED <<server, blocked>>
      BY <1>5 DEF ReopenFromList
    <2>2. GoodCopy(list[d], server)
      BY <1>1 DEF GoodList, GoodCopy
    <2>3. page' \in 0..MaxDrafts
      BY <2>1, Bounds
    <2> QED
      BY <1>1, <1>2, <2>1, <2>2, <2>3
  <1> QED
    BY <1>3, <1>4, <1>5

-----------------------------------------------------------------------------
(* React renders what a step left                                          *)

LEMMA RenderedKeeps ==
    ASSUME FormInv, UNCHANGED <<server, blocked>>,
           left' \in [moves : 0..MaxMoves, faults : 0..MaxFaults],
           NEW onPage \in 0..MaxDrafts,
           NEW drafts, GoodList(drafts, server),
           NEW next, GoodForm(next, server),
           NEW nextRefs \in FormRefs,
           NEW inFlight, GoodCalls(inFlight, server),
           PendingFor(inFlight, nextRefs.pending),
           Rendered(onPage, drafts, next, nextRefs, inFlight)
    PROVE  FormInv'
  <1> DEFINE given == Given(onPage, drafts)
  <1>1. GoodCopy(given, server) /\ given \in Copies
    BY GivenGood DEF GoodCopy
  <1>2. /\ GoodServer(server) /\ {mounted, blocked} \subseteq BOOLEAN
        /\ GoodCopy(seen, server) /\ {mine, born} \subseteq SUBSET Ids
    BY DEF FormInv
  <1>3. page' = onPage /\ list' = drafts
    BY DEF Rendered
  <1>4. CASE /\ state' = next /\ refs' = nextRefs /\ calls' = inFlight
             /\ UNCHANGED <<mounted, seen, ghosts>>
    BY <1>2, <1>3, <1>4 DEF FormInv, ghosts
  <1>5. CASE /\ InitialDraftEffect(given, nextRefs.pending)
             /\ seen' = given
             /\ calls' = inFlight
             /\ born' = IF given.id = seen.id THEN born ELSE {}
             /\ UNCHANGED <<mounted, mine>>
    <2>1. GoodForm(state', server)
      BY <1>1, <1>5, InitialGood DEF InitialDraftEffect
    <2>2. nextRefs.pending \in BOOLEAN
      BY DEF FormRefs
    <2>3. NewRefs(given) \in FormRefs
      BY <1>1, NewRefsTyped
    <2>4. refs' = [NewRefs(given) EXCEPT !.pending = nextRefs.pending]
      BY <1>5 DEF InitialDraftEffect
    <2> HIDE DEF given
    <2>5. refs' \in FormRefs /\ refs'.pending = nextRefs.pending
      BY <2>2, <2>3, <2>4 DEF FormRefs
    <2>6. born' \in SUBSET Ids
      BY <1>2, <1>5
    <2> QED
      BY <1>1, <1>2, <1>3, <1>5, <2>1, <2>5, <2>6 DEF FormInv
  <1>6. CASE Mount(given) /\ calls' = Left(inFlight, TRUE)
    <2>1. /\ mounted' \in BOOLEAN /\ seen' = given /\ GoodForm(state', server)
          /\ refs' \in FormRefs /\ refs'.pending = FALSE
          /\ mine' = {} /\ born' = {}
      BY <1>1, <1>6, MountGood
    <2>2. GoodCalls(calls', server) /\ PendingFor(calls', FALSE)
      BY <1>6, LeftGood
    <2> HIDE DEF given
    <2> QED
      BY <1>1, <1>2, <1>3, <2>1, <2>2 DEF FormInv
  <1> HIDE DEF given
  <1> QED
    BY <1>4, <1>5, <1>6 DEF Rendered, given

LEMMA SwitchStep ==
    ASSUME FormInv, NEW d \in Ids, SwitchDraft(d)
    PROVE  FormInv'
  <1>1. /\ GoodList(list, server) /\ GoodForm(state, server)
        /\ refs \in FormRefs /\ GoodCalls(calls, server)
        /\ PendingFor(calls, refs.pending)
        /\ left \in [moves : 0..MaxMoves, faults : 0..MaxFaults]
        /\ d \in 0..MaxDrafts
    BY Bounds DEF FormInv
  <1>2. left' \in [moves : 0..MaxMoves, faults : 0..MaxFaults]
    BY <1>1, LeftTyped DEF SwitchDraft
  <1>3. /\ Rendered(d, list, state, refs, calls)
        /\ UNCHANGED <<server, blocked>>
    BY DEF SwitchDraft
  <1> QED
    BY <1>1, <1>2, <1>3, RenderedKeeps

(* What a promise that goes on finds                                       *)
LEMMA Answered ==
    ASSUME FormInv, NEW i \in CallIds
    PROVE  /\ calls \in [CallIds -> Call]
           /\ calls[i] \in Call /\ GoodCall(calls[i], server)
           /\ calls[i].live \in BOOLEAN /\ calls[i].parent \in BOOLEAN
           /\ GoodCopy(calls[i].draft, server)
           /\ GoodCopy(calls[i].answer, server)
           /\ calls[i].form \in Fields
           /\ calls[i].at = "answered" => calls[i].answer # NoDraft
  <1>1. calls \in [CallIds -> Call] /\ calls[i] \in Call /\ GoodCall(calls[i], server)
    BY DEF FormInv, GoodCalls
  <1> QED
    BY <1>1 DEF Call, GoodCall, GoodCopy

LEMMA ProjectionGood ==
    ASSUME FormInv, NEW i \in CallIds, calls[i].at = "answered"
    PROVE  GoodList(acceptProjection(i, calls[i].answer), server)
  <1> DEFINE c == calls[i].answer
  <1>1. GoodList(list, server)
    BY DEF FormInv
  <1>2. c # NoDraft /\ GoodCopy(c, server)
    BY Answered
  <1>3. c.id \in DOMAIN server => c.id \in Ids
    BY CopyTyped DEF FormInv
  <1> HIDE DEF c
  <1>4. c.id \in Ids
    BY <1>2, <1>3 DEF GoodCopy, CopyOf
  <1>5. GoodList([list EXCEPT ![c.id] = c], server)
    BY <1>1, <1>2, <1>4 DEF GoodList, GoodCopy
  <1> QED
    BY <1>1, <1>5 DEF acceptProjection, c

LEMMA ReleasedTyped ==
    ASSUME FormInv, NEW i \in CallIds
    PROVE  /\ Released(i) \in FormRefs
           /\ Requeued(i) \in FormRefs
           /\ Released(i).pending = IF calls[i].live THEN FALSE ELSE refs.pending
           /\ Requeued(i).pending = IF calls[i].live THEN FALSE ELSE refs.pending
  <1>1. refs \in FormRefs /\ calls[i].live \in BOOLEAN
    BY Answered DEF FormInv
  <1>2. CASE calls[i].live
    <2> DEFINE r == [refs EXCEPT !.pending = FALSE]
    <2>1. r \in FormRefs /\ r.pending = FALSE /\ r.timer \in BOOLEAN
      BY <1>1 DEF FormRefs
    <2>2. Released(i) = r
      BY <1>2 DEF Released
    <2>3. (r.timer \/ refs.queued) \in BOOLEAN
      BY <2>1
    <2>4. Requeued(i) = [r EXCEPT !.queued = FALSE,
                                  !.timer = (r.timer \/ refs.queued)]
      BY <1>2, <2>2 DEF Requeued
    <2> HIDE DEF r
    <2>5. Requeued(i) \in FormRefs /\ Requeued(i).pending = FALSE
      BY <2>1, <2>3, <2>4 DEF FormRefs
    <2> QED
      BY <1>2, <2>1, <2>2, <2>5
  <1>3. CASE ~calls[i].live
    BY <1>1, <1>3 DEF Released, Requeued
  <1> QED
    BY <1>1, <1>2, <1>3

LEMMA PersistedTyped ==
    ASSUME NEW i \in CallIds, NEW r \in FormRefs,
           NEW signature \in {NothingPersisted} \cup (BOOLEAN \X AnyText \X BOOLEAN)
    PROVE  /\ Persisted(i, r, signature) \in FormRefs
           /\ Persisted(i, r, signature).pending = r.pending
  <1>1. [r EXCEPT !.last = signature] \in FormRefs
    BY DEF FormRefs
  <1>2. [r EXCEPT !.last = signature].pending = r.pending
    BY DEF FormRefs
  <1> QED
    BY <1>1, <1>2 DEF Persisted

LEMMA ReleasedCalls ==
    ASSUME FormInv, NEW i \in CallIds, calls[i].op # "none"
    PROVE  /\ GoodCalls(Done(i), server)
           /\ PendingFor(Done(i), Released(i).pending)
           /\ PendingFor(Done(i), Requeued(i).pending)
  <1>1. /\ GoodCalls(calls, server) /\ calls \in [CallIds -> Call]
        /\ PendingFor(calls, refs.pending) /\ refs.pending \in BOOLEAN
    BY DEF FormInv, GoodCalls, FormRefs
  <1>2. GoodCalls(Done(i), server)
    BY <1>1, DoneGood DEF Done
  <1>3. PendingFor(Done(i), IF calls[i].live THEN FALSE ELSE refs.pending)
    BY <1>1, DoneOwners DEF Done
  <1> QED
    BY <1>2, <1>3, ReleasedTyped

LEMMA OwnGood ==
    ASSUME FormInv, NEW i \in CallIds, NEW next, GoodForm(next, server)
    PROVE  GoodForm(Own(i, next), server)
  BY DEF FormInv, Own

-----------------------------------------------------------------------------
(* The promise goes on                                                     *)

LEMMA PageTyped ==
    ASSUME FormInv, UNCHANGED left
    PROVE  /\ page \in 0..MaxDrafts
           /\ left' \in [moves : 0..MaxMoves, faults : 0..MaxFaults]
           /\ GoodList(list, server) /\ GoodForm(state, server)
           /\ refs \in FormRefs
           /\ PendingFor(calls, refs.pending)
  BY DEF FormInv

LEMMA SaveAnsweredKeeps ==
    ASSUME FormInv, NEW i \in CallIds, SaveAnswered(i),
           UNCHANGED <<server, blocked, left>>
    PROVE  FormInv'
  <1> DEFINE c == calls[i]
             drafts == acceptProjection(i, c.answer)
             next == Own(i, Accepted(c.answer, "saved"))
             nextRefs == Persisted(i, Requeued(i),
                                   draftInputSignature(c.form, c.draft))
             inFlight == Done(i)
  <1>1. /\ c.op = "save" /\ c.at = "answered"
        /\ Rendered(page, drafts, next, nextRefs, inFlight)
    BY DEF SaveAnswered
  <1>2. GoodList(drafts, server)
    BY <1>1, ProjectionGood
  <1>3. GoodForm(Accepted(c.answer, "saved"), server)
    BY <1>1, Answered, AcceptedGood
  <1>4. GoodForm(next, server)
    BY <1>3, OwnGood
  <1>5. c.draft \in Copies /\ c.form \in Fields
    BY Answered DEF GoodCopy
  <1>6. nextRefs \in FormRefs /\ nextRefs.pending = Requeued(i).pending
    BY <1>5, SignatureTyped, ReleasedTyped, PersistedTyped
  <1>7. GoodCalls(inFlight, server) /\ PendingFor(inFlight, nextRefs.pending)
    BY <1>1, <1>6, ReleasedCalls
  <1> HIDE DEF drafts, next, nextRefs, inFlight
  <1> QED
    BY <1>1, <1>2, <1>4, <1>6, <1>7, PageTyped, RenderedKeeps

LEMMA SecondAnsweredKeeps ==
    ASSUME FormInv, NEW i \in CallIds, SecondAnswered(i),
           UNCHANGED <<server, blocked, left>>
    PROVE  FormInv'
  <1> DEFINE c == calls[i]
             drafts == acceptProjection(i, c.answer)
             next == Own(i, Accepted(c.answer, "saved"))
             nextRefs == Released(i)
             inFlight == Done(i)
  <1>1. /\ c.op \in {"submit", "help"} /\ c.at = "answered"
        /\ Rendered(page, drafts, next, nextRefs, inFlight)
    BY DEF SecondAnswered
  <1>2. GoodList(drafts, server)
    BY <1>1, ProjectionGood
  <1>3. GoodForm(Accepted(c.answer, "saved"), server)
    BY <1>1, Answered, AcceptedGood
  <1>4. GoodForm(next, server)
    BY <1>3, OwnGood
  <1>6. nextRefs \in FormRefs
    BY ReleasedTyped
  <1>7. GoodCalls(inFlight, server) /\ PendingFor(inFlight, nextRefs.pending)
    BY <1>1, ReleasedCalls
  <1> HIDE DEF drafts, next, nextRefs, inFlight
  <1> QED
    BY <1>1, <1>2, <1>4, <1>6, <1>7, PageTyped, RenderedKeeps

LEMMA CallFailsKeeps ==
    ASSUME FormInv, NEW i \in CallIds, CallFails(i),
           UNCHANGED <<server, blocked, left>>
    PROVE  FormInv'
  <1> DEFINE next == Own(i, [state EXCEPT !.save = "error"])
             nextRefs == IF calls[i].op \in {"save", "new"} THEN Requeued(i)
                         ELSE Released(i)
             inFlight == Done(i)
  <1>1. calls[i].op # "none" /\ Rendered(page, list, next, nextRefs, inFlight)
    BY DEF CallFails, InFlight
  <1>2. GoodForm(next, server)
    BY PageTyped, SaveSet, OwnGood
  <1>3. nextRefs \in FormRefs
    BY ReleasedTyped
  <1>4. GoodCalls(inFlight, server) /\ PendingFor(inFlight, nextRefs.pending)
    BY <1>1, ReleasedCalls
  <1> HIDE DEF next, nextRefs, inFlight
  <1> QED
    BY <1>1, <1>2, <1>3, <1>4, PageTyped, RenderedKeeps

LEMMA FirstAnsweredKeeps ==
    ASSUME FormInv, NEW i \in CallIds, FirstAnswered(i),
           UNCHANGED <<server, blocked, left>>
    PROVE  FormInv'
  <1> DEFINE c == calls[i]
             inFlight == [calls EXCEPT ![i].at = "finish", ![i].draft = c.answer,
                                       ![i].answer = NoDraft,
                                       ![i].since = EditsOf(c.answer)]
             d == [c EXCEPT !.at = "finish", !.draft = c.answer,
                            !.answer = NoDraft, !.since = EditsOf(c.answer)]
             drafts == acceptProjection(i, c.answer)
             next == Own(i, Accepted(c.answer, state.save))
  <1>1. /\ c.op \in {"submit", "help"} /\ c.at = "answered"
        /\ IF c.op = "submit"
           THEN Rendered(page, drafts, next, refs, inFlight)
           ELSE Rendered(page, list, state, refs, inFlight)
    BY DEF FirstAnswered
  <1>2. /\ c \in Call /\ GoodCall(c, server) /\ calls \in [CallIds -> Call]
        /\ GoodCopy(c.answer, server) /\ c.answer # NoDraft
    BY <1>1, Answered
  <1>14. EditsOf(c.answer) \in Nat
    BY <1>2, EditsTyped DEF FormInv
  <1>3. inFlight = [calls EXCEPT ![i] = d]
    BY <1>2
  <1>4. /\ d \in Call /\ d.op = c.op /\ d.live = c.live /\ d.at = "finish"
        /\ d.draft = c.answer /\ d.answer = NoDraft
    BY <1>2, <1>14, NoDraftTyped DEF Call, GoodCopy
  <1> HIDE DEF d
  <1>5. GoodCall(d, server) /\ (OwnCall(d) <=> OwnCall(c))
    BY <1>1, <1>2, <1>4, NoDraftTyped DEF GoodCall, GoodCopy, OwnCall
  <1>6. GoodCalls(calls, server) /\ PendingFor(calls, refs.pending)
    BY DEF FormInv
  <1>7. GoodCalls(inFlight, server) /\ SameOwners(calls, inFlight)
    <2>1. GoodCalls([calls EXCEPT ![i] = d], server)
      BY <1>5, <1>6, CallChanged
    <2>2. SameOwners(calls, [calls EXCEPT ![i] = d])
      BY <1>5, <1>6, CallChanged
    <2> QED
      BY <1>3, <2>1, <2>2
  <1>8. PendingFor(inFlight, refs.pending)
    BY <1>6, <1>7, OwnersKept
  <1>9. GoodList(drafts, server)
    BY <1>1, ProjectionGood
  <1>10. /\ state.save \in {"idle", "dirty", "saving", "saved", "error"}
         /\ GoodForm(Accepted(c.answer, state.save), server)
    <2>1. state.save \in {"idle", "dirty", "saving", "saved", "error"}
      BY DEF FormInv, GoodForm, FormStates
    <2> QED
      BY <1>2, <2>1, AcceptedGood
  <1>11. GoodForm(next, server)
    BY <1>10, OwnGood
  <1> HIDE DEF drafts, next, inFlight, c
  <1>12. CASE Rendered(page, drafts, next, refs, inFlight)
    BY <1>7, <1>8, <1>9, <1>11, <1>12, PageTyped, RenderedKeeps
  <1>13. CASE Rendered(page, list, state, refs, inFlight)
    BY <1>7, <1>8, <1>13, PageTyped, RenderedKeeps
  <1> QED
    BY <1>1, <1>12, <1>13

LEMMA StartNewKeeps ==
    ASSUME FormInv, NEW i \in CallIds, calls[i].op # "none",
           NEW next, GoodForm(next, server),
           NEW nextRefs \in FormRefs, PendingFor(Done(i), nextRefs.pending),
           StartNew(i, next, nextRefs), UNCHANGED <<server, blocked, left>>
    PROVE  FormInv'
  <1>1. GoodCalls(Done(i), server)
    BY ReleasedCalls
  <1>2. /\ GoodServer(server) /\ {mounted, blocked} \subseteq BOOLEAN
        /\ GoodCopy(seen, server) /\ {mine, born} \subseteq SUBSET Ids
        /\ GoodList(list, server)
        /\ page \in 0..MaxDrafts
        /\ left' \in [moves : 0..MaxMoves, faults : 0..MaxFaults]
    BY DEF FormInv
  <1>3. CASE page = 0
    <2>1. /\ state' = Own(i, next)
          /\ refs' = Persisted(i, nextRefs, NothingPersisted)
          /\ calls' = Done(i)
          /\ mine' \in {{}, mine} /\ born' \in {{}, born}
          /\ UNCHANGED <<page, mounted, list, seen>>
      BY <1>3 DEF StartNew
    <2>2. GoodForm(state', server)
      BY <2>1, OwnGood
    <2>3. refs' \in FormRefs /\ refs'.pending = nextRefs.pending
      BY <2>1, PersistedTyped
    <2> QED
      BY <1>1, <1>2, <2>1, <2>2, <2>3 DEF FormInv
  <1>4. CASE page # 0
    <2>1. /\ page' = 0 /\ Mount(NoDraft) /\ calls' = Left(Done(i), FALSE)
          /\ list' = list
      BY <1>4 DEF StartNew
    <2>2. GoodCalls(calls', server) /\ PendingFor(calls', FALSE)
      BY <1>1, <2>1, LeftGood
    <2>3. GoodCopy(NoDraft, server) /\ 0 \in 0..MaxDrafts
      BY NoDraftTyped, Bounds
    <2>4. /\ mounted' \in BOOLEAN /\ seen' = NoDraft /\ GoodForm(state', server)
          /\ refs' \in FormRefs /\ refs'.pending = FALSE
          /\ mine' = {} /\ born' = {}
      BY <2>1, <2>3, MountGood
    <2> QED
      BY <1>2, <2>1, <2>2, <2>3, <2>4 DEF FormInv
  <1> QED
    BY <1>3, <1>4

LEMMA ContinueKeeps ==
    ASSUME FormInv, NEW i \in CallIds, Continue(i)
    PROVE  FormInv'
  <1>1. UNCHANGED <<server, blocked, left>>
    BY DEF Continue
  <1>2. CASE saveAndStartNewAnswered(i)
    <2> DEFINE next == [draft |-> NoDraft, save |-> "idle",
                        form |-> freshForm(FormOf(calls[i].answer))]
    <2>1. calls[i].op # "none" /\ StartNew(i, next, Requeued(i))
      BY <1>2 DEF saveAndStartNewAnswered
    <2>2. /\ emptyForm(NoDraft) \in Fields /\ emptyForm(NoDraft).of = NoDraft.id
          /\ NoDraft \in Copies
      BY NoDraftTyped, EmptyTyped
    <2>3. next \in FormStates
      BY <2>2 DEF freshForm, FormStates
    <2>4. GoodForm(next, server)
      BY <2>2, <2>3, NoDraftTyped DEF GoodForm, GoodCopy, freshForm
    <2>5. /\ Requeued(i) \in FormRefs
          /\ PendingFor(Done(i), Requeued(i).pending)
      BY <2>1, ReleasedTyped, ReleasedCalls
    <2> HIDE DEF next
    <2> QED
      BY <1>1, <2>1, <2>4, <2>5, StartNewKeeps
  <1>3. CASE DiscardAnswered(i)
    <2>1. calls[i].op # "none" /\ StartNew(i, InitialState(NoDraft), Released(i))
      BY <1>3 DEF DiscardAnswered
    <2>2. GoodForm(InitialState(NoDraft), server)
      BY NoDraftTyped, InitialGood
    <2>3. /\ Released(i) \in FormRefs
          /\ PendingFor(Done(i), Released(i).pending)
      BY <2>1, ReleasedTyped, ReleasedCalls
    <2> QED
      BY <1>1, <2>1, <2>2, <2>3, StartNewKeeps
  <1> QED
    BY <1>1, <1>2, <1>3, SaveAnsweredKeeps, FirstAnsweredKeeps,
       SecondAnsweredKeeps, CallFailsKeeps
       DEF Continue

-----------------------------------------------------------------------------
(* The server answers, a call is lost, somebody else acts                  *)

ServerStep ==
    /\ Grow(server, server')
    /\ UNCHANGED <<page, mounted, list, seen, state, refs, blocked>>
    /\ GoodCalls(calls', server')
    /\ SameOwners(calls, calls')
    /\ {mine', born'} \subseteq SUBSET Ids
    /\ left' \in [moves : 0..MaxMoves, faults : 0..MaxFaults]

LEMMA ServerStepKeeps ==
    ASSUME FormInv, ServerStep
    PROVE  FormInv'
  <1>1. GoodServer(server')
    BY DEF ServerStep, Grow
  <1>2. GoodList(list', server')
    BY GrowList DEF FormInv, ServerStep
  <1>3. GoodCopy(seen', server')
    BY GrowCopy DEF FormInv, ServerStep, GoodCopy
  <1>4. GoodForm(state', server')
    BY GrowForm DEF FormInv, ServerStep
  <1>5. PendingFor(calls', refs'.pending)
    BY OwnersKept DEF FormInv, ServerStep
  <1>6. /\ page' \in 0..MaxDrafts /\ {mounted', blocked'} \subseteq BOOLEAN
        /\ refs' \in FormRefs
    BY DEF FormInv, ServerStep
  <1> QED
    BY <1>1, <1>2, <1>3, <1>4, <1>5, <1>6 DEF FormInv, ServerStep

(* A handler of the server answers with a draft it has.                    *)
LEMMA AnswerKeeps ==
    ASSUME FormInv, NEW i \in CallIds, Grow(server, server'),
           NEW d \in DOMAIN server', Answer(i, d),
           {mine', born'} \subseteq SUBSET Ids,
           left' \in [moves : 0..MaxMoves, faults : 0..MaxFaults],
           UNCHANGED <<clientVars, blocked>>
    PROVE  FormInv'
  <1>1. GoodServer(server')
    BY DEF Grow
  <1>2. GoodCalls(calls, server')
    BY GrowCalls DEF FormInv
  <1>3. calls' = [calls EXCEPT ![i].at = "answered", ![i].since = 0,
                               ![i].answer = Copy(server', d)]
    BY DEF Answer
  <1>4. GoodCalls(calls', server') /\ SameOwners(calls, calls')
    BY <1>1, <1>2, <1>3, AnsweredGood
  <1>6. UNCHANGED <<page, mounted, list, seen, state, refs, blocked>>
    BY DEF clientVars
  <1> QED
    BY <1>4, <1>6, ServerStepKeeps DEF ServerStep

LEMMA IdOf ==
    ASSUME FormInv, NEW d \in DOMAIN server
    PROVE  /\ d \in Ids
           /\ server[d] \in DraftRow
           /\ server[d].at \in Nat
           /\ server[d].hint \in BOOLEAN
           /\ server[d].text \in AnyText
  <1>1. GoodServer(server) /\ d \in Ids
    BY CopyTyped DEF FormInv
  <1>2. server[d] \in DraftRow
    BY <1>1 DEF GoodServer
  <1> QED
    BY <1>1, <1>2 DEF DraftRow

(* One draft is edited.                                                    *)
LEMMA EditGrows ==
    ASSUME FormInv, NEW d \in DOMAIN server, NEW fields, NEW stamp \in Nat,
           fields.text \in AnyText, fields.hint \in BOOLEAN,
           server' = RowEdited(d, fields, stamp)
    PROVE  /\ Grow(server, server')
           /\ d \in DOMAIN server'
           /\ server'[d].text = fields.text
           /\ server'[d].hint = fields.hint
           /\ server'[d].at = server[d].at + 1
           /\ DOMAIN server' = DOMAIN server
           /\ \A e \in DOMAIN server : e # d => server'[e] = server[e]
  <1>1. GoodServer(server) /\ server \in Seq(DraftRow)
    BY DEF FormInv, GoodServer
  <1>2. server[d].at \in Nat
    BY IdOf
  <1> DEFINE row == [st |-> "draft", text |-> fields.text,
                     hint |-> fields.hint, at |-> server[d].at + 1,
                     stamp |-> stamp]
  <1>3. /\ row \in DraftRow /\ row.at = server[d].at + 1
        /\ row.text = fields.text /\ row.hint = fields.hint
    BY <1>2 DEF DraftRow, DraftStates
  <1>4. server' = [server EXCEPT ![d] = row]
    BY <1>1 DEF RowEdited
  <1> HIDE DEF row
  <1>5. Grow(server, [server EXCEPT ![d] = row])
    BY <1>1, <1>3, GrowChange
  <1>6. /\ server'[d] = row /\ DOMAIN server' = DOMAIN server
        /\ \A e \in DOMAIN server : e # d => server'[e] = server[e]
    BY <1>1, <1>4
  <1> QED
    BY <1>3, <1>4, <1>5, <1>6

(* What an edit of this browser leaves                                     *)
LEMMA HandleEditDoes ==
    ASSUME FormInv, NEW i \in CallIds, HandleEdit(i)
    PROVE  LET c == calls[i]
               d == c.draft.id
           IN  /\ d \in DOMAIN server
               /\ \E stamp \in Nat : server' = RowEdited(d, c.form, stamp)
               /\ left' \in [moves : 0..MaxMoves, faults : 0..MaxFaults]
               /\ Answer(i, d) /\ Written(i, d) /\ UNCHANGED born
  <1> DEFINE d == calls[i].draft.id
  <1>1. /\ GoodCall(calls[i], server) /\ calls[i].draft # NoDraft
        /\ left \in [moves : 0..MaxMoves, faults : 0..MaxFaults]
    BY DEF HandleEdit, EditAllowed, FormInv, GoodCalls
  <1>2. d \in DOMAIN server
    BY <1>1 DEF GoodCall, CopyOf
  <1>3. server[d].stamp \in Nat
    BY <1>2, IdOf DEF DraftRow
  <1>4. Answer(i, d) /\ Written(i, d) /\ UNCHANGED born
    BY DEF HandleEdit
  <1> HIDE DEF d
  <1>5. CASE /\ server' = RowEdited(d, calls[i].form, server[d].stamp + 1)
             /\ UNCHANGED left
    BY <1>1, <1>2, <1>3, <1>4, <1>5 DEF d
  <1>6. CASE /\ Fault
             /\ server' = RowEdited(d, calls[i].form, server[d].stamp)
    BY <1>1, <1>2, <1>3, <1>4, <1>6, LeftTyped DEF d
  <1> QED
    BY <1>5, <1>6 DEF HandleEdit, d

LEMMA ServeKeeps ==
    ASSUME FormInv, NEW i \in CallIds, Serve(i)
    PROVE  FormInv'
  <1> DEFINE c == calls[i]
             d == c.draft.id
  <1>1. /\ GoodServer(server) /\ {mine, born} \subseteq SUBSET Ids
        /\ GoodCalls(calls, server)
        /\ left \in [moves : 0..MaxMoves, faults : 0..MaxFaults]
    BY DEF FormInv
  <1>2. /\ c.form \in Fields /\ GoodCall(c, server)
        /\ c.draft # NoDraft => d \in DOMAIN server
    BY Answered DEF GoodCopy, CopyOf
  <1>3. c.form.text \in AnyText /\ c.form.hint \in BOOLEAN
    BY <1>2 DEF Fields
  <1>4. UNCHANGED <<clientVars, blocked>>
    BY DEF Serve
  <1>11. left' \in [moves : 0..MaxMoves, faults : 0..MaxFaults]
    BY <1>1, HandleEditDoes DEF Serve
  <1>5. CASE HandleCreate(i)
    <2> DEFINE row == [st |-> "draft", text |-> c.form.text,
                       hint |-> c.form.hint, at |-> 1, stamp |-> 1]
               e == Len(server) + 1
    <2>1. row \in DraftRow
      BY <1>3 DEF DraftRow, DraftStates
    <2>2. /\ Len(server) < MaxDrafts /\ server' = Append(server, row)
          /\ Answer(i, e) /\ Written(i, e) /\ MadeBy(i, e)
      BY <1>5 DEF HandleCreate
    <2>3. Grow(server, server') /\ e \in DOMAIN server'
      BY <1>1, <2>1, <2>2, GrowAppend
    <2>4. e \in Ids
      BY <2>3, CopyTyped DEF Grow
    <2>5. {mine', born'} \subseteq SUBSET Ids
      BY <1>1, <2>2, <2>4 DEF Written, MadeBy
    <2> HIDE DEF row, e
    <2> QED
      BY <1>4, <1>11, <2>2, <2>3, <2>5, AnswerKeeps
  <1>6. CASE HandleEdit(i)
    <2>1. /\ d \in DOMAIN server /\ Answer(i, d) /\ Written(i, d)
          /\ UNCHANGED born
      BY <1>6, HandleEditDoes
    <2>2. PICK stamp \in Nat : server' = RowEdited(d, c.form, stamp)
      BY <1>6, HandleEditDoes
    <2>3. d \in Ids
      BY <2>1, IdOf
    <2> HIDE DEF c, d
    <2>4. Grow(server, server') /\ d \in DOMAIN server'
      BY <1>3, <2>1, <2>2, EditGrows
    <2>5. {mine', born'} \subseteq SUBSET Ids
      BY <1>1, <2>1, <2>3 DEF Written
    <2> QED
      BY <1>4, <1>11, <2>1, <2>4, <2>5, AnswerKeeps
  <1>7. ASSUME NEW st \in {"submitted", "flagged", "deleted"},
               server' = [server EXCEPT ![d].st = st],
               d \in DOMAIN server, Answer(i, d), UNCHANGED ghosts
        PROVE  FormInv'
    <2>1. server[d] \in DraftRow
      BY <1>7, IdOf
    <2> DEFINE row == [server[d] EXCEPT !.st = st]
    <2>2. /\ row \in DraftRow /\ row.at = server[d].at
          /\ row.text = server[d].text /\ row.hint = server[d].hint
      BY <2>1 DEF DraftRow, DraftStates
    <2>3. server' = [server EXCEPT ![d] = row]
      BY <1>7
    <2>7. GoodServer(server) /\ d \in DOMAIN server
      BY <1>1, <1>7
    <2> HIDE DEF row, c, d
    <2>8. Grow(server, [server EXCEPT ![d] = row])
      BY <2>2, <2>7, GrowChange
    <2>4. Grow(server, server')
      BY <2>3, <2>8
    <2>5. d \in DOMAIN server'
      BY <1>7, <2>4 DEF Grow
    <2>6. {mine', born'} \subseteq SUBSET Ids
      BY <1>1, <1>7 DEF ghosts
    <2> QED
      BY <1>4, <1>7, <1>11, <2>4, <2>5, <2>6, AnswerKeeps
  <1>8. CASE HandleFinish(i)
    <2>1. d \in DOMAIN server
      BY <1>2, <1>8 DEF HandleFinish, GoodCall
    <2>2. /\ Answer(i, d) /\ UNCHANGED ghosts
          /\ server' = [server EXCEPT ![d].st =
                IF c.op = "submit" THEN "submitted" ELSE "flagged"]
      BY <1>8 DEF HandleFinish
    <2> HIDE DEF c, d
    <2>3. CASE c.op = "submit"
      BY <1>7, <2>1, <2>2, <2>3
    <2>4. CASE c.op # "submit"
      BY <1>7, <2>1, <2>2, <2>4
    <2> QED
      BY <2>3, <2>4
  <1>9. CASE HandleDiscard(i)
    <2>1. d \in DOMAIN server
      BY <1>2, <1>9 DEF HandleDiscard, GoodCall
    <2>2. /\ Answer(i, d) /\ UNCHANGED ghosts
          /\ \/ server' = [server EXCEPT ![d].st = "deleted"]
             \/ UNCHANGED server
      BY <1>9 DEF HandleDiscard
    <2>3. {mine', born'} \subseteq SUBSET Ids
      BY <1>1, <2>2 DEF ghosts
    <2> HIDE DEF c, d
    <2>4. CASE UNCHANGED server
      BY <1>1, <1>4, <1>11, <2>1, <2>2, <2>3, <2>4, AnswerKeeps, GrowSame
    <2> QED
      BY <1>7, <2>1, <2>2, <2>4
  <1>10. CASE Refuse(i)
    <2>1. /\ calls' = [calls EXCEPT ![i].at = "failed", ![i].since = 0]
          /\ UNCHANGED <<server, ghosts>>
      BY <1>10 DEF Refuse, Fail
    <2>2. GoodCalls(calls', server) /\ SameOwners(calls, calls')
      BY <1>1, <2>1, FailedGood
    <2> QED
      BY <1>1, <1>4, <1>11, <2>1, <2>2, OwnersKept
         DEF FormInv, clientVars, ghosts
  <1> QED
    BY <1>5, <1>6, <1>8, <1>9, <1>10 DEF Serve

LEMMA LoseKeeps ==
    ASSUME FormInv, NEW i \in CallIds, Lose(i)
    PROVE  FormInv'
  <1>1. /\ GoodCalls(calls, server) /\ {mine, born} \subseteq SUBSET Ids
        /\ left \in [moves : 0..MaxMoves, faults : 0..MaxFaults]
    BY DEF FormInv
  <1>2. /\ calls' = [calls EXCEPT ![i].at = "failed", ![i].since = 0]
        /\ UNCHANGED <<server, clientVars, blocked, mine>>
        /\ born' \subseteq born /\ Fault
    BY DEF Lose, Fail
  <1>3. GoodCalls(calls', server) /\ SameOwners(calls, calls')
    BY <1>1, <1>2, FailedGood
  <1>4. left' \in [moves : 0..MaxMoves, faults : 0..MaxFaults]
    BY <1>1, <1>2, LeftTyped
  <1>5. {mine', born'} \subseteq SUBSET Ids
    BY <1>1, <1>2
  <1> QED
    BY <1>2, <1>3, <1>4, <1>5, OwnersKept DEF FormInv, clientVars

LEMMA OtherEditGrows ==
    ASSUME FormInv, NEW d \in DOMAIN server, NEW text \in Texts,
           OtherDeviceEdits(d, text)
    PROVE  /\ Grow(server, server')
           /\ DOMAIN server' = DOMAIN server
           /\ server'[d].at = server[d].at + 1
           /\ \A e \in DOMAIN server : e # d => server'[e] = server[e]
  <1> DEFINE fields == [server[d] EXCEPT !.text = text]
  <1>1. server[d] \in DraftRow /\ text \in AnyText
    BY IdOf DEF AnyText
  <1>2. fields.text = text /\ fields.hint \in BOOLEAN /\ server[d].stamp \in Nat
    BY <1>1 DEF DraftRow
  <1>3. PICK stamp \in Nat : server' = RowEdited(d, fields, stamp)
    BY <1>2 DEF OtherDeviceEdits
  <1> HIDE DEF fields
  <1> QED
    BY <1>1, <1>2, <1>3, EditGrows

LEMMA ElsewhereKeeps ==
    ASSUME FormInv, NEW d \in DOMAIN server,
           \/ \E text \in Texts : OtherDeviceEdits(d, text)
           \/ \E st \in {"submitted", "deleted", "sent_back"} :
                 MovedElsewhere(d, st)
    PROVE  FormInv'
  <1>1. /\ GoodServer(server) /\ GoodCalls(calls, server)
        /\ {mine, born} \subseteq SUBSET Ids
        /\ left \in [moves : 0..MaxMoves, faults : 0..MaxFaults]
    BY DEF FormInv
  <1>2. server[d] \in DraftRow /\ server[d].at \in Nat
    BY IdOf
  <1>3. ASSUME Grow(server, server'),
               Fault, UNCHANGED <<clientVars, calls, blocked, born>>,
               mine' \subseteq mine
        PROVE  FormInv'
    <2>2. GoodCalls(calls', server') /\ SameOwners(calls, calls')
      BY <1>1, <1>3, GrowCalls DEF SameOwners
    <2>3. left' \in [moves : 0..MaxMoves, faults : 0..MaxFaults]
      BY <1>1, <1>3, LeftTyped
    <2>4. {mine', born'} \subseteq SUBSET Ids
      BY <1>1, <1>3
    <2> QED
      BY <1>3, <2>2, <2>3, <2>4, ServerStepKeeps
         DEF ServerStep, clientVars
  <1>4. ASSUME NEW text \in Texts, OtherDeviceEdits(d, text)
        PROVE  FormInv'
    <2>2. Grow(server, server')
      BY <1>4, OtherEditGrows
    <2>3. /\ Fault /\ UNCHANGED <<clientVars, calls, blocked, born>>
          /\ mine' \subseteq mine
      BY <1>4 DEF OtherDeviceEdits
    <2> QED
      BY <1>3, <2>2, <2>3
  <1>5. ASSUME NEW st \in {"submitted", "deleted", "sent_back"},
               MovedElsewhere(d, st)
        PROVE  FormInv'
    <2> DEFINE row == [server[d] EXCEPT !.st = st]
    <2>1. /\ row \in DraftRow /\ row.at = server[d].at
          /\ row.text = server[d].text /\ row.hint = server[d].hint
      BY <1>2 DEF DraftRow, DraftStates
    <2>2. server' = [server EXCEPT ![d] = row]
      BY <1>5 DEF MovedElsewhere
    <2>3. /\ Fault /\ UNCHANGED <<clientVars, calls, blocked, born>>
          /\ mine' \subseteq mine
      BY <1>5 DEF MovedElsewhere, ghosts
    <2> HIDE DEF row
    <2>4. Grow(server, server')
      BY <1>1, <2>1, <2>2, GrowChange
    <2> QED
      BY <1>3, <2>3, <2>4
  <1> QED
    BY <1>4, <1>5

-----------------------------------------------------------------------------
(* The invariant                                                           *)

LEMMA InitGood ==
    ASSUME Init
    PROVE  FormInv
  <1>1. PICK text \in Texts : \A st : Stored(st) =
            [st |-> st, text |-> text, hint |-> FALSE, at |-> 1, stamp |-> 1]
    BY TextAssumption DEF Stored
  <1>2. /\ Stored("draft") \in DraftRow /\ Stored("sent_back") \in DraftRow
    BY <1>1 DEF DraftRow, DraftStates, AnyText
  <1>3. GoodServer(server) /\ page \in 0..MaxDrafts
    <2>1. /\ <<>> \in Seq(DraftRow) /\ Len(<<>>) = 0
          /\ <<Stored("draft")>> \in Seq(DraftRow)
          /\ Len(<<Stored("draft")>>) = 1
          /\ <<Stored("sent_back")>> \in Seq(DraftRow)
          /\ Len(<<Stored("sent_back")>>) = 1
          /\ <<Stored("draft"), Stored("draft")>> \in Seq(DraftRow)
          /\ Len(<<Stored("draft"), Stored("draft")>>) = 2
      BY <1>2
    <2>2. /\ \/ server = <<>> \/ server = <<Stored("draft")>>
             \/ server = <<Stored("sent_back")>>
             \/ server = <<Stored("draft"), Stored("draft")>>
          /\ page \in {0, 1}
      BY DEF Init
    <2>3. page \in 0..MaxDrafts
      BY <2>2, Bounds
    <2>4. server \in Seq(DraftRow)
      BY <2>1, <2>2
    <2>5. Len(server) \in {0, 1, 2}
      BY <2>1, <2>2
    <2> QED
      <3>1. \A n \in {0, 1, 2} : n <= MaxDrafts
        BY Bounds
      <3> QED
        BY <2>3, <2>4, <2>5, <3>1 DEF GoodServer
  <1>4. list = [d \in Ids |->
          IF d \in DOMAIN server THEN Copy(server, d) ELSE NoDraft]
    BY DEF Init
  <1>5. \A d \in Ids : GoodCopy(list[d], server)
    BY <1>3, <1>4, CopyTyped, NoDraftTyped
  <1>6. GoodList(list, server)
    BY <1>4, <1>5 DEF GoodList, GoodCopy
  <1>7. /\ mounted = TRUE /\ seen = Given(page, list)
        /\ state = InitialState(seen) /\ refs = NewRefs(seen)
        /\ calls = [i \in CallIds |-> NoCall] /\ blocked = FALSE
        /\ mine = {} /\ born = {}
        /\ left = [moves |-> MaxMoves, faults |-> MaxFaults]
    BY DEF Init
  <1>8. GoodCopy(seen, server) /\ seen \in Copies
    BY <1>3, <1>6, <1>7, GivenGood DEF GoodCopy
  <1>9. GoodForm(state, server)
    BY <1>7, <1>8, InitialGood
  <1>10. refs \in FormRefs /\ refs.pending = FALSE
    BY <1>7, <1>8, NewRefsTyped
  <1>11. NoCall \in Call
    BY NoDraftTyped, EmptyTyped DEF NoCall, Call
  <1>12. GoodCall(NoCall, server) /\ ~OwnCall(NoCall)
    BY <1>11, NoDraftTyped DEF GoodCall, GoodCopy, NoCall, Writes, OwnCall
  <1>13. GoodCalls(calls, server) /\ PendingFor(calls, FALSE)
    BY <1>7, <1>11, <1>12 DEF GoodCalls, PendingFor
  <1>14. left \in [moves : 0..MaxMoves, faults : 0..MaxFaults]
    BY <1>7, Bounds
  <1> QED
    BY <1>3, <1>6, <1>7, <1>8, <1>9, <1>10, <1>13, <1>14 DEF FormInv

LEMMA NextKeeps ==
    ASSUME FormInv, Next
    PROVE  FormInv'
  <1>1. CASE Owner
    BY <1>1, FormSteps, OwnerStarts, MountSteps, SwitchStep DEF Owner
  <1>2. CASE Effects
    BY <1>2, FormSteps DEF Effects
  <1>3. CASE Elsewhere
    BY <1>3, ElsewhereKeeps DEF Elsewhere
  <1>4. CASE IntervalSaves \/ TimerSaves
    BY <1>4, AutomaticSteps
  <1>5. CASE \E i \in CallIds : Serve(i) \/ Lose(i) \/ Continue(i)
    BY <1>5, ServeKeeps, LoseKeeps, ContinueKeeps
  <1> QED
    BY <1>1, <1>2, <1>3, <1>4, <1>5 DEF Next

LEMMA StutterKeeps ==
    ASSUME FormInv, UNCHANGED vars
    PROVE  FormInv'
  BY DEF FormInv, vars, clientVars, ghosts

LEMMA AlwaysGood == Spec => []FormInv
  <1>1. Init => FormInv
    BY InitGood
  <1>2. FormInv /\ [Next]_vars => FormInv'
    BY NextKeeps, StutterKeeps
  <1> QED
    BY <1>1, <1>2, PTL DEF Spec

(* Page, calls and server keep the shape the code's types give them,       *)
(* whichever promise goes on and whatever React renders.                   *)
THEOREM TypeCorrect == Spec => []TypeOK
  <1>1. FormInv => TypeOK
    BY InvIsTyped
  <1> QED
    BY <1>1, AlwaysGood, PTL

(* No request of the form carries the fields of another draft: what it     *)
(* sends was rendered together with the draft it names.                    *)
THEOREM FieldsStayWithTheirDraft == Spec => []FieldsGoToTheirDraft
  <1>1. FormInv => FieldsGoToTheirDraft
    BY DEF FormInv, GoodCalls, GoodCall, FieldsGoToTheirDraft
  <1> QED
    BY <1>1, AlwaysGood, PTL

(* While the indicator says saved, the form shows the draft as the server  *)
(* gave it back.                                                           *)
THEOREM SavedIsStored == Spec => []SavedMeansStored
  <1>1. FormInv => SavedMeansStored
    BY DEF FormInv, GoodForm, SavedMeansStored
  <1> QED
    BY <1>1, AlwaysGood, PTL

(* pendingRef is set while one handler of the form runs, and no longer: no *)
(* second one starts beside it.                                            *)
THEOREM WritesOneAtATime == Spec => []OneWriteInFlight
  <1>1. ASSUME FormInv
        PROVE  OneWriteInFlight
    <2> DEFINE own == {i \in CallIds : InFlight(i) /\ calls[i].live}
    <2>1. PendingFor(calls, refs.pending) /\ refs.pending \in BOOLEAN
      BY <1>1 DEF FormInv, FormRefs
    <2>2. own = {i \in CallIds : OwnCall(calls[i])}
      BY DEF InFlight, OwnCall
    <2> HIDE DEF own
    <2>3. CASE refs.pending
      <3>1. PICK i \in CallIds : OwnCall(calls[i])
        BY <2>1, <2>3 DEF PendingFor
      <3>2. own = {i}
        BY <2>1, <2>2, <3>1 DEF PendingFor
      <3> QED
        BY <2>3, <3>2, FS_Singleton DEF OneWriteInFlight, own
    <2>4. CASE ~refs.pending
      <3>1. own = {}
        BY <2>1, <2>2, <2>4 DEF PendingFor
      <3> QED
        BY <2>4, <3>1, FS_EmptySet DEF OneWriteInFlight, own
    <2> QED
      BY <2>3, <2>4
  <1> QED
    BY <1>1, AlwaysGood, PTL

-----------------------------------------------------------------------------
(* Who is answered                                                         *)

NotAnswered(next) ==
    \A i \in CallIds : next[i].at = "answered" => calls[i].at = "answered"

LEMMA RenderedCalls ==
    ASSUME FormInv, NEW onPage, NEW drafts, NEW next, NEW nextRefs,
           NEW inFlight, GoodCalls(inFlight, server), NotAnswered(inFlight),
           Rendered(onPage, drafts, next, nextRefs, inFlight)
    PROVE  NotAnswered(calls')
  <1>1. inFlight \in [CallIds -> Call]
    BY DEF GoodCalls
  <1>2. ASSUME NEW i \in CallIds
        PROVE  Left(inFlight, TRUE)[i].at = inFlight[i].at
    BY <1>1 DEF Left, Call
  <1>3. calls' \in {inFlight, Left(inFlight, TRUE)}
    BY DEF Rendered
  <1> QED
    BY <1>2, <1>3 DEF NotAnswered

LEMMA DoneCalls ==
    ASSUME FormInv, NEW i \in CallIds
    PROVE  GoodCalls(Done(i), server) /\ NotAnswered(Done(i))
  <1>1. GoodCalls(calls, server) /\ calls \in [CallIds -> Call]
    BY DEF FormInv, GoodCalls
  <1>2. GoodCalls(Done(i), server)
    BY <1>1, DoneGood DEF Done
  <1> QED
    BY <1>1, <1>2 DEF Done, NoCall, NotAnswered

LEMMA LeftCalls ==
    ASSUME FormInv, NEW cs, GoodCalls(cs, server), NotAnswered(cs), NEW keeps
    PROVE  NotAnswered(Left(cs, keeps))
  <1>1. cs \in [CallIds -> Call]
    BY DEF GoodCalls
  <1>2. ASSUME NEW i \in CallIds
        PROVE  Left(cs, keeps)[i].at = cs[i].at
    BY <1>1 DEF Left, Call
  <1> QED
    BY <1>2 DEF NotAnswered

LEMMA StartCalls ==
    ASSUME FormInv, NEW op, Start(op)
    PROVE  NotAnswered(calls')
  BY DEF FormInv, GoodCalls, Start, NoCall, NotAnswered

LEMMA ContinueCalls ==
    ASSUME FormInv, NEW i \in CallIds, Continue(i)
    PROVE  NotAnswered(calls')
  <1>1. GoodCalls(Done(i), server) /\ NotAnswered(Done(i))
    BY DoneCalls
  <1>2. CASE SaveAnswered(i)
    BY <1>1, <1>2, RenderedCalls DEF SaveAnswered
  <1>3. CASE SecondAnswered(i)
    BY <1>1, <1>3, RenderedCalls DEF SecondAnswered
  <1>4. CASE CallFails(i)
    BY <1>1, <1>4, RenderedCalls DEF CallFails
  <1>5. ASSUME NEW next, NEW nextRefs, StartNew(i, next, nextRefs)
        PROVE  NotAnswered(calls')
    BY <1>1, <1>5, LeftCalls DEF StartNew
  <1>6. CASE FirstAnswered(i)
    <2> DEFINE c == calls[i]
               next == [calls EXCEPT ![i].at = "finish", ![i].draft = c.answer,
                                     ![i].answer = NoDraft,
                                     ![i].since = EditsOf(c.answer)]
    <2>1. calls \in [CallIds -> Call] /\ calls[i] \in Call
      BY Answered
    <2>2. NotAnswered(next)
      BY <2>1 DEF Call, NotAnswered
    <2>3. ASSUME NEW j \in CallIds
          PROVE  Left(next, TRUE)[j].at = next[j].at
      BY <2>1 DEF Left, Call
    <2>4. calls' \in {next, Left(next, TRUE)}
      BY <1>6 DEF FirstAnswered, Rendered
    <2> HIDE DEF next
    <2> QED
      BY <2>2, <2>3, <2>4 DEF NotAnswered
  <1> QED
    BY <1>2, <1>3, <1>4, <1>5, <1>6
       DEF Continue, saveAndStartNewAnswered, DiscardAnswered

LEMMA OnlyServed ==
    ASSUME FormInv, [Next]_vars
    PROVE  NotAnswered(calls') \/ \E i \in CallIds : Serve(i)
  <1>0. NotAnswered(calls) /\ GoodCalls(calls, server)
    BY DEF FormInv, NotAnswered
  <1>1. CASE UNCHANGED vars
    BY <1>0, <1>1 DEF vars, clientVars
  <1>2. CASE Owner
    <2>1. ASSUME NEW text \in Texts, Type(text)
          PROVE  NotAnswered(calls')
      BY <1>0, <2>1 DEF Type
    <2>2. CASE Blur \/ clearForm
      BY <1>0, <2>2 DEF Blur, clearForm
    <2>3. CASE submit \/ requestHelp \/ discardDraft
      BY <2>3, StartCalls DEF submit, requestHelp, discardDraft
    <2>4. ASSUME NEW op \in {"save", "new"}, Save(op)
          PROVE  NotAnswered(calls')
      BY <2>4, StartCalls DEF Save, StartSave
    <2>5. CASE OpenTurnIn
      BY <1>0, <2>5, LeftCalls DEF OpenTurnIn
    <2>6. ASSUME NEW d \in Ids, OpenMyDrafts(d) \/ ReopenFromList(d)
          PROVE  NotAnswered(calls')
      BY <1>0, <2>6, LeftCalls DEF OpenMyDrafts, ReopenFromList
    <2>7. ASSUME NEW d \in Ids, SwitchDraft(d)
          PROVE  NotAnswered(calls')
      BY <1>0, <2>7, RenderedCalls DEF SwitchDraft
    <2> QED
      BY <1>2, <2>1, <2>2, <2>3, <2>4, <2>5, <2>6, <2>7 DEF Owner
  <1>3. CASE Effects
    BY <1>0, <1>3
       DEF Effects, ipfsLookupAnswers, suggestExpiration, OfficesChange
  <1>4. CASE Elsewhere
    BY <1>0, <1>4 DEF Elsewhere, OtherDeviceEdits, MovedElsewhere
  <1>5. CASE IntervalSaves \/ TimerSaves
    BY <1>0, <1>5, StartCalls
       DEF IntervalSaves, TimerSaves, AutomaticSave, StartSave
  <1>6. ASSUME NEW i \in CallIds, Lose(i)
        PROVE  NotAnswered(calls')
    <2>1. calls \in [CallIds -> Call] /\ calls[i] \in Call
      BY Answered
    <2> QED
      BY <1>6, <2>1 DEF Lose, Fail, Call, NotAnswered
  <1>7. ASSUME NEW i \in CallIds, Continue(i)
        PROVE  NotAnswered(calls')
    BY <1>7, ContinueCalls
  <1> QED
    BY <1>1, <1>2, <1>3, <1>4, <1>5, <1>6, <1>7 DEF Next

(* What discards a draft saw it as it is: a copy of the same version shows *)
(* the same content.  Only an edit of the same millisecond shares it.      *)
LEMMA DiscardSaw ==
    ASSUME FormInv, [Next]_vars, NEW i \in CallIds,
           calls[i].op = "discard", calls[i].at = "sent",
           calls'[i].at = "answered",
           server[calls[i].draft.id].st # "deleted"
    PROVE  LET d == calls[i].draft.id
               shown == calls[i].draft
           IN  \/ /\ server[d].text = shown.text
                  /\ server[d].hint = shown.hint
               \/ /\ server[d].at > shown.at
                  /\ server[d].stamp = shown.stamp
  <1> DEFINE d == calls[i].draft.id
             shown == calls[i].draft
  <1>1. ~NotAnswered(calls')
    BY DEF NotAnswered
  <1>2. PICK j \in CallIds : Serve(j)
    BY <1>1, OnlyServed
  <1>3. /\ calls \in [CallIds -> Call] /\ calls[i] \in Call
        /\ CopyOf(shown, server)
        /\ shown # NoDraft /\ shown \in Copies
    BY Answered DEF GoodCopy, GoodCall
  <1>4. j = i
    BY <1>2, <1>3
       DEF Serve, HandleCreate, HandleEdit, HandleFinish, HandleDiscard,
           Refuse, Answer, Fail
  <1>5. HandleDiscard(i)
    BY <1>2, <1>3, <1>4
       DEF Serve, HandleCreate, HandleEdit, HandleFinish, Refuse, Fail,
           Writes, Call
  <1>6. server[d].stamp = shown.stamp
    BY <1>5 DEF HandleDiscard
  <1>7. /\ shown.at <= server[d].at
        /\ shown.at = server[d].at =>
              server[d].text = shown.text /\ server[d].hint = shown.hint
        /\ d \in DOMAIN server
    BY <1>3 DEF CopyOf
  <1>8. shown.at \in Nat /\ server[d].at \in Nat
    BY <1>3, <1>7, IdOf DEF Copies
  <1> QED
    BY <1>6, <1>7, <1>8

(* A discard that takes a draft takes the content its form showed: the     *)
(* version it carries is of that content, or of edits that were made in    *)
(* one millisecond.                                                        *)
THEOREM DiscardsWhatWasShown == Spec => DiscardTakesWhatWasShown
  <1>1. FormInv /\ [Next]_vars =>
          [\A i \in CallIds :
             LET d == calls[i].draft.id
                 shown == calls[i].draft
             IN  (/\ calls[i].op = "discard"
                  /\ calls[i].at = "sent"
                  /\ calls'[i].at = "answered"
                  /\ server[d].st # "deleted") =>
                    \/ /\ server[d].text = shown.text
                       /\ server[d].hint = shown.hint
                    \/ /\ server[d].at > shown.at
                       /\ server[d].stamp = shown.stamp]_vars
    BY DiscardSaw
  <1> QED
    BY <1>1, AlwaysGood, PTL DEF Spec, DiscardTakesWhatWasShown

-----------------------------------------------------------------------------
(* A submission between its two requests                                   *)

(* Draft d holds what this form wrote last: the fields c was started with. *)
AsShown(c, d, written, rows) ==
    (c.live /\ d \in written) =>
        rows[d].text = c.form.text /\ rows[d].hint = c.form.hint

ShownCall(c, written, rows) ==
    /\ c.at = "finish" => AsShown(c, c.draft.id, written, rows)
    /\ (c.op \in {"submit", "help"} /\ c.at = "answered"
                                    /\ c.answer.st = "draft") =>
          AsShown(c, c.answer.id, written, rows)

Shown(cs, written, rows) ==
    \A i \in CallIds : ShownCall(cs[i], written, rows)

ShownInv == mine \subseteq DOMAIN server /\ Shown(calls, mine, server)

LEMMA ShownDead ==
    ASSUME NEW cs, \A i \in CallIds : ~cs[i].live, NEW written, NEW rows
    PROVE  Shown(cs, written, rows)
  BY DEF Shown, ShownCall, AsShown

LEMMA ShownFewer ==
    ASSUME NEW cs, NEW written, NEW rows, Shown(cs, written, rows),
           NEW fewer, fewer \subseteq written
    PROVE  Shown(cs, fewer, rows)
  BY DEF Shown, ShownCall, AsShown

LEMMA ShownChanged ==
    ASSUME NEW cs \in [CallIds -> Call], NEW written, NEW rows,
           Shown(cs, written, rows),
           NEW i \in CallIds, NEW c, ShownCall(c, written, rows)
    PROVE  Shown([cs EXCEPT ![i] = c], written, rows)
  BY DEF Shown

LEMMA ShownFailed ==
    ASSUME NEW cs \in [CallIds -> Call], NEW written, NEW rows,
           Shown(cs, written, rows), NEW i \in CallIds
    PROVE  Shown([cs EXCEPT ![i].at = "failed", ![i].since = 0], written, rows)
  <1> DEFINE c == [cs[i] EXCEPT !.at = "failed", !.since = 0]
  <1>1. c.at = "failed"
    BY DEF Call
  <1>2. [cs EXCEPT ![i].at = "failed", ![i].since = 0] = [cs EXCEPT ![i] = c]
    OBVIOUS
  <1> HIDE DEF c
  <1>3. ShownCall(c, written, rows)
    BY <1>1 DEF ShownCall
  <1> QED
    BY <1>2, <1>3, ShownChanged

LEMMA ShownDone ==
    ASSUME FormInv, ShownInv, NEW i \in CallIds
    PROVE  Shown(Done(i), mine, server)
  <1>1. calls \in [CallIds -> Call]
    BY DEF FormInv, GoodCalls
  <1>2. ShownCall(NoCall, mine, server)
    BY DEF ShownCall, NoCall
  <1> QED
    BY <1>1, <1>2, ShownChanged DEF ShownInv, Done

LEMMA ShownLeft ==
    ASSUME NEW cs, GoodCalls(cs, server), NEW keeps \in BOOLEAN,
           NEW written, NEW rows
    PROVE  Shown(Left(cs, keeps), written, rows)
  BY LeftGood, ShownDead

LEMMA ShownRendered ==
    ASSUME FormInv, ShownInv, NEW onPage, NEW drafts, NEW next,
           NEW nextRefs, NEW inFlight, GoodCalls(inFlight, server),
           Shown(inFlight, mine, server),
           Rendered(onPage, drafts, next, nextRefs, inFlight),
           UNCHANGED server
    PROVE  ShownInv'
  <1>1. CASE calls' = inFlight /\ mine' = mine
    BY <1>1 DEF ShownInv
  <1>2. CASE calls' = Left(inFlight, TRUE) /\ mine' = {}
    BY <1>2, ShownLeft DEF ShownInv
  <1> QED
    BY <1>1, <1>2 DEF Rendered, ghosts, Mount

LEMMA ShownStart ==
    ASSUME FormInv, ShownInv, NEW op, Start(op), UNCHANGED <<server, mine>>
    PROVE  ShownInv'
  <1>1. calls \in [CallIds -> Call]
    BY DEF FormInv, GoodCalls
  <1>2. PICK i \in CallIds :
          calls' = [calls EXCEPT ![i] = [NoCall EXCEPT
              !.op = op, !.draft = state.draft, !.form = state.form,
              !.live = TRUE, !.parent = page # 0,
              !.since = EditsOf(state.draft)]]
    BY DEF Start
  <1> DEFINE c == [NoCall EXCEPT
              !.op = op, !.draft = state.draft, !.form = state.form,
              !.live = TRUE, !.parent = page # 0,
              !.since = EditsOf(state.draft)]
  <1>3. c.at = "sent" /\ calls' = [calls EXCEPT ![i] = c]
    BY <1>2 DEF NoCall
  <1> HIDE DEF c
  <1>4. ShownCall(c, mine, server)
    BY <1>3 DEF ShownCall
  <1> QED
    BY <1>1, <1>3, <1>4, ShownChanged DEF ShownInv

LEMMA ShownContinue ==
    ASSUME FormInv, ShownInv, NEW i \in CallIds, Continue(i)
    PROVE  ShownInv'
  <1>1. /\ GoodCalls(Done(i), server) /\ Shown(Done(i), mine, server)
        /\ UNCHANGED server
    BY DoneCalls, ShownDone DEF Continue
  <1>2. CASE SaveAnswered(i) \/ SecondAnswered(i) \/ CallFails(i)
    BY <1>1, <1>2, ShownRendered DEF SaveAnswered, SecondAnswered, CallFails
  <1>3. ASSUME NEW next, NEW nextRefs, StartNew(i, next, nextRefs)
        PROVE  ShownInv'
    <2>1. CASE calls' = Done(i) /\ mine' \in {{}, mine}
      <3>1. mine' \subseteq mine
        BY <2>1
      <3> QED
        BY <1>1, <2>1, <3>1, ShownFewer DEF ShownInv
    <2>2. CASE calls' = Left(Done(i), FALSE) /\ mine' = {}
      BY <1>1, <2>2, ShownLeft DEF ShownInv
    <2> QED
      BY <1>3, <2>1, <2>2 DEF StartNew, Mount
  <1>4. CASE FirstAnswered(i)
    <2> DEFINE c == calls[i]
               inFlight == [calls EXCEPT ![i].at = "finish",
                                         ![i].draft = c.answer,
                                         ![i].answer = NoDraft,
                                         ![i].since = EditsOf(c.answer)]
               d == [c EXCEPT !.at = "finish", !.draft = c.answer,
                              !.answer = NoDraft,
                              !.since = EditsOf(c.answer)]
    <2>1. /\ c \in Call /\ GoodCall(c, server) /\ calls \in [CallIds -> Call]
          /\ GoodCopy(c.answer, server) /\ c.answer # NoDraft
          /\ GoodCalls(calls, server)
      BY <1>4, Answered DEF FirstAnswered, FormInv
    <2>2. inFlight = [calls EXCEPT ![i] = d]
      BY <2>1
    <2>11. EditsOf(c.answer) \in Nat
      BY <2>1, EditsTyped DEF FormInv
    <2>3. /\ d \in Call /\ d.op = c.op /\ d.live = c.live /\ d.at = "finish"
          /\ d.draft = c.answer /\ d.answer = NoDraft /\ d.form = c.form
      BY <2>1, <2>11, NoDraftTyped DEF Call, GoodCopy
    <2>4. /\ c.op \in {"submit", "help"} /\ c.at = "answered"
          /\ c.answer.st = "draft"
      BY <1>4 DEF FirstAnswered
    <2> HIDE DEF d
    <2>5. GoodCall(d, server)
      BY <2>1, <2>3, <2>4, NoDraftTyped DEF GoodCall, GoodCopy
    <2>6. ShownCall(d, mine, server)
      BY <2>3, <2>4 DEF ShownInv, Shown, ShownCall, AsShown
    <2>7. GoodCalls([calls EXCEPT ![i] = d], server)
      BY <2>1, <2>5, CallChanged
    <2>8. Shown([calls EXCEPT ![i] = d], mine, server)
      BY <2>1, <2>6, ShownChanged DEF ShownInv
    <2>9. GoodCalls(inFlight, server) /\ Shown(inFlight, mine, server)
      BY <2>2, <2>7, <2>8
    <2>10. \E drafts, next : Rendered(page, drafts, next, refs, inFlight)
      BY <1>4 DEF FirstAnswered
    <2> HIDE DEF inFlight
    <2> QED
      BY <1>1, <2>9, <2>10, ShownRendered
  <1> QED
    BY <1>2, <1>3, <1>4
       DEF Continue, saveAndStartNewAnswered, DiscardAnswered

(* The row d is replaced by one with other content: nothing of this form   *)
(* that waits between its requests is about d any more.                    *)
LEMMA ShownRowKept ==
    ASSUME NEW cs, NEW written, NEW rows, NEW new, Shown(cs, written, rows),
           \A e \in written : new[e].text = rows[e].text
                              /\ new[e].hint = rows[e].hint
    PROVE  Shown(cs, written, new)
  BY DEF Shown, ShownCall, AsShown

LEMMA ShownElsewhere ==
    ASSUME FormInv, ShownInv, NEW d \in DOMAIN server,
           \/ \E text \in Texts : OtherDeviceEdits(d, text)
           \/ \E st \in {"submitted", "deleted", "sent_back"} :
                 MovedElsewhere(d, st)
    PROVE  ShownInv'
  <1>1. /\ server \in Seq(DraftRow) /\ server[d] \in DraftRow
        /\ mine \subseteq DOMAIN server
    BY IdOf DEF FormInv, GoodServer, ShownInv
  <1>2. ASSUME NEW text \in Texts, OtherDeviceEdits(d, text)
        PROVE  ShownInv'
    <2>4. mine' = mine \ {d} /\ calls' = calls
      BY <1>2 DEF OtherDeviceEdits
    <2>5. DOMAIN server' = DOMAIN server
      BY <1>2, OtherEditGrows
    <2>6. \A e \in DOMAIN server \ {d} : server'[e] = server[e]
      BY <1>2, OtherEditGrows
    <2>1. /\ \A e \in mine' : server'[e] = server[e]
          /\ mine' \subseteq mine /\ calls' = calls
      BY <1>1, <2>4, <2>6
    <2>2. Shown(calls, mine', server)
      BY <2>1, ShownFewer DEF ShownInv
    <2>3. Shown(calls, mine', server')
      BY <2>1, <2>2, ShownRowKept
    <2> QED
      BY <1>1, <2>1, <2>3, <2>5 DEF ShownInv
  <1>3. ASSUME NEW st \in {"submitted", "deleted", "sent_back"},
               MovedElsewhere(d, st)
        PROVE  ShownInv'
    <2>1. /\ server' = [server EXCEPT ![d].st = st]
          /\ mine' = mine /\ calls' = calls
      BY <1>3 DEF MovedElsewhere, ghosts
    <2>2. \A e \in mine : /\ server'[e].text = server[e].text
                          /\ server'[e].hint = server[e].hint
      BY <1>1, <2>1 DEF DraftRow
    <2>3. Shown(calls, mine, server')
      BY <2>2, ShownRowKept DEF ShownInv
    <2>4. DOMAIN server' = DOMAIN server
      BY <1>1, <2>1
    <2> QED
      BY <1>1, <2>1, <2>3, <2>4 DEF ShownInv
  <1> QED
    BY <1>2, <1>3

(* Once the server wrote d for call i, what other calls of the form wait   *)
(* for is not about d.                                                     *)
LEMMA ShownServed ==
    ASSUME FormInv, ShownInv, NEW i \in CallIds, NEW d \in DOMAIN server',
           Grow(server, server'), Answer(i, d), calls[i].op # "none",
           \A e \in mine : e # d => server'[e].text = server[e].text
                                    /\ server'[e].hint = server[e].hint,
           \/ /\ Written(i, d)
              /\ calls[i].live => server'[d].text = calls[i].form.text
                                  /\ server'[d].hint = calls[i].form.hint
           \/ /\ mine' = mine
              /\ server'[d].st # "draft"
              /\ d \in mine => server'[d].text = server[d].text
                               /\ server'[d].hint = server[d].hint
    PROVE  ShownInv'
  <1>1. /\ calls \in [CallIds -> Call] /\ calls[i] \in Call
        /\ PendingFor(calls, refs.pending)
    BY Answered DEF FormInv
  <1>2. /\ calls'[i].at = "answered" /\ calls'[i].form = calls[i].form
        /\ calls'[i].answer.id = d /\ calls'[i].answer.st = server'[d].st
        /\ calls'[i].live = calls[i].live
        /\ \A j \in CallIds : j # i => calls'[j] = calls[j]
    BY <1>1 DEF Answer, Copy, Call
  <1>3. mine' \subseteq mine \cup {d}
    BY DEF Written
  <1>4. mine' \subseteq DOMAIN server'
    BY <1>3 DEF ShownInv, Grow
  <1>5. ShownCall(calls'[i], mine', server')
    <2>1. CASE /\ calls[i].live => server'[d].text = calls[i].form.text
                                   /\ server'[d].hint = calls[i].form.hint
      BY <1>2, <2>1 DEF ShownCall, AsShown
    <2>2. CASE server'[d].st # "draft"
      BY <1>2, <2>2 DEF ShownCall
    <2> QED
      BY <2>1, <2>2
  <1>6. ASSUME NEW j \in CallIds, j # i
        PROVE  ShownCall(calls'[j], mine', server')
    <2>1. calls'[j] = calls[j] /\ ShownCall(calls[j], mine, server)
      BY <1>2, <1>6 DEF ShownInv, Shown
    <2>2. CASE ~calls[j].live
      BY <2>1, <2>2 DEF ShownCall, AsShown
    <2>3. CASE calls[j].op = "none"
      <3>1. GoodCall(calls[j], server)
        BY Answered
      <3> QED
        BY <2>1, <2>3, <3>1 DEF ShownCall, GoodCall
    <2>4. CASE OwnCall(calls[j])
      <3>1. ~calls[i].live
        BY <1>1, <1>6, <2>4 DEF PendingFor, OwnCall
      <3>2. \A e \in mine' : /\ e \in mine
                             /\ server'[e].text = server[e].text
                             /\ server'[e].hint = server[e].hint
        BY <3>1 DEF Written
      <3> QED
        BY <2>1, <3>2 DEF ShownCall, AsShown
    <2> QED
      BY <2>2, <2>3, <2>4 DEF OwnCall
  <1> QED
    BY <1>4, <1>5, <1>6 DEF ShownInv, Shown

LEMMA ShownServe ==
    ASSUME FormInv, ShownInv, NEW i \in CallIds, Serve(i)
    PROVE  ShownInv'
  <1> DEFINE c == calls[i]
             d == c.draft.id
  <1>1. /\ GoodServer(server) /\ server \in Seq(DraftRow)
        /\ mine \subseteq DOMAIN server
        /\ calls \in [CallIds -> Call]
    BY DEF FormInv, GoodServer, GoodCalls, ShownInv
  <1>2. /\ c.form \in Fields /\ GoodCall(c, server)
        /\ c.draft # NoDraft => d \in DOMAIN server
    BY Answered DEF GoodCopy, CopyOf
  <1>3. c.form.text \in AnyText /\ c.form.hint \in BOOLEAN
    BY <1>2 DEF Fields
  <1>5. CASE HandleCreate(i)
    <2> DEFINE row == [st |-> "draft", text |-> c.form.text,
                       hint |-> c.form.hint, at |-> 1, stamp |-> 1]
               e == Len(server) + 1
    <2>1. row \in DraftRow
      BY <1>3 DEF DraftRow, DraftStates
    <2>2. /\ Len(server) < MaxDrafts /\ server' = Append(server, row)
          /\ Answer(i, e) /\ Written(i, e) /\ c.op # "none"
      BY <1>5 DEF HandleCreate, Writes
    <2>3. Grow(server, server') /\ e \in DOMAIN server'
      BY <1>1, <2>1, <2>2, GrowAppend
    <2>4. /\ \A b \in DOMAIN server : server'[b] = server[b]
          /\ server'[e] = row
      BY <1>1, <2>1, <2>2
    <2>5. \A b \in mine : b # e => server'[b].text = server[b].text
                                   /\ server'[b].hint = server[b].hint
      BY <1>1, <2>4
    <2>6. server'[e].text = c.form.text /\ server'[e].hint = c.form.hint
      BY <2>4
    <2> HIDE DEF row, e
    <2> QED
      BY <2>2, <2>3, <2>5, <2>6, ShownServed
  <1>6. CASE HandleEdit(i)
    <2>1. d \in DOMAIN server /\ c.op # "none" /\ Answer(i, d) /\ Written(i, d)
      BY <1>6, HandleEditDoes DEF HandleEdit, Writes
    <2>2. PICK stamp \in Nat : server' = RowEdited(d, c.form, stamp)
      BY <1>6, HandleEditDoes
    <2> HIDE DEF d
    <2>3. /\ Grow(server, server') /\ d \in DOMAIN server'
          /\ \A b \in DOMAIN server : b # d => server'[b] = server[b]
          /\ server'[d].text = c.form.text /\ server'[d].hint = c.form.hint
      BY <1>3, <2>1, <2>2, EditGrows
    <2>4. \A b \in mine : b # d => server'[b].text = server[b].text
                                   /\ server'[b].hint = server[b].hint
      BY <1>1, <2>3
    <2> QED
      BY <2>1, <2>3, <2>4, ShownServed
  <1>7. ASSUME NEW st \in {"submitted", "flagged", "deleted"},
               server' = [server EXCEPT ![d].st = st], c.op # "none",
               d \in DOMAIN server, Answer(i, d), mine' = mine
        PROVE  ShownInv'
    <2>1. server[d] \in DraftRow
      BY <1>7, IdOf
    <2> DEFINE row == [server[d] EXCEPT !.st = st]
    <2>2. /\ row \in DraftRow /\ row.at = server[d].at /\ row.st = st
          /\ row.text = server[d].text /\ row.hint = server[d].hint
      BY <2>1 DEF DraftRow, DraftStates
    <2>3. server' = [server EXCEPT ![d] = row]
      BY <1>7
    <2>4. d \in DOMAIN server
      BY <1>7
    <2> HIDE DEF row, d
    <2>5. Grow(server, [server EXCEPT ![d] = row])
      BY <1>1, <2>2, <2>4, GrowChange
    <2>6. Grow(server, server') /\ d \in DOMAIN server'
      BY <2>3, <2>4, <2>5 DEF Grow
    <2>7. /\ \A b \in DOMAIN server : b # d => server'[b] = server[b]
          /\ server'[d] = row
      BY <1>1, <2>3, <2>4
    <2>8. \A b \in mine : b # d => server'[b].text = server[b].text
                                   /\ server'[b].hint = server[b].hint
      BY <1>1, <2>7
    <2>9. /\ server'[d].st # "draft"
          /\ server'[d].text = server[d].text
          /\ server'[d].hint = server[d].hint
      BY <2>2, <2>7
    <2>10. Answer(i, d) /\ mine' = mine /\ c.op # "none"
      BY <1>7 DEF d
    <2> QED
      BY <2>6, <2>8, <2>9, <2>10, ShownServed
  <1>8. CASE HandleFinish(i)
    <2>1. d \in DOMAIN server /\ c.op # "none"
      BY <1>2, <1>8 DEF HandleFinish, GoodCall
    <2>2. /\ Answer(i, d) /\ mine' = mine
          /\ server' = [server EXCEPT ![d].st =
                IF c.op = "submit" THEN "submitted" ELSE "flagged"]
      BY <1>8 DEF HandleFinish, ghosts
    <2> HIDE DEF c, d
    <2>3. CASE c.op = "submit"
      BY <1>7, <2>1, <2>2, <2>3
    <2>4. CASE c.op # "submit"
      BY <1>7, <2>1, <2>2, <2>4
    <2> QED
      BY <2>3, <2>4
  <1>9. CASE HandleDiscard(i)
    <2>1. d \in DOMAIN server /\ c.op # "none"
      BY <1>2, <1>9 DEF HandleDiscard, GoodCall
    <2>2. Answer(i, d) /\ mine' = mine
      BY <1>9 DEF HandleDiscard, ghosts
    <2>3. \/ server' = [server EXCEPT ![d].st = "deleted"]
          \/ server[d].st = "deleted" /\ UNCHANGED server
      BY <1>9 DEF HandleDiscard
    <2> HIDE DEF c, d
    <2>4. CASE server[d].st = "deleted" /\ UNCHANGED server
      <3>1. Grow(server, server') /\ d \in DOMAIN server'
        BY <1>1, <2>1, <2>4, GrowSame
      <3> QED
        BY <2>1, <2>2, <2>4, <3>1, ShownServed DEF c
    <2> QED
      BY <1>7, <2>1, <2>2, <2>3, <2>4
  <1>10. CASE Refuse(i)
    BY <1>1, <1>10, ShownFailed DEF Refuse, Fail, ghosts, ShownInv
  <1> QED
    BY <1>5, <1>6, <1>8, <1>9, <1>10 DEF Serve

LEMMA ShownKeeps ==
    ASSUME FormInv, ShownInv, [Next]_vars
    PROVE  ShownInv'
  <1>0. GoodCalls(calls, server) /\ calls \in [CallIds -> Call]
    BY DEF FormInv, GoodCalls
  <1>1. ASSUME UNCHANGED <<server, calls, mine>>
        PROVE  ShownInv'
    BY <1>1 DEF ShownInv
  <1>2. CASE UNCHANGED vars
    BY <1>1, <1>2 DEF vars, clientVars, ghosts
  <1>3. ASSUME NEW keeps \in BOOLEAN, calls' = Left(calls, keeps),
               mine' = {}
        PROVE  ShownInv'
    BY <1>0, <1>3, ShownLeft DEF ShownInv
  <1>4. CASE Owner
    <2>1. ASSUME NEW text \in Texts, Type(text)
          PROVE  ShownInv'
      BY <1>1, <2>1 DEF Type, ghosts
    <2>2. CASE Blur \/ clearForm
      BY <1>1, <2>2 DEF Blur, clearForm, ghosts
    <2>3. CASE submit \/ requestHelp \/ discardDraft
      BY <2>3, ShownStart DEF submit, requestHelp, discardDraft, ghosts
    <2>4. ASSUME NEW op \in {"save", "new"}, Save(op)
          PROVE  ShownInv'
      BY <2>4, ShownStart DEF Save, StartSave, ghosts
    <2>5. CASE OpenTurnIn
      BY <1>3, <2>5 DEF OpenTurnIn, Mount
    <2>6. ASSUME NEW d \in Ids, OpenMyDrafts(d) \/ ReopenFromList(d)
          PROVE  ShownInv'
      BY <1>3, <2>6 DEF OpenMyDrafts, ReopenFromList, Mount
    <2>7. ASSUME NEW d \in Ids, SwitchDraft(d)
          PROVE  ShownInv'
      BY <1>0, <2>7, ShownRendered DEF SwitchDraft, ShownInv
    <2> QED
      BY <1>4, <2>1, <2>2, <2>3, <2>4, <2>5, <2>6, <2>7 DEF Owner
  <1>5. CASE Effects
    BY <1>1, <1>5
       DEF Effects, ipfsLookupAnswers, suggestExpiration, OfficesChange, ghosts
  <1>6. CASE Elsewhere
    BY <1>6, ShownElsewhere DEF Elsewhere
  <1>7. CASE IntervalSaves \/ TimerSaves
    BY <1>1, <1>7, ShownStart
       DEF IntervalSaves, TimerSaves, AutomaticSave, StartSave, ghosts
  <1>8. ASSUME NEW i \in CallIds, Lose(i)
        PROVE  ShownInv'
    BY <1>0, <1>8, ShownFailed DEF Lose, Fail, ShownInv
  <1> QED
    BY <1>2, <1>4, <1>5, <1>6, <1>7, <1>8, ShownServe, ShownContinue DEF Next

(* The second request of a submission finds the fields the first was sent  *)
(* with, unless another writer came between.                               *)
THEOREM SubmitsWhatWasShown == Spec => []SubmittedAsShown
  <1>1. Init => FormInv /\ ShownInv
    <2>1. ASSUME Init
          PROVE  ShownInv
      BY <2>1 DEF Init, NoCall, ShownInv, Shown, ShownCall
    <2> QED
      BY <2>1, InitGood
  <1>2. FormInv /\ ShownInv /\ [Next]_vars => (FormInv /\ ShownInv)'
    BY NextKeeps, StutterKeeps, ShownKeeps
  <1>3. FormInv /\ ShownInv => SubmittedAsShown
    BY DEF ShownInv, Shown, ShownCall, AsShown, SubmittedAsShown
  <1> QED
    BY <1>1, <1>2, <1>3, PTL DEF Spec

-----------------------------------------------------------------------------
(* The draft this turn-in became                                           *)

(* A call that will create a draft finds that none was made; a form        *)
(* without a draft and without a call made none.                           *)
BornCall(c, draft, made) ==
    OwnCall(c) =>
        IF c.draft = NoDraft
        THEN /\ c.at \in {"sent", "failed"} => made = {}
             /\ c.at = "answered" => made \subseteq {c.answer.id}
        ELSE draft # NoDraft

BornFor(draft, pending, cs, made) ==
    /\ \A d, e \in made : d = e
    /\ (draft = NoDraft /\ ~pending) => made = {}
    /\ \A i \in CallIds : BornCall(cs[i], draft, made)

BornInv == BornFor(state.draft, refs.pending, calls, born)

LEMMA BornDead ==
    ASSUME NEW cs, \A i \in CallIds : ~cs[i].live, NEW draft, NEW pending
    PROVE  BornFor(draft, pending, cs, {})
  BY DEF BornFor, BornCall, OwnCall

LEMMA BornChanged ==
    ASSUME NEW draft, NEW pending, NEW made, NEW cs \in [CallIds -> Call],
           BornFor(draft, pending, cs, made), NEW i \in CallIds, NEW c,
           BornCall(c, draft, made)
    PROVE  BornFor(draft, pending, [cs EXCEPT ![i] = c], made)
  BY DEF BornFor

LEMMA BornDone ==
    ASSUME FormInv, BornInv, NEW i \in CallIds, calls[i].op # "none",
           NEW draft, NEW pending,
           calls[i].live => draft # NoDraft \/ born = {},
           ~calls[i].live => draft = state.draft /\ pending = refs.pending
    PROVE  BornFor(draft, pending, Done(i), born)
  <1>1. /\ calls \in [CallIds -> Call]
        /\ PendingFor(calls, refs.pending)
    BY Answered DEF FormInv
  <1>2. /\ ~OwnCall(Done(i)[i])
        /\ \A j \in CallIds : j # i => Done(i)[j] = calls[j]
    BY <1>1 DEF Done, NoCall, OwnCall
  <1>3. CASE calls[i].live
    <2>1. \A j \in CallIds : ~OwnCall(Done(i)[j])
      BY <1>1, <1>2, <1>3 DEF PendingFor, OwnCall
    <2> QED
      BY <1>3, <2>1 DEF BornInv, BornFor, BornCall
  <1>4. CASE ~calls[i].live
    BY <1>2, <1>4 DEF BornInv, BornFor, BornCall
  <1> QED
    BY <1>3, <1>4

LEMMA BornRendered ==
    ASSUME FormInv, NEW onPage, NEW drafts, NEW next, NEW nextRefs \in FormRefs,
           NEW inFlight, GoodCalls(inFlight, server),
           onPage \in 0..MaxDrafts, GoodList(drafts, server),
           BornFor(next.draft, nextRefs.pending, inFlight, born),
           Rendered(onPage, drafts, next, nextRefs, inFlight)
    PROVE  BornInv'
  <1> DEFINE given == Given(onPage, drafts)
  <1>1. CASE /\ state' = next /\ refs' = nextRefs
             /\ calls' = inFlight /\ born' = born
    BY <1>1 DEF BornInv
  <1>2. CASE /\ isEditableDraft(given)
             /\ InitialDraftEffect(given, nextRefs.pending)
             /\ calls' = inFlight
             /\ born' = IF given.id = seen.id THEN born ELSE {}
    <2>1. given # NoDraft /\ state'.draft = given
      BY <1>2, NoDraftTyped DEF InitialDraftEffect, InitialState, Accepted
    <2>2. born' \in {born, {}}
      BY <1>2
    <2> HIDE DEF given
    <2> QED
      BY <1>2, <2>1, <2>2 DEF BornInv, BornFor, BornCall
  <1>3. CASE Mount(given) /\ calls' = Left(inFlight, TRUE)
    <2>1. \A i \in CallIds : ~calls'[i].live
      BY <1>3, LeftGood
    <2> QED
      BY <1>3, <2>1, BornDead DEF BornInv, Mount
  <1> HIDE DEF given
  <1> QED
    BY <1>1, <1>2, <1>3 DEF Rendered, ghosts, given

LEMMA BornStart ==
    ASSUME FormInv, BornInv, ~refs.pending, NEW op, Start(op),
           refs'.pending = TRUE, UNCHANGED born
    PROVE  BornInv'
  <1>1. calls \in [CallIds -> Call] /\ state \in FormStates
    BY DEF FormInv, GoodCalls, GoodForm
  <1>2. PICK i \in CallIds :
          calls' = [calls EXCEPT ![i] = [NoCall EXCEPT
              !.op = op, !.draft = state.draft, !.form = state.form,
              !.live = TRUE, !.parent = page # 0,
              !.since = EditsOf(state.draft)]]
    BY DEF Start
  <1> DEFINE c == [NoCall EXCEPT
              !.op = op, !.draft = state.draft, !.form = state.form,
              !.live = TRUE, !.parent = page # 0,
              !.since = EditsOf(state.draft)]
  <1>3. /\ c.at = "sent" /\ c.draft = state.draft
        /\ calls' = [calls EXCEPT ![i] = c]
    BY <1>2 DEF NoCall
  <1> HIDE DEF c
  <1>4. BornCall(c, state.draft, born)
    BY <1>3 DEF BornCall, BornInv, BornFor
  <1>5. BornFor(state.draft, refs.pending, calls', born)
    BY <1>1, <1>3, <1>4, BornChanged DEF BornInv
  <1>6. state'.draft = state.draft
    BY <1>1 DEF Start, FormStates
  <1> QED
    BY <1>5, <1>6 DEF BornInv, BornFor

LEMMA BornContinue ==
    ASSUME FormInv, BornInv, NEW i \in CallIds, Continue(i)
    PROVE  BornInv'
  <1> DEFINE c == calls[i]
  <1>1. /\ page \in 0..MaxDrafts /\ GoodList(list, server)
        /\ refs \in FormRefs /\ state \in FormStates
        /\ GoodCalls(Done(i), server)
        /\ Released(i) \in FormRefs /\ Requeued(i) \in FormRefs
    BY ReleasedTyped, DoneCalls DEF FormInv, GoodForm
  <1>2. /\ c \in Call /\ GoodCall(c, server) /\ calls \in [CallIds -> Call]
        /\ GoodCopy(c.answer, server)
        /\ c.at = "answered" => c.answer # NoDraft
        /\ c.draft \in Copies /\ c.form \in Fields
    BY Answered DEF GoodCopy
  <1>3. /\ Released(i).pending = IF c.live THEN FALSE ELSE refs.pending
        /\ Requeued(i).pending = IF c.live THEN FALSE ELSE refs.pending
    BY ReleasedTyped
  <1>4. ASSUME NEW save, NEW nextRefs, c.op # "none", c.at = "answered",
               nextRefs.pending = IF c.live THEN FALSE ELSE refs.pending
        PROVE  BornFor(Own(i, Accepted(c.answer, save)).draft,
                       nextRefs.pending, Done(i), born)
    <2>1. Own(i, Accepted(c.answer, save)).draft =
            IF c.live THEN c.answer ELSE state.draft
      BY DEF Own, Accepted
    <2> QED
      BY <1>2, <1>4, <2>1, BornDone
  <1>5. CASE SaveAnswered(i)
    <2> DEFINE nextRefs == Persisted(i, Requeued(i),
                                     draftInputSignature(c.form, c.draft))
    <2>1. /\ c.op = "save" /\ c.at = "answered"
          /\ Rendered(page, acceptProjection(i, c.answer),
                      Own(i, Accepted(c.answer, "saved")), nextRefs, Done(i))
      BY <1>5 DEF SaveAnswered
    <2>2. nextRefs \in FormRefs /\ nextRefs.pending = Requeued(i).pending
      BY <1>1, <1>2, SignatureTyped, PersistedTyped
    <2>3. GoodList(acceptProjection(i, c.answer), server)
      BY <2>1, ProjectionGood
    <2> HIDE DEF nextRefs
    <2> QED
      BY <1>1, <1>3, <1>4, <2>1, <2>2, <2>3, BornRendered
  <1>6. CASE SecondAnswered(i)
    <2>1. /\ c.op # "none" /\ c.at = "answered"
          /\ Rendered(page, acceptProjection(i, c.answer),
                      Own(i, Accepted(c.answer, "saved")), Released(i), Done(i))
      BY <1>6 DEF SecondAnswered
    <2>3. GoodList(acceptProjection(i, c.answer), server)
      BY <2>1, ProjectionGood
    <2> QED
      BY <1>1, <1>3, <1>4, <2>1, <2>3, BornRendered
  <1>7. CASE CallFails(i)
    <2> DEFINE next == Own(i, [state EXCEPT !.save = "error"])
               nextRefs == IF c.op \in {"save", "new"} THEN Requeued(i)
                           ELSE Released(i)
    <2>1. /\ c.op # "none" /\ c.at = "failed"
          /\ Rendered(page, list, next, nextRefs, Done(i))
      BY <1>7 DEF CallFails, InFlight
    <2>2. next.draft = state.draft
      BY <1>1 DEF Own, FormStates
    <2>3. c.live => state.draft # NoDraft \/ born = {}
      BY <2>1 DEF BornInv, BornFor, BornCall, OwnCall
    <2>4. /\ nextRefs \in FormRefs
          /\ nextRefs.pending = IF c.live THEN FALSE ELSE refs.pending
      BY <1>1, <1>3
    <2> HIDE DEF next, nextRefs
    <2>5. BornFor(next.draft, nextRefs.pending, Done(i), born)
      BY <2>1, <2>2, <2>3, <2>4, BornDone
    <2> QED
      BY <1>1, <2>1, <2>4, <2>5, BornRendered
  <1>8. CASE FirstAnswered(i)
    <2> DEFINE inFlight == [calls EXCEPT ![i].at = "finish",
                                         ![i].draft = c.answer,
                                         ![i].answer = NoDraft,
                                         ![i].since = EditsOf(c.answer)]
               d == [c EXCEPT !.at = "finish", !.draft = c.answer,
                              !.answer = NoDraft,
                              !.since = EditsOf(c.answer)]
    <2>1. inFlight = [calls EXCEPT ![i] = d]
      BY <1>2
    <2>10. EditsOf(c.answer) \in Nat
      BY <1>2, EditsTyped DEF FormInv
    <2>2. /\ d \in Call /\ d.op = c.op /\ d.live = c.live /\ d.at = "finish"
          /\ d.draft = c.answer /\ d.answer = NoDraft
      BY <1>2, <2>10, NoDraftTyped DEF Call, GoodCopy
    <2>3. /\ c.op \in {"submit", "help"} /\ c.at = "answered"
          /\ IF c.op = "submit"
             THEN Rendered(page, acceptProjection(i, c.answer),
                           Own(i, Accepted(c.answer, state.save)), refs,
                           inFlight)
             ELSE Rendered(page, list, state, refs, inFlight)
      BY <1>8 DEF FirstAnswered
    <2> HIDE DEF d
    <2>4. GoodCall(d, server)
      BY <1>2, <2>2, <2>3, NoDraftTyped DEF GoodCall, GoodCopy
    <2>5. GoodCalls(calls, server) /\ PendingFor(calls, refs.pending)
      BY DEF FormInv
    <2>6. GoodCalls(inFlight, server)
      BY <2>1, <2>4, <2>5, CallChanged
    <2>7. CASE c.op = "submit"
      <3> DEFINE next == Own(i, Accepted(c.answer, state.save))
      <3>1. next.draft = IF c.live THEN c.answer ELSE state.draft
        BY DEF Own, Accepted
      <3> HIDE DEF next
      <3>2. BornCall(d, next.draft, born)
        BY <1>2, <2>2, <2>3, <3>1 DEF BornCall, OwnCall
      <3>3. BornFor(next.draft, refs.pending, calls, born)
        <4>1. CASE ~c.live
          BY <3>1, <4>1 DEF BornInv
        <4>2. CASE c.live
          <5>1. next.draft # NoDraft
            BY <1>2, <2>3, <3>1, <4>2
          <5> QED
            BY <5>1 DEF BornInv, BornFor, BornCall
        <4> QED
          BY <4>1, <4>2
      <3>4. BornFor(next.draft, refs.pending, [calls EXCEPT ![i] = d], born)
        BY <1>2, <3>2, <3>3, BornChanged
      <3>5. BornFor(next.draft, refs.pending, inFlight, born)
        BY <2>1, <3>4
      <3>6. GoodList(acceptProjection(i, c.answer), server)
        BY <2>3, ProjectionGood
      <3>7. Rendered(page, acceptProjection(i, c.answer), next, refs, inFlight)
        BY <2>3, <2>7 DEF next
      <3> QED
        BY <1>1, <2>6, <3>5, <3>6, <3>7, BornRendered
    <2>8. CASE c.op = "help"
      <3>1. c.draft # NoDraft
        BY <1>2, <2>8 DEF GoodCall
      <3>2. BornCall(d, state.draft, born)
        BY <1>2, <2>2, <2>3, <3>1 DEF BornCall, OwnCall, BornInv, BornFor
      <3>4. BornFor(state.draft, refs.pending, [calls EXCEPT ![i] = d], born)
        BY <1>2, <3>2, BornChanged DEF BornInv
      <3>5. BornFor(state.draft, refs.pending, inFlight, born)
        BY <2>1, <3>4
      <3> QED
        BY <1>1, <2>3, <2>6, <2>8, <3>5, BornRendered
    <2> QED
      BY <2>3, <2>7, <2>8
  <1>9. ASSUME NEW next, next.draft = NoDraft, NEW nextRefs \in FormRefs,
               nextRefs.pending = IF c.live THEN FALSE ELSE refs.pending,
               c.op # "none", StartNew(i, next, nextRefs)
        PROVE  BornInv'
    <2>1. CASE page # 0
      <3>1. calls' = Left(Done(i), FALSE) /\ born' = {}
        BY <1>9, <2>1 DEF StartNew, Mount
      <3>2. \A j \in CallIds : ~calls'[j].live
        BY <1>1, <3>1, LeftGood
      <3> QED
        BY <3>1, <3>2, BornDead DEF BornInv
    <2>2. CASE page = 0
      <3>1. /\ state' = Own(i, next) /\ calls' = Done(i)
            /\ refs' = Persisted(i, nextRefs, NothingPersisted)
            /\ born' = IF c.live THEN {} ELSE born
        BY <1>9, <2>2 DEF StartNew
      <3>2. refs'.pending = nextRefs.pending
        BY <1>9, <3>1, PersistedTyped
      <3>3. CASE c.live
        <4>1. PendingFor(Done(i), FALSE)
          BY <1>3, <1>9, <3>3, ReleasedCalls
        <4> QED
          BY <3>1, <3>3, <4>1 DEF PendingFor, BornInv, BornFor, BornCall
      <3>4. CASE ~c.live
        <4>1. BornFor(state.draft, refs.pending, Done(i), born)
          BY <1>9, <3>4, BornDone
        <4> QED
          BY <1>9, <3>1, <3>2, <3>4, <4>1 DEF BornInv, Own
      <3> QED
        BY <3>3, <3>4
    <2> QED
      BY <2>1, <2>2
  <1>10. CASE saveAndStartNewAnswered(i)
    <2>1. \E form : StartNew(i, [draft |-> NoDraft, save |-> "idle",
                                 form |-> form], Requeued(i))
      BY <1>10 DEF saveAndStartNewAnswered
    <2>2. c.op # "none"
      BY <1>10 DEF saveAndStartNewAnswered
    <2>3. \A form : [draft |-> NoDraft, save |-> "idle",
                     form |-> form].draft = NoDraft
      OBVIOUS
    <2> QED
      BY <1>1, <1>3, <1>9, <2>1, <2>2, <2>3
  <1>11. CASE DiscardAnswered(i)
    <2>1. StartNew(i, InitialState(NoDraft), Released(i)) /\ c.op # "none"
      BY <1>11 DEF DiscardAnswered
    <2>2. InitialState(NoDraft).draft = NoDraft
      BY DEF InitialState, Accepted
    <2> QED
      BY <1>1, <1>3, <1>9, <2>1, <2>2
  <1> QED
    BY <1>5, <1>6, <1>7, <1>8, <1>10, <1>11 DEF Continue

LEMMA BornServe ==
    ASSUME FormInv, BornInv, NEW i \in CallIds, Serve(i)
    PROVE  BornInv'
  <1> DEFINE c == calls[i]
  <1>1. /\ calls \in [CallIds -> Call] /\ c \in Call /\ GoodCall(c, server)
        /\ PendingFor(calls, refs.pending)
    BY Answered DEF FormInv
  <1>2. UNCHANGED <<state, refs>>
    BY DEF Serve, clientVars
  <1>3. ASSUME NEW d, Answer(i, d)
        PROVE  /\ calls'[i].op = c.op /\ calls'[i].live = c.live
               /\ calls'[i].draft = c.draft /\ calls'[i].at = "answered"
               /\ calls'[i].answer.id = d
               /\ \A j \in CallIds : j # i => calls'[j] = calls[j]
    BY <1>1, <1>3 DEF Answer, Copy, Call
  <1>4. CASE HandleCreate(i)
    <2> DEFINE e == Len(server) + 1
    <2>1. /\ c.op # "none" /\ c.at = "sent" /\ c.draft = NoDraft
          /\ Answer(i, e)
          /\ born' = IF c.live THEN born \cup {e} ELSE born
      BY <1>4 DEF HandleCreate, MadeBy, Writes
    <2> HIDE DEF e
    <2>2. CASE ~c.live
      BY <1>2, <1>3, <2>1, <2>2 DEF BornInv, BornFor, BornCall, OwnCall
    <2>3. CASE c.live
      <3>1. OwnCall(c)
        BY <2>1, <2>3 DEF OwnCall
      <3>2. born' = {e} /\ refs.pending
        BY <1>1, <2>1, <2>3, <3>1 DEF BornInv, BornFor, BornCall, PendingFor
      <3>3. \A j \in CallIds : j # i => ~OwnCall(calls'[j])
        BY <1>1, <1>3, <2>1, <3>1 DEF PendingFor
      <3>4. BornCall(calls'[i], state.draft, born')
        BY <1>3, <2>1, <3>2 DEF BornCall
      <3> QED
        BY <1>2, <3>2, <3>3, <3>4 DEF BornInv, BornFor, BornCall
    <2> QED
      BY <2>2, <2>3
  <1>5. ASSUME NEW d, Answer(i, d), c.draft # NoDraft, UNCHANGED born
        PROVE  BornInv'
    <2>1. \A j \in CallIds : BornCall(calls[j], state.draft, born)
      BY DEF BornInv, BornFor
    <2>2. BornCall(calls'[i], state.draft, born)
      BY <1>3, <1>5, <2>1 DEF BornCall, OwnCall
    <2>3. \A j \in CallIds : BornCall(calls'[j], state.draft, born)
      BY <1>3, <1>5, <2>1, <2>2
    <2> QED
      BY <1>2, <1>5, <2>3 DEF BornInv, BornFor
  <1>6. CASE HandleEdit(i)
    BY <1>5, <1>6 DEF HandleEdit, EditAllowed
  <1>7. CASE HandleFinish(i)
    BY <1>1, <1>5, <1>7 DEF HandleFinish, GoodCall, ghosts
  <1>8. CASE HandleDiscard(i)
    BY <1>1, <1>5, <1>8 DEF HandleDiscard, GoodCall, ghosts
  <1>9. CASE Refuse(i)
    <2> DEFINE d == [c EXCEPT !.at = "failed", !.since = 0]
    <2>1. calls' = [calls EXCEPT ![i] = d] /\ UNCHANGED born
      BY <1>1, <1>9 DEF Refuse, Fail, ghosts
    <2>2. d.op = c.op /\ d.live = c.live /\ d.draft = c.draft
      BY <1>1 DEF Call
    <2>3. c.at = "sent" \/ c.draft # NoDraft
      BY <1>1, <1>9 DEF Refuse, Refused, GoodCall
    <2> HIDE DEF d
    <2>4. BornCall(d, state.draft, born)
      BY <2>2, <2>3 DEF BornInv, BornFor, BornCall, OwnCall
    <2> QED
      BY <1>1, <1>2, <2>1, <2>4, BornChanged DEF BornInv
  <1> QED
    BY <1>4, <1>6, <1>7, <1>8, <1>9 DEF Serve

LEMMA BornLose ==
    ASSUME FormInv, BornInv, NEW i \in CallIds, Lose(i)
    PROVE  BornInv'
  <1> DEFINE c == calls[i]
             d == [c EXCEPT !.at = "failed", !.since = 0]
  <1>1. /\ calls \in [CallIds -> Call] /\ c \in Call /\ GoodCall(c, server)
    BY Answered DEF FormInv
  <1>2. UNCHANGED <<state, refs>> /\ born' = born \ {c.answer.id}
    BY DEF Lose, clientVars
  <1>3. calls' = [calls EXCEPT ![i] = d] /\ c.at # "failed"
    BY <1>1 DEF Lose, Fail
  <1>4. d.op = c.op /\ d.live = c.live /\ d.draft = c.draft
    BY <1>1 DEF Call
  <1>5. c.at \in {"sent", "answered"} \/ c.draft # NoDraft
    BY <1>1, <1>3 DEF Call, GoodCall
  <1> HIDE DEF d
  <1>6. BornCall(d, state.draft, born')
    BY <1>2, <1>4, <1>5 DEF BornInv, BornFor, BornCall, OwnCall
  <1>7. BornFor(state.draft, refs.pending, calls, born')
    BY <1>2 DEF BornInv, BornFor, BornCall
  <1>8. BornFor(state.draft, refs.pending, [calls EXCEPT ![i] = d], born')
    BY <1>1, <1>6, <1>7, BornChanged
  <1> QED
    BY <1>2, <1>3, <1>8 DEF BornInv

LEMMA BornKeeps ==
    ASSUME FormInv, BornInv, [Next]_vars
    PROVE  BornInv'
  <1>0. /\ GoodCalls(calls, server) /\ calls \in [CallIds -> Call]
        /\ state \in FormStates /\ refs \in FormRefs
        /\ page \in 0..MaxDrafts /\ GoodList(list, server)
    BY DEF FormInv, GoodCalls, GoodForm
  <1>1. ASSUME state'.draft = state.draft, refs'.pending = refs.pending,
               UNCHANGED <<calls, born>>
        PROVE  BornInv'
    BY <1>1 DEF BornInv
  <1>2. CASE UNCHANGED vars
    BY <1>1, <1>2 DEF vars, clientVars, ghosts
  <1>3. ASSUME NEW keeps \in BOOLEAN, calls' = Left(calls, keeps),
               born' = {}
        PROVE  BornInv'
    <2>1. \A i \in CallIds : ~calls'[i].live
      BY <1>0, <1>3, LeftGood
    <2> QED
      BY <1>3, <2>1, BornDead DEF BornInv
  <1>4. CASE Owner
    <2>1. ASSUME NEW text \in Texts, Type(text)
          PROVE  BornInv'
      <3>1. state'.draft = state.draft
        BY <1>0, <2>1 DEF Type, FormStates
      <3> QED
        BY <1>1, <2>1, <3>1 DEF Type, ghosts
    <2>2. CASE Blur
      <3>1. refs'.pending = refs.pending
        BY <1>0, <2>2 DEF Blur, FormRefs
      <3> QED
        BY <1>1, <2>2, <3>1 DEF Blur, ghosts
    <2>3. CASE clearForm
      <3>1. state'.draft = state.draft
        BY <1>0, <2>3 DEF clearForm, FormStates
      <3> QED
        BY <1>1, <2>3, <3>1 DEF clearForm, ghosts
    <2>4. CASE submit \/ requestHelp \/ discardDraft
      <3>1. refs'.pending = TRUE
        BY <1>0, <2>4 DEF submit, requestHelp, discardDraft, FormRefs
      <3> QED
        BY <2>4, <3>1, BornStart DEF submit, requestHelp, discardDraft, ghosts
    <2>5. ASSUME NEW op \in {"save", "new"}, Save(op)
          PROVE  BornInv'
      <3>1. refs'.pending = TRUE
        BY <1>0, <2>5 DEF Save, FormRefs
      <3> QED
        BY <2>5, <3>1, BornStart DEF Save, StartSave, ghosts
    <2>6. CASE OpenTurnIn
      BY <1>3, <2>6 DEF OpenTurnIn, Mount
    <2>7. ASSUME NEW d \in Ids, OpenMyDrafts(d) \/ ReopenFromList(d)
          PROVE  BornInv'
      BY <1>3, <2>7 DEF OpenMyDrafts, ReopenFromList, Mount
    <2>8. ASSUME NEW d \in Ids, SwitchDraft(d)
          PROVE  BornInv'
      <3>1. Rendered(d, list, state, refs, calls) /\ d \in 0..MaxDrafts
        BY <2>8, Bounds DEF SwitchDraft
      <3> QED
        BY <1>0, <3>1, BornRendered DEF BornInv
    <2> QED
      BY <1>4, <2>1, <2>2, <2>3, <2>4, <2>5, <2>6, <2>7, <2>8 DEF Owner
  <1>5. CASE Effects
    <2>1. CASE ipfsLookupAnswers
      <3>1. state'.draft = state.draft
        BY <1>0, <2>1 DEF ipfsLookupAnswers, FormStates
      <3> QED
        BY <1>1, <2>1, <3>1 DEF ipfsLookupAnswers, ghosts
    <2>2. ASSUME NEW text \in Texts, suggestExpiration(text)
          PROVE  BornInv'
      <3>1. state'.draft = state.draft
        BY <1>0, <2>2 DEF suggestExpiration, FormStates
      <3> QED
        BY <1>1, <2>2, <3>1 DEF suggestExpiration, ghosts
    <2>3. CASE OfficesChange
      BY <1>1, <2>3 DEF OfficesChange, clientVars, ghosts
    <2> QED
      BY <1>5, <2>1, <2>2, <2>3 DEF Effects
  <1>6. CASE Elsewhere
    BY <1>1, <1>6 DEF Elsewhere, OtherDeviceEdits, MovedElsewhere, clientVars, ghosts
  <1>7. CASE IntervalSaves \/ TimerSaves
    <2>1. UNCHANGED born
      BY <1>7 DEF IntervalSaves, TimerSaves, ghosts
    <2>2. ASSUME NEW timer, refs' = [refs EXCEPT !.queued = TRUE, !.timer = timer]
                            \/ refs' = [refs EXCEPT !.timer = timer],
                 UNCHANGED <<state, calls>>
          PROVE  BornInv'
      <3>1. refs'.pending = refs.pending
        BY <1>0, <2>2 DEF FormRefs
      <3> QED
        BY <1>1, <2>1, <2>2, <3>1
    <2>3. ASSUME NEW timer, refs' = [refs EXCEPT !.pending = TRUE, !.timer = timer],
                 StartSave("save")
          PROVE  BornInv'
      <3>1. refs'.pending = TRUE
        BY <1>0, <2>3 DEF FormRefs
      <3> QED
        BY <2>1, <2>3, <3>1, BornStart DEF StartSave
    <2>4. ASSUME NEW timer, AutomaticSave(timer)
          PROVE  BornInv'
      BY <2>2, <2>3, <2>4 DEF AutomaticSave
    <2> QED
      BY <1>7, <2>2, <2>4 DEF IntervalSaves, TimerSaves
  <1> QED
    BY <1>2, <1>4, <1>5, <1>6, <1>7, BornServe, BornLose, BornContinue DEF Next

(* Saves, retries and submissions of one turn-in make one draft, unless    *)
(* the answer of its creation was lost.                                    *)
THEOREM OneDraftIsMade == Spec => []OneDraftPerTurnIn
  <1>1. Init => FormInv /\ BornInv
    <2>1. ASSUME Init
          PROVE  BornInv
      BY <2>1 DEF Init, NoCall, BornInv, BornFor, BornCall, OwnCall
    <2> QED
      BY <2>1, InitGood
  <1>2. FormInv /\ BornInv /\ [Next]_vars => (FormInv /\ BornInv)'
    BY NextKeeps, StutterKeeps, BornKeeps
  <1>3. ASSUME BornInv
        PROVE  OneDraftPerTurnIn
    <2>1. CASE born = {}
      BY <2>1, FS_EmptySet DEF OneDraftPerTurnIn
    <2>2. CASE born # {}
      <3>1. PICK d \in born : TRUE
        BY <2>2
      <3>2. born = {d}
        BY <1>3, <3>1 DEF BornInv, BornFor
      <3> QED
        BY <3>2, FS_Singleton DEF OneDraftPerTurnIn
    <2> QED
      BY <2>1, <2>2
  <1> QED
    BY <1>1, <1>2, <1>3, PTL DEF Spec

=============================================================================
