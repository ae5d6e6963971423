-------------------------- MODULE ReviewModelProofs --------------------------
(***************************************************************************)
(* Proofs about the review model, for any files, choices and audiences.    *)
(* The inductive invariant is that a request of the present revision asks  *)
(* for what the page shows, and that revisions tell requests apart.        *)
(***************************************************************************)
EXTENDS ReviewModel, TLAPS

USE ReviewAssumption

IInv == /\ TypeOK /\ PhaseFits /\ NewestImportWins
        /\ RevisionsTellApart /\ LiveRequestFits /\ RequestsAreSignable

\* The openings of a selection are openings (review-model.js:80).
LEMMA OpeningsType ==
    ASSUME NEW chosen \in SUBSET ChoiceIds
    PROVE  /\ SelectedOpenings(chosen) \in Openings
           /\ chosen # {} => SelectedOpenings(chosen) # {}
  BY DEF SelectedOpenings, Openings, Kinds

\* What a signature is asked for can be signed (review-model.js:94-109).
LEMMA DraftType ==
    ASSUME TypeOK
    PROVE  /\ Draft \in AllDrafts
           /\ report # NoReport => Draft \in Tokens
  BY OpeningsType DEF TypeOK, Draft, AllDrafts, Tokens

\* Every page starts in the inductive invariant (review-model.js:4-14).
LEMMA InitIInv == Init => IInv
  BY DEF Init, IInv, TypeOK, PhaseFits, NewestImportWins,
         RevisionsTellApart, LiveRequestFits, RequestsAreSignable

\* An invalidation takes a revision no request has (review-model.js:17).
LEMMA RevisionIsNew ==
    ASSUME TypeOK, RevisionsTellApart
    PROVE  /\ revision + 1 # revision
           /\ \A l \in loads : l.rev < revision + 1
           /\ \A s \in signs : s.rev < revision + 1
  BY DEF TypeOK, RevisionsTellApart

\* Importing, the one step that forgets the report.
LEMMA LoadIInv ==
    ASSUME IInv, NEW f \in Files, Load(f)
    PROVE  IInv'
<1> USE DEF IInv, Load, Invalidate
<1> DEFINE new == [rev |-> revision + 1, file |-> f]
<1>1. TypeOK'
  BY DEF TypeOK
<1>2. PhaseFits' /\ NewestImportWins' /\ RequestsAreSignable'
  BY DEF PhaseFits, NewestImportWins, RequestsAreSignable
<1>3. RevisionsTellApart'
  BY DEF RevisionsTellApart, TypeOK
<1>4. LiveRequestFits'
  <2>1. \A l \in loads' : l.rev = revision' => l = new
    BY RevisionIsNew
  <2>2. \A s \in signs' : s.rev # revision'
    BY RevisionIsNew
  <2>3. new \in loads' /\ new.rev = revision' /\ new.file = newest' /\ phase' = "loading"
    OBVIOUS
  <2> QED
    BY <2>1, <2>2, <2>3 DEF LiveRequestFits
<1> QED
  BY <1>1, <1>2, <1>3, <1>4

\* An edit of the draft that invalidates: the report stays, the requests are old.
LEMMA EditIInv ==
    ASSUME IInv, Invalidate("ready"), report # NoReport,
           UNCHANGED <<report, loads, signs, newest>>,
           audience' \in Audiences, selected' \in SUBSET Enabled(report)
    PROVE  IInv'
<1> USE DEF IInv, Invalidate
<1>1. TypeOK'
  BY DEF TypeOK, Enabled
<1>2. PhaseFits' /\ NewestImportWins' /\ RequestsAreSignable'
  BY DEF PhaseFits, NewestImportWins, RequestsAreSignable
<1>3. RevisionsTellApart'
  BY RevisionIsNew DEF RevisionsTellApart, TypeOK
<1>4. LiveRequestFits'
  BY RevisionIsNew DEF LiveRequestFits
<1> QED
  BY <1>1, <1>2, <1>3, <1>4

\* Typing an audience while there is no report takes no revision.
LEMMA SetAudienceIInv ==
    ASSUME IInv, NEW a \in Audiences, SetAudience(a)
    PROVE  IInv'
<1>1. CASE report # NoReport
  <2>1. selected \in SUBSET Enabled(report)
    BY <1>1 DEF IInv, NewestImportWins
  <2> QED
    BY <1>1, <2>1, EditIInv DEF SetAudience
<1>2. CASE report = NoReport
  <2> USE <1>2 DEF IInv, SetAudience
  <2>1. TypeOK'
    BY DEF TypeOK
  <2>2. \A s \in signs : s.rev # revision
    BY DEF LiveRequestFits, PhaseFits
  <2>3. PhaseFits' /\ NewestImportWins' /\ RequestsAreSignable' /\ RevisionsTellApart'
    BY DEF PhaseFits, NewestImportWins, RequestsAreSignable, RevisionsTellApart
  <2>4. LiveRequestFits'
    BY <2>2 DEF LiveRequestFits
  <2> QED
    BY <2>1, <2>3, <2>4
<1> QED
  BY <1>1, <1>2

\* Signing asks for the draft of the revision it takes.
LEMMA SignIInv ==
    ASSUME IInv, Sign
    PROVE  IInv'
<1> USE DEF IInv, Sign, Invalidate, CanSign
<1> DEFINE new == [rev |-> revision + 1, asks |-> Draft]
<1>1. Draft \in Tokens /\ Draft.openings # {} /\ Draft.audience # Blank
  BY DraftType, OpeningsType DEF Draft, TypeOK
<1>2. Draft' = Draft
  BY DEF Draft
<1>3. TypeOK'
  BY <1>1 DEF TypeOK
<1>4. PhaseFits' /\ NewestImportWins'
  BY DEF PhaseFits, NewestImportWins
<1>5. RequestsAreSignable'
  BY <1>1 DEF RequestsAreSignable
<1>6. RevisionsTellApart'
  BY RevisionIsNew DEF RevisionsTellApart, TypeOK
<1>7. LiveRequestFits'
  <2>1. \A l \in loads' : l.rev # revision'
    BY RevisionIsNew
  <2>2. \A s \in signs' : s.rev = revision' => s = new
    BY RevisionIsNew
  <2>3. new \in signs' /\ new.rev = revision' /\ new.asks = Draft' /\ phase' = "signing"
    BY <1>2
  <2> QED
    BY <2>1, <2>2, <2>3 DEF LiveRequestFits
<1> QED
  BY <1>3, <1>4, <1>5, <1>6, <1>7

\* The answer to an import, used or refused.
LEMMA LoadSettlesIInv ==
    ASSUME IInv, NEW r \in loads, LoadSucceeds(r) \/ LoadFails(r)
    PROVE  IInv'
<1> USE DEF IInv, LoadSucceeds, LoadFails
<1>1. /\ r.rev = revision /\ phase = "loading" /\ r.file = newest
      /\ report = NoReport /\ selected = {} /\ token = NoToken
  BY DEF LiveRequestFits, PhaseFits
<1>2. r.file \in Files /\ Enabled(r.file) \in SUBSET ChoiceIds
  BY DEF TypeOK, Enabled
<1>3. TypeOK'
  BY <1>2 DEF TypeOK
<1>4. PhaseFits' /\ NewestImportWins' /\ RequestsAreSignable' /\ RevisionsTellApart'
  BY <1>1, <1>2 DEF PhaseFits, NewestImportWins, RequestsAreSignable, RevisionsTellApart
<1>5. LiveRequestFits'
  <2>1. \A l \in loads' : l.rev # revision
    BY <1>1 DEF RevisionsTellApart
  <2>2. \A s \in signs : s.rev # revision
    BY <1>1 DEF RevisionsTellApart
  <2> QED
    BY <2>1, <2>2 DEF LiveRequestFits
<1> QED
  BY <1>3, <1>4, <1>5

\* The answer to a signature, used or refused.
LEMMA SignSettlesIInv ==
    ASSUME IInv, NEW r \in signs, SignSucceeds(r) \/ SignFails(r)
    PROVE  IInv'
<1> USE DEF IInv, SignSucceeds, SignFails
<1>1. r.rev = revision /\ phase = "signing" /\ r.asks = Draft /\ report # NoReport
  BY DEF LiveRequestFits, PhaseFits
<1>2. r.asks \in Tokens
  BY DEF TypeOK
<1>3. TypeOK'
  BY <1>2 DEF TypeOK
<1>4. Draft' = Draft
  BY DEF Draft
<1>5. PhaseFits'
  BY <1>1, <1>4 DEF PhaseFits
<1>6. NewestImportWins' /\ RequestsAreSignable' /\ RevisionsTellApart'
  BY DEF NewestImportWins, RequestsAreSignable, RevisionsTellApart
<1>7. LiveRequestFits'
  <2>1. \A s \in signs' : s.rev # revision
    BY <1>1 DEF RevisionsTellApart
  <2>2. \A l \in loads : l.rev # revision
    BY <1>1 DEF RevisionsTellApart
  <2> QED
    BY <2>1, <2>2 DEF LiveRequestFits
<1> QED
  BY <1>3, <1>5, <1>6, <1>7

\* A superseded answer changes nothing but what is outstanding.
LEMMA IgnoreIInv ==
    ASSUME IInv, NEW r, IgnoreSuperseded(r)
    PROVE  IInv'
<1> USE DEF IInv, IgnoreSuperseded, model
<1>1. TypeOK'
  BY DEF TypeOK
<1>2. Draft' = Draft
  BY DEF Draft
<1>3. PhaseFits' /\ NewestImportWins' /\ RequestsAreSignable' /\ RevisionsTellApart'
  BY <1>2 DEF PhaseFits, NewestImportWins, RequestsAreSignable, RevisionsTellApart
<1>4. LiveRequestFits'
  BY <1>2 DEF LiveRequestFits
<1> QED
  BY <1>1, <1>3, <1>4

\* Every step of the page preserves the inductive invariant.
LEMMA NextIInv ==
    ASSUME IInv, [Next]_vars
    PROVE  IInv'
<1>1. ASSUME NEW f \in Files, Load(f) PROVE IInv'
  BY <1>1, LoadIInv
<1>2. ASSUME NEW a \in Audiences, SetAudience(a) PROVE IInv'
  BY <1>2, SetAudienceIInv
<1>3. ASSUME NEW c \in ChoiceIds, NEW included \in BOOLEAN, SetSelected(c, included) PROVE IInv'
  <2>1. audience' \in Audiences /\ selected' \in SUBSET Enabled(report)
    BY <1>3 DEF IInv, TypeOK, NewestImportWins, SetSelected
  <2> QED
    BY <1>3, <2>1, EditIInv DEF SetSelected
<1>4. ASSUME NEW included \in BOOLEAN, NEW kinds, SelectAll(included, kinds) PROVE IInv'
  <2>1. audience' \in Audiences /\ selected' \in SUBSET Enabled(report)
    BY <1>4 DEF IInv, TypeOK, NewestImportWins, SelectAll
  <2> QED
    BY <1>4, <2>1, EditIInv DEF SelectAll
<1>5. CASE Sign
  BY <1>5, SignIInv
<1>6. ASSUME NEW n \in 1..MaxRevision, LoadSettles(n) PROVE IInv'
  BY <1>6, LoadSettlesIInv, IgnoreIInv DEF LoadSettles
<1>7. ASSUME NEW n \in 1..MaxRevision, SignSettles(n) PROVE IInv'
  BY <1>7, SignSettlesIInv, IgnoreIInv DEF SignSettles
<1>8. CASE UNCHANGED vars
  <2>1. Draft' = Draft
    BY <1>8 DEF vars, Draft
  <2> QED
    BY <1>8, <2>1 DEF vars, IInv, TypeOK, PhaseFits, NewestImportWins,
                      RevisionsTellApart, LiveRequestFits, RequestsAreSignable
<1> QED
  BY <1>1, <1>2, <1>3, <1>4, <1>5, <1>6, <1>7, <1>8 DEF Next, Reviewer

-----------------------------------------------------------------------------
\* The inductive invariant holds of every behaviour of the page.
THEOREM Invariance == Spec => []IInv
  BY InitIInv, NextIInv, PTL DEF Spec

\* Types, for any constants (review-model.js:4-14).
THEOREM TypeCorrect == Spec => []TypeOK
<1>1. IInv => TypeOK
  BY DEF IInv
<1> QED
  BY <1>1, Invariance, PTL

\* What can be exported is the draft on the page: the answer of the present
\* revision is the answer to it (msrc.js:203).
THEOREM ExportCorrect == Spec => []ExportIsCurrent
<1>1. IInv => ExportIsCurrent
  BY DEF IInv, PhaseFits, ExportIsCurrent, CanExport
<1> QED
  BY <1>1, Invariance, PTL

\* The report on the page is the one imported last (review-model.js:32).
THEOREM ImportCorrect == Spec => []NewestImportWins
<1>1. IInv => NewestImportWins
  BY DEF IInv
<1> QED
  BY <1>1, Invariance, PTL

\* While it works, the page waits for exactly one answer (review-model.js:16-22).
THEOREM WaitCorrect == Spec => []WaitsForOneAnswer
<1>1. ASSUME IInv PROVE WaitsForOneAnswer
  <2> USE <1>1 DEF IInv
  <2> DEFINE current == {r \in loads \cup signs : r.rev = revision}
  <2>1. \A r1, r2 \in current : r1 = r2
    BY DEF RevisionsTellApart
  <2>2. phase = "loading" <=> current \cap loads # {}
    BY DEF LiveRequestFits
  <2>3. phase = "signing" <=> current \cap signs # {}
    BY DEF LiveRequestFits
  <2>4. phase \in {"loading", "signing"} <=> \E r \in current : TRUE
    BY <2>2, <2>3
  <2>5. (\E r \in current : TRUE) <=> \E r \in current : current = {r}
    BY <2>1
  <2> QED
    BY <2>2, <2>3, <2>4, <2>5 DEF WaitsForOneAnswer
<1> QED
  BY <1>1, Invariance, PTL

\* A token is withdrawn, and what is being signed changes, only along with the
\* revision (review-model.js:51-73).
THEOREM RevisionCorrect == Spec => ChangesTakeARevision
<1> DEFINE changes == (token # NoToken /\ token' # token) \/ (phase = "signing" /\ Draft' # Draft)
           revised == revision' > revision /\ token' = NoToken
<1>1. ASSUME IInv, Next, changes PROVE revised
  <2> USE <1>1
  <2>1. ASSUME NEW next, Invalidate(next) PROVE revised
    BY <2>1 DEF Invalidate, IInv, TypeOK
  <2>2. report # NoReport
    BY DEF IInv, PhaseFits
  <2>3. ASSUME NEW r \in loads, LoadSucceeds(r) \/ LoadFails(r) PROVE FALSE
    BY <2>3, <2>2 DEF LoadSucceeds, LoadFails, IInv, LiveRequestFits, PhaseFits
  <2>4. ASSUME NEW r \in signs, SignSucceeds(r) \/ SignFails(r) PROVE FALSE
    BY <2>4 DEF SignSucceeds, SignFails, Draft, IInv, LiveRequestFits, PhaseFits
  <2>5. ASSUME NEW r, IgnoreSuperseded(r) PROVE FALSE
    BY <2>5 DEF IgnoreSuperseded, model, Draft
  <2>6. CASE Reviewer
    BY <2>1, <2>2, <2>6 DEF Reviewer, Load, SetAudience, SetSelected, SelectAll, Sign
  <2> QED
    BY <2>3, <2>4, <2>5, <2>6 DEF Next, LoadSettles, SignSettles
<1>2. ASSUME IInv, [Next]_vars PROVE [changes => revised]_vars
  BY <1>1, <1>2
<1> QED
  BY <1>2, Invariance, PTL DEF Spec, ChangesTakeARevision

-----------------------------------------------------------------------------
\* What the abstract draft may be signed as.
AllSignable == {d \in AllDrafts : d.report # NoReport /\ d.openings # {} /\ d.audience # Blank}

\* A step of the page that withdraws the token is an edit of the draft.
LEMMA StepIsEdit ==
    ASSUME TypeOK', token' = NoToken
    PROVE  Atomic!Edit
<1>1. Draft' \in AllDrafts
  BY OpeningsType DEF TypeOK, Draft, AllDrafts
<1> QED
  BY <1>1 DEF Atomic!Edit

\* Every step of the page is a step of the abstract draft, or none of it.
LEMMA NextRefines ==
    ASSUME IInv, [Next]_vars
    PROVE  [Atomic!Next]_(Atomic!vars)
<1>1. TypeOK'
  BY NextIInv DEF IInv
<1>2. CASE token' = NoToken
  BY <1>1, <1>2, StepIsEdit DEF Atomic!Next
<1>3. ASSUME NEW r \in signs, SignSucceeds(r) PROVE Atomic!Sign
  <2>1. r.asks = Draft /\ Draft \in AllSignable
    BY <1>3, DraftType DEF SignSucceeds, IInv, LiveRequestFits, PhaseFits,
                           RequestsAreSignable, AllSignable, Draft
  <2>2. Draft' = Draft /\ token' = Draft
    BY <1>3, <2>1 DEF SignSucceeds, Draft
  <2> QED
    BY <2>1, <2>2 DEF Atomic!Sign, AllSignable
<1>4. ASSUME NEW r, IgnoreSuperseded(r) PROVE UNCHANGED <<Draft, token>>
  BY <1>4 DEF IgnoreSuperseded, model, Draft
<1>5. ASSUME NEW r \in signs, SignFails(r) PROVE token' = NoToken
  BY <1>5 DEF SignFails, IInv, LiveRequestFits, PhaseFits
<1>6. ASSUME NEW r \in loads, LoadSucceeds(r) \/ LoadFails(r) PROVE token' = NoToken
  BY <1>6 DEF LoadSucceeds, LoadFails, IInv, LiveRequestFits, PhaseFits
<1>7. ASSUME Reviewer PROVE token' = NoToken
  BY <1>7 DEF Reviewer, Load, SetAudience, SetSelected, SelectAll, Sign, Invalidate,
              IInv, PhaseFits
<1>8. CASE UNCHANGED vars
  BY <1>8 DEF vars, Draft, Atomic!vars
<1> QED
  BY <1>2, <1>3, <1>4, <1>5, <1>6, <1>7, <1>8
  DEF Next, LoadSettles, SignSettles, Atomic!Next, Atomic!vars

\* The page, whose signatures take time and are overtaken, implements a page
\* that signs its draft in one step (review-model.js:104-121).
THEOREM SigningIsAtomic == Spec => SignsAtomically
<1>1. Init => Atomic!Init
  BY DraftType, InitIInv DEF Init, Atomic!Init, IInv
<1>2. IInv /\ [Next]_vars => [Atomic!Next]_(Atomic!vars)
  BY NextRefines
<1> QED
  BY <1>1, <1>2, Invariance, PTL DEF Spec, SignsAtomically, Atomic!Spec
=============================================================================
