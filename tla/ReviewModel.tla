----------------------------- MODULE ReviewModel -----------------------------
(***************************************************************************)
(* The review model of the MSRC page (webapp/static/review-model.js) with  *)
(* the page's handlers that call it (webapp/static/msrc.js).               *)
(*                                                                         *)
(* A load and a sign each start a request and suspend until it settles.    *)
(* Between the two, the reviewer may import another file, edit the         *)
(* selection or the audience, or sign again.  Every such step takes a new  *)
(* revision, and a response is used only if its revision is still current. *)
(***************************************************************************)
EXTENDS Naturals

CONSTANTS Files,        \* statement files the reviewer may import
          ChoiceIds,    \* ids of the choices a report can offer
          ChoicesOf,    \* the choices of each file's report
          Disabled,     \* those of them that hold padding, so cannot be chosen
          Kind,         \* the profile kind of each choice
          Audiences,    \* what may be typed as the audience
          Trim,         \* String.trim on them
          Blank,        \* the trimmed text that is empty
          NoReport, NoToken,
          MaxRevision   \* bound: how many revisions the reviewer starts

Kinds == {"field", "body", "reference"}

ASSUME ReviewAssumption ==
    /\ ChoicesOf \in [Files -> SUBSET ChoiceIds]
    /\ Disabled \in [Files -> SUBSET ChoiceIds]
    /\ Kind \in [ChoiceIds -> Kinds]
    /\ Trim \in [Audiences -> Audiences]
    /\ NoReport \notin Files
    /\ MaxRevision \in Nat

VARIABLES audience, phase, report, selected, token, revision,
          loads,   \* the imports that have not settled
          signs,   \* the signing requests that have not settled
          newest   \* history: the file imported last

model == <<audience, phase, report, selected, token, revision>>
vars == <<audience, phase, report, selected, token, revision, loads, signs, newest>>

Enabled(f) == ChoicesOf[f] \ Disabled[f]

(***************************************************************************)
(* The openings of a selection: the choice's own and, for a body chunk or  *)
(* a reference, that of the field it is nested in.  A chosen opening is    *)
(* named by its choice and a field's own opening by the field's kind.      *)
(***************************************************************************)
SelectedOpenings(chosen) == chosen \cup {Kind[c] : c \in {d \in chosen : Kind[d] # "field"}}

Openings == SUBSET (ChoiceIds \cup Kinds)
Tokens == [report : Files, openings : Openings, audience : Audiences]

CanSign == /\ report # NoReport
           /\ phase # "signing"
           /\ selected # {}
           /\ Trim[audience] # Blank

CanExport == phase = "signed" /\ token # NoToken

\* What a signature over the page's present state would say.
Draft == [report |-> report, openings |-> SelectedOpenings(selected),
          audience |-> Trim[audience]]

-----------------------------------------------------------------------------
Init == /\ audience \in Audiences
        /\ phase = "empty"
        /\ report = NoReport
        /\ selected = {}
        /\ token = NoToken
        /\ revision = 0
        /\ loads = {} /\ signs = {}
        /\ newest = NoReport

Invalidate(next) == /\ revision < MaxRevision
                    /\ revision' = revision + 1
                    /\ phase' = next
                    /\ token' = NoToken

Load(f) == /\ Invalidate("loading")
           /\ report' = NoReport
           /\ selected' = {}
           /\ loads' = loads \cup {[rev |-> revision + 1, file |-> f]}
           /\ newest' = f
           /\ UNCHANGED <<audience, signs>>

\* Mutant: an answer is taken whatever import it is of.
LoadSucceeds_AnyAnswer(r) ==
    /\ report' = r.file
    /\ selected' = Enabled(r.file)
    /\ phase' = "ready"
    /\ loads' = loads \ {r}
    /\ UNCHANGED <<audience, token, revision, signs, newest>>

\* The file was read, inspected by the MSRC and its openings decoded.
LoadSucceeds(r) == /\ r.rev = revision
                   /\ report' = r.file
                   /\ selected' = Enabled(r.file)
                   /\ phase' = "ready"
                   /\ loads' = loads \ {r}
                   /\ UNCHANGED <<audience, token, revision, signs, newest>>

\* Mutant: the error is not made a phase.
LoadFails_SamePhase(r) ==
    /\ r.rev = revision
    /\ loads' = loads \ {r}
    /\ UNCHANGED <<audience, phase, report, selected, token, revision, signs, newest>>

\* The file is not a statement, the MSRC refuses it, or the request fails.
LoadFails(r) == /\ r.rev = revision
                /\ phase' = "error"
                /\ loads' = loads \ {r}
                /\ UNCHANGED <<audience, report, selected, token, revision, signs, newest>>

\* Mutant: the audience does not invalidate.
SetAudience_Keeps(a) ==
    /\ a # audience
    /\ audience' = a
    /\ UNCHANGED <<phase, report, selected, token, revision, loads, signs, newest>>

\* Mutant: the token is dropped, but no revision taken.
SetAudience_SameRevision(a) ==
    /\ a # audience
    /\ audience' = a
    /\ IF report = NoReport
       THEN UNCHANGED <<phase, token>>
       ELSE phase' = "ready" /\ token' = NoToken
    /\ UNCHANGED <<report, selected, revision, loads, signs, newest>>

SetAudience(a) == /\ a # audience
                  /\ audience' = a
                  /\ IF report = NoReport
                     THEN UNCHANGED <<phase, token, revision>>
                     ELSE Invalidate("ready")
                  /\ UNCHANGED <<report, selected, loads, signs, newest>>

\* Mutant: the choice invalidates, but the phase stays.
SetSelected_SamePhase(c, included) ==
    /\ report # NoReport
    /\ c \in Enabled(report)
    /\ (c \in selected) # included
    /\ selected' = IF included THEN selected \cup {c} ELSE selected \ {c}
    /\ Invalidate(phase)
    /\ UNCHANGED <<audience, report, loads, signs, newest>>

SetSelected(c, included) ==
    /\ report # NoReport
    /\ c \in Enabled(report)
    /\ (c \in selected) # included
    /\ selected' = IF included THEN selected \cup {c} ELSE selected \ {c}
    /\ Invalidate("ready")
    /\ UNCHANGED <<audience, report, loads, signs, newest>>

\* Select or clear every choice of some kinds; invalidates even if none changes.
SelectAll(included, kinds) ==
    /\ report # NoReport
    /\ LET ofKind == {c \in Enabled(report) : Kind[c] \in kinds}
       IN  selected' = IF included THEN selected \cup ofKind ELSE selected \ ofKind
    /\ Invalidate("ready")
    /\ UNCHANGED <<audience, report, loads, signs, newest>>

Sign == /\ CanSign
        /\ Invalidate("signing")
        /\ signs' = signs \cup {[rev |-> revision + 1, asks |-> Draft]}
        /\ UNCHANGED <<audience, report, selected, loads, newest>>

\* Mutant: a signature is taken whatever revision asked for it.
SignSucceeds_AnyAnswer(r) ==
    /\ token' = r.asks
    /\ phase' = "signed"
    /\ signs' = signs \ {r}
    /\ UNCHANGED <<audience, report, selected, revision, loads, newest>>

\* Mutant: the answer is kept with its request around it.
SignSucceeds_Wrapped(r) ==
    /\ r.rev = revision
    /\ token' = r
    /\ phase' = "signed"
    /\ signs' = signs \ {r}
    /\ UNCHANGED <<audience, report, selected, revision, loads, newest>>

SignSucceeds(r) == /\ r.rev = revision
                   /\ token' = r.asks
                   /\ phase' = "signed"
                   /\ signs' = signs \ {r}
                   /\ UNCHANGED <<audience, report, selected, revision, loads, newest>>

SignFails(r) == /\ r.rev = revision
                /\ phase' = "error"
                /\ signs' = signs \ {r}
                /\ UNCHANGED <<audience, report, selected, token, revision, loads, newest>>

\* An answer, good or bad, to a request that a later revision superseded.
IgnoreSuperseded(r) == /\ r.rev # revision
                       /\ loads' = loads \ {r}
                       /\ signs' = signs \ {r}
                       /\ UNCHANGED <<model, newest>>

Reviewer == \/ \E f \in Files : Load(f)
            \/ \E a \in Audiences : SetAudience(a)
            \/ \E c \in ChoiceIds, included \in BOOLEAN : SetSelected(c, included)
            \/ \E included \in BOOLEAN, kinds \in {Kinds, {"body"}, {"reference"}} :
                   SelectAll(included, kinds)
            \/ Sign

LoadSettles(n) == \E r \in loads :
    r.rev = n /\ (LoadSucceeds(r) \/ LoadFails(r) \/ IgnoreSuperseded(r))
SignSettles(n) == \E r \in signs :
    r.rev = n /\ (SignSucceeds(r) \/ SignFails(r) \/ IgnoreSuperseded(r))

Next == Reviewer \/ \E n \in 1..MaxRevision : LoadSettles(n) \/ SignSettles(n)

Spec == Init /\ [][Next]_vars

\* A browser's fetch resolves or rejects in the end; the reviewer owes nothing.
FairSpec == Spec /\ \A n \in 1..MaxRevision : WF_vars(LoadSettles(n)) /\ WF_vars(SignSettles(n))

-----------------------------------------------------------------------------
(* Properties *)

\* Types of the model's fields and of the suspended calls (review-model.js:4-14).
TypeOK ==
    /\ audience \in Audiences
    /\ phase \in {"empty", "loading", "ready", "signing", "signed", "error"}
    /\ report \in Files \cup {NoReport}
    /\ selected \in SUBSET ChoiceIds
    /\ token \in Tokens \cup {NoToken}
    /\ revision \in 0..MaxRevision
    /\ loads \in SUBSET [rev : 1..MaxRevision, file : Files]
    /\ signs \in SUBSET [rev : 1..MaxRevision, asks : Tokens]
    /\ newest \in Files \cup {NoReport}

\* Whenever the page offers the token for export (msrc.js:203), the token is of
\* the report on the page and discloses exactly the ticked choices, with the
\* fields they are nested in, to the audience now typed, however the reviewer
\* edited and re-signed while signatures were on their way.
ExportIsCurrent == CanExport => token = Draft

\* The report on the page is the file imported last: the answer for an earlier
\* file never displaces it, in whatever order the answers come
\* (review-model.js:32, 43), and only its own choices can be ticked.
NewestImportWins == report # NoReport => /\ report = newest
                                         /\ selected \subseteq Enabled(newest)

\* The page says it is working exactly while one request it would still listen
\* to is outstanding: no edit leaves it waiting for an answer that it is going
\* to ignore, and none lets an ignored one pass for the awaited one
\* (review-model.js:16-22).
WaitsForOneAnswer ==
    LET current == {r \in loads \cup signs : r.rev = revision} IN
    /\ phase \in {"loading", "signing"} <=> \E r \in current : current = {r}
    /\ phase = "loading" <=> current \cap loads # {}
    /\ phase = "signing" <=> current \cap signs # {}

\* Revisions tell requests apart, and none is of a revision to come
\* (review-model.js:16-22).
RevisionsTellApart ==
    /\ \A l \in loads : l.rev <= revision
    /\ \A s \in signs : s.rev <= revision
    /\ \A l \in loads : \A s \in signs : l.rev # s.rev
    /\ \A l1, l2 \in loads : l1.rev = l2.rev => l1 = l2
    /\ \A s1, s2 \in signs : s1.rev = s2.rev => s1 = s2

\* A request of the present revision asks for what the page shows, which is why
\* its answer can be used as it is (review-model.js:32, 110).
LiveRequestFits ==
    /\ \A l \in loads : l.rev = revision => phase = "loading" /\ l.file = newest
    /\ \A s \in signs : s.rev = revision => phase = "signing" /\ s.asks = Draft
    /\ phase = "loading" => \E l \in loads : l.rev = revision
    /\ phase = "signing" => \E s \in signs : s.rev = revision

\* Nothing is asked to be signed that may not be (review-model.js:94-98).
RequestsAreSignable ==
    \A s \in signs : s.asks.openings # {} /\ s.asks.audience # Blank

\* What each phase says of the report and the token (review-model.js:27-47).
PhaseFits ==
    /\ phase \in {"empty", "loading"} => report = NoReport
    /\ phase \in {"ready", "signing", "signed"} => report # NoReport
    /\ report = NoReport => selected = {}
    /\ phase = "signed" => token = Draft
    /\ phase # "signed" => token = NoToken

\* A token leaves the page, and a selection or audience differs from the one
\* being signed, only in a step that takes a new revision, which is what makes
\* the outstanding answer recognisable as superseded.
ChangesTakeARevision ==
    [][ (token # NoToken /\ token' # token) \/ (phase = "signing" /\ Draft' # Draft)
        => revision' > revision /\ token' = NoToken ]_vars

\* A started import or signature ends: in a result, an error, or an edit.
RequestsEnd == \A p \in {"loading", "signing"} : phase = p ~> phase # p

\* The page implements the draft that is signed in one step.
AllDrafts == [report : Files \cup {NoReport}, openings : Openings, audience : Audiences]
Atomic == INSTANCE DisclosureDraft WITH
    Drafts <- AllDrafts,
    Signable <- {d \in AllDrafts : d.report # NoReport /\ d.openings # {} /\ d.audience # Blank},
    draft <- Draft
SignsAtomically == Atomic!Spec
=============================================================================
