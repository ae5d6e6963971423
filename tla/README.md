# Verification of "Evidence via Limited Disclosure"

TLA+ modules, TLC runs and TLAPS proofs for the prototype in `src/`: four
processes and their browser pages, through which a vulnerability report is
signed with every field redacted, registered with a transparency service,
delivered with its openings to the disclosure authority (MSRC), and later
disclosed in part to a verifier.

1. [The system](#1-the-system): components, state, interactions, what is hard
2. [Plan](#2-plan): modules in order, what is done and what is left
3. [The modules](#3-the-modules-and-the-code) and how they correspond to the code
4. [The runs](#4-the-runs), their bounds and their fairness
5. [The proofs](#5-the-proofs)
6. [Findings](#6-findings)
7. [What is not modelled](#7-what-is-not-modelled)

Runs: `tlc -config <cfg> <module>`; proofs: `tlapm <module>.tla`. `PROJECT.json`
lists the runs, the lines each definition stands for, and for every property a
mutant of the code that breaks it (the definitions marked `\* Mutant` in the
modules, which nothing else uses).

## 1. The system

| Component | State it keeps | Operations | Talks to |
| --- | --- | --- | --- |
| Researcher page (`app.js`, `registration.js`, `sdcwt.js`) | keys of the authority as of page load; the statement it signed and its openings; where the submit handler is | load, submit (endorse, sign, register, poll, present, deliver, confirm) | researcher backend |
| Researcher backend (`researcher.py`) | `state.entries`: signed bytes by transaction id, in memory | endorse, register, statement, deliver: forwards each and checks receipts | authority, transparency service |
| Transparency service: mock (`mock_scitt.py`) or MST (external) | receipt key, counter, entries; the mock's in memory, the counter under a lock | register, statement, trust | authority (its public keys, per registration) |
| Disclosure authority (`msrc.py`) | CA key, holder key, inbox, in memory | public state, endorse, deliver, inspect, sign disclosures | transparency service (its key, per inspection) |
| Review page (`review-model.js`, `msrc.js`) | report, selection, audience, phase, token, revision | load, edit audience, select, select all, sign, export | authority |
| Verifier (`verifier.py`, `verification.py`) and its page (`verify.js`) | none; the page: file, audience, results | verify | authority and service (public keys, per verification) |
| `sd_cwt` (`core.py`) and the adapter `crypto.py` | none | issue, decode, verify, match disclosures, sign and verify KBTs | used by all |

**What is hard.** The handlers are synchronous functions that FastAPI runs in a
thread pool, so in every process several handlers interleave; only the mock's
counter is under a lock. In the pages, every `await` lets the user and other
answers in. All state is in memory: a restart loses it and draws new keys, while
the other processes keep what they know. Transaction ids start over when the
mock does. Calls between processes have timeouts, after which the callee may
still finish. Keys are fetched anew for each check, except the holder key that
the researcher page read when it was loaded.

**What makes each component correct.**

- *Review page*: what can be exported is what the page shows, whatever answers
  are still to come; it never waits for an answer that it will ignore.
- *Transparency service*: under one key a transaction id names one statement; the
  ledger is append-only and agrees with the receipts.
- *Researcher backend and page*: private openings leave the browser only after
  its own bytes came back with a receipt signed for them; "Submission complete" is
  shown only for reports that are in the inbox; every submission ends.
- *Authority*: what is in its inbox it can open and sign for.
- *Matcher*: it accepts exactly those openings that hang on reachable hashes, and
  its result has nothing whose ancestors were not opened.
- *Verifier*: "valid" only for what the holder signed for this audience within
  the window, over a statement the issuer signed, while certified, and the service
  registered. *Its page*: results stand only over the inputs they are of.
- *Issuance*: what is issued validates with any choice of openings that is closed
  under parents, shows nothing else, and hides how much was redacted.
- *Strict scan*: exactly one conformant item passes.
- *Report profile*: what was entered, and nothing else, is what a verifier can be
  shown, each part in its place.

`PROJECT.json` lists all components under `components` and what is hard to test,
each at its line, under `hazards`.

## 2. Plan

Done, in this order:

1. `ReviewModel`, with `DisclosureDraft` as its abstraction, and its proofs.
2. `Statements`, `TransparencyService`, with its proofs.
3. `ResearcherGateway`, `DisclosureAuthority`, and `Submission`, which composes
   them with the page; `CompletionGate` as the abstraction of the composition.
4. `MatchDisclosures`, and its proofs.
5. `Presentation`, from the signing of a disclosure to the verifier's answer.
6. `VerifierPage`, and its proofs.
7. `Openings`, split off `MatchDisclosures` so that three modules share it, and
   `Issuance`: `issue` as the walk that the matcher inverts.
8. `CborScan`: the strict pass over untrusted bytes.
9. `ReportProfile`: padding, chunks, choices and views of a report.
10. The lifetime of issuer certificates in `Presentation`.

11. Proofs of `Submission`, `Presentation`, `Issuance` and `ReportProfile`, and of
    `ClosedSelectionsPass` in `MatchDisclosures`.
12. The grammar of `CborScan` as a function of the levels of nesting, and the proof
    that the pass is exact.

Next:

13. The matcher's walk and the mock's handlers as refinements of what the composed
    modules assume of them in one step; that the matcher's walk ends.

## 3. The modules and the code

**`ReviewModel`** is the class of that name together with the handlers of
`msrc.js` that call it. The fields of the class are the variables; `choices` is a
function of the report, so `ChoicesOf`, `Kind` and `Disabled` (what `choicesFor`
returns) are constants, and `verified` is set with `report` and stands for
nothing else. A load or sign that is suspended at its `await` is a record in
`loads` or `signs` with the revision it holds in its local variable; for a
signature also what it asks for, because `sign` passes the statement, openings
and trimmed audience before it suspends. `Load`, `SetAudience`, `SetSelected`,
`SelectAll`, `Sign` are the methods; the `...Succeeds`, `...Fails` and
`IgnoreSuperseded` actions are what follows an `await`. A token is what the
authority signed: report, openings, audience. `newest` is a history variable. The
page's error text and painting are left out.

**`DisclosureDraft`** says what the page promises without requests: a draft, edits
that withdraw the signature, and a signature over the draft in one step.

**`Statements`** has the signed artifacts and the checks of `crypto.py`.
Signatures are ideal and digests unique. A process draws its keys when it starts,
so a key is named by the number of restarts before it. A statement is determined
by who signed it, the CA of its issuer chain and the key in `cnf`; the openings are
its own and travel with it.

**`TransparencyService`** splits a registration where other threads can come
between: `Post` (request in), `Check` (the authority's keys fetched, statement
verified), `TakeNumber` (the lock), `Enter` (receipt, entry, answer). `Enter` is
one step: it reads no shared state, writes one entry, under a number nobody else
has, and nobody knows that number before the answer is sent. A number's CPython
dictionary write is atomic. `Retrievable` answers a retrieval. `RestartScitt` loses
key, ledger and unfinished handlers. `Merkle` puts MST in its place (external: it
checks by its own policy, may say that a statement is pending, and does not
restart here); `Faulty` lets answers be mixed up, which is what the checks
downstream are for.

**`ResearcherGateway`** has one handler at a time for each page's request
(`gwAt`), split at its calls upstream: for a registration, the 201 (`forwarding`),
receipt checked with a key fetched then (`recording`), entry recorded and answered;
for a retrieval, statement received (`matching`), compared with the remembered
bytes (`trusting`), receipt checked and answered; a delivery is passed on. A
failure of any step is `FailRequest`. `RestartGateway` forgets the entries.

**`DisclosureAuthority`** has endorsement, the delivery handler (verify, then
insert) and the restart. `delivered` is a history of the inbox over restarts.

**`Submission`** composes the three with the page. The page's variables are the
submit handler's locals. `page` names the request that is awaited; an answer that
arrives after the page gave up (`Turns`) is read by nobody, while the handlers
behind it run on. The endorsement is one step with the signing: the endorsement
has no effect on any state. The public keys of another process are read in the
step of the check they are used in, which is when the code fetches them; a fetch
that fails is the check's failure. Trying again by pressing the button makes a new
statement with new salts, hence another member of `Submissions`, whose page state
is not related to the first one's.

**`CompletionGate`** is the README's "Researcher completion gate" without
services: registered before delivered, delivered before complete.

**`Openings`** has the data that `MatchDisclosures`, `Issuance` and `Presentation`
share. A node is one map, array or value, an opening its own digest. There are two
parts: what the walk does at one node (`Opened`, `Missing`, `Clashes`, `Inside`, from
the code), and what makes a set of openings valid, in terms of its own (`HangsOn`,
`ClaimsOf`, a least fixed point instead of a walk), so that an error in the first is
not repeated in the second.

**`MatchDisclosures`** is `match_disclosures`. Resolving a map consults its hashes
and clear entries, an array its tagged elements; a step resolves one node and calls
on those inside it. The recursion is a set of nodes, taken in any order, which has
more behaviours than the code's depth-first order and the same verdict, as
`VerdictIsExact` shows. `ValueError` is the verdict "rejected". Malformed openings
(wrong arity, non-canonical CBOR) are rejected before the walk and are left out.

**`Presentation`** follows one disclosure. `ReceiveStatement` stands for a completed
submission (that this is all the authority ever holds is the matter of
`Submission`). `AskDisclosure`, `InspectRequest`, `SignDisclosure`,
`RefuseDisclosure` are `api/disclosures`, which keeps nothing but its locals
(`asked`, `signAt`); the request has the receipt and openings delivered or, for a
redacted copy, none, any selection and any audience. `merkle` says under which
service's receipts all this is done, the mock's or MST's (`Services`). `input` is
what is brought to the verifier: the token signed (`kbt`) or one that differs from
it in its receipt, openings, times or signing key, as other software could make it
(`Variants`). `verifyAt` runs through `api/verify`: the two fetches, then the stages
of `verify_bundle` in order, each of which sets its `checks` entry and its result,
`None` after a failure, as `Verification.run` does. `time` is the authority's clock
and `VerifierTime` the verifier's, `skew` away from it; a clock moves, and authority
and service restart, between any two steps. What the matcher accepts is `Valid` of
`Openings`, which the run and the proof of `MatchDisclosures` show to be its
verdict. The module extends `Openings`; `PayloadAssumption` says what shape a report's
payload has, as `redactReport` makes it. `LeafValid` is the validity of the issuer's certificate, which the
authority checks by its clock before it signs and the verifier by its own. `askedAt`
is a history variable. Since neither side keeps anything between requests, one
request to each stands for all.

**`Issuance`** is `issue`, and what becomes of its token. The claim set is a tree,
given by `Parent` and `Shape`; a redaction path is the node it leads to, or
`Nowhere`. `ValidatePaths` is the check of all paths before anything is redacted,
`RedactNode` the hiding of one entry in `_redact_node` (children first; which of two
unrelated entries comes first does not matter and is left open), `Pad` one turn of
the padding loop. `hidden` says what hashes stand where, and an opening holds what
`hidden` was inside its value when it was made. `Present` attaches any of the
openings; `Validate` is `validate` on a good signature: the depth check of the
payload and of each opening, and then the matcher, here as the recipient sees the
token (`Container`, `HashesAt`: a node is written in the payload or in the innermost
opening around it). `issue` does not check the depth of what it makes, and the
hashes of a redacted map are two levels below it; `HasRoom` is what a caller must
leave. `Above`, what an entry is in, is the least set that leads outward from it, and
not a recursion. `Hashes` in `Openings` is a sequence; the order is of no consequence
here.

**`CborScan`** is `_scan_cbor` and `_check_cbor`. Data is a sequence of item headers,
a header its major type, its length and what it decodes to; the call stack is
`frames`. Each action is what one call does at one header. `IsOneItem` is the grammar
that the result is compared with, written without stack, offset or state: `Ends` says
of each level of nesting where an item that begins at a position may end, from the
ends that the level inside allows (`Around`), the parts of a container being cut out
all at once (`AreItems`, `AreEntries`).

**`VerifierPage`** is `verify.js`. The page's state is in its elements: whether form
and results are hidden, whether the button is enabled, the file's bytes in `token`,
the field in `audience`. `reading` and `asking` are the calls that are suspended. What
is hidden cannot be used. Each request carries, as history, whether the inputs
changed since. What the answer says is the matter of `Presentation`.
Each load carries, as history, whether an answer was shown since its file was picked,
and `late` whether that was so of the file read last. Two things the page lets happen
are exceptions in the properties: the audience or the file can be changed while a
verification is out, and the answer then stands over other inputs (`same` in
`ResultsAreOfInputs`); and the dead end under [Findings](#6-findings) (`late` in
`CanVerifyAgain`), which says that there is no other.

**`ReportProfile`** takes a report from the form (`Reports`) through `redactReport`,
`resolve_all`, `choicesFor` with `selectedOpenings`, and `describe_selected`. An
opening is its field and its place in it; hashes are sets, since the code sorts
them by value. Values are tagged with their CBOR type, which is what tells padding
from text. A body is a sequence of characters after normalisation. `Issued` and `Described`
are what `redactReport` and `describe_selected` make; `InTurn` is the order of a list.

## 4. The runs

| Run | What it asks | Bounds, and why they are enough |
| --- | --- | --- |
| `review` | types; export is current; newest import wins; waits for one answer; changes take a revision; refines `DisclosureDraft`; loading and signing end (`RequestsEnd`) | two files (one with a disabled choice), four audiences of which two are blank and two trim alike; 6 revisions: enough for import, edit, sign, edit, sign and one import more, all answers outstanding |
| `submission` | types; completion is true; transactions do not cross; receipts are unique; the ledger matches them and is append-only; refines `CompletionGate` | two submissions, every process restarts (the backend any number of times, mock and authority once); each shared table needs two parties and reuse of a transaction needs one restart. Three registrations and more are in the proofs |
| `submission_mst` | inbox usable; disclosures follow verification and entries are receipted when answers are mixed up; every submission ends | two submissions; MST, which does not know the authority's keys, and any header with any receipt ever issued, any statement with any receipt; authority restarts once; two polls instead of 100 |
| `failed_not_submitted` | a violation, see [Findings](#6-findings) | no restarts are needed |
| `matching` | types; verdict; result reachable; closed selections pass | all 2048 subsets of eleven openings, with and without `require_all`: those of a report with two chunks and a reference, among equal keys, a repeated hash, decoys, misplaced hashes, a map in an element and a hash in two places |
| `presentation` | types; an honest disclosure verifies; reports need trust; valid means presented; valid is fresh and certified | one statement; five selections from a report with a hidden field, title, body of two chunks and a reference, one of them empty and one with an opening of no hash; audiences blank, plain, and with a blank at the end; a window from 2 back to 1 ahead instead of 3600 and 60, clocks 2 behind or 1 ahead, two ticks: both edges are crossed, as are those of the certificate, valid from 1 before to 2 after its making instead of a minute and 30 days; one restart of each side, which is what makes keys differ; receipts of the mock and of MST, where the stage on the Merkle proof counts in the verdict |
| `issuance` | types; closed presentations verify; round trip; every hash opens; padding hides the count | all 128 sets of paths into a claim set with a map, an array and a map in each other, and three sets with paths that lead nowhere; no, one and two slots; all subsets of the openings; depth limit 5, the least that leaves room for the hashes of the deepest map |
| `cbor_scan` | types; the scan is exact | all sequences of up to five headers of twelve kinds (a key in two encodings, a second key, a value that is no key, a string cut off, arrays, maps, a tag, an indefinite length), depth limit 2: a map of two entries, and one level too many, fit |
| `verifier_page` | types; results are of the inputs; one can go on but for the dead end | two files and two audiences; six things the user does: two files, two edits and two verifications; the dead end takes three |
| `report_profile` | the body comes together; fields are as entered; parts are in place | one field of each type, given or absent; bodies of half a chunk to two, with equal ones; none to three references, with equal ones; every selection |
| `absent_fingerprint` | a violation, see [Findings](#6-findings) | the same |
| `same_audience` | a violation, see [Findings](#6-findings) | the same as `presentation` with the mock's receipts and without its restart |

`MaxEvents`, `MaxLength`, `Requests`, `Reports`, `Services`, `MaxTime` (with `Over`,
which stops clocks and restarts when the answer is out), `MaxRevision`, `MaxSeqno`,
`MaxMsrcRestarts`, `MaxScittRestarts` and `MaxAttempts` are the bounds on what is
unbounded in the code. Runs with symmetry permute `Submissions`, which occur in no
other constant; runs with liveness have none.

Deadlock is checked in the runs of `MCSubmission`. It is off where the system stops:
the reviewer at the bound on revisions, the matcher and the scan at their verdict,
`validate` and a report at their result, the verifier page's user at the bound on
events, a presentation at its answer. (In `Submission` the backend can always
restart, so there the check says little; `SubmissionEnds` is what says that no page
hangs.)

**Fairness.** `review`: weak fairness for the settling of each request, as a
browser's `fetch` resolves or rejects in the end; none for the reviewer.
`submission_mst`: weak fairness for the steps that go on by themselves for one
submission (`Progress`), as handlers are scheduled threads and every upstream call
has a timeout; none for the user, for broken connections or for restarts. The other
modules have none: the matcher, the scan and `issue` are loops over finite data that
always go on, and the two handlers of `Presentation` are sequences of steps that
wait for no other party but in the fetches, which time out.

## 5. The proofs

Each proof module is for every value of the constants under the named assumptions
below, which TLC evaluates in the runs.

| Assumption | What it says |
| --- | --- |
| `ReviewAssumption`, `StatementsAssumption`, `TransparencyAssumption`, `SubmissionAssumption`, `PageAssumption`, `PresentationAssumption` | types of the constants; at least one poll; `None` is no statement |
| `AbsenceAssumption` | `None` is none of the values that a variable of `Presentation` can hold |
| `OpeningsAssumption`, `MatchAssumption` | types of a payload as its hashes see it |
| `ReportAssumption` | the openings issued for a report hang on the payload or inside one that does, and no node has a key twice |
| `PayloadAssumption` | the shape of a report: fields behind hashes, body and references with one layer inside, nothing else |
| `IssuanceAssumption` | the claim set is a finite tree below its root, a map; decoys suffice for any `pad_to`; the depth limit is at least two (it is 16) |
| `ScanAssumption` | types of headers; only scalars, cut off or not, may be keys |
| `ProfileAssumption` | each field has one kind; bodies and references that are given are sequences; nothing is entered for a hidden field; a chunk has at least one character |

**`ReviewModelProofs`.** `ExportIsCurrent` is not inductive: a step in which an
answer arrives uses it only if its revision is the present one, so the invariant
has to say what such a request asks for. `IInv` joins the types,
`RevisionsTellApart` (one request per revision, none of the future),
`LiveRequestFits` (a request of the present revision asks for what the page shows,
and the phase says which kind it is), `RequestsAreSignable` and `PhaseFits`. From
it follow `ExportCorrect`, `ImportCorrect`, `WaitCorrect`, the action property
(`RevisionCorrect`), and with a step-by-step mapping the refinement
`SigningIsAtomic`: requests and answers are stutters, edits map to `Edit`, an
answer that is used maps to `Sign`.

**`MatchDisclosuresProofs`.** For any payload, finite or not, cyclic or not.
`WalkInv`: what is resolved or pending is reachable, what is inside the resolved is
one of both, no resolved node clashes, and consumed is what the resolved nodes
opened. When nothing is pending the resolved set is closed, and being reachable it
is the least closed set; hence `VerdictIsExact`. `WalkOfANode` and `InTermsOfTheWalk` are
where the two parts of `Openings` meet: what is opened of a node is what hangs on it,
it clashes if two claims have one key, and it misses an opening if a hash has none. That the walk ends on a finite payload
without cycles (a digest cannot be inside the value it is of) is left out.

**`VerifierPageProofs`.** `ResultsAreOfInputs` speaks of the results shown; that an
answer may become the result needs that every request that is out, and says that
nothing changed, is of the present inputs (`RequestsAreOfInputs`): each edit marks what is out. `CanVerifyAgain` needs that while
the form is hidden every load that is out is from before an answer
(`LoadsAreFromBefore`): none can be begun, and an answer marks those that are out.

**`MatchDisclosuresProofs`, on selections.** `ClosedSelectionsPass` needs no invariant of
its own: a subset of a report's openings opens each node at most as far as all of them
do, so it has no clash where they have none, and an opening that comes with those it
lies in is opened at a node that is reached (`ClosedSelectionsAreValid`); what the walk
says of it follows from `VerdictIsExact`.

**`SubmissionProofs`, the mock service by itself.** The lock covers only the counter.
The invariant says why this suffices: a number that is taken and not yet entered is no
other handler's (`NumbersAreExclusive`), is on no receipt of the running key, and all
numbers and keys on receipts are of the past (`ReceiptsAreOfThePast`), so entering
neither collides nor overwrites, and a restart starts a fresh range.

**`SubmissionProofs`, the whole.** For any number of submissions, restarts and polls.
The parties' promises are not inductive, since a handler that is suspended acts later on what it
checked before. `SubmissionInv` says what it has checked by then: `PagesAreInOrder`
(what a page has behind it where it is), `RequestsAreTraced` (what the handlers of a
registration and of a retrieval hold: the receipt on an answer is one the service has
signed), `DeliveriesAreVerified` (a body that is under way is the page's own bytes under
its own transaction, and what the authority found before it stores it). To these come
the service's invariant, taken over from the service by itself since every step of
the whole is a step of the service or leaves it alone (`ServiceImplemented`). From
`SubmissionInv` follow `DisclosuresFollowVerification`, `CompletionIsTrue`,
`InboxIsUsable` and `EntriesAreReceipted`, for `Faulty` services too.
`TransactionsDoNotCross` is proved if the service answers what it was asked
(`~Faulty`), which is when it is claimed: mixed-up answers are what the other
properties withstand. `GateImplemented` maps each step to `CompletionGate`: the
service's entry with its receipt to `Register`, the authority's insertion to `Deliver`,
the page's last step to `Complete`, a failure or a restart that ends pages to `Fail`, the
rest to stutters.

**`PresentationProofs`.** `IInv` has a part for each stage: what it has established if
it passed and why if it did not, in terms of the input and the fetched keys, which
do not change, and of the clock. A stage reads a clock that ran on since the request,
so what remains true of it is one-sided: what was young enough when it was looked at
was so when the verifier was asked. `ReportCorrect`, `ValidCorrect` and
`FreshnessCorrect` follow from it. `HonestCorrect` also needs that a report shows no
more and no less than what was selected: that the authority found all openings of the
payload (`Complete`), that below a report's fields there is one layer only
(`LayersOfAReport`, `NothingBeyondComplete`), and that the chunks' numbers, being those
of a range, are all below the number of hashes (`ChunksAreInRange`, by counting).

**`IssuanceProofs`.** For any finite tree, any set of paths, redacted in any order that
goes from the inside out. The invariant says how the token looks at any moment:
hashes stand exactly where an opening was made (`HashesAreOfMade`), an opening holds
the hashes of all that is redacted inside it (`InnermostFirst`: there is nothing left to
be redacted in it), decoys come after redactions and no further than the slots
(`DecoysFillSlots`). Then `MatcherOnToken` computes what the matcher sees at each node of
the token, `ReachedIsVisible` that it reaches exactly the entries around which nothing
is closed (by induction over the tree, as least sets, and over the matcher's layers),
and `NothingTooDeep` that with a level to spare no item of the token exceeds the
limit. `RoundTrip`, `ClosedPresentationsVerify` and `EveryHashOpens` follow.
`SlotsHideCount` counts: one decoy more is one hash more, up to `pad_to`.

**`ReportProfileProofs`.** The stages are in order, so `IInv` says only what each has
made; the work is in the data. `ChunksComeTogether`: the text is cut at multiples of the
chunk's size, the parts up to the i-th make up the text up to the i-th cut, the last
cut is the text's end. `PlacesInTurn`: in a finite set of places, the place with k places
up to it is one and only one, so what is opened of a list closes up in its order.

**`CborScanProofs`.** For data of any length and any limit of nesting (`MaxLength` occurs
in no proof). `ScanIsExact` compares a verdict with a grammar that knows no calls, so
`LeftFits` says, in the middle of the pass, what is still to come: the data is one item
exactly if it can be cut, from `off` to its end, into what the calls under way have left
to read, the innermost first (`Fits`, `Rest`; for a map also without the keys it has had).
The lemmas are the grammar taken apart from the front: n + 1 items are one and n more
(`NextItem`, `NextEntry`), a header says what its item is (`EndsOfTag`, `EndsOfContent`),
and a level is made of the one inside (`EndsByLevel`, `ItemsAt`). Then each action
keeps what fits: a tag moves on at no cost, a scalar takes one item off its call, a
container turns one item into a call, a call without items returns, and where the pass
rejects nothing fits (`NothingToRead`). `PassEnds` bounds the steps by the headers there
are, not by the lengths they claim.

**Induction.** The library's induction theorems take an operator, which the provers
cannot instantiate. Where a proof needs one, it is about sets: what contains 0 and the
successor of each member is `Nat`, a set of naturals has a least member
(`NaturalsFrom0`, `LeastNatural`, from the well-foundedness of `<`), and what contains the
root and each entry whose parent it contains is the tree (`TreeInduction`). That the
recursive function `Ends` is the one its definition describes has to be proved as well:
by such an induction there is a function for each number of levels (`EndsByLevel`).

**Only model-checked.** `RequestsEnd` and `SubmissionEnds`: liveness under fairness is
out of the prover's reach. Neither checked as a property nor proved is that the walk of
the matcher ends. The three properties that runs refute are false, and have no theorem.

## 6. Findings

`failed_not_submitted`: `app.js:114` says "Report was not submitted" after any
error. When the answer to the delivery is lost (a broken connection, or the
backend's 30-second timeout in `researcher.py:108` while the authority still
verifies), the report is registered and in the authority's inbox, and the page says
that it was not submitted. What holds instead is in `CompletionGate`: "failed" says
nothing, "complete" says delivered.

`same_audience`: the walk-through in the README (lines 132-136) has the same audience
entered at the MSRC app and at the Verifier. The first is trimmed, in the page
(`review-model.js:109`) and again before signing (`crypto.py:309`); the second is
compared as entered (`verify.js:106`, `core.py:839`). With a blank at the end entered
at both, the check of the KBT fails. For the audience that was signed,
`HonestDisclosureVerifies` holds.

`absent_fingerprint`: a field that was not entered is filled with random bytes
(`report-profile.js:70`), which the review page recognises by their type and shows as
"Not provided", with the choice disabled (`report-profile.js:150`, `msrc.js:32`). A
fingerprint is bytes itself, so the padding of an absent one is shown, can be
signed, and is disclosed as a fingerprint.

A fourth has no run of its own; `CanVerifyAgain` in `verifier_page` names it as its one
exception. Load a file and submit it; pick another while the verification is out; the
answer comes, hides the form and shows the results (`verify.js:109-110`); the reading of
the second file ends and hides the results (`verify.js:84-88`). Now form and results
are both hidden, and with the results their button "Verify another file"
(`verify.html:36`): a file is loaded, its button enabled, and nothing is left on the
page to verify it by until the page is loaded again.

## 7. What is not modelled

- Bytes: CBOR and COSE encodings, the contents of certificate chains, `cbor.js` (a
  codec without state). Cryptography is ideal.
- Checks of types in headers and claims: the envelope of `ParsedToken`, finite dates
  (an `iat` that is not a number is an absent one), the type checks of a report's
  values, which no form fails, and the normalisation of its text.
- The depth of Python's recursion: a tag in the strict scan is no level
  (`core.py:394-395`) and calls itself again all the same, so a long run of tags meets
  the interpreter's limit before the scan's. `CborScan` has tags in any number.
- Claim sets without room for what redaction adds (`HasRoom` in `Issuance`): `issue`
  signs them, `validate` refuses some of their presentations; no property is about them.
- `scitt_flow.py`, an end-to-end script: it asserts once, on a quiet system, what
  `Submission` and `Presentation` check for every interleaving.
- MST's inside (external), as well as launchers, CI, containers, markup and styles,
  which have no state of the system.
- A public key is fetched and used in one step of `Submission`: each check uses only
  one key of another process, and the checks are steps of their own. In
  `Presentation`, where two are fetched before either is used, the fetches are steps.
