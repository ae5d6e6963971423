----------------------------- MODULE Presentation -----------------------------
(***************************************************************************)
(* A disclosure's way from the authority, which signs it (webapp/msrc.py,  *)
(* api/disclosures), to the verifier (webapp/verifier.py), which fetches   *)
(* the public keys of the authority and of the transparency service and    *)
(* runs the stages of webapp/verification.py.  Time passes and processes   *)
(* restart between any two steps; the two hosts' clocks differ.            *)
(*                                                                         *)
(* Neither side keeps anything between requests, so one statement, one     *)
(* signature and one verification stand for all of them.                   *)
(***************************************************************************)
EXTENDS Statements, Openings, Integers

CONSTANTS Issued,      \* the openings the researcher made and delivered
          FieldKeys,   \* claim keys of plain fields
          BodyKey, ReferencesKey, HiddenKeys,
          Selections,  \* bound: the sets of openings that may be presented
          Audiences, Trim, Blank,
          Services,  \* bound: TRUE where the transparency service may be MST, FALSE the mock
          MaxAge, MaxAhead,  \* the window of the iat claim: 3600 and 60 seconds
          Lifetime, Backdate,  \* of an issuer's certificate: 30 days and one minute
          Skews,       \* what the verifier's clock may be ahead of the authority's
          MaxTime      \* bound: the authority's clock

ASSUME PresentationAssumption ==
    /\ Issued \subseteq Digests
    /\ Selections \subseteq SUBSET Digests
    /\ Trim \in [Audiences -> Audiences]
    /\ Services \subseteq BOOLEAN
    /\ MaxAge \in Nat /\ MaxAhead \in Nat /\ MaxTime \in Nat
    /\ Lifetime \in Nat /\ Backdate \in Nat
    /\ Skews \subseteq Int

VARIABLES msrcKey, scittKey, time, skew,
          merkle,   \* whether receipts are MST's
          held,     \* the transparent statement the researcher delivered
          endorsedAt,  \* the authority's clock when it certified the issuer's key
          asked,    \* the request for a disclosure
          signAt,   \* where its handler is
          kbt,      \* the key binding token it was answered with
          verifyAt, \* where the verifier's handler is
          input, expected,  \* its request: a presentation and an audience
          askedAt,  \* history: the verifier's clock then
          ca, trust,        \* the keys it fetched
          checks,   \* the status of each stage
          verified, receipt, holder, report  \* the stages' results, None after a failure

hosts == <<msrcKey, scittKey, time, skew, merkle>>
authorityVars == <<held, endorsedAt, asked, signAt, kbt>>
requestVars == <<input, expected, askedAt>>
verifierVars == <<verifyAt, requestVars, ca, trust, checks, verified, receipt, holder, report>>
vars == <<hosts, authorityVars, verifierVars>>

Times == 0..MaxTime
Fields == FieldKeys \cup {BodyKey, ReferencesKey} \cup HiddenKeys

\* The payload of a report (redactReport): every field is behind a hash of its
\* own, body and references have one layer of openings inside, nothing is padded.
Plain(n) == HashesIn(n) = {} /\ Tagged[n] = {}
IsBody(n) == /\ Tagged[n] = {}
             /\ \A c \in HashesIn(n) : Form[c] = "map" /\ c \notin HashesIn(Root) /\ Plain(Value[c])
IsReferences(n) == /\ HashesIn(n) = {}
                   /\ \A c \in Tagged[n] : Form[c] = "elem" /\ Plain(Value[c])

ASSUME PayloadAssumption ==
    /\ Tagged[Root] = {}
    /\ \A d \in HashesIn(Root) :
           /\ Form[d] = "map"
           /\ Key[d] = BodyKey => IsBody(Value[d])
           /\ Key[d] = ReferencesKey => IsReferences(Value[d])
           /\ Key[d] \notin {BodyKey, ReferencesKey} => Plain(Value[d])
    /\ \A n \in Nodes : \A c \in Clear[n] : Plain(c.node)
    /\ BodyKey \notin FieldKeys /\ ReferencesKey \notin FieldKeys /\ BodyKey # ReferencesKey

\* What match_disclosures accepts, with and without require_all.
Presentable == {P \in SUBSET Digests : Valid(P, FALSE)}
Complete == {P \in SUBSET Digests : Valid(P, TRUE)}

\* ValidatedClaims.disclosed: the top-level claims that were opened.
TopLevel(P) == {d \in Opened(Root, P) : Form[d] = "map"}
Disclosed(P) == {Key[d] : d \in TopLevel(P)}

\* A complete body has its chunks under consecutive numbers.
ChunksAreValid(P) == \A d \in TopLevel(P) : Key[d] = BodyKey =>
    LET chunks == {c \in Opened(Value[d], P) : Form[c] = "map"}
    IN  {Key[c] : c \in chunks} = 0..(Cardinality(chunks) - 1)

\* What a report shows of the openings: fields, chunks by their number, references.
Shown(P) ==
    {d \in P :
        \/ d \in TopLevel(P) /\ Key[d] \in FieldKeys
        \/ \E b \in TopLevel(P) :
               /\ d \in Opened(Value[b], P)
               /\ \/ Key[b] = BodyKey /\ Form[d] = "map" /\ Key[d] \in 0..(Len(Hashes[Value[b]]) - 1)
                  \/ Key[b] = ReferencesKey}

Held == [token : Tokens, receipt : Receipts]
Requests == [token : Tokens, receipt : Receipts \cup {None}, openings : SUBSET Digests,
             selected : SUBSET Digests, audience : Audiences]
\* Signed by a key: one of the authority's, or None for any other.
Kbts == [token : Tokens, receipt : Receipts \cup {None}, openings : SUBSET Digests,
         audience : Audiences, iat : Times \cup {None}, nbf : Times \cup {None},
         exp : Times \cup {None}, key : MsrcKeys \cup {None}]

\* ValidatedClaims, and what describe_selected makes of them.
Holders == [disclosed : SUBSET {Key[d] : d \in Digests}, audience : Audiences]
Descriptions == [shows : SUBSET Digests, txid : Txids \cup {None}, audience : Audiences]

ASSUME AbsenceAssumption ==
    None \notin Txids \cup Times \cup Tokens \cup Holders \cup Descriptions

Stages == {"envelopes", "issuer", "scitt receipt", "holder", "consistency", "merkle"}
Handling == {"public", "trust", "parse", "issuer", "receipt", "holder", "report", "merkle"}

VerifierTime == time + skew

\* Bound: clock and restarts are followed until the request at hand is over.
Over == signAt \in {"refused", "lost"} \/ verifyAt \in {"answered", "error"}

-----------------------------------------------------------------------------
NoChecks == [c \in Stages |-> "none"]

Init ==
    /\ msrcKey = 0 /\ scittKey = 0 /\ time = 0 /\ skew \in Skews
    /\ merkle \in Services
    /\ held = None /\ endorsedAt = None /\ asked = None /\ signAt = "idle" /\ kbt = None
    /\ verifyAt = "idle" /\ input = None /\ expected = None /\ askedAt = None
    /\ ca = None /\ trust = None
    /\ checks = NoChecks
    /\ verified = None /\ receipt = None /\ holder = None /\ report = None

Tick == /\ ~Over
        /\ time < MaxTime
        /\ time' = time + 1
        /\ UNCHANGED <<msrcKey, scittKey, skew, merkle, authorityVars, verifierVars>>

\* The authority's keys go with its process, and with them the request at hand.
RestartAuthority ==
    /\ ~Over
    /\ msrcKey < MaxMsrcRestarts
    /\ msrcKey' = msrcKey + 1
    /\ signAt' = IF signAt \in {"inspecting", "signing"} THEN "lost" ELSE signAt
    /\ UNCHANGED <<scittKey, time, skew, merkle, held, endorsedAt, asked, kbt, verifierVars>>

RestartService ==
    /\ ~Over /\ ~merkle
    /\ scittKey < MaxScittRestarts
    /\ scittKey' = scittKey + 1
    /\ UNCHANGED <<msrcKey, time, skew, merkle, authorityVars, verifierVars>>

-----------------------------------------------------------------------------
(* The authority *)

\* The issuer's certificate by a checker's clock; the CA's own outlives all runs.
LeafValid(now) == endorsedAt - Backdate <= now /\ now <= endorsedAt + Lifetime

\* A submission was completed (module Submission) and its statement kept.
ReceiveStatement(s, t) ==
    /\ held = None
    /\ LET token == [by |-> s, ca |-> msrcKey, cnf |-> msrcKey]
       IN  held' = [token |-> token, receipt |-> [txid |-> t, of |-> token, key |-> scittKey]]
    /\ endorsedAt' = time
    /\ UNCHANGED <<hosts, asked, signAt, kbt, verifierVars>>

\* The full statement, or the redacted one that has neither receipt nor openings.
AskDisclosure(full, P, a) ==
    /\ held # None /\ signAt = "idle"
    /\ asked' = [token |-> held.token, receipt |-> IF full THEN held.receipt ELSE None,
                 openings |-> IF full THEN Issued ELSE {}, selected |-> P, audience |-> a]
    /\ signAt' = "inspecting"
    /\ UNCHANGED <<hosts, held, endorsedAt, kbt, verifierVars>>

InspectRequest ==
    /\ signAt = "inspecting"
    /\ VerifyStatement(asked.token, msrcKey) /\ LeafValid(time)
    /\ asked.receipt # None /\ VerifyReceipt(asked.receipt, asked.token, scittKey)
    /\ asked.openings \in Complete
    /\ Disclosed(asked.openings) = Fields /\ ChunksAreValid(asked.openings)
    /\ signAt' = "signing"
    /\ UNCHANGED <<hosts, held, endorsedAt, asked, kbt, verifierVars>>

\* Mutant: the selected openings are not matched before they are signed.
SignableRequest_Unmatched == /\ Trim[asked.audience] # Blank
                             /\ asked.selected # {}
                             /\ asked.token.cnf = msrcKey

SignableRequest == /\ Trim[asked.audience] # Blank
                   /\ asked.selected # {}
                   /\ asked.token.cnf = msrcKey
                   /\ asked.selected \in Presentable

Signed(r) == [token |-> r.token, receipt |-> r.receipt, openings |-> r.selected,
              audience |-> Trim[r.audience], iat |-> time, nbf |-> None, exp |-> None,
              key |-> msrcKey]

SignDisclosure ==
    /\ signAt = "signing"
    /\ SignableRequest
    /\ kbt' = Signed(asked)
    /\ signAt' = "signed"
    /\ UNCHANGED <<hosts, held, endorsedAt, asked, verifierVars>>

\* 400: a check fails, or the service did not answer with its key.
RefuseDisclosure ==
    /\ \/ signAt = "inspecting"
       \/ signAt = "signing" /\ ~SignableRequest
    /\ signAt' = "refused"
    /\ UNCHANGED <<hosts, held, endorsedAt, asked, kbt, verifierVars>>

-----------------------------------------------------------------------------
(* The verifier *)

\* Presentations like the authority's that differ from it in one respect, as
\* other software or other keys may make them.
Variants(k) ==
    {k} \cup {[k EXCEPT !.receipt = r] : r \in {None} \cup {x \in Receipts : x.txid = k.receipt.txid}}
        \cup {[k EXCEPT !.openings = P] : P \in Selections}
        \cup {[k EXCEPT !.iat = t] : t \in Times \cup {None}}
        \cup {[k EXCEPT !.nbf = t] : t \in Times}
        \cup {[k EXCEPT !.exp = t] : t \in Times}
        \cup {[k EXCEPT !.key = x] : x \in MsrcKeys \cup {None}}

AskVerification(k, a) ==
    /\ verifyAt = "idle"
    /\ verifyAt' = "public"
    /\ input' = k /\ expected' = a /\ askedAt' = VerifierTime
    /\ UNCHANGED <<hosts, authorityVars, ca, trust, checks, verified, receipt, holder, report>>

FetchPublic ==
    /\ verifyAt = "public"
    /\ verifyAt' = "trust"
    /\ ca' = msrcKey
    /\ UNCHANGED <<hosts, authorityVars, requestVars, trust, checks, verified, receipt, holder,
                   report>>

FetchTrust ==
    /\ verifyAt = "trust"
    /\ verifyAt' = "parse"
    /\ trust' = scittKey
    /\ UNCHANGED <<hosts, authorityVars, requestVars, ca, checks, verified, receipt, holder,
                   report>>

\* The handler's next stage, and the status of the one it has done.
Runs(from, to, check, ok) ==
    /\ verifyAt = from
    /\ verifyAt' = to
    /\ checks' = [checks EXCEPT ![check] = IF ok THEN "pass" ELSE "fail"]
    /\ UNCHANGED <<hosts, authorityVars, requestVars, ca, trust>>

ParsePresentation ==
    /\ Runs("parse", "issuer", "envelopes", TRUE)
    /\ input.receipt # None
    /\ UNCHANGED <<verified, receipt, holder, report>>

\* Nothing else is looked at.
RejectEnvelopes ==
    /\ verifyAt = "parse"
    /\ input.receipt = None
    /\ verifyAt' = "answered"
    /\ checks' = [c \in Stages |-> CASE c = "envelopes" -> "fail" [] c = "merkle" -> "unavailable"
                                     [] OTHER -> "skipped"]
    /\ UNCHANGED <<hosts, authorityVars, requestVars, ca, trust, verified, receipt, holder, report>>

VerifyIssuer ==
    LET ok == IssuedUnder(input.token, ca) /\ LeafValid(VerifierTime) IN
    /\ Runs("issuer", "receipt", "issuer", ok)
    /\ verified' = IF ok THEN input.token ELSE None
    /\ UNCHANGED <<receipt, holder, report>>

\* Mutant: the receipt's key is taken for its transaction.
VerifyInclusion_Key ==
    LET ok == VerifyReceipt(input.receipt, input.token, trust) IN
    /\ Runs("receipt", "holder", "scitt receipt", ok)
    /\ receipt' = IF ok THEN input.receipt.key ELSE None
    /\ UNCHANGED <<verified, holder, report>>

VerifyInclusion ==
    LET ok == VerifyReceipt(input.receipt, input.token, trust) IN
    /\ Runs("receipt", "holder", "scitt receipt", ok)
    /\ receipt' = IF ok THEN input.receipt.txid ELSE None
    /\ UNCHANGED <<verified, holder, report>>

\* Mutant: the end of the window is not checked.
InWindow_NoAge(k, now) ==
    /\ k.iat # None /\ k.iat <= now + MaxAhead
    /\ k.nbf # None => now >= k.nbf
    /\ k.exp # None => now < k.exp

InWindow(k, now) ==
    /\ k.iat # None /\ k.iat <= now + MaxAhead /\ k.iat >= now - MaxAge
    /\ k.nbf # None => now >= k.nbf
    /\ k.exp # None => now < k.exp

\* Mutant: the signature is not checked against cnf.
HolderProof_AnyKey == /\ verified # None
                      /\ input.audience = expected
                      /\ input.openings \in Presentable
                      /\ InWindow(input, VerifierTime)

\* ParsedKBT.verify on the issuer's result, then the verifier's clock.
HolderProof == /\ verified # None
               /\ input.key = verified.cnf
               /\ input.audience = expected
               /\ input.openings \in Presentable
               /\ InWindow(input, VerifierTime)

VerifyHolder ==
    /\ Runs("holder", "report", "holder", HolderProof)
    /\ holder' = IF HolderProof
                 THEN [disclosed |-> Disclosed(input.openings), audience |-> input.audience]
                 ELSE None
    /\ UNCHANGED <<verified, receipt, report>>

Describes == [shows |-> Shown(input.openings), txid |-> receipt, audience |-> holder.audience]

\* Mutant: the report is described though the holder's proof failed.
DescribeReport_AnyHolder ==
    LET ok == Disclosed(input.openings) \subseteq Fields IN
    /\ Runs("report", "merkle", "consistency", ok)
    /\ report' = IF ok THEN [shows |-> Shown(input.openings), txid |-> receipt, audience |-> input.audience]
               ELSE None
    /\ UNCHANGED <<verified, receipt, holder>>

DescribeReport ==
    LET ok == holder # None /\ holder.disclosed \subseteq Fields IN
    /\ Runs("report", "merkle", "consistency", ok)
    /\ report' = IF ok THEN Describes ELSE None
    /\ UNCHANGED <<verified, receipt, holder>>

CheckMerkle ==
    /\ verifyAt = "merkle"
    /\ verifyAt' = "answered"
    /\ checks' = [checks EXCEPT !["merkle"] =
                     IF ~merkle THEN "unavailable" ELSE IF receipt = None THEN "skipped" ELSE "pass"]
    /\ UNCHANGED <<hosts, authorityVars, requestVars, ca, trust, verified, receipt, holder, report>>

\* A fetch fails or times out, which is answered 400, or the verifier goes: the
\* handler's locals are lost.
FailVerification ==
    /\ verifyAt \in Handling
    /\ verifyAt' = "error"
    /\ ca' = None /\ trust' = None
    /\ checks' = NoChecks
    /\ verified' = None /\ receipt' = None /\ holder' = None /\ report' = None
    /\ UNCHANGED <<hosts, authorityVars, requestVars>>

\* The answer's "valid" field.
AnswersValid == \A c \in Stages : checks[c] \in {"pass", "unavailable"}

-----------------------------------------------------------------------------
Authority ==
    \/ \E s \in Submissions, t \in Txids : ReceiveStatement(s, t)
    \/ \E full \in BOOLEAN, P \in Selections, a \in Audiences : AskDisclosure(full, P, a)
    \/ InspectRequest \/ SignDisclosure \/ RefuseDisclosure

Verifier ==
    \/ kbt # None /\ \E k \in Variants(kbt), a \in Audiences : AskVerification(k, a)
    \/ FetchPublic \/ FetchTrust
    \/ ParsePresentation \/ RejectEnvelopes
    \/ VerifyIssuer \/ VerifyInclusion \/ VerifyHolder \/ DescribeReport \/ CheckMerkle
    \/ FailVerification

Next == Tick \/ RestartAuthority \/ RestartService \/ Authority \/ Verifier

Spec == Init /\ [][Next]_vars

-----------------------------------------------------------------------------
(* Properties *)

\* Types of the authority's and the verifier's locals (msrc.py:160-169,
\* verification.py:27-55).
TypeOK ==
    /\ msrcKey \in MsrcKeys /\ scittKey \in ScittKeys /\ time \in Times /\ skew \in Skews
    /\ merkle \in Services
    /\ held \in Held \cup {None} /\ endorsedAt \in Times \cup {None}
    /\ asked \in Requests \cup {None}
    /\ signAt \in {"idle", "inspecting", "signing", "signed", "refused", "lost"}
    /\ kbt \in Kbts \cup {None}
    /\ verifyAt \in Handling \cup {"idle", "answered", "error"}
    /\ input \in Kbts \cup {None}
    /\ expected \in Audiences \cup {None}
    /\ askedAt \in Int \cup {None}
    /\ ca \in MsrcKeys \cup {None} /\ trust \in ScittKeys \cup {None}
    /\ checks \in [Stages -> {"none", "pass", "fail", "skipped", "unavailable"}]
    /\ verified \in Tokens \cup {None}
    /\ receipt \in Txids \cup {None}
    /\ holder \in Holders \cup {None}
    /\ report \in Descriptions \cup {None}

\* Neither restarted between the authority's part and the fetches.
SameGeneration == ca = kbt.key /\ trust = kbt.receipt.key

\* By the verifier's clock, from the request to now, iat was within the window.
TimelyThroughout == kbt.iat <= askedAt + MaxAhead /\ kbt.iat >= VerifierTime - MaxAge

\* By that clock the issuer's certificate was valid all the while.
CertifiedThroughout ==
    askedAt >= endorsedAt - Backdate /\ VerifierTime <= endorsedAt + Lifetime

\* What the authority signs verifies: if it is presented as it is, for its own
\* audience, in time and with no restart in between, every check passes and the
\* report shows exactly the fields, chunks and references that were selected.
\* So the authority's checks before signing are as strict as the verifier's.
HonestDisclosureVerifies ==
    /\ verifyAt = "answered"
    /\ input = kbt /\ expected = kbt.audience
    /\ SameGeneration /\ TimelyThroughout /\ CertifiedThroughout
    => /\ AnswersValid
       /\ report.shows = {d \in asked.selected : d \in TopLevel(Digests) => Key[d] \in FieldKeys}

\* Contents are reported only when issuer and holder both passed, for the audience
\* that was expected; with a transaction only if the receipt passed, though a
\* report is given also when it did not (verification.py:98-114, 134-150).
ReportNeedsTrust ==
    report # None =>
        /\ checks["issuer"] = "pass" /\ checks["holder"] = "pass"
        /\ report.audience = expected
        /\ input.openings \in Presentable
        /\ report.txid # None <=> checks["scitt receipt"] = "pass"

\* "valid" is said only of a presentation signed with the holder key that the
\* authority drew along with the CA key the verifier fetched, over a registered
\* statement, and never without a report (verification.py:55-60).
ValidMeansPresented ==
    verifyAt = "answered" /\ AnswersValid =>
        /\ input.key = ca
        /\ input.receipt.of = input.token /\ input.receipt.key = trust
        /\ report # None /\ report.txid = input.receipt.txid
        /\ report.shows = Shown(input.openings)

\* What was too old when the verifier was asked, or had expired, or stands on an
\* issuer's certificate that had run out or has not begun when the verifier answers,
\* is never valid, however time and the stages interleave and however long ago the
\* authority checked it (verification.py:89-94, crypto.py:66-67, 183-187).
ValidIsFresh ==
    verifyAt = "answered" /\ AnswersValid =>
        /\ askedAt <= input.iat + MaxAge
        /\ input.exp # None => askedAt < input.exp
        /\ askedAt <= endorsedAt + Lifetime /\ VerifierTime >= endorsedAt - Backdate

\* The README's walk-through (README.md:132-136): the verifier enters exactly the
\* audience that was entered at the authority, and the disclosure verifies.
SameAudienceVerifies ==
    /\ verifyAt = "answered"
    /\ input = kbt /\ expected = asked.audience
    /\ SameGeneration /\ TimelyThroughout /\ CertifiedThroughout
    => AnswersValid
=============================================================================
