-------------------------- MODULE PresentationProofs --------------------------
(***************************************************************************)
(* Proofs about a disclosure's way from the authority to the verifier, for *)
(* any report of the profile's shape, any selection, any two clocks and    *)
(* any number of restarts between any two steps.  The invariant is what    *)
(* each stage that passed, or failed, has established: of the input and    *)
(* the fetched keys, which do not change, and of the moment it looked at   *)
(* the clock, which lies between the request and now.                      *)
(***************************************************************************)
EXTENDS Presentation, FiniteSetTheorems, TLAPS

\* What the authority was sent: a statement under one pair of its keys, with a
\* receipt of its own (module Submission), endorsed before it was signed.
HeldIsConsistent ==
    held # None => /\ held.token.ca = held.token.cnf
                   /\ held.receipt.of = held.token
                   /\ endorsedAt \in Times

\* What the authority's handler has in hand (msrc.py:160-169).
RequestsAreInspected ==
    /\ signAt # "idle" => /\ held # None /\ asked \in Requests
                          /\ asked.token = held.token
                          /\ asked.receipt \in {held.receipt, None}
    /\ signAt \in {"signing", "signed"} => /\ asked.receipt # None
                                           /\ asked.openings \in Complete
                                           /\ Disclosed(asked.openings) = Fields
                                           /\ ChunksAreValid(asked.openings)
    /\ signAt = "signing" => asked.token.ca = msrcKey

\* The key binding token is of the request, under the key that cnf names.
SignaturesAreBound ==
    kbt # None => /\ signAt = "signed"
                  /\ kbt.token = asked.token /\ kbt.receipt = asked.receipt
                  /\ kbt.openings = asked.selected /\ asked.selected \in Presentable
                  /\ kbt.iat \in Times /\ kbt.nbf = None /\ kbt.exp = None
                  /\ kbt.key = asked.token.cnf

\* A verification is of a presentation of the authority's statement.
InputIsPresented ==
    verifyAt # "idle" => /\ kbt # None
                         /\ input \in Kbts /\ input.token = kbt.token
                         /\ expected \in Audiences
                         /\ askedAt \in Int /\ askedAt <= VerifierTime

Unread == {"idle", "public", "trust", "parse", "error"}

\* One stage after the other, each to a status of its own (verification.py:117-160).
StagesAreInOrder ==
    /\ checks["envelopes"] = "none" <=> verifyAt \in Unread
    /\ checks["issuer"] = "none" <=> verifyAt \in Unread \cup {"issuer"}
    /\ checks["scitt receipt"] = "none" <=> verifyAt \in Unread \cup {"issuer", "receipt"}
    /\ checks["holder"] = "none" <=> verifyAt \in Unread \cup {"issuer", "receipt", "holder"}
    /\ checks["consistency"] = "none" <=>
           verifyAt \in Unread \cup {"issuer", "receipt", "holder", "report"}
    /\ checks["merkle"] = "none" <=> verifyAt # "answered"
    /\ checks["merkle"] # "fail"
    /\ \A c \in Stages \ {"merkle"} : checks[c] # "unavailable"
    /\ (\E c \in Stages \ {"merkle"} : checks[c] = "skipped") => checks["envelopes"] = "fail"
    /\ checks["merkle"] = "skipped" => checks["scitt receipt"] # "pass"

EnvelopeStage ==
    /\ checks["envelopes"] = "pass" => input.receipt # None
    /\ checks["envelopes"] = "fail" => /\ verifyAt = "answered" /\ input.receipt = None
                                       /\ \A c \in Stages : checks[c] # "pass"

\* The certificate was valid at some moment between the request and now.
IssuerStage ==
    /\ checks["issuer"] # "pass" => verified = None
    /\ checks["issuer"] = "pass" => /\ verified = input.token
                                    /\ input.token.ca = ca
                                    /\ askedAt <= endorsedAt + Lifetime
                                    /\ VerifierTime >= endorsedAt - Backdate
    /\ checks["issuer"] = "fail" => \/ input.token.ca # ca
                                    \/ askedAt < endorsedAt - Backdate
                                    \/ VerifierTime > endorsedAt + Lifetime

ReceiptStage ==
    /\ checks["scitt receipt"] # "pass" => receipt = None
    /\ checks["scitt receipt"] = "pass" => /\ receipt = input.receipt.txid
                                           /\ VerifyReceipt(input.receipt, input.token, trust)
    /\ checks["scitt receipt"] = "fail" => ~VerifyReceipt(input.receipt, input.token, trust)

\* So was the time within the token's window.
HolderStage ==
    /\ checks["holder"] # "pass" => holder = None
    /\ checks["holder"] = "pass" =>
           /\ checks["issuer"] = "pass"
           /\ input.key = input.token.cnf /\ input.audience = expected
           /\ input.openings \in Presentable
           /\ holder = [disclosed |-> Disclosed(input.openings), audience |-> input.audience]
           /\ input.iat # None /\ askedAt <= input.iat + MaxAge
           /\ input.exp # None => askedAt < input.exp
    /\ checks["holder"] = "fail" =>
           \/ checks["issuer"] # "pass"
           \/ input.key # input.token.cnf \/ input.audience # expected
           \/ input.openings \notin Presentable
           \/ input.iat = None \/ input.iat > askedAt + MaxAhead \/ input.iat < VerifierTime - MaxAge
           \/ input.nbf # None \/ input.exp # None

ReportStage ==
    /\ checks["consistency"] # "pass" => report = None
    /\ checks["consistency"] = "pass" =>
           /\ checks["holder"] = "pass"
           /\ report = [shows |-> Shown(input.openings), txid |-> receipt,
                        audience |-> input.audience]
    /\ checks["consistency"] = "fail" =>
           checks["holder"] # "pass" \/ ~(Disclosed(input.openings) \subseteq Fields)

AuthorityInv == HeldIsConsistent /\ RequestsAreInspected /\ SignaturesAreBound

VerifierInv == /\ InputIsPresented /\ StagesAreInOrder /\ EnvelopeStage /\ IssuerStage
               /\ ReceiptStage /\ HolderStage /\ ReportStage

IInv == TypeOK /\ AuthorityInv /\ VerifierInv

USE StatementsAssumption, PresentationAssumption, AbsenceAssumption

-----------------------------------------------------------------------------
(* Types *)

\* What the openings of a presentation are described by is typed.
LEMMA DescriptionTypes ==
    ASSUME NEW P \in SUBSET Digests
    PROVE  /\ TopLevel(P) \subseteq P
           /\ Disclosed(P) \in SUBSET {Key[d] : d \in Digests}
           /\ Shown(P) \in SUBSET Digests
<1>1. \A n : Opened(n, P) \subseteq P
  BY DEF Opened
<1>2. TopLevel(P) \subseteq P
  BY <1>1 DEF TopLevel
<1>3. Shown(P) \subseteq P
  BY DEF Shown
<1> QED
  BY <1>2, <1>3 DEF Disclosed

\* The authority's signature and what may be made of it have the same type.
LEMMA KbtTypes ==
    /\ \A r \in Requests : TypeOK => Signed(r) \in Kbts
    /\ \A k \in Kbts : Variants(k) \subseteq Kbts
<1>1. ASSUME NEW r \in Requests, TypeOK PROVE Signed(r) \in Kbts
  BY <1>1 DEF TypeOK, Signed, Requests, Kbts
<1>2. ASSUME NEW k \in Kbts, NEW v \in Variants(k) PROVE v \in Kbts
  BY <1>2 DEF Variants, Kbts
<1> QED
  BY <1>1, <1>2

\* The stages after the first are reached only with readable envelopes.
LEMMA ReadEnvelopes ==
    ASSUME IInv, verifyAt \in {"issuer", "receipt", "holder", "report", "merkle"}
    PROVE  checks["envelopes"] = "pass"
<1>1. checks["envelopes"] \in {"none", "pass", "fail", "skipped", "unavailable"}
  BY DEF IInv, TypeOK, Stages
<1>2. checks["envelopes"] \notin {"none", "skipped", "unavailable"}
  BY DEF IInv, VerifierInv, StagesAreInOrder, Unread, Stages, EnvelopeStage
<1>3. checks["envelopes"] # "fail"
  BY DEF IInv, VerifierInv, EnvelopeStage
<1> QED
  BY <1>1, <1>2, <1>3

\* Types are kept by every step.
LEMMA NextTypes ==
    ASSUME IInv, [Next]_vars
    PROVE  TypeOK'
<1> USE DEF IInv, TypeOK, hosts, authorityVars, requestVars, verifierVars, Handling
<1>1. CASE UNCHANGED vars
  BY <1>1 DEF vars
<1>2. CASE Tick \/ RestartAuthority \/ RestartService
  BY <1>2 DEF Tick, RestartAuthority, RestartService, Times, MsrcKeys, ScittKeys
<1>3. ASSUME NEW s \in Submissions, NEW t \in Txids, ReceiveStatement(s, t) PROVE TypeOK'
  <2>1. held' \in Held
    BY <1>3 DEF ReceiveStatement, Held, Tokens, Receipts
  <2> QED
    BY <1>3, <2>1 DEF ReceiveStatement
<1>4. ASSUME NEW full \in BOOLEAN, NEW P \in Selections, NEW a \in Audiences,
             AskDisclosure(full, P, a)
      PROVE  TypeOK'
  <2>1. asked' \in Requests
    BY <1>4 DEF AskDisclosure, Requests, Held
  <2> QED
    BY <1>4, <2>1 DEF AskDisclosure
<1>5. CASE InspectRequest \/ RefuseDisclosure
  BY <1>5 DEF InspectRequest, RefuseDisclosure
<1>6. CASE SignDisclosure
  <2>1. kbt' \in Kbts
    BY <1>6, KbtTypes DEF SignDisclosure, AuthorityInv, RequestsAreInspected
  <2> QED
    BY <1>6, <2>1 DEF SignDisclosure
<1>7. ASSUME kbt # None, NEW k \in Variants(kbt), NEW a \in Audiences, AskVerification(k, a)
      PROVE  TypeOK'
  BY <1>7, KbtTypes DEF AskVerification, VerifierTime, Times
<1>8. CASE FetchPublic \/ FetchTrust
  BY <1>8 DEF FetchPublic, FetchTrust
<1>9. CASE ParsePresentation \/ RejectEnvelopes \/ CheckMerkle \/ FailVerification
  <2>1. checks' \in [Stages -> {"none", "pass", "fail", "skipped", "unavailable"}]
    <3>1. CASE ParsePresentation
      BY <3>1 DEF ParsePresentation, Runs
    <3>2. CASE RejectEnvelopes
      BY <3>2 DEF RejectEnvelopes
    <3>3. CASE CheckMerkle
      BY <3>3 DEF CheckMerkle
    <3>4. CASE FailVerification
      BY <3>4 DEF FailVerification, NoChecks
    <3> QED
      BY <1>9, <3>1, <3>2, <3>3, <3>4
  <2>2. CASE ParsePresentation
    BY <2>1, <2>2 DEF ParsePresentation, Runs
  <2>3. CASE RejectEnvelopes
    BY <2>1, <2>3 DEF RejectEnvelopes
  <2>4. CASE CheckMerkle
    BY <2>1, <2>4 DEF CheckMerkle
  <2>5. CASE FailVerification
    BY <2>1, <2>5 DEF FailVerification
  <2> QED
    BY <1>9, <2>2, <2>3, <2>4, <2>5
<1>10. CASE VerifyIssuer
  <2>1. input.token \in Tokens
    BY <1>10 DEF VerifyIssuer, Runs, VerifierInv, InputIsPresented, Kbts
  <2>2. verified' \in Tokens \cup {None} /\ verifyAt' = "receipt"
    BY <1>10, <2>1 DEF VerifyIssuer, Runs
  <2>3. checks' \in [Stages -> {"none", "pass", "fail", "skipped", "unavailable"}]
    BY <1>10 DEF VerifyIssuer, Runs
  <2> QED
    BY <1>10, <2>2, <2>3 DEF VerifyIssuer, Runs
<1>11. CASE VerifyInclusion
  <2>0. verifyAt = "receipt" /\ checks["envelopes"] = "pass"
    BY <1>11, ReadEnvelopes DEF VerifyInclusion, Runs
  <2>1. input \in Kbts /\ input.receipt # None
    BY <2>0 DEF VerifierInv, InputIsPresented, EnvelopeStage
  <2>2. receipt' \in Txids \cup {None} /\ verifyAt' = "holder"
    BY <1>11, <2>1 DEF VerifyInclusion, Runs, Kbts, Receipts
  <2>3. checks' \in [Stages -> {"none", "pass", "fail", "skipped", "unavailable"}]
    BY <1>11 DEF VerifyInclusion, Runs
  <2>4. UNCHANGED <<hosts, authorityVars, requestVars, ca, trust, verified, holder, report>>
    BY <1>11 DEF VerifyInclusion, Runs
  <2> QED
    BY <2>2, <2>3, <2>4
<1>12. CASE VerifyHolder
  <2>1. input.openings \in SUBSET Digests /\ input.audience \in Audiences
    BY <1>12 DEF VerifyHolder, Runs, VerifierInv, InputIsPresented, Kbts
  <2>2. holder' \in Holders \cup {None}
    BY <1>12, <2>1, DescriptionTypes DEF VerifyHolder, Holders
  <2>3. checks' \in [Stages -> {"none", "pass", "fail", "skipped", "unavailable"}]
    BY <1>12 DEF VerifyHolder, Runs
  <2> QED
    BY <1>12, <2>2, <2>3 DEF VerifyHolder, Runs
<1>13. CASE DescribeReport
  <2>1. input.openings \in SUBSET Digests
    BY <1>13 DEF DescribeReport, Runs, VerifierInv, InputIsPresented, Kbts
  <2>2. holder # None => Describes \in Descriptions
    BY <2>1, DescriptionTypes DEF Describes, Descriptions, Holders
  <2>3. report' \in Descriptions \cup {None}
    BY <1>13, <2>2 DEF DescribeReport
  <2>4. checks' \in [Stages -> {"none", "pass", "fail", "skipped", "unavailable"}]
    BY <1>13 DEF DescribeReport, Runs
  <2> QED
    BY <1>13, <2>3, <2>4 DEF DescribeReport, Runs
<1> QED
  BY <1>1, <1>2, <1>3, <1>4, <1>5, <1>6, <1>7, <1>8, <1>9, <1>10, <1>11, <1>12, <1>13
  DEF Next, Authority, Verifier

-----------------------------------------------------------------------------
(* The authority's part *)

\* Nothing has happened yet.
LEMMA InitIInv == Init => IInv
<1> SUFFICES ASSUME Init PROVE IInv
  OBVIOUS
<1>1. \A c \in Stages : checks[c] = "none"
  BY DEF Init, NoChecks
<1>2. TypeOK
  BY DEF Init, TypeOK, NoChecks, MsrcKeys, ScittKeys, Times
<1>3. AuthorityInv
  BY DEF Init, AuthorityInv, HeldIsConsistent, RequestsAreInspected, SignaturesAreBound
<1>4. VerifierInv
  BY <1>1 DEF Init, VerifierInv, InputIsPresented, StagesAreInOrder, EnvelopeStage, IssuerStage,
              ReceiptStage, HolderStage, ReportStage, Unread, Stages
<1> QED
  BY <1>2, <1>3, <1>4 DEF IInv

\* What the authority holds and signs stays consistent, also when it restarts
\* between its inspection and its signature: then it does not sign.
LEMMA NextAuthority ==
    ASSUME IInv, [Next]_vars
    PROVE  AuthorityInv'
<1> USE DEF IInv, AuthorityInv, hosts, authorityVars, requestVars, verifierVars
<1>1. CASE UNCHANGED <<msrcKey, authorityVars>>
  BY <1>1 DEF HeldIsConsistent, RequestsAreInspected, SignaturesAreBound
<1>2. CASE RestartAuthority
  BY <1>2 DEF RestartAuthority, HeldIsConsistent, RequestsAreInspected, SignaturesAreBound
<1>3. ASSUME NEW s \in Submissions, NEW t \in Txids, ReceiveStatement(s, t) PROVE AuthorityInv'
  <2>1. signAt = "idle" /\ kbt = None
    BY <1>3 DEF ReceiveStatement, RequestsAreInspected, SignaturesAreBound
  <2>2. HeldIsConsistent'
    BY <1>3 DEF ReceiveStatement, HeldIsConsistent, TypeOK
  <2> QED
    BY <1>3, <2>1, <2>2 DEF ReceiveStatement, RequestsAreInspected, SignaturesAreBound
<1>4. ASSUME NEW full \in BOOLEAN, NEW P \in Selections, NEW a \in Audiences,
             AskDisclosure(full, P, a)
      PROVE  AuthorityInv'
  <2>1. asked' \in Requests
    BY <1>4 DEF AskDisclosure, Requests, Held, TypeOK
  <2>2. kbt = None
    BY <1>4 DEF AskDisclosure, SignaturesAreBound
  <2> QED
    BY <1>4, <2>1, <2>2
    DEF AskDisclosure, HeldIsConsistent, RequestsAreInspected, SignaturesAreBound
<1>5. CASE InspectRequest
  BY <1>5 DEF InspectRequest, VerifyStatement, IssuedUnder, HeldIsConsistent, RequestsAreInspected,
              SignaturesAreBound
<1>6. CASE SignDisclosure
  BY <1>6 DEF SignDisclosure, SignableRequest, Signed, TypeOK, HeldIsConsistent,
              RequestsAreInspected, SignaturesAreBound
<1>7. CASE RefuseDisclosure
  BY <1>7 DEF RefuseDisclosure, HeldIsConsistent, RequestsAreInspected, SignaturesAreBound
<1>8. CASE Tick \/ RestartService \/ UNCHANGED vars
  BY <1>1, <1>8 DEF Tick, RestartService, vars
<1>9. CASE Verifier
  BY <1>1, <1>9 DEF Verifier, AskVerification, FetchPublic, FetchTrust, ParsePresentation,
                    RejectEnvelopes, VerifyIssuer, VerifyInclusion, VerifyHolder, DescribeReport,
                    CheckMerkle, FailVerification, Runs
<1> QED
  BY <1>2, <1>3, <1>4, <1>5, <1>6, <1>7, <1>8, <1>9 DEF Next, Authority

-----------------------------------------------------------------------------
(* The verifier's part *)

\* Once it was asked the authority is done, and the times it compares are numbers.
LEMMA BusyVerifier ==
    ASSUME IInv, verifyAt # "idle"
    PROVE  /\ held # None /\ signAt = "signed" /\ kbt # None
           /\ VerifierTime \in Int /\ askedAt \in Int /\ askedAt <= VerifierTime
           /\ endorsedAt \in Int
           /\ input \in Kbts
           /\ input.iat = None \/ input.iat \in Int
           /\ input.nbf = None \/ input.nbf \in Int
           /\ input.exp = None \/ input.exp \in Int
<1> USE DEF IInv, VerifierInv, InputIsPresented
<1>1. kbt # None /\ signAt = "signed" /\ held # None
  BY DEF AuthorityInv, SignaturesAreBound, RequestsAreInspected
<1>2. endorsedAt \in Int /\ VerifierTime \in Int
  BY <1>1 DEF AuthorityInv, HeldIsConsistent, VerifierTime, TypeOK, Times
<1>3. /\ input.iat = None \/ input.iat \in Int
      /\ input.nbf = None \/ input.nbf \in Int
      /\ input.exp = None \/ input.exp \in Int
  BY DEF Kbts, Times
<1> QED
  BY <1>1, <1>2, <1>3

\* While the verifier waits the authority does nothing that it has to do with:
\* it has signed, and the statement stays.  Only the clock goes on.
LEMMA OthersVerifier ==
    ASSUME IInv,
           \/ Tick \/ RestartAuthority \/ RestartService \/ Authority
           \/ UNCHANGED vars
    PROVE  VerifierInv'
<1> USE DEF IInv, VerifierInv, hosts, authorityVars, requestVars, verifierVars
<1>1. /\ UNCHANGED verifierVars
      /\ VerifierTime' >= VerifierTime
  BY DEF Tick, RestartAuthority, RestartService, Authority, ReceiveStatement, AskDisclosure,
         InspectRequest, SignDisclosure, RefuseDisclosure, vars, VerifierTime, TypeOK, Times
<1>2. verifyAt # "idle" => UNCHANGED <<kbt, endorsedAt>>
  <2>1. verifyAt # "idle" => held # None /\ signAt = "signed"
    BY BusyVerifier
  <2>2. CASE Authority
    BY <2>1, <2>2 DEF Authority, ReceiveStatement, AskDisclosure, InspectRequest, SignDisclosure,
                      RefuseDisclosure
  <2> QED
    BY <2>2 DEF Tick, RestartAuthority, RestartService, vars
<1>3. VerifierTime \in Int /\ VerifierTime' \in Int
  <2>1. [Next]_vars
    BY DEF Next
  <2>2. TypeOK /\ TypeOK'
    BY <2>1, NextTypes
  <2> QED
    BY <2>2 DEF VerifierTime, TypeOK, Times
<1>4. InputIsPresented'
  BY <1>1, <1>2, <1>3 DEF InputIsPresented
<1>5. StagesAreInOrder' /\ EnvelopeStage' /\ ReceiptStage' /\ ReportStage'
  BY <1>1 DEF StagesAreInOrder, EnvelopeStage, ReceiptStage, ReportStage
<1>6. verifyAt # "idle" => /\ askedAt \in Int /\ endorsedAt \in Int
                           /\ input.iat = None \/ input.iat \in Int
  BY BusyVerifier
<1>7. verifyAt = "idle" => checks["issuer"] = "none" /\ checks["holder"] = "none"
  BY DEF StagesAreInOrder, Unread
<1>8. IssuerStage'
  BY <1>1, <1>2, <1>3, <1>6, <1>7 DEF IssuerStage
<1>9. HolderStage'
  BY <1>1, <1>3, <1>6, <1>7 DEF HolderStage
<1> QED
  BY <1>4, <1>5, <1>8, <1>9

\* The request and the two fetches: no stage has run (verifier.py:35-38).
LEMMA FetchesVerifier ==
    ASSUME IInv,
           \/ kbt # None /\ \E k \in Variants(kbt), a \in Audiences : AskVerification(k, a)
           \/ FetchPublic \/ FetchTrust
    PROVE  VerifierInv'
<1> USE DEF IInv, VerifierInv, AskVerification, FetchPublic, FetchTrust, hosts, authorityVars,
            requestVars
<1>1. /\ verifyAt \in Unread /\ verifyAt' \in Unread \ {"idle"}
      /\ UNCHANGED <<checks, verified, receipt, holder, report>>
  BY DEF Unread
<1>2. \A c \in Stages : checks'[c] = "none"
  BY <1>1 DEF StagesAreInOrder, Unread, Stages
<1>3. InputIsPresented'
  <2>1. ASSUME NEW k \in Variants(kbt), kbt # None PROVE k \in Kbts /\ k.token = kbt.token
    BY <2>1, KbtTypes DEF TypeOK, Variants, Kbts
  <2>2. VerifierTime \in Int
    BY DEF VerifierTime, TypeOK, Times
  <2> QED
    BY <2>1, <2>2 DEF InputIsPresented, VerifierTime
<1>4. StagesAreInOrder'
  BY <1>1, <1>2 DEF StagesAreInOrder, Unread, Stages
<1>5. EnvelopeStage' /\ IssuerStage' /\ ReceiptStage' /\ HolderStage' /\ ReportStage'
  BY <1>1, <1>2 DEF StagesAreInOrder, EnvelopeStage, IssuerStage, ReceiptStage, HolderStage,
                    ReportStage, Unread, Stages
<1> QED
  BY <1>3, <1>4, <1>5

\* A stage gives its own status and no other.
LEMMA StatusOf ==
    ASSUME TypeOK, NEW c \in Stages, NEW status, checks' = [checks EXCEPT ![c] = status]
    PROVE  checks'[c] = status /\ \A x \in Stages \ {c} : checks'[x] = checks[x]
BY DEF TypeOK

\* Whether or not the envelopes can be read (verification.py:63-74, 128-132).
LEMMA EnvelopesVerifier ==
    ASSUME IInv, ParsePresentation \/ RejectEnvelopes
    PROVE  VerifierInv'
<1> USE DEF IInv, VerifierInv, hosts, authorityVars, requestVars
<1>1. /\ verifyAt = "parse"
      /\ UNCHANGED <<hosts, authorityVars, requestVars, ca, trust, verified, receipt, holder, report>>
  BY DEF ParsePresentation, RejectEnvelopes, Runs
<1>2. /\ \A c \in Stages : checks[c] = "none"
      /\ verified = None /\ receipt = None /\ holder = None /\ report = None
  BY <1>1 DEF StagesAreInOrder, IssuerStage, ReceiptStage, HolderStage, ReportStage, Unread, Stages
<1>3. InputIsPresented'
  BY <1>1 DEF InputIsPresented, VerifierTime, ParsePresentation, RejectEnvelopes, Runs
<1>4. CASE ParsePresentation
  <2>1. /\ verifyAt' = "issuer" /\ input.receipt # None
        /\ checks'["envelopes"] = "pass"
        /\ \A c \in Stages \ {"envelopes"} : checks'[c] = "none"
    BY <1>2, <1>4, StatusOf DEF ParsePresentation, Runs, Stages
  <2> QED
    BY <1>1, <1>2, <1>3, <2>1 DEF StagesAreInOrder, EnvelopeStage, IssuerStage, ReceiptStage,
                                  HolderStage, ReportStage, Unread, Stages
<1>5. CASE RejectEnvelopes
  <2>1. /\ verifyAt' = "answered" /\ input.receipt = None
        /\ checks'["envelopes"] = "fail" /\ checks'["merkle"] = "unavailable"
        /\ \A c \in Stages \ {"envelopes", "merkle"} : checks'[c] = "skipped"
    BY <1>5 DEF RejectEnvelopes, Stages
  <2> QED
    BY <1>1, <1>2, <1>3, <2>1 DEF StagesAreInOrder, EnvelopeStage, IssuerStage, ReceiptStage,
                                  HolderStage, ReportStage, Unread, Stages
<1> QED
  BY <1>4, <1>5

\* A certificate is looked at once, with the clock of that moment
\* (crypto.py:183-190); its validity is an interval, so the request or now
\* tells whether it was valid then.
LEMMA IssuerVerifier ==
    ASSUME IInv, VerifyIssuer
    PROVE  VerifierInv'
<1> USE DEF IInv, VerifierInv, hosts, authorityVars, requestVars
<1>1. /\ verifyAt = "issuer" /\ verifyAt' = "receipt"
      /\ UNCHANGED <<hosts, authorityVars, requestVars, ca, trust, receipt, holder, report>>
  BY DEF VerifyIssuer, Runs
<1>2. /\ checks'["issuer"] \in {"pass", "fail"}
      /\ checks'["issuer"] = "pass" <=> IssuedUnder(input.token, ca) /\ LeafValid(VerifierTime)
      /\ verified' = IF checks'["issuer"] = "pass" THEN input.token ELSE None
      /\ \A c \in Stages \ {"issuer"} : checks'[c] = checks[c]
  <2> DEFINE ok == IssuedUnder(input.token, ca) /\ LeafValid(VerifierTime)
  <2> HIDE DEF ok
  <2>1. /\ checks' = [checks EXCEPT !["issuer"] = IF ok THEN "pass" ELSE "fail"]
        /\ verified' = IF ok THEN input.token ELSE None
    BY DEF VerifyIssuer, Runs, ok
  <2>2. /\ checks'["issuer"] = IF ok THEN "pass" ELSE "fail"
        /\ \A c \in Stages \ {"issuer"} : checks'[c] = checks[c]
    BY <2>1 DEF TypeOK, Stages
  <2> QED
    BY <2>1, <2>2 DEF ok
<1>3. /\ checks["envelopes"] = "pass"
      /\ \A c \in Stages \ {"envelopes"} : checks[c] = "none"
  BY <1>1, ReadEnvelopes DEF StagesAreInOrder, Unread, Stages
<1>4. InputIsPresented'
  BY <1>1 DEF InputIsPresented, VerifierTime
<1>5. StagesAreInOrder' /\ EnvelopeStage'
  BY <1>1, <1>2, <1>3 DEF StagesAreInOrder, EnvelopeStage, Unread, Stages
<1>6. IssuerStage'
  <2>1. /\ VerifierTime \in Int /\ askedAt \in Int /\ askedAt <= VerifierTime
        /\ endorsedAt \in Int /\ VerifierTime' = VerifierTime
    BY <1>1, BusyVerifier DEF VerifierTime
  <2> QED
    BY <1>1, <1>2, <2>1 DEF IssuerStage, IssuedUnder, LeafValid
<1>7. ReceiptStage' /\ HolderStage' /\ ReportStage'
  BY <1>1, <1>2, <1>3 DEF ReceiptStage, HolderStage, ReportStage, Stages
<1> QED
  BY <1>4, <1>5, <1>6, <1>7

\* verification.py:138-143.
LEMMA ReceiptVerifier ==
    ASSUME IInv, VerifyInclusion
    PROVE  VerifierInv'
<1> USE DEF IInv, VerifierInv, hosts, authorityVars, requestVars
<1>1. /\ verifyAt = "receipt" /\ verifyAt' = "holder"
      /\ UNCHANGED <<hosts, authorityVars, requestVars, ca, trust, verified, holder, report>>
  BY DEF VerifyInclusion, Runs
<1>2. /\ checks'["scitt receipt"] \in {"pass", "fail"}
      /\ checks'["scitt receipt"] = "pass" <=> VerifyReceipt(input.receipt, input.token, trust)
      /\ receipt' = IF checks'["scitt receipt"] = "pass" THEN input.receipt.txid ELSE None
      /\ \A c \in Stages \ {"scitt receipt"} : checks'[c] = checks[c]
  <2>1. checks' = [checks EXCEPT !["scitt receipt"] =
                       IF VerifyReceipt(input.receipt, input.token, trust) THEN "pass" ELSE "fail"]
    BY DEF VerifyInclusion, Runs
  <2>3. receipt' = IF VerifyReceipt(input.receipt, input.token, trust) THEN input.receipt.txid
                   ELSE None
    BY DEF VerifyInclusion
  <2>2. /\ checks'["scitt receipt"] = IF VerifyReceipt(input.receipt, input.token, trust) THEN "pass" ELSE "fail"
        /\ \A c \in Stages \ {"scitt receipt"} : checks'[c] = checks[c]
    BY <2>1 DEF TypeOK, Stages
  <2> QED
    BY <2>2, <2>3
<1>3. /\ checks["envelopes"] = "pass" /\ checks["issuer"] # "none"
      /\ \A c \in Stages \ {"envelopes", "issuer"} : checks[c] = "none"
  BY <1>1, ReadEnvelopes DEF StagesAreInOrder, Unread, Stages
<1>4. InputIsPresented'
  BY <1>1 DEF InputIsPresented, VerifierTime
<1>5. StagesAreInOrder' /\ EnvelopeStage'
  BY <1>1, <1>2, <1>3 DEF StagesAreInOrder, EnvelopeStage, Unread, Stages
<1>6. IssuerStage'
  BY <1>1, <1>2 DEF IssuerStage, VerifierTime, Stages
<1>7. ReceiptStage'
  BY <1>1, <1>2 DEF ReceiptStage
<1>8. HolderStage' /\ ReportStage'
  BY <1>1, <1>2, <1>3 DEF HolderStage, ReportStage, Stages
<1> QED
  BY <1>4, <1>5, <1>6, <1>7, <1>8

\* The holder's proof needs the issuer's result (verification.py:145-150), and
\* the window is an interval as well (verification.py:86-94).
LEMMA HolderVerifier ==
    ASSUME IInv, VerifyHolder
    PROVE  VerifierInv'
<1> USE DEF IInv, VerifierInv, hosts, authorityVars, requestVars
<1>1. /\ verifyAt = "holder" /\ verifyAt' = "report"
      /\ UNCHANGED <<hosts, authorityVars, requestVars, ca, trust, verified, receipt, report>>
  BY DEF VerifyHolder, Runs
<1>2. /\ checks'["holder"] \in {"pass", "fail"}
      /\ checks'["holder"] = "pass" <=> HolderProof
      /\ holder' = IF HolderProof
                   THEN [disclosed |-> Disclosed(input.openings), audience |-> input.audience]
                   ELSE None
      /\ \A c \in Stages \ {"holder"} : checks'[c] = checks[c]
  <2>1. checks' = [checks EXCEPT !["holder"] = IF HolderProof THEN "pass" ELSE "fail"]
    BY DEF VerifyHolder, Runs
  <2>2. /\ checks'["holder"] = IF HolderProof THEN "pass" ELSE "fail"
        /\ \A c \in Stages \ {"holder"} : checks'[c] = checks[c]
    BY <2>1 DEF TypeOK, Stages
  <2> QED
    BY <2>2 DEF VerifyHolder
<1>3. /\ checks["envelopes"] = "pass"
      /\ checks["issuer"] # "none" /\ checks["scitt receipt"] # "none"
      /\ checks["consistency"] = "none" /\ checks["merkle"] = "none"
  BY <1>1, ReadEnvelopes DEF StagesAreInOrder, Unread, Stages
<1>4. InputIsPresented'
  BY <1>1 DEF InputIsPresented, VerifierTime
<1>5. StagesAreInOrder' /\ EnvelopeStage'
  BY <1>1, <1>2, <1>3 DEF StagesAreInOrder, EnvelopeStage, Unread, Stages
<1>6. IssuerStage' /\ ReceiptStage'
  BY <1>1, <1>2 DEF IssuerStage, ReceiptStage, VerifierTime, Stages
<1>7. HolderStage'
  <2>1. /\ VerifierTime \in Int /\ askedAt \in Int /\ askedAt <= VerifierTime
        /\ VerifierTime' = VerifierTime
        /\ input.iat = None \/ input.iat \in Int
        /\ input.exp = None \/ input.exp \in Int
    BY <1>1, BusyVerifier DEF VerifierTime
  <2>2. checks["issuer"] = "pass" <=> verified # None
    BY <1>1, BusyVerifier DEF IssuerStage, Kbts
  <2>3. checks["issuer"] = "pass" => verified = input.token
    BY DEF IssuerStage
  <2>4. checks'["issuer"] = checks["issuer"]
    BY <1>2 DEF Stages
  <2>5. CASE HolderProof
    <3>1. /\ checks["issuer"] = "pass" /\ input.key = input.token.cnf /\ input.audience = expected
          /\ input.openings \in Presentable
      BY <2>2, <2>3, <2>5 DEF HolderProof
    <3>2. /\ input.iat # None /\ askedAt <= input.iat + MaxAge
          /\ input.exp # None => askedAt < input.exp
      BY <2>1, <2>5 DEF HolderProof, InWindow
    <3> QED
      BY <1>1, <1>2, <2>4, <2>5, <3>1, <3>2 DEF HolderStage
  <2>6. CASE ~HolderProof
    <3>1. \/ checks["issuer"] # "pass" \/ ~InWindow(input, VerifierTime)
          \/ input.key # input.token.cnf \/ input.audience # expected
          \/ input.openings \notin Presentable
      BY <2>2, <2>3, <2>6 DEF HolderProof
    <3>2. ~InWindow(input, VerifierTime) =>
              \/ input.iat = None \/ input.iat > askedAt + MaxAhead
              \/ input.iat < VerifierTime - MaxAge \/ input.nbf # None \/ input.exp # None
      BY <2>1 DEF InWindow
    <3> QED
      BY <1>1, <1>2, <2>1, <2>4, <2>6, <3>1, <3>2 DEF HolderStage
  <2> QED
    BY <2>5, <2>6
<1>8. ReportStage'
  BY <1>1, <1>2, <1>3 DEF ReportStage, Stages
<1> QED
  BY <1>4, <1>5, <1>6, <1>7, <1>8

\* A description is of the holder's result, with or without a transaction
\* (verification.py:98-114).
LEMMA ReportVerifier ==
    ASSUME IInv, DescribeReport
    PROVE  VerifierInv'
<1> USE DEF IInv, VerifierInv, hosts, authorityVars, requestVars
<1> DEFINE ok == holder # None /\ holder.disclosed \subseteq Fields
<1>1. /\ verifyAt = "report" /\ verifyAt' = "merkle"
      /\ UNCHANGED <<hosts, authorityVars, requestVars, ca, trust, verified, receipt, holder>>
  BY DEF DescribeReport, Runs
<1>2. /\ checks'["consistency"] = IF ok THEN "pass" ELSE "fail"
      /\ report' = IF ok THEN Describes ELSE None
      /\ \A c \in Stages \ {"consistency"} : checks'[c] = checks[c]
  <2>1. checks' = [checks EXCEPT !["consistency"] = IF ok THEN "pass" ELSE "fail"]
    BY DEF DescribeReport, Runs
  <2>2. report' = IF ok THEN Describes ELSE None
    BY DEF DescribeReport
  <2> HIDE DEF ok
  <2>3. /\ checks'["consistency"] = IF ok THEN "pass" ELSE "fail"
        /\ \A c \in Stages \ {"consistency"} : checks'[c] = checks[c]
    BY <2>1 DEF TypeOK, Stages
  <2> QED
    BY <2>2, <2>3
<1>3. /\ checks["envelopes"] = "pass" /\ checks["issuer"] # "none"
      /\ checks["scitt receipt"] # "none" /\ checks["holder"] # "none"
      /\ checks["merkle"] = "none"
  BY <1>1, ReadEnvelopes DEF StagesAreInOrder, Unread, Stages
<1>4. InputIsPresented'
  BY <1>1 DEF InputIsPresented, VerifierTime
<1>5. checks'["consistency"] \in {"pass", "fail"}
  BY <1>2
<1>6. StagesAreInOrder' /\ EnvelopeStage'
  BY <1>1, <1>2, <1>3, <1>5 DEF StagesAreInOrder, EnvelopeStage, Unread, Stages
<1>7. checks'["issuer"] = checks["issuer"] /\ checks'["scitt receipt"] = checks["scitt receipt"]
      /\ checks'["holder"] = checks["holder"]
  BY <1>2 DEF Stages
<1>8. IssuerStage' /\ ReceiptStage' /\ HolderStage'
  BY <1>1, <1>7 DEF IssuerStage, ReceiptStage, HolderStage, VerifierTime
<1>9. ReportStage'
  <2>1. checks["holder"] = "pass" =>
            holder = [disclosed |-> Disclosed(input.openings), audience |-> input.audience]
    BY DEF HolderStage
  <2>2. checks["holder"] = "pass" => holder # None
    <3>1. input.openings \in SUBSET Digests /\ input.audience \in Audiences
      BY <1>1, BusyVerifier DEF Kbts
    <3> QED
      BY <2>1, <3>1, DescriptionTypes DEF Holders
  <2>3. CASE ok
    <3>1. checks["holder"] = "pass"
      BY <2>3 DEF HolderStage
    <3>2. report' = [shows |-> Shown(input.openings), txid |-> receipt,
                     audience |-> input.audience]
      BY <1>2, <2>1, <2>3, <3>1 DEF Describes
    <3> QED
      BY <1>1, <1>2, <1>7, <2>3, <3>1, <3>2 DEF ReportStage
  <2>4. CASE ~ok
    <3>1. checks["holder"] # "pass" \/ ~(Disclosed(input.openings) \subseteq Fields)
      BY <2>1, <2>2, <2>4
    <3> QED
      BY <1>1, <1>2, <1>7, <2>4, <3>1 DEF ReportStage
  <2> QED
    BY <2>3, <2>4
<1> QED
  BY <1>4, <1>6, <1>8, <1>9

\* The last stage, and the loss of all locals.
LEMMA EndVerifier ==
    ASSUME IInv, CheckMerkle \/ FailVerification
    PROVE  VerifierInv'
<1> USE DEF IInv, VerifierInv, hosts, authorityVars, requestVars
<1>1. InputIsPresented'
  BY DEF CheckMerkle, FailVerification, InputIsPresented, VerifierTime, Handling
<1>2. CASE CheckMerkle
  <2>1. /\ verifyAt = "merkle" /\ verifyAt' = "answered"
        /\ UNCHANGED <<hosts, authorityVars, requestVars, ca, trust, verified, receipt, holder,
                       report>>
    BY <1>2 DEF CheckMerkle
  <2>2. /\ checks'["merkle"] \in {"pass", "skipped", "unavailable"}
        /\ checks'["merkle"] = "skipped" => receipt = None
        /\ \A c \in Stages \ {"merkle"} : checks'[c] = checks[c]
    <3>1. PICK status \in {"pass", "skipped", "unavailable"} :
              /\ checks' = [checks EXCEPT !["merkle"] = status]
              /\ status = "skipped" => receipt = None
      BY <1>2 DEF CheckMerkle
    <3> QED
      BY <3>1 DEF TypeOK, Stages
  <2>3. receipt = None => checks["scitt receipt"] # "pass"
    <3>1. input \in Kbts /\ checks["envelopes"] = "pass" /\ input.receipt # None
      BY <2>1, BusyVerifier, ReadEnvelopes DEF EnvelopeStage
    <3> QED
      BY <3>1 DEF ReceiptStage, Kbts, Receipts
  <2>4. /\ checks["envelopes"] = "pass" /\ checks["issuer"] # "none"
        /\ checks["scitt receipt"] # "none" /\ checks["holder"] # "none"
        /\ checks["consistency"] # "none"
    BY <2>1, ReadEnvelopes DEF StagesAreInOrder, Unread, Stages
  <2>5. StagesAreInOrder' /\ EnvelopeStage'
    BY <2>1, <2>2, <2>3, <2>4 DEF StagesAreInOrder, EnvelopeStage, Unread, Stages
  <2>6. /\ checks'["issuer"] = checks["issuer"] /\ checks'["holder"] = checks["holder"]
        /\ checks'["scitt receipt"] = checks["scitt receipt"]
        /\ checks'["consistency"] = checks["consistency"]
    BY <2>2 DEF Stages
  <2>7. IssuerStage' /\ ReceiptStage' /\ HolderStage' /\ ReportStage'
    BY <2>1, <2>6 DEF IssuerStage, ReceiptStage, HolderStage, ReportStage, VerifierTime
  <2> QED
    BY <1>1, <2>5, <2>7
<1>3. CASE FailVerification
  <2>1. /\ verifyAt' = "error" /\ \A c \in Stages : checks'[c] = "none"
        /\ verified' = None /\ receipt' = None /\ holder' = None /\ report' = None
    BY <1>3 DEF FailVerification, NoChecks
  <2> QED
    BY <1>1, <2>1 DEF StagesAreInOrder, EnvelopeStage, IssuerStage, ReceiptStage, HolderStage,
                      ReportStage, Unread, Stages
<1> QED
  BY <1>2, <1>3

\* Every step of either side preserves the invariant.
LEMMA NextIInv ==
    ASSUME IInv, [Next]_vars
    PROVE  IInv'
<1>1. VerifierInv'
  BY OthersVerifier, FetchesVerifier, EnvelopesVerifier, IssuerVerifier, ReceiptVerifier,
     HolderVerifier, ReportVerifier, EndVerifier DEF Next, Verifier
<1> QED
  BY <1>1, NextTypes, NextAuthority DEF IInv

\* The inductive invariant of signing and verification.
THEOREM Invariance == Spec => []IInv
  BY InitIInv, NextIInv, PTL DEF Spec

\* Types, for any report, any clocks and any number of restarts (msrc.py:160-169,
\* verification.py:27-55).
THEOREM TypeCorrect == Spec => []TypeOK
<1>1. IInv => TypeOK
  BY DEF IInv
<1> QED
  BY <1>1, Invariance, PTL

-----------------------------------------------------------------------------
(* What a report and a valid answer mean *)

\* Contents are reported only of what issuer and holder both vouch for, and a
\* transaction only with its receipt (verification.py:98-114, 134-150).
THEOREM ReportCorrect == Spec => []ReportNeedsTrust
<1>1. IInv => ReportNeedsTrust
  <2> SUFFICES ASSUME IInv, report # None
               PROVE  /\ checks["issuer"] = "pass" /\ checks["holder"] = "pass"
                      /\ report.audience = expected
                      /\ input.openings \in Presentable
                      /\ report.txid # None <=> checks["scitt receipt"] = "pass"
    BY DEF ReportNeedsTrust
  <2> USE DEF IInv, VerifierInv
  <2>1. /\ checks["consistency"] = "pass" /\ checks["holder"] = "pass"
        /\ report = [shows |-> Shown(input.openings), txid |-> receipt,
                     audience |-> input.audience]
    BY DEF ReportStage
  <2>2. /\ checks["issuer"] = "pass" /\ input.audience = expected
        /\ input.openings \in Presentable
    BY <2>1 DEF HolderStage
  <2>3. /\ verifyAt \in {"merkle", "answered"} /\ checks["envelopes"] # "fail"
    BY <2>1 DEF StagesAreInOrder, EnvelopeStage, Unread, Stages, TypeOK, Handling
  <2>4. input \in Kbts /\ input.receipt # None
    <3>1. checks["envelopes"] = "pass"
      BY <2>3 DEF TypeOK, StagesAreInOrder, Unread, Stages
    <3> QED
      BY <2>3, <3>1, BusyVerifier DEF EnvelopeStage
  <2>5. receipt # None <=> checks["scitt receipt"] = "pass"
    BY <2>4 DEF ReceiptStage, Kbts, Receipts
  <2> QED
    BY <2>1, <2>2, <2>5
<1> QED
  BY <1>1, Invariance, PTL

\* A valid answer has passed every stage; the ledger's own proof may be missing.
LEMMA ValidHasPassed ==
    ASSUME IInv, verifyAt = "answered", AnswersValid
    PROVE  \A c \in Stages \ {"merkle"} : checks[c] = "pass"
BY DEF IInv, VerifierInv, StagesAreInOrder, EnvelopeStage, AnswersValid, Stages

\* "valid" is said only of a disclosure signed with the holder key that belongs to
\* the CA key fetched, over a registered statement, and with its report
\* (verification.py:55-60).
THEOREM ValidCorrect == Spec => []ValidMeansPresented
<1>1. IInv => ValidMeansPresented
  <2> SUFFICES ASSUME IInv, verifyAt = "answered", AnswersValid
               PROVE  /\ input.key = ca
                      /\ input.receipt.of = input.token /\ input.receipt.key = trust
                      /\ report # None /\ report.txid = input.receipt.txid
                      /\ report.shows = Shown(input.openings)
    BY DEF ValidMeansPresented
  <2> USE DEF IInv, VerifierInv
  <2>1. /\ checks["envelopes"] = "pass" /\ checks["issuer"] = "pass"
        /\ checks["scitt receipt"] = "pass" /\ checks["holder"] = "pass"
        /\ checks["consistency"] = "pass"
    BY ValidHasPassed DEF Stages
  <2>2. input.token.ca = input.token.cnf
    BY BusyVerifier DEF InputIsPresented, AuthorityInv, HeldIsConsistent, RequestsAreInspected,
                        SignaturesAreBound
  <2>3. input.key = ca
    BY <2>1, <2>2 DEF HolderStage, IssuerStage
  <2>4. /\ input.receipt.of = input.token /\ input.receipt.key = trust
        /\ receipt = input.receipt.txid
    BY <2>1 DEF ReceiptStage, VerifyReceipt
  <2>5. report = [shows |-> Shown(input.openings), txid |-> receipt, audience |-> input.audience]
    BY <2>1 DEF ReportStage
  <2>6. report # None
    <3>1. /\ input.openings \in SUBSET Digests /\ input.audience \in Audiences
          /\ receipt \in Txids \cup {None}
      BY BusyVerifier DEF Kbts, TypeOK
    <3> QED
      BY <2>5, <3>1, DescriptionTypes DEF Descriptions
  <2> QED
    BY <2>3, <2>4, <2>5, <2>6
<1> QED
  BY <1>1, Invariance, PTL

\* No delay between the stages makes an outdated token, or an issuer whose
\* certificate has run out, valid (verification.py:89-94, crypto.py:183-187).
THEOREM FreshnessCorrect == Spec => []ValidIsFresh
<1>1. IInv => ValidIsFresh
  <2> SUFFICES ASSUME IInv, verifyAt = "answered", AnswersValid
               PROVE  /\ askedAt <= input.iat + MaxAge
                      /\ input.exp # None => askedAt < input.exp
                      /\ askedAt <= endorsedAt + Lifetime
                      /\ VerifierTime >= endorsedAt - Backdate
    BY DEF ValidIsFresh
  <2>1. checks["issuer"] = "pass" /\ checks["holder"] = "pass"
    BY ValidHasPassed DEF Stages
  <2> QED
    BY <2>1 DEF IInv, VerifierInv, HolderStage, IssuerStage
<1> QED
  BY <1>1, Invariance, PTL

-----------------------------------------------------------------------------
(* What a report shows of the selected openings *)

\* What is opened of a node is what is presented and hangs on it.
LEMMA OpenedHangs ==
    ASSUME NEW P \in SUBSET Digests, NEW n, NEW d
    PROVE  d \in Opened(n, P) <=> d \in P /\ HangsOn(d, n)
BY OpeningsAssumption DEF Opened, HangsOn

\* What openings lead to from the payload is reachable.
LEMMA FromThePayload ==
    ASSUME NEW P \in SUBSET Digests
    PROVE  /\ Root \in Reachable(P)
           /\ \A d \in TopLevel(P) : Value[d] \in Reachable(P)
<1>1. Root \in Reachable(P)
  BY OpeningsAssumption DEF Reachable, Closed
<1>2. ASSUME NEW d \in TopLevel(P) PROVE Value[d] \in Reachable(P)
  <2>1. d \in Opened(Root, P) /\ Form[d] = "map" /\ d \in Digests
    BY DescriptionTypes DEF TopLevel
  <2>2. d \in P /\ HangsOn(d, Root) /\ Form[d] # "decoy" /\ Value[d] \in Nodes
    BY <2>1, OpenedHangs, OpeningsAssumption
  <2> QED
    BY <2>2 DEF Reachable, Closed
<1> QED
  BY <1>1, <1>2

\* In a report that is the payload, the values of its fields, and values that
\* have no hashes of their own (report-profile.js:57-85).
LEMMA LayersOfAReport ==
    ASSUME NEW P \in SUBSET Digests, NEW n \in Reachable(P)
    PROVE  n = Root \/ Plain(n) \/ \E b \in TopLevel(P) : n = Value[b]
<1> DEFINE N == {m \in Nodes : m = Root \/ Plain(m) \/ \E b \in TopLevel(P) : m = Value[b]}
<1>1. Root \in N
  BY OpeningsAssumption
<1>2. ASSUME NEW m \in N, NEW x \in Inside(m, P) PROVE x \in N
  <2>1. CASE \E c \in Clear[m] : x = c.node
    BY <2>1, OpeningsAssumption, PayloadAssumption
  <2>2. ASSUME NEW d \in Opened(m, P), Form[d] # "decoy", x = Value[d] PROVE x \in N
    <3>1. d \in Digests /\ x \in Nodes
      BY <2>2, OpeningsAssumption DEF Opened
    <3>2. CASE m = Root
      <4>1. d \in TopLevel(P)
        BY <2>2, <3>1, <3>2, OpeningsAssumption, PayloadAssumption DEF TopLevel, Opened
      <4> QED
        BY <2>2, <3>1, <4>1
    <3>3. CASE Plain(m)
      BY <2>2, <3>3 DEF Plain, Opened
    <3>4. ASSUME NEW b \in TopLevel(P), m = Value[b] PROVE x \in N
      <4>1. b \in HashesIn(Root)
        BY <3>4, PayloadAssumption DEF TopLevel, Opened
      <4>2. IsBody(m) \/ IsReferences(m) \/ Plain(m)
        BY <3>4, <4>1, PayloadAssumption
      <4>3. Plain(x)
        BY <2>2, <4>2 DEF IsBody, IsReferences, Plain, Opened
      <4> QED
        BY <3>1, <4>3
    <3> QED
      BY <3>2, <3>3, <3>4
  <2> QED
    BY <2>1, <2>2 DEF Inside
<1>3. Closed(N, P) /\ N \in SUBSET Nodes
  BY <1>1, <1>2, OpenedHangs DEF Closed, Inside
<1>4. n \in N
  BY <1>3 DEF Reachable
<1> HIDE DEF N
<1> QED
  BY <1>4 DEF N

\* Complete openings open every field that any openings do.
LEMMA NothingBeyondComplete ==
    ASSUME NEW P \in SUBSET Digests, NEW I \in Complete
    PROVE  TopLevel(P) \subseteq TopLevel(I) /\ Disclosed(P) \subseteq Disclosed(I)
<1>1. I \in SUBSET Digests /\ \A d \in HashesIn(Root) \cup Tagged[Root] : d \in I
  BY FromThePayload DEF Complete, Valid, ValidFor
<1>2. TopLevel(P) \subseteq TopLevel(I)
  BY <1>1, PayloadAssumption DEF TopLevel, Opened
<1> QED
  BY <1>2 DEF Disclosed

\* A set of entries of a sequence has no more members than the sequence.
LEMMA EntriesAreCounted ==
    ASSUME NEW n \in Nodes, NEW T \in SUBSET HashesIn(n)
    PROVE  /\ Cardinality(T) \in Nat
           /\ Cardinality(T) <= Len(Hashes[n])
<1> DEFINE S == 1..Len(Hashes[n])
           f == [i \in S |-> Hashes[n][i]]
<1>1. Len(Hashes[n]) \in Nat
  BY OpeningsAssumption
<1>2. IsFiniteSet(S) /\ Cardinality(S) = Len(Hashes[n])
  BY <1>1, FS_Interval
<1>3. f \in Surjection(S, HashesIn(n))
  BY DEF Surjection, HashesIn
<1>4. IsFiniteSet(HashesIn(n)) /\ Cardinality(HashesIn(n)) <= Cardinality(S)
  BY <1>2, <1>3, FS_Surjection
<1>5. IsFiniteSet(T) /\ Cardinality(T) <= Cardinality(HashesIn(n))
  BY <1>4, FS_Subset
<1>6. Cardinality(T) \in Nat /\ Cardinality(HashesIn(n)) \in Nat
  BY <1>4, <1>5, FS_CardinalityType
<1> QED
  BY <1>1, <1>2, <1>4, <1>5, <1>6

\* The chunks of the body that was delivered are numbered below the number of its
\* hashes, so a report shows each of them that is selected.
LEMMA ChunksAreInRange ==
    ASSUME NEW I \in Complete, ChunksAreValid(I),
           NEW b \in TopLevel(I), Key[b] = BodyKey,
           NEW d \in HashesIn(Value[b]), Form[d] = "map"
    PROVE  Key[d] \in 0..(Len(Hashes[Value[b]]) - 1)
<1> DEFINE chunks == {c \in Opened(Value[b], I) : Form[c] = "map"}
<1>1. I \in SUBSET Digests /\ Value[b] \in Nodes /\ HashesIn(Value[b]) \subseteq I
  BY FromThePayload DEF Complete, Valid, ValidFor, Reachable
<1>2. b \in HashesIn(Root)
  BY PayloadAssumption DEF TopLevel, Opened
<1>3. Tagged[Value[b]] = {}
  BY <1>2, PayloadAssumption DEF IsBody
<1>4. d \in chunks /\ chunks \subseteq HashesIn(Value[b])
  BY <1>1, <1>3 DEF Opened
<1>5. {Key[c] : c \in chunks} = 0..(Cardinality(chunks) - 1)
  BY DEF ChunksAreValid
<1>6. Cardinality(chunks) \in Nat /\ Cardinality(chunks) <= Len(Hashes[Value[b]])
  BY <1>1, <1>4, EntriesAreCounted
<1>7. Len(Hashes[Value[b]]) \in Nat
  BY <1>1, OpeningsAssumption
<1> HIDE DEF chunks
<1>8. Key[d] \in 0..(Cardinality(chunks) - 1)
  BY <1>4, <1>5
<1> QED
  BY <1>6, <1>7, <1>8

\* So a report of a presentation shows what was selected of a complete statement,
\* except the padding of fields that it does not know (report.py:63-84).
LEMMA ShownAsSelected ==
    ASSUME NEW P \in Presentable, NEW I \in Complete, ChunksAreValid(I)
    PROVE  Shown(P) = {d \in P : d \in TopLevel(Digests) => Key[d] \in FieldKeys}
<1>1. P \in SUBSET Digests /\ \A d \in P : \E n \in Reachable(P) : d \in Opened(n, P)
  BY OpenedHangs DEF Presentable, Valid, ValidFor
<1>2. \A b \in TopLevel(P) : b \in HashesIn(Root) /\ Form[b] = "map" /\ b \in P
  BY PayloadAssumption DEF TopLevel, Opened
<1>3. \A d \in TopLevel(Digests) : d \in HashesIn(Root) /\ Form[d] = "map"
  BY PayloadAssumption DEF TopLevel, Opened
<1>4. ASSUME NEW d \in Shown(P), d \in TopLevel(Digests) PROVE Key[d] \in FieldKeys
  <2>1. SUFFICES ASSUME NEW b \in TopLevel(P), d \in Opened(Value[b], P),
                        Key[b] = BodyKey \/ Key[b] = ReferencesKey
                 PROVE  FALSE
    BY <1>4 DEF Shown
  <2>2. IsBody(Value[b]) \/ IsReferences(Value[b])
    BY <1>2, <2>1, PayloadAssumption
  <2> QED
    BY <1>3, <1>4, <2>1, <2>2 DEF IsBody, IsReferences, Opened
<1>5. ASSUME NEW d \in P, d \in TopLevel(Digests) => Key[d] \in FieldKeys PROVE d \in Shown(P)
  <2>1. PICK n \in Reachable(P) : d \in Opened(n, P)
    BY <1>1
  <2>2. n = Root \/ Plain(n) \/ \E b \in TopLevel(P) : n = Value[b]
    BY <1>1, LayersOfAReport
  <2>3. ~Plain(n)
    BY <2>1 DEF Plain, Opened
  <2>4. CASE n = Root
    <3>1. d \in HashesIn(Root) /\ Form[d] = "map" /\ d \in Digests
      BY <1>1, <2>1, <2>4, PayloadAssumption DEF Opened
    <3>2. d \in TopLevel(P) /\ d \in TopLevel(Digests)
      BY <3>1 DEF TopLevel, Opened
    <3> QED
      BY <1>5, <3>2 DEF Shown
  <2>5. ASSUME NEW b \in TopLevel(P), n = Value[b] PROVE d \in Shown(P)
    <3>1. b \in HashesIn(Root)
      BY <1>2
    <3>2. CASE Key[b] = BodyKey
      <4>1. d \in HashesIn(Value[b]) /\ Form[d] = "map"
        BY <2>1, <2>5, <3>1, <3>2, PayloadAssumption DEF IsBody, Opened
      <4>2. b \in TopLevel(I)
        BY <1>1, NothingBeyondComplete
      <4>3. Key[d] \in 0..(Len(Hashes[Value[b]]) - 1)
        BY <3>2, <4>1, <4>2, ChunksAreInRange
      <4> QED
        BY <2>1, <2>5, <3>2, <4>1, <4>3 DEF Shown
    <3>3. CASE Key[b] = ReferencesKey
      BY <2>1, <2>5, <3>3 DEF Shown
    <3>4. CASE Key[b] \notin {BodyKey, ReferencesKey}
      BY <2>3, <2>5, <3>1, <3>4, PayloadAssumption
    <3> QED
      BY <3>2, <3>3, <3>4
  <2> QED
    BY <2>2, <2>3, <2>4, <2>5
<1>6. Shown(P) \subseteq P
  BY DEF Shown
<1> QED
  BY <1>4, <1>5, <1>6

\* What the authority signs, presented as it is in time and to the same generation
\* of keys, passes every check, and its report shows exactly what was selected: the
\* checks before signing are as strict as the verifier's (msrc.py:160-169,
\* verification.py:50-60).
THEOREM HonestCorrect == Spec => []HonestDisclosureVerifies
<1>1. IInv => HonestDisclosureVerifies
  <2> SUFFICES ASSUME IInv, verifyAt = "answered", input = kbt, expected = kbt.audience,
                      SameGeneration, TimelyThroughout, CertifiedThroughout
               PROVE  /\ AnswersValid
                      /\ report.shows =
                             {d \in asked.selected : d \in TopLevel(Digests) => Key[d] \in FieldKeys}
    BY DEF HonestDisclosureVerifies
  <2> USE DEF IInv, VerifierInv
  <2>1. /\ kbt # None /\ held # None /\ signAt = "signed"
        /\ asked \in Requests /\ asked.token = held.token
        /\ asked.receipt \in {held.receipt, None} /\ asked.receipt # None
        /\ asked.openings \in Complete /\ Disclosed(asked.openings) = Fields
        /\ ChunksAreValid(asked.openings)
        /\ held.token.ca = held.token.cnf /\ held.receipt.of = held.token
    BY BusyVerifier DEF AuthorityInv, HeldIsConsistent, RequestsAreInspected
  <2>2. /\ kbt.token = asked.token /\ kbt.receipt = asked.receipt
        /\ kbt.openings = asked.selected /\ asked.selected \in Presentable
        /\ kbt.iat \in Times /\ kbt.nbf = None /\ kbt.exp = None
        /\ kbt.key = asked.token.cnf
    BY <2>1 DEF AuthorityInv, SignaturesAreBound
  <2>3. /\ \A c \in Stages : checks[c] \in {"none", "pass", "fail", "skipped", "unavailable"}
        /\ \A c \in Stages : checks[c] # "none"
    BY DEF TypeOK, StagesAreInOrder, Unread, Stages
  <2>4. checks["envelopes"] # "fail"
    BY <2>1, <2>2 DEF EnvelopeStage
  <2>5. \A c \in Stages \ {"merkle"} : checks[c] \in {"pass", "fail"}
    BY <2>3, <2>4 DEF StagesAreInOrder
  <2>6. checks["issuer"] = "pass"
    <3>1. input.token.ca = ca
      BY <2>1, <2>2 DEF SameGeneration
    <3>2. ~(askedAt < endorsedAt - Backdate) /\ ~(VerifierTime > endorsedAt + Lifetime)
      BY BusyVerifier DEF CertifiedThroughout
    <3> QED
      BY <2>5, <3>1, <3>2 DEF IssuerStage, Stages
  <2>7. checks["scitt receipt"] = "pass"
    <3>1. VerifyReceipt(input.receipt, input.token, trust)
      BY <2>1, <2>2 DEF SameGeneration, VerifyReceipt
    <3> QED
      BY <2>5, <3>1 DEF ReceiptStage, Stages
  <2>8. checks["holder"] = "pass"
    <3>1. input.iat # None
      BY <2>2, AbsenceAssumption
    <3>2. ~(input.iat > askedAt + MaxAhead) /\ ~(input.iat < VerifierTime - MaxAge)
      BY <2>2, BusyVerifier DEF TimelyThroughout, Times
    <3> QED
      BY <2>2, <2>5, <2>6, <3>1, <3>2 DEF HolderStage, Stages
  <2>9. checks["consistency"] = "pass"
    <3>1. Disclosed(input.openings) \subseteq Fields
      BY <2>1, <2>2, NothingBeyondComplete DEF Requests
    <3> QED
      BY <2>5, <2>8, <3>1 DEF ReportStage, Stages
  <2>10. checks["merkle"] \in {"pass", "unavailable"}
    BY <2>3, <2>7 DEF StagesAreInOrder, Stages
  <2>11. AnswersValid
    BY <2>4, <2>5, <2>6, <2>7, <2>8, <2>9, <2>10 DEF AnswersValid, Stages
  <2>12. report.shows = Shown(asked.selected)
    BY <2>2, <2>9 DEF ReportStage
  <2> QED
    BY <2>1, <2>2, <2>11, <2>12, ShownAsSelected
<1> QED
  BY <1>1, Invariance, PTL
=============================================================================
