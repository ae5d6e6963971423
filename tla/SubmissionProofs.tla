-------------------------- MODULE SubmissionProofs --------------------------
(***************************************************************************)
(* Proofs about a submission's way through all services, for any number of *)
(* submissions at once and of restarts, with the mock service or with MST, *)
(* and where it says so also when the service's answers are mixed up.  The *)
(* invariant is what each party has verified by the time it suspends, and  *)
(* that what was verified stays true of histories, which only grow.        *)
(***************************************************************************)
EXTENDS Submission, SequenceTheorems, TLAPS

USE SubmissionAssumption, StatementsAssumption, TransparencyAssumption DEF Txids, ScittKeys

-----------------------------------------------------------------------------
(* The mock transparency service by itself, for any number of              *)
(* registrations at once and of restarts.  The lock covers only the taking *)
(* of a number; the invariant says why that is enough: a number that is    *)
(* taken and not yet entered is no other handler's and on no receipt.      *)

\* A handler past its first step has a body, and its number if it took one
\* (mock_scitt.py:57-69).
HandlersAreReady ==
    \A s \in Submissions :
        /\ regAt[s] \in {"checking", "accepted", "numbered"} => posted[s] \in Tokens
        /\ regAt[s] = "numbered" => taken[s] \in 1..seqno

\* Taken numbers are exclusive (mock_scitt.py:66-68).
NumbersAreExclusive ==
    /\ \A s1, s2 \in Submissions :
           regAt[s1] = "numbered" /\ regAt[s2] = "numbered" /\ taken[s1] = taken[s2] => s1 = s2
    /\ \A r \in issued : \A s \in Submissions :
           r.key = scittKey /\ regAt[s] = "numbered" => r.txid # taken[s]

\* No receipt is of a key or a number that is still to come.
ReceiptsAreOfThePast ==
    \A r \in issued : r.key <= scittKey /\ (r.key = scittKey => r.txid <= seqno)

IInv == /\ ScittTypeOK /\ HandlersAreReady /\ NumbersAreExclusive /\ ReceiptsAreOfThePast
        /\ ReceiptsAreUnique /\ LedgerMatchesReceipts

\* A service that has just started has issued nothing (mock_scitt.py:29-33).
LEMMA InitIInv == ScittInit => IInv
  BY DEF ScittInit, IInv, ScittTypeOK, HandlersAreReady, NumbersAreExclusive,
         ReceiptsAreOfThePast, ReceiptsAreUnique, LedgerMatchesReceipts

\* The steps that touch only the handler's own place and body.
LEMMA PlaceIInv ==
    ASSUME IInv, NEW s \in Submissions,
           \/ \E sent \in Tokens : Post(s, sent)
           \/ \E known \in MsrcKeys : Check(s, known)
           \/ Refuse(s)
    PROVE  IInv'
<1> USE DEF IInv, Post, Check, Refuse
<1>1. /\ UNCHANGED <<scittKey, seqno, ledger, taken, answered, issued>>
      /\ \E p \in {"checking", "accepted", "refused"} : regAt' = [regAt EXCEPT ![s] = p]
      /\ \/ posted' = posted /\ regAt[s] = "checking"
         \/ \E sent \in Tokens : posted' = [posted EXCEPT ![s] = sent]
  OBVIOUS
<1>2. ScittTypeOK'
  BY <1>1 DEF ScittTypeOK
<1>3. HandlersAreReady'
  BY <1>1 DEF HandlersAreReady, ScittTypeOK
<1>4. \A x \in Submissions : regAt'[x] = "numbered" => regAt[x] = "numbered"
  BY <1>1 DEF ScittTypeOK
<1>5. NumbersAreExclusive' /\ ReceiptsAreOfThePast'
  BY <1>1, <1>4 DEF NumbersAreExclusive, ReceiptsAreOfThePast
<1>6. ReceiptsAreUnique' /\ LedgerMatchesReceipts'
  BY <1>1 DEF ReceiptsAreUnique, LedgerMatchesReceipts
<1> QED
  BY <1>2, <1>3, <1>5, <1>6

\* Under the lock: the number taken is above all that were.
LEMMA TakeNumberIInv ==
    ASSUME IInv, NEW s \in Submissions, TakeNumber(s)
    PROVE  IInv'
<1> USE DEF IInv, TakeNumber
<1>1. ScittTypeOK'
  BY DEF ScittTypeOK
<1>2. HandlersAreReady'
  BY DEF HandlersAreReady, ScittTypeOK
<1>3. NumbersAreExclusive'
  <2>1. \A x \in Submissions : regAt[x] = "numbered" => taken[x] < seqno + 1
    BY DEF HandlersAreReady, ScittTypeOK
  <2>2. \A r \in issued : r.key = scittKey => r.txid < seqno + 1
    BY DEF ReceiptsAreOfThePast, ScittTypeOK, Receipts
  <2> QED
    BY <2>1, <2>2 DEF NumbersAreExclusive, ScittTypeOK
<1>4. ReceiptsAreOfThePast'
  BY DEF ReceiptsAreOfThePast, ScittTypeOK, Receipts
<1>5. ReceiptsAreUnique' /\ LedgerMatchesReceipts'
  BY DEF ReceiptsAreUnique, LedgerMatchesReceipts
<1> QED
  BY <1>1, <1>2, <1>3, <1>4, <1>5

\* Outside the lock: the entry's place is free, and the receipt is the first of
\* its number.
LEMMA EnterIsFresh ==
    ASSUME IInv, NEW s \in Submissions, Enter(s)
    PROVE  /\ taken[s] \in Txids /\ posted[s] \in Tokens
           /\ NewReceipt(s) \in Receipts
           /\ NewReceipt(s).txid = taken[s] /\ NewReceipt(s).key = scittKey
           /\ ledger[taken[s]] = None
           /\ \A r \in issued : r.key = scittKey => r.txid # taken[s]
<1> USE DEF IInv, Enter
<1>1. taken[s] \in Txids /\ posted[s] \in Tokens
  BY DEF HandlersAreReady, ScittTypeOK
<1>2. NewReceipt(s) \in Receipts
  BY <1>1 DEF NewReceipt, Receipts, ScittTypeOK
<1>3. \A r \in issued : r.key = scittKey => r.txid # taken[s]
  BY DEF NumbersAreExclusive
<1>4. ledger[taken[s]] = None
  BY <1>1, <1>3 DEF LedgerMatchesReceipts, VerifyTransparent, VerifyReceipt
<1> QED
  BY <1>1, <1>2, <1>3, <1>4 DEF NewReceipt

\* Entering a statement: its number is no other handler's and on no receipt, so
\* the new receipt is unique and the ledger had nothing under it.
LEMMA EnterIInv ==
    ASSUME IInv, NEW s \in Submissions, Enter(s)
    PROVE  IInv'
<1> USE DEF IInv, Enter
<1>1. /\ taken[s] \in Txids /\ posted[s] \in Tokens
      /\ NewReceipt(s) \in Receipts
      /\ NewReceipt(s) = [txid |-> taken[s], of |-> posted[s], key |-> scittKey]
      /\ ledger[taken[s]] = None
      /\ \A r \in issued : r.key = scittKey => r.txid # taken[s]
  BY EnterIsFresh DEF NewReceipt
<1>2. Responses(s) \subseteq Answers
  BY <1>1 DEF Responses, Answers, ScittTypeOK
<1>3. ScittTypeOK'
  BY <1>1, <1>2 DEF ScittTypeOK, Transparent
<1>4. HandlersAreReady'
  BY DEF HandlersAreReady, ScittTypeOK
<1>5. \A x \in Submissions : regAt'[x] = "numbered" => x # s /\ regAt[x] = "numbered"
  BY DEF ScittTypeOK
<1>6. NumbersAreExclusive'
  BY <1>1, <1>5 DEF NumbersAreExclusive
<1>7. ReceiptsAreOfThePast'
  BY <1>1 DEF ReceiptsAreOfThePast, HandlersAreReady, ScittTypeOK
<1>8. ReceiptsAreUnique'
  BY <1>1 DEF ReceiptsAreUnique
<1>9. LedgerMatchesReceipts'
  BY <1>1 DEF LedgerMatchesReceipts, VerifyTransparent, VerifyReceipt, ScittTypeOK, Transparent
<1> QED
  BY <1>3, <1>4, <1>6, <1>7, <1>8, <1>9

\* A restart: a key on no receipt yet, and nobody holds a number.
LEMMA RestartIInv ==
    ASSUME IInv, RestartScitt
    PROVE  IInv'
<1> USE DEF IInv, RestartScitt
<1>1. \A r \in issued : r.key # scittKey'
  BY DEF ReceiptsAreOfThePast, ScittTypeOK, Receipts
<1>2. \A x \in Submissions : regAt'[x] \notin {"checking", "accepted", "numbered"}
  BY DEF ScittTypeOK
<1>3. ScittTypeOK'
  BY DEF ScittTypeOK
<1>4. HandlersAreReady' /\ NumbersAreExclusive'
  BY <1>2 DEF HandlersAreReady, NumbersAreExclusive
<1>5. ReceiptsAreOfThePast'
  BY <1>1 DEF ReceiptsAreOfThePast, ScittTypeOK, Receipts
<1>6. ReceiptsAreUnique' /\ LedgerMatchesReceipts'
  BY <1>1 DEF ReceiptsAreUnique, LedgerMatchesReceipts
<1> QED
  BY <1>3, <1>4, <1>5, <1>6

\* Every step of the service preserves the inductive invariant.
LEMMA NextIInv ==
    ASSUME IInv, [ScittNext]_scittVars
    PROVE  IInv'
<1>1. CASE UNCHANGED scittVars
  BY <1>1 DEF scittVars, IInv, ScittTypeOK, HandlersAreReady, NumbersAreExclusive,
              ReceiptsAreOfThePast, ReceiptsAreUnique, LedgerMatchesReceipts
<1> QED
  BY <1>1, PlaceIInv, TakeNumberIInv, EnterIInv, RestartIInv DEF ScittNext

\* The mock service keeps its inductive invariant (mock_scitt.py:50-83).
THEOREM ServiceInvariance == ScittSpec => []IInv
  BY InitIInv, NextIInv, PTL DEF ScittSpec

\* Types, for any numbers of submissions, restarts and keys (mock_scitt.py:28-33).
THEOREM ServiceTypes == ScittSpec => []ScittTypeOK
<1>1. IInv => ScittTypeOK
  BY DEF IInv
<1> QED
  BY <1>1, ServiceInvariance, PTL

\* The lock around the counter is enough: under one key a transaction id names
\* one statement (mock_scitt.py:66-69).
THEOREM UniqueReceipts == ScittSpec => []ReceiptsAreUnique
<1>1. IInv => ReceiptsAreUnique
  BY DEF IInv
<1> QED
  BY <1>1, ServiceInvariance, PTL

\* The ledger holds what was receipted, all of it of the running service
\* (mock_scitt.py:69-73).
THEOREM LedgerCorrect == ScittSpec => []LedgerMatchesReceipts
<1>1. IInv => LedgerMatchesReceipts
  BY DEF IInv
<1> QED
  BY <1>1, ServiceInvariance, PTL

\* Entries are stored outside the lock, but each in its own place: between
\* restarts none is replaced (mock_scitt.py:70).
THEOREM AppendOnly == ScittSpec => LedgerIsAppendOnly
<1> DEFINE keeps == scittKey' = scittKey =>
                      \A t \in Txids : ledger[t] # None => ledger'[t] = ledger[t]
<1>1. ASSUME IInv, ScittNext PROVE keeps
  <2>1. ASSUME NEW s \in Submissions, Enter(s) PROVE keeps
    <3>1. ledger[taken[s]] = None
      BY <1>1, <2>1, EnterIsFresh
    <3> QED
      BY <1>1, <2>1, <3>1 DEF Enter, IInv, ScittTypeOK
  <2>2. CASE RestartScitt
    BY <1>1, <2>2 DEF RestartScitt, IInv, ScittTypeOK
  <2> QED
    BY <1>1, <2>1, <2>2 DEF ScittNext, Post, Check, Refuse, TakeNumber
<1>2. ASSUME IInv, [ScittNext]_scittVars PROVE [keeps]_scittVars
  BY <1>1, <1>2
<1> QED
  BY <1>2, ServiceInvariance, PTL DEF ScittSpec, LedgerIsAppendOnly

-----------------------------------------------------------------------------
(* The whole submission *)

\* The page's own statement, bound to the keys it knows (app.js:88-96).
Signed(s) == /\ token[s] \in Tokens
             /\ token[s].by = s
             /\ token[s].cnf = config[s]

\* The 201 that the backend verified: a receipt for the page's statement under
\* the transaction of the header (researcher.py:129-138).
Registered(s) == /\ regAt[s] = "entered"
                 /\ answered[s].receipt.of = token[s]
                 /\ answered[s].receipt.txid = answered[s].txid

\* A statement whose receipt the service has signed, for whichever statement.
Backed(statement) == statement \in Transparent /\ statement.receipt \in issued

\* What a page has behind it where it is (app.js:78-111, registration.js:25-46).
PagesAreInOrder ==
    \A s \in Submissions :
        /\ page[s] \in {"closed", "open", "issued"} => regAt[s] = "idle" /\ fetched[s] = None
        /\ page[s] = "open" => config[s] \in MsrcKeys
        /\ page[s] \notin {"closed", "open", "failed"} => Signed(s)
        /\ page[s] # "failed" => attempts[s] < MaxAttempts
        /\ page[s] \in {"fetching", "presenting", "delivering", "done"} =>
               Registered(s) /\ txid[s] = answered[s].txid
        /\ page[s] = "presenting" =>
               /\ Backed(fetched[s])
               /\ fetched[s].receipt.of = fetched[s].token
               /\ fetched[s].receipt.txid = txid[s]
        /\ page[s] = "done" => dlvAt[s] = "stored" /\ shown[s] = txid[s]

\* What the handlers of a registration and of a retrieval hold while they are
\* suspended (mock_scitt.py:50-79, researcher.py:115-179).
RequestsAreTraced ==
    \A s \in Submissions :
        /\ regAt[s] # "idle" => Signed(s) /\ posted[s] = token[s]
        /\ regAt[s] = "entered" => answered[s] \in Answers /\ answered[s].receipt \in issued
        /\ gwAt[s] = "recording" => Registered(s)
        /\ gwAt[s] \in {"matching", "trusting"} => Backed(fetched[s])

\* What is known of a delivery, and what the authority has found out by the time
\* it stores it (msrc.py:127-138).
DeliveriesAreVerified ==
    \A s \in Submissions :
        /\ dlvAt[s] = "idle" => body[s] = None
        /\ dlvAt[s] # "idle" =>
               /\ page[s] \in {"delivering", "done", "failed"}
               /\ Signed(s)
               /\ Backed(body[s])
               /\ body[s].token = token[s]
               /\ body[s].receipt.of = token[s]
               /\ body[s].receipt.txid = txid[s]
        /\ dlvAt[s] = "inspected" => VerifyStatement(token[s], msrcKey)
        /\ dlvAt[s] = "stored" => Item(s) \in delivered /\ VerifyStatement(token[s], config[s])

Types == GatewayTypeOK /\ MsrcTypeOK /\ PageTypeOK

\* What has to be kept besides the service's own invariant.
Kept == /\ Types
        /\ PagesAreInOrder /\ RequestsAreTraced /\ DeliveriesAreVerified
        /\ InboxIsUsable /\ EntriesAreReceipted

SubmissionInv == IInv /\ Kept

\* A conjunct of SubmissionInv at a time is what a step has to re-establish.
LEMMA InitSubmissionInv == Init => SubmissionInv
<1> SUFFICES ASSUME Init PROVE SubmissionInv
  OBVIOUS
<1>1. IInv
  BY InitIInv DEF Init
<1>2. Types
  BY DEF Init, GatewayInit, MsrcInit, Types, GatewayTypeOK, MsrcTypeOK, PageTypeOK, MsrcKeys
<1>3. PagesAreInOrder /\ RequestsAreTraced /\ DeliveriesAreVerified
  BY DEF Init, ScittInit, GatewayInit, MsrcInit, PagesAreInOrder, RequestsAreTraced,
         DeliveriesAreVerified
<1>4. InboxIsUsable /\ EntriesAreReceipted
  BY DEF Init, GatewayInit, MsrcInit, InboxIsUsable, EntriesAreReceipted
<1> QED
  BY <1>1, <1>2, <1>3, <1>4 DEF SubmissionInv, Kept

\* Within the whole the service does what it does by itself: what the backend
\* posts is a token, and the keys that are checked against are the authority's.
LEMMA ServiceStep ==
    ASSUME SubmissionInv, [Next]_vars
    PROVE  [ScittNext]_scittVars
<1> USE DEF SubmissionInv, Kept, Types
<1>1. ASSUME NEW s \in Submissions, Register(s) PROVE ScittNext
  <2>1. token[s] \in Tokens
    BY <1>1 DEF Register, PagesAreInOrder, Signed
  <2> QED
    BY <1>1, <2>1 DEF Register, ScittNext
<1>2. ASSUME NEW s \in Submissions, ServiceRegisters(s) PROVE ScittNext
  BY <1>2 DEF ServiceRegisters, ScittNext, MsrcTypeOK
<1>3. CASE ServiceRestarts
  BY <1>3 DEF ServiceRestarts, ScittNext
<1>4. CASE UNCHANGED vars
  BY <1>4 DEF vars
<1>5. ASSUME NEW s \in Submissions, OpenPage(s) \/ IssueReport(s) \/ PageFails(s)
      PROVE  UNCHANGED scittVars
  BY <1>5 DEF OpenPage, IssueReport, PageFails
<1>6. ASSUME NEW s \in Submissions,
             \/ Fetch(s) \/ FetchMissing(s) \/ FetchPending(s) \/ Present(s) \/ PresentDiffers(s)
             \/ GatewayVerifies(s) \/ GatewayRecords(s) \/ GatewayMatches(s) \/ GatewayRetrieves(s)
             \/ GatewayFails(s) \/ AuthorityInspects(s) \/ Complete(s)
      PROVE  UNCHANGED scittVars
  BY <1>6 DEF Fetch, FetchMissing, FetchPending, Present, PresentDiffers, GatewayVerifies,
              GatewayRecords, GatewayMatches, GatewayRetrieves, GatewayFails, AuthorityInspects,
              Complete
<1>7. CASE ResearcherRestarts \/ AuthorityRestarts
  BY <1>7 DEF ResearcherRestarts, AuthorityRestarts
<1> QED
  BY <1>1, <1>2, <1>3, <1>4, <1>5, <1>6, <1>7 DEF Next, Progress

\* The page's own steps, with no service involved (app.js:71-111).
LEMMA PageSteps ==
    ASSUME SubmissionInv, NEW s \in Submissions,
           \/ OpenPage(s) \/ IssueReport(s) \/ PageFails(s)
           \/ FetchMissing(s) \/ FetchPending(s) \/ PresentDiffers(s)
    PROVE  Kept'
<1> USE DEF SubmissionInv, Kept, Types, OpenPage, IssueReport, PageFails, FetchMissing, FetchPending,
            PresentDiffers, scittVars, gatewayVars, msrcVars, Waiting
<1>1. PageTypeOK'
  <2>1. page[s] # "failed" => attempts[s] + 1 \in 0..MaxAttempts
    BY DEF PageTypeOK, PagesAreInOrder
  <2>2. attempts' \in [Submissions -> 0..MaxAttempts]
    BY <2>1 DEF PageTypeOK
  <2>3. config' \in [Submissions -> MsrcKeys \cup {None}]
    BY DEF PageTypeOK, MsrcTypeOK
  <2>4. page[s] = "open" => Endorsed(s, config[s]) \in Tokens
    BY DEF PagesAreInOrder, Endorsed, MsrcTypeOK, Tokens
  <2>5. token' \in [Submissions -> Tokens \cup {None}]
    BY <2>4 DEF PageTypeOK
  <2> QED
    BY <2>2, <2>3, <2>5 DEF PageTypeOK
<1>2. PagesAreInOrder'
  BY DEF PagesAreInOrder, PageTypeOK, MsrcTypeOK, Signed, Registered, Backed, Tokens, Endorsed
<1>3. RequestsAreTraced'
  <2>1. UNCHANGED <<config, token>> \/ regAt[s] = "idle"
    BY DEF PagesAreInOrder
  <2>2. \A x \in Submissions : x # s => config'[x] = config[x] /\ token'[x] = token[x]
    BY DEF PageTypeOK
  <2> QED
    BY <2>1, <2>2 DEF RequestsAreTraced, Signed, Registered, Backed
<1>4. DeliveriesAreVerified'
  BY DEF DeliveriesAreVerified, PageTypeOK, MsrcTypeOK, Signed, Backed, Item
<1>5. GatewayTypeOK' /\ MsrcTypeOK' /\ InboxIsUsable' /\ EntriesAreReceipted'
  BY DEF GatewayTypeOK, MsrcTypeOK, InboxIsUsable, EntriesAreReceipted
<1> QED
  BY <1>1, <1>2, <1>3, <1>4, <1>5

\* The page's next request: a registration (app.js:98) ...
LEMMA RegisterStep ==
    ASSUME SubmissionInv, NEW s \in Submissions, Register(s)
    PROVE  Kept'
<1> USE DEF SubmissionInv, Kept, Types, Register, ForwardEntry, Goes, Post, scittVars, gatewayVars,
            msrcVars
<1>1. Types'
  BY DEF GatewayTypeOK, MsrcTypeOK, PageTypeOK, Waiting
<1>2. PagesAreInOrder'
  BY DEF PagesAreInOrder, IInv, ScittTypeOK, PageTypeOK, Signed, Registered, Backed
<1>3. RequestsAreTraced'
  <2>1. Signed(s)
    BY DEF PagesAreInOrder
  <2>2. /\ regAt'[s] = "checking" /\ posted'[s] = token[s] /\ gwAt'[s] = "forwarding"
        /\ \A x \in Submissions \ {s} :
               regAt'[x] = regAt[x] /\ posted'[x] = posted[x] /\ gwAt'[x] = gwAt[x]
    BY DEF IInv, ScittTypeOK, GatewayTypeOK
  <2> QED
    BY <2>1, <2>2 DEF RequestsAreTraced, Signed, Registered, Backed
<1>4. DeliveriesAreVerified'
  BY DEF DeliveriesAreVerified, PageTypeOK, Signed, Backed, Item
<1>5. InboxIsUsable' /\ EntriesAreReceipted'
  BY DEF InboxIsUsable, EntriesAreReceipted
<1> QED
  BY <1>1, <1>2, <1>3, <1>4, <1>5

\* ... a retrieval, which the service may answer with any statement that has a
\* receipt (registration.js:25-46) ...
LEMMA FetchStep ==
    ASSUME SubmissionInv, NEW s \in Submissions, Fetch(s)
    PROVE  Kept'
<1> USE DEF SubmissionInv, Kept, Types, Fetch, FetchStatement, Goes, scittVars, msrcVars, pageVars
<1>1. txid[s] \in Txids
  BY DEF PagesAreInOrder, Registered, RequestsAreTraced, Answers
<1>2. \A statement \in Retrievable(txid[s]) : Backed(statement)
  BY <1>1 DEF Retrievable, Backed, IInv, ScittTypeOK, LedgerMatchesReceipts, Transparent
<1>3. Types'
  BY <1>2 DEF GatewayTypeOK, MsrcTypeOK, PageTypeOK, Backed
<1>4. PagesAreInOrder'
  BY DEF PagesAreInOrder, PageTypeOK, GatewayTypeOK, Signed, Registered, Backed
<1>5. RequestsAreTraced'
  BY <1>2 DEF RequestsAreTraced, GatewayTypeOK, Signed, Registered, Backed
<1>6. DeliveriesAreVerified'
  BY DEF DeliveriesAreVerified, Signed, Backed, Item
<1>7. InboxIsUsable' /\ EntriesAreReceipted'
  BY DEF InboxIsUsable, EntriesAreReceipted
<1> QED
  BY <1>3, <1>4, <1>5, <1>6, <1>7

\* ... and the delivery, of a statement that was verified and compared
\* (sdcwt.js:82-92).
LEMMA PresentStep ==
    ASSUME SubmissionInv, NEW s \in Submissions, Present(s)
    PROVE  Kept'
<1> USE DEF SubmissionInv, Kept, Types, Present, ForwardDelivery, Deliver, Goes, scittVars,
            gatewayVars, msrcVars
<1>1. Backed(fetched[s]) /\ fetched[s].receipt.of = token[s] /\ fetched[s].receipt.txid = txid[s]
  BY DEF PagesAreInOrder
<1>2. Types'
  BY <1>1 DEF GatewayTypeOK, MsrcTypeOK, PageTypeOK, Waiting, Backed
<1>3. PagesAreInOrder'
  BY DEF PagesAreInOrder, PageTypeOK, MsrcTypeOK, DeliveriesAreVerified, Signed, Registered, Backed
<1>4. RequestsAreTraced'
  BY DEF RequestsAreTraced, GatewayTypeOK, Signed, Registered, Backed
<1>5. DeliveriesAreVerified'
  BY <1>1 DEF DeliveriesAreVerified, PagesAreInOrder, PageTypeOK, MsrcTypeOK, Signed, Backed, Item
<1>6. InboxIsUsable' /\ EntriesAreReceipted'
  BY DEF InboxIsUsable, EntriesAreReceipted
<1> QED
  BY <1>2, <1>3, <1>4, <1>5, <1>6

\* The service's handler: what it has issued stays issued (mock_scitt.py:50-79).
LEMMA ServiceRegistersStep ==
    ASSUME SubmissionInv, NEW s \in Submissions, ServiceRegisters(s)
    PROVE  Kept'
<1> USE DEF SubmissionInv, Kept, Types, ServiceRegisters, gatewayVars, msrcVars, pageVars
<1>1. /\ issued \subseteq issued'
      /\ regAt[s] \notin {"idle", "entered"} /\ regAt'[s] # "idle"
      /\ \A x \in Submissions : x # s => regAt'[x] = regAt[x] /\ answered'[x] = answered[x]
      /\ posted' = posted
  BY DEF Check, Refuse, TakeNumber, Enter, IInv, ScittTypeOK
<1>2. Types'
  BY DEF GatewayTypeOK, MsrcTypeOK, PageTypeOK
<1>3. ~(page[s] \in {"closed", "open", "issued", "fetching", "presenting", "delivering", "done"})
  BY <1>1 DEF PagesAreInOrder, Registered
<1>4. PagesAreInOrder'
  BY <1>1, <1>3 DEF PagesAreInOrder, PageTypeOK, Signed, Registered, Backed
<1>5. ASSUME Enter(s) PROVE answered'[s] \in Answers /\ answered'[s].receipt \in issued'
  <2>1. NewReceipt(s) \in Receipts /\ taken[s] \in Txids
    BY <1>5, EnterIsFresh
  <2>2. \A a \in Responses(s) : a \in Answers /\ a.receipt \in issued \cup {NewReceipt(s)}
    BY <2>1 DEF Responses, Answers, IInv, ScittTypeOK
  <2> QED
    BY <1>5, <2>2 DEF Enter, IInv, ScittTypeOK
<1>6. regAt'[s] = "entered" => answered'[s] \in Answers /\ answered'[s].receipt \in issued'
  BY <1>5 DEF Check, Refuse, TakeNumber, IInv, ScittTypeOK
<1>7. RequestsAreTraced'
  BY <1>1, <1>6 DEF RequestsAreTraced, Signed, Registered, Backed
<1>8. DeliveriesAreVerified'
  BY <1>1 DEF DeliveriesAreVerified, Signed, Backed, Item
<1>9. InboxIsUsable' /\ EntriesAreReceipted'
  BY <1>1 DEF InboxIsUsable, EntriesAreReceipted
<1> QED
  BY <1>2, <1>4, <1>7, <1>8, <1>9

\* The backend's handlers of a registration and a retrieval: what is verified is
\* what the page goes on with (researcher.py:115-179).
LEMMA GatewaySteps ==
    ASSUME SubmissionInv, NEW s \in Submissions,
           \/ GatewayVerifies(s) \/ GatewayRecords(s) \/ GatewayMatches(s)
           \/ GatewayRetrieves(s) \/ GatewayFails(s)
    PROVE  Kept'
<1> USE DEF SubmissionInv, Kept, Types, GatewayVerifies, VerifyRegistration, GatewayRecords,
            RecordEntry, GatewayMatches, MatchStatement, GatewayRetrieves, VerifyRetrieval,
            GatewayFails, FailRequest, Goes, Turns, Listening, scittVars, msrcVars, pageVars
<1>1. gwAt[s] = "recording" => /\ Registered(s) /\ answered[s] \in Answers
                               /\ answered[s].receipt \in issued /\ token[s] \in Tokens
  BY DEF RequestsAreTraced, Registered, Signed
<1>2. Types'
  <2>1. GatewayTypeOK'
    BY <1>1 DEF GatewayTypeOK, Waiting, Answers
  <2>2. MsrcTypeOK'
    BY DEF MsrcTypeOK
  <2>3. PageTypeOK'
    BY <1>1 DEF GatewayTypeOK, PageTypeOK, Waiting, Answers
  <2> QED
    BY <2>1, <2>2, <2>3
<1>3. PagesAreInOrder'
  BY <1>1 DEF PagesAreInOrder, RequestsAreTraced, PageTypeOK, GatewayTypeOK, Signed, Registered,
              Backed, VerifyTransparent, VerifyReceipt, Waiting
<1>4. RequestsAreTraced'
  BY DEF RequestsAreTraced, GatewayTypeOK, Signed, Registered, Backed, VerifyReceipt
<1>5. DeliveriesAreVerified'
  BY DEF DeliveriesAreVerified, PageTypeOK, Signed, Backed, Item, Waiting
<1>6. InboxIsUsable'
  BY DEF InboxIsUsable
<1>7. EntriesAreReceipted'
  BY <1>1 DEF EntriesAreReceipted, GatewayTypeOK, Registered
<1> QED
  BY <1>2, <1>3, <1>4, <1>5, <1>6, <1>7

\* The authority's handler: what it stores it has verified under its own keys
\* as they are while it does so (msrc.py:127-138).
LEMMA AuthoritySteps ==
    ASSUME SubmissionInv, NEW s \in Submissions, AuthorityInspects(s)
    PROVE  Kept'
<1> USE DEF SubmissionInv, Kept, Types, AuthorityInspects, InspectStatement, RefuseDelivery,
            StoreDelivery, scittVars, gatewayVars, pageVars
<1>1. /\ dlvAt[s] \in {"inspecting", "inspected"} /\ Backed(body[s]) /\ Signed(s)
      /\ body[s].token = token[s] /\ body[s].receipt.of = token[s]
  BY DEF DeliveriesAreVerified
<1>2. Item(s) \in Items
  BY <1>1 DEF Item, Items, Backed, Transparent, Receipts
<1>3. Types'
  <2>1. <<Item(s)>> \o inbox \in Seq(Items)
    BY <1>2, ConcatProperties DEF MsrcTypeOK
  <2>2. inbox' \in Seq(Items) /\ delivered' \in SUBSET Items
    BY <1>2, <2>1 DEF MsrcTypeOK
  <2> QED
    BY <2>2 DEF GatewayTypeOK, MsrcTypeOK, PageTypeOK
<1>4. PagesAreInOrder'
  BY DEF PagesAreInOrder, MsrcTypeOK, Signed, Registered, Backed
<1>5. RequestsAreTraced'
  BY DEF RequestsAreTraced, Signed, Registered, Backed
<1>6. DeliveriesAreVerified'
  BY <1>1 DEF DeliveriesAreVerified, MsrcTypeOK, Signed, Backed, Item, VerifyStatement
<1>7. InboxIsUsable'
  <2>1. CASE inbox' = <<Item(s)>> \o inbox
    <3>1. VerifyStatement(Item(s).digest.token, msrcKey)
      BY <1>1, <2>1 DEF DeliveriesAreVerified, Item, MsrcTypeOK
    <3>2. Item(s).digest.receipt \in issued /\ Item(s).digest.receipt.of = Item(s).digest.token
      BY <1>1 DEF Item, Backed
    <3>3. \A i \in 1..Len(inbox') :
              inbox'[i] = Item(s) \/ \E j \in 1..Len(inbox) : inbox'[i] = inbox[j]
      BY <1>2, <2>1 DEF MsrcTypeOK
    <3> QED
      BY <2>1, <3>1, <3>2, <3>3 DEF InboxIsUsable
  <2> QED
    BY <2>1 DEF InboxIsUsable
<1>8. EntriesAreReceipted'
  BY DEF EntriesAreReceipted
<1> QED
  BY <1>3, <1>4, <1>5, <1>6, <1>7, <1>8

\* The delivery's 201 ends the submission (app.js:101-111).
LEMMA CompleteStep ==
    ASSUME SubmissionInv, NEW s \in Submissions, Complete(s)
    PROVE  Kept'
<1> USE DEF SubmissionInv, Kept, Types, Complete, ReturnDelivery, Goes, Turns, Listening,
            scittVars, msrcVars
<1>1. Item(s).txid = txid[s] /\ Item(s).txid \in Txids
  BY DEF DeliveriesAreVerified, Item, Backed, Transparent, Receipts
<1>2. Types'
  BY <1>1 DEF GatewayTypeOK, MsrcTypeOK, PageTypeOK
<1>3. PagesAreInOrder'
  BY <1>1 DEF PagesAreInOrder, PageTypeOK, Signed, Registered, Backed
<1>4. RequestsAreTraced'
  BY DEF RequestsAreTraced, GatewayTypeOK, Signed, Registered, Backed
<1>5. DeliveriesAreVerified'
  BY DEF DeliveriesAreVerified, PageTypeOK, Signed, Backed, Item
<1>6. InboxIsUsable' /\ EntriesAreReceipted'
  BY DEF InboxIsUsable, EntriesAreReceipted
<1> QED
  BY <1>2, <1>3, <1>4, <1>5, <1>6

\* A restart forgets, and what is forgotten is not relied on: the backend's
\* entries, the service's key and ledger, the authority's keys and inbox.
LEMMA RestartSteps ==
    ASSUME SubmissionInv, ResearcherRestarts \/ ServiceRestarts \/ AuthorityRestarts
    PROVE  Kept'
<1> USE DEF SubmissionInv, Kept, Types, scittVars, gatewayVars, msrcVars, pageVars
<1>1. CASE ResearcherRestarts
  <2> USE <1>1 DEF ResearcherRestarts, RestartGateway
  <2>1. Types'
    BY DEF GatewayTypeOK, MsrcTypeOK, PageTypeOK
  <2>2. PagesAreInOrder'
    BY DEF PagesAreInOrder, PageTypeOK, Waiting, Signed, Registered, Backed
  <2>3. RequestsAreTraced'
    BY DEF RequestsAreTraced, Signed, Registered, Backed
  <2>4. DeliveriesAreVerified'
    BY DEF DeliveriesAreVerified, Signed, Backed, Item, Waiting
  <2>5. InboxIsUsable' /\ EntriesAreReceipted'
    BY DEF InboxIsUsable, EntriesAreReceipted
  <2> QED
    BY <2>1, <2>2, <2>3, <2>4, <2>5
<1>2. CASE ServiceRestarts
  <2> USE <1>2 DEF ServiceRestarts, RestartScitt
  <2>1. Types'
    BY DEF GatewayTypeOK, MsrcTypeOK, PageTypeOK
  <2>2. PagesAreInOrder' /\ RequestsAreTraced'
    BY DEF PagesAreInOrder, RequestsAreTraced, IInv, ScittTypeOK, Signed, Registered, Backed
  <2>3. DeliveriesAreVerified' /\ InboxIsUsable' /\ EntriesAreReceipted'
    BY DEF DeliveriesAreVerified, InboxIsUsable, EntriesAreReceipted, Signed, Backed, Item
  <2> QED
    BY <2>1, <2>2, <2>3
<1>3. CASE AuthorityRestarts
  <2> USE <1>3 DEF AuthorityRestarts, RestartMsrc
  <2>1. Types'
    BY DEF GatewayTypeOK, MsrcTypeOK, PageTypeOK, MsrcKeys
  <2>2. PagesAreInOrder' /\ RequestsAreTraced'
    BY DEF PagesAreInOrder, RequestsAreTraced, MsrcTypeOK, Signed, Registered, Backed
  <2>3. DeliveriesAreVerified'
    BY DEF DeliveriesAreVerified, MsrcTypeOK, Signed, Backed, Item
  <2>4. InboxIsUsable' /\ EntriesAreReceipted'
    BY DEF InboxIsUsable, EntriesAreReceipted
  <2> QED
    BY <2>1, <2>2, <2>3, <2>4
<1> QED
  BY <1>1, <1>2, <1>3

\* Every step of every party preserves the invariant.
LEMMA NextSubmissionInv ==
    ASSUME SubmissionInv, [Next]_vars
    PROVE  SubmissionInv'
<1>1. IInv'
  BY ServiceStep, NextIInv DEF SubmissionInv
<1>2. Kept'
  <2>1. CASE UNCHANGED vars
    BY <2>1 DEF vars, scittVars, gatewayVars, msrcVars, pageVars, SubmissionInv, Kept, Types,
                GatewayTypeOK, MsrcTypeOK, PageTypeOK, PagesAreInOrder, RequestsAreTraced,
                DeliveriesAreVerified, Signed, Registered, Backed, Item, InboxIsUsable,
                EntriesAreReceipted
  <2>2. ASSUME NEW s \in Submissions, OpenPage(s) \/ IssueReport(s) \/ PageFails(s) PROVE Kept'
    BY <2>2, PageSteps
  <2>3. ASSUME NEW s \in Submissions, Progress(s) PROVE Kept'
    BY <2>3, PageSteps, RegisterStep, FetchStep, PresentStep, ServiceRegistersStep, GatewaySteps,
       AuthoritySteps, CompleteStep DEF Progress
  <2> QED
    BY <2>1, <2>2, <2>3, RestartSteps DEF Next
<1> QED
  BY <1>1, <1>2 DEF SubmissionInv

\* The inductive invariant of a submission's way through all services.
THEOREM SubmissionInvariance == Spec => []SubmissionInv
  BY InitSubmissionInv, NextSubmissionInv, PTL DEF Spec

\* Types of every party's state, for any numbers of submissions, restarts and
\* polls (the dataclasses State of each service, app.js:9-27).
THEOREM SubmissionTypes == Spec => []TypeOK
<1>1. SubmissionInv => TypeOK
  BY DEF SubmissionInv, Kept, Types, IInv, TypeOK
<1> QED
  BY <1>1, SubmissionInvariance, PTL

\* The openings leave the browser only behind what it has verified itself: its
\* own bytes, and a receipt for them under its own transaction (sdcwt.js:82-92),
\* also when the service mixes up its answers and whoever restarts.
THEOREM Disclosures == Spec => []DisclosuresFollowVerification
<1>1. SubmissionInv => DisclosuresFollowVerification
  BY DEF SubmissionInv, Kept, DeliveriesAreVerified, DisclosuresFollowVerification, Backed
<1> QED
  BY <1>1, SubmissionInvariance, PTL

\* A confirmation is shown only of a report that was delivered under the shown
\* transaction and bound to the keys the page was loaded with (app.js:101-111).
THEOREM Completion == Spec => []CompletionIsTrue
<1>1. SubmissionInv => CompletionIsTrue
  <2> SUFFICES ASSUME SubmissionInv, NEW s \in Submissions, page[s] = "done"
               PROVE  /\ shown[s] = txid[s]
                      /\ \E i \in delivered : i.txid = shown[s] /\ i.digest.token = token[s]
                      /\ VerifyStatement(token[s], config[s])
    BY DEF CompletionIsTrue
  <2>1. dlvAt[s] = "stored" /\ shown[s] = txid[s]
    BY DEF SubmissionInv, Kept, PagesAreInOrder
  <2>2. /\ Item(s) \in delivered /\ VerifyStatement(token[s], config[s])
        /\ body[s].token = token[s] /\ body[s].receipt.txid = txid[s]
    BY <2>1 DEF SubmissionInv, Kept, DeliveriesAreVerified
  <2>3. Item(s).txid = shown[s] /\ Item(s).digest.token = token[s]
    BY <2>1, <2>2 DEF Item
  <2> QED
    BY <2>1, <2>2, <2>3
<1> QED
  BY <1>1, SubmissionInvariance, PTL

\* The authority can open and sign for all that its inbox holds, since a restart
\* takes the inbox along with the keys (msrc.py:127-138, crypto.py:185, 206).
THEOREM Inbox == Spec => []InboxIsUsable
<1>1. SubmissionInv => InboxIsUsable
  BY DEF SubmissionInv, Kept
<1> QED
  BY <1>1, SubmissionInvariance, PTL

\* What the backend remembers under a transaction was receipted under it
\* (researcher.py:134-139).
THEOREM Entries == Spec => []EntriesAreReceipted
<1>1. SubmissionInv => EntriesAreReceipted
  BY DEF SubmissionInv, Kept
<1> QED
  BY <1>1, SubmissionInvariance, PTL

\* The composed system runs the service as its own specification describes it.
THEOREM ServiceImplemented == Spec => ScittSpec
<1>1. Init => ScittInit
  BY DEF Init
<1> QED
  BY <1>1, ServiceStep, SubmissionInvariance, PTL DEF Spec, ScittSpec

\* So the service keeps within the whole what it promises by itself: a receipt
\* is unique, the ledger holds what was receipted, and between restarts no entry
\* of it is replaced (mock_scitt.py:66-73).
THEOREM ServiceWithin ==
    Spec => []ReceiptsAreUnique /\ []LedgerMatchesReceipts /\ LedgerIsAppendOnly
  BY ServiceImplemented, UniqueReceipts, LedgerCorrect, AppendOnly

-----------------------------------------------------------------------------
(* Transactions do not cross *)

\* Until the first restart a verified registration is in the ledger for good.
LEMMA RegisteredIsInLedger ==
    ASSUME SubmissionInv, scittKey = 0, NEW s \in Submissions, Registered(s)
    PROVE  /\ answered[s].txid \in Txids
           /\ ledger[answered[s].txid] # None
           /\ ledger[answered[s].txid].token = token[s]
<1> USE DEF SubmissionInv, Kept, IInv
<1> DEFINE r == answered[s].receipt
<1>1. r \in issued /\ r \in Receipts /\ r.txid = answered[s].txid /\ r.of = token[s]
  BY DEF Registered, RequestsAreTraced, Answers
<1>2. r.key = scittKey /\ r.txid \in Txids
  BY <1>1 DEF ReceiptsAreOfThePast, Receipts
<1>3. ledger[r.txid] = [token |-> r.of, receipt |-> r] /\ ledger[r.txid] \in Transparent \cup {None}
  BY <1>1, <1>2 DEF LedgerMatchesReceipts, ScittTypeOK
<1>4. [token |-> r.of, receipt |-> r] \in Transparent
  BY <1>1 DEF Transparent, Receipts
<1>5. ledger[r.txid] # None /\ ledger[r.txid].token = token[s]
  BY <1>1, <1>3, <1>4
<1> QED
  BY <1>1, <1>2, <1>5

\* If the service's answers are not mixed up, no step crosses what was not
\* crossed: numbers start over only with a new key.
LEMMA NextDoesNotCross ==
    ASSUME ~Faulty, SubmissionInv, TransactionsDoNotCross, [Next]_vars
    PROVE  TransactionsDoNotCross'
<1> SUFFICES ASSUME scittKey' = 0 PROVE TransactionsDoNotCross'
  BY DEF TransactionsDoNotCross
<1> DEFINE Own(s) == fetched[s] # None => fetched[s].token = token[s]
           Held(t) == entries[t] # None => ledger[t] # None /\ ledger[t].token = entries[t]
<1> USE DEF SubmissionInv, Kept, IInv, Types
<1>1. scittKey = 0 /\ \A t \in Txids : ledger[t] # None => ledger'[t] = ledger[t]
  <2>1. CASE UNCHANGED scittVars
    BY <2>1 DEF scittVars
  <2>2. ASSUME NEW s \in Submissions, Enter(s)
        PROVE  scittKey = 0 /\ \A t \in Txids : ledger[t] # None => ledger'[t] = ledger[t]
    BY <2>2, EnterIsFresh DEF Enter, ScittTypeOK
  <2>3. ~RestartScitt
    BY DEF RestartScitt, ScittTypeOK
  <2> QED
    BY <2>1, <2>2, <2>3, ServiceStep DEF ScittNext, Post, Check, Refuse, TakeNumber
<1>2. /\ \A s \in Submissions : Own(s)
      /\ \A t \in Txids : Held(t)
  BY <1>1 DEF TransactionsDoNotCross
<1>3. CASE UNCHANGED <<fetched, token, entries>>
  BY <1>1, <1>2, <1>3 DEF TransactionsDoNotCross, GatewayTypeOK
<1>4. ASSUME NEW s \in Submissions, IssueReport(s) PROVE TransactionsDoNotCross'
  <2>1. fetched[s] = None
    BY <1>4 DEF IssueReport, PagesAreInOrder
  <2> QED
    BY <1>1, <1>2, <1>4, <2>1 DEF IssueReport, gatewayVars, PageTypeOK, TransactionsDoNotCross
<1>5. ASSUME NEW s \in Submissions, Fetch(s) PROVE TransactionsDoNotCross'
  <2>1. Registered(s) /\ txid[s] = answered[s].txid
    BY <1>5 DEF Fetch, PagesAreInOrder
  <2>2. \A statement \in Retrievable(txid[s]) : statement.token = token[s]
    BY <1>1, <2>1, RegisteredIsInLedger DEF Retrievable
  <2> QED
    BY <1>1, <1>2, <1>5, <2>2
    DEF Fetch, FetchStatement, pageVars, GatewayTypeOK, TransactionsDoNotCross
<1>6. ASSUME NEW s \in Submissions, GatewayRecords(s) PROVE TransactionsDoNotCross'
  <2>1. Registered(s)
    BY <1>6 DEF GatewayRecords, RecordEntry, Goes, RequestsAreTraced
  <2>2. /\ ledger[answered[s].txid] # None
        /\ ledger[answered[s].txid].token = token[s]
    BY <1>1, <2>1, RegisteredIsInLedger
  <2> QED
    BY <1>1, <1>2, <1>6, <2>2
    DEF GatewayRecords, RecordEntry, GatewayTypeOK, TransactionsDoNotCross
<1>7. CASE ResearcherRestarts
  BY <1>1, <1>2, <1>7 DEF ResearcherRestarts, RestartGateway, TransactionsDoNotCross
<1>8. ASSUME NEW s \in Submissions,
             \/ OpenPage(s) \/ PageFails(s) \/ Register(s) \/ FetchMissing(s) \/ FetchPending(s)
             \/ Present(s) \/ PresentDiffers(s) \/ ServiceRegisters(s) \/ GatewayVerifies(s)
             \/ GatewayMatches(s) \/ GatewayRetrieves(s) \/ GatewayFails(s)
             \/ AuthorityInspects(s) \/ Complete(s)
      PROVE  UNCHANGED <<fetched, token, entries>>
  BY <1>8 DEF OpenPage, PageFails, Register, ForwardEntry, FetchMissing, FetchPending, Present,
              ForwardDelivery, PresentDiffers, ServiceRegisters, GatewayVerifies,
              VerifyRegistration, GatewayMatches, MatchStatement, GatewayRetrieves,
              VerifyRetrieval, GatewayFails, FailRequest, AuthorityInspects, Complete,
              ReturnDelivery, gatewayVars, pageVars
<1>9. CASE ServiceRestarts \/ AuthorityRestarts \/ UNCHANGED vars
  BY <1>3, <1>9 DEF ServiceRestarts, AuthorityRestarts, vars, gatewayVars, pageVars
<1> QED
  BY <1>3, <1>4, <1>5, <1>6, <1>7, <1>8, <1>9 DEF Next, Progress

\* With a service that answers what it was asked, no page is handed another
\* page's statement before the first restart, nor is the backend's memory ever
\* wrong, though it is keyed by the transaction alone (researcher.py:136, 165).
THEOREM NothingCrosses ==
    ASSUME ~Faulty
    PROVE  Spec => []TransactionsDoNotCross
<1>1. Init => TransactionsDoNotCross
  BY DEF Init, GatewayInit, TransactionsDoNotCross
<1>2. SubmissionInv /\ TransactionsDoNotCross /\ [Next]_vars => TransactionsDoNotCross'
  BY NextDoesNotCross
<1> QED
  BY <1>1, <1>2, SubmissionInvariance, PTL DEF Spec

-----------------------------------------------------------------------------
(* The services together implement the gate *)

\* The steps that the gate does not see, and those that fail one page.
LEMMA PageMapsToGate ==
    ASSUME SubmissionInv, NEW s \in Submissions, UNCHANGED <<issued, delivered>>,
           page[s] \notin {"done", "failed"},
           \E to : to # "done" /\ page' = [page EXCEPT ![s] = to]
    PROVE  [Gate!Next]_Gate!vars
<1> DEFINE Outcome(p) == IF p \in {"done", "failed"} THEN p ELSE "open"
           outcome == [x \in Submissions |-> Outcome(page[x])]
<1>1. PICK to : to # "done" /\ page' = [page EXCEPT ![s] = to]
  OBVIOUS
<1>2. page'[s] = to /\ \A x \in Submissions \ {s} : page'[x] = page[x]
  BY <1>1 DEF SubmissionInv, Kept, Types, PageTypeOK
<1>3. CASE to = "failed"
  <2>1. outcome[s] = "open"
    OBVIOUS
  <2>2. outcome' = [x \in Submissions |-> IF x \in {s} THEN "failed" ELSE outcome[x]]
    BY <1>2, <1>3
  <2>3. Gate!Fail({s})
    BY <2>1, <2>2 DEF Gate!Fail
  <2> QED
    BY <2>3 DEF Gate!Next
<1>4. CASE to # "failed"
  <2>1. outcome' = outcome
    BY <1>1, <1>2, <1>4
  <2> QED
    BY <2>1 DEF Gate!vars
<1> QED
  BY <1>3, <1>4

LEMMA NextMapsToGate ==
    ASSUME SubmissionInv, [Next]_vars
    PROVE  [Gate!Next]_Gate!vars
<1> USE DEF SubmissionInv, Kept, IInv, Types
<1>1. CASE UNCHANGED <<issued, delivered, page>>
  BY <1>1 DEF Gate!vars
<1>2. ASSUME NEW s \in Submissions,
             \/ OpenPage(s) \/ IssueReport(s) \/ PageFails(s) \/ Register(s)
             \/ FetchMissing(s) \/ FetchPending(s) \/ Present(s) \/ PresentDiffers(s)
             \/ GatewayRecords(s) \/ GatewayRetrieves(s) \/ GatewayFails(s)
      PROVE  [Gate!Next]_Gate!vars
  <2>1. UNCHANGED <<issued, delivered>>
    BY <1>2 DEF OpenPage, IssueReport, PageFails, Register, Post, FetchMissing, FetchPending,
                Present, Deliver, PresentDiffers, GatewayRecords, GatewayRetrieves, GatewayFails,
                scittVars, msrcVars
  <2>2. \/ page' = page
        \/ /\ page[s] \notin {"done", "failed"}
           /\ \E to : to # "done" /\ page' = [page EXCEPT ![s] = to]
    BY <1>2 DEF OpenPage, IssueReport, PageFails, Register, FetchMissing, FetchPending,
                Present, PresentDiffers, GatewayRecords, GatewayRetrieves, GatewayFails,
                Turns, Listening, Waiting
  <2> QED
    BY <1>1, <2>1, <2>2, PageMapsToGate
<1>3. ASSUME NEW s \in Submissions, ServiceRegisters(s) PROVE [Gate!Next]_Gate!vars
  <2>1. CASE Enter(s)
    <3>1. posted[s].by = s
      BY <2>1 DEF Enter, RequestsAreTraced, Signed
    <3>2. {r.of.by : r \in issued'} = {r.of.by : r \in issued} \cup {s}
      BY <2>1, <3>1 DEF Enter, NewReceipt
    <3>3. Gate!Register(s)
      BY <1>3, <3>2 DEF ServiceRegisters, msrcVars, pageVars, Gate!Register
    <3> QED
      BY <3>3 DEF Gate!Next
  <2> QED
    BY <1>1, <1>3, <2>1 DEF ServiceRegisters, Check, Refuse, TakeNumber, msrcVars, pageVars
<1>4. ASSUME NEW s \in Submissions, AuthorityInspects(s) PROVE [Gate!Next]_Gate!vars
  <2>1. CASE StoreDelivery(s)
    <3>1. /\ body[s].receipt \in issued /\ body[s].receipt.of.by = s
          /\ body[s].token.by = s
      BY <2>1 DEF StoreDelivery, DeliveriesAreVerified, Signed, Backed
    <3>2. s \in {r.of.by : r \in issued}
      BY <3>1
    <3>3. Item(s).digest.token.by = s
      BY <3>1 DEF Item
    <3>4. {i.digest.token.by : i \in delivered'} = {i.digest.token.by : i \in delivered} \cup {s}
      BY <2>1, <3>3 DEF StoreDelivery
    <3>5. Gate!Deliver(s)
      BY <1>4, <3>2, <3>4 DEF AuthorityInspects, scittVars, pageVars, Gate!Deliver
    <3> QED
      BY <3>5 DEF Gate!Next
  <2> QED
    BY <1>1, <1>4, <2>1
    DEF AuthorityInspects, InspectStatement, RefuseDelivery, scittVars, pageVars
<1>5. ASSUME NEW s \in Submissions, Complete(s) PROVE [Gate!Next]_Gate!vars
  <2>1. UNCHANGED <<issued, delivered>>
    BY <1>5 DEF Complete, scittVars, msrcVars
  <2>2. CASE page[s] = "delivering"
    <3> DEFINE outcome == [x \in Submissions |-> IF page[x] \in {"done", "failed"} THEN page[x]
                                                 ELSE "open"]
    <3>1. Item(s) \in delivered /\ Item(s).digest.token.by = s
      BY <1>5 DEF Complete, DeliveriesAreVerified, Item, Signed
    <3>2. s \in {i.digest.token.by : i \in delivered}
      BY <3>1
    <3>3. page' = [page EXCEPT ![s] = "done"]
      BY <1>5, <2>2 DEF Complete, Turns, Listening
    <3>4. outcome[s] = "open" /\ outcome' = [outcome EXCEPT ![s] = "done"]
      BY <2>2, <3>3 DEF PageTypeOK
    <3>5. Gate!Complete(s)
      BY <2>1, <3>2, <3>4 DEF Gate!Complete
    <3> QED
      BY <3>5 DEF Gate!Next
  <2>3. CASE page[s] # "delivering"
    BY <1>1, <1>5, <2>1, <2>3 DEF Complete, Turns, Listening
  <2> QED
    BY <2>2, <2>3
<1>6. CASE ResearcherRestarts
  <2> DEFINE outcome == [x \in Submissions |-> IF page[x] \in {"done", "failed"} THEN page[x]
                                               ELSE "open"]
  <2>1. UNCHANGED <<issued, delivered>>
    BY <1>6 DEF ResearcherRestarts, scittVars, msrcVars
  <2>2. PICK broken \in SUBSET Submissions :
               broken = {s \in Submissions : gwAt[s] # "idle" /\ page[s] \in Waiting}
    OBVIOUS
  <2>3. /\ \A s \in broken : outcome[s] = "open"
        /\ outcome' = [s \in Submissions |-> IF s \in broken THEN "failed" ELSE outcome[s]]
    BY <1>6, <2>2 DEF ResearcherRestarts, Waiting
  <2>4. Gate!Fail(broken)
    BY <2>1, <2>3 DEF Gate!Fail
  <2> QED
    BY <2>4 DEF Gate!Next
<1>7. ASSUME NEW s \in Submissions, Fetch(s) \/ GatewayVerifies(s) \/ GatewayMatches(s)
      PROVE  UNCHANGED <<issued, delivered, page>>
  BY <1>7 DEF Fetch, GatewayVerifies, GatewayMatches, scittVars, msrcVars, pageVars
<1>8. CASE ServiceRestarts \/ AuthorityRestarts \/ UNCHANGED vars
  BY <1>1, <1>8 DEF ServiceRestarts, RestartScitt, AuthorityRestarts, RestartMsrc, vars,
                    scittVars, msrcVars, pageVars
<1> QED
  BY <1>1, <1>2, <1>3, <1>4, <1>5, <1>6, <1>7, <1>8 DEF Next, Progress

\* The services together keep the researcher's gate: registered before it is
\* delivered, and delivered before it is called complete (README, "Researcher
\* completion gate"), for any number of submissions and restarts.
THEOREM GateImplemented == Spec => ImplementsGate
<1>1. Init => Gate!Init
  BY DEF Init, ScittInit, MsrcInit, Gate!Init
<1>2. SubmissionInv /\ [Next]_vars => [Gate!Next]_Gate!vars
  BY NextMapsToGate
<1> QED
  BY <1>1, <1>2, SubmissionInvariance, PTL DEF Spec, ImplementsGate, Gate!Spec
=============================================================================
