------------------------- MODULE TransparencyService -------------------------
(***************************************************************************)
(* The transparency service (webapp/mock_scitt.py).  Registrations run in  *)
(* the server's thread pool, so they interleave; only the counter is under *)
(* the lock, and the entry is stored later.  A restart draws a new key and *)
(* forgets the ledger, whose numbers start over.                           *)
(*                                                                         *)
(* With Merkle the real service stands in its place (SCITT_CA is set): it  *)
(* is external, its policy is its own, and it is never restarted here.     *)
(***************************************************************************)
EXTENDS Statements

CONSTANTS Merkle,
          Faulty  \* whether answers may be mixed up on their way from the service

ASSUME TransparencyAssumption == Merkle \in BOOLEAN /\ Faulty \in BOOLEAN

VARIABLES scittKey, seqno,
          ledger,    \* state.entries
          regAt,     \* where the handler of each submission's POST is
          posted,    \* the body it was sent
          taken,     \* the number it took under the lock
          answered,  \* its 201 response: transaction header and receipt
          issued     \* history: every receipt ever signed

scittVars == <<scittKey, seqno, ledger, regAt, posted, taken, answered, issued>>

Answers == [txid : Txids, receipt : Receipts]

ScittTypeOK ==
    /\ scittKey \in ScittKeys
    /\ seqno \in 0..MaxSeqno
    /\ ledger \in [Txids -> Transparent \cup {None}]
    /\ regAt \in [Submissions ->
                    {"idle", "checking", "accepted", "numbered", "entered", "refused", "lost"}]
    /\ posted \in [Submissions -> Tokens \cup {None}]
    /\ taken \in [Submissions -> 0..MaxSeqno]
    /\ answered \in [Submissions -> Answers \cup {None}]
    /\ issued \in SUBSET Receipts

ScittInit ==
    /\ scittKey = 0 /\ seqno = 0
    /\ ledger = [t \in Txids |-> None]
    /\ regAt = [s \in Submissions |-> "idle"]
    /\ posted = [s \in Submissions |-> None]
    /\ taken = [s \in Submissions |-> 0]
    /\ answered = [s \in Submissions |-> None]
    /\ issued = {}

Post(s, token) ==
    /\ regAt[s] = "idle"
    /\ regAt' = [regAt EXCEPT ![s] = "checking"]
    /\ posted' = [posted EXCEPT ![s] = token]
    /\ UNCHANGED <<scittKey, seqno, ledger, taken, answered, issued>>

\* The authority's keys are fetched for each registration and checked against.
Check(s, msrcKey) ==
    /\ regAt[s] = "checking"
    /\ Merkle \/ VerifyStatement(posted[s], msrcKey)
    /\ regAt' = [regAt EXCEPT ![s] = "accepted"]
    /\ UNCHANGED <<scittKey, seqno, ledger, posted, taken, answered, issued>>

\* The check fails, or the authority did not answer in time.
Refuse(s) ==
    /\ regAt[s] = "checking"
    /\ regAt' = [regAt EXCEPT ![s] = "refused"]
    /\ UNCHANGED <<scittKey, seqno, ledger, posted, taken, answered, issued>>

\* Mutant: without the lock an increment can be lost.
TakeNumber_Unlocked(s) ==
    /\ regAt[s] = "accepted"
    /\ seqno < MaxSeqno
    /\ seqno' \in {seqno, seqno + 1}
    /\ taken' = [taken EXCEPT ![s] = seqno + 1]
    /\ regAt' = [regAt EXCEPT ![s] = "numbered"]
    /\ UNCHANGED <<scittKey, ledger, posted, answered, issued>>

\* The only step under the lock: no two registrations take the same number.
TakeNumber(s) ==
    /\ regAt[s] = "accepted"
    /\ seqno < MaxSeqno
    /\ seqno' = seqno + 1
    /\ taken' = [taken EXCEPT ![s] = seqno + 1]
    /\ regAt' = [regAt EXCEPT ![s] = "numbered"]
    /\ UNCHANGED <<scittKey, ledger, posted, answered, issued>>

NewReceipt(s) == [txid |-> taken[s], of |-> posted[s], key |-> scittKey]

\* The 201: the transaction in its header and its receipt.  With Faulty it may
\* be any other that could be sent.
Responses(s) ==
    {[txid |-> taken[s], receipt |-> NewReceipt(s)]}
    \cup [txid : IF Faulty THEN Txids ELSE {}, receipt : issued \cup {NewReceipt(s)}]

\* Mutant: the entry goes under the counter as it is after the lock.
Enter_LateNumber(s) ==
    /\ regAt[s] = "numbered"
    /\ issued' = issued \cup {NewReceipt(s)}
    /\ ledger' = [ledger EXCEPT ![seqno] = [token |-> posted[s], receipt |-> NewReceipt(s)]]
    /\ \E a \in Responses(s) : answered' = [answered EXCEPT ![s] = a]
    /\ regAt' = [regAt EXCEPT ![s] = "entered"]
    /\ UNCHANGED <<scittKey, seqno, posted, taken>>

\* Sign the receipt, store the transparent statement under the number, answer 201.
Enter(s) ==
    /\ regAt[s] = "numbered"
    /\ issued' = issued \cup {NewReceipt(s)}
    /\ ledger' = [ledger EXCEPT ![taken[s]] = [token |-> posted[s], receipt |-> NewReceipt(s)]]
    /\ \E a \in Responses(s) : answered' = [answered EXCEPT ![s] = a]
    /\ regAt' = [regAt EXCEPT ![s] = "entered"]
    /\ UNCHANGED <<scittKey, seqno, posted, taken>>

\* What the service may answer a retrieval with: its entry or, with Faulty, any
\* statement it was sent with any receipt.
Retrievable(t) ==
    ({ledger[t]} \ {None})
    \cup {[token |-> k, receipt |-> r] :
              k \in IF Faulty THEN {posted[s] : s \in Submissions} \ {None} ELSE {}, r \in issued}

\* Mutant: the ledger survives the key it was signed with.
RestartScitt_KeepsLedger ==
    /\ ~Merkle
    /\ scittKey < MaxScittRestarts
    /\ scittKey' = scittKey + 1
    /\ seqno' = 0
    /\ regAt' = [s \in Submissions |->
                   IF regAt[s] \in {"checking", "accepted", "numbered"} THEN "lost" ELSE regAt[s]]
    /\ UNCHANGED <<ledger, posted, taken, answered, issued>>

\* The process dies with its ledger and the handlers that have not answered.
RestartScitt ==
    /\ ~Merkle
    /\ scittKey < MaxScittRestarts
    /\ scittKey' = scittKey + 1
    /\ seqno' = 0
    /\ ledger' = [t \in Txids |-> None]
    /\ regAt' = [s \in Submissions |->
                   IF regAt[s] \in {"checking", "accepted", "numbered"} THEN "lost" ELSE regAt[s]]
    /\ UNCHANGED <<posted, taken, answered, issued>>

-----------------------------------------------------------------------------
\* The service by itself, under any requests and any keys of the authority.
ScittNext ==
    \/ \E s \in Submissions :
           \/ \E token \in Tokens : Post(s, token)
           \/ \E msrcKey \in MsrcKeys : Check(s, msrcKey)
           \/ Refuse(s) \/ TakeNumber(s) \/ Enter(s)
    \/ RestartScitt

ScittSpec == ScittInit /\ [][ScittNext]_scittVars

\* A receipt means something: under one signing key a transaction id names one
\* statement, however many registrations run at once (mock_scitt.py:66-69).
ReceiptsAreUnique ==
    \A r1, r2 \in issued : r1.txid = r2.txid /\ r1.key = r2.key => r1 = r2

\* What the ledger holds for a transaction is the statement that the receipt for
\* it was signed for, and every receipt of the running service is in the ledger.
LedgerMatchesReceipts ==
    /\ \A t \in Txids : ledger[t] # None =>
           /\ ledger[t].receipt \in issued
           /\ ledger[t].receipt.txid = t
           /\ VerifyTransparent(ledger[t], scittKey)
    /\ \A r \in issued : r.key = scittKey =>
           ledger[r.txid] = [token |-> r.of, receipt |-> r]

\* Between restarts an entry is never replaced or removed (mock_scitt.py:70).
LedgerIsAppendOnly ==
    [][scittKey' = scittKey =>
          \A t \in Txids : ledger[t] # None => ledger'[t] = ledger[t]]_scittVars
=============================================================================
