-------------------------- MODULE ResearcherGateway --------------------------
(***************************************************************************)
(* The researcher's backend (webapp/researcher.py): it forwards a browser's*)
(* registration, retrieval and delivery, and lets the first two through    *)
(* only when their receipts verify.  What it remembers of a registration   *)
(* (state.entries) is in memory, under the transaction id alone.           *)
(***************************************************************************)
EXTENDS Statements

VARIABLES entries,  \* state.entries: the bytes registered under each transaction
          gwAt,     \* where the handler of each submission's current request is
          fetched   \* the transparent statement a retrieval was answered with

gatewayVars == <<entries, gwAt, fetched>>

GatewayTypeOK ==
    /\ entries \in [Txids -> Tokens \cup {None}]
    /\ gwAt \in [Submissions ->
                   {"idle", "forwarding", "recording", "matching", "trusting", "proxying"}]
    /\ fetched \in [Submissions -> Transparent \cup {None}]

GatewayInit ==
    /\ entries = [t \in Txids |-> None]
    /\ gwAt = [s \in Submissions |-> "idle"]
    /\ fetched = [s \in Submissions |-> None]

Goes(s, from, to) == gwAt[s] = from /\ gwAt' = [gwAt EXCEPT ![s] = to]

ForwardEntry(s) == Goes(s, "idle", "forwarding") /\ UNCHANGED <<entries, fetched>>

\* Mutant: the response header is believed.
VerifyRegistration_AnyHeader(s, token, answer, trust) ==
    /\ Goes(s, "forwarding", "recording")
    /\ VerifyReceipt(answer.receipt, token, trust)
    /\ UNCHANGED <<entries, fetched>>

\* A 201 came back; its receipt is checked with the service's key as it is now.
VerifyRegistration(s, token, answer, trust) ==
    /\ Goes(s, "forwarding", "recording")
    /\ VerifyReceipt(answer.receipt, token, trust)
    /\ answer.receipt.txid = answer.txid
    /\ UNCHANGED <<entries, fetched>>

\* Remember the bytes and answer 201 with x-receipt-verified.
RecordEntry(s, token, txid) ==
    /\ Goes(s, "recording", "idle")
    /\ entries' = [entries EXCEPT ![txid] = token]
    /\ UNCHANGED fetched

\* The service answered a retrieval with 200 and this statement.
FetchStatement(s, statement) ==
    /\ Goes(s, "idle", "matching")
    /\ fetched' = [fetched EXCEPT ![s] = statement]
    /\ UNCHANGED entries

MatchStatement(s, txid) ==
    /\ Goes(s, "matching", "trusting")
    /\ entries[txid] # None
    /\ fetched[s].token = entries[txid]
    /\ UNCHANGED <<entries, fetched>>

\* Mutant: only the bytes are compared, the embedded receipt is not verified.
VerifyRetrieval_AnyReceipt(s, txid, trust) ==
    /\ Goes(s, "trusting", "idle")
    /\ UNCHANGED <<entries, fetched>>

VerifyRetrieval(s, txid, trust) ==
    /\ Goes(s, "trusting", "idle")
    /\ VerifyTransparent(fetched[s], trust)
    /\ fetched[s].receipt.txid = txid
    /\ UNCHANGED <<entries, fetched>>

ForwardDelivery(s) == Goes(s, "idle", "proxying") /\ UNCHANGED <<entries, fetched>>

ReturnDelivery(s) == Goes(s, "proxying", "idle") /\ UNCHANGED <<entries, fetched>>

\* The handler ends in an error answer: a check failed, the upstream refused,
\* broke the connection or took longer than the timeout.  Once a registration
\* has been verified only the process's end can keep it from being recorded.
FailRequest(s) ==
    /\ gwAt[s] \notin {"idle", "recording"}
    /\ gwAt' = [gwAt EXCEPT ![s] = "idle"]
    /\ UNCHANGED <<entries, fetched>>

RestartGateway ==
    /\ entries' = [t \in Txids |-> None]
    /\ gwAt' = [s \in Submissions |-> "idle"]
    /\ UNCHANGED fetched
=============================================================================
