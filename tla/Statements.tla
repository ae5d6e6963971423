----------------------------- MODULE Statements -----------------------------
(***************************************************************************)
(* The signed artifacts the roles exchange, and the state-free checks that *)
(* all of them share (webapp/crypto.py).  Signatures are ideal: whoever    *)
(* holds a key is the only one to sign with it, and a digest names what it *)
(* was taken of.  A process draws its keys when it starts, so its keys are *)
(* named by how many times it was restarted.                               *)
(***************************************************************************)
EXTENDS Naturals

CONSTANTS Submissions,       \* presses of the researcher's submit button
          MaxSeqno,          \* bound: transaction numbers of the ledger
          MaxMsrcRestarts,   \* bound: restarts of the disclosure authority
          MaxScittRestarts,  \* bound: restarts of the transparency service
          None               \* a value that is absent

ASSUME StatementsAssumption ==
    /\ MaxSeqno \in Nat
    /\ MaxMsrcRestarts \in Nat
    /\ MaxScittRestarts \in Nat

Txids == 1..MaxSeqno
MsrcKeys == 0..MaxMsrcRestarts     \* CA key and holder key, drawn together
ScittKeys == 0..MaxScittRestarts   \* receipt signing key

\* A fully redacted statement as the browser signed it: its submission, the CA
\* that endorsed the issuer and the holder key in cnf.  Its salts are fresh, so
\* no two submissions share one.
Tokens == [by : Submissions, ca : MsrcKeys, cnf : MsrcKeys]

Receipts == [txid : Txids, of : Tokens, key : ScittKeys]

\* A statement with its receipt in the unprotected header.
Transparent == [token : Tokens, receipt : Receipts]

\* The issuer chain and did:x509 lead to this CA.
IssuedUnder(token, caKey) == token.ca = caKey

\* The same for the authority itself, whose holder key has to be in cnf.
VerifyStatement(token, msrcKey) == IssuedUnder(token, msrcKey) /\ token.cnf = msrcKey

VerifyReceipt(receipt, token, trust) == receipt.key = trust /\ receipt.of = token

VerifyTransparent(statement, trust) == VerifyReceipt(statement.receipt, statement.token, trust)
=============================================================================
