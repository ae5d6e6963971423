----------------------------- MODULE Submission -----------------------------
(***************************************************************************)
(* A report's way from the researcher's page (static/app.js, with          *)
(* registration.js and sdcwt.js) through the researcher's backend to the   *)
(* transparency service and the disclosure authority.  Every submission is *)
(* one press of the button; different ones are of different pages, and     *)
(* their handlers interleave in every service.  A page has one request out *)
(* at a time, but one it has given up on runs on in the services.          *)
(***************************************************************************)
EXTENDS TransparencyService, ResearcherGateway, DisclosureAuthority

CONSTANT MaxAttempts  \* bound: polls of a statement that is pending (100 in the code)

ASSUME SubmissionAssumption == MaxAttempts \in Nat \ {0} /\ None \notin Transparent

VARIABLES page,      \* where the page's submit handler is
          config,    \* the authority's key when the page was loaded
          token,     \* the statement the browser signed
          txid,      \* the transaction its registration was answered with
          attempts,  \* how often its statement was still pending
          shown      \* the transaction the confirmation shows

pageVars == <<page, config, token, txid, attempts, shown>>
vars == <<scittVars, gatewayVars, msrcVars, pageVars>>

Waiting == {"registering", "fetching", "delivering"}

PageTypeOK ==
    /\ page \in [Submissions -> Waiting \cup
                   {"closed", "open", "issued", "presenting", "done", "failed"}]
    /\ config \in [Submissions -> MsrcKeys \cup {None}]
    /\ token \in [Submissions -> Tokens \cup {None}]
    /\ txid \in [Submissions -> Txids \cup {None}]
    /\ attempts \in [Submissions -> 0..MaxAttempts]
    /\ shown \in [Submissions -> Txids \cup {None}]

\* Types of every service's state and of the page's (State in each module).
TypeOK == ScittTypeOK /\ GatewayTypeOK /\ MsrcTypeOK /\ PageTypeOK

Init ==
    /\ ScittInit /\ GatewayInit /\ MsrcInit
    /\ page = [s \in Submissions |-> "closed"]
    /\ config = [s \in Submissions |-> None]
    /\ token = [s \in Submissions |-> None]
    /\ txid = [s \in Submissions |-> None]
    /\ attempts = [s \in Submissions |-> 0]
    /\ shown = [s \in Submissions |-> None]

\* The page goes on to "to" if it was still listening, with "from" the request
\* that is being answered; otherwise nobody reads the answer.
Listening(s, from) == page[s] = from
Turns(s, from, to) == page' = IF Listening(s, from) THEN [page EXCEPT ![s] = to] ELSE page

-----------------------------------------------------------------------------
(* The page *)

\* The authority's public keys are fetched once, when the page is loaded.
OpenPage(s) ==
    /\ page[s] = "closed"
    /\ page' = [page EXCEPT ![s] = "open"]
    /\ config' = [config EXCEPT ![s] = msrcKey]
    /\ UNCHANGED <<scittVars, gatewayVars, msrcVars, token, txid, attempts, shown>>

\* Submit: the issuer key is endorsed now, the holder key is the page's.
IssueReport(s) ==
    /\ page[s] = "open"
    /\ page' = [page EXCEPT ![s] = "issued"]
    /\ token' = [token EXCEPT ![s] = Endorsed(s, config[s])]
    /\ UNCHANGED <<scittVars, gatewayVars, msrcVars, config, txid, attempts, shown>>

Register(s) ==
    /\ page[s] = "issued"
    /\ page' = [page EXCEPT ![s] = "registering"]
    /\ ForwardEntry(s)
    /\ Post(s, token[s])
    /\ UNCHANGED <<msrcVars, config, token, txid, attempts, shown>>

\* A retrieval is answered 200 and goes on in the backend.
Fetch(s) ==
    /\ page[s] = "fetching"
    /\ \E statement \in Retrievable(txid[s]) : FetchStatement(s, statement)
    /\ UNCHANGED <<scittVars, msrcVars, pageVars>>

\* 404: the service was restarted and has not reached this number again.
FetchMissing(s) ==
    /\ page[s] = "fetching" /\ gwAt[s] = "idle"
    /\ ledger[txid[s]] = None
    /\ page' = [page EXCEPT ![s] = "failed"]
    /\ UNCHANGED <<scittVars, gatewayVars, msrcVars, config, token, txid, attempts, shown>>

\* 202 or 503: wait and ask again, a limited number of times.
FetchPending(s) ==
    /\ Merkle
    /\ page[s] = "fetching" /\ gwAt[s] = "idle"
    /\ attempts' = [attempts EXCEPT ![s] = @ + 1]
    /\ page' = IF attempts[s] + 1 = MaxAttempts THEN [page EXCEPT ![s] = "failed"] ELSE page
    /\ UNCHANGED <<scittVars, gatewayVars, msrcVars, config, token, txid, shown>>

\* Mutant: the backend's word is taken for the bytes.
Present_AnyBytes(s) ==
    /\ page[s] = "presenting"
    /\ page' = [page EXCEPT ![s] = "delivering"]
    /\ ForwardDelivery(s)
    /\ Deliver(s, fetched[s])
    /\ UNCHANGED <<scittVars, config, token, txid, attempts, shown>>

\* The browser compares the signed bytes with its own before it adds the openings.
Present(s) ==
    /\ page[s] = "presenting"
    /\ fetched[s].token = token[s]
    /\ page' = [page EXCEPT ![s] = "delivering"]
    /\ ForwardDelivery(s)
    /\ Deliver(s, fetched[s])
    /\ UNCHANGED <<scittVars, config, token, txid, attempts, shown>>

PresentDiffers(s) ==
    /\ page[s] = "presenting"
    /\ fetched[s].token # token[s]
    /\ page' = [page EXCEPT ![s] = "failed"]
    /\ UNCHANGED <<scittVars, gatewayVars, msrcVars, config, token, txid, attempts, shown>>

\* The endorsement fails, or the connection to the backend breaks: the page
\* shows the failure, and the request that is out, if any, runs on.
PageFails(s) ==
    /\ page[s] \in Waiting \cup {"open"}
    /\ page' = [page EXCEPT ![s] = "failed"]
    /\ UNCHANGED <<scittVars, gatewayVars, msrcVars, config, token, txid, attempts, shown>>

-----------------------------------------------------------------------------
(* The services *)

ServiceRegisters(s) ==
    /\ Check(s, msrcKey) \/ Refuse(s) \/ TakeNumber(s) \/ Enter(s)
    /\ UNCHANGED <<gatewayVars, msrcVars, pageVars>>

GatewayVerifies(s) ==
    /\ regAt[s] = "entered"
    /\ VerifyRegistration(s, token[s], answered[s], scittKey)
    /\ UNCHANGED <<scittVars, msrcVars, pageVars>>

GatewayRecords(s) ==
    /\ RecordEntry(s, token[s], answered[s].txid)
    /\ Turns(s, "registering", "fetching")
    /\ txid' = IF Listening(s, "registering")
               THEN [txid EXCEPT ![s] = answered[s].txid] ELSE txid
    /\ UNCHANGED <<scittVars, msrcVars, config, token, attempts, shown>>

GatewayMatches(s) ==
    /\ MatchStatement(s, txid[s])
    /\ UNCHANGED <<scittVars, msrcVars, pageVars>>

GatewayRetrieves(s) ==
    /\ VerifyRetrieval(s, txid[s], scittKey)
    /\ Turns(s, "fetching", "presenting")
    /\ UNCHANGED <<scittVars, msrcVars, config, token, txid, attempts, shown>>

AuthorityInspects(s) ==
    /\ InspectStatement(s, scittKey) \/ RefuseDelivery(s) \/ StoreDelivery(s)
    /\ UNCHANGED <<scittVars, gatewayVars, pageVars>>

\* Mutant: the answer does not wait for the inbox.
Complete_Early(s) ==
    /\ dlvAt[s] \in {"inspected", "stored"}
    /\ ReturnDelivery(s)
    /\ Turns(s, "delivering", "done")
    /\ shown' = IF Listening(s, "delivering") THEN [shown EXCEPT ![s] = Item(s).txid] ELSE shown
    /\ UNCHANGED <<scittVars, msrcVars, config, token, txid, attempts>>

Complete(s) ==
    /\ dlvAt[s] = "stored"
    /\ ReturnDelivery(s)
    /\ Turns(s, "delivering", "done")
    /\ shown' = IF Listening(s, "delivering") THEN [shown EXCEPT ![s] = Item(s).txid] ELSE shown
    /\ UNCHANGED <<scittVars, msrcVars, config, token, txid, attempts>>

\* Mutant: no timeout ends the wait for an authority that is gone.
GatewayFails_NoTimeout(s) ==
    /\ dlvAt[s] # "lost"
    /\ FailRequest(s)
    /\ page' = IF page[s] \in Waiting THEN [page EXCEPT ![s] = "failed"] ELSE page
    /\ UNCHANGED <<scittVars, msrcVars, config, token, txid, attempts, shown>>

GatewayFails(s) ==
    /\ FailRequest(s)
    /\ page' = IF page[s] \in Waiting THEN [page EXCEPT ![s] = "failed"] ELSE page
    /\ UNCHANGED <<scittVars, msrcVars, config, token, txid, attempts, shown>>

\* Every request in the backend breaks with it.
ResearcherRestarts ==
    /\ RestartGateway
    /\ page' = [s \in Submissions |->
                  IF gwAt[s] # "idle" /\ page[s] \in Waiting THEN "failed" ELSE page[s]]
    /\ UNCHANGED <<scittVars, msrcVars, config, token, txid, attempts, shown>>

ServiceRestarts == RestartScitt /\ UNCHANGED <<gatewayVars, msrcVars, pageVars>>

AuthorityRestarts == RestartMsrc /\ UNCHANGED <<scittVars, gatewayVars, pageVars>>

-----------------------------------------------------------------------------
\* What goes on by itself once the button was pressed.
Progress(s) ==
    \/ Register(s) \/ Fetch(s) \/ FetchMissing(s) \/ FetchPending(s)
    \/ Present(s) \/ PresentDiffers(s)
    \/ ServiceRegisters(s)
    \/ GatewayVerifies(s) \/ GatewayRecords(s) \/ GatewayMatches(s) \/ GatewayRetrieves(s)
    \/ GatewayFails(s)
    \/ AuthorityInspects(s) \/ Complete(s)

Next ==
    \/ \E s \in Submissions : OpenPage(s) \/ IssueReport(s) \/ PageFails(s) \/ Progress(s)
    \/ ResearcherRestarts \/ ServiceRestarts \/ AuthorityRestarts

Spec == Init /\ [][Next]_vars

\* Handlers run to their end and every upstream call has a timeout; neither
\* the researcher, nor a broken connection, nor a restart is owed.
FairSpec == Spec /\ \A s \in Submissions : WF_vars(Progress(s))

-----------------------------------------------------------------------------
(* Properties *)

\* The private openings leave the browser only with its own signed bytes and a
\* receipt that was signed for these bytes under the transaction the browser was
\* given, whatever the backend remembers and whoever restarted (README,
\* "Researcher completion gate"; sdcwt.js:82-92).
DisclosuresFollowVerification ==
    \A s \in Submissions : body[s] # None =>
        /\ body[s].token = token[s]
        /\ body[s].receipt \in issued
        /\ body[s].receipt.of = token[s]
        /\ body[s].receipt.txid = txid[s]

\* "Submission complete" is shown only for a report that reached the inbox, with
\* the transaction the page registered it under, and that was bound to one set
\* of the authority's keys: those the page was loaded with (app.js:101-108).
CompletionIsTrue ==
    \A s \in Submissions : page[s] = "done" =>
        /\ shown[s] = txid[s]
        /\ \E i \in delivered : i.txid = shown[s] /\ i.digest.token = token[s]
        /\ VerifyStatement(token[s], config[s])

\* Every statement in the inbox can be opened and signed for by the authority as
\* it runs now (crypto.py:185, 206), and was registered.
InboxIsUsable ==
    \A i \in 1..Len(inbox) :
        /\ VerifyStatement(inbox[i].digest.token, msrcKey)
        /\ inbox[i].digest.receipt \in issued
        /\ inbox[i].digest.receipt.of = inbox[i].digest.token

\* The backend remembers bytes under a transaction only if a receipt was signed
\* for them under that transaction (researcher.py:134-139).
EntriesAreReceipted ==
    \A t \in Txids : entries[t] # None => \E r \in issued : r.txid = t /\ r.of = entries[t]

\* Until the service restarts and hands out its numbers again, a page is never
\* handed another page's statement, nor does the backend remember other bytes
\* than the ledger holds, though it keys them by the transaction alone.
TransactionsDoNotCross ==
    scittKey = 0 =>
        /\ \A s \in Submissions : fetched[s] # None => fetched[s].token = token[s]
        /\ \A t \in Txids : entries[t] # None =>
               ledger[t] # None /\ ledger[t].token = entries[t]

\* A submission that was signed ends in a confirmation or an error: no page waits
\* for ever (registration.js:36, and the timeouts in researcher.py and http.py).
SubmissionEnds ==
    \A s \in Submissions : page[s] = "issued" ~> page[s] \in {"done", "failed"}

\* The services together implement the gate.
Gate == INSTANCE CompletionGate WITH
    registered <- {r.of.by : r \in issued},
    delivered <- {i.digest.token.by : i \in delivered},
    outcome <- [s \in Submissions |-> IF page[s] \in {"done", "failed"} THEN page[s] ELSE "open"]
ImplementsGate == Gate!Spec

\* What the page says when a submission failed: "Report was not submitted".
FailedMeansNotSubmitted ==
    \A s \in Submissions : page[s] = "failed" =>
        \A i \in delivered : i.digest.token.by # s
=============================================================================
