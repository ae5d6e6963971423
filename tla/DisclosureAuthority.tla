------------------------- MODULE DisclosureAuthority -------------------------
(***************************************************************************)
(* MSRC's side of a submission (webapp/msrc.py): it endorses issuers, and  *)
(* takes into its inbox the deliveries whose statement, receipt and        *)
(* openings it has verified.  CA key, holder key and inbox live in memory. *)
(***************************************************************************)
EXTENDS Statements, Sequences

VARIABLES msrcKey,
          inbox,     \* newest first
          dlvAt,     \* where the handler of each submission's delivery is
          body,      \* what it was sent: a transparent statement, all openings
          delivered  \* history: every item ever put into the inbox

msrcVars == <<msrcKey, inbox, dlvAt, body, delivered>>

\* The item's digest stands for the delivered bytes.
Items == [txid : Txids, digest : Transparent]

MsrcTypeOK ==
    /\ msrcKey \in MsrcKeys
    /\ inbox \in Seq(Items)
    /\ dlvAt \in [Submissions -> {"idle", "inspecting", "inspected", "stored", "refused", "lost"}]
    /\ body \in [Submissions -> Transparent \cup {None}]
    /\ delivered \in SUBSET Items

MsrcInit ==
    /\ msrcKey = 0 /\ inbox = <<>>
    /\ dlvAt = [s \in Submissions |-> "idle"]
    /\ body = [s \in Submissions |-> None]
    /\ delivered = {}

\* The issuer is endorsed by the CA that runs now; cnf is what the page knows.
Endorsed(s, cnf) == [by |-> s, ca |-> msrcKey, cnf |-> cnf]

Deliver(s, statement) ==
    /\ dlvAt[s] = "idle"
    /\ dlvAt' = [dlvAt EXCEPT ![s] = "inspecting"]
    /\ body' = [body EXCEPT ![s] = statement]
    /\ UNCHANGED <<msrcKey, inbox, delivered>>

\* Mutant: only the receipt is verified.
InspectStatement_AnyHolder(s, trust) ==
    /\ dlvAt[s] = "inspecting"
    /\ VerifyTransparent(body[s], trust)
    /\ dlvAt' = [dlvAt EXCEPT ![s] = "inspected"]
    /\ UNCHANGED <<msrcKey, inbox, body, delivered>>

InspectStatement(s, trust) ==
    /\ dlvAt[s] = "inspecting"
    /\ VerifyStatement(body[s].token, msrcKey)
    /\ VerifyTransparent(body[s], trust)
    /\ dlvAt' = [dlvAt EXCEPT ![s] = "inspected"]
    /\ UNCHANGED <<msrcKey, inbox, body, delivered>>

\* Mutant: the handler ends in no answer at all.
RefuseDelivery_Unanswered(s) ==
    /\ dlvAt[s] = "inspecting"
    /\ dlvAt' = [dlvAt EXCEPT ![s] = None]
    /\ UNCHANGED <<msrcKey, inbox, body, delivered>>

\* A check fails, or the service did not answer with its key in time.
RefuseDelivery(s) ==
    /\ dlvAt[s] = "inspecting"
    /\ dlvAt' = [dlvAt EXCEPT ![s] = "refused"]
    /\ UNCHANGED <<msrcKey, inbox, body, delivered>>

Item(s) == [txid |-> body[s].receipt.txid, digest |-> body[s]]

StoreDelivery(s) ==
    /\ dlvAt[s] = "inspected"
    /\ inbox' = <<Item(s)>> \o inbox
    /\ delivered' = delivered \cup {Item(s)}
    /\ dlvAt' = [dlvAt EXCEPT ![s] = "stored"]
    /\ UNCHANGED <<msrcKey, body>>

RestartMsrc ==
    /\ msrcKey < MaxMsrcRestarts
    /\ msrcKey' = msrcKey + 1
    /\ inbox' = <<>>
    /\ dlvAt' = [s \in Submissions |->
                   IF dlvAt[s] \in {"inspecting", "inspected"} THEN "lost" ELSE dlvAt[s]]
    /\ UNCHANGED <<body, delivered>>
=============================================================================
