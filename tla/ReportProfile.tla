---------------------------- MODULE ReportProfile ----------------------------
(***************************************************************************)
(* A report on its way through the profile: from the researcher's form     *)
(* into openings (webapp/static/report-profile.js, redactReport), through  *)
(* the authority's check of the schema (webapp/report.py, resolve_all) and *)
(* the choices its reviewer has (choicesFor), to what a verifier is shown  *)
(* of the openings selected (describe_selected).  An opening is named by   *)
(* its field and its place, 0 for the field itself.  Body text is taken    *)
(* as it is after normalisation, as a sequence of characters.              *)
(***************************************************************************)
EXTENDS Integers, SequencesExt

CONSTANTS Names,      \* of the fields of the profile
          Kind,       \* "field", "body", "reference" or "hidden"
          Type,       \* of a field: "text", "integer" or "hex"; of others anything
          Body, References,
          ChunkSize,  \* 6
          Reports,    \* bound: the reports entered, a value of each field or None
          HexStrings, \* those of an even number of hex digits
          Padding,    \* random bytes
          None

ASSUME ProfileAssumption ==
    /\ Body \in Names /\ References \in Names /\ Body # References
    /\ Kind \in [Names -> {"field", "body", "reference", "hidden"}]
    /\ \A n \in Names : (Kind[n] = "body" <=> n = Body) /\ (Kind[n] = "reference" <=> n = References)
    /\ \A n \in Names : Kind[n] = "hidden" => \A r \in Reports : r[n] = None
    /\ \A n \in {Body, References}, r \in Reports : r[n] # None => r[n] \in Seq(Range(r[n]))
    /\ ChunkSize \in Nat \ {0}

VARIABLES report,
          openings,  \* the value each opening holds
          body,      \* the body that the authority put together
          selected,  \* the choices that are signed
          view,      \* what the verifier is shown
          status

vars == <<report, openings, body, selected, view, status>>

Fields == {n \in Names : Kind[n] = "field"}

\* Mutant: the text is cut where a chunk would be full, and what remains is lost.
Chunks_Full(text) == [i \in 1..(Len(text) \div ChunkSize) |->
                         SubSeq(text, (i - 1) * ChunkSize + 1, i * ChunkSize)]

\* SubSeq with an end past the text's is what is there, as slice is.
Chunks(text) ==
    [i \in 1..((Len(text) + ChunkSize - 1) \div ChunkSize) |->
        SubSeq(text, (i - 1) * ChunkSize + 1, IF i * ChunkSize < Len(text) THEN i * ChunkSize ELSE Len(text))]

Absent(n) == Kind[n] = "hidden" \/ report[n] = None

\* The values of the openings inside a field, by place.
Parts(n) == IF Absent(n) \/ n \notin {Body, References} THEN <<>>
            ELSE IF n = Body THEN Chunks(report[n]) ELSE report[n]

Value(n) ==
    IF Absent(n) THEN [type |-> "bytes", of |-> Padding]
    ELSE IF n \in {Body, References} THEN [type |-> Kind[n], of |-> DOMAIN Parts(n)]
    ELSE [type |-> IF Type[n] = "hex" THEN "bytes" ELSE "plain", of |-> report[n]]

Issued == [o \in {<<n, 0>> : n \in Names} \cup UNION {{<<n, i>> : i \in DOMAIN Parts(n)} : n \in Names} |->
              IF o[2] = 0 THEN Value(o[1]) ELSE Parts(o[1])[o[2]]]

-----------------------------------------------------------------------------
(* The matcher on a report: what the openings P make of a field *)

Top(n) == openings[<<n, 0>>]

\* The places of the hashes inside it.
Places(n) == IF Top(n).type \in {"body", "reference"} THEN Top(n).of ELSE {}

Matched(n, P) == {i \in Places(n) : <<n, i>> \in P}

\* The places in their order.
InTurn(places) == [k \in 1..Cardinality(places) |->
                      CHOOSE i \in places : Cardinality(places \cap 1..i) = k]

\* A list is made of the elements that were opened, without gaps.
Listed(n, P) == LET places == InTurn(Matched(n, P))
                IN  [k \in DOMAIN places |-> openings[<<n, places[k]>>]]

AllMatched(P) == \A n \in Names : <<n, 0>> \in P /\ Matched(n, P) = Places(n)

\* What the review page offers, and of that what can be ticked.
Offered == {<<n, 0>> : n \in Fields}
           \cup UNION {{<<n, i>> : i \in Matched(n, DOMAIN openings)} : n \in {Body, References}}

\* Mutant: what was not given can be selected too.
Selectable_All == Offered

Selectable == {c \in Offered : c[2] = 0 => ~(Top(c[1]).type = "bytes" /\ Type[c[1]] # "hex")}

\* With a chunk or a reference goes the opening of the field it is in.
Presented == selected \cup {<<c[1], 0>> : c \in selected}

-----------------------------------------------------------------------------
Init == /\ report \in Reports
        /\ openings = <<>>
        /\ body = None /\ view = None
        /\ selected = {}
        /\ status = "form"

RedactReport ==
    /\ status = "form"
    /\ IF \A n \in Names : ~Absent(n) /\ Type[n] = "hex" => report[n] \in HexStrings
       THEN /\ status' = "issued"
            /\ openings' = Issued
       ELSE status' = "raised" /\ UNCHANGED openings
    /\ UNCHANGED <<report, body, selected, view>>

\* The chunks' keys have to be those of a range, and the body is the chunks in turn.
ResolveAll ==
    /\ status = "issued"
    /\ LET places == Matched(Body, DOMAIN openings) IN
       IF AllMatched(DOMAIN openings) /\ places = 1..Cardinality(places)
       THEN /\ status' = "accepted"
            /\ body' = IF Top(Body).type = "bytes" THEN None
                       ELSE FlattenSeq(Listed(Body, DOMAIN openings))
       ELSE status' = "refused" /\ UNCHANGED body
    /\ UNCHANGED <<report, openings, selected, view>>

Sign == /\ status = "accepted"
        /\ selected' \in SUBSET Selectable \ {{}}
        /\ status' = "signed"
        /\ UNCHANGED <<report, openings, body, view>>

\* Mutant: the chunks that were opened, one after the other.
BodyView_Gapless(P) == IF <<Body, 0>> \in P THEN Listed(Body, P) ELSE None

\* As many chunks as the body has hashes, those that were not opened left blank.
BodyView(P) == IF <<Body, 0>> \in P
               THEN [i \in Places(Body) |-> IF <<Body, i>> \in P THEN openings[<<Body, i>>] ELSE None]
               ELSE None

Described ==
    [fields |-> [n \in Fields |-> IF <<n, 0>> \in Presented THEN Top(n).of ELSE None],
     body |-> BodyView(Presented),
     references |-> IF <<References, 0>> \in Presented THEN Listed(References, Presented) ELSE None]

DescribeSelected ==
    /\ status = "signed"
    /\ status' = "shown"
    /\ view' = Described
    /\ UNCHANGED <<report, openings, body, selected>>

Next == RedactReport \/ ResolveAll \/ Sign \/ DescribeSelected

Spec == Init /\ [][Next]_vars

-----------------------------------------------------------------------------
Chosen(n) == {c[2] : c \in {s \in selected : s[1] = n}}

\* A report the form can make and issue passes the authority's schema check, which
\* puts the body together as it was entered, to the last character, from chunks
\* that are redacted one by one in any order (report-profile.js:19-26, report.py:41-47).
BodyComesTogether ==
    /\ status # "refused"
    /\ status \in {"accepted", "signed", "shown"} => body = report[Body]

\* Of each field of text the verifier is shown what was entered, if it was selected and
\* only then; an absent one cannot be selected (report-profile.js:150, report.py:63-68).
FieldsAreAsEntered ==
    status = "shown" =>
        \A n \in {m \in Fields : Type[m] # "hex"} :
            view.fields[n] = IF <<n, 0>> \in selected THEN report[n] ELSE None

\* A chunk is shown in its place and nowhere else, and where one was withheld a gap
\* shows (report.py:70-81); references close up, in their order (core.py:685-698).
PartsAreInPlace ==
    status = "shown" =>
        /\ Chosen(Body) # {} =>
               view.body = [i \in DOMAIN Chunks(report[Body]) |->
                               IF i \in Chosen(Body) THEN Chunks(report[Body])[i] ELSE None]
        /\ Chosen(References) # {} =>
               /\ Len(view.references) = Cardinality(Chosen(References))
               /\ \A i \in Chosen(References) :
                      view.references[Cardinality(Chosen(References) \cap 1..i)] = report[References][i]
        /\ Chosen(Body) = {} => view.body = None
        /\ Chosen(References) = {} => view.references = None

\* What was not provided is "Not provided" (msrc.js:32): no value of it is disclosed.
AbsentIsNotShown ==
    status = "shown" => \A n \in Fields : report[n] = None => view.fields[n] = None
=============================================================================
