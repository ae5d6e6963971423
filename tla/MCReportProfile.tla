--------------------------- MODULE MCReportProfile ---------------------------
EXTENDS ReportProfile

MCNames == {"parent", "title", "fingerprint", "patch_date", "body", "references"}
MCKind == [n \in MCNames |-> CASE n = "parent" -> "hidden" [] n = "body" -> "body"
                               [] n = "references" -> "reference" [] OTHER -> "field"]
MCType == [n \in MCNames |-> CASE n = "parent" -> "padding" [] n = "fingerprint" -> "hex"
                               [] n = "patch_date" -> "integer" [] n = "references" -> "references"
                               [] OTHER -> "text"]

\* Bodies of a part of a chunk, of one, of one and a part, and of two alike.
MCReports ==
    {[n \in MCNames |-> CASE n = "title" -> t [] n = "fingerprint" -> f [] n = "patch_date" -> d
                          [] n = "body" -> b [] n = "references" -> r [] OTHER -> None] :
        t \in {None, "a title"}, f \in {None, "f59f", "f59"}, d \in {None, "a date"},
        b \in {None, <<"a">>, <<"a", "b">>, <<"a", "b", "c">>, <<"a", "b", "a", "b">>},
        r \in {None, <<"r">>, <<"r", "s">>, <<"s", "r", "s">>}}
=============================================================================
