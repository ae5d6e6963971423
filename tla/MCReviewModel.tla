---------------------------- MODULE MCReviewModel ----------------------------
EXTENDS ReviewModel, TLC

CONSTANTS f1, f2

\* A title, two chunks of the body, a reference; f2 has padding for a title
\* (so no such choice) and no references.
MCFiles == {f1, f2}
MCChoiceIds == {"title", "chunk0", "chunk1", "ref0"}
MCChoicesOf == (f1 :> MCChoiceIds) @@ (f2 :> {"title", "chunk0"})
MCDisabled == (f1 :> {}) @@ (f2 :> {"title"})
MCKind == ("title" :> "field") @@ ("chunk0" :> "body") @@ ("chunk1" :> "body")
          @@ ("ref0" :> "reference")
MCAudiences == {"", " ", "a", "a "}
MCTrim == ("" :> "") @@ (" " :> "") @@ ("a" :> "a") @@ ("a " :> "a")
=============================================================================
