----------------------------- MODULE MCCborScan -----------------------------
EXTENDS CborScan

H(mt, arg, val, key) == [mt |-> mt, arg |-> arg, val |-> val, key |-> key]

\* Two keys, one of them in two encodings, a float, a string longer than the
\* data, containers of none to two, a tag, and an item of indefinite length.
MCHeaders == {H("scalar", 0, "one", TRUE), H("scalar", 1, "one", TRUE), H("scalar", 0, "two", TRUE),
              H("scalar", 0, "float", FALSE), H("cut", 9, "text", TRUE), H("array", 1, "", FALSE),
              H("array", 2, "", FALSE), H("map", 0, "", FALSE), H("map", 1, "", FALSE),
              H("map", 2, "", FALSE), H("tag", 60, "", FALSE), H("indefinite", 0, "", FALSE)}
=============================================================================
