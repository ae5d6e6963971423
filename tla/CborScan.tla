------------------------------ MODULE CborScan ------------------------------
(***************************************************************************)
(* The strict pass over untrusted CBOR (sd_cwt/core.py, _scan_cbor and     *)
(* _check_cbor).  Data is a sequence of item headers; what the recursion   *)
(* keeps on the call stack is a sequence of frames.  The grammar at the    *)
(* end says which sequences are one conformant item.                       *)
(***************************************************************************)
EXTENDS Integers, Sequences

CONSTANTS Headers,   \* records: mt, arg, val (what it decodes to), key (may be a map key)
          MaxLength, \* bound: headers of the data
          MaxDepth   \* 16

ASSUME ScanAssumption ==
    /\ \A h \in Headers :
           /\ h.mt \in {"scalar", "cut", "array", "map", "tag", "indefinite"}
           /\ h.arg \in Nat /\ h.key \in BOOLEAN
           /\ h.key => h.mt \in {"scalar", "cut"}
    /\ MaxLength \in Nat /\ MaxDepth \in Nat

VARIABLES data,
          off,     \* the header that is read next
          frames,  \* calls that are not done: of what, items to come, keys seen
          verdict

vars == <<data, off, frames, verdict>>

Init == /\ data \in UNION {[1..n -> Headers] : n \in 0..MaxLength}
        /\ off = 1
        /\ frames = <<[of |-> "array", left |-> 1, seen |-> {}]>>
        /\ verdict = "open"

Top == frames[Len(frames)]
\* The first frame is _check_cbor's.
Depth == Len(frames) - 1
IsKey == Top.of = "map" /\ Top.left % 2 = 0
Wants == verdict = "open" /\ frames # <<>> /\ Top.left > 0

\* Mutant: the depth is checked one level too late.
Readable_Deep == Depth <= MaxDepth + 1 /\ off <= Len(data) /\ data[off].mt # "indefinite"

Readable == Depth <= MaxDepth /\ off <= Len(data) /\ data[off].mt # "indefinite"

\* Mutant: keys are compared as they are written.
KeyAllowed_Bytes(h) == h.key /\ h.mt # "cut" /\ h \notin Top.seen

\* A key must be of a key's type and decode to one that this map has not had.
KeyAllowed(h) == h.key /\ h.mt # "cut" /\ \A k \in Top.seen : k.val # h.val

Admitted == Readable /\ (IsKey => KeyAllowed(data[off]))

\* The frames once the item h of the innermost call is under way.
Counted(h) ==
    [frames EXCEPT ![Len(frames)] =
        [Top EXCEPT !.left = @ - 1, !.seen = IF IsKey THEN @ \cup {h} ELSE @]]

\* A tag is no level and no item of its own.
ScanTag == /\ Wants /\ Admitted
           /\ data[off].mt = "tag"
           /\ off' = off + 1
           /\ UNCHANGED <<data, frames, verdict>>

\* Content that is cut off takes the offset past the end of the data.
ScanScalar == /\ Wants /\ Admitted
              /\ data[off].mt \in {"scalar", "cut"}
              /\ off' = IF data[off].mt = "cut" THEN Len(data) + 2 ELSE off + 1
              /\ frames' = Counted(data[off])
              /\ UNCHANGED <<data, verdict>>

ScanContainer == /\ Wants /\ Admitted
                 /\ data[off].mt \in {"array", "map"}
                 /\ off' = off + 1
                 /\ frames' = Append(Counted(data[off]),
                        [of |-> data[off].mt, seen |-> {},
                         left |-> IF data[off].mt = "map" THEN 2 * data[off].arg ELSE data[off].arg])
                 /\ UNCHANGED <<data, verdict>>

Reject == /\ Wants
          /\ ~Admitted
          /\ verdict' = "rejected"
          /\ UNCHANGED <<data, off, frames>>

Return == /\ verdict = "open" /\ frames # <<>> /\ Top.left = 0
          /\ frames' = SubSeq(frames, 1, Len(frames) - 1)
          /\ UNCHANGED <<data, off, verdict>>

CheckEnd == /\ verdict = "open" /\ frames = <<>>
            /\ verdict' = IF off = Len(data) + 1 THEN "accepted" ELSE "rejected"
            /\ UNCHANGED <<data, off, frames>>

Next == ScanTag \/ ScanScalar \/ ScanContainer \/ Reject \/ Return \/ CheckEnd

Spec == Init /\ [][Next]_vars

-----------------------------------------------------------------------------
(* One conformant item, by its grammar, without stack, offset or state *)

Positions(d) == 1..(Len(d) + 1)

\* Where n parts in a row, from i up to j, may meet.
Cuts(d, i, j, n) == {c \in [0..n -> Positions(d)] : c[0] = i /\ c[n] = j}

\* n items in a row; L says of each position where an item from there on may end.
AreItems(d, i, j, n, L) == \E c \in Cuts(d, i, j, n) : \A k \in 1..n : c[k] \in L[c[k - 1]]

Keyed(d, i) == i <= Len(d) /\ d[i].mt = "scalar" /\ d[i].key

\* n items in a row with a key before each, no two keys of one value.
AreEntries(d, i, j, n, L) ==
    \E c \in Cuts(d, i, j, n) :
        /\ \A k \in 1..n : Keyed(d, c[k - 1]) /\ c[k] \in L[c[k - 1] + 1]
        /\ \A k, m \in 1..n : d[c[k - 1]].val = d[c[m - 1]].val => k = m

IsContent(d, i, j, L) == \/ d[i].mt = "scalar" /\ j = i + 1
                         \/ d[i].mt = "array" /\ AreItems(d, i + 1, j, d[i].arg, L)
                         \/ d[i].mt = "map" /\ AreEntries(d, i + 1, j, d[i].arg, L)

\* Where an item ends, given where those inside it end: its content is behind its tags.
Around(d, L) == [i \in Positions(d) |->
                    {j \in Positions(d) : \E t \in i..(j - 1) : /\ \A u \in i..(t - 1) : d[u].mt = "tag"
                                                              /\ IsContent(d, t, j, L)}]

\* The same for items of up to so many levels.
Ends(d) == LET E[levels \in 0..(MaxDepth + 1)] ==
                   IF levels = 0 THEN [i \in Positions(d) |-> {}] ELSE Around(d, E[levels - 1])
           IN  E

IsOneItem(d) == Len(d) + 1 \in Ends(d)[MaxDepth + 1][1]

\* Types of the scan's locals, and the bound on its containers (core.py:326, 341).
TypeOK == /\ off \in 1..(Len(data) + 2)
          /\ Len(frames) <= MaxDepth + 2
          /\ \A i \in 1..Len(frames) : frames[i].of \in {"array", "map"} /\ frames[i].left \in Nat
          /\ verdict \in {"open", "accepted", "rejected"}

\* The pass accepts exactly one conformant item and nothing else: no trailing or
\* missing bytes, no map with a key twice however it is encoded, no nesting below
\* the limit where a tag is no level (core.py:329-334, 395-398).
ScanIsExact == verdict # "open" => (verdict = "accepted" <=> IsOneItem(data))
=============================================================================
