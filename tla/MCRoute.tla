------------------------------ MODULE MCRoute ------------------------------
(* The route table with seven slots.  The homes are those keyToIndex can    *)
(* give: 0, 1, MAXROUTE - 2 and MAXROUTE - 1.                               *)
EXTENDS FenglingRoute, TLC

CONSTANTS ca, w1, w2, c1, c2, c3, c4, c5, a, b, h, e, k

MCProcs == {ca, w1, w2}
MCWorkers == {w1, w2}

\* Client a opens its two tunnels and a third, b one: in the two slots they can
\* be in, one of them wraps around, and another is refused.  Nobody registers h.
FairSubdomains == {a, b, h}
FairStored == [n \in FairSubdomains |-> n]
FairHome == (a :> 1) @@ (b :> 1) @@ (h :> 6)
FairSub == (c1 :> a) @@ (c2 :> a) @@ (c3 :> a) @@ (c4 :> b)
FairTotal == (c1 :> 2) @@ (c2 :> 2) @@ (c3 :> 2) @@ (c4 :> 1)

\* b stands for a name of 25 characters whose first 19 are the name a: it is
\* stored as a, and hashed to another home.  h fits in the last slot of the table,
\* e behind it, and k runs off the page.
LongSubdomains == {a, b, h, e, k}
LongFits == LongSubdomains \ {b}
LongStored == [n \in LongSubdomains |-> IF n = b THEN a ELSE n]
LongHome == (a :> 1) @@ (b :> 1) @@ (h :> 6) @@ (e :> 6) @@ (k :> 6)
LongSub == (c1 :> a) @@ (c2 :> h) @@ (c3 :> b) @@ (c4 :> h) @@ (c5 :> e)
LongTotal == [c \in {c1, c2, c3, c4, c5} |-> IF c = c2 THEN 1 ELSE 2]
=============================================================================
