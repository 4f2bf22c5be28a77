---------------------------- MODULE MCSearchRun ----------------------------
(* Three text lines in two batches, two queries.  At most two images cannot *)
(* be loaded, at most one has no components, at most one text no page.     *)
EXTENDS SearchRun

CONSTANTS q1, q2

MCQuery   == <<q1, q2>>
MCBatches == <<[lower |-> 0, upper |-> 1], [lower |-> 2, upper |-> 9]>>

UpTo(n, S) == {T \in SUBSET S : Cardinality(T) <= n}

Images       == (0 .. 2) \cup {q1, q2}
MCUnreadable == UpTo(2, Images)
MCBlank      == UpTo(1, Images)
MCNoInfo     == UpTo(1, 0 .. 2)
=============================================================================
