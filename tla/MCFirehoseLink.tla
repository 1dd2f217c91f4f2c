--------------------------- MODULE MCFirehoseLink ---------------------------
(* Model values and bounds for the runs of FirehoseLink. *)
EXTENDS FirehoseLink
CONSTANTS a, b

MCVals == {a, b}
MCOneVal == {a}
MCAllStyles == BOOLEAN \X BOOLEAN
MCOneStyle == {<<TRUE, FALSE>>}
MCTwoStyles == {<<TRUE, FALSE>>, <<FALSE, TRUE>>}
MCInitDisks == {[s \in Sectors |-> IF s = 1 THEN a ELSE Zero]}
=============================================================================
