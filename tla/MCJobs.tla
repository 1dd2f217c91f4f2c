------------------------------- MODULE MCJobs -------------------------------
(* The disk and payloads of the runs of Jobs. *)
EXTENDS Jobs

MCInitDisks == {[a \in Addrs |-> 10 + a]}
MCNoImages == {}
MCPayload2 == {2}
MCPayload8 == {8}
=============================================================================
