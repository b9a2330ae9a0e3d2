--------------------------- MODULE MCTaskOperator ---------------------------
(* TaskOperator for TLC: specifications that begin in a later, reachable   *)
(* state, so that a run can spend its states on the part it is about.      *)
EXTENDS TaskOperatorInv

\* The source is split and counted, every event is handled but the last one.
Counted == [NewTask EXCEPT !.split = TRUE, !.counted = TRUE, !.planned = MaxSlices]

CountedInit ==
    /\ task = Counted /\ events = <<>> /\ cache = Counted
    /\ jobs = [job \in Jobs |-> IF job \in {Split, Count} THEN "complete" ELSE "none"]
    /\ taskQueued = TRUE
    /\ tPc = "idle" /\ tTask = NewTask /\ tFresh = FALSE /\ tErr = FALSE
    /\ jobQueue = {}
    /\ jPc = "idle" /\ jJob = Split /\ jTask = NewTask /\ jFresh = FALSE
    /\ faults = 0 /\ restarts = 0 /\ resyncs = 0 /\ revisits = 0

CountedSpec == CountedInit /\ [][Next]_vars

FairCountedSpec == CountedSpec /\ Fairness
=============================================================================
