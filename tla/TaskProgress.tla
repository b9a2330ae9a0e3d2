---------------------------- MODULE TaskProgress ----------------------------
(***************************************************************************)
(* What the operator promises about a Task, without its caches, queues,    *)
(* conflicts, retries and restarts: the Task goes through its phases one   *)
(* at a time and never back, slices are booked in the order of their       *)
(* indexes while a slot is free, and only a slice that is booked, or is    *)
(* the very next to be booked, is ever recorded as finished.               *)
(***************************************************************************)
EXTENDS Naturals, FiniteSets

CONSTANTS MaxSlices, MaxCount, Unlimited

VARIABLES
    phase,     \* how far the Task is
    planned,   \* the number of slices
    running,   \* indexes of the slices that are booked
    done,      \* indexes of the slices that are recorded as finished
    records    \* how many completions are recorded, repeated ones included

progressVars == <<phase, planned, running, done, records>>

Phases == {"new", "split", "encoding", "encoded", "merged", "ready"}

\* Every slice before i has had its turn and i has not.
IsNext(i) == i \notin running \cup done /\ \A j \in 0 .. (i - 1) : j \in running \cup done

HasSlot == MaxCount # Unlimited => Cardinality(running) < MaxCount

Begin ==
    /\ phase = "new"
    /\ planned = 0
    /\ running = {}
    /\ done = {}
    /\ records = 0

SplitUp ==
    /\ phase = "new"
    /\ phase' = "split"
    /\ UNCHANGED <<planned, running, done, records>>

Plan ==
    /\ phase = "split"
    /\ planned' \in 1 .. MaxSlices
    /\ phase' = "encoding"
    /\ UNCHANGED <<running, done, records>>

\* A Task that is ready may be counted again, after its segments are removed.
Recount ==
    /\ phase = "ready"
    /\ planned' \in 1 .. (planned - 1)
    /\ UNCHANGED <<phase, running, done, records>>

Schedule ==
    /\ phase = "encoding"
    /\ HasSlot
    /\ \E i \in 0 .. (planned - 1) : IsNext(i) /\ running' = running \cup {i}
    /\ UNCHANGED <<phase, planned, done, records>>

Finish(i) ==
    /\ phase \notin {"new", "split"}
    /\ i \in running \cup done \/ (IsNext(i) /\ HasSlot)
    /\ running' = running \ {i}
    /\ done' = done \cup {i}
    /\ records' = records + 1
    /\ phase' = IF phase = "encoding" /\ records' >= planned THEN "encoded" ELSE phase
    /\ UNCHANGED planned

JoinUp ==
    /\ phase = "encoded"
    /\ phase' = "merged"
    /\ UNCHANGED <<planned, running, done, records>>

CleanUp ==
    /\ phase = "merged"
    /\ phase' = "ready"
    /\ UNCHANGED <<planned, running, done, records>>

Progress ==
    \/ SplitUp \/ Plan \/ Recount \/ Schedule
    \/ \E i \in 0 .. (MaxSlices - 1) : Finish(i)
    \/ JoinUp \/ CleanUp

ProgressSpec == Begin /\ [][Progress]_progressVars
=============================================================================
