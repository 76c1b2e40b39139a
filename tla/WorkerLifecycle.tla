--------------------------- MODULE WorkerLifecycle ---------------------------
(***************************************************************************)
(* The worker-proxy lifecycle that the worker control promises: a proxy    *)
(* is created NEW, moves between ASSIGNED and IDLE while it is used, may   *)
(* then be EXITING or TIMED_OUT (at most one of them) and ends EXITED.     *)
(* A state path is a subsequence of                                        *)
(*   NEW -> (ASSIGNED <-> IDLE)* -> (EXITING | TIMED_OUT)? -> EXITED       *)
(* and EXITED is terminal.  "NONE" stands for a proxy not created yet.     *)
(***************************************************************************)
EXTENDS Naturals

CONSTANT Workers

VARIABLE wstate

\* The phase of a state along the path above.
Phase(s) ==
    CASE s = "NONE"                     -> 0
      [] s = "NEW"                      -> 1
      [] s \in {"ASSIGNED", "IDLE"}     -> 2
      [] s \in {"EXITING", "TIMED_OUT"} -> 3
      [] s = "EXITED"                   -> 4

LInit == wstate = [w \in Workers |-> "NONE"]

\* A proxy is created in NEW.
Create(w) ==
    /\ wstate[w] = "NONE"
    /\ wstate' = [wstate EXCEPT ![w] = "NEW"]

\* Any later state of the path, skipping phases, or a move within the
\* ASSIGNED <-> IDLE phase.
Advance(w) ==
    \E s \in {"ASSIGNED", "IDLE", "EXITING", "TIMED_OUT", "EXITED"} :
        /\ wstate[w] # "NONE"
        /\ \/ Phase(s) > Phase(wstate[w])
           \/ Phase(s) = 2 /\ Phase(wstate[w]) = 2
        /\ wstate' = [wstate EXCEPT ![w] = s]

LNext == \E w \in Workers : Create(w) \/ Advance(w)

LSpec == LInit /\ [][LNext]_wstate
==============================================================================
