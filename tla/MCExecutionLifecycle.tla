------------------------ MODULE MCExecutionLifecycle ------------------------
(* Finite instance of ExecutionLifecycle for TLC. *)
EXTENDS ExecutionLifecycle

\* Bound: an execution is cancelled or retried by its client, not both; when a
\* retried one also meets a fault, the workers take turns.
Within ==
    /\ bounds.cancels + bounds.retries <= 1
    /\ bounds.retries + bounds.faults <= 1 \/ Cardinality({w \in Workers : Busy(w)}) <= 1

MCNext == Next /\ Within'

MCFairSpec == Init /\ [][MCNext]_vars /\ \A w \in Workers : WF_vars(WorkerStep(w))
=============================================================================
