----------------------------- MODULE LeaseQueue -----------------------------
(***************************************************************************)
(* What a user of the executor_jobs table may rely on, without attempts,   *)
(* clocks or worker processes: a job is absent, to do, leased to a worker, *)
(* parked (failed or dead) or done.  A lease ends because the job is       *)
(* settled or because the queue takes the lease back; that nobody but the  *)
(* holder settles it is for the user to show, who knows his invocations.   *)
(* Only a new submission revives a parked job, and a done job stays done.  *)
(***************************************************************************)
CONSTANTS Jobs,      \* the dedupe keys of executor_jobs
          Workers,   \* the values of locked_by
          None       \* SQL NULL

VARIABLES phase,     \* phase[j]: where job j stands
          holder     \* holder[j]: the worker the job is leased to, or None

vars == <<phase, holder>>

Phases == {"absent", "todo", "leased", "parked", "done"}

TypeOK == /\ phase \in [Jobs -> Phases]
          /\ holder \in [Jobs -> Workers \cup {None}]

Init == /\ phase = [j \in Jobs |-> "absent"]
        /\ holder = [j \in Jobs |-> None]

Submit(j) == /\ phase[j] \in {"absent", "parked"}
             /\ phase' = [phase EXCEPT ![j] = "todo"]
             /\ UNCHANGED holder

\* One worker takes a batch of jobs.
Take(S, w) == /\ \A j \in S : phase[j] = "todo"
              /\ phase' = [j \in Jobs |-> IF j \in S THEN "leased" ELSE phase[j]]
              /\ holder' = [j \in Jobs |-> IF j \in S THEN w ELSE holder[j]]

\* A leased job is reported done, given back or parked.
Settle(j, p) == /\ phase[j] = "leased"
                /\ p \in {"done", "todo", "parked"}
                /\ phase' = [phase EXCEPT ![j] = p]
                /\ holder' = [holder EXCEPT ![j] = None]

\* The queue takes back the leases of a set of jobs and parks some of them.
Lapse(S, parked) ==
  /\ \A j \in S : phase[j] = "leased"
  /\ phase' = [j \in Jobs |-> IF j \notin S THEN phase[j]
                              ELSE IF j \in parked THEN "parked" ELSE "todo"]
  /\ holder' = [j \in Jobs |-> IF j \in S THEN None ELSE holder[j]]

Next == \/ \E j \in Jobs : Submit(j)
        \/ \E S \in SUBSET Jobs, w \in Workers : Take(S, w)
        \/ \E j \in Jobs, p \in Phases : Settle(j, p)
        \/ \E S \in SUBSET Jobs : \E parked \in SUBSET S : Lapse(S, parked)

Spec == Init /\ [][Next]_vars
=============================================================================
