---------------------------- MODULE JobLifecycle ----------------------------
(***************************************************************************)
(* What the `jobs' table promises to those who read it: a job is queued,   *)
(* starts once, is carried out by at most one worker at a time, and keeps  *)
(* the result it finished with.  How workers compete for rows, stop, crash *)
(* and lose their reports is the business of JobQueue, which implements    *)
(* this specification.                                                     *)
(***************************************************************************)
CONSTANT Jobs

VARIABLES
  status,   \* the job's row: jobs.state, "absent" before, "deleted" after
  active    \* the jobs whose work on the provider is in progress

lifecycleVars == <<status, active>>

Finished == {"succeeded", "partial", "failed"}
Statuses == {"absent", "queued", "running", "deleted"} \cup Finished

LifecycleInit ==
  /\ status = [j \in Jobs |-> "absent"]
  /\ active = {}

(* A user, the API or the scheduler files new jobs, in one statement.      *)
Submit(js) ==
  /\ \A j \in js : status[j] = "absent"
  /\ status' = [j \in Jobs |-> IF j \in js THEN "queued" ELSE status[j]]
  /\ UNCHANGED active

(* A job leaves the queue.  If the worker that took it never learns so,    *)
(* nobody carries it out.                                                  *)
Start(j, seen) ==
  /\ status[j] = "queued"
  /\ status' = [status EXCEPT ![j] = "running"]
  /\ active' = IF seen THEN active \cup {j} ELSE active

(* The worker writes the result; nothing is written if the row is gone.    *)
Finish(j, result) ==
  /\ j \in active
  /\ status' = [status EXCEPT
                  ![j] = IF status[j] = "deleted" THEN "deleted" ELSE result]
  /\ active' = active \ {j}

(* Workers stop without having written a result.                           *)
GiveUp(js) ==
  /\ js \subseteq active
  /\ active' = active \ js
  /\ UNCHANGED status

(* The account is unlinked and its jobs go with it.                        *)
Drop(js) ==
  /\ \A j \in js : status[j] # "absent"
  /\ status' = [j \in Jobs |-> IF j \in js THEN "deleted" ELSE status[j]]
  /\ UNCHANGED active

LifecycleNext ==
  \/ \E js \in SUBSET Jobs : Submit(js) \/ GiveUp(js) \/ Drop(js)
  \/ \E j \in Jobs : \/ \E seen \in BOOLEAN : Start(j, seen)
                     \/ \E result \in Finished : Finish(j, result)

Lifecycle == LifecycleInit /\ [][LifecycleNext]_lifecycleVars
=============================================================================
