------------------------------ MODULE JobQueue ------------------------------
(***************************************************************************)
(* The PostgreSQL job queue and the worker processes that drain it:        *)
(* store.EnqueueJob, ClaimJob, UpdateJob and EnqueueStaleSyncs             *)
(* (internal/store/store.go), the loops and the scheduler of worker.Run    *)
(* (internal/worker/worker.go), the handlers that create, sync and unlink  *)
(* a cloud account, and the shutdown of `serve' and `worker' (main.go).    *)
(*                                                                         *)
(* One action is one database statement or transaction step, or one        *)
(* uninterrupted stretch of a worker.  A statement that files jobs is two  *)
(* steps, for created_at is the start of its transaction and others see    *)
(* its rows when it commits.  The work of a job is abstracted to its       *)
(* result and to whether it got as far as MarkAccountSynced.               *)
(***************************************************************************)
EXTENDS Naturals, FiniteSets, Functions

CONSTANTS
  Accounts,        \* ids of cloud_accounts rows; an id is used once
  Jobs,            \* ids of jobs rows; an id is used once
  Procs,           \* processes that run a worker.Worker
  Embedded,        \* those of them that are `serve' with RUN_WORKER=true
  Concurrency,     \* WORKER_CONCURRENCY: loops per process
  NoJob, NoInfo,
  (* Bounds of the model, each the number of times something may happen.   *)
  MaxApiJobs,      \* the API sends an INSERT of a job
  MaxTicks,        \* a synced account grows older than SYNC_INTERVAL
  MaxOutages,      \* the provider or the database fails a sync or a statement
  MaxFaults,       \* a process is killed or a statement's outcome is lost
  MaxStops,        \* a process is asked to stop (SIGTERM)
  MaxMishaps,      \* outages, faults and stops together
  MaxOrphans       \* statements under way that nobody waits for, at a time

ASSUME ConstantsAssumption ==
  /\ Concurrency \in Nat \ {0}
  /\ IsFiniteSet(Procs)
  /\ Embedded \subseteq Procs
  /\ NoJob \notin Jobs

ASSUME ProcsAssumption == {"api", "orphan"} \cap Procs = {}

BoundNames == {"apiJobs", "ticks", "outages", "faults", "stops"}
Mishaps == {"outages", "faults", "stops"}
Bounds == [apiJobs |-> MaxApiJobs, ticks |-> MaxTicks,
           outages |-> MaxOutages, faults |-> MaxFaults, stops |-> MaxStops]

ASSUME BoundsAssumption ==
  {MaxMishaps, MaxOrphans} \subseteq Nat /\ \A b \in BoundNames : Bounds[b] \in Nat

Loops == Procs \X (1..Concurrency)     \* a goroutine of Worker.Run: worker.loop
ProcOf(l) == l[1]

Kinds == {"sync", "command"}    \* sync_account; the three droplet job kinds
Finished == {"succeeded", "partial", "failed"}
Started == {"running"} \cup Finished
States == {"absent", "queued", "deleted"} \cup Started

(* Who files a job: a handler of the API, the scheduler of a process, or   *)
(* the statement of a process that no longer waits for it.                 *)
Origins == Procs \cup {"api", "orphan"}

(* An INSERT INTO jobs under way: one row for each of its accounts.  `at'  *)
(* is created_at, and `after' the jobs that had been filed before it (a    *)
(* history field: no guard reads it).                                      *)
Statement == [from: Origins, accounts: SUBSET Accounts, kind: Kinds,
              at: Nat, after: SUBSET Jobs]

(* The columns of a jobs row that never change after the insert.           *)
JobInfo == [account: Accounts, kind: Kinds, from: Origins,
            at: Nat, after: SUBSET Jobs]

ASSUME NoInfoAssumption == NoInfo \notin JobInfo

VARIABLES
  account,    \* account[a]: "none", "adding", "live" or "deleted"
  due,        \* the accounts with last_synced_at NULL or too old
  state,      \* jobs.state, per job
  info,       \* the immutable columns of the job's row
  attempts,   \* jobs.attempts
  proc,       \* proc[p]: "up", "stopping" (context cancelled) or "down"
  pc,         \* what each loop is doing
  held,       \* the job each loop is claiming or carrying out
  result,     \* the state the loop is about to write
  inflight,   \* the statements that file jobs and have not committed
  used        \* how much of each bound is used up

queueVars == <<state, info, attempts>>
loopVars  == <<pc, held, result>>
vars == <<account, due, queueVars, proc, loopVars, inflight, used>>

TypeOK ==
  /\ account \in [Accounts -> {"none", "adding", "live", "deleted"}]
  /\ due \in SUBSET Accounts
  /\ state \in [Jobs -> States]
  /\ info \in [Jobs -> JobInfo \cup {NoInfo}]
  /\ attempts \in [Jobs -> Nat]
  /\ proc \in [Procs -> {"up", "stopping", "down"}]
  /\ pc \in [Loops -> {"idle", "claiming", "working", "reporting"}]
  /\ held \in [Loops -> Jobs \cup {NoJob}]
  /\ result \in [Loops -> Finished \cup {"none"}]
  /\ inflight \in SUBSET Statement
  /\ used \in [BoundNames -> Nat]

Init ==
  /\ account = [a \in Accounts |-> "none"]
  /\ due = {}
  /\ state = [j \in Jobs |-> "absent"]
  /\ info = [j \in Jobs |-> NoInfo]
  /\ attempts = [j \in Jobs |-> 0]
  /\ proc = [p \in Procs |-> "up"]
  /\ pc = [l \in Loops |-> "idle"]
  /\ held = [l \in Loops |-> NoJob]
  /\ result = [l \in Loops |-> "none"]
  /\ inflight = {}
  /\ used = [b \in BoundNames |-> 0]

-----------------------------------------------------------------------------
(* Helpers.                                                                *)

Visible(a) == account[a] \in {"adding", "live"}    \* the row exists

Spend(b) == /\ used[b] < Bounds[b]
            /\ b \in Mishaps => used["outages"] + used["faults"] + used["stops"] < MaxMishaps
            /\ used' = [used EXCEPT ![b] = @ + 1]

Busy(l) == pc[l] # "idle"

(* The loops of ls wait for their next tick.                               *)
Leave(ls) ==
  /\ pc' = [l \in Loops |-> IF l \in ls THEN "idle" ELSE pc[l]]
  /\ held' = [l \in Loops |-> IF l \in ls THEN NoJob ELSE held[l]]
  /\ result' = [l \in Loops |-> IF l \in ls THEN "none" ELSE result[l]]

(* Mutant: the claim reads its row without FOR UPDATE.                     *)
LockedNone == {}

(* Rows locked FOR UPDATE by a claim that has not committed.               *)
Locked == {held[l] : l \in {m \in Loops : pc[m] = "claiming"}}

(* A loop is carrying the job out.                                         *)
Owned(j) == \E l \in Loops : pc[l] \in {"working", "reporting"} /\ held[l] = j

Filed == {j \in Jobs : state[j] # "absent"}
Absent == Jobs \ Filed

(* The rows that the statements under way have yet to insert.              *)
Pending == {row \in inflight \X Accounts : row[2] \in row[1].accounts}

(* The stamps of what waits to be claimed, or will.                        *)
Stamps == {s.at : s \in inflight} \cup {info[j].at : j \in {k \in Jobs : state[k] = "queued"}}

(* A statement that files jobs begins.  Its created_at is now(), later     *)
(* than any other; the model keeps the rank among those that still count.  *)
(* Bound of the model: there are ids left for its rows.                    *)
Issue(from, as, kind) ==
  /\ Cardinality(Pending) + Cardinality(as) <= Cardinality(Absent)
  /\ \E at \in {0} \cup {n + 1 : n \in Stamps} :
       /\ \A n \in Stamps : n < at
       /\ inflight' = inflight \cup {[from |-> from, accounts |-> as, kind |-> kind,
                                      at |-> at, after |-> Filed]}

(* The row that statement s inserts for account a.                         *)
Row(s, a) == [account |-> a, kind |-> s.kind, from |-> s.from,
              at |-> s.at, after |-> s.after]

(* One row per job of js becomes visible.                                  *)
Insert(js, rows) ==
  /\ state' = [j \in Jobs |-> IF j \in js THEN "queued" ELSE state[j]]
  /\ info' = [j \in Jobs |-> IF j \in js THEN rows[j] ELSE info[j]]
  /\ UNCHANGED attempts

(* gen_random_uuid: n ids no row has used.  Which ones makes no            *)
(* difference, so the model takes some.                                    *)
Fresh(n) == CHOOSE js \in SUBSET Absent : Cardinality(js) = n

-----------------------------------------------------------------------------
(* The API (internal/httpapi/accounts.go, droplets.go).                    *)

(* createCloudAccount up to its first INSERT; last_synced_at is NULL.      *)
CreateCloudAccount(a) ==
  /\ account[a] = "none"
  /\ account' = [account EXCEPT ![a] = "adding"]
  /\ due' = due \cup {a}
  /\ UNCHANGED <<queueVars, proc, loopVars, inflight, used>>

(* The rest of createCloudAccount: it sends the INSERT of EnqueueJob.      *)
EnqueueFirstSync(a) ==
  /\ account[a] = "adding"
  /\ account' = [account EXCEPT ![a] = "live"]
  /\ Spend("apiJobs")
  /\ Issue("api", {a}, "sync")
  /\ UNCHANGED <<due, queueVars, proc, loopVars>>

(* ... or the request ends without it, its client or connection gone: the  *)
(* account stays, with no job.                                             *)
FirstSyncNotEnqueued(a) ==
  /\ account[a] = "adding"
  /\ account' = [account EXCEPT ![a] = "live"]
  /\ UNCHANGED <<due, queueVars, proc, loopVars, inflight, used>>

(* syncCloudAccount, createDroplets, enqueueDropletAction and              *)
(* enqueueDropletDelete file a job whatever else is queued.                *)
EnqueueJob(a, kind) ==
  /\ Visible(a)
  /\ Spend("apiJobs")
  /\ Issue("api", {a}, kind)
  /\ UNCHANGED <<account, due, queueVars, proc, loopVars>>

(* DeleteCloudAccount cascades to the account's jobs; it waits while one   *)
(* of them is locked by a claim.  Loops carrying one out are not told.     *)
DeleteCloudAccount(a) ==
  LET gone == {j \in Jobs : info[j] # NoInfo /\ info[j].account = a}
  IN /\ Visible(a)
     /\ gone \cap Locked = {}
     /\ account' = [account EXCEPT ![a] = "deleted"]
     /\ due' = due \ {a}
     /\ state' = [j \in Jobs |-> IF j \in gone THEN "deleted" ELSE state[j]]
     /\ UNCHANGED <<info, attempts, proc, loopVars, inflight, used>>

(* SYNC_INTERVAL passes since the account's last sync.                     *)
TimePasses(a) ==
  /\ Visible(a) /\ a \notin due
  /\ Spend("ticks")
  /\ due' = due \cup {a}
  /\ UNCHANGED <<account, queueVars, proc, loopVars, inflight>>

-----------------------------------------------------------------------------
(* worker.scheduler: EnqueueStaleSyncs is one INSERT ... SELECT, and other *)
(* transactions commit between what it reads and what it inserts.          *)

(* Mutants: NOT EXISTS overlooks running syncs, or counts finished ones.   *)
SyncPendingQueuedOnly(a) ==
  \E j \in Jobs : state[j] = "queued" /\ info[j].account = a /\ info[j].kind = "sync"

SyncPendingAnyState(a) ==
  \E j \in Jobs : /\ state[j] \notin {"absent", "deleted"}
                  /\ info[j].account = a /\ info[j].kind = "sync"

SyncPending(a) ==
  \E j \in Jobs : /\ state[j] \in {"queued", "running"}
                  /\ info[j].account = a /\ info[j].kind = "sync"

Stale(a) == Visible(a) /\ a \in due /\ ~SyncPending(a)

(* The statement reads the stale accounts; a process has one at a time.    *)
SelectStale(p) ==
  LET found == {a \in Accounts : Stale(a)}
  IN /\ proc[p] = "up"
     /\ \A s \in inflight : s.from # p
     /\ found # {}
     /\ Issue(p, found, "sync")
     /\ UNCHANGED <<account, due, queueVars, proc, loopVars, used>>

-----------------------------------------------------------------------------
(* The end of a statement that files jobs.                                 *)

(* The rows of one statement share created_at, so their order is open.     *)
Commit(s) ==
  /\ \A a \in s.accounts : Visible(a)
  /\ LET js == Fresh(Cardinality(s.accounts))
     IN /\ js \subseteq Absent
        /\ \E of \in Bijection(js, s.accounts) :
             Insert(js, [j \in js |-> Row(s, of[j])])
  /\ inflight' = inflight \ {s}
  /\ UNCHANGED <<account, due, proc, loopVars, used>>

(* An account was unlinked meanwhile: its foreign key fails the whole      *)
(* statement, the rows for other accounts included.                        *)
Refuse(s) ==
  /\ \E a \in s.accounts : ~Visible(a)
  /\ inflight' = inflight \ {s}
  /\ UNCHANGED <<account, due, queueVars, proc, loopVars, used>>

(* The statement fails, or is cancelled: with the context of a process     *)
(* that stops, and for a handler with its request.                         *)
Cancel(s) ==
  /\ \/ s.from \in {"api", "orphan"} /\ UNCHANGED used
     \/ s.from \in Procs /\ proc[s.from] = "stopping" /\ UNCHANGED used
     \/ s.from \in Procs /\ proc[s.from] = "up" /\ Spend("outages")
  /\ inflight' = inflight \ {s}
  /\ UNCHANGED <<account, due, queueVars, proc, loopVars>>

(* Process p no longer waits for its statement: the database has rolled it *)
(* back, or may yet carry it out.                                          *)
Orphans == {s \in inflight : s.from = "orphan"}

Abandon(p) ==
  \/ inflight' = {s \in inflight : s.from # p}
  \/ /\ Cardinality(Orphans) < MaxOrphans
     /\ inflight' = {IF s.from = p THEN [s EXCEPT !.from = "orphan"] ELSE s :
                       s \in inflight}

AnswerLost(p) ==
  /\ \E s \in inflight : s.from = p
  /\ Spend("faults")
  /\ Abandon(p)
  /\ UNCHANGED <<account, due, queueVars, proc, loopVars>>

-----------------------------------------------------------------------------
(* worker.ProcessNext.                                                     *)

(* Mutants: the claim's WHERE also takes running or failed jobs, its ORDER *)
(* BY is reversed, or it takes nothing while any job is running.           *)
ClaimableIn(j, states) ==
  LET free == {k \in Jobs : state[k] \in states /\ k \notin Locked}
  IN j \in free /\ \A k \in free : info[j].at <= info[k].at

ClaimableRunning(j) == ClaimableIn(j, {"queued", "running"})
ClaimableFailed(j) == ClaimableIn(j, {"queued", "failed"})

ClaimableNewest(j) ==
  LET free == {k \in Jobs : state[k] = "queued" /\ k \notin Locked}
  IN j \in free /\ \A k \in free : info[j].at >= info[k].at

ClaimableAlone(j) ==
  ClaimableIn(j, {"queued"}) /\ \A k \in Jobs : state[k] # "running"

(* ORDER BY created_at FOR UPDATE SKIP LOCKED LIMIT 1.                     *)
Claimable(j) ==
  LET free == {k \in Jobs : state[k] = "queued" /\ k \notin Locked}
  IN j \in free /\ \A k \in free : info[j].at <= info[k].at

ClaimSelect(l) ==
  /\ pc[l] = "idle" /\ proc[ProcOf(l)] = "up"
  /\ \E j \in Jobs : Claimable(j) /\ held' = [held EXCEPT ![l] = j]
  /\ pc' = [pc EXCEPT ![l] = "claiming"]
  /\ UNCHANGED <<account, due, queueVars, proc, result, inflight, used>>

(* The claim's UPDATE and COMMIT take effect in the database.              *)
CommitClaim(l) ==
  /\ pc[l] = "claiming"
  /\ state' = [state EXCEPT ![held[l]] = "running"]
  /\ attempts' = [attempts EXCEPT ![held[l]] = @ + 1]
  /\ UNCHANGED <<account, due, info, proc, inflight>>

ClaimCommit(l) ==
  /\ CommitClaim(l)
  /\ pc' = [pc EXCEPT ![l] = "working"]
  /\ UNCHANGED <<held, result, used>>

(* The commit lands but its answer does not: the context is cancelled or   *)
(* the connection breaks, and the loop sees an error.                      *)
Interrupted(l) == \/ proc[ProcOf(l)] = "stopping" /\ UNCHANGED used
                  \/ Spend("faults")

ClaimCommitUnseen(l) ==
  /\ CommitClaim(l)
  /\ Leave({l})
  /\ Interrupted(l)

ClaimRollback(l) ==
  /\ pc[l] = "claiming"
  /\ Leave({l})
  /\ Interrupted(l)
  /\ UNCHANGED <<account, due, queueVars, proc, inflight>>

(* Mutant: the handler returns no state and ProcessNext adds no default.   *)
WorkNoState(l) ==
  /\ pc[l] = "working"
  /\ pc' = [pc EXCEPT ![l] = "reporting"]
  /\ UNCHANGED <<account, due, queueVars, proc, held, result, inflight, used>>

(* worker.process, up to the result it returns.  A sync succeeds exactly   *)
(* when it reached MarkAccountSynced and found the row; a command may end  *)
(* either way, with or without its own sync.  While the process is up and  *)
(* the row exists, only an outage keeps a sync from succeeding.            *)
Work(l) ==
  LET a == info[held[l]].account
      kind == info[held[l]].kind
  IN /\ pc[l] = "working"
     /\ \E synced \in BOOLEAN, r \in Finished :
          /\ synced => Visible(a)
          /\ kind = "sync" => r = IF synced THEN "succeeded" ELSE "failed"
          /\ due' = IF synced THEN due \ {a} ELSE due
          /\ result' = [result EXCEPT ![l] = r]
          /\ IF kind = "sync" /\ ~synced /\ Visible(a) /\ proc[ProcOf(l)] = "up"
             THEN Spend("outages")
             ELSE UNCHANGED used
     /\ pc' = [pc EXCEPT ![l] = "reporting"]
     /\ UNCHANGED <<account, queueVars, proc, held, inflight>>

(* Mutants: successes are not written, or the result is upserted.          *)
UpdateJobFailuresOnly(l) ==
  /\ pc[l] = "reporting"
  /\ state' = IF result[l] = "failed" /\ state[held[l]] # "deleted"
              THEN [state EXCEPT ![held[l]] = "failed"] ELSE state
  /\ Leave({l})
  /\ UNCHANGED <<account, due, info, attempts, proc, inflight, used>>

UpdateJobUpsert(l) ==
  /\ pc[l] = "reporting"
  /\ state' = [state EXCEPT ![held[l]] = result[l]]
  /\ Leave({l})
  /\ UNCHANGED <<account, due, info, attempts, proc, inflight, used>>

(* UpdateJob: UPDATE ... WHERE id, whatever the row's state; no row, no    *)
(* error.  A job that ended with an error is written under                 *)
(* context.WithoutCancel, a success under the loop's own context.          *)
UpdateJob(l) ==
  /\ pc[l] = "reporting"
  /\ state' = [state EXCEPT ![held[l]] = IF @ = "deleted" THEN @ ELSE result[l]]
  /\ Leave({l})
  /\ UNCHANGED <<account, due, info, attempts, proc, inflight, used>>

UpdateJobLost(l) ==
  /\ pc[l] = "reporting"
  /\ \/ result[l] = "succeeded" /\ proc[ProcOf(l)] = "stopping" /\ UNCHANGED used
     \/ Spend("faults")
  /\ Leave({l})
  /\ UNCHANGED <<account, due, queueVars, proc, inflight>>

-----------------------------------------------------------------------------
(* The processes (cmd/cloudmanager/main.go).                               *)

(* SIGTERM cancels the context: no loop claims another job, and the        *)
(* scheduler waits for its statement no longer than that takes to land.    *)
Stop(p) ==
  /\ proc[p] = "up"
  /\ Spend("stops")
  /\ proc' = [proc EXCEPT ![p] = "stopping"]
  /\ UNCHANGED <<account, due, queueVars, loopVars, inflight>>

(* The process is gone with whatever it was doing; open claims roll back.  *)
Die(p) ==
  /\ proc' = [proc EXCEPT ![p] = "down"]
  /\ Leave({l \in Loops : ProcOf(l) = p})
  /\ Abandon(p)
  /\ UNCHANGED <<account, due, queueVars>>

(* `worker' waits for its loops (group.Wait); `serve' returns as soon as   *)
(* the HTTP server has shut down.                                          *)
Exit(p) ==
  /\ proc[p] = "stopping"
  /\ p \in Embedded \/ \A l \in Loops : ProcOf(l) = p => ~Busy(l)
  /\ Die(p)
  /\ UNCHANGED used

Crash(p) == proc[p] # "down" /\ Spend("faults") /\ Die(p)

Restart(p) ==
  /\ proc[p] = "down"
  /\ proc' = [proc EXCEPT ![p] = "up"]
  /\ UNCHANGED <<account, due, queueVars, loopVars, inflight, used>>

-----------------------------------------------------------------------------
Api(a) ==
  \/ CreateCloudAccount(a) \/ EnqueueFirstSync(a) \/ FirstSyncNotEnqueued(a)
  \/ \E kind \in Kinds : EnqueueJob(a, kind)
  \/ DeleteCloudAccount(a) \/ TimePasses(a)

Loop(l) ==
  \/ ClaimSelect(l) \/ ClaimCommit(l) \/ ClaimCommitUnseen(l) \/ ClaimRollback(l)
  \/ Work(l) \/ UpdateJob(l) \/ UpdateJobLost(l)

Process(p) ==
  \/ SelectStale(p) \/ AnswerLost(p)
  \/ Stop(p) \/ Exit(p) \/ Crash(p) \/ Restart(p)

Filing(s) == Commit(s) \/ Refuse(s) \/ Cancel(s)

Next ==
  \/ \E a \in Accounts : Api(a)
  \/ \E l \in Loops : Loop(l)
  \/ \E p \in Procs : Process(p)
  \/ \E s \in inflight : Filing(s)

Spec == Init /\ [][Next]_vars

(* Loops and the scheduler poll for ever (tickers), the database answers,  *)
(* and a process that is gone is started again: by the service manager     *)
(* after a crash (restart: unless-stopped, Restart=on-failure), by the     *)
(* operator after the stop of an upgrade.                                  *)
Fairness ==
  /\ \A l \in Loops : /\ WF_vars(ClaimSelect(l)) /\ WF_vars(ClaimCommit(l))
                      /\ WF_vars(Work(l)) /\ WF_vars(UpdateJob(l))
  /\ \A p \in Procs : /\ WF_vars(SelectStale(p))
                      /\ WF_vars(\E s \in inflight :
                                   s.from = p /\ (Commit(s) \/ Refuse(s)))
                      /\ WF_vars(Exit(p)) /\ WF_vars(Restart(p))

FairSpec == Spec /\ Fairness

-----------------------------------------------------------------------------
(* Properties.                                                             *)

(* No job is in the hands of two loops, of one process or of two: the row  *)
(* lock of ClaimJob and the state it writes keep every provider call of a  *)
(* job from being issued twice.                                            *)
OneLoopPerJob ==
  \A l, m \in Loops : Busy(l) /\ Busy(m) /\ held[l] = held[m] => l = m

(* A job is started at most once in its life, whatever crashes: there is   *)
(* no automatic retry that could create or destroy droplets a second time. *)
StartedOnce == \A j \in Jobs : attempts[j] <= 1

(* No process has been stopped, and nothing was lost on the way.           *)
Undisturbed == used["faults"] = 0 /\ used["stops"] = 0

(* A job the database calls running is being carried out, unless a process *)
(* was stopped or something was lost on the way.                           *)
RunningIsOwned ==
  Undisturbed => \A j \in Jobs : state[j] = "running" => Owned(j)

(* However many processes run, an account never has two pending syncs      *)
(* filed by the scheduler of one: NOT EXISTS in EnqueueStaleSyncs sees     *)
(* that scheduler's own.  The syncs of abandoned statements do not count.  *)
OneScheduledSync ==
  \A j, k \in Jobs :
    /\ {state[j], state[k]} \subseteq {"queued", "running"}
    /\ info[j].from \in Procs /\ info[j].from = info[k].from
    /\ info[j].account = info[k].account
    => j = k

(* No job starts before one that had been filed when it was requested,     *)
(* unless a loop has already taken that one: with one loop always, with    *)
(* any number of loops and processes while nothing is disturbed.           *)
StartInOrder ==
  Cardinality(Loops) = 1 \/ Undisturbed =>
    \A j, k \in Jobs :
      state[k] \in Started /\ j \in info[k].after
      => state[j] # "queued" \/ j \in Locked

(* The result a user has seen never changes: no late writer overwrites a   *)
(* finished job, and only unlinking the account removes it.                *)
FinishedIsFinal ==
  [][\A j \in Jobs : state[j] \in Finished => state'[j] \in {state[j], "deleted"}]_vars

(* Every job is eventually taken from the queue, even if processes crash   *)
(* and restart, or removed with its account.                               *)
JobsStart == \A j \in Jobs : state[j] = "queued" ~> state[j] # "queued"

(* Every job filed is eventually finished, or removed with its account, as *)
(* long as no process is stopped and nothing is lost.                      *)
JobsFinish ==
  \A j \in Jobs :
    state[j] = "queued" ~> state[j] \in Finished \cup {"deleted"} \/ ~Undisturbed

(* SYNC_INTERVAL: an account whose last sync is too old is synced again,   *)
(* or unlinked.                                                            *)
StaleIsSynced == \A a \in Accounts : a \in due ~> a \notin due

(* ... and that is so, in spite of failed syncs, failed statements, first  *)
(* syncs never filed, and batches refused because another account was      *)
(* unlinked, as long as no process is stopped and nothing is lost.         *)
AccountsStaySynced == \A a \in Accounts : a \in due ~> a \notin due \/ ~Undisturbed

(* The queue implements what JobLifecycle promises.                        *)
Contract == INSTANCE JobLifecycle
              WITH status <- state, active <- {j \in Jobs : Owned(j)}

JobContract == Contract!Lifecycle
=============================================================================
