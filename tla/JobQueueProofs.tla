--------------------------- MODULE JobQueueProofs ---------------------------
(***************************************************************************)
(* Theorems about JobQueue, for every set of accounts, jobs, processes and *)
(* every concurrency: type correctness, exclusive ownership of jobs, at    *)
(* most one start per job, finality of results, one pending sync per       *)
(* scheduler and account, the order in which jobs start, and that the      *)
(* queue implements JobLifecycle.                                          *)
(***************************************************************************)
EXTENDS JobQueue, FiniteSetTheorems, TLAPS

-----------------------------------------------------------------------------
(* Type correctness.  TypeOK alone is not inductive: that a worker writes  *)
(* a job's final state needs that it holds a job and has its result, and   *)
(* that a statement has a stamp needs that every waiting row has one.      *)

LoopOK ==
  \A l \in Loops : /\ Busy(l) => held[l] \in Jobs
                   /\ pc[l] = "reporting" => result[l] \in Finished

QueuedHasInfo == \A j \in Jobs : state[j] = "queued" => info[j] # NoInfo

(* Filing jobs keeps the queue's columns in their types when the new rows  *)
(* are well formed.                                                        *)
LEMMA InsertTypes ==
  ASSUME TypeOK, NEW js \in SUBSET Jobs, NEW rows \in [js -> JobInfo],
         Insert(js, rows)
  PROVE  /\ state' \in [Jobs -> States]
         /\ info' \in [Jobs -> JobInfo \cup {NoInfo}]
         /\ attempts' \in [Jobs -> Nat]
BY DEF TypeOK, Insert, States, Started, Finished

(* A statement that commits inserts one row of its own for each of its     *)
(* accounts, under ids no row has had.                                     *)
LEMMA CommitInserts ==
  ASSUME TypeOK, NEW s \in inflight, Commit(s)
  PROVE  \E js \in SUBSET Absent : \E rows \in [js -> JobInfo] :
           /\ Insert(js, rows)
           /\ \A j \in js : \E a \in s.accounts : rows[j] = Row(s, a)
           /\ \A j, k \in js : rows[j].account = rows[k].account => j = k
<1> DEFINE js == Fresh(Cardinality(s.accounts))
           row(of) == [j \in js |-> Row(s, of[j])]
<1>1. /\ js \in SUBSET Absent
      /\ \E of \in Bijection(js, s.accounts) : Insert(js, row(of))
  BY DEF Commit
<1>2. PICK of \in Bijection(js, s.accounts) : Insert(js, row(of))
  BY <1>1
<1> HIDE DEF js
<1>3. /\ \A j \in js : of[j] \in s.accounts
      /\ \A j, k \in js : of[j] = of[k] => j = k
  BY <1>2 DEF Bijection, Injection, IsInjective
<1>4. s \in Statement
  BY DEF TypeOK
<1>5. row(of) \in [js -> JobInfo]
  BY <1>3, <1>4 DEF Row, JobInfo, Statement
<1>6. /\ \A j \in js : row(of)[j] = Row(s, of[j])
      /\ \A j, k \in js : row(of)[j].account = row(of)[k].account => j = k
  BY <1>3 DEF Row
<1> QED BY <1>1, <1>2, <1>3, <1>5, <1>6

(* A statement that begins is stamped later than all that waits, and knows *)
(* which jobs had been filed.                                              *)
LEMMA IssueAdds ==
  ASSUME TypeOK, QueuedHasInfo, NEW from \in Origins, NEW as \in SUBSET Accounts, NEW kind \in Kinds,
         Issue(from, as, kind)
  PROVE  \E s \in Statement :
           /\ inflight' = inflight \cup {s}
           /\ s.from = from /\ s.accounts = as /\ s.kind = kind
           /\ s.after = Filed /\ \A n \in Stamps : n < s.at
<1>1. PICK at \in {0} \cup {n + 1 : n \in Stamps} :
        /\ \A n \in Stamps : n < at
        /\ inflight' = inflight \cup {[from |-> from, accounts |-> as, kind |-> kind,
                                       at |-> at, after |-> Filed]}
  BY DEF Issue
<1>2. at \in Nat
  <2>1. ASSUME NEW j \in Jobs, state[j] = "queued", at = info[j].at + 1 PROVE at \in Nat
    BY <2>1 DEF TypeOK, QueuedHasInfo, JobInfo
  <2> QED BY <1>1, <2>1 DEF Stamps, TypeOK, Statement
<1> DEFINE s == [from |-> from, accounts |-> as, kind |-> kind, at |-> at, after |-> Filed]
<1>3. s \in Statement
  BY <1>2 DEF Statement, Filed
<1> QED BY <1>1, <1>3

LEMMA IssueTypes ==
  ASSUME TypeOK, QueuedHasInfo, NEW from \in Origins, NEW as \in SUBSET Accounts, NEW kind \in Kinds,
         Issue(from, as, kind)
  PROVE  inflight' \in SUBSET Statement
<1>1. PICK s \in Statement : inflight' = inflight \cup {s}
  BY IssueAdds
<1> QED BY <1>1 DEF TypeOK

LEMMA SpendTypes ==
  ASSUME TypeOK, NEW b \in BoundNames, Spend(b)
  PROVE  used' \in [BoundNames -> Nat]
BY DEF TypeOK, Spend

LEMMA LeaveTypes ==
  ASSUME TypeOK, NEW ls \in SUBSET Loops, Leave(ls)
  PROVE  /\ pc' \in [Loops -> {"idle", "claiming", "working", "reporting"}]
         /\ held' \in [Loops -> Jobs \cup {NoJob}]
         /\ result' \in [Loops -> Finished \cup {"none"}]
BY DEF TypeOK, Leave

LEMMA ApiTypes ==
  ASSUME TypeOK, QueuedHasInfo, NEW a \in Accounts, Api(a)
  PROVE  TypeOK'
<1> USE DEF queueVars, loopVars
<1>1. CASE CreateCloudAccount(a)
  BY <1>1 DEF TypeOK, CreateCloudAccount
<1>2. CASE EnqueueFirstSync(a)
  <2>1. inflight' \in SUBSET Statement
    BY <1>2, IssueTypes DEF EnqueueFirstSync, Origins, Kinds
  <2> QED BY <1>2, <2>1, SpendTypes DEF TypeOK, EnqueueFirstSync, BoundNames
<1>3. CASE FirstSyncNotEnqueued(a)
  BY <1>3 DEF TypeOK, FirstSyncNotEnqueued
<1>4. ASSUME NEW kind \in Kinds, EnqueueJob(a, kind) PROVE TypeOK'
  <2>1. inflight' \in SUBSET Statement
    BY <1>4, IssueTypes DEF EnqueueJob, Origins
  <2> QED BY <1>4, <2>1, SpendTypes DEF TypeOK, EnqueueJob, BoundNames
<1>5. CASE DeleteCloudAccount(a)
  BY <1>5 DEF TypeOK, DeleteCloudAccount, States
<1>6. CASE TimePasses(a)
  BY <1>6, SpendTypes DEF TypeOK, TimePasses, BoundNames
<1> QED BY <1>1, <1>2, <1>3, <1>4, <1>5, <1>6 DEF Api

LEMMA CommitClaimTypes ==
  ASSUME TypeOK, LoopOK, NEW l \in Loops, CommitClaim(l)
  PROVE  state' \in [Jobs -> States] /\ attempts' \in [Jobs -> Nat]
<1>1. held[l] \in Jobs
  BY DEF LoopOK, Busy, CommitClaim
<1> QED BY <1>1 DEF TypeOK, CommitClaim, States, Started

LEMMA LoopTypes ==
  ASSUME TypeOK, LoopOK, NEW l \in Loops, Loop(l)
  PROVE  TypeOK'
<1> USE DEF queueVars, loopVars
<1>0. {l} \in SUBSET Loops
  OBVIOUS
<1>1. CASE ClaimSelect(l)
  BY <1>1 DEF TypeOK, ClaimSelect
<1>2. CASE ClaimCommit(l)
  <2>1. state' \in [Jobs -> States] /\ attempts' \in [Jobs -> Nat]
    BY <1>2, CommitClaimTypes DEF ClaimCommit
  <2> QED BY <1>2, <2>1 DEF TypeOK, ClaimCommit, CommitClaim
<1>3. CASE ClaimCommitUnseen(l)
  <2>1. state' \in [Jobs -> States] /\ attempts' \in [Jobs -> Nat]
    BY <1>3, CommitClaimTypes DEF ClaimCommitUnseen
  <2>2. used' \in [BoundNames -> Nat]
    BY <1>3, SpendTypes DEF ClaimCommitUnseen, Interrupted, BoundNames, TypeOK
  <2> QED BY <1>0, <1>3, <2>1, <2>2, LeaveTypes
          DEF TypeOK, ClaimCommitUnseen, CommitClaim
<1>4. CASE ClaimRollback(l)
  <2>1. used' \in [BoundNames -> Nat]
    BY <1>4, SpendTypes DEF ClaimRollback, Interrupted, BoundNames, TypeOK
  <2> QED BY <1>0, <1>4, <2>1, LeaveTypes DEF TypeOK, ClaimRollback
<1>5. CASE Work(l)
  <2>1. used' \in [BoundNames -> Nat]
    BY <1>5, SpendTypes DEF Work, BoundNames, TypeOK
  <2> QED BY <1>5, <2>1 DEF TypeOK, Work
<1>6. CASE UpdateJob(l)
  <2>1. state' \in [Jobs -> States]
    <3>1. held[l] \in Jobs /\ result[l] \in States
      BY <1>6 DEF LoopOK, Busy, UpdateJob, States, Started
    <3> QED BY <1>6, <3>1 DEF TypeOK, UpdateJob
  <2> QED BY <1>0, <1>6, <2>1, LeaveTypes DEF TypeOK, UpdateJob
<1>7. CASE UpdateJobLost(l)
  <2>1. used' \in [BoundNames -> Nat]
    BY <1>7, SpendTypes DEF UpdateJobLost, BoundNames, TypeOK
  <2> QED BY <1>0, <1>7, <2>1, LeaveTypes DEF TypeOK, UpdateJobLost
<1> QED BY <1>1, <1>2, <1>3, <1>4, <1>5, <1>6, <1>7 DEF Loop

(* Abandoned statements stay statements.                                   *)
LEMMA AbandonTypes ==
  ASSUME TypeOK, NEW p \in Procs, Abandon(p)
  PROVE  inflight' \in SUBSET Statement
<1>1. \A s \in inflight : [s EXCEPT !.from = "orphan"] \in Statement
  BY DEF TypeOK, Statement, Origins
<1> QED BY <1>1 DEF Abandon, TypeOK

LEMMA ProcessTypes ==
  ASSUME TypeOK, QueuedHasInfo, NEW p \in Procs, Process(p)
  PROVE  TypeOK'
<1> USE DEF queueVars, loopVars
<1>0. {l \in Loops : ProcOf(l) = p} \in SUBSET Loops
  OBVIOUS
<1>1. CASE SelectStale(p)
  <2>1. inflight' \in SUBSET Statement
    BY <1>1, IssueTypes DEF SelectStale, Origins, Kinds
  <2> QED BY <1>1, <2>1 DEF TypeOK, SelectStale
<1>2. CASE AnswerLost(p)
  BY <1>2, AbandonTypes, SpendTypes DEF TypeOK, AnswerLost, BoundNames
<1>4. CASE Stop(p)
  BY <1>4, SpendTypes DEF TypeOK, Stop, BoundNames
<1>5. CASE Exit(p)
  BY <1>0, <1>5, LeaveTypes, AbandonTypes DEF TypeOK, Exit, Die
<1>6. CASE Crash(p)
  BY <1>0, <1>6, LeaveTypes, AbandonTypes, SpendTypes DEF TypeOK, Crash, Die, BoundNames
<1>7. CASE Restart(p)
  BY <1>7 DEF TypeOK, Restart
<1> QED BY <1>1, <1>2, <1>4, <1>5, <1>6, <1>7 DEF Process

LEMMA FilingTypes ==
  ASSUME TypeOK, NEW s \in inflight, Filing(s)
  PROVE  TypeOK'
<1> USE DEF queueVars, loopVars
<1>1. CASE Commit(s)
  <2>1. PICK js \in SUBSET Absent : \E rows \in [js -> JobInfo] : Insert(js, rows)
    BY <1>1, CommitInserts
  <2>2. /\ state' \in [Jobs -> States]
        /\ info' \in [Jobs -> JobInfo \cup {NoInfo}]
        /\ attempts' \in [Jobs -> Nat]
    BY <2>1, InsertTypes DEF Absent
  <2> QED BY <1>1, <2>2 DEF TypeOK, Commit
<1>2. CASE Refuse(s)
  BY <1>2 DEF TypeOK, Refuse
<1>3. CASE Cancel(s)
  BY <1>3, SpendTypes DEF TypeOK, Cancel, BoundNames
<1> QED BY <1>1, <1>2, <1>3 DEF Filing

(* A waiting row has its columns.                                          *)
LEMMA QueuedNext ==
  ASSUME TypeOK, LoopOK, QueuedHasInfo, [Next]_vars
  PROVE  QueuedHasInfo'
<1> USE DEF QueuedHasInfo, queueVars, TypeOK
<1>1. ASSUME NEW a \in Accounts, Api(a) PROVE QueuedHasInfo'
  BY <1>1 DEF Api, CreateCloudAccount, EnqueueFirstSync, FirstSyncNotEnqueued, EnqueueJob,
              DeleteCloudAccount, TimePasses
<1>2. ASSUME NEW l \in Loops, Loop(l) PROVE QueuedHasInfo'
  <2>1. CASE ClaimCommit(l) \/ ClaimCommitUnseen(l)
    BY <2>1 DEF ClaimCommit, ClaimCommitUnseen, CommitClaim
  <2>2. CASE UpdateJob(l)
    <3>1. result[l] # "queued"
      BY <2>2 DEF UpdateJob, LoopOK, Finished
    <3> QED BY <2>2, <3>1 DEF UpdateJob
  <2> QED BY <1>2, <2>1, <2>2 DEF Loop, ClaimSelect, ClaimRollback, Work, UpdateJobLost
<1>3. ASSUME NEW p \in Procs, Process(p) PROVE QueuedHasInfo'
  BY <1>3 DEF Process, SelectStale, AnswerLost, Stop, Exit, Crash, Die, Restart
<1>4. ASSUME NEW s \in inflight, Filing(s) PROVE QueuedHasInfo'
  <2>1. CASE Commit(s)
    <3>1. PICK js \in SUBSET Absent : \E rows \in [js -> JobInfo] : Insert(js, rows)
      BY <2>1, CommitInserts
    <3>2. PICK rows \in [js -> JobInfo] : Insert(js, rows)
      BY <3>1
    <3> QED BY <3>2, NoInfoAssumption DEF Insert
  <2>2. CASE Refuse(s) \/ Cancel(s)
    BY <2>2 DEF Refuse, Cancel
  <2> QED BY <1>4, <2>1, <2>2 DEF Filing
<1>5. CASE UNCHANGED vars
  BY <1>5 DEF vars
<1> QED BY <1>1, <1>2, <1>3, <1>4, <1>5 DEF Next

(* A busy loop holds a job, and a reporting one has its result.            *)
LEMMA LoopOKNext ==
  ASSUME TypeOK, LoopOK, [Next]_vars
  PROVE  LoopOK'
<1> USE DEF vars, queueVars, loopVars, LoopOK, Busy
<1>1. ASSUME NEW a \in Accounts, Api(a) PROVE LoopOK'
  BY <1>1 DEF Api, CreateCloudAccount, EnqueueFirstSync, FirstSyncNotEnqueued,
              EnqueueJob, DeleteCloudAccount, TimePasses
<1>2. ASSUME NEW l \in Loops, Loop(l) PROVE LoopOK'
  <2> USE DEF TypeOK
  <2>1. CASE ClaimSelect(l)
    BY <2>1 DEF ClaimSelect
  <2>2. CASE ClaimCommit(l)
    BY <2>2 DEF ClaimCommit, CommitClaim
  <2>3. CASE ClaimCommitUnseen(l) \/ ClaimRollback(l)
    BY <2>3 DEF ClaimCommitUnseen, ClaimRollback, Leave
  <2>4. CASE Work(l)
    BY <2>4 DEF Work
  <2>5. CASE UpdateJob(l) \/ UpdateJobLost(l)
    BY <2>5 DEF UpdateJob, UpdateJobLost, Leave
  <2> QED BY <1>2, <2>1, <2>2, <2>3, <2>4, <2>5 DEF Loop
<1>3. ASSUME NEW p \in Procs, Process(p) PROVE LoopOK'
  <2>1. CASE Exit(p) \/ Crash(p)
    BY <2>1 DEF Exit, Crash, Die, Leave
  <2>2. CASE SelectStale(p) \/ AnswerLost(p) \/ Stop(p) \/ Restart(p)
    BY <2>2 DEF SelectStale, AnswerLost, Stop, Restart
  <2> QED BY <1>3, <2>1, <2>2 DEF Process
<1>4. ASSUME NEW s \in inflight, Filing(s) PROVE LoopOK'
  BY <1>4 DEF Filing, Commit, Refuse, Cancel
<1>5. CASE UNCHANGED vars
  BY <1>5
<1> QED BY <1>1, <1>2, <1>3, <1>4, <1>5 DEF Next

LEMMA TypeInit == Init => TypeOK /\ LoopOK /\ QueuedHasInfo
BY DEF Init, TypeOK, LoopOK, QueuedHasInfo, Busy, States, BoundNames

(* Every reachable state has the types the tables and the worker declare.  *)
THEOREM TypeCorrect == Spec => [](TypeOK /\ LoopOK /\ QueuedHasInfo)
<1>1. TypeOK /\ LoopOK /\ QueuedHasInfo /\ [Next]_vars => (TypeOK /\ LoopOK /\ QueuedHasInfo)'
  <2> SUFFICES ASSUME TypeOK, LoopOK, QueuedHasInfo, [Next]_vars
               PROVE  (TypeOK /\ LoopOK /\ QueuedHasInfo)'
    OBVIOUS
  <2>1. CASE UNCHANGED vars
    BY <2>1 DEF vars, queueVars, loopVars, TypeOK, LoopOK, QueuedHasInfo, Busy
  <2>2. CASE Next
    BY <2>2, ApiTypes, LoopTypes, ProcessTypes, FilingTypes, LoopOKNext, QueuedNext
       DEF Next
  <2> QED BY <2>1, <2>2
<1> QED BY TypeInit, <1>1, PTL DEF Spec

-----------------------------------------------------------------------------
(* Ownership of jobs.  That two loops never hold one job needs that a row  *)
(* under claim is still queued and that one in somebody's hands is not;    *)
(* that a job starts once needs that a queued one never started.           *)

ClaimedIsQueued == \A l \in Loops : pc[l] = "claiming" => state[held[l]] = "queued"

WorkedIsRunning ==
  \A l \in Loops :
    pc[l] \in {"working", "reporting"} => state[held[l]] \in {"running", "deleted"}

AttemptsOK ==
  \A j \in Jobs : /\ attempts[j] <= 1
                  /\ state[j] \in {"absent", "queued"} => attempts[j] = 0

AbsentHasNoInfo == \A j \in Jobs : state[j] = "absent" <=> info[j] = NoInfo

QueueInv ==
  /\ OneLoopPerJob
  /\ ClaimedIsQueued
  /\ WorkedIsRunning
  /\ AttemptsOK
  /\ AbsentHasNoInfo

LEMMA InsertInv ==
  ASSUME TypeOK, LoopOK, QueueInv,
         NEW js \in SUBSET Absent, NEW rows \in [js -> JobInfo],
         Insert(js, rows), UNCHANGED loopVars
  PROVE  QueueInv'
<1> USE DEF Insert, Absent, Filed, loopVars
<1>1. OneLoopPerJob'
  BY DEF QueueInv, OneLoopPerJob, Busy
<1>2. ClaimedIsQueued' /\ WorkedIsRunning'
  BY DEF QueueInv, ClaimedIsQueued, WorkedIsRunning, TypeOK, LoopOK, Busy
<1>3. AttemptsOK'
  BY DEF QueueInv, AttemptsOK, TypeOK
<1>4. AbsentHasNoInfo'
  BY NoInfoAssumption DEF QueueInv, AbsentHasNoInfo, TypeOK
<1> QED BY <1>1, <1>2, <1>3, <1>4 DEF QueueInv

LEMMA ApiInv ==
  ASSUME TypeOK, LoopOK, QueueInv, NEW a \in Accounts, Api(a)
  PROVE  QueueInv'
<1>1. CASE \/ CreateCloudAccount(a) \/ EnqueueFirstSync(a) \/ FirstSyncNotEnqueued(a)
           \/ (\E kind \in Kinds : EnqueueJob(a, kind)) \/ TimePasses(a)
  BY <1>1 DEF CreateCloudAccount, EnqueueFirstSync, FirstSyncNotEnqueued, EnqueueJob,
              TimePasses, queueVars,
              loopVars, QueueInv, OneLoopPerJob, ClaimedIsQueued,
              WorkedIsRunning, AttemptsOK, AbsentHasNoInfo, Busy
<1>4. CASE DeleteCloudAccount(a)
  <2> DEFINE gone == {j \in Jobs : info[j] # NoInfo /\ info[j].account = a}
  <2>1. /\ gone \cap Locked = {}
        /\ state' = [j \in Jobs |-> IF j \in gone THEN "deleted" ELSE state[j]]
        /\ UNCHANGED <<info, attempts, pc, held>>
    BY <1>4 DEF DeleteCloudAccount, loopVars
  <2>2. \A j \in gone : state[j] # "absent"
    BY DEF QueueInv, AbsentHasNoInfo
  <2>3. gone \in SUBSET Jobs
    OBVIOUS
  <2> HIDE DEF gone
  <2>4. OneLoopPerJob'
    BY <2>1 DEF QueueInv, OneLoopPerJob, Busy
  <2>5. ClaimedIsQueued'
    BY <2>1 DEF QueueInv, ClaimedIsQueued, Locked, TypeOK, LoopOK, Busy
  <2>6. WorkedIsRunning'
    BY <2>1 DEF QueueInv, WorkedIsRunning, TypeOK, LoopOK, Busy
  <2>7. AttemptsOK'
    BY <2>1 DEF QueueInv, AttemptsOK
  <2>8. AbsentHasNoInfo'
    BY <2>1, <2>2 DEF QueueInv, AbsentHasNoInfo
  <2> QED BY <2>4, <2>5, <2>6, <2>7, <2>8 DEF QueueInv
<1> QED BY <1>1, <1>4 DEF Api

LEMMA LoopInv ==
  ASSUME TypeOK, LoopOK, QueueInv, NEW l \in Loops, Loop(l)
  PROVE  QueueInv'
<1> USE DEF queueVars, loopVars
<1>0. \A m \in Loops : Busy(m) => held[m] \in Jobs
  BY DEF LoopOK
<1>1. CASE ClaimSelect(l)
  <2>1. PICK j \in Jobs : Claimable(j) /\ held' = [held EXCEPT ![l] = j]
    BY <1>1 DEF ClaimSelect
  <2>2. state[j] = "queued" /\ j \notin Locked
    BY <2>1 DEF Claimable
  <2>3. \A m \in Loops : Busy(m) => held[m] # j
    BY <2>2 DEF QueueInv, WorkedIsRunning, Locked, Busy, TypeOK
  <2>4. OneLoopPerJob'
    BY <1>1, <2>1, <2>3 DEF ClaimSelect, QueueInv, OneLoopPerJob, Busy, TypeOK
  <2>5. ClaimedIsQueued' /\ WorkedIsRunning'
    BY <1>1, <2>1, <2>2 DEF ClaimSelect, QueueInv, ClaimedIsQueued, WorkedIsRunning, TypeOK
  <2>6. AttemptsOK' /\ AbsentHasNoInfo'
    BY <1>1 DEF ClaimSelect, QueueInv, AttemptsOK, AbsentHasNoInfo
  <2> QED BY <2>4, <2>5, <2>6 DEF QueueInv
<1>2. CASE ClaimCommit(l) \/ ClaimCommitUnseen(l)
  <2>1. /\ pc[l] = "claiming"
        /\ state' = [state EXCEPT ![held[l]] = "running"]
        /\ attempts' = [attempts EXCEPT ![held[l]] = @ + 1]
        /\ UNCHANGED info
        /\ \/ pc' = [pc EXCEPT ![l] = "working"] /\ UNCHANGED held
           \/ Leave({l})
    BY <1>2 DEF ClaimCommit, ClaimCommitUnseen, CommitClaim
  <2>2. held[l] \in Jobs /\ state[held[l]] = "queued"
    BY <1>0, <2>1 DEF Busy, QueueInv, ClaimedIsQueued
  <2>3. \A m \in Loops : Busy(m) /\ m # l => held[m] # held[l]
    BY <2>1 DEF QueueInv, OneLoopPerJob, Busy
  <2>4. OneLoopPerJob'
    BY <2>1 DEF QueueInv, OneLoopPerJob, Busy, Leave, TypeOK
  <2>5. ClaimedIsQueued' /\ WorkedIsRunning'
    BY <1>0, <2>1, <2>2, <2>3
       DEF QueueInv, ClaimedIsQueued, WorkedIsRunning, Busy, Leave, TypeOK
  <2>6. AttemptsOK'
    BY <2>1, <2>2 DEF QueueInv, AttemptsOK, TypeOK
  <2>7. AbsentHasNoInfo'
    BY <2>1, <2>2 DEF QueueInv, AbsentHasNoInfo, TypeOK
  <2> QED BY <2>4, <2>5, <2>6, <2>7 DEF QueueInv
<1>3. CASE ClaimRollback(l) \/ UpdateJobLost(l)
  <2>1. Leave({l}) /\ UNCHANGED queueVars
    BY <1>3 DEF ClaimRollback, UpdateJobLost
  <2> QED BY <2>1 DEF QueueInv, OneLoopPerJob, ClaimedIsQueued, WorkedIsRunning,
                      AttemptsOK, AbsentHasNoInfo, Busy, Leave, TypeOK
<1>4. CASE Work(l)
  <2>1. pc[l] = "working" /\ pc' = [pc EXCEPT ![l] = "reporting"]
        /\ UNCHANGED <<held, queueVars>>
    BY <1>4 DEF Work
  <2> QED BY <2>1 DEF QueueInv, OneLoopPerJob, ClaimedIsQueued, WorkedIsRunning,
                      AttemptsOK, AbsentHasNoInfo, Busy, TypeOK
<1>5. CASE UpdateJob(l)
  <2>1. /\ pc[l] = "reporting"
        /\ state' = [state EXCEPT ![held[l]] = IF @ = "deleted" THEN @ ELSE result[l]]
        /\ Leave({l}) /\ UNCHANGED <<info, attempts>>
    BY <1>5 DEF UpdateJob
  <2>2. /\ held[l] \in Jobs /\ result[l] \in Finished
        /\ state[held[l]] \in {"running", "deleted"}
    BY <2>1 DEF LoopOK, Busy, QueueInv, WorkedIsRunning
  <2>3. \A m \in Loops : Busy(m) /\ m # l => held[m] # held[l]
    BY <2>1 DEF QueueInv, OneLoopPerJob, Busy
  <2>4. OneLoopPerJob'
    BY <2>1 DEF QueueInv, OneLoopPerJob, Busy, Leave, TypeOK
  <2>5. ClaimedIsQueued' /\ WorkedIsRunning'
    BY <1>0, <2>1, <2>3
       DEF QueueInv, ClaimedIsQueued, WorkedIsRunning, Busy, Leave, TypeOK
  <2>6. AttemptsOK' /\ AbsentHasNoInfo'
    BY <2>1, <2>2 DEF QueueInv, AttemptsOK, AbsentHasNoInfo, Finished, TypeOK
  <2> QED BY <2>4, <2>5, <2>6 DEF QueueInv
<1> QED BY <1>1, <1>2, <1>3, <1>4, <1>5 DEF Loop

LEMMA ProcessInv ==
  ASSUME TypeOK, LoopOK, QueueInv, NEW p \in Procs, Process(p)
  PROVE  QueueInv'
<1>2. CASE Exit(p) \/ Crash(p)
  <2>1. Leave({l \in Loops : ProcOf(l) = p}) /\ UNCHANGED <<state, info, attempts>>
    BY <1>2 DEF Exit, Crash, Die, queueVars
  <2> QED BY <2>1 DEF QueueInv, OneLoopPerJob, ClaimedIsQueued, WorkedIsRunning,
                      AttemptsOK, AbsentHasNoInfo, Busy, Leave, TypeOK
<1>3. CASE SelectStale(p) \/ AnswerLost(p) \/ Stop(p) \/ Restart(p)
  <2>1. UNCHANGED <<state, info, attempts, pc, held>>
    BY <1>3 DEF SelectStale, AnswerLost, Stop, Restart, queueVars, loopVars
  <2> QED BY <2>1 DEF QueueInv, OneLoopPerJob, ClaimedIsQueued, WorkedIsRunning,
                      AttemptsOK, AbsentHasNoInfo, Busy
<1> QED BY <1>2, <1>3 DEF Process

LEMMA FilingInv ==
  ASSUME TypeOK, LoopOK, QueueInv, NEW s \in inflight, Filing(s)
  PROVE  QueueInv'
<1>1. CASE Commit(s)
  <2>1. PICK js \in SUBSET Absent : \E rows \in [js -> JobInfo] : Insert(js, rows)
    BY <1>1, CommitInserts
  <2>2. UNCHANGED loopVars
    BY <1>1 DEF Commit, loopVars
  <2> QED BY <2>1, <2>2, InsertInv
<1>2. CASE Refuse(s) \/ Cancel(s)
  <2>1. UNCHANGED <<state, info, attempts, pc, held>>
    BY <1>2 DEF Refuse, Cancel, queueVars, loopVars
  <2> QED BY <2>1 DEF QueueInv, OneLoopPerJob, ClaimedIsQueued, WorkedIsRunning,
                      AttemptsOK, AbsentHasNoInfo, Busy
<1> QED BY <1>1, <1>2 DEF Filing

IInv == TypeOK /\ LoopOK /\ QueuedHasInfo /\ QueueInv

(* The inductive invariant of the queue.                                   *)
THEOREM QueueInvariant == Spec => []IInv
<1>1. Init => IInv
  <2> SUFFICES ASSUME Init PROVE QueueInv
    BY TypeInit DEF IInv
  <2> QED BY DEF Init, QueueInv, OneLoopPerJob, ClaimedIsQueued, WorkedIsRunning,
                 AttemptsOK, AbsentHasNoInfo, Busy
<1>2. TypeOK /\ LoopOK /\ QueueInv /\ [Next]_vars => QueueInv'
  <2> SUFFICES ASSUME TypeOK, LoopOK, QueueInv, [Next]_vars PROVE QueueInv'
    OBVIOUS
  <2>1. CASE UNCHANGED vars
    BY <2>1 DEF vars, queueVars, loopVars, QueueInv, OneLoopPerJob, ClaimedIsQueued,
                WorkedIsRunning, AttemptsOK, AbsentHasNoInfo, Busy
  <2>2. CASE Next
    BY <2>2, ApiInv, LoopInv, ProcessInv, FilingInv DEF Next
  <2> QED BY <2>1, <2>2
<1> QED BY <1>1, <1>2, TypeCorrect, PTL DEF Spec, IInv

(* No job is ever in the hands of two loops.                               *)
THEOREM Exclusive == Spec => []OneLoopPerJob
<1>1. IInv => OneLoopPerJob
  BY DEF IInv, QueueInv
<1> QED BY <1>1, QueueInvariant, PTL

(* No job is ever started twice.                                           *)
THEOREM AtMostOneStart == Spec => []StartedOnce
<1>1. IInv => StartedOnce
  BY DEF IInv, QueueInv, AttemptsOK, StartedOnce
<1> QED BY <1>1, QueueInvariant, PTL

-----------------------------------------------------------------------------
(* What a step does to the rows of jobs.  Rows appear when a statement     *)
(* commits; every other step leaves their columns alone, and moves a row's *)
(* state along its life.                                                   *)

MovesOn(j) ==
  \/ state'[j] \in {state[j], "deleted"}
  \/ /\ state[j] = "queued" /\ state'[j] = "running"
     /\ \E l \in Loops : pc[l] = "claiming" /\ held[l] = j
  \/ state[j] = "running" /\ state'[j] \in Finished

RowsMoveOn == UNCHANGED info /\ \A j \in Jobs : MovesOn(j)

LEMMA ApiRows ==
  ASSUME IInv, NEW a \in Accounts, Api(a)
  PROVE  RowsMoveOn /\ UNCHANGED <<pc, held>>
<1>1. UNCHANGED <<pc, held>>
  BY DEF Api, CreateCloudAccount, EnqueueFirstSync, FirstSyncNotEnqueued, EnqueueJob,
         DeleteCloudAccount, TimePasses, loopVars
<1>2. CASE DeleteCloudAccount(a)
  BY <1>1, <1>2 DEF DeleteCloudAccount, RowsMoveOn, MovesOn
<1>3. CASE UNCHANGED queueVars
  BY <1>1, <1>3 DEF queueVars, RowsMoveOn, MovesOn
<1> QED BY <1>2, <1>3 DEF Api, CreateCloudAccount, EnqueueFirstSync, FirstSyncNotEnqueued,
                          EnqueueJob, TimePasses

LEMMA LoopRows ==
  ASSUME IInv, NEW l \in Loops, Loop(l)
  PROVE  RowsMoveOn /\ UNCHANGED inflight
<1> USE DEF queueVars, RowsMoveOn, MovesOn
<1>0. TypeOK /\ \A m \in Loops : Busy(m) => held[m] \in Jobs
  BY DEF IInv, LoopOK
<1>1. CASE ClaimSelect(l) \/ ClaimRollback(l) \/ Work(l) \/ UpdateJobLost(l)
  BY <1>1 DEF ClaimSelect, ClaimRollback, Work, UpdateJobLost
<1>2. CASE ClaimCommit(l) \/ ClaimCommitUnseen(l)
  <2>1. /\ pc[l] = "claiming" /\ UNCHANGED <<info, inflight>>
        /\ state' = [state EXCEPT ![held[l]] = "running"]
    BY <1>2 DEF ClaimCommit, ClaimCommitUnseen, CommitClaim
  <2>2. held[l] \in Jobs /\ state[held[l]] = "queued"
    BY <1>0, <2>1 DEF Busy, IInv, QueueInv, ClaimedIsQueued
  <2> QED BY <1>0, <2>1, <2>2 DEF TypeOK
<1>3. CASE UpdateJob(l)
  <2>1. /\ pc[l] = "reporting" /\ UNCHANGED <<info, inflight>>
        /\ state' = [state EXCEPT ![held[l]] = IF @ = "deleted" THEN @ ELSE result[l]]
    BY <1>3 DEF UpdateJob
  <2>2. /\ held[l] \in Jobs /\ result[l] \in Finished
        /\ state[held[l]] \in {"running", "deleted"}
    BY <1>0, <2>1 DEF Busy, IInv, LoopOK, QueueInv, WorkedIsRunning
  <2> QED BY <1>0, <2>1, <2>2 DEF TypeOK
<1> QED BY <1>1, <1>2, <1>3 DEF Loop

LEMMA StepRows ==
  ASSUME IInv, [Next]_vars
  PROVE  RowsMoveOn \/ \E s \in inflight : Commit(s)
<1>1. CASE UNCHANGED queueVars
  BY <1>1 DEF queueVars, RowsMoveOn, MovesOn
<1>2. ASSUME NEW p \in Procs, Process(p) PROVE UNCHANGED queueVars
  BY <1>2 DEF Process, SelectStale, AnswerLost, Stop, Exit, Crash, Die, Restart
<1>3. ASSUME NEW s \in inflight, Filing(s), ~Commit(s) PROVE UNCHANGED queueVars
  BY <1>3 DEF Filing, Refuse, Cancel
<1> QED BY <1>1, <1>2, <1>3, ApiRows, LoopRows DEF Next, vars

(* What a commit leaves of the rows that were there.                       *)
LEMMA CommitRows ==
  ASSUME IInv, NEW s \in inflight, Commit(s)
  PROVE  /\ UNCHANGED <<pc, held>> /\ inflight' = inflight \ {s}
         /\ \A j \in Jobs : \/ UNCHANGED <<state[j], info[j]>>
                            \/ /\ state[j] = "absent" /\ state'[j] = "queued"
                               /\ \E a \in s.accounts : info'[j] = Row(s, a)
         /\ \A j, k \in Jobs : /\ state[j] = "absent" /\ state'[j] = "queued"
                               /\ state[k] = "absent" /\ state'[k] = "queued"
                               /\ info'[j].account = info'[k].account
                               => j = k
<1>1. PICK js \in SUBSET Absent : \E rows \in [js -> JobInfo] :
        /\ Insert(js, rows)
        /\ \A j \in js : \E a \in s.accounts : rows[j] = Row(s, a)
        /\ \A j, k \in js : rows[j].account = rows[k].account => j = k
  BY CommitInserts DEF IInv
<1>2. PICK rows \in [js -> JobInfo] :
        /\ Insert(js, rows)
        /\ \A j \in js : \E a \in s.accounts : rows[j] = Row(s, a)
        /\ \A j, k \in js : rows[j].account = rows[k].account => j = k
  BY <1>1
<1>3. \A j \in Jobs : IF j \in js THEN /\ state[j] = "absent" /\ state'[j] = "queued"
                                       /\ info'[j] = rows[j]
                                  ELSE UNCHANGED <<state[j], info[j]>>
  BY <1>2 DEF Insert, Absent, Filed
<1>4. UNCHANGED <<pc, held>> /\ inflight' = inflight \ {s}
  BY DEF Commit, loopVars
<1> HIDE DEF Commit
<1>5. \A j \in Jobs : state[j] = "absent" /\ state'[j] = "queued" => j \in js
  BY <1>3
<1> QED BY <1>2, <1>3, <1>4, <1>5

(* A loop comes to a claim only by selecting a row for it.                 *)
LEMMA ClaimBegins ==
  ASSUME IInv, [Next]_vars, NEW l \in Loops, pc'[l] = "claiming"
  PROVE  ClaimSelect(l) \/ (pc[l] = "claiming" /\ held'[l] = held[l])
<1>1. ASSUME NEW a \in Accounts, Api(a) PROVE pc[l] = "claiming" /\ held'[l] = held[l]
  BY <1>1, ApiRows
<1>2. ASSUME NEW m \in Loops, Loop(m), ~ClaimSelect(l)
      PROVE  pc[l] = "claiming" /\ held'[l] = held[l]
  BY <1>2 DEF Loop, ClaimSelect, ClaimCommit, ClaimCommitUnseen, ClaimRollback, Work,
              UpdateJob, UpdateJobLost, Leave, IInv, TypeOK
<1>3. ASSUME NEW p \in Procs, Process(p) PROVE pc[l] = "claiming" /\ held'[l] = held[l]
  BY <1>3 DEF Process, SelectStale, AnswerLost, Stop, Exit, Crash, Die, Restart, Leave,
              loopVars
<1>4. ASSUME NEW s \in inflight, Filing(s) PROVE pc[l] = "claiming" /\ held'[l] = held[l]
  BY <1>4 DEF Filing, Commit, Refuse, Cancel, loopVars
<1>5. CASE UNCHANGED vars
  BY <1>5 DEF vars, loopVars
<1> QED BY <1>1, <1>2, <1>3, <1>4, <1>5 DEF Next

-----------------------------------------------------------------------------
(* Finished jobs.                                                          *)

(* Only a loop carrying a job out writes its state, and then it is not     *)
(* finished; only unlinking touches the others.                            *)
THEOREM ResultsAreFinal == Spec => FinishedIsFinal
<1> DEFINE Final == \A j \in Jobs : state[j] \in Finished => state'[j] \in {state[j], "deleted"}
<1>1. ASSUME IInv, [Next]_vars PROVE Final
  <2>1. CASE RowsMoveOn
    BY <2>1 DEF RowsMoveOn, MovesOn, Finished
  <2>2. CASE \E s \in inflight : Commit(s)
    BY <1>1, <2>2, CommitRows DEF Finished
  <2> QED BY <1>1, <2>1, <2>2, StepRows
<1>2. IInv /\ [Next]_vars => [Final]_vars
  BY <1>1
<1> QED BY <1>2, QueueInvariant, PTL DEF Spec, FinishedIsFinal

-----------------------------------------------------------------------------
(* Running jobs.  Without faults and stops no process is ever stopping, so *)
(* a loop leaves a running job only by writing its result.                 *)

NoneStopping == used["stops"] = 0 => \A p \in Procs : proc[p] # "stopping"

(* Bounds are only ever used up.                                           *)
LEMMA UndisturbedBefore ==
  ASSUME TypeOK, [Next]_vars, Undisturbed'
  PROVE  Undisturbed
<1> USE DEF TypeOK, Undisturbed, Spend, BoundNames
<1>1. ASSUME NEW a \in Accounts, Api(a) PROVE Undisturbed
  BY <1>1 DEF Api, CreateCloudAccount, EnqueueFirstSync, FirstSyncNotEnqueued,
              EnqueueJob, DeleteCloudAccount, TimePasses
<1>2. ASSUME NEW l \in Loops, Loop(l) PROVE Undisturbed
  BY <1>2 DEF Loop, ClaimSelect, ClaimCommit, ClaimCommitUnseen, ClaimRollback,
              Interrupted, Work, UpdateJob, UpdateJobLost
<1>3. ASSUME NEW p \in Procs, Process(p) PROVE Undisturbed
  BY <1>3 DEF Process, SelectStale, AnswerLost, Stop, Exit, Crash, Restart
<1>4. ASSUME NEW s \in inflight, Filing(s) PROVE Undisturbed
  BY <1>4 DEF Filing, Commit, Refuse, Cancel
<1> QED BY <1>1, <1>2, <1>3, <1>4 DEF Next, vars

LEMMA NoneStoppingNext ==
  ASSUME TypeOK, NoneStopping, [Next]_vars
  PROVE  NoneStopping'
<1> USE DEF TypeOK, NoneStopping, Spend, BoundNames
<1>1. ASSUME NEW a \in Accounts, Api(a) PROVE NoneStopping'
  BY <1>1 DEF Api, CreateCloudAccount, EnqueueFirstSync, FirstSyncNotEnqueued,
              EnqueueJob, DeleteCloudAccount, TimePasses
<1>2. ASSUME NEW l \in Loops, Loop(l) PROVE NoneStopping'
  BY <1>2 DEF Loop, ClaimSelect, ClaimCommit, ClaimCommitUnseen, ClaimRollback,
              CommitClaim, Interrupted, Work, UpdateJob, UpdateJobLost
<1>3. ASSUME NEW p \in Procs, Process(p) PROVE NoneStopping'
  BY <1>3 DEF Process, SelectStale, AnswerLost, Stop, Exit, Crash, Die, Restart
<1>4. ASSUME NEW s \in inflight, Filing(s) PROVE NoneStopping'
  BY <1>4 DEF Filing, Commit, Refuse, Cancel
<1> QED BY <1>1, <1>2, <1>3, <1>4 DEF Next, vars

(* A step that neither writes jobs.state nor lets a working loop go keeps  *)
(* running jobs owned; so does one that only files jobs.                   *)
LEMMA OwnedKept ==
  ASSUME TypeOK, [Next]_vars, RunningIsOwned, Undisturbed,
         \A j \in Jobs : state'[j] = "running" => state[j] = "running",
         \A l \in Loops : /\ pc[l] \in {"working", "reporting"}
                          /\ state'[held[l]] = "running"
                          => pc'[l] \in {"working", "reporting"} /\ held'[l] = held[l]
  PROVE  RunningIsOwned'
BY DEF RunningIsOwned, Undisturbed, Owned

LEMMA RunningIsOwnedNext ==
  ASSUME IInv, NoneStopping, RunningIsOwned, [Next]_vars
  PROVE  RunningIsOwned'
<1> SUFFICES ASSUME Undisturbed' PROVE RunningIsOwned'
  BY DEF RunningIsOwned, Undisturbed
<1> USE DEF IInv
<1>0. Undisturbed
  BY UndisturbedBefore
<1>1. ASSUME NEW a \in Accounts, Api(a) PROVE RunningIsOwned'
  <2>1. \A j \in Jobs : state'[j] = "running" => state[j] = "running"
    BY <1>1 DEF Api, CreateCloudAccount, EnqueueFirstSync, FirstSyncNotEnqueued, EnqueueJob,
                DeleteCloudAccount, TimePasses, queueVars, TypeOK
  <2>2. UNCHANGED <<pc, held>>
    BY <1>1 DEF Api, CreateCloudAccount, EnqueueFirstSync, FirstSyncNotEnqueued, EnqueueJob,
                DeleteCloudAccount, TimePasses, loopVars
  <2> QED BY <1>0, <2>1, <2>2, OwnedKept
<1>2. ASSUME NEW l \in Loops, Loop(l) PROVE RunningIsOwned'
  <2>0. proc[ProcOf(l)] # "stopping" /\ ~(used["faults"] < Bounds["faults"]
          /\ used' = [used EXCEPT !["faults"] = @ + 1])
    BY <1>0 DEF Undisturbed, NoneStopping, TypeOK, BoundNames, Loops, ProcOf
  <2> USE DEF TypeOK
  <2>1. CASE ClaimSelect(l)
    BY <1>0, <2>1, OwnedKept DEF ClaimSelect, queueVars
  <2>2. CASE ClaimCommit(l)
    BY <1>0, <2>2 DEF ClaimCommit, CommitClaim, RunningIsOwned, Undisturbed, Owned
  <2>3. CASE ClaimCommitUnseen(l) \/ ClaimRollback(l) \/ UpdateJobLost(l)
    BY <2>0, <2>3 DEF ClaimCommitUnseen, ClaimRollback, UpdateJobLost, Interrupted, Spend
  <2>4. CASE Work(l)
    BY <1>0, <2>4, OwnedKept DEF Work, queueVars
  <2>5. CASE UpdateJob(l)
    <3>1. held[l] \in Jobs /\ result[l] \in Finished
      BY <2>5 DEF UpdateJob, LoopOK, Busy
    <3>2. /\ state' = [state EXCEPT ![held[l]] = IF @ = "deleted" THEN @ ELSE result[l]]
          /\ Leave({l})
      BY <2>5 DEF UpdateJob
    <3>3. \A j \in Jobs : state'[j] = "running" => state[j] = "running" /\ j # held[l]
      BY <3>1, <3>2 DEF Finished
    <3>4. ASSUME NEW m \in Loops, pc[m] \in {"working", "reporting"},
                 state'[held[m]] = "running"
          PROVE  pc'[m] \in {"working", "reporting"} /\ held'[m] = held[m]
      <4>1. held[m] \in Jobs
        BY <3>4 DEF LoopOK, Busy
      <4>2. m # l
        BY <3>3, <3>4, <4>1
      <4> QED BY <3>2, <3>4, <4>2 DEF Leave
    <3> QED BY <1>0, <3>3, <3>4, OwnedKept
  <2> QED BY <1>2, <2>1, <2>2, <2>3, <2>4, <2>5 DEF Loop
<1>3. ASSUME NEW p \in Procs, Process(p) PROVE RunningIsOwned'
  <2>1. CASE Stop(p) \/ Exit(p) \/ Crash(p)
    BY <1>0, <2>1 DEF Stop, Exit, Crash, Spend, Undisturbed, NoneStopping, TypeOK,
                      BoundNames
  <2>2. CASE SelectStale(p) \/ AnswerLost(p) \/ Restart(p)
    BY <1>0, <2>2, OwnedKept DEF SelectStale, AnswerLost, Restart, queueVars, loopVars
  <2> QED BY <1>3, <2>1, <2>2 DEF Process
<1>4. ASSUME NEW s \in inflight, Filing(s) PROVE RunningIsOwned'
  <2>1. CASE Commit(s)
    <3>1. \A j \in Jobs : state'[j] = "running" => state[j] = "running"
      BY <2>1, CommitRows
    <3> QED BY <1>0, <2>1, <3>1, CommitRows, OwnedKept
  <2>2. CASE Refuse(s) \/ Cancel(s)
    BY <1>0, <2>2, OwnedKept DEF Refuse, Cancel, queueVars, loopVars
  <2> QED BY <1>4, <2>1, <2>2 DEF Filing
<1>5. CASE UNCHANGED vars
  BY <1>5 DEF vars, queueVars, loopVars, RunningIsOwned, Owned, Undisturbed
<1> QED BY <1>1, <1>2, <1>3, <1>4, <1>5 DEF Next

(* Without faults and stops, what is running is being worked on.           *)
THEOREM RunningJobsAreOwned == Spec => []RunningIsOwned
<1>1. Init => NoneStopping /\ RunningIsOwned
  BY DEF Init, NoneStopping, RunningIsOwned
<1>2. IInv /\ NoneStopping /\ RunningIsOwned /\ [Next]_vars
        => (NoneStopping /\ RunningIsOwned)'
  BY NoneStoppingNext, RunningIsOwnedNext DEF IInv
<1> QED BY <1>1, <1>2, QueueInvariant, PTL DEF Spec

-----------------------------------------------------------------------------
(* The scheduler of one process.  OneScheduledSync is not inductive:       *)
(* between what EnqueueStaleSyncs reads and what it inserts, the process   *)
(* must not file a sync for an account it has read.                        *)

Scheduled(j, p, a) ==
  /\ state[j] \in {"queued", "running"}
  /\ info[j].from = p /\ info[j].account = a

SchedulerFilesSyncs ==
  /\ \A j \in Jobs : info[j] # NoInfo /\ info[j].from \in Procs => info[j].kind = "sync"
  /\ \A s \in inflight : s.from \in Procs => s.kind = "sync"

OneStatement ==
  \A s, t \in inflight : s.from \in Procs /\ s.from = t.from => s = t

OneScheduled ==
  \A j, k \in Jobs, p \in Procs, a \in Accounts :
    Scheduled(j, p, a) /\ Scheduled(k, p, a) => j = k

ReadAreFree ==
  \A s \in inflight : s.from \in Procs =>
    \A a \in s.accounts, j \in Jobs : ~Scheduled(j, s.from, a)

SchedulerInv == SchedulerFilesSyncs /\ OneStatement /\ OneScheduled /\ ReadAreFree

(* A statement of a process begins only when it selects the stale          *)
(* accounts, and then it is the only one.                                  *)
LEMMA ScheduledBegins ==
  ASSUME IInv, [Next]_vars, NEW s \in inflight', s.from \in Procs, s \notin inflight
  PROVE  /\ inflight' = inflight \cup {s}
         /\ s.kind = "sync" /\ s.accounts = {a \in Accounts : Stale(a)}
         /\ \A t \in inflight : t.from # s.from
         /\ UNCHANGED queueVars
<1>0. TypeOK /\ QueuedHasInfo /\ "api" \notin Procs /\ "orphan" \notin Procs
  BY ProcsAssumption DEF IInv
<1>1. ASSUME NEW a \in Accounts, Api(a) PROVE FALSE
  <2>1. ASSUME NEW kind \in Kinds, Issue("api", {a}, kind) PROVE FALSE
    <3>1. PICK t \in Statement : inflight' = inflight \cup {t} /\ t.from = "api"
      BY <1>0, <2>1, IssueAdds DEF Origins
    <3> QED BY <1>0, <3>1
  <2> QED BY <1>1, <2>1 DEF Api, CreateCloudAccount, EnqueueFirstSync,
             FirstSyncNotEnqueued, EnqueueJob, DeleteCloudAccount, TimePasses, Kinds
<1>2. ASSUME NEW l \in Loops, Loop(l) PROVE FALSE
  BY <1>2, LoopRows
<1>3. ASSUME NEW p \in Procs, Abandon(p) PROVE FALSE
  <2>1. \A t \in inflight : [t EXCEPT !.from = "orphan"].from = "orphan"
    BY <1>0 DEF TypeOK, Statement
  <2>2. CASE inflight' = {t \in inflight : t.from # p}
    BY <2>2
  <2>3. CASE inflight' = {IF t.from = p THEN [t EXCEPT !.from = "orphan"] ELSE t :
                            t \in inflight}
    <3>1. PICK t \in inflight : s = IF t.from = p THEN [t EXCEPT !.from = "orphan"] ELSE t
      BY <2>3
    <3>2. CASE t.from = p
      BY <1>0, <2>1, <3>1, <3>2
    <3> QED BY <3>1, <3>2
  <2> QED BY <1>3, <2>2, <2>3 DEF Abandon
<1>4. ASSUME NEW t \in inflight, Filing(t) PROVE FALSE
  BY <1>4 DEF Filing, Commit, Refuse, Cancel
<1>5. PICK p \in Procs : SelectStale(p)
  BY <1>1, <1>2, <1>3, <1>4
     DEF Next, vars, Process, AnswerLost, Stop, Exit, Crash, Die, Restart
<1> DEFINE found == {a \in Accounts : Stale(a)}
<1>6. Issue(p, found, "sync") /\ UNCHANGED queueVars /\ \A t \in inflight : t.from # p
  BY <1>5 DEF SelectStale
<1>7. found \in SUBSET Accounts
  OBVIOUS
<1> HIDE DEF found
<1>8. PICK t \in Statement : /\ inflight' = inflight \cup {t}
                             /\ t.from = p /\ t.accounts = found /\ t.kind = "sync"
  BY <1>0, <1>6, <1>7, IssueAdds DEF Origins, Kinds
<1>9. s = t
  BY <1>8
<1> QED BY <1>6, <1>8, <1>9 DEF found

LEMMA SchedulerInvNext ==
  ASSUME IInv, SchedulerInv, [Next]_vars
  PROVE  SchedulerInv'
<1>1. CASE RowsMoveOn
  <2>1. \A j \in Jobs, p \in Procs, a \in Accounts :
          Scheduled(j, p, a)' => Scheduled(j, p, a)
    BY <1>1 DEF RowsMoveOn, MovesOn, Scheduled, Finished
  <2>2. OneScheduled'
    BY <2>1 DEF SchedulerInv, OneScheduled
  <2>3. SchedulerFilesSyncs'
    BY <1>1, ScheduledBegins DEF SchedulerInv, SchedulerFilesSyncs, RowsMoveOn
  <2>4. OneStatement'
    BY ScheduledBegins DEF SchedulerInv, OneStatement
  <2>5. ReadAreFree'
    <3> SUFFICES ASSUME NEW s \in inflight', s.from \in Procs,
                        NEW a \in s.accounts, NEW j \in Jobs, Scheduled(j, s.from, a)'
                 PROVE  FALSE
      BY DEF ReadAreFree
    <3>1. CASE s \in inflight
      <4>1. a \in Accounts
        BY <3>1 DEF IInv, TypeOK, Statement
      <4> QED BY <2>1, <3>1, <4>1 DEF SchedulerInv, ReadAreFree
    <3>2. CASE s \notin inflight
      <4>1. a \in Accounts /\ Stale(a)
        BY <3>2, ScheduledBegins
      <4>2. state[j] \in {"queued", "running"} /\ info[j].from \in Procs /\ info[j].account = a
        BY <2>1, <4>1 DEF Scheduled
      <4>3. info[j] # NoInfo
        BY <4>2 DEF IInv, QueueInv, AbsentHasNoInfo
      <4> QED BY <4>1, <4>2, <4>3 DEF Stale, SyncPending, SchedulerInv, SchedulerFilesSyncs
    <3> QED BY <3>1, <3>2
  <2> QED BY <2>2, <2>3, <2>4, <2>5 DEF SchedulerInv
<1>2. ASSUME NEW s \in inflight, Commit(s) PROVE SchedulerInv'
  <2>0. /\ UNCHANGED <<pc, held>> /\ inflight' = inflight \ {s}
        /\ \A j \in Jobs : \/ UNCHANGED <<state[j], info[j]>>
                           \/ /\ state[j] = "absent" /\ state'[j] = "queued"
                              /\ \E a \in s.accounts : info'[j] = Row(s, a)
        /\ \A j, k \in Jobs : /\ state[j] = "absent" /\ state'[j] = "queued"
                              /\ state[k] = "absent" /\ state'[k] = "queued"
                              /\ info'[j].account = info'[k].account
                              => j = k
    BY <1>2, CommitRows
  <2>1. \A j \in Jobs :
          \/ UNCHANGED <<state[j], info[j]>>
          \/ /\ state[j] = "absent" /\ state'[j] = "queued"
             /\ info'[j].from = s.from /\ info'[j].kind = s.kind
             /\ info'[j].account \in s.accounts
    <3>1. \A a : /\ Row(s, a).from = s.from /\ Row(s, a).kind = s.kind
                 /\ Row(s, a).account = a
      BY DEF Row
    <3> QED BY <2>0, <3>1
  <2>2. SchedulerFilesSyncs'
    BY <2>0, <2>1 DEF SchedulerInv, SchedulerFilesSyncs
  <2>3. OneStatement'
    BY <2>0 DEF SchedulerInv, OneStatement
  <2>4. OneScheduled'
    <3> SUFFICES ASSUME NEW j \in Jobs, NEW k \in Jobs, NEW p \in Procs, NEW a \in Accounts,
                        Scheduled(j, p, a)', Scheduled(k, p, a)'
                 PROVE  j = k
      BY DEF OneScheduled
    <3>1. CASE Scheduled(j, p, a) /\ Scheduled(k, p, a)
      BY <3>1 DEF SchedulerInv, OneScheduled
    <3>2. \A i \in Jobs : Scheduled(i, p, a)' /\ ~Scheduled(i, p, a)
            => s.from = p /\ a \in s.accounts /\ state[i] = "absent" /\ state'[i] = "queued"
      BY <2>1 DEF Scheduled
    <3>3. s.from = p /\ a \in s.accounts => ~Scheduled(j, p, a) /\ ~Scheduled(k, p, a)
      BY DEF SchedulerInv, ReadAreFree
    <3> QED BY <2>0, <3>1, <3>2, <3>3 DEF Scheduled
  <2>5. ReadAreFree'
    <3> SUFFICES ASSUME NEW t \in inflight', t.from \in Procs,
                        NEW a \in t.accounts, NEW j \in Jobs, Scheduled(j, t.from, a)'
                 PROVE  FALSE
      BY DEF ReadAreFree
    <3>1. t \in inflight /\ t # s
      BY <2>0
    <3>2. s.from # t.from
      BY <3>1 DEF SchedulerInv, OneStatement
    <3>3. Scheduled(j, t.from, a)
      BY <2>1, <3>2 DEF Scheduled
    <3> QED BY <3>1, <3>3 DEF SchedulerInv, ReadAreFree
  <2> QED BY <2>2, <2>3, <2>4, <2>5 DEF SchedulerInv
<1> QED BY <1>1, <1>2, StepRows

(* NOT EXISTS keeps the scheduler of a process from filing a second sync   *)
(* of an account whose first one is pending.                               *)
THEOREM OneSyncScheduled == Spec => []OneScheduledSync
<1>1. Init => SchedulerInv
  BY DEF Init, SchedulerInv, SchedulerFilesSyncs, OneStatement, OneScheduled, ReadAreFree,
         Scheduled
<1>2. IInv /\ SchedulerInv /\ [Next]_vars => SchedulerInv'
  BY SchedulerInvNext
<1>3. IInv /\ SchedulerInv => OneScheduledSync
  <2> SUFFICES ASSUME IInv, SchedulerInv,
                      NEW j \in Jobs, NEW k \in Jobs,
                      {state[j], state[k]} \subseteq {"queued", "running"},
                      info[j].from \in Procs, info[j].from = info[k].from,
                      info[j].account = info[k].account
               PROVE  j = k
    BY DEF OneScheduledSync
  <2>1. info[j].account \in Accounts
    BY DEF IInv, TypeOK, JobInfo, QueueInv, AbsentHasNoInfo
  <2>2. /\ Scheduled(j, info[j].from, info[j].account)
        /\ Scheduled(k, info[j].from, info[j].account)
    BY DEF Scheduled
  <2> QED BY <2>1, <2>2 DEF SchedulerInv, OneScheduled
<1> QED BY <1>1, <1>2, <1>3, QueueInvariant, PTL DEF Spec

-----------------------------------------------------------------------------
(* The order of starts.  StartInOrder is not inductive: the stamps must    *)
(* agree with what each statement had seen, and the row under claim must   *)
(* have been the oldest one left when it was selected.                     *)

SingleLoop == \A l, m \in Loops : l = m

Taken(j) == state[j] # "queued" \/ (~SingleLoop /\ j \in Locked)

StatementsStamped ==
  \A s \in inflight : \A j \in s.after :
    state[j] # "absent" /\ (state[j] = "queued" => info[j].at < s.at)

RowsStamped ==
  \A j, k \in Jobs : info[k] # NoInfo /\ j \in info[k].after =>
    state[j] # "absent" /\ (state[j] = "queued" => info[j].at < info[k].at)

TakenInOrder ==
  \A j, k \in Jobs :
    (state[k] \in Started \/ k \in Locked) /\ j \in info[k].after => Taken(j)

OrderInv ==
  /\ StatementsStamped
  /\ RowsStamped
  /\ SingleLoop \/ Undisturbed => TakenInOrder

(* A statement is as old as it was, or begins now.                         *)
LEMMA StatementBegins ==
  ASSUME IInv, [Next]_vars, NEW s \in inflight'
  PROVE  \/ \E t \in inflight : s.at = t.at /\ s.after = t.after
         \/ s.after = Filed /\ (\A n \in Stamps : n < s.at) /\ UNCHANGED queueVars
<1>0. TypeOK /\ QueuedHasInfo
  BY DEF IInv
<1> SUFFICES ASSUME s \notin inflight
             PROVE  \/ \E t \in inflight : s.at = t.at /\ s.after = t.after
                    \/ s.after = Filed /\ (\A n \in Stamps : n < s.at) /\ UNCHANGED queueVars
  OBVIOUS
<1>1. ASSUME NEW from \in Origins, NEW as \in SUBSET Accounts, NEW kind \in Kinds,
             Issue(from, as, kind)
      PROVE  s.after = Filed /\ \A n \in Stamps : n < s.at
  <2>1. PICK t \in Statement : /\ inflight' = inflight \cup {t}
                               /\ t.after = Filed /\ \A n \in Stamps : n < t.at
    BY <1>0, <1>1, IssueAdds
  <2> QED BY <2>1
<1>2. ASSUME NEW a \in Accounts, Api(a)
      PROVE  s.after = Filed /\ (\A n \in Stamps : n < s.at) /\ UNCHANGED queueVars
  <2>1. UNCHANGED queueVars /\ \E kind \in Kinds : Issue("api", {a}, kind)
    BY <1>2 DEF Api, CreateCloudAccount, EnqueueFirstSync, FirstSyncNotEnqueued, EnqueueJob,
                DeleteCloudAccount, TimePasses, Kinds
  <2>2. PICK kind \in Kinds : Issue("api", {a}, kind)
    BY <2>1
  <2> QED BY <1>1, <2>1, <2>2 DEF Origins
<1>3. ASSUME NEW l \in Loops, Loop(l) PROVE FALSE
  BY <1>3, LoopRows
<1>4. ASSUME NEW p \in Procs, SelectStale(p)
      PROVE  s.after = Filed /\ (\A n \in Stamps : n < s.at) /\ UNCHANGED queueVars
  <2>1. UNCHANGED queueVars /\ Issue(p, {a \in Accounts : Stale(a)}, "sync")
    BY <1>4 DEF SelectStale
  <2> QED BY <1>1, <2>1 DEF Origins, Kinds
<1>5. ASSUME NEW p \in Procs, Abandon(p)
      PROVE  \E t \in inflight : s.at = t.at /\ s.after = t.after
  <2>1. \A t \in inflight : /\ [t EXCEPT !.from = "orphan"].at = t.at
                            /\ [t EXCEPT !.from = "orphan"].after = t.after
    BY <1>0 DEF TypeOK, Statement
  <2>2. inflight' = {IF t.from = p THEN [t EXCEPT !.from = "orphan"] ELSE t : t \in inflight}
    BY <1>5 DEF Abandon
  <2>3. PICK t \in inflight : s = IF t.from = p THEN [t EXCEPT !.from = "orphan"] ELSE t
    BY <2>2
  <2> QED BY <2>1, <2>3
<1>6. ASSUME NEW t \in inflight, Filing(t) PROVE FALSE
  BY <1>6 DEF Filing, Commit, Refuse, Cancel
<1> QED BY <1>2, <1>3, <1>4, <1>5, <1>6
        DEF Next, vars, Process, AnswerLost, Stop, Exit, Crash, Die, Restart

(* Stamps keep agreeing with what was seen: a row that is filed is never   *)
(* older than what its statement had seen, and rows keep their columns.    *)
LEMMA StampedNext ==
  ASSUME IInv, StatementsStamped, RowsStamped, [Next]_vars
  PROVE  StatementsStamped' /\ RowsStamped'
<1>0. /\ TypeOK
      /\ \A j \in Jobs : state[j] = "queued" => info[j] # NoInfo
      /\ \A j \in Jobs : state[j] = "absent" <=> info[j] = NoInfo
  BY DEF IInv, QueuedHasInfo, QueueInv, AbsentHasNoInfo
<1>1. \A j \in Jobs : /\ state[j] # "absent" => state'[j] # "absent" /\ info'[j] = info[j]
                      /\ state[j] # "absent" /\ state'[j] = "queued" => state[j] = "queued"
  <2>1. CASE RowsMoveOn
    BY <2>1 DEF RowsMoveOn, MovesOn, Finished
  <2> QED BY <2>1, StepRows, CommitRows
<1>2. \A s \in inflight : s.after \subseteq Jobs
  BY <1>0 DEF TypeOK, Statement
<1>3. StatementsStamped'
  <2> SUFFICES ASSUME NEW s \in inflight', NEW j \in s.after
               PROVE  state'[j] # "absent" /\ (state'[j] = "queued" => info'[j].at < s.at)
    BY DEF StatementsStamped
  <2>1. ASSUME NEW t \in inflight, s.at = t.at, s.after = t.after
        PROVE  state'[j] # "absent" /\ (state'[j] = "queued" => info'[j].at < s.at)
    <3>1. j \in Jobs /\ state[j] # "absent" /\ (state[j] = "queued" => info[j].at < s.at)
      BY <1>2, <2>1 DEF StatementsStamped
    <3> QED BY <1>1, <3>1
  <2>2. CASE s.after = Filed /\ (\A n \in Stamps : n < s.at) /\ UNCHANGED queueVars
    BY <2>2 DEF Filed, Stamps, queueVars
  <2> QED BY <2>1, <2>2, StatementBegins
<1>4. RowsStamped'
  <2> SUFFICES ASSUME NEW j \in Jobs, NEW k \in Jobs,
                      info'[k] # NoInfo, j \in info'[k].after
               PROVE  state'[j] # "absent" /\ (state'[j] = "queued" => info'[j].at < info'[k].at)
    BY DEF RowsStamped
  <2>1. CASE info'[k] = info[k]
    <3>1. state[j] # "absent" /\ (state[j] = "queued" => info[j].at < info[k].at)
      BY <2>1 DEF RowsStamped
    <3> QED BY <1>1, <2>1, <3>1
  <2>2. CASE info'[k] # info[k]
    <3>1. PICK s \in inflight : Commit(s)
      BY <2>2, StepRows DEF RowsMoveOn
    <3>2. \E a \in s.accounts : info'[k] = Row(s, a)
      BY <2>2, <3>1, CommitRows
    <3>3. info'[k].at = s.at /\ info'[k].after = s.after
      BY <3>2 DEF Row
    <3>4. state[j] # "absent" /\ (state[j] = "queued" => info[j].at < s.at)
      BY <3>3 DEF StatementsStamped
    <3> QED BY <1>1, <3>3, <3>4
  <2> QED BY <2>1, <2>2
<1> QED BY <1>3, <1>4

(* While nothing is disturbed, a claim ends only by starting its job.      *)
LEMMA LockedUntilTaken ==
  ASSUME IInv, NoneStopping, [Next]_vars, Undisturbed',
         NEW j \in Locked
  PROVE  j \in Locked' \/ state'[j] # "queued"
<1>1. PICK l \in Loops : pc[l] = "claiming" /\ held[l] = j
  BY DEF Locked
<1>2. j \in Jobs /\ TypeOK
  BY <1>1 DEF IInv, LoopOK, Busy
<1>3. Undisturbed
  BY <1>2, UndisturbedBefore
<1>4. pc'[l] = "claiming" /\ held'[l] = held[l] => j \in Locked'
  BY <1>1 DEF Locked
<1>5. ASSUME NEW a \in Accounts, Api(a) PROVE j \in Locked'
  BY <1>1, <1>4, <1>5, ApiRows
<1>6. ASSUME NEW m \in Loops, Loop(m) PROVE j \in Locked' \/ state'[j] # "queued"
  <2>1. proc[ProcOf(m)] # "stopping" /\ ~(used["faults"] < Bounds["faults"]
          /\ used' = [used EXCEPT !["faults"] = @ + 1])
    BY <1>2, <1>3 DEF Undisturbed, NoneStopping, TypeOK, BoundNames, Loops, ProcOf
  <2>2. ~ClaimCommitUnseen(m) /\ ~ClaimRollback(m) /\ ~UpdateJobLost(m)
    BY <2>1 DEF ClaimCommitUnseen, ClaimRollback, UpdateJobLost, Interrupted, Spend
  <2>3. CASE m = l
    BY <1>1, <1>2, <1>6, <2>2, <2>3
       DEF Loop, ClaimSelect, ClaimCommit, CommitClaim, Work, UpdateJob, TypeOK
  <2>4. CASE m # l
    BY <1>1, <1>2, <1>4, <1>6, <2>2, <2>4
       DEF Loop, ClaimSelect, ClaimCommit, CommitClaim, Work, UpdateJob, Leave, TypeOK
  <2> QED BY <2>3, <2>4
<1>7. ASSUME NEW p \in Procs, Process(p) PROVE j \in Locked'
  <2>1. ~Stop(p) /\ ~Exit(p) /\ ~Crash(p)
    BY <1>2, <1>3 DEF Stop, Exit, Crash, Spend, Undisturbed, NoneStopping, TypeOK, BoundNames
  <2> QED BY <1>1, <1>4, <1>7, <2>1 DEF Process, SelectStale, AnswerLost, Restart, loopVars
<1>8. ASSUME NEW s \in inflight, Filing(s) PROVE j \in Locked'
  BY <1>1, <1>4, <1>8 DEF Filing, Commit, Refuse, Cancel, loopVars
<1>9. CASE UNCHANGED vars
  BY <1>1, <1>4, <1>9 DEF vars, loopVars
<1> QED BY <1>5, <1>6, <1>7, <1>8, <1>9 DEF Next

(* What was taken stays taken, whether by the rule for one loop or by the  *)
(* rule for many.                                                          *)
LEMMA TakenStays ==
  ASSUME IInv, NoneStopping, [Next]_vars, SingleLoop \/ Undisturbed',
         NEW j \in Jobs, state[j] # "absent", Taken(j)
  PROVE  Taken(j)'
<1>1. CASE state[j] # "queued"
  <2>1. state'[j] # "queued"
    <3>1. CASE RowsMoveOn
      BY <1>1, <3>1 DEF RowsMoveOn, MovesOn, Finished
    <3> QED BY <1>1, <3>1, StepRows, CommitRows
  <2> QED BY <2>1 DEF Taken
<1>2. CASE ~SingleLoop /\ j \in Locked
  <2>1. j \in Locked' \/ state'[j] # "queued"
    BY <1>2, LockedUntilTaken
  <2> QED BY <1>2, <2>1 DEF Taken, SingleLoop
<1> QED BY <1>1, <1>2 DEF Taken

LEMMA TakenInOrderNext ==
  ASSUME IInv, NoneStopping, OrderInv, [Next]_vars, SingleLoop \/ Undisturbed'
  PROVE  TakenInOrder'
<1>0. TypeOK /\ \A l \in Loops : Busy(l) => held[l] \in Jobs
  BY DEF IInv, LoopOK
<1>1. TakenInOrder
  BY <1>0, UndisturbedBefore DEF OrderInv
<1> SUFFICES ASSUME NEW j \in Jobs, NEW k \in Jobs,
                    (state[k] \in Started)' \/ k \in Locked', j \in info'[k].after
             PROVE  Taken(j)'
  BY DEF TakenInOrder, Started
<1>2. state[k] # "absent"
  <2>1. CASE (state[k] \in Started)'
    BY <2>1, StepRows, CommitRows DEF RowsMoveOn, MovesOn, Started, Finished
  <2>2. CASE k \in Locked'
    <3>1. PICK l \in Loops : pc'[l] = "claiming" /\ held'[l] = k
      BY <2>2 DEF Locked
    <3>2. CASE pc[l] = "claiming" /\ held[l] = k
      BY <3>2 DEF IInv, QueueInv, ClaimedIsQueued
    <3>3. CASE ClaimSelect(l)
      BY <1>0, <3>1, <3>3 DEF ClaimSelect, Claimable, TypeOK
    <3> QED BY <3>1, <3>2, <3>3, ClaimBegins
  <2> QED BY <2>1, <2>2
<1>3. info'[k] = info[k] /\ info[k] # NoInfo
  BY <1>2, StepRows, CommitRows DEF RowsMoveOn, IInv, QueueInv, AbsentHasNoInfo
<1>4. state[j] # "absent" /\ (state[j] = "queued" => info[j].at < info[k].at)
  BY <1>3 DEF OrderInv, RowsStamped
<1>5. CASE state[k] \in Started \/ k \in Locked
  <2>1. Taken(j)
    BY <1>1, <1>3, <1>5 DEF TakenInOrder
  <2> QED BY <1>4, <2>1, TakenStays
<1>6. CASE ~(state[k] \in Started \/ k \in Locked)
  <2>1. k \in Locked'
    <3>1. ASSUME (state[k] \in Started)' PROVE FALSE
      <4>1. k \in Locked \/ state[k] \in Started
        BY <1>2, <3>1, StepRows, CommitRows
           DEF RowsMoveOn, MovesOn, Started, Finished, Locked
      <4> QED BY <1>6, <4>1
    <3> QED BY <3>1
  <2>2. PICK l \in Loops : pc'[l] = "claiming" /\ held'[l] = k
    BY <2>1 DEF Locked
  <2>3. ClaimSelect(l)
    BY <1>6, <2>2, ClaimBegins DEF Locked
  <2>4. PICK i \in Jobs : Claimable(i) /\ held' = [held EXCEPT ![l] = i]
    BY <2>3 DEF ClaimSelect
  <2>5. i = k
    BY <1>0, <2>2, <2>4 DEF TypeOK
  <2>6. ASSUME ~Taken(j) PROVE FALSE
    <3>1. state[j] = "queued" /\ j \notin Locked
      <4>1. SingleLoop => Locked = {}
        BY <2>3 DEF SingleLoop, Locked, ClaimSelect
      <4> QED BY <2>6, <4>1 DEF Taken
    <3>2. info[k].at <= info[j].at /\ info[j].at < info[k].at
      BY <1>4, <2>4, <2>5, <3>1 DEF Claimable
    <3>3. info[j].at \in Nat /\ info[k].at \in Nat
      BY <1>0, <1>3, <3>1 DEF IInv, QueuedHasInfo, TypeOK, JobInfo
    <3> QED BY <3>2, <3>3
  <2> QED BY <1>4, <2>6, TakenStays
<1> QED BY <1>5, <1>6

LEMMA OrderInvNext ==
  ASSUME IInv, NoneStopping, OrderInv, [Next]_vars
  PROVE  OrderInv'
<1>1. StatementsStamped' /\ RowsStamped'
  BY StampedNext DEF OrderInv
<1>2. SingleLoop \/ Undisturbed' => TakenInOrder'
  BY TakenInOrderNext
<1> QED BY <1>1, <1>2 DEF OrderInv, SingleLoop

(* With one loop, or while nothing is disturbed, no job starts before one  *)
(* that had been filed when it was requested: created_at, set when its     *)
(* statement began, is later than that of every job filed by then.         *)
THEOREM JobsStartInOrder == Spec => []StartInOrder
<1>1. Init => NoneStopping /\ OrderInv
  BY DEF Init, NoneStopping, OrderInv, StatementsStamped, RowsStamped, TakenInOrder, Started,
         Finished, Locked
<1>2. IInv /\ NoneStopping /\ OrderInv /\ [Next]_vars => (NoneStopping /\ OrderInv)'
  BY NoneStoppingNext, OrderInvNext DEF IInv
<1>3. OrderInv => StartInOrder
  <2> SUFFICES ASSUME OrderInv, Cardinality(Loops) = 1 \/ Undisturbed,
                      NEW j \in Jobs, NEW k \in Jobs,
                      state[k] \in Started, j \in info[k].after
               PROVE  state[j] # "queued" \/ j \in Locked
    BY DEF StartInOrder
  <2>1. IsFiniteSet(Loops)
    <3>1. IsFiniteSet(1..Concurrency)
      BY FS_Interval, ConstantsAssumption
    <3> QED BY <3>1, FS_Product, ConstantsAssumption DEF Loops
  <2>2. SingleLoop \/ Undisturbed
    BY <2>1, FS_Singleton DEF SingleLoop
  <2> QED BY <2>2 DEF OrderInv, TakenInOrder, Taken
<1> QED BY <1>1, <1>2, <1>3, QueueInvariant, PTL DEF Spec

-----------------------------------------------------------------------------
(* Refinement: the queue implements JobLifecycle.                          *)

Working == {j \in Jobs : Owned(j)}

(* A step that leaves the states of jobs and the working loops alone is    *)
(* invisible in the contract.                                              *)
LEMMA OwnedSame ==
  ASSUME \A l \in Loops : \/ UNCHANGED <<pc[l], held[l]>>
                          \/ /\ pc[l] \notin {"working", "reporting"}
                             /\ pc'[l] \notin {"working", "reporting"}
                          \/ /\ pc[l] \in {"working", "reporting"}
                             /\ pc'[l] \in {"working", "reporting"}
                             /\ held'[l] = held[l]
  PROVE  Working' = Working
BY DEF Working, Owned

(* The loops of ls let go: exactly their jobs stop being worked on.        *)
LEMMA OwnedLeave ==
  ASSUME IInv, NEW ls \in SUBSET Loops, Leave(ls)
  PROVE  Working' = Working \ {held[l] : l \in {m \in ls : pc[m] \in {"working", "reporting"}}}
<1>1. ASSUME NEW j \in Working' PROVE j \in Working /\ \A l \in ls : Busy(l) => held[l] # j
  <2>1. PICK m \in Loops : pc'[m] \in {"working", "reporting"} /\ held'[m] = j
    BY <1>1 DEF Working, Owned
  <2>2. m \notin ls /\ pc[m] = pc'[m] /\ held[m] = j
    BY <2>1 DEF Leave
  <2> QED BY <1>1, <2>1, <2>2 DEF Working, Owned, IInv, QueueInv, OneLoopPerJob, Busy
<1>2. ASSUME NEW j \in Working,
             \A l \in ls : pc[l] \in {"working", "reporting"} => held[l] # j
      PROVE  j \in Working'
  BY <1>2 DEF Working, Owned, Leave
<1> QED BY <1>1, <1>2 DEF Busy

LEMMA ApiContract ==
  ASSUME IInv, NEW a \in Accounts, Api(a)
  PROVE  [Contract!LifecycleNext]_(Contract!lifecycleVars)
<1> USE DEF Contract!lifecycleVars, Contract!LifecycleNext
<1>1. Working' = Working
  BY OwnedSame DEF Api, CreateCloudAccount, EnqueueFirstSync, FirstSyncNotEnqueued,
                   EnqueueJob,
                   DeleteCloudAccount, TimePasses, loopVars
<1>3. CASE DeleteCloudAccount(a)
  <2> DEFINE gone == {j \in Jobs : info[j] # NoInfo /\ info[j].account = a}
  <2>1. state' = [j \in Jobs |-> IF j \in gone THEN "deleted" ELSE state[j]]
    BY <1>3 DEF DeleteCloudAccount
  <2>2. \A j \in gone : state[j] # "absent"
    BY DEF IInv, QueueInv, AbsentHasNoInfo
  <2>3. gone \in SUBSET Jobs
    OBVIOUS
  <2> HIDE DEF gone
  <2>4. Contract!Drop(gone)
    BY <1>1, <2>1, <2>2 DEF Contract!Drop, Working
  <2> QED BY <2>3, <2>4
<1>4. CASE UNCHANGED state
  BY <1>1, <1>4 DEF Working
<1> QED BY <1>3, <1>4
        DEF Api, CreateCloudAccount, EnqueueFirstSync, FirstSyncNotEnqueued, EnqueueJob,
            TimePasses, queueVars

LEMMA LoopContract ==
  ASSUME IInv, NEW l \in Loops, Loop(l)
  PROVE  [Contract!LifecycleNext]_(Contract!lifecycleVars)
<1> USE DEF Contract!lifecycleVars, Contract!LifecycleNext
<1>0. TypeOK /\ \A m \in Loops : Busy(m) => held[m] \in Jobs
  BY DEF IInv, LoopOK
<1>1. CASE ClaimSelect(l) \/ Work(l)
  <2>1. Working' = Working
    BY <1>0, <1>1, OwnedSame DEF ClaimSelect, Work, TypeOK
  <2> QED BY <1>1, <2>1 DEF ClaimSelect, Work, queueVars, Working
<1>2. CASE ClaimCommit(l)
  <2>1. pc[l] = "claiming" /\ pc' = [pc EXCEPT ![l] = "working"] /\ UNCHANGED held
    BY <1>2 DEF ClaimCommit, CommitClaim
  <2>2. held[l] \in Jobs
    BY <1>0, <2>1 DEF Busy
  <2>3. Working' = Working \cup {held[l]}
    BY <1>0, <2>1, <2>2 DEF Working, Owned, TypeOK
  <2>4. Contract!Start(held[l], TRUE)
    BY <1>2, <2>3 DEF Contract!Start, ClaimCommit, CommitClaim, IInv, QueueInv,
                      ClaimedIsQueued, Working
  <2> QED BY <2>2, <2>4
<1>3. CASE ClaimCommitUnseen(l)
  <2>1. pc[l] = "claiming" /\ Leave({l})
    BY <1>3 DEF ClaimCommitUnseen, CommitClaim
  <2>2. Working' = Working /\ held[l] \in Jobs
    BY <1>0, <2>1, OwnedSame DEF Leave, Busy
  <2>3. Contract!Start(held[l], FALSE)
    BY <1>3, <2>2 DEF Contract!Start, ClaimCommitUnseen, CommitClaim, IInv, QueueInv,
                      ClaimedIsQueued, Working
  <2> QED BY <2>2, <2>3
<1>4. CASE ClaimRollback(l)
  <2>1. pc[l] = "claiming" /\ Leave({l}) /\ UNCHANGED state
    BY <1>4 DEF ClaimRollback, queueVars
  <2>2. Working' = Working
    BY <2>1, OwnedSame DEF Leave
  <2> QED BY <2>1, <2>2 DEF Working
<1>5. CASE UpdateJob(l) \/ UpdateJobLost(l)
  <2>1. pc[l] = "reporting" /\ Leave({l}) /\ {l} \in SUBSET Loops
    BY <1>5 DEF UpdateJob, UpdateJobLost
  <2>2. held[l] \in Working /\ held[l] \in Jobs /\ Working' = Working \ {held[l]}
    BY <1>0, <2>1, OwnedLeave DEF Busy, Working, Owned
  <2>3. CASE UpdateJob(l)
    <3>1. result[l] \in Finished
      BY <2>1 DEF IInv, LoopOK
    <3>2. Contract!Finish(held[l], result[l])
      BY <2>2, <2>3 DEF Contract!Finish, UpdateJob, Working
    <3> QED BY <2>2, <3>1, <3>2 DEF Finished, Contract!Finished
  <2>4. CASE UpdateJobLost(l)
    <3>1. Contract!GiveUp({held[l]}) /\ {held[l]} \in SUBSET Jobs
      BY <2>2, <2>4 DEF Contract!GiveUp, UpdateJobLost, queueVars, Working
    <3> QED BY <3>1
  <2> QED BY <1>5, <2>3, <2>4
<1> QED BY <1>1, <1>2, <1>3, <1>4, <1>5 DEF Loop

LEMMA ProcessContract ==
  ASSUME IInv, NEW p \in Procs, Process(p)
  PROVE  [Contract!LifecycleNext]_(Contract!lifecycleVars)
<1> USE DEF Contract!lifecycleVars, Contract!LifecycleNext
<1>2. CASE Exit(p) \/ Crash(p)
  <2> DEFINE ls == {l \in Loops : ProcOf(l) = p}
             js == {held[l] : l \in {m \in ls : pc[m] \in {"working", "reporting"}}}
  <2>1. Leave(ls) /\ UNCHANGED state
    BY <1>2 DEF Exit, Crash, Die, queueVars
  <2>2. js \in SUBSET Working /\ js \in SUBSET Jobs
    BY DEF Working, Owned, IInv, LoopOK, Busy
  <2>3. Working' = Working \ js
    BY <2>1, OwnedLeave
  <2> HIDE DEF ls, js
  <2>4. Contract!GiveUp(js)
    BY <2>1, <2>2, <2>3 DEF Contract!GiveUp, Working
  <2> QED BY <2>2, <2>4
<1>3. CASE SelectStale(p) \/ AnswerLost(p) \/ Stop(p) \/ Restart(p)
  <2>1. Working' = Working
    BY <1>3, OwnedSame DEF SelectStale, AnswerLost, Stop, Restart, loopVars
  <2> QED BY <1>3, <2>1 DEF SelectStale, AnswerLost, Stop, Restart, queueVars, Working
<1> QED BY <1>2, <1>3 DEF Process

LEMMA FilingContract ==
  ASSUME IInv, NEW s \in inflight, Filing(s)
  PROVE  [Contract!LifecycleNext]_(Contract!lifecycleVars)
<1> USE DEF Contract!lifecycleVars, Contract!LifecycleNext
<1>1. Working' = Working
  BY OwnedSame DEF Filing, Commit, Refuse, Cancel, loopVars
<1>2. CASE Commit(s)
  <2>1. PICK js \in SUBSET Absent : \E rows \in [js -> JobInfo] : Insert(js, rows)
    BY <1>2, CommitInserts DEF IInv
  <2>2. js \in SUBSET Jobs /\ Contract!Submit(js)
    BY <1>1, <2>1 DEF Insert, Absent, Filed, Contract!Submit, Working
  <2> QED BY <2>2
<1>3. CASE Refuse(s) \/ Cancel(s)
  BY <1>1, <1>3 DEF Refuse, Cancel, queueVars, Working
<1> QED BY <1>2, <1>3 DEF Filing

(* Every behaviour of the queue is one the contract allows.                *)
THEOREM QueueKeepsContract == Spec => JobContract
<1>1. Init => Contract!LifecycleInit
  BY DEF Init, Contract!LifecycleInit, Owned
<1>2. IInv /\ [Next]_vars => [Contract!LifecycleNext]_(Contract!lifecycleVars)
  <2> SUFFICES ASSUME IInv, [Next]_vars
               PROVE  [Contract!LifecycleNext]_(Contract!lifecycleVars)
    OBVIOUS
  <2>1. CASE UNCHANGED vars
    BY <2>1 DEF vars, queueVars, loopVars, Owned, Contract!lifecycleVars
  <2>2. CASE Next
    BY <2>2, ApiContract, LoopContract, ProcessContract, FilingContract DEF Next
  <2> QED BY <2>1, <2>2
<1> QED BY <1>1, <1>2, QueueInvariant, PTL DEF Spec, JobContract, Contract!Lifecycle
=============================================================================
