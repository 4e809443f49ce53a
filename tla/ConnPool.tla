------------------------------ MODULE ConnPool ------------------------------
(***************************************************************************)
(* The connection pool of a process and the per-user advisory lock of a    *)
(* create job.  worker.lockUser takes a connection out of the pool, waits  *)
(* on it for pg_advisory_lock, and keeps it for the whole job, while every *)
(* other statement of the job (GetCloudAccount, the two syncs, checkQuota, *)
(* the credentials) acquires a connection of its own from the same pool.   *)
(* pgxpool.Acquire blocks while all MaxConns connections are taken.        *)
(***************************************************************************)
EXTENDS Naturals, FiniteSets

CONSTANTS
  Loops,          \* the job loops of the process (WORKER_CONCURRENCY)
  Handlers,       \* HTTP requests, scheduler and heartbeat in the process
  Conns,          \* the connections of the pool (MaxConns)
  Keys,           \* advisory lock keys, one per user
  NoConn, NoKey,
  MaxStatements   \* bound: statements of one job besides claim and report

ASSUME PoolAssumption ==
  /\ IsFiniteSet(Loops) /\ IsFiniteSet(Conns)
  /\ Loops \cap Handlers = {}
  /\ NoConn \notin Conns /\ NoKey \notin Keys
  /\ MaxStatements \in Nat

Clients == Loops \cup Handlers

VARIABLES
  phase,     \* where each client is
  stmt,      \* the connection its current statement runs on
  lockConn,  \* the connection lockUser took for the loop
  key,       \* the user whose lock the loop's job needs
  left       \* statements the job may still issue in this phase

vars == <<phase, stmt, lockConn, key, left>>

(* Phases in which the client waits for a connection or runs a statement.  *)
StatementPhases == {"claim", "read", "work", "locked", "report", "request"}

TypeOK ==
  /\ phase \in [Clients -> StatementPhases \cup {"idle", "lockConn", "lockWait"}]
  /\ \A h \in Handlers : phase[h] \in {"idle", "request"}
  /\ stmt \in [Clients -> Conns \cup {NoConn}]
  /\ lockConn \in [Loops -> Conns \cup {NoConn}]
  /\ key \in [Loops -> Keys \cup {NoKey}]
  /\ left \in [Loops -> 0..MaxStatements]

Init ==
  /\ phase = [c \in Clients |-> "idle"]
  /\ stmt = [c \in Clients |-> NoConn]
  /\ lockConn = [l \in Loops |-> NoConn]
  /\ key = [l \in Loops |-> NoKey]
  /\ left = [l \in Loops |-> 0]

Taken == {stmt[c] : c \in Clients} \cup {lockConn[l] : l \in Loops}

(* Mutant: some part of the process keeps a connection for itself.         *)
FreePinned == LET pinned == CHOOSE conn \in Conns : TRUE
              IN (Conns \ Taken) \ {pinned}

Free == Conns \ Taken

(* A session holds the advisory lock of k.                                 *)
LockHeld(k) == \E l \in Loops : phase[l] = "locked" /\ key[l] = k

Goto(c, p) == phase' = [phase EXCEPT ![c] = p]

-----------------------------------------------------------------------------
(* A poll tick starts ProcessNext; a request arrives, a ticker fires.      *)
Wake(c) ==
  /\ phase[c] = "idle"
  /\ Goto(c, IF c \in Loops THEN "claim" ELSE "request")
  /\ UNCHANGED <<stmt, lockConn, key, left>>

(* The client is about to issue a statement.                               *)
WantsConn(c) ==
  /\ phase[c] \in StatementPhases /\ stmt[c] = NoConn
  /\ phase[c] = "locked" => left[c] > 0

(* Pool.Acquire, implicit in every Pool.Exec, Query, QueryRow and Begin.   *)
Acquire(c) ==
  /\ WantsConn(c)
  /\ \E conn \in Free : stmt' = [stmt EXCEPT ![c] = conn]
  /\ UNCHANGED <<phase, lockConn, key, left>>

(* The statement ends, well or not, and its connection returns.            *)
Return(c) ==
  /\ stmt[c] # NoConn
  /\ stmt' = [stmt EXCEPT ![c] = NoConn]

(* ClaimJob: nothing queued, a create job of some user, or another job.    *)
Claimed(l) ==
  /\ phase[l] = "claim" /\ Return(l)
  /\ \/ Goto(l, "idle") /\ UNCHANGED <<key, left>>
     \/ \E k \in Keys : /\ Goto(l, "read")
                        /\ key' = [key EXCEPT ![l] = k]
                        /\ UNCHANGED left
     \/ \E n \in 1..MaxStatements : /\ Goto(l, "work")
                                    /\ left' = [left EXCEPT ![l] = n]
                                    /\ UNCHANGED key
  /\ UNCHANGED lockConn

(* createDroplets: accountClient, then lockUser; or it failed to read.     *)
AccountRead(l) ==
  /\ phase[l] = "read" /\ Return(l)
  /\ \/ Goto(l, "lockConn") /\ UNCHANGED key
     \/ Goto(l, "report") /\ key' = [key EXCEPT ![l] = NoKey]
  /\ UNCHANGED <<lockConn, left>>

AcquireLockConn(l) ==
  /\ phase[l] = "lockConn"
  /\ \E conn \in Free : lockConn' = [lockConn EXCEPT ![l] = conn]
  /\ Goto(l, "lockWait")
  /\ UNCHANGED <<stmt, key, left>>

(* pg_advisory_lock returns once no other session holds the key.           *)
Lock(l) ==
  /\ phase[l] = "lockWait" /\ ~LockHeld(key[l])
  /\ Goto(l, "locked")
  /\ \E n \in 0..MaxStatements : left' = [left EXCEPT ![l] = n]
  /\ UNCHANGED <<stmt, lockConn, key>>

(* The lock is given back, and its connection; or waiting for it failed.   *)
ReleaseLock(l) ==
  /\ lockConn' = [lockConn EXCEPT ![l] = NoConn]
  /\ key' = [key EXCEPT ![l] = NoKey]
  /\ Goto(l, "report")
  /\ UNCHANGED <<stmt, left>>

LockFailed(l) == phase[l] = "lockWait" /\ ReleaseLock(l)

Unlock(l) ==
  /\ phase[l] = "locked" /\ left[l] = 0 /\ stmt[l] = NoConn
  /\ ReleaseLock(l)

(* Mutant: one statement too many is counted as issued.                    *)
StatementDoneTwice(l) ==
  /\ phase[l] \in {"work", "locked"} /\ left[l] > 0 /\ Return(l)
  /\ left' = [left EXCEPT ![l] = @ - 2]
  /\ IF phase[l] = "work" /\ left[l] = 1 THEN Goto(l, "report") ELSE UNCHANGED phase
  /\ UNCHANGED <<lockConn, key>>

(* One statement of a job's body.                                          *)
StatementDone(l) ==
  /\ phase[l] \in {"work", "locked"} /\ left[l] > 0 /\ Return(l)
  /\ left' = [left EXCEPT ![l] = @ - 1]
  /\ IF phase[l] = "work" /\ left[l] = 1 THEN Goto(l, "report") ELSE UNCHANGED phase
  /\ UNCHANGED <<lockConn, key>>

(* UpdateJob, or the handler's statement.                                  *)
Reported(c) ==
  /\ phase[c] \in {"report", "request"} /\ Return(c)
  /\ Goto(c, "idle")
  /\ UNCHANGED <<lockConn, key, left>>

-----------------------------------------------------------------------------
LoopStep(l) ==
  \/ Claimed(l) \/ AccountRead(l) \/ AcquireLockConn(l) \/ Lock(l) \/ LockFailed(l)
  \/ Unlock(l) \/ StatementDone(l)

Next ==
  \/ \E c \in Clients : Wake(c) \/ Acquire(c) \/ Reported(c)
  \/ \E l \in Loops : LoopStep(l)

Spec == Init /\ [][Next]_vars

(* puddle hands connections out and PostgreSQL grants advisory locks in    *)
(* the order they were asked for, so nobody is passed over for ever; a     *)
(* statement that runs ends.                                               *)
Fairness ==
  /\ \A c \in Clients : SF_vars(Acquire(c)) /\ WF_vars(Reported(c))
  /\ \A l \in Loops : /\ SF_vars(AcquireLockConn(l)) /\ SF_vars(Lock(l))
                      /\ WF_vars(Unlock(l))
                      /\ WF_vars(Claimed(l) \/ AccountRead(l) \/ StatementDone(l))

FairSpec == Spec /\ Fairness

-----------------------------------------------------------------------------
(* Properties.                                                             *)

CanMove(c) ==
  \/ stmt[c] # NoConn                                  \* its statement ends
  \/ /\ WantsConn(c) \/ phase[c] = "lockConn"           \* it gets a connection
     /\ Free # {}
  \/ /\ c \in Loops
     /\ \/ phase[c] = "lockWait" /\ ~LockHeld(key[c])
        \/ phase[c] = "locked" /\ left[c] = 0

(* The process never locks up: as long as a client has work to do, some    *)
(* client can go on without waiting for another.                           *)
NotStuck ==
  (\E c \in Clients : phase[c] # "idle") => \E c \in Clients : CanMove(c)

(* Every job a loop starts on ends, and the loop polls again.              *)
LoopsReturn == \A l \in Loops : phase[l] # "idle" ~> phase[l] = "idle"
=============================================================================
