----------------------- MODULE InventoryResultProofs -----------------------
(***************************************************************************)
(* What jobs report and what they leave behind, for any number of users,   *)
(* accounts, loops and droplets: a reported success is true, create jobs   *)
(* keep the quota, and a password shown as active is the machine's.        *)
(***************************************************************************)
EXTENDS InventoryProofs

(* The droplets ever made; a provider's id is used once.                   *)
Born == {d \in Droplets : d[2] <= born[HomeOf(d)]}

BornOK ==
  /\ cloud \subseteq Born /\ known \subseteq Born
  /\ \A l \in Loops :
       /\ listed[l] \subseteq Born /\ done[l] \subseteq Born
       /\ pc[l] # "idle" /\ job[l].kind \in ActionKinds \cup {"delete"}
            => job[l].droplets \subseteq Born

(* An idle loop keeps nothing of its last job.                             *)
IdleOK ==
  \A l \in Loops : pc[l] = "idle" =>
    todo[l] = {} /\ acting[l] = {} /\ done[l] = {} /\ ~failed[l] /\ listed[l] = {}

LEMMA DisjointUnion ==
  ASSUME NEW S, IsFiniteSet(S), NEW T, IsFiniteSet(T), S \cap T = {}
  PROVE  /\ IsFiniteSet(S \cup T)
         /\ Cardinality(S \cup T) = Cardinality(S) + Cardinality(T)
<1>1. Cardinality(S) \in Nat /\ Cardinality(T) \in Nat /\ Cardinality(S \cap T) = 0
  BY FS_CardinalityType, FS_EmptySet
<1>2. /\ IsFiniteSet(S \cup T)
      /\ Cardinality(S \cup T) = Cardinality(S) + Cardinality(T) - Cardinality(S \cap T)
  BY FS_Union
<1> QED BY <1>1, <1>2

(* The droplets of a request: as many as asked for, and new.               *)
LEMMA NewbornFacts ==
  ASSUME TypeOK, NEW a \in Accounts, NEW n \in Nat
  PROVE  /\ IsFiniteSet(Newborn(a, n)) /\ Cardinality(Newborn(a, n)) = n
         /\ Newborn(a, n) \cap Born = {}
         /\ \A d \in Newborn(a, n) : HomeOf(d) = a
<1> DEFINE f == [i \in 1..n |-> <<a, born[a] + i>>]
<1>1. born[a] \in Nat
  BY InventoryAssumption DEF TypeOK
<1>2. f \in Bijection(1..n, Newborn(a, n))
  <2>1. f \in [1..n -> Newborn(a, n)]
    BY DEF Newborn
  <2>2. \A i, j \in 1..n : f[i] = f[j] => i = j
    BY <1>1
  <2>3. \A d \in Newborn(a, n) : \E i \in 1..n : f[i] = d
    BY DEF Newborn
  <2> HIDE DEF f
  <2> QED BY <2>1, <2>2, <2>3 DEF Bijection, Injection, Surjection, IsInjective
<1>3. IsFiniteSet(1..n) /\ Cardinality(1..n) = n
  BY FS_Interval
<1>4. IsFiniteSet(Newborn(a, n)) /\ Cardinality(Newborn(a, n)) = n
  <2>1. ExistsBijection(1..n, Newborn(a, n))
    BY <1>2 DEF ExistsBijection
  <2> QED BY <1>3, <2>1, FS_Bijection
<1>5. Newborn(a, n) \cap Born = {}
  BY <1>1 DEF Newborn, Born, HomeOf
<1> QED BY <1>4, <1>5 DEF Newborn, HomeOf

(* What one request does.                                                  *)
Created(l, n) ==
  /\ Newborn(AccountOf(l), n) \subseteq Droplets
  /\ cloud' = cloud \cup Newborn(AccountOf(l), n)
  /\ born' = [born EXCEPT ![AccountOf(l)] = @ + n]

LEMMA RequestEffect ==
  ASSUME IInv, NEW l \in Loops, Request(l)
  PROVE  /\ pc[l] = "request" /\ stage[l] = "before" /\ job[l].kind = "create"
         /\ AccountOf(l) \in Accounts
         /\ \E n \in Nat \ {0} :
              /\ n <= left[l] /\ left'[l] = left[l] - n
              /\ \/ left[l] > n /\ UNCHANGED <<pc, stage>>
                 \/ left[l] = n /\ pc'[l] = "read" /\ stage'[l] = "after"
              /\ \/ /\ Created(l, n)
                    /\ \/ /\ done'[l] = done[l] \cup Newborn(AccountOf(l), n)
                          /\ UNCHANGED <<failed, used>> \/ (failed'[l] /\ Spend("outages"))
                       \/ UNCHANGED done /\ failed'[l] /\ Spend("outages")
                 \/ UNCHANGED <<cloud, born, done>> /\ failed'[l]
<1> DEFINE n == IF job[l].managed THEN 1 ELSE job[l].count
<1>1. pc[l] = "request" /\ stage[l] = "before" /\ job[l].kind = "create"
  BY DEF Request, IInv, PhaseOK
<1>2. /\ AccountOf(l) \in Accounts /\ n \in Nat \ {0} /\ left[l] \in Nat /\ n <= left[l]
      /\ job[l].managed \/ left[l] = n
  BY <1>1, BusyJob, JobFields, InventoryAssumption DEF IInv, TypeOK, PhaseOK, AccountOf
<1>3. left'[l] = left[l] - n
  BY DEF Request, IInv, TypeOK
<1>4. \/ left[l] > n /\ UNCHANGED <<pc, stage>>
      \/ left[l] = n /\ pc'[l] = "read" /\ stage'[l] = "after"
  BY <1>2 DEF Request, Goto, IInv, TypeOK
<1>5. \/ /\ Created(l, n)
         /\ \/ /\ done'[l] = done[l] \cup Newborn(AccountOf(l), n)
               /\ UNCHANGED <<failed, used>> \/ (failed'[l] /\ Spend("outages"))
            \/ UNCHANGED done /\ failed'[l] /\ Spend("outages")
      \/ UNCHANGED <<cloud, born, done>> /\ failed'[l]
  BY DEF Request, Created, PerhapsFail, Fail, IInv, TypeOK
<1> HIDE DEF n
<1> QED BY <1>1, <1>2, <1>3, <1>4, <1>5

(* Nothing but a request makes droplets.                                   *)
LEMMA OnlyRequestsCreate ==
  ASSUME Next, \A l \in Loops : ~Request(l)
  PROVE  cloud' \subseteq cloud /\ UNCHANGED born
<1> USE DEF cloudVars, machineVars, Vanish
<1>1. ASSUME NEW l \in Loops, LoopStep(l) PROVE cloud' \subseteq cloud /\ UNCHANGED born
  BY <1>1 DEF LoopStep, Take, Step, LockUser, LockUserFails, SyncRead, SyncList, SyncStore,
              SyncFails, CheckQuota, SaveCredential, SavedAll, DeleteOne, ActOne, Waited,
              WorkDone, Report, Crash, Release
<1>2. CASE OutsideStep
  BY <1>2 DEF OutsideStep, ProviderActs, UpdateRootCredential, ConsoleDestroy, Unlink,
              Transfer
<1> QED BY <1>1, <1>2, NextSteps

LEMMA BornGrows ==
  ASSUME IInv, Next
  PROVE  Born \subseteq Born' /\ cloud' \subseteq cloud \cup Born'
<1>1. CASE \A l \in Loops : ~Request(l)
  BY <1>1, OnlyRequestsCreate DEF Born
<1>2. ASSUME NEW l \in Loops, Request(l)
      PROVE  Born \subseteq Born' /\ cloud' \subseteq cloud \cup Born'
  <2>1. PICK n \in Nat : Created(l, n) \/ UNCHANGED <<cloud, born>>
    BY <1>2, RequestEffect
  <2>2. AccountOf(l) \in Accounts
    BY <1>2, RequestEffect
  <2>3. CASE Created(l, n)
    <3>1. /\ \A a \in Accounts : born[a] \in Nat
          /\ \A a \in Accounts : born'[a] = IF a = AccountOf(l) THEN born[a] + n ELSE born[a]
      BY <2>3, InventoryAssumption DEF Created, IInv, TypeOK
    <3>2. Born \subseteq Born'
      BY <3>1, HomeType DEF Born, Droplets
    <3>3. Newborn(AccountOf(l), n) \subseteq Born'
      BY <2>2, <2>3, <3>1 DEF Created, Newborn, Born, HomeOf
    <3> QED BY <2>3, <3>2, <3>3 DEF Created
  <2>4. CASE UNCHANGED <<cloud, born>>
    BY <2>4 DEF Born
  <2> QED BY <2>1, <2>3, <2>4
<1> QED BY <1>1, <1>2

(* What is gone does not come back.                                        *)
LEMMA NoRebirth ==
  ASSUME IInv, Next, NEW d \in Born, d \in cloud'
  PROVE  d \in cloud
<1>1. CASE \A l \in Loops : ~Request(l)
  BY <1>1, OnlyRequestsCreate
<1>2. ASSUME NEW l \in Loops, Request(l) PROVE d \in cloud
  <2>1. PICK n \in Nat : Created(l, n) \/ UNCHANGED cloud
    BY <1>2, RequestEffect
  <2>2. Newborn(AccountOf(l), n) \cap Born = {}
    BY <1>2, RequestEffect, NewbornFacts DEF IInv
  <2> QED BY <2>1, <2>2 DEF Created
<1> QED BY <1>1, <1>2

LEMMA BornOKNext ==
  ASSUME IInv, BornOK, Next
  PROVE  BornOK'
<1> USE DEF IInv, TypeOK, BornOK
<1>1. Born \subseteq Born' /\ cloud' \subseteq Born'
  BY BornGrows
<1>2. ASSUME NEW l \in Loops, LoopStep(l)
      PROVE  /\ known' \subseteq Born'
             /\ listed'[l] \subseteq Born' /\ done'[l] \subseteq Born'
             /\ pc'[l] # "idle" /\ job'[l].kind \in ActionKinds \cup {"delete"}
                  => job'[l].droplets \subseteq Born'
  <2> USE DEF syncVars, workVars, rowVars
  <2>1. CASE Request(l)
    <3>1. PICK n \in Nat : /\ Created(l, n) \/ UNCHANGED <<cloud, born>>
                           /\ \/ UNCHANGED done
                              \/ done'[l] = done[l] \cup Newborn(AccountOf(l), n)
                                 /\ Created(l, n)
      BY <2>1, RequestEffect
    <3>2. done'[l] \subseteq Born'
      BY <1>1, <3>1 DEF Created
    <3> QED BY <1>1, <2>1, <3>2 DEF Request
  <2>2. CASE LockUser(l) \/ LockUserFails(l) \/ SyncRead(l) \/ SyncList(l) \/ CheckQuota(l)
    BY <1>1, <2>2 DEF LockUser, LockUserFails, SyncRead, SyncList, CheckQuota, PageAfter, CloudOf,
                      Goto
  <2>3. CASE SyncStore(l) \/ SyncFails(l)
    BY <1>1, <2>3 DEF SyncStore, SyncFails, AfterSync, Goto
  <2>4. CASE SaveCredential(l) \/ SavedAll(l) \/ WorkDone(l) \/ DeleteOne(l)
    BY <1>1, <2>4 DEF SaveCredential, SavedAll, WorkDone, DeleteOne, Goto
  <2>5. CASE ActOne(l) \/ Waited(l)
    BY <1>1, <2>5 DEF ActOne, Waited, Goto
  <2>6. CASE Report(l) \/ Crash(l)
    BY <1>1, <2>6 DEF Report, Crash, Release, FreshWork, Goto
  <2>7. ASSUME NEW j \in Requests, Take(l, j)
        PROVE  /\ UNCHANGED <<known, listed, done>> /\ job'[l] = j
               /\ j.kind \in ActionKinds \cup {"delete"} => j.droplets \subseteq known
    BY <2>7 DEF Take, ActionKinds
  <2> QED BY <1>1, <1>2, <2>1, <2>2, <2>3, <2>4, <2>5, <2>6, <2>7 DEF LoopStep, Step
<1>3. CASE \E l \in Loops : LoopStep(l)
  BY <1>1, <1>2, <1>3, OthersStay DEF LoopVars
<1>4. CASE OutsideStep
  <2>1. UNCHANGED known
    BY <1>4 DEF OutsideStep, ProviderActs, UpdateRootCredential, ConsoleDestroy, Unlink,
                Transfer, rowVars
  <2> QED BY <1>1, <1>4, <2>1, LoopsStay DEF LoopVars
<1> QED BY <1>3, <1>4, NextSteps

LEMMA IdleOKNext ==
  ASSUME IInv, IdleOK, Next
  PROVE  IdleOK'
<1> USE DEF IInv, TypeOK, IdleOK
<1>1. ASSUME NEW l \in Loops, Report(l) \/ Crash(l) PROVE IdleOK'
  <2>1. todo'[l] = {} /\ acting'[l] = {} /\ done'[l] = {} /\ ~failed'[l] /\ listed'[l] = {}
    BY <1>1 DEF Report, Crash, Release, FreshWork
  <2> QED BY <1>1, <2>1, OthersStay DEF LoopStep, Step, LoopVars
<1>2. ASSUME NEW l \in Loops, LoopStep(l), pc'[l] # "idle" PROVE IdleOK'
  BY <1>2, OthersStay DEF LoopVars
<1>3. ASSUME NEW l \in Loops, LoopStep(l), ~Report(l), ~Crash(l) PROVE pc'[l] # "idle"
  <2>1. CASE Request(l)
    BY <2>1 DEF Request, Goto
  <2>2. CASE LockUser(l) \/ LockUserFails(l) \/ SyncRead(l) \/ SyncList(l) \/ CheckQuota(l)
    BY <2>2 DEF LockUser, LockUserFails, SyncRead, SyncList, CheckQuota, Goto
  <2>3. CASE SyncStore(l) \/ SyncFails(l)
    BY <2>3 DEF SyncStore, SyncFails, AfterSync, Synced, Goto
  <2>4. CASE SaveCredential(l) \/ SavedAll(l) \/ WorkDone(l) \/ DeleteOne(l)
    BY <2>4 DEF SaveCredential, SavedAll, WorkDone, DeleteOne, Goto
  <2>5. CASE ActOne(l) \/ Waited(l)
    BY <2>5 DEF ActOne, Waited, Goto
  <2>6. ASSUME NEW j \in Requests, Take(l, j) PROVE pc'[l] # "idle"
    BY <2>6 DEF Take, Goto
  <2> QED BY <1>3, <2>1, <2>2, <2>3, <2>4, <2>5, <2>6 DEF LoopStep, Step
<1>4. CASE OutsideStep
  <2>1. ASSUME NEW m \in Loops, pc[m] = "idle" PROVE UNCHANGED failed[m]
    BY <1>4, <2>1 DEF OutsideStep, ProviderActs, UpdateRootCredential, ConsoleDestroy,
                      Unlink,
                      Transfer, workVars
  <2> QED BY <1>4, <2>1, LoopsStay DEF LoopVars
<1> QED BY <1>1, <1>2, <1>3, <1>4, NextSteps

-----------------------------------------------------------------------------
(* What a job has done so far.  A create job without a failure has made    *)
(* one droplet for each request it no longer has to send; a delete job     *)
(* without one has only the droplets still to handle left.                 *)

CountOf(l) ==
  /\ done[l] \subseteq {d \in Droplets : HomeOf(d) = AccountOf(l)}
  /\ stage[l] = "before" /\ pc[l] = "report" => failed[l]
  /\ stage[l] = "before" /\ pc[l] # "request" => done[l] = {}
  /\ pc[l] = "save" => stage[l] = "after"
  /\ ~failed[l] => /\ IsFiniteSet(done[l])
                   /\ Cardinality(done[l]) + left[l] = job[l].count
                   /\ stage[l] = "after" => left[l] = 0

CountOK == \A l \in Loops : pc[l] # "idle" /\ job[l].kind = "create" => CountOf(l)

LEMMA CountOKRequest ==
  ASSUME IInv, BornOK, CountOK, NEW l \in Loops, Request(l)
  PROVE  CountOf(l)'
<1>1. pc[l] = "request" /\ stage[l] = "before" /\ CountOf(l) /\ AccountOf(l) \in Accounts
  BY RequestEffect DEF CountOK
<1>2. PICK n \in Nat \ {0} :
              /\ n <= left[l] /\ left'[l] = left[l] - n
              /\ \/ left[l] > n /\ UNCHANGED <<pc, stage>>
                 \/ left[l] = n /\ pc'[l] = "read" /\ stage'[l] = "after"
              /\ \/ /\ Created(l, n)
                    /\ \/ /\ done'[l] = done[l] \cup Newborn(AccountOf(l), n)
                          /\ UNCHANGED <<failed, used>> \/ (failed'[l] /\ Spend("outages"))
                       \/ UNCHANGED done /\ failed'[l] /\ Spend("outages")
                 \/ UNCHANGED <<cloud, born, done>> /\ failed'[l]
  BY RequestEffect
<1>3. UNCHANGED job /\ left[l] \in Nat
  BY DEF Request, IInv, TypeOK
<1>4. done'[l] \subseteq {d \in Droplets : HomeOf(d) = AccountOf(l)}
  BY <1>1, <1>2, NewbornFacts DEF CountOf, Created, IInv
<1>5. ASSUME ~failed'[l]
      PROVE  /\ IsFiniteSet(done'[l])
             /\ Cardinality(done'[l]) + left'[l] = job[l].count
  <2>1. /\ done'[l] = done[l] \cup Newborn(AccountOf(l), n)
        /\ IsFiniteSet(done[l]) /\ Cardinality(done[l]) + left[l] = job[l].count
    BY <1>1, <1>2, <1>5 DEF CountOf
  <2>2. /\ IsFiniteSet(Newborn(AccountOf(l), n)) /\ Cardinality(Newborn(AccountOf(l), n)) = n
        /\ done[l] \cap Newborn(AccountOf(l), n) = {}
    BY <1>1, NewbornFacts DEF IInv, BornOK
  <2>3. Cardinality(done[l]) \in Nat
    BY <2>1, FS_CardinalityType
  <2>4. Cardinality(done'[l]) = Cardinality(done[l]) + n /\ IsFiniteSet(done'[l])
    BY <2>1, <2>2, <2>3, DisjointUnion
  <2> QED BY <1>2, <1>3, <2>1, <2>3, <2>4
<1> QED BY <1>1, <1>2, <1>3, <1>4, <1>5 DEF CountOf, AccountOf

LEMMA CountOKNext ==
  ASSUME IInv, JobInv, BornOK, IdleOK, CountOK, Next
  PROVE  CountOK'
<1> USE DEF IInv, TypeOK, CountOK
<1>1. ASSUME NEW l \in Loops, LoopStep(l), pc'[l] # "idle", job'[l].kind = "create"
      PROVE  CountOf(l)'
  <2> USE DEF CountOf, AccountOf, Goto, Fail, syncVars, workVars
  <2>1. CASE Request(l)
    BY <2>1, CountOKRequest
  <2>2. CASE LockUser(l) \/ SyncRead(l) \/ SyncList(l)
    BY <1>1, <2>2 DEF LockUser, SyncRead, SyncList
  <2>3. CASE LockUserFails(l) \/ CheckQuota(l)
    BY <1>1, <2>3 DEF LockUserFails, CheckQuota, PhaseOK
  <2>4. CASE SyncStore(l) \/ SyncFails(l)
    BY <1>1, <2>4 DEF SyncStore, SyncFails, AfterSync, Synced, JobInv, JobOK
  <2>5. CASE SaveCredential(l)
    <3>1. /\ UNCHANGED <<pc, job, stage, left, done>>
          /\ failed[l] => failed'[l]
      BY <2>5 DEF SaveCredential
    <3> QED BY <1>1, <3>1
  <2>10. CASE SavedAll(l) \/ WorkDone(l)
    BY <1>1, <2>10 DEF SavedAll, WorkDone
  <2>6. CASE DeleteOne(l) \/ ActOne(l)
    BY <1>1, <2>6 DEF DeleteOne, ActOne
  <2>7. CASE Waited(l)
    BY <1>1, <2>7 DEF Waited
  <2>8. CASE Report(l) \/ Crash(l)
    BY <1>1, <2>8 DEF Report, Crash, Release
  <2>9. ASSUME NEW j \in Requests, Take(l, j) PROVE CountOf(l)'
    <3>1. /\ job'[l] = j /\ pc'[l] = "lock" /\ stage'[l] = "before" /\ left'[l] = j.count
          /\ done'[l] = {} /\ ~failed'[l]
      BY <1>1, <2>9 DEF Take, IdleOK, ActionKinds
    <3>2. j.count \in Nat
      BY <1>1, <3>1, JobFields, InventoryAssumption
    <3> QED BY <3>1, <3>2, FS_EmptySet
  <2> QED BY <1>1, <2>1, <2>2, <2>3, <2>4, <2>5, <2>6, <2>7, <2>8, <2>9, <2>10
          DEF LoopStep, Step
<1>2. ASSUME NEW m \in Loops, UNCHANGED LoopVars(m), failed[m] => failed'[m],
             pc'[m] # "idle", job'[m].kind = "create"
      PROVE  CountOf(m)'
  BY <1>2 DEF CountOf, LoopVars, AccountOf
<1>3. CASE \E l \in Loops : LoopStep(l)
  BY <1>1, <1>2, <1>3, OthersStay
<1>4. CASE OutsideStep
  BY <1>2, <1>4, LoopsStay
<1> QED BY <1>3, <1>4, NextSteps

DeleteOf(l) ==
  /\ pc[l] # "work" => todo[l] = {}
  /\ ~failed[l] => job[l].droplets \cap cloud \subseteq todo[l]

DeleteOK == \A l \in Loops : pc[l] # "idle" /\ job[l].kind = "delete" => DeleteOf(l)

LEMMA DeleteOKNext ==
  ASSUME IInv, JobInv, BornOK, DeleteOK, Next
  PROVE  DeleteOK'
<1> USE DEF IInv, TypeOK, DeleteOK
<1>1. ASSUME NEW m \in Loops, pc[m] # "idle", job[m].kind = "delete"
      PROVE  job[m].droplets \cap cloud' \subseteq cloud
  BY <1>1, NoRebirth DEF BornOK
<1>2. ASSUME NEW l \in Loops, LoopStep(l), pc'[l] # "idle", job'[l].kind = "delete"
      PROVE  DeleteOf(l)'
  <2> USE DEF DeleteOf, Goto, Fail, syncVars, workVars, cloudVars
  <2>1. CASE LockUser(l) \/ LockUserFails(l) \/ CheckQuota(l) \/ Request(l)
             \/ SaveCredential(l) \/ SavedAll(l)
    BY <1>2, <2>1 DEF LockUser, LockUserFails, CheckQuota, Request, SaveCredential,
                      SavedAll,
                      PhaseOK
  <2>2. CASE SyncRead(l) \/ SyncList(l) \/ WorkDone(l)
    BY <1>2, <2>2 DEF SyncRead, SyncList, WorkDone
  <2>3. CASE SyncStore(l) \/ SyncFails(l)
    BY <1>2, <2>3 DEF SyncStore, SyncFails, AfterSync, Synced, JobInv, JobOK
  <2>4. CASE DeleteOne(l)
    <3>1. PICK d \in todo[l] :
            /\ todo' = [todo EXCEPT ![l] = @ \ {d}]
            /\ cloud' = cloud \ {d} \/ failed'[l]
      BY <2>4 DEF DeleteOne, Vanish
    <3>2. UNCHANGED <<pc, job>> /\ pc[l] = "work"
      BY <2>4 DEF DeleteOne
    <3>3. failed[l] => failed'[l]
      BY <2>4 DEF DeleteOne
    <3> QED BY <1>2, <3>1, <3>2, <3>3
  <2>5. CASE ActOne(l) \/ Waited(l)
    BY <1>2, <2>5 DEF ActOne, Waited, ActionKinds, machineVars
  <2>6. CASE Report(l) \/ Crash(l)
    BY <1>2, <2>6 DEF Report, Crash, Release
  <2>7. ASSUME NEW j \in Requests, Take(l, j) PROVE DeleteOf(l)'
    BY <1>2, <2>7 DEF Take
  <2> QED BY <1>2, <2>1, <2>2, <2>3, <2>4, <2>5, <2>6, <2>7 DEF LoopStep, Step
<1>3. ASSUME NEW m \in Loops, UNCHANGED LoopVars(m), failed[m] => failed'[m],
             pc'[m] # "idle", job'[m].kind = "delete"
      PROVE  DeleteOf(m)'
  BY <1>1, <1>3 DEF DeleteOf, LoopVars
<1>4. CASE \E l \in Loops : LoopStep(l)
  BY <1>2, <1>3, <1>4, OthersStay
<1>5. CASE OutsideStep
  BY <1>3, <1>5, LoopsStay
<1> QED BY <1>4, <1>5, NextSteps

-----------------------------------------------------------------------------
(* Passwords of the droplets a create job has made: saved, or still to be. *)

SavedOK ==
  SingleLoop \/ Undivided =>
    \A l \in Loops :
      /\ pc[l] \in {"save", "report"} /\ job[l].kind = "create" /\ job[l].managed
      /\ ~failed[l] /\ owner[AccountOf(l)] # NoUser
      => \A d \in done[l] \cap cloud : Saved(d) \/ (pc[l] = "save" /\ d \in todo[l])

(* An account that is unlinked stays so.                                   *)
LEMMA LinkedBefore ==
  ASSUME IInv, Next, NEW a \in Accounts, owner'[a] # NoUser
  PROVE  owner[a] # NoUser
<1>1. ASSUME NEW l \in Loops, LoopStep(l) PROVE UNCHANGED owner
  BY <1>1 DEF LoopStep, Take, Step, LockUser, LockUserFails, SyncRead, SyncList, SyncStore,
         SyncFails, CheckQuota, Request, SaveCredential, SavedAll, DeleteOne, ActOne, Waited,
         WorkDone, Report, Crash, Release
<1>2. CASE OutsideStep
  BY <1>2 DEF OutsideStep, ProviderActs, UpdateRootCredential, ConsoleDestroy, Unlink,
              Transfer, IInv, TypeOK
<1> QED BY <1>1, <1>2, NextSteps

LEMMA SavedOKNext ==
  ASSUME IInv, JobInv, ListingFresh, BornOK, CountOK, SavedOK, Next
  PROVE  SavedOK'
<1> SUFFICES ASSUME SingleLoop \/ Undivided, NEW m \in Loops,
                    pc'[m] \in {"save", "report"}, job'[m].kind = "create", job'[m].managed,
                    ~failed'[m], owner'[AccountOf(m)'] # NoUser,
                    NEW d \in done'[m] \cap cloud'
             PROVE  Saved(d)' \/ (pc'[m] = "save" /\ d \in todo'[m])
  BY UndividedBefore DEF SavedOK, SingleLoop, IInv
<1> USE DEF IInv, TypeOK
<1>1. ASSUME UNCHANGED <<job[m], done[m]>>, pc[m] \in {"save", "report"}
      PROVE  /\ d \in cloud /\ owner[AccountOf(m)] # NoUser
             /\ Saved(d) => Saved(d)'
  <2>1. job[m] \in Job /\ AccountOf(m) \in Accounts /\ AccountOf(m)' = AccountOf(m)
    BY <1>1, BusyJob, JobFields DEF AccountOf
  <2>2. d \in cloud
    BY <1>1, NoRebirth DEF BornOK
  <2>3. HomeOf(d) = AccountOf(m)
    BY <1>1 DEF CountOK, CountOf
  <2>4. Saved(d) => Saved(d)'
    <3>1. SingleLoop => \A l \in Loops : pc[l] # "store"
      BY <1>1 DEF SingleLoop
    <3>2. Undivided => \A l \in Loops : pc[l] = "store" /\ owner[AccountOf(l)] # NoUser
                                           => CloudOf(AccountOf(l)) \subseteq listed[l]
      BY DEF ListingFresh
    <3> QED BY <2>1, <2>2, <2>3, <3>1, <3>2, StepKeeps DEF CloudOf
  <2> QED BY <2>1, <2>2, <2>4, LinkedBefore
<1>2. CASE SyncStore(m)
  <2>1. pc'[m] = "save" /\ todo'[m] = done[m] /\ UNCHANGED done
    BY <1>2 DEF SyncStore, AfterSync, Synced, Goto, JobInv, JobOK
  <2> QED BY <2>1
<1>3. CASE SaveCredential(m)
  <2>1. PICK e \in todo[m] :
          /\ todo' = [todo EXCEPT ![m] = @ \ {e}]
          /\ \/ /\ rows[e] # NoRow
                /\ rows' = [rows EXCEPT ![e].cred = "active", ![e].password = 0]
             \/ Fail(m)
    BY <1>3 DEF SaveCredential
  <2>2. pc[m] = "save" /\ UNCHANGED <<pc, job, done>> /\ ~failed[m]
    BY <1>3 DEF SaveCredential, Fail
  <2>3. Saved(d) \/ d \in todo[m]
    BY <1>1, <2>2 DEF SavedOK
  <2>4. CASE Saved(d) \/ d # e
    BY <1>1, <2>1, <2>2, <2>3, <2>4
  <2>5. CASE d = e
    <3> DEFINE r == [rows[d] EXCEPT !.cred = "active", !.password = 0]
    <3>1. rows[d] \in Row /\ rows'[d] = r
      BY <2>1, <2>5 DEF Fail
    <3>2. r \in Row /\ r.cred = "active"
      BY <3>1 DEF Row
    <3> QED BY <3>1, <3>2, NoRowAssumption DEF Saved
  <2> QED BY <2>4, <2>5
<1>4. CASE SavedAll(m)
  <2>1. pc[m] = "save" /\ todo[m] = {} /\ UNCHANGED <<job, done, failed>>
    BY <1>4 DEF SavedAll, workVars
  <2> QED BY <1>1, <2>1 DEF SavedOK
<1>5. ASSUME LoopStep(m) PROVE SyncStore(m) \/ SaveCredential(m) \/ SavedAll(m)
  <2> USE DEF Goto, Fail
  <2>1. ~(LockUser(m) \/ LockUserFails(m) \/ SyncRead(m) \/ SyncList(m))
    BY DEF LockUser, LockUserFails, SyncRead, SyncList
  <2>2. ~SyncFails(m)
    BY DEF SyncFails
  <2>3. ~(CheckQuota(m) \/ Request(m))
    BY DEF CheckQuota, Request
  <2>4. ~(DeleteOne(m) \/ ActOne(m) \/ Waited(m) \/ WorkDone(m))
    BY DEF DeleteOne, ActOne, Waited, WorkDone
  <2>5. ~(Report(m) \/ Crash(m) \/ \E j \in Requests : Take(m, j))
    BY DEF Report, Crash, Release, Take
  <2> QED BY <1>5, <2>1, <2>2, <2>3, <2>4, <2>5 DEF LoopStep, Step
<1>6. ASSUME UNCHANGED LoopVars(m), failed[m] => failed'[m]
      PROVE  Saved(d)' \/ (pc'[m] = "save" /\ d \in todo'[m])
  <2>1. UNCHANGED <<pc[m], job[m], done[m], todo[m]>>
    BY <1>6 DEF LoopVars
  <2> QED BY <1>1, <1>6, <2>1 DEF SavedOK
<1> QED BY <1>2, <1>3, <1>4, <1>5, <1>6, OthersStay, LoopsStay, NextSteps

ResultInv == BornOK /\ IdleOK /\ CountOK /\ DeleteOK /\ SavedOK

LEMMA ResultsInvariant == Spec => []ResultInv
<1>1. Init => ResultInv
  BY DEF Init, ResultInv, BornOK, IdleOK, CountOK, DeleteOK, SavedOK
<1>2. IInv /\ JobInv /\ ListingFresh /\ ResultInv /\ [Next]_vars => ResultInv'
  <2> SUFFICES ASSUME IInv, JobInv, ListingFresh, ResultInv, [Next]_vars PROVE ResultInv'
    OBVIOUS
  <2>1. CASE UNCHANGED vars
    <3>1. UNCHANGED <<owner, cloudVars, rowVars, pc, job, syncVars, workVars, used>>
      BY <2>1 DEF vars
    <3> USE <3>1 DEF ResultInv, cloudVars, rowVars, syncVars, workVars
    <3>2. Born' = Born /\ (Undivided' => Undivided)
      BY DEF Born, Undivided, SingleLoop, CreatesOnly, OnePage, Unused
    <3>3. BornOK' /\ IdleOK'
      BY <3>2 DEF BornOK, IdleOK
    <3>4. CountOK' /\ DeleteOK'
      BY DEF CountOK, CountOf, DeleteOK, DeleteOf, AccountOf
    <3>5. SavedOK'
      BY <3>2 DEF SavedOK, SingleLoop, Saved, AccountOf
    <3> QED BY <3>3, <3>4, <3>5
  <2>2. CASE Next
    BY <2>2, BornOKNext, IdleOKNext, CountOKNext, DeleteOKNext, SavedOKNext DEF ResultInv
  <2> QED BY <2>1, <2>2
<1> QED BY Invariance, JobInvariance, ListingsFresh, <1>1, <1>2, PTL DEF Spec

(* Without transfers, no transfer has happened.                            *)
LEMMA NoTransfers == ASSUME MaxTransfers = 0 PROVE Spec => []Unused({"transfers"})
<1>1. Init => Unused({"transfers"})
  BY DEF Init, Unused, BoundNames
<1>2. ASSUME TypeOK, Unused({"transfers"}), [Next]_vars PROVE Unused({"transfers"})'
  <2>1. CASE UNCHANGED used
    BY <1>2, <2>1 DEF Unused
  <2>2. ASSUME NEW b \in BoundNames, Spend(b) PROVE Unused({"transfers"})'
    <3>1. Bounds["transfers"] = 0 /\ used["transfers"] = 0
      BY <1>2 DEF Bounds, Unused
    <3>2. b # "transfers"
      BY <2>2, <3>1 DEF Spend
    <3> QED BY <2>2, <3>1, <3>2 DEF Spend, Unused, TypeOK, BoundNames
  <2> QED BY <1>2, <2>1, <2>2, Spending DEF vars
<1> QED BY <1>1, <1>2, TypeCorrect, PTL DEF Spec

(* No sync runs beside a create job on the same account.                   *)
NoRivals == SingleLoop \/ (OnePage /\ CreatesOnly /\ MaxTransfers = 0)

LEMMA NoRivalsAlone == ASSUME NoRivals PROVE Spec => [](SingleLoop \/ Undivided)
<1>1. CASE SingleLoop
  <2>1. SingleLoop \/ Undivided
    BY <1>1
  <2> QED BY <2>1, PTL
<1>2. CASE OnePage /\ CreatesOnly /\ MaxTransfers = 0
  <2>1. Unused({"transfers"}) => SingleLoop \/ Undivided
    BY <1>2 DEF Undivided
  <2>2. Spec => []Unused({"transfers"})
    BY <1>2, NoTransfers
  <2> QED BY <2>1, <2>2, PTL
<1> QED BY <1>1, <1>2 DEF NoRivals

(* A job that reports success tells the truth, whatever failed or crashed  *)
(* meanwhile: a create job made what it was asked for and the passwords    *)
(* are saved, a delete job left none of its droplets; with one loop, or,   *)
(* for accounts of one page that keep their owners, with any number of     *)
(* loops and no other sync than those of create jobs.                      *)
THEOREM SuccessTold == ASSUME NoRivals PROVE Spec => []SuccessIsTrue
<1>1. IInv /\ ResultInv /\ JobInv /\ (SingleLoop \/ Undivided) => SuccessIsTrue
  <2> SUFFICES ASSUME IInv, ResultInv, JobInv, SingleLoop \/ Undivided,
                      NEW l \in Loops, pc[l] = "report", ~failed[l]
               PROVE  /\ job[l].kind = "create" =>
                           /\ Cardinality(done[l]) = job[l].count
                           /\ job[l].managed /\ owner[AccountOf(l)] # NoUser
                                => \A d \in done[l] \cap cloud :
                                     rows[d] # NoRow /\ rows[d].cred # "none"
                      /\ job[l].kind = "delete" => job[l].droplets \cap cloud = {}
    BY DEF SuccessIsTrue, Outcome
  <2>1. ASSUME job[l].kind = "create" PROVE Cardinality(done[l]) = job[l].count
    <3>1. CountOf(l)
      BY <2>1 DEF ResultInv, CountOK
    <3>2. stage[l] = "after"
      BY <2>1, <3>1 DEF CountOf, JobInv, JobOK
    <3> QED BY <3>1, <3>2, FS_CardinalityType DEF CountOf
  <2>2. ASSUME job[l].kind = "create", job[l].managed, owner[AccountOf(l)] # NoUser,
               NEW d \in done[l] \cap cloud
        PROVE  rows[d] # NoRow /\ rows[d].cred # "none"
    BY <2>2 DEF ResultInv, SavedOK, Saved
  <2>3. ASSUME job[l].kind = "delete" PROVE job[l].droplets \cap cloud = {}
    BY <2>3 DEF ResultInv, DeleteOK, DeleteOf
  <2> QED BY <2>1, <2>2, <2>3
<1> QED BY Invariance, JobInvariance, ResultsInvariant, NoRivalsAlone, <1>1, PTL

-----------------------------------------------------------------------------
(* What a step does to the row of a droplet: nothing, or one of the        *)
(* following.                                                              *)

SameSecret(d) == rows'[d].cred = rows[d].cred /\ rows'[d].password = rows[d].password

Stored(l, d) ==
  /\ pc[l] = "store" /\ owner[AccountOf(l)] # NoUser /\ HomeOf(d) = AccountOf(l)
  /\ SyncStore(l) \/ (SyncFails(l) /\ Spend("outages"))
  /\ IF d \in listed[l]
     THEN /\ rows'[d] \in Row /\ rows'[d].user = reader[l]
          /\ rows'[d].cred = "none" \/ (rows[d] # NoRow /\ SameSecret(d))
     ELSE rows'[d] = NoRow

Written(d) ==
  /\ rows[d] # NoRow /\ rows'[d] \in Row /\ rows'[d].user = rows[d].user
  /\ \/ UpdateRootCredential(d) /\ rows'[d].password = password[d]
     \/ \E l \in Loops : SaveCredential(l) /\ d \in todo[l] /\ rows'[d].password = 0

Marked(d) ==
  /\ rows[d] # NoRow /\ rows'[d] \in Row /\ rows'[d].user = rows[d].user
  /\ rows'[d].cred = "stale"

Dropped(d) == rows'[d] = NoRow /\ Unlink(HomeOf(d))

Moved(d) ==
  /\ rows[d] # NoRow /\ rows'[d] \in Row /\ SameSecret(d)
  /\ \E u \in Users : Transfer(HomeOf(d), u)

LEMMA UpsertStores ==
  ASSUME IInv, NEW l \in Loops, pc[l] = "store", owner[AccountOf(l)] # NoUser,
         UpsertDroplets(AccountOf(l), listed[l], reader[l]),
         SyncStore(l) \/ (SyncFails(l) /\ Spend("outages")), NEW d \in Droplets
  PROVE  rows'[d] = rows[d] \/ Stored(l, d)
<1>1. reader[l] \in Users
  BY DEF IInv, TypeOK, PhaseOK
<1>2. CASE HomeOf(d) # AccountOf(l) \/ d \notin listed[l]
  BY <1>2 DEF UpsertDroplets, Stored
<1>3. CASE HomeOf(d) = AccountOf(l) /\ d \in listed[l] /\ rows[d] = NoRow
  <2>1. rows'[d] = NewRow(reader[l])
    BY <1>3 DEF UpsertDroplets
  <2> QED BY <1>1, <1>3, <2>1 DEF Stored, NewRow, Row
<1>4. CASE HomeOf(d) = AccountOf(l) /\ d \in listed[l] /\ rows[d] # NoRow
  <2>1. rows[d] \in Row /\ rows'[d] = [rows[d] EXCEPT !.user = reader[l]]
    BY <1>4 DEF UpsertDroplets, IInv, TypeOK
  <2>2. rows'[d] \in Row /\ rows'[d].user = reader[l] /\ SameSecret(d)
    BY <1>1, <2>1 DEF Row, SameSecret
  <2> QED BY <1>4, <2>2 DEF Stored
<1> QED BY <1>2, <1>3, <1>4

LEMMA CredentialWritten ==
  ASSUME IInv, NEW d \in Droplets, rows[d] # NoRow, NEW v \in Nat,
         rows' = [rows EXCEPT ![d].cred = "active", ![d].password = v]
  PROVE  /\ rows'[d] \in Row /\ rows'[d].user = rows[d].user /\ rows'[d].password = v
         /\ \A e \in Droplets : e # d => rows'[e] = rows[e]
<1>1. rows[d] \in Row /\ rows \in [Droplets -> Row \cup {NoRow}]
  BY DEF IInv, TypeOK
<1>2. rows'[d] = [rows[d] EXCEPT !.cred = "active", !.password = v]
  BY <1>1
<1>3. \A e \in Droplets : e # d => rows'[e] = rows[e]
  BY <1>1
<1> QED BY <1>1, <1>2, <1>3 DEF Row

LEMMA RowSteps ==
  ASSUME IInv, Next, NEW d \in Droplets
  PROVE  \/ rows'[d] = rows[d]
         \/ (\E l \in Loops : Stored(l, d)) \/ Written(d) \/ Dropped(d) \/ Moved(d)
         \/ Marked(d) /\ \E l \in Loops : Waited(l)
<1> USE DEF rowVars
<1>1. ASSUME NEW l \in Loops, SyncStore(l) \/ SyncFails(l)
      PROVE  rows'[d] = rows[d] \/ Stored(l, d)
  BY <1>1, UpsertStores DEF SyncStore, SyncFails
<1>2. ASSUME NEW l \in Loops, SaveCredential(l)
      PROVE  rows'[d] = rows[d] \/ Written(d)
  <2>1. PICK e \in todo[l] :
          \/ UNCHANGED rows
          \/ /\ rows[e] # NoRow
             /\ rows' = [rows EXCEPT ![e].cred = "active", ![e].password = 0]
    BY <1>2 DEF SaveCredential
  <2>2. e \in Droplets
    BY DEF IInv, TypeOK
  <2> QED BY <1>2, <2>1, <2>2, CredentialWritten DEF Written
<1>3. ASSUME NEW l \in Loops, Waited(l) PROVE rows'[d] = rows[d] \/ Marked(d)
  <2>1. UNCHANGED rows \/ MarkStale(l)
    BY <1>3 DEF Waited
  <2>2. CASE MarkStale(l) /\ rows'[d] # rows[d]
    <3>1. rows[d] # NoRow /\ rows'[d] = [rows[d] EXCEPT !.cred = "stale"]
      BY <2>2 DEF MarkStale
    <3>2. rows[d] \in Row
      BY <3>1 DEF IInv, TypeOK
    <3> QED BY <3>1, <3>2 DEF Row, Marked
  <2> QED BY <2>1, <2>2
<1>4. ASSUME NEW l \in Loops, LoopStep(l),
             ~(SyncStore(l) \/ SyncFails(l)), ~SaveCredential(l), ~Waited(l)
      PROVE  rows'[d] = rows[d]
  BY <1>4 DEF LoopStep, Take, Step, LockUser, LockUserFails, SyncRead, SyncList, CheckQuota,
              Request, SavedAll, DeleteOne, ActOne, WorkDone, Report, Crash, Release
<1>5. ASSUME NEW e \in Droplets, UpdateRootCredential(e)
      PROVE  rows'[d] = rows[d] \/ Written(d)
  <2>1. /\ rows[e] # NoRow /\ password[e] \in Nat
        /\ rows' = [rows EXCEPT ![e].cred = "active", ![e].password = password[e]]
    BY <1>5 DEF UpdateRootCredential, IInv, TypeOK
  <2> QED BY <1>5, <2>1, CredentialWritten DEF Written
<1>6. ASSUME NEW a \in Accounts, NEW u \in Users, Transfer(a, u)
      PROVE  rows'[d] = rows[d] \/ Moved(d)
  <2>1. CASE d \in RowsOf(a)
    <3>1. rows[d] # NoRow /\ HomeOf(d) = a /\ rows'[d] = [rows[d] EXCEPT !.user = u]
      BY <1>6, <2>1 DEF Transfer, RowsOf
    <3>2. rows[d] \in Row
      BY <3>1 DEF IInv, TypeOK
    <3>3. rows'[d] \in Row /\ SameSecret(d)
      BY <3>1, <3>2 DEF Row, SameSecret
    <3> QED BY <1>6, <3>1, <3>3 DEF Moved
  <2>2. CASE d \notin RowsOf(a)
    BY <1>6, <2>2 DEF Transfer
  <2> QED BY <2>1, <2>2
<1>7. ASSUME NEW a \in Accounts, Unlink(a) PROVE rows'[d] = rows[d] \/ Dropped(d)
  BY <1>7 DEF Unlink, Dropped
<1>8. ASSUME NEW e \in Droplets, ProviderActs(e) \/ ConsoleDestroy(e)
      PROVE  rows'[d] = rows[d]
  BY <1>8 DEF ProviderActs, ConsoleDestroy
<1> QED BY <1>1, <1>2, <1>3, <1>4, <1>5, <1>6, <1>7, <1>8, NextSteps DEF OutsideStep

-----------------------------------------------------------------------------
(* The quota.  While nothing is lost and no account changes hands, rows    *)
(* belong to the owners of their accounts, every droplet of a linked       *)
(* account has its row or is in the making by a create job that holds the  *)
(* lock, and a job that is about to send requests has room for all it has  *)
(* left.                                                                   *)

Calm == Unused({"outages", "crashes", "transfers"})

RowsOwned ==
  Unused({"transfers"}) =>
    \A d \in Droplets : rows[d] # NoRow => rows[d].user = owner[HomeOf(d)]

MakingBy(l, d) ==
  HoldsLock(l) /\ pc[l] \in {"request", "read", "list", "store"} /\ d \in done[l]

Recorded ==
  Undivided /\ Calm =>
    \A d \in cloud : owner[HomeOf(d)] # NoUser
                       => rows[d] # NoRow \/ \E l \in Loops : MakingBy(l, d)

Holdings(u) == {d \in cloud : owner[HomeOf(d)] = u}

RoomLeft ==
  Undivided /\ Calm =>
    /\ \A u \in Users : Cardinality(Holdings(u)) <= Quota
    /\ \A l \in Loops : pc[l] = "request" => Cardinality(Holdings(user[l])) + left[l] <= Quota

LEMMA CalmBefore ==
  ASSUME IInv, Next
  PROVE  /\ Calm' => /\ Calm /\ Unused({"transfers"})'
                     /\ UNCHANGED <<used["outages"], used["crashes"]>>
         /\ Unused({"transfers"})' => Unused({"transfers"})
         /\ Calm /\ Undivided' => Undivided
<1>1. Calm' => Calm
  BY UnusedBefore DEF Calm, BoundNames, IInv
<1>2. Unused({"transfers"})' => Unused({"transfers"})
  BY UnusedBefore DEF BoundNames, IInv
<1>3. Undivided' => Undivided
  BY UndividedBefore DEF IInv
<1> QED BY <1>1, <1>2, <1>3 DEF Calm, Unused

(* Unless accounts are transferred, an owner only ever unlinks.            *)
LEMMA OwnersStay ==
  ASSUME IInv, Next, Unused({"transfers"})', NEW a \in Accounts
  PROVE  owner'[a] \in {owner[a], NoUser}
<1>1. ASSUME NEW l \in Loops, LoopStep(l) PROVE UNCHANGED owner
  BY <1>1 DEF LoopStep, Take, Step, LockUser, LockUserFails, SyncRead, SyncList, SyncStore,
         SyncFails, CheckQuota, Request, SaveCredential, SavedAll, DeleteOne, ActOne, Waited,
         WorkDone, Report, Crash, Release
<1>2. ASSUME NEW b \in Accounts, NEW u \in Users, Transfer(b, u) PROVE FALSE
  BY <1>2 DEF Transfer, Spend, Unused, IInv, TypeOK, BoundNames
<1>3. CASE OutsideStep
  BY <1>2, <1>3 DEF OutsideStep, ProviderActs, UpdateRootCredential, ConsoleDestroy, Unlink,
                    IInv, TypeOK
<1> QED BY <1>1, <1>3, NextSteps

LEMMA RowsOwnedNext ==
  ASSUME IInv, JobInv, RowsOwned, Next
  PROVE  RowsOwned'
<1> SUFFICES ASSUME Unused({"transfers"})', NEW d \in Droplets, rows'[d] # NoRow
             PROVE  rows'[d].user = owner'[HomeOf(d)]
  BY DEF RowsOwned
<1>1. Unused({"transfers"})
  BY CalmBefore
<1>2. owner'[HomeOf(d)] = owner[HomeOf(d)] /\ owner[HomeOf(d)] # NoUser
  <2>1. owner'[HomeOf(d)] # NoUser
    BY StepInv DEF IInv, TypeOK
  <2> QED BY <2>1, HomeType, OwnersStay
<1>3. CASE rows'[d] = rows[d]
  BY <1>1, <1>2, <1>3 DEF RowsOwned
<1>4. ASSUME NEW l \in Loops, Stored(l, d) PROVE rows'[d].user = owner[HomeOf(d)]
  <2>1. rows'[d].user = reader[l] /\ pc[l] = "store" /\ HomeOf(d) = AccountOf(l)
    BY <1>4 DEF Stored
  <2> QED BY <1>1, <1>2, <2>1 DEF JobInv, OwnerOK
<1>5. CASE Written(d) \/ Marked(d)
  BY <1>1, <1>2, <1>5 DEF Written, Marked, RowsOwned
<1>6. ASSUME Moved(d) PROVE FALSE
  BY <1>6 DEF Moved, Transfer, Spend, Unused, IInv, TypeOK, BoundNames
<1> QED BY <1>2, <1>3, <1>4, <1>5, <1>6, RowSteps DEF Dropped

LEMMA RecordedNext ==
  ASSUME IInv, JobInv, ListingFresh, CountOK, Recorded, Next
  PROVE  Recorded'
<1> SUFFICES ASSUME Undivided, Calm, Calm', NEW d \in cloud', owner'[HomeOf(d)] # NoUser
             PROVE  rows'[d] # NoRow \/ \E l \in Loops : MakingBy(l, d)'
  BY CalmBefore DEF Recorded
<1>1. ~Spend("outages") /\ ~Spend("crashes")
  BY CalmBefore DEF Spend, IInv, TypeOK, BoundNames
<1>2. d \in Droplets /\ HomeOf(d) \in Accounts /\ owner[HomeOf(d)] # NoUser
  <2>1. d \in Droplets
    BY StepInv DEF IInv, TypeOK
  <2> QED BY <2>1, HomeType, LinkedBefore
<1>3. CASE d \notin cloud
  <2>1. PICK l \in Loops : Request(l)
    BY <1>3, OnlyRequestsCreate
  <2>2. PICK n \in Nat : /\ pc'[l] \in {"request", "read"}
                         /\ Created(l, n)
                         /\ done'[l] = done[l] \cup Newborn(AccountOf(l), n)
    <3>1. pc[l] = "request"
      BY <2>1, RequestEffect
    <3> QED BY <1>1, <1>3, <2>1, <3>1, RequestEffect
  <2>3. d \in done'[l]
    BY <1>3, <2>2 DEF Created
  <2>4. job'[l].kind = "create"
    BY <2>1, RequestEffect DEF Request
  <2> QED BY <2>2, <2>3, <2>4 DEF MakingBy, HoldsLock
<1>4. CASE d \in cloud /\ rows[d] # NoRow
  <2>1. ASSUME NEW l \in Loops, Stored(l, d) PROVE rows'[d] # NoRow
    <3>1. d \in listed[l]
      BY <1>2, <1>4, <2>1 DEF Stored, ListingFresh, CloudOf
    <3> QED BY <2>1, <3>1, NoRowAssumption DEF Stored
  <2>2. ~Dropped(d)
    BY <1>2 DEF Dropped, Unlink, IInv, TypeOK
  <2> QED BY <1>2, <1>4, <2>1, <2>2, RowSteps, NoRowAssumption DEF Written, Marked, Moved
<1>5. ASSUME d \in cloud, NEW m \in Loops, MakingBy(m, d)
      PROVE  rows'[d] # NoRow \/ MakingBy(m, d)'
  <2>1. pc[m] # "idle" /\ job[m].kind = "create" /\ HomeOf(d) = AccountOf(m)
    BY <1>5 DEF MakingBy, HoldsLock, CountOK, CountOf
  <2>2. CASE UNCHANGED LoopVars(m)
    BY <1>5, <2>2 DEF MakingBy, HoldsLock, LoopVars
  <2>3. CASE Request(m)
    BY <1>5, <2>3, RequestEffect DEF MakingBy, HoldsLock, Request
  <2>4. CASE SyncRead(m) \/ SyncList(m)
    BY <1>5, <2>1, <2>4 DEF SyncRead, SyncList, MakingBy, HoldsLock, Goto, workVars, IInv,
                            TypeOK
  <2>5. CASE SyncStore(m)
    <3>1. d \in listed[m]
      BY <1>2, <1>5, <2>1, <2>5 DEF SyncStore, ListingFresh, CloudOf
    <3>2. reader[m] \in Users
      BY <2>5 DEF SyncStore, IInv, TypeOK, PhaseOK
    <3>3. rows'[d] = rows[d] \/ Stored(m, d)
      BY <1>2, <2>5, UpsertStores DEF SyncStore
    <3>4. rows'[d] = rows[d] => rows'[d] # NoRow
      <4>1. rows[d] = NoRow => rows'[d] = NewRow(reader[m])
        BY <1>2, <2>1, <2>5, <3>1 DEF SyncStore, UpsertDroplets
      <4>2. NewRow(reader[m]) \in Row
        BY <3>2 DEF NewRow, Row
      <4> QED BY <4>1, <4>2, NoRowAssumption
    <3> QED BY <3>1, <3>3, <3>4, NoRowAssumption DEF Stored
  <2>6. ~SyncFails(m) /\ ~Crash(m)
    BY <1>1, <1>2, <2>1 DEF SyncFails, Crash
  <2>7. ASSUME LoopStep(m)
        PROVE  \/ Request(m) \/ SyncRead(m) \/ SyncList(m) \/ SyncStore(m) \/ SyncFails(m)
               \/ Crash(m)
    <3>1. pc[m] \in {"request", "read", "list", "store"}
      BY <1>5 DEF MakingBy
    <3>2. ~(LockUser(m) \/ LockUserFails(m) \/ CheckQuota(m) \/ SaveCredential(m) \/ SavedAll(m))
      BY <3>1 DEF LockUser, LockUserFails, CheckQuota, SaveCredential, SavedAll
    <3>3. ~(DeleteOne(m) \/ ActOne(m) \/ Waited(m) \/ WorkDone(m) \/ Report(m))
      BY <3>1 DEF DeleteOne, ActOne, Waited, WorkDone, Report
    <3>4. ~\E j \in Requests : Take(m, j)
      BY <3>1 DEF Take
    <3> QED BY <2>7, <3>2, <3>3, <3>4 DEF LoopStep, Step
  <2> QED BY <2>2, <2>3, <2>4, <2>5, <2>6, <2>7, OthersStay, LoopsStay, NextSteps DEF IInv
<1> QED BY <1>2, <1>3, <1>4, <1>5 DEF Recorded

LEMMA AllFinite == IsFiniteSet(Droplets)
<1>1. IsFiniteSet(1..MaxDroplets)
  BY InventoryAssumption, FS_Interval
<1> QED BY <1>1, InventoryAssumption, FS_Product DEF Droplets

(* What checkQuota counts holds every droplet of the user.                 *)
LEMMA QuotaCountsAll ==
  ASSUME IInv, JobInv, CountOK, RowsOwned, Recorded, Undivided, Calm,
         NEW l \in Loops, pc[l] = "quota", WithinQuota(l)
  PROVE  Cardinality(Holdings(user[l])) + left[l] <= Quota
<1> DEFINE Counted == {d \in Droplets : rows[d] # NoRow /\ rows[d].user = user[l]}
<1>1. /\ user[l] \in Users /\ HoldsLock(l)
      /\ job[l].count \in Nat /\ left[l] \in Nat /\ left[l] <= job[l].count
  <2>1. pc[l] # "idle" /\ job[l].kind = "create" /\ left[l] \in 1..job[l].count
    BY DEF IInv, PhaseOK
  <2>2. job[l].count \in Nat
    BY <2>1, BusyJob, JobFields, InventoryAssumption DEF IInv
  <2> QED BY <2>1, <2>2 DEF IInv, TypeOK, JobInv, JobOK, HoldsLock
<1>2. ASSUME NEW d \in Holdings(user[l]) PROVE d \in Counted
  <2>1. d \in cloud /\ d \in Droplets /\ owner[HomeOf(d)] = user[l] /\ user[l] # NoUser
    BY <1>1, InventoryAssumption DEF Holdings, IInv, TypeOK
  <2>2. ASSUME NEW m \in Loops, MakingBy(m, d) PROVE FALSE
    <3>1. HoldsLock(m) /\ m # l /\ AccountOf(m) = HomeOf(d) /\ pc[m] # "idle"
      BY <2>2 DEF MakingBy, HoldsLock, CountOK, CountOf
    <3>2. user[m] = user[l]
      BY <2>1, <3>1 DEF JobInv, OwnerOK, Calm, Unused
    <3> QED BY <1>1, <3>1, <3>2 DEF JobInv, LockOK
  <2>3. rows[d] # NoRow
    BY <2>1, <2>2 DEF Recorded
  <2> QED BY <2>1, <2>3 DEF RowsOwned, Calm, Unused
<1>3. IsFiniteSet(Counted)
  BY AllFinite, FS_Subset
<1>4. Cardinality(Holdings(user[l])) <= Cardinality(Counted)
  BY <1>2, <1>3, FS_Subset
<1>5. Cardinality(Counted) \in Nat /\ Cardinality(Holdings(user[l])) \in Nat
  BY <1>2, <1>3, FS_Subset, FS_CardinalityType
<1>6. Cardinality(Counted) + job[l].count <= Quota
  BY DEF WithinQuota, Usage
<1> HIDE DEF Counted
<1> QED BY <1>1, <1>4, <1>5, <1>6, InventoryAssumption

(* Without a request, holdings only shrink.                                *)
LEMMA HoldingsShrink ==
  ASSUME IInv, Next, Unused({"transfers"})', \A l \in Loops : ~Request(l), NEW u \in Users
  PROVE  Cardinality(Holdings(u)') \in Nat /\ Cardinality(Holdings(u)') <= Cardinality(Holdings(u))
<1>1. Holdings(u)' \subseteq Holdings(u)
  <2> SUFFICES ASSUME NEW d \in cloud', owner'[HomeOf(d)] = u
               PROVE  d \in cloud /\ owner[HomeOf(d)] = u
    BY DEF Holdings
  <2>1. d \in cloud
    BY OnlyRequestsCreate
  <2>2. HomeOf(d) \in Accounts /\ u # NoUser
    BY <2>1, HomeType, InventoryAssumption DEF IInv, TypeOK
  <2> QED BY <2>1, <2>2, OwnersStay
<1>2. IsFiniteSet(Holdings(u))
  BY DropletsFinite DEF Holdings, IInv
<1> QED BY <1>1, <1>2, FS_Subset, FS_CardinalityType

LEMMA EntersRequest ==
  ASSUME IInv, NEW l \in Loops, LoopStep(l), ~Request(l), pc'[l] = "request"
  PROVE  /\ CheckQuota(l) /\ pc[l] = "quota" /\ WithinQuota(l)
         /\ UNCHANGED <<user[l], left[l]>>
<1> USE DEF Goto, IInv, TypeOK
<1>1. ~(LockUser(l) \/ LockUserFails(l) \/ SyncRead(l) \/ SyncList(l))
  BY DEF LockUser, LockUserFails, SyncRead, SyncList
<1>2. ~(SyncStore(l) \/ SyncFails(l))
  BY DEF SyncStore, SyncFails, AfterSync, Synced
<1>3. ~(SaveCredential(l) \/ SavedAll(l) \/ WorkDone(l) \/ DeleteOne(l))
  BY DEF SaveCredential, SavedAll, WorkDone, DeleteOne
<1>4. ~(ActOne(l) \/ Waited(l))
  BY DEF ActOne, Waited
<1>5. ~(Report(l) \/ Crash(l) \/ \E j \in Requests : Take(l, j))
  BY DEF Report, Crash, Release, Take
<1>6. CheckQuota(l)
  BY <1>1, <1>2, <1>3, <1>4, <1>5 DEF LoopStep, Step
<1> QED BY <1>6 DEF CheckQuota

LEMMA RoomLeftQuiet ==
  ASSUME IInv, JobInv, CountOK, RowsOwned, Recorded, RoomLeft, Next,
         Undivided, Calm, Unused({"transfers"})', \A l \in Loops : ~Request(l)
  PROVE  /\ \A u \in Users : Cardinality(Holdings(u)') <= Quota
         /\ \A l \in Loops : pc'[l] = "request" =>
              Cardinality(Holdings(user[l])') + left'[l] <= Quota
<1>1. \A u \in Users : Cardinality(Holdings(u)) \in Nat
  BY DropletsFinite DEF IInv, Holdings
<1>2. ASSUME NEW u \in Users PROVE Cardinality(Holdings(u)') <= Quota
  BY <1>1, HoldingsShrink, InventoryAssumption DEF RoomLeft
<1>3. ASSUME NEW l \in Loops, pc'[l] = "request"
      PROVE  Cardinality(Holdings(user[l])') + left'[l] <= Quota
  <2>1. /\ UNCHANGED <<user[l], left[l]>>
        /\ pc[l] # "idle"
        /\ Cardinality(Holdings(user[l])) + left[l] <= Quota
    <3>1. CASE LoopStep(l)
      BY <1>3, <3>1, EntersRequest, QuotaCountsAll
    <3>2. CASE UNCHANGED LoopVars(l)
      BY <1>3, <3>2 DEF LoopVars, RoomLeft
    <3> QED BY <3>1, <3>2, OthersStay, LoopsStay, NextSteps DEF IInv
  <2>2. PICK u \in Users : u = user[l]
    BY <2>1 DEF JobInv, JobOK, IInv, TypeOK
  <2>3. Holdings(user[l])' = Holdings(u)' /\ left[l] \in Nat
    BY <2>1, <2>2 DEF Holdings, IInv, TypeOK
  <2>4. Cardinality(Holdings(u)') <= Cardinality(Holdings(u))
    BY HoldingsShrink
  <2>5. Cardinality(Holdings(u)') \in Nat /\ Cardinality(Holdings(u)) \in Nat
    BY <1>1, HoldingsShrink
  <2> QED BY <2>1, <2>2, <2>3, <2>4, <2>5, InventoryAssumption
<1> QED BY <1>2, <1>3

LEMMA RoomLeftRequest ==
  ASSUME IInv, JobInv, BornOK, RoomLeft, Next, Undivided, Calm, Calm',
         NEW l \in Loops, Request(l)
  PROVE  /\ \A u \in Users : Cardinality(Holdings(u)') <= Quota
         /\ \A m \in Loops : pc'[m] = "request" =>
              Cardinality(Holdings(user[m])') + left'[m] <= Quota
<1>1. PICK n \in Nat : /\ n <= left[l] /\ left'[l] = left[l] - n
                       /\ Created(l, n) \/ UNCHANGED cloud
  BY RequestEffect
<1>2. /\ pc[l] = "request" /\ AccountOf(l) \in Accounts /\ job[l].kind = "create"
      /\ UNCHANGED <<owner, user>>
  BY RequestEffect DEF Request
<1>3. PICK u \in Users : u = user[l]
  BY <1>2 DEF JobInv, JobOK, IInv, TypeOK
<1>4. owner[AccountOf(l)] \in {u, NoUser}
  BY <1>2, <1>3 DEF JobInv, OwnerOK, Calm, Unused
<1>5. left[l] \in Nat /\ Cardinality(Holdings(u)) \in Nat
  BY DropletsFinite DEF IInv, TypeOK, Holdings
<1>6. \A v \in Users : v # u => Holdings(v)' = Holdings(v)
  <2>1. CASE Created(l, n)
    <3>1. \A d \in Newborn(AccountOf(l), n) : HomeOf(d) = AccountOf(l)
      BY <1>2, NewbornFacts DEF IInv
    <3> QED BY <1>2, <1>4, <2>1, <3>1, InventoryAssumption DEF Holdings, Created
  <2>2. CASE UNCHANGED cloud
    BY <1>2, <2>2 DEF Holdings
  <2> QED BY <1>1, <2>1, <2>2
<1>7. /\ Cardinality(Holdings(u)') \in Nat
      /\ Cardinality(Holdings(u)') <= Cardinality(Holdings(u)) + n
  <2>1. CASE Holdings(u)' = Holdings(u)
    BY <1>5, <2>1
  <2>2. CASE Created(l, n) /\ owner[AccountOf(l)] = u
    <3>1. /\ IsFiniteSet(Newborn(AccountOf(l), n)) /\ Cardinality(Newborn(AccountOf(l), n)) = n
          /\ Newborn(AccountOf(l), n) \cap Born = {}
          /\ \A d \in Newborn(AccountOf(l), n) : HomeOf(d) = AccountOf(l)
      BY <1>2, NewbornFacts DEF IInv
    <3>2. Holdings(u)' = Holdings(u) \cup Newborn(AccountOf(l), n)
      BY <1>2, <2>2, <3>1 DEF Holdings, Created
    <3>3. IsFiniteSet(Holdings(u)) /\ Holdings(u) \cap Newborn(AccountOf(l), n) = {}
      BY <3>1, DropletsFinite DEF IInv, Holdings, BornOK
    <3>4. Cardinality(Holdings(u)') = Cardinality(Holdings(u)) + n
      BY <3>1, <3>2, <3>3, DisjointUnion
    <3> QED BY <1>5, <3>4
  <2>3. CASE Created(l, n) /\ owner[AccountOf(l)] = NoUser
    <3>1. \A d \in Newborn(AccountOf(l), n) : HomeOf(d) = AccountOf(l)
      BY <1>2, NewbornFacts DEF IInv
    <3>2. Holdings(u)' = Holdings(u)
      BY <1>2, <2>3, <3>1, InventoryAssumption DEF Holdings, Created
    <3> QED BY <2>1, <3>2
  <2>4. CASE UNCHANGED cloud
    BY <1>2, <2>1, <2>4 DEF Holdings
  <2> QED BY <1>1, <1>4, <2>2, <2>3, <2>4
<1>8. Cardinality(Holdings(u)) + left[l] <= Quota
  BY <1>2, <1>3 DEF RoomLeft
<1>9. ASSUME NEW v \in Users PROVE Cardinality(Holdings(v)') <= Quota
  <2>1. CASE v = u
    BY <1>1, <1>5, <1>7, <1>8, <2>1, InventoryAssumption
  <2>2. CASE v # u
    BY <1>6, <2>2 DEF RoomLeft
  <2> QED BY <2>1, <2>2
<1>10. ASSUME NEW m \in Loops, pc'[m] = "request"
       PROVE  Cardinality(Holdings(user[m])') + left'[m] <= Quota
  <2>1. CASE m = l
    <3>1. Holdings(user[m])' = Holdings(u)'
      BY <1>2, <1>3, <2>1 DEF Holdings
    <3> QED BY <1>1, <1>5, <1>7, <1>8, <2>1, <3>1, InventoryAssumption
  <2>2. CASE m # l
    <3>1. UNCHANGED <<pc[m], left[m], job[m]>>
      BY <2>2, OthersStay DEF LoopVars, LoopStep, Step, IInv
    <3>2. HoldsLock(m) /\ HoldsLock(l)
      BY <1>2, <1>10, <3>1 DEF HoldsLock, IInv, PhaseOK
    <3>3. user[m] # u /\ user[m] \in Users
      BY <1>3, <2>2, <3>1, <3>2, <1>10 DEF JobInv, LockOK, JobOK, IInv, TypeOK
    <3>4. Holdings(user[m])' = Holdings(user[m])
      <4>1. PICK v \in Users : v = user[m]
        BY <3>3
      <4>2. Holdings(user[m])' = Holdings(v)'
        BY <1>2, <4>1 DEF Holdings
      <4> QED BY <1>6, <3>3, <4>1, <4>2
    <3> QED BY <1>10, <3>1, <3>4 DEF RoomLeft
  <2> QED BY <2>1, <2>2
<1> QED BY <1>9, <1>10

LEMMA RoomLeftNext ==
  ASSUME IInv, JobInv, BornOK, CountOK, RowsOwned, Recorded, RoomLeft, Next
  PROVE  RoomLeft'
<1> SUFFICES ASSUME Undivided, Calm, Calm', Unused({"transfers"})'
             PROVE  /\ \A u \in Users : Cardinality(Holdings(u)') <= Quota
                    /\ \A l \in Loops : pc'[l] = "request" =>
                         Cardinality(Holdings(user[l])') + left'[l] <= Quota
  BY CalmBefore DEF RoomLeft
<1>1. CASE \A l \in Loops : ~Request(l)
  BY <1>1, RoomLeftQuiet
<1>2. ASSUME NEW l \in Loops, Request(l)
      PROVE  /\ \A u \in Users : Cardinality(Holdings(u)') <= Quota
             /\ \A m \in Loops : pc'[m] = "request" =>
                  Cardinality(Holdings(user[m])') + left'[m] <= Quota
  BY <1>2, RoomLeftRequest
<1> QED BY <1>1, <1>2

QuotaInv == RowsOwned /\ Recorded /\ RoomLeft

LEMMA QuotaInvariant == Spec => []QuotaInv
<1>1. Init => QuotaInv
  <2> SUFFICES ASSUME Init PROVE QuotaInv
    OBVIOUS
  <2>1. RowsOwned /\ Recorded
    BY DEF Init, RowsOwned, Recorded
  <2>2. ASSUME NEW u \in Users PROVE Cardinality(Holdings(u)) <= Quota
    <3>1. Holdings(u) = {}
      BY DEF Init, Holdings
    <3> QED BY <3>1, FS_EmptySet, InventoryAssumption
  <2>3. \A l \in Loops : pc[l] # "request"
    BY DEF Init
  <2> QED BY <2>1, <2>2, <2>3 DEF QuotaInv, RoomLeft
<1>2. IInv /\ JobInv /\ ListingFresh /\ ResultInv /\ QuotaInv /\ [Next]_vars => QuotaInv'
  <2> SUFFICES ASSUME IInv, JobInv, ListingFresh, ResultInv, QuotaInv, [Next]_vars
               PROVE  QuotaInv'
    OBVIOUS
  <2>1. CASE UNCHANGED vars
    <3>1. UNCHANGED <<owner, cloudVars, rowVars, pc, job, user, workVars, used>>
      BY <2>1 DEF vars
    <3> USE <3>1 DEF cloudVars, rowVars, workVars
    <3>2. (Undivided' => Undivided) /\ (Calm' => Calm)
      BY DEF Undivided, SingleLoop, CreatesOnly, OnePage, Calm, Unused
    <3>3. RowsOwned'
      BY DEF QuotaInv, RowsOwned, Unused
    <3>4. Recorded'
      BY <3>2 DEF QuotaInv, Recorded, MakingBy, HoldsLock
    <3>5. \A u \in Users : Holdings(u)' = Holdings(u)
      BY DEF Holdings
    <3>6. \A l \in Loops : Holdings(user[l])' = Holdings(user[l])
      BY DEF Holdings
    <3>7. RoomLeft'
      BY <3>2, <3>5, <3>6 DEF QuotaInv, RoomLeft
    <3> QED BY <3>3, <3>4, <3>7 DEF QuotaInv
  <2>2. CASE Next
    BY <2>2, RowsOwnedNext, RecordedNext, RoomLeftNext DEF QuotaInv, ResultInv
  <2> QED BY <2>1, <2>2
<1> QED BY Invariance, JobInvariance, ListingsFresh, ResultsInvariant, <1>1, <1>2, PTL
        DEF Spec

(* No user ever holds more droplets than the quota allows, however many    *)
(* create jobs run at once and on however many of the user's accounts of   *)
(* one page, as long as nothing is lost and no sync of another kind comes  *)
(* between: with one loop none can, with several it is what lockUser gives *)
(* and the scheduler's syncs may take away.                                *)
THEOREM QuotaKept ==
  ASSUME OnePage, SingleLoop \/ CreatesOnly PROVE Spec => []QuotaHeld
<1>1. IInv /\ QuotaInv => QuotaHeld
  BY DEF QuotaInv, RoomLeft, Holdings, QuotaHeld, Calm, Unused, Undivided
<1> QED BY Invariance, QuotaInvariant, <1>1, PTL

-----------------------------------------------------------------------------
(* Passwords.  A password shown as active is the machine's and no action   *)
(* is about to change it, unless a loop waits for that action or the       *)
(* droplet is a stray; and the password a create job is about to save is   *)
(* still the first one.                                                    *)

NoneSaved == \A j \in Requests : j.kind = "create" => ~j.managed

FreshOK ==
  /\ resetting \subseteq cloud
  /\ \A d \in Droplets \ Born : rows[d] = NoRow /\ password[d] = 0
  /\ \A l \in Loops : pc[l] # "idle" /\ job[l].kind = "create" =>
       /\ todo[l] = {} \/ (pc[l] = "save" /\ job[l].managed)
       /\ SingleLoop => \A d \in done[l] \cup todo[l] : password[d] = 0 /\ d \notin resetting

CurrentOK ==
  SingleLoop \/ NoneSaved =>
    \A d \in cloud \ stray :
      rows[d] # NoRow /\ rows[d].cred = "active"
        => \/ rows[d].password = password[d] /\ d \notin resetting
           \/ \E l \in Loops : Resets(l, d)

(* A wait ends with the mark, or the droplet becomes a stray.              *)
LEMMA ResetsEnd ==
  ASSUME IInv, Next, NEW l \in Loops, NEW d \in Droplets, Resets(l, d), ~Resets(l, d)'
  PROVE  d \in stray' \/ (Waited(l) /\ MarkStale(l))
<1>1. LoopStep(l)
  <2>1. ~UNCHANGED LoopVars(l)
    BY DEF LoopVars, Resets
  <2> QED BY <2>1, OthersStay, LoopsStay, NextSteps DEF IInv
<1>2. pc[l] = "wait" /\ d \in Unmarked(l)
  BY DEF Resets, Unmarked
<1>3. ~(LockUser(l) \/ LockUserFails(l) \/ SyncRead(l) \/ SyncList(l) \/ SyncStore(l)
        \/ SyncFails(l) \/ CheckQuota(l) \/ Request(l))
  BY <1>2 DEF LockUser, LockUserFails, SyncRead, SyncList, SyncStore, SyncFails, CheckQuota,
              Request
<1>4. ~(SaveCredential(l) \/ SavedAll(l) \/ DeleteOne(l) \/ ActOne(l) \/ WorkDone(l)
        \/ Report(l) \/ \E j \in Requests : Take(l, j))
  BY <1>2 DEF SaveCredential, SavedAll, DeleteOne, ActOne, WorkDone, Report, Take
<1>5. CASE Waited(l)
  BY <1>2, <1>5 DEF Waited
<1>6. CASE Crash(l)
  BY <1>2, <1>6 DEF Crash
<1> QED BY <1>1, <1>3, <1>4, <1>5, <1>6 DEF LoopStep, Step

(* A stray stays one until its password is entered.                        *)
LEMMA StraysStay ==
  ASSUME IInv, Next, NEW d \in stray, d \in cloud', ~UpdateRootCredential(d)
  PROVE  d \in stray'
<1> USE DEF cloudVars
<1>1. ASSUME NEW l \in Loops, DeleteOne(l) PROVE d \in stray'
  BY <1>1 DEF DeleteOne, Vanish
<1>2. ASSUME NEW l \in Loops, LoopStep(l), ~DeleteOne(l) PROVE d \in stray'
  BY <1>2 DEF LoopStep, Take, Step, LockUser, LockUserFails, SyncRead, SyncList, SyncStore,
              SyncFails, CheckQuota, Request, SaveCredential, SavedAll, ActOne, Waited,
              WorkDone, Report, Crash
<1>3. ASSUME NEW e \in Droplets, UpdateRootCredential(e) PROVE d \in stray'
  BY <1>3 DEF UpdateRootCredential
<1>4. CASE OutsideStep /\ ~\E e \in Droplets : UpdateRootCredential(e)
  BY <1>4 DEF OutsideStep, ProviderActs, ConsoleDestroy, Vanish, Unlink, Transfer
<1> QED BY <1>1, <1>2, <1>3, <1>4, NextSteps

(* Only the provider changes a machine's password, and only for a reset.   *)
LEMMA PasswordSteps ==
  ASSUME IInv, Next, NEW d \in Droplets
  PROVE  \/ password'[d] = password[d]
         \/ /\ ProviderActs(d) /\ d \in resetting
            /\ UNCHANGED rows /\ \A l \in Loops : UNCHANGED LoopVars(l)
<1> USE DEF cloudVars, machineVars
<1>1. ASSUME NEW l \in Loops, LoopStep(l) PROVE UNCHANGED password
  BY <1>1 DEF LoopStep, Take, Step, LockUser, LockUserFails, SyncRead, SyncList, SyncStore,
              SyncFails, CheckQuota, Request, SaveCredential, SavedAll, DeleteOne, ActOne,
              Waited, WorkDone, Report, Crash, Release
<1>2. CASE OutsideStep /\ ~\E e \in Droplets : ProviderActs(e)
  BY <1>2 DEF OutsideStep, UpdateRootCredential, ConsoleDestroy, Vanish, Unlink, Transfer
<1>3. ASSUME NEW e \in Droplets, ProviderActs(e), e # d PROVE password'[d] = password[d]
  BY <1>3 DEF ProviderActs, IInv, TypeOK
<1>4. ASSUME ProviderActs(d)
      PROVE  d \in resetting /\ UNCHANGED rows /\ \A l \in Loops : UNCHANGED LoopVars(l)
  <2>1. OutsideStep
    BY <1>4 DEF OutsideStep
  <2> QED BY <1>4, <2>1, LoopsStay DEF ProviderActs, rowVars, IInv
<1> QED BY <1>1, <1>2, <1>3, <1>4, NextSteps

(* Only an accepted action is about to change a password, and it is waited *)
(* for unless its droplet is a stray.                                      *)
LEMMA ResettingSteps ==
  ASSUME IInv, Next, resetting \subseteq cloud
  PROVE  /\ resetting' \subseteq cloud'
         /\ \A d \in resetting' : d \in resetting
              \/ \E l \in Loops : ActOne(l) /\ (d \in stray' \/ Resets(l, d)')
<1> USE DEF cloudVars, machineVars
<1>1. ASSUME NEW l \in Loops, ActOne(l), NEW d \in resetting'
      PROVE  d \in cloud' /\ (d \in resetting \/ d \in stray' \/ Resets(l, d)')
  <2>1. CASE d \in resetting
    BY <1>1, <2>1 DEF ActOne
  <2>2. CASE d \notin resetting
    <3>1. PICK e \in todo[l] :
            /\ e \in cloud /\ resetting' = resetting \cup {e}
            /\ job[l].kind \in ActionKinds /\ job[l].kind # "power"
            /\ \/ acting' = [acting EXCEPT ![l] = {e}] /\ Goto(l, "wait")
                  /\ (job[l].kind = "restore" => e \in stray')
               \/ stray' = stray \cup (resetting' \ resetting)
      BY <1>1, <2>2 DEF ActOne
    <3>2. d = e /\ UNCHANGED <<cloud, job>>
      BY <1>1, <2>2, <3>1 DEF ActOne
    <3> QED BY <2>2, <3>1, <3>2 DEF Resets, Goto, ActionKinds, IInv, TypeOK
  <2> QED BY <2>1, <2>2
<1>2. ASSUME NEW l \in Loops, LoopStep(l), ~ActOne(l)
      PROVE  resetting' \subseteq resetting \cap cloud'
  <2>1. CASE DeleteOne(l) \/ Request(l)
    BY <2>1 DEF DeleteOne, Request, Vanish
  <2>2. CASE ~DeleteOne(l) /\ ~Request(l)
    BY <1>2, <2>2 DEF LoopStep, Take, Step, LockUser, LockUserFails, SyncRead, SyncList,
         SyncStore, SyncFails, CheckQuota, SaveCredential, SavedAll, Waited, WorkDone, Report,
         Crash, Release
  <2> QED BY <2>1, <2>2
<1>3. ASSUME OutsideStep PROVE resetting' \subseteq resetting \cap cloud'
  BY <1>3 DEF OutsideStep, ProviderActs, UpdateRootCredential, ConsoleDestroy, Vanish, Unlink,
              Transfer
<1> QED BY <1>1, <1>2, <1>3, NextSteps

(* Droplets that do not exist yet have no rows.                            *)
LEMMA RowsOfBorn ==
  ASSUME IInv, BornOK, FreshOK, Next, NEW d \in Droplets, rows'[d] # NoRow
  PROVE  d \in Born
<1>1. rows[d] # NoRow => d \in Born
  BY DEF FreshOK
<1>2. \A l \in Loops : Stored(l, d) => d \in listed[l]
  BY DEF Stored
<1>3. listed \in [Loops -> SUBSET Droplets] /\ \A l \in Loops : listed[l] \subseteq Born
  BY DEF BornOK, IInv, TypeOK
<1> QED BY <1>1, <1>2, <1>3, RowSteps DEF Written, Marked, Dropped, Moved

LEMMA FreshOKNext ==
  ASSUME IInv, BornOK, IdleOK, FreshOK, Next
  PROVE  FreshOK'
<1> USE DEF IInv, TypeOK
<1>1. ASSUME NEW d \in Droplets \ Born' PROVE rows'[d] = NoRow /\ password'[d] = 0
  <2>1. d \notin Born /\ password[d] = 0
    BY BornGrows DEF FreshOK
  <2>2. rows'[d] = NoRow
    BY <2>1, RowsOfBorn
  <2>3. d \notin resetting
    BY <2>1 DEF FreshOK, BornOK
  <2> QED BY <2>1, <2>2, <2>3, PasswordSteps
<1>2. ASSUME NEW l \in Loops, pc[l] # "idle", job[l].kind = "create", SingleLoop,
             NEW d \in Droplets \ resetting
      PROVE  password'[d] = password[d] /\ d \notin resetting'
  <2>1. ~\E m \in Loops : ActOne(m)
    BY <1>2 DEF SingleLoop, ActOne, ActionKinds
  <2> QED BY <1>2, <2>1, PasswordSteps, ResettingSteps DEF FreshOK
<1>3. ASSUME NEW l \in Loops, UNCHANGED LoopVars(l), pc'[l] # "idle", job'[l].kind = "create"
      PROVE  /\ todo'[l] = {} \/ (pc'[l] = "save" /\ job'[l].managed)
             /\ SingleLoop => \A d \in done'[l] \cup todo'[l] :
                                password'[d] = 0 /\ d \notin resetting'
  <2>1. /\ pc[l] # "idle" /\ job[l].kind = "create"
        /\ UNCHANGED <<pc[l], job[l], todo[l], done[l]>>
    BY <1>3 DEF LoopVars
  <2>2. done[l] \subseteq Droplets /\ todo[l] \subseteq Droplets
    OBVIOUS
  <2>3. todo[l] = {} \/ (pc[l] = "save" /\ job[l].managed)
    BY <2>1 DEF FreshOK
  <2>4. SingleLoop => \A d \in done'[l] \cup todo'[l] : password'[d] = 0 /\ d \notin resetting'
    BY <1>2, <2>1, <2>2 DEF FreshOK
  <2> QED BY <2>1, <2>3, <2>4
<1>4. ASSUME NEW l \in Loops, LoopStep(l), pc'[l] # "idle", job'[l].kind = "create"
      PROVE  todo'[l] = {} \/ (pc'[l] = "save" /\ job'[l].managed)
  <2> USE DEF Goto, syncVars, workVars
  <2>1. CASE LockUser(l) \/ LockUserFails(l) \/ SyncRead(l) \/ SyncList(l) \/ CheckQuota(l)
    BY <1>4, <2>1 DEF FreshOK, LockUser, LockUserFails, SyncRead, SyncList, CheckQuota
  <2>2. CASE SyncStore(l) \/ SyncFails(l)
    BY <1>4, <2>2 DEF SyncStore, SyncFails, AfterSync
  <2>3. CASE Request(l)
    BY <1>4, <2>3 DEF FreshOK, Request
  <2>4. CASE SaveCredential(l) \/ SavedAll(l) \/ WorkDone(l)
    BY <1>4, <2>4 DEF FreshOK, SaveCredential, SavedAll, WorkDone
  <2>5. CASE DeleteOne(l) \/ ActOne(l)
    BY <1>4, <2>5 DEF FreshOK, DeleteOne, ActOne
  <2>6. CASE Waited(l)
    BY <1>4, <2>6 DEF FreshOK, Waited
  <2>7. CASE Report(l) \/ Crash(l)
    BY <1>4, <2>7 DEF Report, Crash, Release
  <2>8. ASSUME NEW j \in Requests, Take(l, j) PROVE todo'[l] = {}
    BY <1>4, <2>8 DEF Take, IdleOK, ActionKinds
  <2> QED BY <1>4, <2>1, <2>2, <2>3, <2>4, <2>5, <2>6, <2>7, <2>8 DEF LoopStep, Step
<1>5. ASSUME NEW l \in Loops, LoopStep(l), pc'[l] # "idle", job'[l].kind = "create"
      PROVE  /\ todo'[l] \subseteq todo[l] \cup done[l]
             /\ \/ done'[l] \subseteq done[l]
                \/ \E n \in Nat : /\ done'[l] = done[l] \cup Newborn(AccountOf(l), n)
                                  /\ Newborn(AccountOf(l), n) \subseteq Droplets
                                  /\ AccountOf(l) \in Accounts
             /\ pc[l] = "idle" => todo'[l] = {} /\ done'[l] = {}
             /\ pc[l] # "idle" => job[l].kind = "create"
  <2> USE DEF Goto, syncVars, workVars
  <2>1. CASE LockUser(l) \/ LockUserFails(l) \/ SyncRead(l) \/ SyncList(l) \/ CheckQuota(l)
    BY <1>5, <2>1 DEF LockUser, LockUserFails, SyncRead, SyncList, CheckQuota
  <2>2. CASE SyncStore(l) \/ SyncFails(l)
    BY <1>5, <2>2 DEF SyncStore, SyncFails, AfterSync
  <2>3. CASE Request(l)
    <3>1. UNCHANGED <<todo, job>> /\ pc[l] # "idle"
      BY <2>3 DEF Request
    <3>2. \/ UNCHANGED done
          \/ \E n \in Nat : /\ done'[l] = done[l] \cup Newborn(AccountOf(l), n)
                            /\ Newborn(AccountOf(l), n) \subseteq Droplets
      BY <2>3, RequestEffect DEF Created
    <3>3. AccountOf(l) \in Accounts
      BY <2>3, RequestEffect
    <3> QED BY <1>5, <3>1, <3>2, <3>3
  <2>4. CASE SaveCredential(l)
    <3>1. /\ UNCHANGED <<done, job>> /\ pc[l] # "idle"
          /\ \E d \in todo[l] : todo' = [todo EXCEPT ![l] = @ \ {d}]
      BY <2>4 DEF SaveCredential
    <3> QED BY <1>5, <3>1
  <2>9. CASE SavedAll(l) \/ WorkDone(l)
    BY <1>5, <2>9 DEF SavedAll, WorkDone
  <2>5. CASE DeleteOne(l) \/ ActOne(l)
    BY <1>5, <2>5 DEF DeleteOne, ActOne
  <2>6. CASE Waited(l)
    BY <1>5, <2>6 DEF Waited
  <2>7. CASE Report(l) \/ Crash(l)
    BY <1>5, <2>7 DEF Report, Crash, Release
  <2>8. ASSUME NEW j \in Requests, Take(l, j)
        PROVE  pc[l] = "idle" /\ todo'[l] = {} /\ done'[l] = {}
    BY <1>5, <2>8 DEF Take, IdleOK, ActionKinds
  <2> QED BY <1>5, <2>1, <2>2, <2>3, <2>4, <2>5, <2>6, <2>7, <2>8, <2>9 DEF LoopStep, Step
<1>6. ASSUME NEW l \in Loops, LoopStep(l), pc'[l] # "idle", job'[l].kind = "create",
             SingleLoop, NEW d \in done'[l] \cup todo'[l]
      PROVE  password'[d] = 0 /\ d \notin resetting'
  <2>1. CASE pc[l] = "idle"
    BY <1>5, <1>6, <2>1
  <2>2. CASE pc[l] # "idle" /\ d \in done[l] \cup todo[l]
    <3>1. d \in Droplets /\ job[l].kind = "create"
      BY <1>5, <1>6, <2>2
    <3>2. password[d] = 0 /\ d \notin resetting
      BY <1>6, <2>2, <3>1 DEF FreshOK
    <3> QED BY <1>2, <1>6, <2>2, <3>1, <3>2
  <2>3. CASE pc[l] # "idle" /\ d \notin done[l] \cup todo[l]
    <3>1. PICK n \in Nat : /\ d \in Newborn(AccountOf(l), n)
                           /\ Newborn(AccountOf(l), n) \subseteq Droplets
                           /\ AccountOf(l) \in Accounts
      BY <1>5, <1>6, <2>3
    <3>2. d \in Droplets \ Born
      BY <3>1, NewbornFacts
    <3>3. password[d] = 0 /\ d \notin resetting
      BY <3>2 DEF FreshOK, BornOK
    <3> QED BY <1>2, <1>5, <1>6, <2>3, <3>2, <3>3
  <2> QED BY <2>1, <2>2, <2>3
<1>7. ASSUME NEW l \in Loops, pc'[l] # "idle", job'[l].kind = "create"
      PROVE  /\ todo'[l] = {} \/ (pc'[l] = "save" /\ job'[l].managed)
             /\ SingleLoop => \A d \in done'[l] \cup todo'[l] :
                                password'[d] = 0 /\ d \notin resetting'
  <2>1. CASE LoopStep(l)
    BY <1>4, <1>6, <1>7, <2>1
  <2>2. CASE UNCHANGED LoopVars(l)
    BY <1>3, <1>7, <2>2
  <2> QED BY <2>1, <2>2, OthersStay, LoopsStay, NextSteps
<1> QED BY <1>1, <1>7, ResettingSteps DEF FreshOK

LEMMA CurrentOKNext ==
  ASSUME IInv, JobInv, BornOK, FreshOK, CurrentOK, Next
  PROVE  CurrentOK'
<1> SUFFICES ASSUME SingleLoop \/ NoneSaved, NEW d \in cloud' \ stray',
                    rows'[d] # NoRow, rows'[d].cred = "active",
                    \A l \in Loops : ~Resets(l, d)'
             PROVE  rows'[d].password = password'[d] /\ d \notin resetting'
  BY DEF CurrentOK, SingleLoop, NoneSaved
<1> USE DEF IInv, TypeOK
<1>1. d \in Droplets /\ d \in cloud
  <2>1. d \in Droplets
    BY StepInv
  <2> QED BY <2>1, RowsOfBorn, NoRebirth
<1>2. d \notin resetting => d \notin resetting' /\ password'[d] = password[d]
  BY <1>1, ResettingSteps, PasswordSteps DEF FreshOK
<1>3. CASE UpdateRootCredential(d)
  <2>1. \A l \in Loops : ~Resets(l, d)
    BY <1>3 DEF UpdateRootCredential, Resets, workVars
  <2>2. d \notin resetting
    BY <1>3, <2>1 DEF UpdateRootCredential
  <2>3. rows[d] \in Row /\ rows'[d] = [rows[d] EXCEPT !.cred = "active", !.password = password[d]]
    BY <1>1, <1>3 DEF UpdateRootCredential
  <2>4. rows'[d].password = password[d]
    BY <2>3 DEF Row
  <2> QED BY <1>2, <2>2, <2>4
<1>4. CASE ~UpdateRootCredential(d)
  <2>1. d \notin stray
    BY <1>4, StraysStay
  <2>2. ASSUME NEW l \in Loops, Resets(l, d) PROVE FALSE
    <3>1. Waited(l) /\ MarkStale(l)
      BY <1>1, <2>2, ResetsEnd
    <3>2. rows'[d] = IF rows[d] # NoRow /\ rows[d].cred # "none"
                     THEN [rows[d] EXCEPT !.cred = "stale"] ELSE rows[d]
      BY <1>1, <2>2, <3>1 DEF MarkStale
    <3>3. rows[d] # NoRow => rows[d] \in Row
      BY <1>1
    <3> QED BY <3>2, <3>3 DEF Row
  <2>3. ASSUME rows[d] # NoRow, rows[d].cred = "active", rows'[d].password = rows[d].password
        PROVE  rows'[d].password = password'[d] /\ d \notin resetting'
    BY <1>1, <1>2, <2>1, <2>2, <2>3 DEF CurrentOK
  <2>4. CASE rows'[d] = rows[d]
    BY <2>3, <2>4
  <2>5. ASSUME NEW l \in Loops, Stored(l, d)
        PROVE  rows'[d].password = password'[d] /\ d \notin resetting'
    BY <2>3, <2>5 DEF Stored, SameSecret
  <2>6. CASE Moved(d)
    BY <2>3, <2>6 DEF Moved, SameSecret
  <2>7. ASSUME NEW l \in Loops, SaveCredential(l), d \in todo[l], rows'[d].password = 0
        PROVE  rows'[d].password = password'[d] /\ d \notin resetting'
    <3>1. pc[l] = "save" /\ job[l].kind = "create"
      BY <2>7 DEF SaveCredential, PhaseOK
    <3>2. job[l].managed /\ job[l] \in Requests
      BY <2>7, <3>1 DEF FreshOK, JobInv, JobOK
    <3>3. SingleLoop
      BY <3>1, <3>2 DEF NoneSaved
    <3> QED BY <1>2, <2>7, <3>1, <3>3 DEF FreshOK
  <2>8. ~Marked(d) /\ ~Dropped(d)
    BY DEF Marked, Dropped
  <2> QED BY <1>1, <1>4, <2>4, <2>5, <2>6, <2>7, <2>8, RowSteps DEF Written
<1> QED BY <1>3, <1>4

PasswordInv == FreshOK /\ CurrentOK

LEMMA PasswordInvariant == Spec => []PasswordInv
<1>1. Init => PasswordInv
  BY DEF Init, PasswordInv, FreshOK, CurrentOK
<1>2. IInv /\ JobInv /\ ResultInv /\ PasswordInv /\ [Next]_vars => PasswordInv'
  <2> SUFFICES ASSUME IInv, JobInv, ResultInv, PasswordInv, [Next]_vars PROVE PasswordInv'
    OBVIOUS
  <2>1. CASE UNCHANGED vars
    <3>1. UNCHANGED <<cloudVars, rowVars, pc, job, workVars>>
      BY <2>1 DEF vars
    <3> USE <3>1 DEF cloudVars, rowVars, workVars, PasswordInv
    <3>2. Born' = Born
      BY DEF Born
    <3>3. CurrentOK'
      BY DEF CurrentOK, Resets, SingleLoop, NoneSaved
    <3>4. FreshOK'
      BY <3>2 DEF FreshOK, SingleLoop
    <3> QED BY <3>3, <3>4
  <2>2. CASE Next
    BY <2>2, FreshOKNext, CurrentOKNext DEF PasswordInv, ResultInv
  <2> QED BY <2>1, <2>2
<1> QED BY Invariance, JobInvariance, ResultsInvariant, <1>1, <1>2, PTL DEF Spec

(* Whatever fails or crashes, a password shown as active opens the machine *)
(* unless the job that changed it is about to mark it, or the droplet is   *)
(* one of the strays that are named with ActiveIsCurrent: restored, or     *)
(* reset by a job that did not live to mark it.  No reset may come between *)
(* the making of a droplet and the saving of its password: one loop does   *)
(* all the work, or, with any number of them, create jobs use SSH keys and *)
(* passwords are only entered by users.                                    *)
THEOREM PasswordsCurrent == ASSUME SingleLoop \/ NoneSaved PROVE Spec => []ActiveIsCurrent
<1>1. PasswordInv => ActiveIsCurrent
  BY DEF PasswordInv, CurrentOK, ActiveIsCurrent
<1> QED BY PasswordInvariant, <1>1, PTL

=============================================================================
