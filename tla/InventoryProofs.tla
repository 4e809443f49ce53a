-------------------------- MODULE InventoryProofs --------------------------
(***************************************************************************)
(* Inventory keeps its types for any number of users, accounts, loops and  *)
(* droplets; create jobs of a user exclude each other, and a sync deletes  *)
(* a saved password only if its listing could miss the droplet: it was     *)
(* begun before the droplet was made, or a droplet of the account went     *)
(* between two of its pages.                                               *)
(***************************************************************************)
EXTENDS Inventory, FiniteSetTheorems, TLAPS

(* Where a job is tells what kind it is and how many requests are left: an *)
(* SSH-key request asks for all droplets at once, so Request subtracts the *)
(* whole count and never more than is left.                                *)
PhaseOK ==
  \A l \in Loops : pc[l] # "idle" =>
    /\ pc[l] \in {"lock", "quota", "request", "save"} => job[l].kind = "create"
    /\ pc[l] \in {"lock", "quota", "request"} => stage[l] = "before"
    /\ pc[l] \in {"list", "store"} => reader[l] # NoUser
    /\ stage[l] = "before" => job[l].kind = "create"
    /\ stage[l] = "before" /\ pc[l] # "report" =>
         /\ left[l] \in 1..job[l].count
         /\ job[l].managed \/ left[l] = job[l].count

IInv == TypeOK /\ PhaseOK

(* What a job read from the queue looks like.                              *)
LEMMA JobFields ==
  ASSUME NEW j \in Job
  PROVE  /\ j.kind \in ActionKinds \cup {"sync", "create", "delete"}
         /\ j.account \in Accounts
         /\ j # NoJob
         /\ j.kind = "create" => /\ j.count \in 1..MaxDroplets
                                 /\ j.managed \in BOOLEAN
         /\ j.kind \in ActionKinds \cup {"delete"} => j.droplets \in SUBSET Droplets
BY InventoryAssumption DEF Job, ActionKinds

(* A droplet belongs to an account.                                        *)
LEMMA HomeType == ASSUME NEW d \in Droplets PROVE HomeOf(d) \in Accounts
BY DEF Droplets, HomeOf

(* The job of a busy loop.                                                 *)
LEMMA BusyJob ==
  ASSUME TypeOK, NEW l \in Loops, pc[l] # "idle"
  PROVE  job[l] \in Job
BY DEF TypeOK

(* The parts of the state that many actions disturb in the same way.       *)
LEMMA UsedType ==
  ASSUME TypeOK, NEW b \in BoundNames, Spend(b) \/ UNCHANGED used
  PROVE  used' \in [BoundNames -> Nat]
BY DEF TypeOK, Spend

LEMMA OutageUsed ==
  ASSUME TypeOK, Spend("outages") \/ UNCHANGED used
  PROVE  used' \in [BoundNames -> Nat]
BY UsedType DEF BoundNames

LEMMA FailedType ==
  ASSUME TypeOK, NEW l \in Loops, Fail(l) \/ UNCHANGED failed
  PROVE  failed' \in [Loops -> BOOLEAN]
BY DEF TypeOK, Fail

(* Rows: types, and rows only where the account is linked.                 *)
RowsOK ==
  /\ rows \in [Droplets -> Row \cup {NoRow}]
  /\ \A d \in Droplets : rows[d] # NoRow => owner[HomeOf(d)] # NoUser

(* Storing a listing for an account that is still linked.                  *)
LEMMA UpsertType ==
  ASSUME TypeOK, UNCHANGED owner, NEW a \in Accounts, NEW ds, NEW u \in Users,
         owner[a] # NoUser, UpsertDroplets(a, ds, u)
  PROVE  RowsOK'
<1>1. NewRow(u) \in Row
  BY DEF NewRow, Row
<1>2. ASSUME NEW d \in Droplets, rows[d] # NoRow
      PROVE  [rows[d] EXCEPT !.user = u] \in Row
  <2>1. rows[d] \in Row
    BY <1>2 DEF TypeOK
  <2> QED BY <2>1 DEF Row
<1>3. rows' \in [Droplets -> Row \cup {NoRow}]
  BY <1>1, <1>2 DEF UpsertDroplets, TypeOK
<1>4. ASSUME NEW d \in Droplets, rows'[d] # NoRow
      PROVE  owner'[HomeOf(d)] # NoUser
  BY <1>4 DEF UpsertDroplets, TypeOK
<1> QED BY <1>3, <1>4 DEF RowsOK

(* Writing to the credential of a row that exists.                         *)
LEMMA SaveType ==
  ASSUME TypeOK, UNCHANGED owner, NEW d \in Droplets, rows[d] # NoRow, NEW p \in Nat,
         rows' = [rows EXCEPT ![d].cred = "active", ![d].password = p]
  PROVE  RowsOK'
<1>1. rows[d] \in Row
  BY DEF TypeOK
<1>2. [rows[d] EXCEPT !.cred = "active", !.password = p] \in Row
  BY <1>1 DEF Row
<1>3. rows' = [rows EXCEPT ![d] = [rows[d] EXCEPT !.cred = "active", !.password = p]]
  BY DEF TypeOK
<1> QED BY <1>2, <1>3 DEF RowsOK, TypeOK

(* A droplet that goes.                                                    *)
LEMMA VanishType ==
  ASSUME TypeOK, NEW d, Vanish(d)
  PROVE  /\ cloud' \in SUBSET Droplets /\ resetting' \in SUBSET Droplets
         /\ stray' \in SUBSET Droplets /\ kept' \in [Loops -> SUBSET Droplets]
BY DEF TypeOK, Vanish

(* Reading a page.                                                         *)
LEMMA PageType ==
  ASSUME TypeOK, NEW l \in Loops, SyncList(l)
  PROVE  /\ listed' \in [Loops -> SUBSET Droplets]
         /\ kept' \in [Loops -> SUBSET Droplets]
         /\ pages' \in [Loops -> Nat]
<1>1. /\ PageAfter(AccountOf(l), pages[l]) \subseteq Droplets
      /\ CloudOf(AccountOf(l)) \subseteq Droplets
  BY DEF PageAfter, CloudOf, TypeOK
<1> QED BY <1>1 DEF SyncList, TypeOK

LEMMA Initially == Init => IInv
<1> SUFFICES ASSUME Init PROVE IInv
  OBVIOUS
<1>1. /\ NoUser \notin Users /\ NoJob \notin Job /\ MaxDroplets \in Nat
      /\ 0 \in 0..MaxDroplets
  BY InventoryAssumption
<1>2. TypeOK
  BY <1>1 DEF Init, TypeOK, Phases
<1>3. PhaseOK
  BY DEF Init, PhaseOK
<1> QED BY <1>2, <1>3 DEF IInv

(* Every action keeps the invariant.                                       *)
LEMMA StepInv == ASSUME IInv, Next PROVE IInv'
<1> USE DEF IInv
<1>1. ASSUME NEW l \in Loops, LockUser(l) PROVE IInv'
  <2>1. pc[l] # "idle" /\ job[l] \in Job
    BY <1>1, BusyJob DEF LockUser
  <2>2. TypeOK'
    BY <1>1, <2>1
    DEF TypeOK, LockUser, Goto, Phases, cloudVars, rowVars, syncVars, workVars
  <2>3. PhaseOK'
    BY <1>1, <2>1, JobFields, InventoryAssumption
    DEF TypeOK, PhaseOK, LockUser, Goto, cloudVars, rowVars, syncVars, workVars
  <2> QED BY <2>2, <2>3
<1>2. ASSUME NEW l \in Loops, LockUserFails(l) PROVE IInv'
  <2>1. pc[l] # "idle" /\ job[l] \in Job
    BY <1>2, BusyJob DEF LockUserFails
  <2>2. TypeOK'
    BY <1>2, <2>1
    DEF TypeOK, LockUserFails, Goto, Phases, Spend, BoundNames, cloudVars, rowVars,
        syncVars, workVars, Fail
  <2>3. PhaseOK'
    BY <1>2, <2>1, JobFields, InventoryAssumption
    DEF TypeOK, PhaseOK, LockUserFails, Goto, cloudVars, rowVars, syncVars, workVars, Fail
  <2> QED BY <2>2, <2>3
<1>3. ASSUME NEW l \in Loops, SyncRead(l) PROVE IInv'
  <2>1. pc[l] # "idle" /\ job[l] \in Job
    BY <1>3, BusyJob DEF SyncRead
  <2>2. TypeOK'
    BY <1>3, <2>1, JobFields
    DEF TypeOK, SyncRead, Goto, Phases, cloudVars, rowVars, syncVars, workVars, AccountOf
  <2>3. PhaseOK'
    BY <1>3, <2>1, JobFields, InventoryAssumption
    DEF TypeOK, PhaseOK, SyncRead, Goto, cloudVars, rowVars, syncVars, workVars, AccountOf
  <2> QED BY <2>2, <2>3
<1>4. ASSUME NEW l \in Loops, SyncList(l) PROVE IInv'
  <2>1. pc[l] # "idle" /\ job[l] \in Job
    BY <1>4, BusyJob DEF SyncList
  <2>2. TypeOK'
    <3>1. pc' \in [Loops -> Phases] /\ \A m \in Loops : pc'[m] # "idle" => pc[m] # "idle"
      BY <1>4 DEF TypeOK, SyncList, Goto, Phases
    <3> QED BY <1>4, <2>1, <3>1, PageType
        DEF TypeOK, SyncList, cloudVars, rowVars, workVars
  <2>3. PhaseOK'
    BY <1>4, <2>1, JobFields, InventoryAssumption
    DEF TypeOK, PhaseOK, SyncList, Goto, workVars
  <2> QED BY <2>2, <2>3
<1>5. ASSUME NEW l \in Loops, SyncStore(l) PROVE IInv'
  <2>1. pc[l] # "idle" /\ job[l] \in Job
    BY <1>5, BusyJob DEF SyncStore
  <2>2. TypeOK'
    <3>1. reader[l] \in Users /\ AccountOf(l) \in Accounts
      BY <1>5, <2>1, JobFields DEF TypeOK, PhaseOK, SyncStore, AccountOf
    <3>2. RowsOK'
      BY <1>5, <3>1, UpsertType DEF SyncStore
    <3>3. Synced(l) \in Phases
      BY DEF Synced, Phases
    <3> QED BY <1>5, <2>1, <3>2, <3>3
        DEF TypeOK, RowsOK, SyncStore, AfterSync, Goto, cloudVars
  <2>3. PhaseOK'
    BY <1>5, <2>1, JobFields, InventoryAssumption
    DEF TypeOK, PhaseOK, SyncStore, Goto, cloudVars, rowVars, syncVars, workVars,
        AfterSync, Synced
  <2> QED BY <2>2, <2>3
<1>6. ASSUME NEW l \in Loops, SyncFails(l) PROVE IInv'
  <2>1. pc[l] # "idle" /\ job[l] \in Job
    BY <1>6, BusyJob DEF SyncFails
  <2>2. TypeOK'
    <3>1. RowsOK'
      <4>1. AccountOf(l) \in Accounts
        BY <2>1, JobFields DEF AccountOf
      <4>2. CASE UNCHANGED rowVars
        BY <1>6, <4>2 DEF TypeOK, RowsOK, SyncFails, rowVars
      <4>3. CASE pc[l] = "store" /\ UpsertDroplets(AccountOf(l), listed[l], reader[l])
                  /\ owner[AccountOf(l)] # NoUser
        <5>1. reader[l] \in Users
          BY <4>3 DEF TypeOK, PhaseOK
        <5> QED BY <1>6, <4>1, <4>3, <5>1, UpsertType DEF SyncFails
      <4> QED BY <1>6, <4>2, <4>3 DEF SyncFails
    <3>2. Synced(l) \in Phases /\ "report" \in Phases
      BY DEF Synced, Phases
    <3>3. used' \in [BoundNames -> Nat]
      BY <1>6, OutageUsed DEF SyncFails
    <3>4. failed' \in [Loops -> BOOLEAN]
      BY <1>6, FailedType DEF SyncFails
    <3>5. known' \in SUBSET Droplets
      BY <1>6 DEF SyncFails, TypeOK, rowVars
    <3> QED BY <1>6, <2>1, <3>1, <3>2, <3>3, <3>4, <3>5
        DEF TypeOK, RowsOK, SyncFails, AfterSync, Goto, cloudVars
  <2>3. PhaseOK'
    BY <1>6, <2>1, JobFields, InventoryAssumption
    DEF TypeOK, PhaseOK, SyncFails, Goto, cloudVars, rowVars, syncVars, workVars,
        AfterSync, Synced, Fail
  <2> QED BY <2>2, <2>3
<1>7. ASSUME NEW l \in Loops, CheckQuota(l) PROVE IInv'
  <2>1. pc[l] # "idle" /\ job[l] \in Job
    BY <1>7, BusyJob DEF CheckQuota
  <2>2. TypeOK'
    <3>1. used' \in [BoundNames -> Nat]
      BY <1>7, OutageUsed DEF CheckQuota
    <3>2. failed' \in [Loops -> BOOLEAN]
      BY <1>7, FailedType DEF CheckQuota
    <3>3. /\ pc' \in [Loops -> Phases]
          /\ \A m \in Loops : pc'[m] # "idle" => pc[m] # "idle"
      BY <1>7, <2>1 DEF CheckQuota, Goto, Phases, TypeOK
    <3> QED BY <1>7, <2>1, <3>1, <3>2, <3>3
        DEF TypeOK, CheckQuota, cloudVars, rowVars, syncVars
  <2>3. PhaseOK'
    BY <1>7, <2>1, JobFields, InventoryAssumption
    DEF TypeOK, PhaseOK, CheckQuota, Goto, cloudVars, rowVars, syncVars, workVars, Fail
  <2> QED BY <2>2, <2>3
<1>8. ASSUME NEW l \in Loops, Request(l) PROVE IInv'
  <2>1. pc[l] # "idle" /\ job[l] \in Job
    BY <1>8, BusyJob DEF Request
  <2>2. TypeOK'
    <3> DEFINE a == AccountOf(l)
               n == IF job[l].managed THEN 1 ELSE job[l].count
               new == Newborn(a, n)
    <3>1. a \in Accounts /\ n \in Nat \ {0} /\ left[l] \in Nat /\ n <= left[l]
      BY <1>8, <2>1, JobFields, InventoryAssumption DEF TypeOK, PhaseOK, Request, AccountOf
    <3>2. /\ used' \in [BoundNames -> Nat]
          /\ failed' \in [Loops -> BOOLEAN]
      BY <1>8, OutageUsed, FailedType DEF Request, PerhapsFail
    <3>3. left' \in [Loops -> Nat]
      BY <1>8, <3>1 DEF Request, TypeOK
    <3>4. /\ pc' \in [Loops -> Phases]
          /\ \A m \in Loops : pc'[m] # "idle" => pc[m] # "idle"
          /\ stage' \in [Loops -> {"only", "before", "after"}]
      BY <1>8, <2>1 DEF Request, Goto, Phases, TypeOK
    <3>5. /\ cloud' \in SUBSET Droplets
          /\ done' \in [Loops -> SUBSET Droplets]
          /\ born' \in [Accounts -> 0..MaxDroplets]
      <4>1. CASE UNCHANGED <<cloud, born>> /\ UNCHANGED done
        BY <4>1 DEF TypeOK
      <4>2. CASE /\ new \subseteq Droplets
                 /\ cloud' = cloud \cup new
                 /\ born' = [born EXCEPT ![a] = @ + n]
                 /\ done' = [done EXCEPT ![l] = @ \cup new] \/ UNCHANGED done
        <5>1. <<a, born[a] + n>> \in new
          BY <3>1 DEF Newborn
        <5>2. born[a] + n \in 0..MaxDroplets
          <6>1. born[a] + n \in 1..MaxDroplets
            BY <4>2, <5>1 DEF Droplets
          <6> QED BY <6>1, InventoryAssumption
        <5>3. born' \in [Accounts -> 0..MaxDroplets]
          BY <4>2, <5>2, <3>1 DEF TypeOK
        <5> HIDE DEF new
        <5> QED BY <4>2, <5>3 DEF TypeOK
      <4> QED BY <1>8, <4>1, <4>2 DEF Request
    <3> HIDE DEF a, n, new
    <3> QED BY <1>8, <2>1, <3>2, <3>3, <3>4, <3>5
        DEF TypeOK, Request, rowVars
  <2>3. PhaseOK'
    BY <1>8, <2>1, JobFields, InventoryAssumption
    DEF TypeOK, PhaseOK, Request, Goto, cloudVars, rowVars, syncVars, workVars,
        PerhapsFail, Fail
  <2> QED BY <2>2, <2>3
<1>9. ASSUME NEW l \in Loops, SaveCredential(l) PROVE IInv'
  <2>1. pc[l] # "idle" /\ job[l] \in Job
    BY <1>9, BusyJob DEF SaveCredential
  <2>2. TypeOK'
    <3>1. used' \in [BoundNames -> Nat]
      BY <1>9, OutageUsed DEF SaveCredential
    <3>2. failed' \in [Loops -> BOOLEAN]
      BY <1>9, FailedType DEF SaveCredential
    <3>3. RowsOK'
      <4>1. CASE UNCHANGED rows
        BY <1>9, <4>1 DEF SaveCredential, TypeOK, RowsOK
      <4>2. ASSUME NEW d \in todo[l], rows[d] # NoRow,
                   rows' = [rows EXCEPT ![d].cred = "active", ![d].password = 0]
            PROVE  RowsOK'
        <5>1. d \in Droplets /\ UNCHANGED owner
          BY <1>9, <4>2 DEF SaveCredential, TypeOK
        <5> QED BY <4>2, <5>1, SaveType
      <4> QED BY <1>9, <4>1, <4>2 DEF SaveCredential
    <3>4. todo' \in [Loops -> SUBSET Droplets]
      BY <1>9 DEF SaveCredential, TypeOK
    <3> QED BY <1>9, <2>1, <3>1, <3>2, <3>3, <3>4
        DEF TypeOK, RowsOK, SaveCredential, cloudVars, syncVars
  <2>3. PhaseOK'
    BY <1>9, <2>1, JobFields, InventoryAssumption
    DEF TypeOK, PhaseOK, SaveCredential, Goto, cloudVars, rowVars, syncVars, workVars, Fail
  <2> QED BY <2>2, <2>3
<1>10. ASSUME NEW l \in Loops, SavedAll(l) PROVE IInv'
  <2>1. pc[l] # "idle" /\ job[l] \in Job
    BY <1>10, BusyJob DEF SavedAll
  <2>2. TypeOK'
    BY <1>10, <2>1
    DEF TypeOK, SavedAll, Goto, Phases, cloudVars, rowVars, syncVars, workVars
  <2>3. PhaseOK'
    BY <1>10, <2>1, JobFields, InventoryAssumption
    DEF TypeOK, PhaseOK, SavedAll, Goto, cloudVars, rowVars, syncVars, workVars
  <2> QED BY <2>2, <2>3
<1>11. ASSUME NEW l \in Loops, DeleteOne(l) PROVE IInv'
  <2>1. pc[l] # "idle" /\ job[l] \in Job
    BY <1>11, BusyJob DEF DeleteOne
  <2>2. TypeOK'
    <3>1. used' \in [BoundNames -> Nat]
      BY <1>11, OutageUsed DEF DeleteOne
    <3>2. failed' \in [Loops -> BOOLEAN]
      BY <1>11, FailedType DEF DeleteOne
    <3>3. /\ todo' \in [Loops -> SUBSET Droplets]
          /\ done' \in [Loops -> SUBSET Droplets]
      BY <1>11 DEF DeleteOne, TypeOK
    <3>4. /\ cloud' \in SUBSET Droplets /\ resetting' \in SUBSET Droplets
          /\ stray' \in SUBSET Droplets /\ kept' \in [Loops -> SUBSET Droplets]
      BY <1>11, VanishType DEF DeleteOne, TypeOK
    <3> QED BY <1>11, <2>1, <3>1, <3>2, <3>3, <3>4 DEF TypeOK, DeleteOne, rowVars
  <2>3. PhaseOK'
    BY <1>11, <2>1, JobFields, InventoryAssumption
    DEF TypeOK, PhaseOK, DeleteOne, Goto, cloudVars, rowVars, syncVars, workVars, Fail
  <2> QED BY <2>2, <2>3
<1>12. ASSUME NEW l \in Loops, ActOne(l) PROVE IInv'
  <2>1. pc[l] # "idle" /\ job[l] \in Job
    BY <1>12, BusyJob DEF ActOne
  <2>2. TypeOK'
    <3>1. used' \in [BoundNames -> Nat]
      BY <1>12, OutageUsed DEF ActOne
    <3>2. failed' \in [Loops -> BOOLEAN]
      BY <1>12, FailedType DEF ActOne
    <3>3. /\ todo' \in [Loops -> SUBSET Droplets]
          /\ acting' \in [Loops -> SUBSET Droplets]
          /\ resetting' \in SUBSET Droplets /\ stray' \in SUBSET Droplets
      BY <1>12 DEF ActOne, TypeOK
    <3>4. /\ pc' \in [Loops -> Phases]
          /\ \A m \in Loops : pc'[m] # "idle" => pc[m] # "idle"
      BY <1>12, <2>1 DEF ActOne, TypeOK, Goto, Phases
    <3> QED BY <1>12, <2>1, <3>1, <3>2, <3>3, <3>4
        DEF TypeOK, ActOne, rowVars, syncVars
  <2>3. PhaseOK'
    BY <1>12, <2>1, JobFields, InventoryAssumption
    DEF TypeOK, PhaseOK, ActOne, Goto, cloudVars, rowVars, syncVars, workVars, Fail
  <2> QED BY <2>2, <2>3
<1>13. ASSUME NEW l \in Loops, Waited(l) PROVE IInv'
  <2>1. pc[l] # "idle" /\ job[l] \in Job
    BY <1>13, BusyJob DEF Waited
  <2>2. TypeOK'
    <3>1. used' \in [BoundNames -> Nat]
      BY <1>13, OutageUsed DEF Waited
    <3>2. failed' \in [Loops -> BOOLEAN]
      BY <1>13, FailedType DEF Waited
    <3>3. RowsOK'
      <4>1. CASE UNCHANGED rows
        BY <1>13, <4>1 DEF Waited, TypeOK, RowsOK
      <4>2. CASE MarkStale(l)
        <5>1. ASSUME NEW d \in Droplets, rows[d] # NoRow
              PROVE  [rows[d] EXCEPT !.cred = "stale"] \in Row
          <6>1. rows[d] \in Row
            BY <5>1 DEF TypeOK
          <6> QED BY <6>1 DEF Row
        <5>2. rows' \in [Droplets -> Row \cup {NoRow}]
          BY <4>2, <5>1 DEF MarkStale, TypeOK
        <5>3. ASSUME NEW d \in Droplets, rows'[d] # NoRow PROVE rows[d] # NoRow
          BY <4>2, <5>3 DEF MarkStale
        <5> QED BY <1>13, <5>2, <5>3 DEF Waited, TypeOK, RowsOK
      <4> QED BY <1>13, <4>1, <4>2 DEF Waited
    <3>4. stray' \in SUBSET Droplets
      BY <1>13 DEF Waited, Unmarked, TypeOK
    <3> QED BY <1>13, <2>1, <3>1, <3>2, <3>3, <3>4
        DEF TypeOK, RowsOK, Waited, Goto, Phases, machineVars, syncVars
  <2>3. PhaseOK'
    BY <1>13, <2>1, JobFields, InventoryAssumption
    DEF TypeOK, PhaseOK, Waited, Goto, cloudVars, rowVars, syncVars, workVars, Fail,
        MarkStale
  <2> QED BY <2>2, <2>3
<1>14. ASSUME NEW l \in Loops, WorkDone(l) PROVE IInv'
  <2>1. pc[l] # "idle" /\ job[l] \in Job
    BY <1>14, BusyJob DEF WorkDone
  <2>2. TypeOK'
    BY <1>14, <2>1
    DEF TypeOK, WorkDone, Goto, Phases, cloudVars, rowVars, syncVars, workVars
  <2>3. PhaseOK'
    BY <1>14, <2>1, JobFields, InventoryAssumption
    DEF TypeOK, PhaseOK, WorkDone, Goto, cloudVars, rowVars, syncVars, workVars
  <2> QED BY <2>2, <2>3
<1>15. ASSUME NEW l \in Loops, Report(l) PROVE IInv'
  <2>1. pc[l] # "idle" /\ job[l] \in Job
    BY <1>15, BusyJob DEF Report
  <2>2. TypeOK'
    BY <1>15, <2>1
    DEF TypeOK, Report, Goto, Phases, machineVars, rowVars, syncVars, workVars, Release,
        FreshWork
  <2>3. PhaseOK'
    BY <1>15, <2>1, JobFields, InventoryAssumption
    DEF TypeOK, PhaseOK, Report, Goto, machineVars, rowVars, syncVars, workVars, Release,
        FreshWork
  <2> QED BY <2>2, <2>3
<1>16. ASSUME NEW l \in Loops, Crash(l) PROVE IInv'
  <2>1. pc[l] # "idle" /\ job[l] \in Job
    BY <1>16, BusyJob DEF Crash
  <2>2. TypeOK'
    <3>1. used' \in [BoundNames -> Nat]
      BY <1>16, UsedType DEF Crash, BoundNames
    <3>2. stray' \in SUBSET Droplets
      BY <1>16 DEF Crash, Unmarked, TypeOK
    <3> QED BY <1>16, <2>1, <3>1, <3>2
        DEF TypeOK, Crash, Goto, Phases, machineVars, rowVars, Release, FreshWork
  <2>3. PhaseOK'
    BY <1>16, <2>1, JobFields, InventoryAssumption
    DEF TypeOK, PhaseOK, Crash, Goto, cloudVars, rowVars, syncVars, workVars, Release,
        FreshWork
  <2> QED BY <2>2, <2>3
<1>17. ASSUME NEW l \in Loops, NEW j \in Requests, Take(l, j) PROVE IInv'
  <2>1. j \in Job /\ j # NoJob
    BY InventoryAssumption
  <2>2. TypeOK'
    <3>1. used' \in [BoundNames -> Nat]
      BY <1>17, UsedType DEF Take, BoundNames
    <3>2. /\ user' \in [Loops -> Users \cup {NoUser}]
          /\ reader' \in [Loops -> Users \cup {NoUser}]
      BY <1>17, <2>1, JobFields DEF Take, TypeOK
    <3>3. /\ left' \in [Loops -> Nat]
          /\ todo' \in [Loops -> SUBSET Droplets]
          /\ stage' \in [Loops -> {"only", "before", "after"}]
      BY <1>17, <2>1, JobFields, InventoryAssumption
         DEF Take, TypeOK, workVars, ActionKinds
    <3>4. pc' \in [Loops -> Phases]
      BY <1>17 DEF Take, Goto, Phases, TypeOK
    <3>5. /\ job' \in [Loops -> Job \cup {NoJob}]
          /\ \A m \in Loops : pc'[m] # "idle" => job'[m] # NoJob
      BY <1>17, <2>1 DEF Take, Goto, TypeOK
    <3> QED BY <1>17, <3>1, <3>2, <3>3, <3>4, <3>5
        DEF TypeOK, Take, cloudVars, rowVars, workVars
  <2>3. PhaseOK'
    BY <1>17, <2>1, JobFields, InventoryAssumption
    DEF TypeOK, PhaseOK, Take, Goto, workVars
  <2> QED BY <2>2, <2>3
<1>18. ASSUME NEW d \in Droplets, ProviderActs(d) PROVE IInv'
  <2>1. TypeOK'
    <3>1. used' \in [BoundNames -> Nat]
      BY <1>18, OutageUsed DEF ProviderActs
    <3>2. failed' \in [Loops -> BOOLEAN]
      BY <1>18 DEF ProviderActs, TypeOK
    <3> QED BY <1>18, <3>1, <3>2 DEF TypeOK, ProviderActs, rowVars, syncVars
  <2>2. PhaseOK'
    BY <1>18 DEF PhaseOK, ProviderActs, rowVars, syncVars
  <2> QED BY <2>1, <2>2
<1>19. ASSUME NEW d \in Droplets, UpdateRootCredential(d) PROVE IInv'
  <2>1. TypeOK'
    <3>1. RowsOK'
      <4>1. password[d] \in Nat
        BY DEF TypeOK
      <4> QED BY <1>19, <4>1, SaveType DEF UpdateRootCredential
    <3> QED BY <1>19, <3>1
        DEF TypeOK, RowsOK, UpdateRootCredential, machineVars, syncVars, workVars
  <2>2. PhaseOK'
    BY <1>19 DEF PhaseOK, UpdateRootCredential, syncVars, workVars
  <2> QED BY <2>1, <2>2
<1>20. ASSUME NEW d \in Droplets, ConsoleDestroy(d) PROVE IInv'
  <2>1. TypeOK'
    <3>1. used' \in [BoundNames -> Nat]
      BY <1>20, UsedType DEF ConsoleDestroy, BoundNames
    <3> QED BY <1>20, <3>1, VanishType DEF TypeOK, ConsoleDestroy, rowVars, workVars
  <2>2. PhaseOK'
    BY <1>20 DEF PhaseOK, ConsoleDestroy, rowVars, syncVars, workVars
  <2> QED BY <2>1, <2>2
<1>21. ASSUME NEW a \in Accounts, NEW u \in Users, Transfer(a, u) PROVE IInv'
  <2>1. TypeOK'
    <3>1. used' \in [BoundNames -> Nat]
      BY <1>21, UsedType DEF Transfer, BoundNames
    <3>2. owner' \in [Accounts -> Users \cup {NoUser}]
      BY <1>21 DEF Transfer, TypeOK
    <3>3. ASSUME NEW d \in Droplets, rows[d] # NoRow
          PROVE  [rows[d] EXCEPT !.user = u] \in Row
      <4>1. rows[d] \in Row
        BY <3>3 DEF TypeOK
      <4> QED BY <4>1 DEF Row
    <3>4. rows' \in [Droplets -> Row \cup {NoRow}]
      BY <1>21, <3>3 DEF Transfer, RowsOf, TypeOK
    <3>5. ASSUME NEW d \in Droplets, rows'[d] # NoRow
          PROVE  owner'[HomeOf(d)] # NoUser
      <4>1. rows[d] # NoRow
        BY <1>21, <3>5 DEF Transfer, RowsOf
      <4>2. owner[HomeOf(d)] # NoUser /\ HomeOf(d) \in Accounts /\ u # NoUser
        BY <4>1, HomeType, InventoryAssumption DEF TypeOK
      <4> QED BY <1>21, <4>2 DEF Transfer, TypeOK
    <3> QED BY <1>21, <3>1, <3>2, <3>4, <3>5
        DEF TypeOK, Transfer, cloudVars, syncVars, workVars
  <2>2. PhaseOK'
    BY <1>21 DEF PhaseOK, Transfer, syncVars, workVars
  <2> QED BY <2>1, <2>2
<1>22. ASSUME NEW a \in Accounts, Unlink(a) PROVE IInv'
  <2>1. TypeOK'
    <3>1. used' \in [BoundNames -> Nat]
      BY <1>22, UsedType DEF Unlink, BoundNames
    <3>2. /\ owner' \in [Accounts -> Users \cup {NoUser}]
          /\ rows' \in [Droplets -> Row \cup {NoRow}]
      BY <1>22 DEF Unlink, TypeOK
    <3>3. ASSUME NEW d \in Droplets, rows'[d] # NoRow
          PROVE  owner'[HomeOf(d)] # NoUser
      BY <1>22, <3>3, HomeType DEF Unlink, TypeOK
    <3> QED BY <1>22, <3>1, <3>2, <3>3
        DEF TypeOK, Unlink, cloudVars, syncVars, workVars
  <2>2. PhaseOK'
    BY <1>22 DEF PhaseOK, Unlink, syncVars, workVars
  <2> QED BY <2>1, <2>2
<1> QED BY <1>1, <1>2, <1>3, <1>4, <1>5, <1>6, <1>7, <1>8, <1>9, <1>10, <1>11, <1>12,
           <1>13, <1>14, <1>15, <1>16, <1>17, <1>18, <1>19, <1>20, <1>21, <1>22
        DEF Next, Step

(* A step that changes nothing.                                            *)
LEMMA StutterInv == ASSUME IInv, UNCHANGED vars PROVE IInv'
BY DEF IInv, TypeOK, PhaseOK, vars, cloudVars, rowVars, syncVars, workVars

LEMMA Invariance == Spec => []IInv
<1>1. IInv /\ [Next]_vars => IInv'
  BY StepInv, StutterInv
<1> QED BY Initially, <1>1, PTL DEF Spec

(* Owners, droplets, rows, jobs and counters keep their types, and a row   *)
(* exists only as long as its account is linked.                           *)
THEOREM TypeCorrect == Spec => []TypeOK
<1>1. IInv => TypeOK
  BY DEF IInv
<1> QED BY Invariance, <1>1, PTL

-----------------------------------------------------------------------------
(* What a step leaves alone.  A loop's step does not touch the variables   *)
(* of another loop; steps of the API and the provider touch no loop, but   *)
(* for an action that fails while its job waits for it.                    *)

LoopVars(l) == <<pc[l], job[l], user[l], reader[l], listed[l], pages[l], stage[l],
                 left[l], todo[l], acting[l], done[l]>>

LoopStep(l) == Step(l) \/ Crash(l) \/ \E j \in Requests : Take(l, j)

OutsideStep ==
  \/ \E d \in Droplets : ProviderActs(d) \/ UpdateRootCredential(d) \/ ConsoleDestroy(d)
  \/ \E a \in Accounts : (\E u \in Users : Transfer(a, u)) \/ Unlink(a)

LEMMA NextSteps == Next => (\E l \in Loops : LoopStep(l)) \/ OutsideStep
BY DEF Next, LoopStep, OutsideStep

LEMMA OthersStay ==
  ASSUME TypeOK, NEW l \in Loops, LoopStep(l), NEW m \in Loops, m # l
  PROVE  UNCHANGED LoopVars(m) /\ UNCHANGED failed[m]
<1> USE DEF LoopVars, TypeOK, Goto, Fail, syncVars, workVars
<1>1. CASE LockUser(l) \/ LockUserFails(l) \/ SyncRead(l) \/ SyncList(l) \/ CheckQuota(l)
  BY <1>1 DEF LockUser, LockUserFails, SyncRead, SyncList, CheckQuota
<1>2. CASE SyncStore(l) \/ SyncFails(l)
  BY <1>2 DEF SyncStore, SyncFails, AfterSync
<1>3. CASE Request(l)
  BY <1>3 DEF Request, PerhapsFail
<1>4. CASE SaveCredential(l) \/ SavedAll(l) \/ WorkDone(l) \/ DeleteOne(l)
  BY <1>4 DEF SaveCredential, SavedAll, WorkDone, DeleteOne
<1>5. CASE ActOne(l) \/ Waited(l)
  BY <1>5 DEF ActOne, Waited
<1>6. CASE Report(l) \/ Crash(l)
  BY <1>6 DEF Report, Crash, Release, FreshWork
<1>7. ASSUME NEW j \in Requests, Take(l, j) PROVE UNCHANGED LoopVars(m) /\ UNCHANGED failed[m]
  BY <1>7 DEF Take
<1> QED BY <1>1, <1>2, <1>3, <1>4, <1>5, <1>6, <1>7 DEF LoopStep, Step

LEMMA LoopsStay ==
  ASSUME TypeOK, OutsideStep, NEW m \in Loops
  PROVE  UNCHANGED LoopVars(m) /\ (failed[m] => failed'[m])
BY DEF OutsideStep, LoopVars, TypeOK, ProviderActs, UpdateRootCredential, ConsoleDestroy,
       Transfer, Unlink, syncVars, workVars

(* Bounds are only ever used up.                                           *)
Unused(bs) == \A b \in bs : used[b] = 0

LEMMA Spending == ASSUME Next PROVE UNCHANGED used \/ \E b \in BoundNames : Spend(b)
<1> USE DEF BoundNames
<1>1. ASSUME NEW l \in Loops, Step(l) PROVE UNCHANGED used \/ Spend("outages")
  <2>1. CASE LockUser(l) \/ LockUserFails(l) \/ SyncRead(l) \/ SyncList(l) \/ SyncStore(l)
             \/ SyncFails(l) \/ CheckQuota(l)
    BY <2>1 DEF LockUser, LockUserFails, SyncRead, SyncList, SyncStore, SyncFails,
                CheckQuota
  <2>2. CASE Request(l)
    BY <2>2 DEF Request, PerhapsFail
  <2>3. CASE SaveCredential(l) \/ SavedAll(l) \/ WorkDone(l) \/ Report(l)
    BY <2>3 DEF SaveCredential, SavedAll, WorkDone, Report
  <2>4. CASE DeleteOne(l) \/ ActOne(l) \/ Waited(l)
    BY <2>4 DEF DeleteOne, ActOne, Waited
  <2> QED BY <1>1, <2>1, <2>2, <2>3, <2>4 DEF Step
<1>2. ASSUME NEW l \in Loops, Crash(l) \/ \E j \in Requests : Take(l, j)
      PROVE  UNCHANGED used \/ Spend("crashes") \/ Spend("jobs")
  BY <1>2 DEF Crash, Take
<1>3. ASSUME OutsideStep
      PROVE  \/ UNCHANGED used
             \/ Spend("outages") \/ Spend("console") \/ Spend("unlinks") \/ Spend("transfers")
  BY <1>3 DEF OutsideStep, ProviderActs, UpdateRootCredential, ConsoleDestroy, Transfer,
              Unlink
<1> QED BY <1>1, <1>2, <1>3, NextSteps DEF LoopStep

LEMMA UnusedBefore ==
  ASSUME TypeOK, Next, NEW bs \in SUBSET BoundNames, Unused(bs)'
  PROVE  Unused(bs)
BY Spending DEF Unused, TypeOK, Spend

(* A step of a loop ends its job, or goes on with it; the only phases that *)
(* are entered anew are named where they matter.                           *)
LEMMA GoesOn ==
  ASSUME IInv, NEW l \in Loops, Step(l) \/ Crash(l)
  PROVE  /\ pc[l] # "idle"
         /\ \/ pc'[l] = "idle"
            \/ /\ pc'[l] # "idle" /\ UNCHANGED <<job[l], user[l]>>
               /\ stage'[l] = stage[l] \/ (pc[l] = "request" /\ stage'[l] = "after")
               /\ pc'[l] # "lock"
               /\ pc[l] \in {"lock", "report"} =>
                    pc'[l] = "report" \/ (LockUser(l) /\ pc'[l] = "read")
               /\ pc'[l] = "list" => SyncRead(l) \/ SyncList(l)
               /\ pc'[l] = "store" => SyncList(l)
<1> USE DEF IInv, TypeOK, Goto, syncVars
<1>1. CASE LockUser(l) \/ LockUserFails(l) \/ SyncRead(l) \/ SyncList(l) \/ CheckQuota(l)
  BY <1>1 DEF LockUser, LockUserFails, SyncRead, SyncList, CheckQuota
<1>2. CASE SyncStore(l) \/ SyncFails(l)
  BY <1>2 DEF SyncStore, SyncFails, AfterSync, Synced
<1>3. CASE Request(l)
  BY <1>3 DEF Request
<1>4. CASE SaveCredential(l) \/ SavedAll(l) \/ WorkDone(l) \/ DeleteOne(l)
  BY <1>4 DEF SaveCredential, SavedAll, WorkDone, DeleteOne
<1>5. CASE ActOne(l) \/ Waited(l)
  BY <1>5 DEF ActOne, Waited
<1>6. CASE Report(l) \/ Crash(l)
  BY <1>6 DEF Report, Crash, Release
<1> QED BY <1>1, <1>2, <1>3, <1>4, <1>5, <1>6 DEF Step

-----------------------------------------------------------------------------
(* Jobs and locks.  A busy loop carries out one of the requests, create    *)
(* jobs of one user exclude each other, and unless accounts change hands,  *)
(* a job and its sync know the owner of the account.                       *)

JobOK ==
  \A l \in Loops : pc[l] # "idle" =>
    /\ job[l] \in Requests /\ user[l] # NoUser
    /\ job[l].kind = "sync" => stage[l] = "only"
    /\ job[l].kind = "create" => stage[l] \in {"before", "after"}
    /\ job[l].kind \in ActionKinds \cup {"delete"} => stage[l] = "after"

LockOK ==
  \A l, m \in Loops : HoldsLock(l) /\ HoldsLock(m) /\ user[l] = user[m] => l = m

OwnerOK ==
  Unused({"transfers"}) =>
    \A l \in Loops : pc[l] # "idle" =>
      /\ owner[AccountOf(l)] \in {user[l], NoUser}
      /\ pc[l] \in {"list", "store"} => owner[AccountOf(l)] \in {reader[l], NoUser}

JobInv == JobOK /\ LockOK /\ OwnerOK

LEMMA JobInvNext ==
  ASSUME IInv, JobInv, Next
  PROVE  JobInv'
<1> USE DEF IInv, JobInv
<1>1. ASSUME NEW l \in Loops, Step(l) \/ Crash(l) PROVE JobInv'
  <2>1. \A m \in Loops : m # l => UNCHANGED LoopVars(m)
    BY <1>1, OthersStay DEF LoopStep
  <2>2. UNCHANGED owner
    BY <1>1 DEF Step, LockUser, LockUserFails, SyncRead, SyncList, SyncStore, SyncFails,
           CheckQuota, Request, SaveCredential, SavedAll, DeleteOne, ActOne, Waited,
           WorkDone, Report, Crash, Release
  <2>3. JobOK'
    BY <1>1, <2>1, GoesOn DEF JobOK, PhaseOK, LoopVars
  <2>4. LockOK'
    <3>1. HoldsLock(l)' => /\ user'[l] = user[l]
                           /\ HoldsLock(l) \/ LockUser(l)
      BY <1>1, GoesOn DEF HoldsLock
    <3>2. \A m \in Loops : m # l => (HoldsLock(m)' <=> HoldsLock(m)) /\ user'[m] = user[m]
      BY <2>1 DEF LoopVars, HoldsLock
    <3> QED BY <3>1, <3>2 DEF LockOK, LockUser
  <2>5. OwnerOK'
    <3> SUFFICES ASSUME Unused({"transfers"})', NEW m \in Loops, pc'[m] # "idle"
                 PROVE  /\ owner[AccountOf(m)'] \in {user'[m], NoUser}
                        /\ pc'[m] \in {"list", "store"} =>
                             owner[AccountOf(m)'] \in {reader'[m], NoUser}
      BY <2>2 DEF OwnerOK
    <3>1. Unused({"transfers"})
      BY <1>1, UnusedBefore DEF BoundNames, Next
    <3>2. CASE m # l
      BY <2>1, <3>1, <3>2 DEF OwnerOK, LoopVars, AccountOf
    <3>3. CASE m = l
      <4>1. /\ pc[l] # "idle" /\ UNCHANGED <<job[l], user[l]>>
            /\ pc'[l] = "list" => SyncRead(l) \/ SyncList(l)
            /\ pc'[l] = "store" => SyncList(l)
        BY <1>1, <3>3, GoesOn
      <4>2. SyncRead(l) => reader'[l] = owner[AccountOf(l)]
        BY DEF SyncRead, TypeOK
      <4>3. SyncList(l) => reader'[l] = reader[l] /\ pc[l] = "list"
        BY DEF SyncList
      <4> QED BY <3>1, <3>3, <4>1, <4>2, <4>3 DEF OwnerOK, AccountOf
    <3> QED BY <3>2, <3>3
  <2> QED BY <2>3, <2>4, <2>5
<1>2. ASSUME NEW l \in Loops, NEW j \in Requests, Take(l, j) PROVE JobInv'
  <2>1. \A m \in Loops : m # l => UNCHANGED LoopVars(m)
    BY <1>2, OthersStay DEF LoopStep
  <2>2. /\ UNCHANGED owner /\ owner[j.account] # NoUser
        /\ job'[l] = j /\ user'[l] = owner[j.account] /\ reader'[l] = owner[j.account]
        /\ \/ j.kind = "sync" /\ pc'[l] = "list" /\ stage'[l] = "only"
           \/ j.kind = "create" /\ pc'[l] = "lock" /\ stage'[l] = "before"
           \/ /\ j.kind \in ActionKinds \cup {"delete"}
              /\ pc'[l] = "work" /\ stage'[l] = "after"
    BY <1>2 DEF Take, TypeOK, Goto
  <2>3. JobOK'
    BY <2>1, <2>2 DEF JobOK, LoopVars, ActionKinds
  <2>4. LockOK'
    <3>1. ~HoldsLock(l)'
      BY <2>2 DEF HoldsLock, ActionKinds
    <3>2. \A m \in Loops : m # l => (HoldsLock(m)' <=> HoldsLock(m)) /\ user'[m] = user[m]
      BY <2>1 DEF LoopVars, HoldsLock
    <3> QED BY <3>1, <3>2 DEF LockOK
  <2>5. OwnerOK'
    <3>1. Unused({"transfers"})' => Unused({"transfers"})
      BY <1>2, UnusedBefore DEF BoundNames, Next
    <3>2. AccountOf(l)' = j.account
      BY <2>2 DEF AccountOf
    <3>3. \A m \in Loops : m # l => AccountOf(m)' = AccountOf(m)
      BY <2>1 DEF LoopVars, AccountOf
    <3> QED BY <2>1, <2>2, <3>1, <3>2, <3>3 DEF OwnerOK, LoopVars
  <2> QED BY <2>3, <2>4, <2>5
<1>3. CASE OutsideStep
  <2>1. \A m \in Loops : UNCHANGED LoopVars(m)
    BY <1>3, LoopsStay
  <2>2. \A m \in Loops : /\ UNCHANGED <<pc[m], job[m], user[m], reader[m], stage[m]>>
                         /\ AccountOf(m)' = AccountOf(m)
                         /\ HoldsLock(m)' <=> HoldsLock(m)
    BY <2>1 DEF LoopVars, HoldsLock, AccountOf
  <2>3. JobOK' /\ LockOK'
    BY <2>2 DEF JobOK, LockOK
  <2>4. Unused({"transfers"})' =>
          /\ Unused({"transfers"})
          /\ \A a \in Accounts : owner'[a] \in {owner[a], NoUser}
    <3>1. Unused({"transfers"})' => Unused({"transfers"})
      BY <1>3, UnusedBefore DEF BoundNames, Next, OutsideStep
    <3>2. ASSUME NEW a \in Accounts, NEW u \in Users, Transfer(a, u)
          PROVE  ~Unused({"transfers"})'
      BY <3>2 DEF Transfer, Spend, Unused, TypeOK, BoundNames
    <3> QED BY <1>3, <3>1, <3>2
            DEF OutsideStep, ProviderActs, UpdateRootCredential, ConsoleDestroy, Unlink,
                TypeOK
  <2>5. \A m \in Loops : pc[m] # "idle" => AccountOf(m) \in Accounts
    BY BusyJob, JobFields DEF AccountOf
  <2>6. OwnerOK'
    BY <2>2, <2>4, <2>5 DEF OwnerOK
  <2> QED BY <2>3, <2>6
<1> QED BY <1>1, <1>2, <1>3, NextSteps DEF LoopStep

LEMMA JobInvariance == Spec => []JobInv
<1>1. Init => JobInv
  BY DEF Init, JobInv, JobOK, LockOK, OwnerOK, HoldsLock
<1>2. IInv /\ JobInv /\ [Next]_vars => JobInv'
  <2>1. CASE UNCHANGED vars
    BY <2>1 DEF vars, syncVars, JobInv, JobOK, LockOK, OwnerOK, HoldsLock, AccountOf, Unused
  <2> QED BY <2>1, JobInvNext
<1> QED BY Invariance, <1>1, <1>2, PTL DEF Spec

-----------------------------------------------------------------------------
(* Listings.  A droplet that a listing cannot miss is on the pages read so *)
(* far or behind them: new droplets push it further back, and when one of  *)
(* its account goes between two pages, nothing is certain any more.        *)

ListingOK ==
  \A l \in Loops :
    /\ pc[l] \notin {"list", "store"} => pages[l] = 0
    /\ pc[l] = "list" /\ pages[l] # 0 =>
         \A d \in kept[l] :
           \/ d \in listed[l]
           \/ d \in CloudOf(AccountOf(l)) /\ Place(d) > pages[l] * PageSize
    /\ pc[l] = "store" => kept[l] \subseteq listed[l]

LEMMA DropletsFinite ==
  ASSUME TypeOK, NEW S \in SUBSET cloud
  PROVE  IsFiniteSet(S) /\ Cardinality(S) \in Nat
<1>1. IsFiniteSet(1..MaxDroplets)
  BY InventoryAssumption, FS_Interval
<1>2. IsFiniteSet(Droplets)
  BY <1>1, InventoryAssumption, FS_Product DEF Droplets
<1>3. IsFiniteSet(S)
  BY <1>2, FS_Subset DEF TypeOK
<1> QED BY <1>3, FS_CardinalityType

(* A place in the listing of an account.                                   *)
LEMMA PlaceFacts ==
  ASSUME TypeOK, NEW a \in Accounts, NEW d \in CloudOf(a)
  PROVE  /\ Place(d) \in Nat /\ Cardinality(CloudOf(a)) \in Nat
         /\ 1 <= Place(d) /\ Place(d) <= Cardinality(CloudOf(a))
<1> DEFINE S == {e \in CloudOf(HomeOf(d)) : e[2] >= d[2]}
<1>1. HomeOf(d) = a /\ d \in cloud /\ d[2] \in Nat
  BY InventoryAssumption DEF CloudOf, TypeOK, Droplets
<1>2. S \subseteq CloudOf(a) /\ CloudOf(a) \subseteq cloud /\ {d} \subseteq S
  BY <1>1 DEF CloudOf
<1>3. IsFiniteSet(S) /\ IsFiniteSet(CloudOf(a))
  BY <1>2, DropletsFinite
<1>4. Cardinality({d}) = 1
  BY FS_Singleton
<1>5. Cardinality({d}) <= Cardinality(S) /\ Cardinality(S) <= Cardinality(CloudOf(a))
  BY <1>2, <1>3, FS_Subset
<1>6. Cardinality(S) \in Nat /\ Cardinality(CloudOf(a)) \in Nat
  BY <1>3, FS_CardinalityType
<1>7. Place(d) = Cardinality(S)
  BY DEF Place
<1> QED BY <1>4, <1>5, <1>6, <1>7

LEMMA PlaceGrows ==
  ASSUME TypeOK, TypeOK', NEW a \in Accounts, NEW d \in CloudOf(a),
         CloudOf(a) \subseteq CloudOf(a)'
  PROVE  d \in CloudOf(a)' /\ Place(d) \in Nat /\ Place(d)' \in Nat /\ Place(d)' >= Place(d)
<1> DEFINE S == {e \in CloudOf(a) : e[2] >= d[2]}
           T == {e \in CloudOf(a)' : e[2] >= d[2]}
<1>1. HomeOf(d) = a /\ CloudOf(a)' \subseteq cloud'
  BY DEF CloudOf
<1>2. IsFiniteSet(T) /\ S \subseteq T
  <2>1. CloudOf(a)' \subseteq Droplets
    BY <1>1 DEF TypeOK
  <2>2. IsFiniteSet(Droplets)
    <3>1. IsFiniteSet(1..MaxDroplets)
      BY InventoryAssumption, FS_Interval
    <3> QED BY <3>1, InventoryAssumption, FS_Product DEF Droplets
  <2>3. T \subseteq Droplets
    BY <2>1
  <2> QED BY <2>2, <2>3, FS_Subset
<1>3. Place(d) = Cardinality(S) /\ Place(d)' = Cardinality(T)
  BY <1>1 DEF Place, CloudOf
<1>4. Cardinality(S) <= Cardinality(T)
  BY <1>2, FS_Subset
<1>5. Cardinality(S) \in Nat /\ Cardinality(T) \in Nat
  BY <1>2, FS_Subset, FS_CardinalityType
<1> QED BY <1>3, <1>4, <1>5

(* The loop reads a page.                                                  *)
LEMMA PageRead ==
  ASSUME IInv, ListingOK, NEW l \in Loops, SyncList(l)
  PROVE  /\ pc'[l] \in {"list", "store"}
         /\ pc'[l] = "list" =>
              \A d \in kept'[l] :
                \/ d \in listed'[l]
                \/ d \in CloudOf(AccountOf(l))' /\ Place(d)' > pages'[l] * PageSize
         /\ pc'[l] = "store" => kept'[l] \subseteq listed'[l]
<1> DEFINE a == AccountOf(l)
           n == pages[l]
           end == (n + 1) * PageSize
<1>1. a \in Accounts /\ n \in Nat /\ PageSize \in Nat /\ end \in Nat
  <2>1. pc[l] # "idle"
    BY DEF SyncList
  <2> QED BY <2>1, BusyJob, JobFields, InventoryAssumption DEF IInv, TypeOK, AccountOf
<1>2. /\ pc[l] = "list" /\ UNCHANGED <<cloud, job>>
      /\ listed'[l] = listed[l] \cup PageAfter(a, n)
      /\ pages'[l] = n + 1
      /\ kept'[l] = IF n = 0 THEN CloudOf(a) ELSE kept[l]
      /\ \/ pc'[l] = "store" /\ Cardinality(CloudOf(a)) <= end
         \/ pc'[l] = "list" /\ ~(Cardinality(CloudOf(a)) <= end)
  BY DEF SyncList, IInv, TypeOK, Goto, cloudVars
<1>3. ASSUME NEW d \in kept'[l], d \notin listed'[l]
      PROVE  d \in CloudOf(a) /\ Place(d) > end
  <2>1. d \in CloudOf(a) /\ (n = 0 \/ Place(d) > n * PageSize)
    BY <1>2, <1>3 DEF ListingOK
  <2>2. Place(d) \in Nat /\ Place(d) >= 1
    BY <1>1, <2>1, PlaceFacts DEF IInv
  <2>3. Place(d) > n * PageSize
    BY <1>1, <2>1, <2>2
  <2>4. ~(Place(d) <= end)
    BY <1>2, <1>3, <2>1, <2>3 DEF PageAfter
  <2> HIDE DEF end
  <2> QED BY <1>1, <2>1, <2>2, <2>4
<1>4. ASSUME pc'[l] = "store" PROVE kept'[l] \subseteq listed'[l]
  <2> SUFFICES ASSUME NEW d \in kept'[l], d \notin listed'[l] PROVE FALSE
    OBVIOUS
  <2>1. d \in CloudOf(a) /\ Place(d) > end /\ Cardinality(CloudOf(a)) <= end
    BY <1>2, <1>3, <1>4
  <2>2. Place(d) \in Nat /\ Cardinality(CloudOf(a)) \in Nat /\ Place(d) <= Cardinality(CloudOf(a))
    BY <1>1, <2>1, PlaceFacts DEF IInv
  <2> HIDE DEF end, a
  <2> QED BY <1>1, <2>1, <2>2
<1>5. ASSUME NEW d PROVE Place(d)' = Place(d) /\ CloudOf(a)' = CloudOf(a)
  BY <1>2 DEF Place, CloudOf, AccountOf
<1> QED BY <1>2, <1>3, <1>4, <1>5

(* Any other step of a loop leaves it at the start of a listing, or        *)
(* outside of one.                                                         *)
LEMMA NoPageRead ==
  ASSUME IInv, ListingOK, NEW l \in Loops, LoopStep(l), ~SyncList(l)
  PROVE  pc'[l] # "store" /\ pages'[l] = 0
<1> USE DEF IInv, TypeOK, Goto, syncVars, ListingOK
<1>1. CASE LockUser(l) \/ LockUserFails(l) \/ SyncRead(l) \/ CheckQuota(l)
  BY <1>1 DEF LockUser, LockUserFails, SyncRead, CheckQuota
<1>2. CASE SyncStore(l) \/ SyncFails(l)
  BY <1>2 DEF SyncStore, SyncFails, AfterSync, Synced
<1>3. CASE Request(l)
  BY <1>3 DEF Request
<1>4. CASE SaveCredential(l) \/ SavedAll(l) \/ WorkDone(l) \/ DeleteOne(l)
  BY <1>4 DEF SaveCredential, SavedAll, WorkDone, DeleteOne
<1>5. CASE ActOne(l) \/ Waited(l)
  BY <1>5 DEF ActOne, Waited
<1>6. CASE Report(l) \/ Crash(l)
  BY <1>6 DEF Report, Crash, Release
<1>7. ASSUME NEW j \in Requests, Take(l, j) PROVE pc'[l] # "store" /\ pages'[l] = 0
  BY <1>7 DEF Take
<1> QED BY <1>1, <1>2, <1>3, <1>4, <1>5, <1>6, <1>7 DEF LoopStep, Step

(* What another step does to a listing that loop m is reading.             *)
LEMMA KeptElsewhere ==
  ASSUME IInv, NEW m \in Loops, OutsideStep \/ \E l \in Loops : l # m /\ LoopStep(l)
  PROVE  /\ kept'[m] \subseteq kept[m]
         /\ pc[m] = "list"
              => kept'[m] = {} \/ CloudOf(AccountOf(m)) \subseteq CloudOf(AccountOf(m))'
<1> USE DEF IInv, TypeOK
<1>1. AccountOf(m)' = AccountOf(m)
  BY OthersStay, LoopsStay DEF LoopVars, AccountOf
<1>2. ASSUME NEW d, Vanish(d) 
      PROVE  /\ kept'[m] \subseteq kept[m]
             /\ pc[m] = "list"
                  => kept'[m] = {} \/ CloudOf(AccountOf(m)) \subseteq CloudOf(AccountOf(m))'
  BY <1>1, <1>2 DEF Vanish, CloudOf
<1>3. ASSUME cloud \subseteq cloud', kept'[m] = kept[m] 
      PROVE  /\ kept'[m] \subseteq kept[m]
             /\ pc[m] = "list"
                  => kept'[m] = {} \/ CloudOf(AccountOf(m)) \subseteq CloudOf(AccountOf(m))'
  BY <1>1, <1>3 DEF CloudOf
<1>4. ASSUME NEW l \in Loops, l # m, LoopStep(l)
      PROVE  (\E d : Vanish(d)) \/ (cloud \subseteq cloud' /\ kept'[m] = kept[m])
  <2> USE DEF syncVars, cloudVars, machineVars
  <2>1. CASE DeleteOne(l)
    BY <2>1 DEF DeleteOne
  <2>2. CASE Request(l)
    BY <2>2 DEF Request
  <2>3. CASE LockUser(l) \/ LockUserFails(l) \/ SyncRead(l) \/ SyncList(l) \/ CheckQuota(l)
    BY <1>4, <2>3 DEF LockUser, LockUserFails, SyncRead, SyncList, CheckQuota
  <2>4. CASE SyncStore(l) \/ SyncFails(l)
    BY <1>4, <2>4 DEF SyncStore, SyncFails, AfterSync
  <2>5. CASE SaveCredential(l) \/ SavedAll(l) \/ WorkDone(l) \/ ActOne(l) \/ Waited(l)
    BY <2>5 DEF SaveCredential, SavedAll, WorkDone, ActOne, Waited
  <2>6. CASE Report(l) \/ Crash(l)
    BY <1>4, <2>6 DEF Report, Crash, Release
  <2>7. ASSUME NEW j \in Requests, Take(l, j) PROVE cloud \subseteq cloud' /\ kept'[m] = kept[m]
    BY <2>7 DEF Take
  <2> QED BY <1>4, <2>1, <2>2, <2>3, <2>4, <2>5, <2>6, <2>7 DEF LoopStep, Step
<1>5. CASE OutsideStep
  <2>1. ASSUME NEW d \in Droplets, ConsoleDestroy(d) PROVE Vanish(d)
    BY <2>1 DEF ConsoleDestroy
  <2>2. CASE ~\E d \in Droplets : ConsoleDestroy(d)
    BY <1>3, <1>5, <2>2 DEF OutsideStep, ProviderActs, UpdateRootCredential, Transfer, Unlink,
                            cloudVars, machineVars, syncVars
  <2> QED BY <1>2, <2>1, <2>2
<1> QED BY <1>2, <1>3, <1>4, <1>5

LEMMA ListingOKNext ==
  ASSUME IInv, ListingOK, Next
  PROVE  ListingOK'
<1> SUFFICES ASSUME NEW m \in Loops
             PROVE  /\ pc'[m] \notin {"list", "store"} => pages'[m] = 0
                    /\ pc'[m] = "list" /\ pages'[m] # 0 =>
                         \A d \in kept'[m] :
                           \/ d \in listed'[m]
                           \/ d \in CloudOf(AccountOf(m))' /\ Place(d)' > pages'[m] * PageSize
                    /\ pc'[m] = "store" => kept'[m] \subseteq listed'[m]
  BY DEF ListingOK
<1>1. CASE LoopStep(m)
  BY <1>1, PageRead, NoPageRead
<1>2. ASSUME OutsideStep \/ \E l \in Loops : l # m /\ LoopStep(l)
      PROVE  /\ pc'[m] \notin {"list", "store"} => pages'[m] = 0
             /\ pc'[m] = "list" /\ pages'[m] # 0 =>
                  \A d \in kept'[m] :
                    \/ d \in listed'[m]
                    \/ d \in CloudOf(AccountOf(m))' /\ Place(d)' > pages'[m] * PageSize
             /\ pc'[m] = "store" => kept'[m] \subseteq listed'[m]
  <2>1. UNCHANGED LoopVars(m)
    BY <1>2, OthersStay, LoopsStay DEF IInv
  <2>2. /\ UNCHANGED <<pc[m], listed[m], pages[m]>>
        /\ AccountOf(m)' = AccountOf(m)
    BY <2>1 DEF LoopVars, AccountOf
  <2>3. ASSUME pc[m] = "list", pages[m] # 0, NEW d \in kept'[m], d \notin listed[m]
        PROVE  d \in CloudOf(AccountOf(m))' /\ Place(d)' > pages[m] * PageSize
    <3>1. /\ d \in CloudOf(AccountOf(m)) /\ Place(d) > pages[m] * PageSize
          /\ CloudOf(AccountOf(m)) \subseteq CloudOf(AccountOf(m))'
      BY <1>2, <2>3, KeptElsewhere DEF ListingOK
    <3>2. AccountOf(m) \in Accounts
      BY <2>3, BusyJob, JobFields DEF IInv, AccountOf
    <3>3. PICK b \in Accounts : b = AccountOf(m)
      BY <3>2
    <3>4. d \in CloudOf(b) /\ CloudOf(b) \subseteq CloudOf(b)'
      BY <2>2, <3>1, <3>3 DEF CloudOf
    <3>5. Place(d) \in Nat /\ Place(d)' \in Nat /\ Place(d)' >= Place(d) /\ d \in CloudOf(b)'
      BY <3>4, StepInv, PlaceGrows DEF IInv
    <3>6. d \in CloudOf(AccountOf(m))'
      BY <2>2, <3>3, <3>5 DEF CloudOf
    <3>7. pages[m] * PageSize \in Nat
      BY InventoryAssumption DEF IInv, TypeOK
    <3> QED BY <3>1, <3>5, <3>6, <3>7
  <2>4. ASSUME pc[m] = "store" PROVE kept'[m] \subseteq kept[m]
    BY <1>2, <2>4, KeptElsewhere
  <2> QED BY <2>2, <2>3, <2>4 DEF ListingOK
<1> QED BY <1>1, <1>2, NextSteps

LEMMA ListingsOK == Spec => []ListingOK
<1>1. Init => ListingOK
  BY DEF Init, ListingOK
<1>2. IInv /\ ListingOK /\ [Next]_vars => ListingOK'
  <2>1. CASE UNCHANGED vars
    BY <2>1 DEF ListingOK, CloudOf, Place, AccountOf, vars, cloudVars, syncVars
  <2> QED BY <2>1, ListingOKNext
<1> QED BY Invariance, <1>1, <1>2, PTL DEF Spec

(* Listings that are complete when they are stored: an account's droplets  *)
(* fit on a page, and no droplet is made between the listing and the       *)
(* storing.  That is so while one loop does all the work, and for the      *)
(* syncs of create jobs among themselves, as they run under the lock of    *)
(* the account's owner, while no account changes hands.                    *)
OnePage == MaxDroplets <= PageSize
SingleLoop == \A l, m \in Loops : l = m
CreatesOnly == \A j \in Requests : j.kind = "create"

Undivided == OnePage /\ (SingleLoop \/ (CreatesOnly /\ Unused({"transfers"})))

ListingFresh ==
  Undivided =>
    \A l \in Loops :
      /\ pc[l] = "list" => pages[l] = 0
      /\ pc[l] = "store" /\ owner[AccountOf(l)] # NoUser =>
           CloudOf(AccountOf(l)) \subseteq listed[l]

LEMMA UndividedBefore == ASSUME TypeOK, Next, Undivided' PROVE Undivided
BY UnusedBefore DEF Undivided, BoundNames, SingleLoop, CreatesOnly, OnePage

(* Two create jobs are not at work on one linked account.                  *)
LEMMA AloneOnAccount ==
  ASSUME IInv, JobInv, CreatesOnly, Unused({"transfers"}),
         NEW l \in Loops, NEW m \in Loops, HoldsLock(l), HoldsLock(m),
         AccountOf(l) = AccountOf(m), owner[AccountOf(l)] # NoUser
  PROVE  l = m
BY DEF JobInv, JobOK, LockOK, OwnerOK, HoldsLock

(* A page holds an account.                                                *)
LEMMA OnePageEnough ==
  ASSUME TypeOK, OnePage, NEW a \in Accounts
  PROVE  PageAfter(a, 0) = CloudOf(a) /\ Cardinality(CloudOf(a)) <= (0 + 1) * PageSize
<1>1. CloudOf(a) \subseteq {a} \X (1..MaxDroplets)
  BY DEF CloudOf, TypeOK, Droplets, HomeOf
<1>2. IsFiniteSet(1..MaxDroplets) /\ Cardinality(1..MaxDroplets) = MaxDroplets
  BY FS_Interval, InventoryAssumption
<1>3. IsFiniteSet({a}) /\ Cardinality({a}) = 1
  BY FS_Singleton
<1>4. /\ IsFiniteSet({a} \X (1..MaxDroplets))
      /\ Cardinality({a} \X (1..MaxDroplets)) = 1 * MaxDroplets
  <2>1. /\ IsFiniteSet({a} \X (1..MaxDroplets))
        /\ Cardinality({a} \X (1..MaxDroplets)) = Cardinality({a}) * Cardinality(1..MaxDroplets)
    BY <1>2, <1>3, FS_Product, Zenon
  <2> QED BY <1>2, <1>3, <2>1
<1>5. Cardinality(CloudOf(a)) <= 1 * MaxDroplets
  BY <1>1, <1>4, FS_Subset
<1>6. Cardinality(CloudOf(a)) \in Nat /\ Cardinality(CloudOf(a)) <= PageSize
  <2>1. IsFiniteSet(CloudOf(a))
    BY <1>1, <1>4, FS_Subset
  <2> QED BY <1>5, <2>1, FS_CardinalityType, InventoryAssumption DEF OnePage
<1>7. ASSUME NEW d \in CloudOf(a)
      PROVE  Place(d) > 0 * PageSize /\ Place(d) <= (0 + 1) * PageSize
  BY <1>6, <1>7, PlaceFacts, InventoryAssumption
<1> QED BY <1>6, <1>7, InventoryAssumption DEF PageAfter

LEMMA ListingStaysFresh ==
  ASSUME IInv, JobInv, ListingOK, ListingFresh, Next
  PROVE  ListingFresh'
<1> SUFFICES ASSUME Undivided, NEW m \in Loops
             PROVE  /\ pc'[m] = "list" => pages'[m] = 0
                    /\ pc'[m] = "store" /\ owner'[AccountOf(m)'] # NoUser =>
                         CloudOf(AccountOf(m))' \subseteq listed'[m]
  BY UndividedBefore DEF ListingFresh, IInv
<1> USE DEF IInv
<1>1. ASSUME SyncList(m) PROVE pc'[m] = "store" /\ CloudOf(AccountOf(m))' \subseteq listed'[m]
  <2>1. pages[m] = 0 /\ AccountOf(m) \in Accounts
    BY <1>1, BusyJob, JobFields DEF SyncList, ListingFresh, AccountOf
  <2>2. pc'[m] = "store" /\ CloudOf(AccountOf(m)) \subseteq listed'[m]
    BY <1>1, <2>1, OnePageEnough DEF SyncList, TypeOK, Undivided, Goto
  <2>3. CloudOf(AccountOf(m))' = CloudOf(AccountOf(m))
    BY <1>1 DEF SyncList, CloudOf, AccountOf, cloudVars
  <2> QED BY <2>2, <2>3
<1>2. CASE LoopStep(m)
  BY <1>1, <1>2, NoPageRead
<1>6. ASSUME UNCHANGED LoopVars(m) PROVE pc'[m] = "list" => pages'[m] = 0
  BY <1>6 DEF LoopVars, ListingFresh
<1>3. ASSUME pc[m] = "store", UNCHANGED LoopVars(m), owner[AccountOf(m)] # NoUser,
             \A d \in cloud' \ cloud : HomeOf(d) # AccountOf(m)
      PROVE  CloudOf(AccountOf(m))' \subseteq listed'[m]
  BY <1>3 DEF ListingFresh, CloudOf, AccountOf, LoopVars
<1>4. ASSUME NEW l \in Loops, l # m, LoopStep(l), pc'[m] = "store",
             owner'[AccountOf(m)'] # NoUser
      PROVE  CloudOf(AccountOf(m))' \subseteq listed'[m]
  <2>1. UNCHANGED LoopVars(m) /\ pc[m] = "store"
    BY <1>4, OthersStay DEF LoopVars
  <2>2. UNCHANGED owner
    BY <1>4 DEF LoopStep, Take, Step, LockUser, LockUserFails, SyncRead, SyncList,
                SyncStore,
           SyncFails, CheckQuota, Request, SaveCredential, SavedAll, DeleteOne, ActOne, Waited,
           WorkDone, Report, Crash, Release
  <2>3. owner[AccountOf(m)] # NoUser
    BY <1>4, <2>1, <2>2 DEF LoopVars, AccountOf
  <2>4. ASSUME Request(l) PROVE \A d \in cloud' \ cloud : HomeOf(d) # AccountOf(m)
    <3>1. \A d \in cloud' \ cloud : HomeOf(d) = AccountOf(l)
      BY <2>4 DEF Request, Newborn, HomeOf
    <3>2. HoldsLock(l) /\ HoldsLock(m)
      BY <1>4, <2>1, <2>4 DEF Request, HoldsLock, JobInv, JobOK, Undivided, SingleLoop,
                              CreatesOnly, PhaseOK
    <3>3. AccountOf(l) # AccountOf(m)
      BY <1>4, <2>3, <3>2, AloneOnAccount DEF Undivided, SingleLoop
    <3> QED BY <3>1, <3>3
  <2>5. ~Request(l) => cloud' \subseteq cloud
    BY <1>4 DEF LoopStep, Take, Step, LockUser, LockUserFails, SyncRead, SyncList,
                SyncStore,
           SyncFails, CheckQuota, SaveCredential, SavedAll, DeleteOne, ActOne, Waited,
           WorkDone, Report, Crash, Release, Vanish, cloudVars, machineVars
  <2> QED BY <1>3, <2>1, <2>3, <2>4, <2>5
<1>5. ASSUME OutsideStep, pc'[m] = "store", owner'[AccountOf(m)'] # NoUser
      PROVE  CloudOf(AccountOf(m))' \subseteq listed'[m]
  <2>1. UNCHANGED LoopVars(m) /\ pc[m] = "store"
    BY <1>5, LoopsStay DEF LoopVars
  <2>2. cloud' \subseteq cloud
    BY <1>5 DEF OutsideStep, ProviderActs, UpdateRootCredential, ConsoleDestroy, Unlink,
                Transfer, Vanish, cloudVars, machineVars
  <2>3. \A a \in Accounts : owner'[a] # NoUser => owner[a] # NoUser
    BY <1>5 DEF OutsideStep, ProviderActs, UpdateRootCredential, ConsoleDestroy, Unlink,
                Transfer, TypeOK
  <2>4. AccountOf(m)' = AccountOf(m) /\ AccountOf(m) \in Accounts
    BY <2>1, BusyJob, JobFields DEF LoopVars, AccountOf
  <2> QED BY <1>3, <1>5, <2>1, <2>2, <2>3, <2>4
<1> QED BY <1>2, <1>4, <1>5, <1>6, OthersStay, LoopsStay, NextSteps

LEMMA ListingsFresh == Spec => []ListingFresh
<1>1. Init => ListingFresh
  BY DEF Init, ListingFresh
<1>2. IInv /\ JobInv /\ ListingOK /\ ListingFresh /\ [Next]_vars => ListingFresh'
  <2>1. CASE UNCHANGED vars
    BY <2>1 DEF ListingFresh, CloudOf, AccountOf, Undivided, Unused, SingleLoop,
                CreatesOnly, OnePage, vars, cloudVars, syncVars
  <2> QED BY <2>1, ListingStaysFresh
<1> QED BY Invariance, JobInvariance, ListingsOK, <1>1, <1>2, PTL DEF Spec

(* A droplet whose saved password is at stake in a step.                   *)
Saved(d) == rows[d] # NoRow /\ rows[d].cred # "none"

(* Storing a listing keeps the password of every droplet listed.           *)
LEMMA UpsertKeeps ==
  ASSUME TypeOK, NEW a \in Accounts, NEW ds, NEW u \in Users, UpsertDroplets(a, ds, u),
         NEW d \in Droplets, Saved(d), HomeOf(d) = a => d \in ds
  PROVE  Saved(d)'
<1>1. rows[d] \in Row /\ NoRow \notin Row
  BY NoRowAssumption DEF TypeOK, Saved
<1>2. CASE HomeOf(d) # a
  BY <1>2 DEF UpsertDroplets, Saved
<1>3. CASE HomeOf(d) = a
  <2>1. rows'[d] = [rows[d] EXCEPT !.user = u]
    BY <1>3 DEF UpsertDroplets, Saved
  <2>2. rows'[d].cred = rows[d].cred
    BY <1>1, <2>1 DEF Row
  <2>3. rows'[d] \in Row
    BY <1>1, <2>1 DEF Row
  <2> QED BY <1>1, <2>2, <2>3 DEF Saved
<1> QED BY <1>2, <1>3

(* Writing a credential, or marking one, keeps it.                         *)
LEMMA WriteKeeps ==
  ASSUME TypeOK, NEW d \in Droplets, Saved(d),
         rows'[d] = rows[d] \/ \E r \in Row : rows'[d] = r /\ r.cred # "none"
  PROVE  Saved(d)'
BY NoRowAssumption DEF TypeOK, Saved

(* A saved password is kept unless a sync stores a listing without its     *)
(* droplet.                                                                *)
LEMMA StepKeeps ==
  ASSUME IInv, Next, NEW d \in cloud, Saved(d), owner'[HomeOf(d)] # NoUser,
         \A l \in Loops : pc[l] = "store" /\ pc'[l] # "store" /\ AccountOf(l) = HomeOf(d)
                             /\ owner[AccountOf(l)] # NoUser => d \in listed[l]
  PROVE  Saved(d)'
<1> USE DEF IInv
<1>1. /\ d \in Droplets /\ HomeOf(d) \in Accounts
      /\ rows[d] \in Row
  BY HomeType DEF TypeOK, Saved
<1>2. CASE UNCHANGED rows
  BY <1>2 DEF Saved
<1>3. ASSUME NEW l \in Loops, pc[l] = "store", owner[AccountOf(l)] # NoUser,
             UpsertDroplets(AccountOf(l), listed[l], reader[l]), pc'[l] # "store"
      PROVE  Saved(d)'
  <2>1. reader[l] \in Users /\ AccountOf(l) \in Accounts
    BY <1>3, BusyJob, JobFields DEF TypeOK, PhaseOK, AccountOf
  <2>2. HomeOf(d) = AccountOf(l) => d \in listed[l]
    BY <1>3
  <2> QED BY <1>1, <1>3, <2>1, <2>2, UpsertKeeps
<1>4. ASSUME NEW e \in Droplets, NEW p \in Nat,
             rows' = [rows EXCEPT ![e].cred = "active", ![e].password = p]
      PROVE  Saved(d)'
  <2>1. CASE e # d
    BY <1>1, <1>4, <2>1, WriteKeeps DEF TypeOK
  <2>2. CASE e = d
    <3> DEFINE r == [rows[d] EXCEPT !.cred = "active", !.password = p]
    <3>1. r \in Row /\ r.cred # "none"
      BY <1>1 DEF Row
    <3>2. rows'[d] = r
      BY <1>1, <1>4, <2>2 DEF TypeOK
    <3> QED BY <1>1, <3>1, <3>2, WriteKeeps
  <2> QED BY <2>1, <2>2
<1>5. ASSUME NEW l \in Loops, MarkStale(l) PROVE Saved(d)'
  <2> DEFINE r == [rows[d] EXCEPT !.cred = "stale"]
  <2>1. r \in Row /\ r.cred # "none"
    BY <1>1 DEF Row
  <2>2. rows'[d] = rows[d] \/ rows'[d] = r
    BY <1>1, <1>5 DEF MarkStale
  <2> QED BY <1>1, <2>1, <2>2, WriteKeeps
<1>6. ASSUME NEW a \in Accounts, NEW u \in Users, Transfer(a, u) PROVE Saved(d)'
  <2> DEFINE r == [rows[d] EXCEPT !.user = u]
  <2>1. r \in Row /\ r.cred = rows[d].cred
    BY <1>1 DEF Row
  <2>2. rows'[d] = rows[d] \/ rows'[d] = r
    BY <1>1, <1>6 DEF Transfer
  <2> QED BY <1>1, <2>1, <2>2, WriteKeeps DEF Saved
<1>7. ASSUME NEW a \in Accounts, Unlink(a) PROVE Saved(d)'
  <2>1. HomeOf(d) # a
    BY <1>7 DEF Unlink, TypeOK
  <2>2. rows'[d] = rows[d]
    BY <1>1, <1>7, <2>1 DEF Unlink
  <2> QED BY <2>2 DEF Saved
<1>8. ASSUME NEW l \in Loops, Step(l) PROVE Saved(d)'
  <2>1. CASE SyncStore(l)
    BY <1>3, <2>1 DEF SyncStore, AfterSync, Synced, Goto, TypeOK
  <2>2. CASE SyncFails(l)
    BY <1>2, <1>3, <2>2 DEF SyncFails, AfterSync, Synced, Goto, TypeOK, rowVars
  <2>3. CASE SaveCredential(l)
    <3>1. PICK e \in todo[l] :
            \/ rows' = [rows EXCEPT ![e].cred = "active", ![e].password = 0]
            \/ UNCHANGED rows
      BY <2>3 DEF SaveCredential
    <3>2. e \in Droplets
      BY DEF TypeOK
    <3> QED BY <1>2, <1>4, <3>1, <3>2
  <2>4. CASE Waited(l)
    BY <1>2, <1>5, <2>4 DEF Waited
  <2>5. CASE LockUser(l) \/ LockUserFails(l) \/ SyncRead(l) \/ SyncList(l)
             \/ CheckQuota(l) \/ Request(l) \/ SavedAll(l)
    BY <1>2, <2>5
    DEF LockUser, LockUserFails, SyncRead, SyncList, CheckQuota, Request, SavedAll, rowVars
  <2>6. CASE DeleteOne(l) \/ ActOne(l) \/ WorkDone(l) \/ Report(l)
    BY <1>2, <2>6 DEF DeleteOne, ActOne, WorkDone, Report, Release, rowVars
  <2> QED BY <1>8, <2>1, <2>2, <2>3, <2>4, <2>5, <2>6 DEF Step
<1>9. ASSUME NEW l \in Loops, Crash(l) \/ \E j \in Requests : Take(l, j)
      PROVE  Saved(d)'
  BY <1>2, <1>9 DEF Crash, Release, Take, rowVars
<1>10. ASSUME NEW e \in Droplets, UpdateRootCredential(e) PROVE Saved(d)'
  <2>1. password[e] \in Nat
    BY DEF TypeOK
  <2> QED BY <1>4, <1>10, <2>1 DEF UpdateRootCredential
<1>11. ASSUME NEW e \in Droplets, ProviderActs(e) \/ ConsoleDestroy(e) PROVE Saved(d)'
  BY <1>2, <1>11 DEF ProviderActs, ConsoleDestroy, rowVars
<1> QED BY <1>6, <1>7, <1>8, <1>9, <1>10, <1>11 DEF Next

(* However many loops there are and whatever fails, crashes, is transferred *)
(* or destroyed meanwhile: a saved password of an existing droplet is lost *)
(* only to a sync whose listing was begun before the droplet was made, or  *)
(* between two pages of which another droplet of the account went.         *)
THEOREM SyncsKeepListed == Spec => SyncsSpare
<1>1. ASSUME IInv, ListingOK, Next, NEW d \in cloud, Lost(d)
      PROVE  \E l \in Loops : /\ pc[l] = "store" /\ pc'[l] # "store"
                             /\ AccountOf(l) = HomeOf(d) /\ d \notin kept[l]
  <2> SUFFICES ASSUME \A l \in Loops : pc[l] = "store" /\ pc'[l] # "store"
                                         /\ AccountOf(l) = HomeOf(d) => d \in kept[l]
               PROVE  FALSE
    OBVIOUS
  <2>1. \A l \in Loops : pc[l] = "store" => kept[l] \subseteq listed[l]
    BY <1>1 DEF ListingOK
  <2>2. Saved(d)'
    BY <1>1, <2>1, StepKeeps DEF Lost, Saved
  <2> QED BY <1>1, <2>2 DEF Lost, Saved
<1>2. IInv /\ ListingOK /\ [Next]_vars =>
        [\A d \in cloud :
           Lost(d) => \E l \in Loops : /\ pc[l] = "store" /\ pc'[l] # "store"
                                      /\ AccountOf(l) = HomeOf(d)
                                      /\ d \notin kept[l]]_vars
  BY <1>1
<1> QED BY Invariance, ListingsOK, <1>2, PTL DEF Spec, SyncsSpare

(* While one loop does all the work, for accounts of one page, a saved     *)
(* password outlives everything but its droplet and the account's link,    *)
(* whatever fails or crashes meanwhile.  (With two loops it does not: a    *)
(* listing may be older than the create job that finished beside it.)      *)
THEOREM CredentialsKept == ASSUME SingleLoop, OnePage PROVE Spec => CredentialKept
<1>1. Undivided
  BY DEF Undivided
<1>2. ASSUME IInv, ListingFresh, Next, NEW d \in cloud PROVE ~Lost(d)
  <2> SUFFICES ASSUME Lost(d) PROVE FALSE
    OBVIOUS
  <2>1. Saved(d)'
    BY <1>1, <1>2, StepKeeps DEF ListingFresh, CloudOf, Lost, Saved
  <2> QED BY <2>1 DEF Lost, Saved
<1>3. IInv /\ ListingFresh /\ [Next]_vars => [\A d \in cloud : ~Lost(d)]_vars
  BY <1>2
<1> QED BY Invariance, ListingsFresh, <1>3, PTL DEF Spec, CredentialKept

=============================================================================
