----------------------------- MODULE Inventory -----------------------------
(***************************************************************************)
(* The droplets at DigitalOcean, the local rows that mirror them and the   *)
(* root passwords kept with those rows, while job loops carry out sync,    *)
(* create, delete and action jobs step by step (internal/worker/worker.go, *)
(* internal/store/store.go) and the API transfers and unlinks accounts and *)
(* updates passwords (internal/httpapi).                                   *)
(*                                                                         *)
(* One action is one provider call, one database statement or transaction. *)
(* How jobs are queued is the business of JobQueue: a loop may take any    *)
(* request that could have been filed.  The three quotas count alike, so   *)
(* one is modelled; projects, regions, sizes and names change nothing here *)
(* and a failing project assignment counts as a failing wait.  A listing   *)
(* is read page by page, as in AccountSync.                                *)
(***************************************************************************)
EXTENDS Naturals, FiniteSets

CONSTANTS
  Users, Accounts, Loops,
  NoUser, NoJob, NoRow,
  Quota,          \* quota_droplets of every user
  Requests,       \* the jobs users, handlers and the scheduler may file
  PageSize,       \* droplets on a page of the provider's listing
  (* Bounds of the model.                                                  *)
  MaxDroplets,    \* droplets ever created in an account
  MaxJobs,        \* jobs carried out besides syncs
  MaxOutages,     \* provider or database calls that fail or whose answer is lost
  MaxCrashes,     \* loops that die with their process
  MaxTransfers, MaxUnlinks,
  MaxConsole      \* droplets destroyed in DigitalOcean's own console

Droplets == Accounts \X (1..MaxDroplets)     \* provider ids
HomeOf(d) == d[1]

(* The actions by what they do to the root password: password_reset and    *)
(* rebuild, restore, all others.                                           *)
ActionKinds == {"reset", "restore", "power"}

Job ==
  [kind: {"sync"}, account: Accounts]
    \cup [kind: {"create"}, account: Accounts, count: 1..MaxDroplets, managed: BOOLEAN]
    \cup [kind: ActionKinds \cup {"delete"}, account: Accounts, droplets: SUBSET Droplets]

BoundNames == {"jobs", "outages", "crashes", "transfers", "unlinks", "console"}
Bounds == [jobs |-> MaxJobs, outages |-> MaxOutages, crashes |-> MaxCrashes,
           transfers |-> MaxTransfers, unlinks |-> MaxUnlinks, console |-> MaxConsole]

ASSUME InventoryAssumption ==
  /\ NoUser \notin Users /\ NoJob \notin Job
  /\ IsFiniteSet(Accounts) /\ Requests \subseteq Job
  /\ Quota \in Nat /\ MaxDroplets \in Nat /\ PageSize \in Nat \ {0}
  /\ \A b \in BoundNames : Bounds[b] \in Nat

(* A droplets row with its managed_credentials row.                        *)
Row == [user: Users, cred: {"none", "active", "stale"}, password: Nat]

ASSUME NoRowAssumption == NoRow \notin Row

VARIABLES
  owner,      \* cloud_accounts.user_id; NoUser once unlinked
  cloud,      \* the droplets that exist at the provider
  born,       \* how many were ever created, per account
  password,   \* the version of each machine's root password
  resetting,  \* droplets with an unfinished action that changes it
  rows,       \* the local row of each droplet
  known,      \* droplets that have had a row, so that jobs name them
  pc, job,
  user,       \* account.UserID as the job read it
  reader,     \* account.UserID as the current sync read it
  listed,     \* the droplets on the pages the current sync has read
  pages,      \* ... and how many pages that are
  stage,      \* which sync of its job is running
  left,       \* create requests still to send
  todo,       \* droplets still to handle
  acting,     \* the droplet whose action is waited for, if any
  done,       \* droplets the job created or destroyed
  failed,     \* the job has recorded a failure
  (* History and bounds.                                                   *)
  stray,      \* droplets whose password changes with nobody to mark it
  kept,       \* droplets the listing of a sync cannot miss
  used

machineVars == <<cloud, born, password, resetting>>
cloudVars == <<cloud, born, password, resetting, stray>>
rowVars == <<rows, known>>
syncVars == <<reader, listed, pages, kept, stage>>
workVars == <<left, todo, acting, done, failed>>
vars == <<owner, cloudVars, rowVars, pc, job, user, syncVars, workVars, used>>

Phases == {"idle", "lock", "read", "list", "store", "quota", "request", "save",
           "work", "wait", "report"}

TypeOK ==
  /\ owner \in [Accounts -> Users \cup {NoUser}]
  /\ cloud \in SUBSET Droplets
  /\ born \in [Accounts -> 0..MaxDroplets]
  /\ password \in [Droplets -> Nat]
  /\ resetting \in SUBSET Droplets
  /\ rows \in [Droplets -> Row \cup {NoRow}]
  /\ known \in SUBSET Droplets
  /\ pc \in [Loops -> Phases]
  /\ job \in [Loops -> Job \cup {NoJob}]
  /\ user \in [Loops -> Users \cup {NoUser}]
  /\ reader \in [Loops -> Users \cup {NoUser}]
  /\ listed \in [Loops -> SUBSET Droplets] /\ pages \in [Loops -> Nat]
  /\ stage \in [Loops -> {"only", "before", "after"}]
  /\ left \in [Loops -> Nat]
  /\ todo \in [Loops -> SUBSET Droplets]
  /\ acting \in [Loops -> SUBSET Droplets]
  /\ done \in [Loops -> SUBSET Droplets]
  /\ failed \in [Loops -> BOOLEAN]
  /\ stray \in SUBSET Droplets /\ kept \in [Loops -> SUBSET Droplets]
  /\ used \in [BoundNames -> Nat]
  /\ \A d \in Droplets : rows[d] # NoRow => owner[HomeOf(d)] # NoUser
  /\ \A l \in Loops : pc[l] # "idle" => job[l] # NoJob

Init ==
  /\ owner \in [Accounts -> Users]
  /\ cloud = {} /\ resetting = {} /\ known = {} /\ stray = {}
  /\ born = [a \in Accounts |-> 0]
  /\ password = [d \in Droplets |-> 0]
  /\ rows = [d \in Droplets |-> NoRow]
  /\ pc = [l \in Loops |-> "idle"]
  /\ job = [l \in Loops |-> NoJob]
  /\ user = [l \in Loops |-> NoUser]
  /\ reader = [l \in Loops |-> NoUser]
  /\ listed = [l \in Loops |-> {}] /\ kept = [l \in Loops |-> {}]
  /\ pages = [l \in Loops |-> 0]
  /\ stage = [l \in Loops |-> "only"]
  /\ left = [l \in Loops |-> 0]
  /\ todo = [l \in Loops |-> {}]
  /\ acting = [l \in Loops |-> {}]
  /\ done = [l \in Loops |-> {}]
  /\ failed = [l \in Loops |-> FALSE]
  /\ used = [b \in BoundNames |-> 0]

-----------------------------------------------------------------------------
(* Helpers.                                                                *)

Spend(b) == /\ used[b] < Bounds[b]
            /\ used' = [used EXCEPT ![b] = @ + 1]

Goto(l, p) == pc' = [pc EXCEPT ![l] = p]
Fail(l) == failed' = [failed EXCEPT ![l] = TRUE]

(* A step on which something may go wrong without ending the job.          *)
PerhapsFail(l) == \/ UNCHANGED <<failed, used>>
                  \/ Fail(l) /\ Spend("outages")

AccountOf(l) == job[l].account
RowsOf(a) == {d \in Droplets : HomeOf(d) = a /\ rows[d] # NoRow}
CloudOf(a) == {d \in cloud : HomeOf(d) = a}

(* The next n droplets of account a.                                       *)
Newborn(a, n) == {<<a, born[a] + i>> : i \in 1..n}

(* A droplet leaves the provider.  Behind it, the droplets of its account  *)
(* move up in the listing.                                                 *)
Vanish(d) ==
  /\ cloud' = cloud \ {d}
  /\ resetting' = resetting \ {d}
  /\ stray' = stray \ {d}
  /\ kept' = [l \in Loops |-> IF pc[l] = "list" /\ AccountOf(l) = HomeOf(d) THEN {}
                              ELSE kept[l] \ {d}]

(* The loop is between lockUser and unlock.                                *)
HoldsLock(l) == /\ pc[l] \notin {"idle", "lock", "report"}
                /\ job[l].kind = "create"

FreshWork(l) ==
  /\ left' = [left EXCEPT ![l] = 0]
  /\ todo' = [todo EXCEPT ![l] = {}]
  /\ acting' = [acting EXCEPT ![l] = {}]
  /\ done' = [done EXCEPT ![l] = {}]
  /\ failed' = [failed EXCEPT ![l] = FALSE]

(* What UpdateJob writes: see the ends of the four handlers.               *)
Outcome(l) ==
  IF ~failed[l] THEN "succeeded"
  ELSE IF job[l].kind \in ActionKinds \/ done[l] # {} THEN "partial"
  ELSE "failed"

-----------------------------------------------------------------------------
(* A loop takes a job and reads its account (accountClient).  The droplets *)
(* named had rows when the request was checked, and the queued job is gone *)
(* if its account is.                                                      *)
Take(l, j) ==
  /\ pc[l] = "idle"
  /\ owner[j.account] # NoUser
  /\ job' = [job EXCEPT ![l] = j]
  /\ user' = [user EXCEPT ![l] = owner[j.account]]
  /\ reader' = [reader EXCEPT ![l] = owner[j.account]]
  /\ \/ /\ j.kind = "sync"
        /\ Goto(l, "list")
        /\ stage' = [stage EXCEPT ![l] = "only"]
        /\ UNCHANGED <<workVars, used>>
     \/ /\ j.kind = "create"
        /\ Goto(l, "lock")
        /\ stage' = [stage EXCEPT ![l] = "before"]
        /\ left' = [left EXCEPT ![l] = j.count]
        /\ Spend("jobs")
        /\ UNCHANGED <<todo, acting, done, failed>>
     \/ /\ j.kind \in ActionKinds \cup {"delete"}
        /\ j.droplets \subseteq known
        /\ Goto(l, "work")
        /\ stage' = [stage EXCEPT ![l] = "after"]
        /\ todo' = [todo EXCEPT ![l] = j.droplets]
        /\ Spend("jobs")
        /\ UNCHANGED <<left, acting, done, failed>>
  /\ UNCHANGED <<owner, cloudVars, rowVars, listed, pages, kept>>

(* Mutant: no lock is taken.                                               *)
LockUserNone(l) ==
  /\ pc[l] = "lock"
  /\ Goto(l, "read")
  /\ UNCHANGED <<owner, cloudVars, rowVars, job, user, syncVars, workVars, used>>

(* lockUser: one create job of a user at a time.                           *)
LockUser(l) ==
  /\ pc[l] = "lock"
  /\ \A m \in Loops : HoldsLock(m) => user[m] # user[l]
  /\ Goto(l, "read")
  /\ UNCHANGED <<owner, cloudVars, rowVars, job, user, syncVars, workVars, used>>

LockUserFails(l) ==
  /\ pc[l] = "lock"
  /\ Fail(l) /\ Goto(l, "report") /\ Spend("outages")
  /\ UNCHANGED <<owner, cloudVars, rowVars, job, user, syncVars, left, todo, acting, done>>

-----------------------------------------------------------------------------
(* worker.syncAccount.                                                     *)

(* GetCloudAccount.                                                        *)
SyncRead(l) ==
  /\ pc[l] = "read" /\ owner[AccountOf(l)] # NoUser
  /\ reader' = [reader EXCEPT ![l] = owner[AccountOf(l)]]
  /\ Goto(l, "list")
  /\ UNCHANGED <<owner, cloudVars, rowVars, job, user, listed, pages, kept, stage,
                 workVars, used>>

(* The listing of an account, newest first, and its page after the first n *)
(* pages.                                                                  *)
Place(d) == Cardinality({e \in CloudOf(HomeOf(d)) : e[2] >= d[2]})

PageAfter(a, n) ==
  {d \in CloudOf(a) : Place(d) > n * PageSize /\ Place(d) <= (n + 1) * PageSize}

(* Mutant: no link to another page is followed.                            *)
SyncListFirstPage(l) ==
  LET a == AccountOf(l)
      n == pages[l]
  IN /\ pc[l] = "list"
     /\ listed' = [listed EXCEPT ![l] = @ \cup PageAfter(a, n)]
     /\ pages' = [pages EXCEPT ![l] = n + 1]
     /\ kept' = IF n = 0 THEN [kept EXCEPT ![l] = CloudOf(a)] ELSE kept
     /\ Goto(l, "store")
     /\ UNCHANGED <<owner, cloudVars, rowVars, job, user, reader, stage, workVars, used>>

(* One page of ListDroplets, until no link to another follows; the first   *)
(* after Account, Balance and UpdateAccountValidation.                     *)
SyncList(l) ==
  LET a == AccountOf(l)
      n == pages[l]
  IN /\ pc[l] = "list"
     /\ listed' = [listed EXCEPT ![l] = @ \cup PageAfter(a, n)]
     /\ pages' = [pages EXCEPT ![l] = n + 1]
     /\ kept' = IF n = 0 THEN [kept EXCEPT ![l] = CloudOf(a)] ELSE kept
     /\ IF Cardinality(CloudOf(a)) <= (n + 1) * PageSize THEN Goto(l, "store")
        ELSE UNCHANGED pc
     /\ UNCHANGED <<owner, cloudVars, rowVars, job, user, reader, stage, workVars, used>>

(* Where a job goes on after its sync.                                     *)
Synced(l) ==
  IF stage[l] = "before" THEN "quota"
  ELSE IF stage[l] = "after" /\ job[l].kind = "create" THEN "save"
  ELSE "report"

NewRow(u) == [user |-> u, cred |-> "none", password |-> 0]

(* Mutants: rows are written anew, or kept when their droplet is gone.     *)
UpsertReplacing(a, ds, u) ==
  rows' = [d \in Droplets |-> IF HomeOf(d) # a THEN rows[d]
                              ELSE IF d \in ds THEN NewRow(u) ELSE NoRow]

UpsertOnly(a, ds, u) ==
  rows' = [d \in Droplets |-> IF d \notin ds THEN rows[d]
                              ELSE IF rows[d] = NoRow THEN NewRow(u)
                              ELSE [rows[d] EXCEPT !.user = u]]

(* store.UpsertDroplets: rows are inserted or updated, with the user the   *)
(* sync read, and rows not listed are deleted with their credential.       *)
UpsertDroplets(a, ds, u) ==
  rows' = [d \in Droplets |-> IF HomeOf(d) # a THEN rows[d]
                              ELSE IF d \notin ds THEN NoRow
                              ELSE IF rows[d] = NoRow THEN NewRow(u)
                              ELSE [rows[d] EXCEPT !.user = u]]

(* The passwords of the droplets made are saved after the second sync.     *)
AfterSync(l, p) ==
  /\ listed' = [listed EXCEPT ![l] = {}] /\ kept' = [kept EXCEPT ![l] = {}]
  /\ pages' = [pages EXCEPT ![l] = 0]
  /\ todo' = [todo EXCEPT ![l] = IF p = "save" /\ job[l].managed THEN done[l] ELSE {}]
  /\ Goto(l, p)

(* ... and MarkAccountSynced.                                              *)
SyncStore(l) ==
  /\ pc[l] = "store" /\ owner[AccountOf(l)] # NoUser
  /\ UpsertDroplets(AccountOf(l), listed[l], reader[l])
  /\ known' = known \cup listed[l]
  /\ AfterSync(l, Synced(l))
  /\ UNCHANGED <<owner, cloudVars, job, user, reader, stage, left, acting, done, failed, used>>

(* A sync ends early: the account is gone, or a call failed, the last of    *)
(* them (MarkAccountSynced) after the rows were stored.  Delete jobs ignore *)
(* it, a create job goes on only if it has created already.                *)
SyncFails(l) ==
  /\ pc[l] \in {"read", "list", "store"}
  /\ \/ owner[AccountOf(l)] = NoUser /\ UNCHANGED <<rowVars, used>>
     \/ Spend("outages") /\ UNCHANGED rowVars
     \/ /\ pc[l] = "store" /\ owner[AccountOf(l)] # NoUser
        /\ Spend("outages")
        /\ UpsertDroplets(AccountOf(l), listed[l], reader[l])
        /\ known' = known \cup listed[l]
  /\ IF job[l].kind = "delete" THEN UNCHANGED failed ELSE Fail(l)
  /\ AfterSync(l, IF stage[l] = "before" THEN "report" ELSE Synced(l))
  /\ UNCHANGED <<owner, cloudVars, job, user, reader, stage, left, acting, done>>

-----------------------------------------------------------------------------
(* worker.createDroplets after its first sync.                             *)

Usage(u) == Cardinality({d \in Droplets : rows[d] # NoRow /\ rows[d].user = u})

(* Mutant: the droplets asked for are not counted.                         *)
WithinQuotaBefore(l) == Usage(user[l]) <= Quota

WithinQuota(l) == Usage(user[l]) + job[l].count <= Quota

(* checkQuota.                                                             *)
CheckQuota(l) ==
  /\ pc[l] = "quota"
  /\ \/ /\ WithinQuota(l)
        /\ Goto(l, "request")
        /\ UNCHANGED <<failed, used>>
     \/ /\ Fail(l) /\ Goto(l, "report")
        /\ IF WithinQuota(l) THEN Spend("outages") ELSE UNCHANGED used
  /\ UNCHANGED <<owner, cloudVars, rowVars, job, user, syncVars, left, todo, acting, done>>

(* createOne: one request for every name with managed passwords, one for   *)
(* all names with SSH keys, and the wait for its actions.  The account may *)
(* be full, the request be refused, or the droplets made and the answer    *)
(* lost.                                                                   *)
Request(l) ==
  LET a == AccountOf(l)
      n == IF job[l].managed THEN 1 ELSE job[l].count
      new == Newborn(a, n)
      Made == /\ new \subseteq Droplets
              /\ cloud' = cloud \cup new
              /\ born' = [born EXCEPT ![a] = @ + n]
      Refused == UNCHANGED <<cloud, born>>
  IN /\ pc[l] = "request"
     /\ \/ /\ Made
           /\ done' = [done EXCEPT ![l] = @ \cup new]
           /\ PerhapsFail(l)
        \/ /\ Made \/ Refused
           /\ Fail(l) /\ Spend("outages")
           /\ UNCHANGED done
        \/ /\ Refused /\ ~(new \subseteq Droplets)
           /\ Fail(l)
           /\ UNCHANGED <<done, used>>
     /\ left' = [left EXCEPT ![l] = @ - n]
     /\ IF left[l] > n
        THEN UNCHANGED <<pc, stage>>
        ELSE Goto(l, "read") /\ stage' = [stage EXCEPT ![l] = "after"]
     /\ UNCHANGED <<owner, password, resetting, stray, rowVars, job, user,
                    reader, listed, pages, kept, todo, acting>>

(* Mutant: a password that could not be saved is no failure.               *)
SaveCredentialQuietly(l) ==
  /\ pc[l] = "save"
  /\ \E d \in todo[l] :
       /\ todo' = [todo EXCEPT ![l] = @ \ {d}]
       /\ \/ /\ rows[d] # NoRow
             /\ rows' = [rows EXCEPT ![d].cred = "active", ![d].password = 0]
             /\ UNCHANGED used
          \/ /\ UNCHANGED rows
             /\ IF rows[d] # NoRow THEN Spend("outages") ELSE UNCHANGED used
  /\ UNCHANGED <<owner, cloudVars, known, pc, job, user, syncVars, left, acting, done, failed>>

(* GetDropletByProviderID and UpsertRootCredential with the password       *)
(* generated for the machine: version 0.                                   *)
SaveCredential(l) ==
  /\ pc[l] = "save"
  /\ \E d \in todo[l] :
       /\ todo' = [todo EXCEPT ![l] = @ \ {d}]
       /\ \/ /\ rows[d] # NoRow
             /\ rows' = [rows EXCEPT ![d].cred = "active", ![d].password = 0]
             /\ UNCHANGED <<failed, used>>
          \/ /\ Fail(l) /\ UNCHANGED rows
             /\ IF rows[d] # NoRow THEN Spend("outages") ELSE UNCHANGED used
  /\ UNCHANGED <<owner, cloudVars, known, pc, job, user, syncVars, left, acting, done>>

SavedAll(l) ==
  /\ pc[l] = "save" /\ todo[l] = {}
  /\ Goto(l, "report")
  /\ UNCHANGED <<owner, cloudVars, rowVars, job, user, syncVars, workVars, used>>

-----------------------------------------------------------------------------
(* worker.deleteDroplets and worker.dropletAction before their sync.       *)

(* DeleteDroplet: done, refused, its answer lost, or the droplet unknown.  *)
DeleteOne(l) ==
  /\ pc[l] = "work" /\ job[l].kind = "delete"
  /\ \E d \in todo[l] :
       /\ todo' = [todo EXCEPT ![l] = @ \ {d}]
       /\ \/ /\ d \in cloud /\ Vanish(d)
             /\ \/ /\ done' = [done EXCEPT ![l] = @ \cup {d}]
                   /\ UNCHANGED <<failed, used>>
                \/ Fail(l) /\ Spend("outages") /\ UNCHANGED done
          \/ /\ Fail(l) /\ UNCHANGED <<cloud, resetting, stray, kept, done>>
             /\ IF d \in cloud THEN Spend("outages") ELSE UNCHANGED used
  /\ UNCHANGED <<owner, born, password, rowVars, pc, job, user, reader, listed, pages,
                 stage, left, acting>>

(* DropletAction: accepted, refused because the droplet is gone or locked  *)
(* by an action, or failed, perhaps after the provider accepted it.  The   *)
(* machine gets another root password from a reset, a rebuild and, with    *)
(* the disk of the image, a restore, which nobody is going to mark.        *)
ActOne(l) ==
  LET Accepted(d) == /\ d \in cloud \ resetting
                     /\ resetting' = IF job[l].kind = "power" THEN resetting
                                     ELSE resetting \cup {d}
  IN /\ pc[l] = "work" /\ job[l].kind \in ActionKinds
     /\ \E d \in todo[l] :
          /\ todo' = [todo EXCEPT ![l] = @ \ {d}]
          /\ \/ /\ Accepted(d)
                /\ acting' = [acting EXCEPT ![l] = {d}]
                /\ stray' = IF job[l].kind = "restore" THEN stray \cup {d} ELSE stray
                /\ Goto(l, "wait")
                /\ UNCHANGED <<failed, used>>
             \/ /\ Accepted(d)
                /\ stray' = stray \cup (resetting' \ resetting)
                /\ Fail(l) /\ Spend("outages")
                /\ UNCHANGED <<acting, pc>>
             \/ /\ Fail(l)
                /\ IF d \in cloud \ resetting THEN Spend("outages") ELSE UNCHANGED used
                /\ UNCHANGED <<acting, pc, resetting, stray>>
     /\ UNCHANGED <<owner, cloud, born, password, rowVars, job, user, syncVars, left, done>>

(* The loop waits for an action after which it marks the saved password.   *)
Resets(l, d) == pc[l] = "wait" /\ d \in acting[l] /\ job[l].kind = "reset"

(* The provider carries out the action, or lets it fail.                   *)
ProviderActs(d) ==
  /\ d \in resetting
  /\ resetting' = resetting \ {d}
  /\ \/ /\ password' = [password EXCEPT ![d] = @ + 1]
        /\ UNCHANGED <<failed, used>>
     \/ /\ failed' = [l \in Loops |-> failed[l] \/ d \in acting[l]]
        /\ UNCHANGED password /\ Spend("outages")
  /\ UNCHANGED <<owner, cloud, born, stray, rowVars, pc, job, user, syncVars,
                 left, todo, acting, done>>

(* MarkRootCredentialStale, for a reset or a rebuild but not for a restore. *)
MarkStale(l) ==
  rows' = [d \in Droplets |->
             IF Resets(l, d) /\ rows[d] # NoRow /\ rows[d].cred # "none"
             THEN [rows[d] EXCEPT !.cred = "stale"] ELSE rows[d]]

(* The droplets whose password nobody marks once loop l has gone on.       *)
Unmarked(l) == {d \in Droplets : Resets(l, d)}

(* Mutant: an action that was not seen to end marks nothing.               *)
WaitedOrGaveUp(l) ==
  /\ pc[l] = "wait"
  /\ \/ /\ acting[l] \cap resetting = {}
        /\ UNCHANGED failed
        /\ \/ MarkStale(l) /\ UNCHANGED <<stray, used>>
           \/ stray' = stray \cup Unmarked(l) /\ UNCHANGED rows /\ Spend("outages")
     \/ Fail(l) /\ Spend("outages") /\ UNCHANGED <<rows, stray>>
  /\ acting' = [acting EXCEPT ![l] = {}]
  /\ Goto(l, "work")
  /\ UNCHANGED <<owner, machineVars, known, job, user, syncVars, left, todo, done>>

(* WaitDropletAction ends with the action or gives up: one failing poll is *)
(* enough, and so is its deadline.  The mark is made in either case, and   *)
(* if it fails, nobody is told.                                            *)
Waited(l) ==
  /\ pc[l] = "wait"
  /\ \/ /\ acting[l] \cap resetting = {}
        /\ UNCHANGED failed
        /\ \/ MarkStale(l) /\ UNCHANGED <<stray, used>>
           \/ stray' = stray \cup Unmarked(l) /\ UNCHANGED rows /\ Spend("outages")
     \/ Fail(l) /\ Spend("outages") /\ MarkStale(l) /\ UNCHANGED stray
  /\ acting' = [acting EXCEPT ![l] = {}]
  /\ Goto(l, "work")
  /\ UNCHANGED <<owner, machineVars, known, job, user, syncVars, left, todo, done>>

WorkDone(l) ==
  /\ pc[l] = "work" /\ todo[l] = {}
  /\ Goto(l, "read")
  /\ UNCHANGED <<owner, cloudVars, rowVars, job, user, syncVars, workVars, used>>

-----------------------------------------------------------------------------
(* UpdateJob, or the end of the process.                                   *)

Release(l) ==
  /\ Goto(l, "idle")
  /\ job' = [job EXCEPT ![l] = NoJob]
  /\ user' = [user EXCEPT ![l] = NoUser]
  /\ reader' = [reader EXCEPT ![l] = NoUser]
  /\ listed' = [listed EXCEPT ![l] = {}] /\ kept' = [kept EXCEPT ![l] = {}]
  /\ pages' = [pages EXCEPT ![l] = 0]
  /\ stage' = [stage EXCEPT ![l] = "only"]
  /\ FreshWork(l)
  /\ UNCHANGED <<owner, machineVars, rowVars>>

Report(l) == pc[l] = "report" /\ Release(l) /\ UNCHANGED <<stray, used>>

Crash(l) ==
  /\ pc[l] # "idle" /\ Release(l)
  /\ stray' = stray \cup Unmarked(l)
  /\ Spend("crashes")

-----------------------------------------------------------------------------
(* The API and the provider's console.                                     *)

(* TransferCloudAccount.                                                   *)
Transfer(a, u) ==
  /\ owner[a] \notin {u, NoUser}
  /\ owner' = [owner EXCEPT ![a] = u]
  /\ rows' = [d \in Droplets |-> IF d \in RowsOf(a) THEN [rows[d] EXCEPT !.user = u]
                                 ELSE rows[d]]
  /\ Spend("transfers")
  /\ UNCHANGED <<cloudVars, known, pc, job, user, syncVars, workVars>>

(* Mutant: the rows of the account stay.                                   *)
UnlinkKeepingRows(a) ==
  /\ owner[a] # NoUser
  /\ owner' = [owner EXCEPT ![a] = NoUser]
  /\ Spend("unlinks")
  /\ UNCHANGED <<cloudVars, rowVars, pc, job, user, syncVars, workVars>>

(* DeleteCloudAccount; the droplets go on running.                         *)
Unlink(a) ==
  /\ owner[a] # NoUser
  /\ owner' = [owner EXCEPT ![a] = NoUser]
  /\ rows' = [d \in Droplets |-> IF HomeOf(d) = a THEN NoRow ELSE rows[d]]
  /\ Spend("unlinks")
  /\ UNCHANGED <<cloudVars, known, pc, job, user, syncVars, workVars>>

(* updateRootCredential with the password the machine has by now, which a  *)
(* change under way may take back.                                         *)
UpdateRootCredential(d) ==
  /\ rows[d] # NoRow
  /\ rows' = [rows EXCEPT ![d].cred = "active", ![d].password = password[d]]
  /\ stray' = IF d \in resetting /\ ~\E l \in Loops : Resets(l, d) THEN stray \cup {d}
              ELSE stray \ {d}
  /\ UNCHANGED <<owner, machineVars, known, pc, job, user, syncVars, workVars, used>>

(* A droplet is destroyed in DigitalOcean's own console.                   *)
ConsoleDestroy(d) ==
  /\ d \in cloud /\ Vanish(d)
  /\ Spend("console")
  /\ UNCHANGED <<owner, born, password, rowVars, pc, job, user, reader, listed, pages,
                 stage, workVars>>

-----------------------------------------------------------------------------
Step(l) ==
  \/ LockUser(l) \/ LockUserFails(l)
  \/ SyncRead(l) \/ SyncList(l) \/ SyncStore(l) \/ SyncFails(l)
  \/ CheckQuota(l) \/ Request(l) \/ SaveCredential(l) \/ SavedAll(l)
  \/ DeleteOne(l) \/ ActOne(l) \/ Waited(l) \/ WorkDone(l)
  \/ Report(l)

Next ==
  \/ \E l \in Loops : \/ \E j \in Requests : Take(l, j)
                      \/ Step(l)
                      \/ Crash(l)
  \/ \E d \in Droplets : ProviderActs(d) \/ UpdateRootCredential(d) \/ ConsoleDestroy(d)
  \/ \E a \in Accounts : (\E u \in Users : Transfer(a, u)) \/ Unlink(a)

Spec == Init /\ [][Next]_vars

(* Loops go on with their jobs, the provider ends what it accepted, and    *)
(* every account is synced again and again: what JobQueue's StaleIsSynced  *)
(* shows of the scheduler.                                                 *)
Fairness ==
  /\ \A l \in Loops : WF_vars(Step(l))
  /\ \A d \in Droplets : WF_vars(ProviderActs(d))
  /\ \A a \in Accounts : SF_vars(\E l \in Loops : Take(l, [kind |-> "sync", account |-> a]))

FairSpec == Spec /\ Fairness

-----------------------------------------------------------------------------
(* Properties.                                                             *)

(* As long as no account changes hands, no user's accounts hold more       *)
(* droplets at the provider than the user's quota, unless an answer was    *)
(* lost or a process died before the droplets it made were recorded        *)
(* (checkQuota, lockUser and the syncs around them).                       *)
QuotaHeld ==
  (used["outages"] = 0 /\ used["crashes"] = 0 /\ used["transfers"] = 0)
    => \A u \in Users :
         Cardinality({d \in cloud : owner[HomeOf(d)] = u}) <= Quota

(* The step deletes a saved password of an account that stays linked.      *)
Lost(d) ==
  /\ rows[d] # NoRow /\ rows[d].cred # "none"
  /\ owner'[HomeOf(d)] # NoUser
  /\ rows'[d] = NoRow \/ rows'[d].cred = "none"

(* A saved password outlives everything but its droplet and the account's  *)
(* link: no sync deletes it while the machine exists (UpsertDroplets).     *)
(* That takes listings of one page and no sync beside a create job.        *)
CredentialKept == [][\A d \in cloud : ~Lost(d)]_vars

(* However many loops there are and whatever fails, a saved password of an *)
(* existing droplet is lost only to a sync that stores a listing of the    *)
(* droplet's account begun before the droplet was made, or one between two *)
(* pages of which another droplet of the account was destroyed             *)
(* (ListDroplets, UpsertDroplets).                                         *)
SyncsSpare ==
  [][\A d \in cloud :
       Lost(d) => \E l \in Loops : /\ pc[l] = "store" /\ pc'[l] # "store"
                                  /\ AccountOf(l) = HomeOf(d)
                                  /\ d \notin kept[l]]_vars

(* A password that is shown as active opens the machine, or the reset that *)
(* changed it is about to mark it: also when the wait for the reset gave   *)
(* up.  Strays are excepted: the droplet was restored, the answer to the   *)
(* reset or the mark itself was lost, the process died before the mark, or *)
(* the password was entered while such a change was still under way        *)
(* (dropletAction, updateRootCredential, createDroplets).                  *)
ActiveIsCurrent ==
  \A d \in cloud \ stray :
    (rows[d] # NoRow /\ rows[d].cred = "active")
      => rows[d].password = password[d] \/ \E l \in Loops : Resets(l, d)

(* A job that reports success tells the truth, whatever failed on the way: *)
(* a create job made every droplet it was asked for and saved the password *)
(* of those that still exist in a linked account, a delete job left none   *)
(* of its droplets (results of createDroplets and deleteDroplets).         *)
SuccessIsTrue ==
  \A l \in Loops :
    (pc[l] = "report" /\ Outcome(l) = "succeeded") =>
      /\ job[l].kind = "create" =>
           /\ Cardinality(done[l]) = job[l].count
           /\ job[l].managed /\ owner[AccountOf(l)] # NoUser
                => \A d \in done[l] \cap cloud : rows[d] # NoRow /\ rows[d].cred # "none"
      /\ job[l].kind = "delete" => job[l].droplets \cap cloud = {}

(* The local rows of a linked account agree with the provider, droplet for *)
(* droplet and with the account's owner.                                   *)
Mirrored(a) ==
  /\ RowsOf(a) = CloudOf(a)
  /\ \A d \in RowsOf(a) : rows[d].user = owner[a]

(* Once users, administrators and the console leave an account alone, its  *)
(* rows come to mirror the provider and stay so, in spite of lost answers, *)
(* failed syncs, deleted droplets and transfers in the middle of a sync    *)
(* (syncAccount, UpsertDroplets).  A process that dies may leave a sync    *)
(* that keeps the scheduler from filing the next one, so none does.        *)
InventoryConverges ==
  \A a \in Accounts :
    <>[](used["crashes"] = 0 /\ owner[a] # NoUser => Mirrored(a))

=============================================================================
