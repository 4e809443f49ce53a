---------------------------- MODULE AccountSync ----------------------------
(***************************************************************************)
(* One cloud account kept in step with the provider: syncAccount of the    *)
(* worker statement by statement and page by page, in several loops at the *)
(* same time (the scheduler never stops filing syncs, see JobQueue), while *)
(* its token is replaced, the account changes hands, droplets come and go  *)
(* and the provider withdraws tokens.                                      *)
(***************************************************************************)
EXTENDS Naturals, Sequences, Functions

CONSTANTS
  Loops,
  Droplets,
  Users,
  Tokens,        \* provider tokens
  TeamTokens,    \* those of the team the account was registered with
  FirstToken, FirstOwner, FirstCloud,   \* when the account was registered
  PageSize,
  NoRow, NoToken,
  MaxEvents      \* bound: everything but syncs and storing a checked token

ASSUME AccountAssumption ==
  /\ TeamTokens \subseteq Tokens /\ FirstToken \in TeamTokens /\ FirstOwner \in Users
  /\ FirstCloud \in Seq(Droplets) /\ IsInjective(FirstCloud)
  /\ PageSize \in Nat \ {0} /\ MaxEvents \in Nat
  /\ NoRow \notin Users /\ NoToken \notin Tokens

VARIABLES
  (* The provider.                                                         *)
  grant,      \* what each token may do
  cloud,      \* the team's droplets in the order of the listing
  (* The database.                                                         *)
  token, status, owner,   \* the cloud_accounts row
  rows,       \* the droplets rows: their user_id
  (* Processes.                                                            *)
  phase, reader, verdict, listed, page,   \* local variables of each loop
  checked,    \* the token replaceCloudAccountToken has tried, not stored
  (* History and bound.                                                    *)
  about,      \* the token the status was found with
  raced,      \* a token was replaced while a sync used the old one
  kept,       \* droplets a listing cannot miss
  events

provider == <<grant, cloud>>
account == <<token, status, owner, about>>
loop == <<phase, reader, verdict, listed, page, kept>>
vars == <<provider, account, rows, loop, checked, raced, events>>

Grants == {"full", "limited", "none"}
Statuses == {"unverified", "valid", "insufficient", "invalid"}
Phases == {"idle", "record", "list", "store"}

(* What accountClient has read.                                            *)
Reader == [token: Tokens, user: Users]

TypeOK ==
  /\ grant \in [Tokens -> Grants]
  /\ cloud \in Seq(Droplets) /\ IsInjective(cloud)
  /\ token \in TeamTokens /\ status \in Statuses /\ owner \in Users
  /\ rows \in [Droplets -> Users \cup {NoRow}]
  /\ phase \in [Loops -> Phases] /\ reader \in [Loops -> Reader]
  /\ verdict \in [Loops -> Statuses]
  /\ listed \in [Loops -> SUBSET Droplets] /\ page \in [Loops -> Nat]
  /\ checked \in TeamTokens \cup {NoToken}
  /\ about \in Tokens /\ raced \in BOOLEAN
  /\ kept \in [Loops -> SUBSET Droplets] /\ events \in 0..MaxEvents

NobodyReads == [token |-> FirstToken, user |-> FirstOwner]

(* The account as createCloudAccount has just saved it.                    *)
Init ==
  /\ grant = [t \in Tokens |-> "full"]
  /\ cloud = FirstCloud
  /\ token = FirstToken /\ status = "valid" /\ owner = FirstOwner
  /\ rows = [d \in Droplets |-> NoRow]
  /\ phase = [l \in Loops |-> "idle"] /\ reader = [l \in Loops |-> NobodyReads]
  /\ verdict = [l \in Loops |-> "unverified"]
  /\ listed = [l \in Loops |-> {}] /\ page = [l \in Loops |-> 0]
  /\ checked = NoToken
  /\ about = FirstToken /\ raced = FALSE
  /\ kept = [l \in Loops |-> {}] /\ events = 0

Event == events < MaxEvents /\ events' = events + 1

-----------------------------------------------------------------------------
(* syncAccount.                                                            *)

(* The end of a sync; its local variables are gone.                        *)
Leave(l) ==
  /\ phase' = [phase EXCEPT ![l] = "idle"]
  /\ reader' = [reader EXCEPT ![l] = NobodyReads]
  /\ verdict' = [verdict EXCEPT ![l] = "unverified"]
  /\ listed' = [listed EXCEPT ![l] = {}] /\ page' = [page EXCEPT ![l] = 0]
  /\ kept' = [kept EXCEPT ![l] = {}]

(* How syncAccount takes the answer to client.Account: 403 is insufficient *)
(* and every other error, an outage included, invalid.                     *)
VerdictOf(g) ==
  CASE g = "full" -> "valid" [] g = "limited" -> "insufficient" [] g = "none" -> "invalid"

(* accountClient and the call.  Between the two nothing tells an old token *)
(* from one that is replaced a moment later.                               *)
Ask(l) ==
  /\ phase[l] = "idle"
  /\ phase' = [phase EXCEPT ![l] = "record"]
  /\ reader' = [reader EXCEPT ![l] = [token |-> token, user |-> owner]]
  /\ \/ verdict' = [verdict EXCEPT ![l] = VerdictOf(grant[token])] /\ UNCHANGED events
     \/ verdict' = [verdict EXCEPT ![l] = "invalid"] /\ Event
  /\ UNCHANGED <<provider, account, rows, listed, page, kept, checked, raced>>

(* Mutant: the columns are written, the status is forgotten.               *)
SetStatusOnError(l) ==
  /\ status' = IF verdict[l] = "valid" THEN status ELSE verdict[l]
  /\ about' = reader[l].token

(* store.UpdateAccountValidation and MarkAccountValidationError.           *)
SetStatus(l) ==
  /\ status' = verdict[l]
  /\ about' = reader[l].token

(* A statement that fails ends the sync, too.                              *)
Record(l) ==
  /\ phase[l] = "record"
  /\ \/ /\ SetStatus(l) /\ verdict[l] = "valid"
        /\ phase' = [phase EXCEPT ![l] = "list"]
        /\ page' = [page EXCEPT ![l] = 1]
        /\ kept' = [kept EXCEPT ![l] = Range(cloud)]
        /\ UNCHANGED <<reader, verdict, listed, events>>
     \/ SetStatus(l) /\ verdict[l] # "valid" /\ Leave(l) /\ UNCHANGED events
     \/ UNCHANGED <<status, about>> /\ Leave(l) /\ Event
  /\ UNCHANGED <<provider, token, owner, rows, checked, raced>>

(* The droplets of the token's team.                                       *)
Listing(t) == IF t \in TeamTokens THEN cloud ELSE << >>

Answer(t, n) ==
  LET all == Listing(t)
      from == (n - 1) * PageSize + 1
  IN [droplets |-> {all[i] : i \in {j \in DOMAIN all : j >= from /\ j < from + PageSize}},
      more |-> Len(all) >= from + PageSize]

(* Mutant: what has been read so far is used.                              *)
GiveUpWithPart(l) ==
  /\ phase' = [phase EXCEPT ![l] = "store"]
  /\ UNCHANGED <<reader, verdict, listed, page, kept>>

(* ListDroplets returns no droplets along with its error.                  *)
GiveUp(l) == Leave(l)

(* One page: its droplets, and the link that says whether one follows.     *)
ListDroplets(l) ==
  LET answer == Answer(reader[l].token, page[l])
  IN /\ phase[l] = "list"
     /\ \/ /\ grant[reader[l].token] = "full"
           /\ listed' = [listed EXCEPT ![l] = @ \cup answer.droplets]
           /\ IF answer.more
              THEN page' = [page EXCEPT ![l] = @ + 1] /\ UNCHANGED phase
              ELSE phase' = [phase EXCEPT ![l] = "store"] /\ UNCHANGED page
           /\ UNCHANGED <<reader, verdict, kept, events>>
        \/ grant[reader[l].token] # "full" /\ GiveUp(l) /\ UNCHANGED events
        \/ GiveUp(l) /\ Event
     /\ UNCHANGED <<provider, account, rows, checked, raced>>

(* Mutant: rows that are there are left as they are.                       *)
UpsertKeepingUser(l) ==
  rows' = [d \in Droplets |->
    IF d \notin listed[l] THEN NoRow
    ELSE IF rows[d] = NoRow THEN reader[l].user ELSE rows[d]]

(* store.UpsertDroplets, one transaction: user_id comes from the account   *)
(* as it was read, and every other row of the account goes.                *)
UpsertDroplets(l) ==
  rows' = [d \in Droplets |-> IF d \in listed[l] THEN reader[l].user ELSE NoRow]

Store(l) ==
  /\ phase[l] = "store"
  /\ \/ UpsertDroplets(l) /\ UNCHANGED events
     \/ UNCHANGED rows /\ Event
  /\ Leave(l)
  /\ UNCHANGED <<provider, account, checked, raced>>

-----------------------------------------------------------------------------
(* Handlers.                                                               *)

(* Mutant: the team is not compared.                                       *)
AnyTeam(t) == TRUE

(* provider_account_mismatch.                                              *)
SameTeam(t) == t \in TeamTokens

(* replaceCloudAccountToken up to the comparison of the teams.             *)
CheckToken(t) ==
  /\ checked = NoToken /\ t # token /\ grant[t] = "full" /\ SameTeam(t)
  /\ checked' = t /\ Event
  /\ UNCHANGED <<provider, account, rows, loop, raced>>

(* Mutant: the old verdict stays.                                          *)
ReplaceKeepingStatus == token' = checked /\ UNCHANGED status

(* store.ReplaceAccountToken.                                              *)
ReplaceAccountToken == token' = checked /\ status' = "unverified"

ReplaceToken ==
  /\ checked # NoToken
  /\ ReplaceAccountToken /\ checked' = NoToken
  /\ raced' = (raced \/ \E l \in Loops : phase[l] = "record")
  /\ UNCHANGED <<provider, owner, about, rows, loop, events>>

(* adminTransferAccount: store.TransferCloudAccount, one transaction.      *)
Transfer(u) ==
  /\ u # owner /\ owner' = u /\ Event
  /\ rows' = [d \in Droplets |-> IF rows[d] = NoRow THEN NoRow ELSE u]
  /\ UNCHANGED <<provider, token, status, about, loop, checked, raced>>

-----------------------------------------------------------------------------
(* The provider.                                                           *)

(* A token is withdrawn or loses a permission.                             *)
Withdraw(t, g) ==
  /\ grant[t] = "full" /\ g # "full"
  /\ grant' = [grant EXCEPT ![t] = g] /\ Event
  /\ UNCHANGED <<cloud, account, rows, loop, checked, raced>>

(* Droplets come at either end of the listing.                             *)
Appear(d) ==
  /\ d \notin Range(cloud) /\ rows[d] = NoRow
  /\ \A l \in Loops : d \notin listed[l]
  /\ cloud' \in {<<d>> \o cloud, Append(cloud, d)} /\ Event
  /\ UNCHANGED <<grant, account, rows, loop, checked, raced>>

(* ... and go anywhere; those behind move up.                              *)
Disappear(d) ==
  /\ \E i \in DOMAIN cloud :
       cloud[i] = d /\ cloud' = SubSeq(cloud, 1, i - 1) \o SubSeq(cloud, i + 1, Len(cloud))
  /\ Event
  /\ kept' = [l \in Loops |-> IF phase[l] = "list" THEN {} ELSE kept[l] \ {d}]
  /\ UNCHANGED <<grant, account, rows, phase, reader, verdict, listed, page, checked, raced>>

Sync(l) == Ask(l) \/ Record(l) \/ ListDroplets(l) \/ Store(l)

Next ==
  \/ \E l \in Loops : Sync(l)
  \/ \E t \in Tokens : CheckToken(t) \/ \E g \in Grants : Withdraw(t, g)
  \/ ReplaceToken
  \/ \E u \in Users : Transfer(u)
  \/ \E d \in Droplets : Appear(d) \/ Disappear(d)

(* The scheduler files a sync whenever the last one is too long ago and    *)
(* the loops carry it out.                                                 *)
Fairness == \A l \in Loops : WF_vars(Sync(l))

Spec == Init /\ [][Next]_vars /\ Fairness

-----------------------------------------------------------------------------
(* Properties.                                                             *)

(* A verdict that is shown is about the token that is stored, unless a     *)
(* sync was waiting for the provider with the old one when it was replaced *)
(* (ReplaceAccountToken, syncAccount).                                     *)
VerdictIsAboutToken == ~raced /\ status # "unverified" => about = token

(* No sync drops the row, and with it the saved password, of a droplet     *)
(* that existed from the start of its listing, whichever pages or          *)
(* statements fail, unless another droplet was destroyed between two of    *)
(* its pages (ListDroplets, UpsertDroplets).                               *)
RowsSurvive ==
  [][\A l \in Loops, d \in Droplets :
       phase[l] = "store" /\ phase'[l] = "idle" /\ d \in kept[l] /\ rows[d] # NoRow
       => rows'[d] # NoRow]_vars

(* When the provider and the administrators have settled, the status tells *)
(* what the stored token is worth, whichever syncs crossed each other      *)
(* before: the next one corrects it.                                       *)
StatusConverges == <>[](status = VerdictOf(grant[token]))

(* ... and as long as the token works, the rows are the team's droplets    *)
(* and belong to the account's owner, in spite of pages that moved, of     *)
(* listings that were overtaken and of the owner a sync had read before a  *)
(* transfer.                                                               *)
Mirrored == \A d \in Droplets : rows[d] = IF d \in Range(cloud) THEN owner ELSE NoRow

RowsConverge == <>[](grant[token] = "full" => Mirrored)
=============================================================================
