------------------------- MODULE AccountSyncProofs -------------------------
(***************************************************************************)
(* Syncs of one account for any number of loops, droplets, tokens and      *)
(* owners, any page size and any course of events.                         *)
(***************************************************************************)
EXTENDS AccountSync, SequenceTheorems, TLAPS

(* Only tokens of the account's team are ever read from its row, and a     *)
(* loop that lists has come to some page.                                  *)
ReadersOK ==
  \A l \in Loops : reader[l].token \in TeamTokens /\ (phase[l] = "list" => page[l] > 0)

(* A droplet that the listing cannot miss has been read or is still ahead  *)
(* of it.                                                                  *)
Beyond(all, n) == {all[i] : i \in {j \in DOMAIN all : j > n * PageSize}}
Ahead(l) == Beyond(cloud, page[l] - 1)

KeptOK ==
  \A l \in Loops :
    /\ phase[l] = "list" => kept[l] \subseteq listed[l] \cup Ahead(l)
    /\ phase[l] = "store" => kept[l] \subseteq listed[l]

(* As long as no token was replaced under a sync, those that wait to write *)
(* their verdict have asked with the stored token.                         *)
VerdictsOK ==
  ~raced =>
    /\ status # "unverified" => about = token
    /\ \A l \in Loops : phase[l] = "record" => reader[l].token = token

(* The inductive invariant.                                                *)
Inv == TypeOK /\ ReadersOK /\ KeptOK /\ VerdictsOK

-----------------------------------------------------------------------------
(* The listing.                                                            *)

LEMMA TheRange ==
  ASSUME NEW s \in Seq(Droplets)
  PROVE  Range(s) = {s[i] : i \in DOMAIN s} /\ Range(s) \subseteq Droplets
BY DEF Range

LEMMA Prepended ==
  ASSUME NEW s \in Seq(Droplets), IsInjective(s), NEW d \in Droplets, d \notin Range(s)
  PROVE  LET t == <<d>> \o s
         IN /\ t \in Seq(Droplets) /\ IsInjective(t)
            /\ \A i \in DOMAIN s : i + 1 \in DOMAIN t /\ t[i + 1] = s[i]
<1> DEFINE t == <<d>> \o s
<1>1. /\ t \in Seq(Droplets) /\ Len(t) = Len(s) + 1 /\ t[1] = d
      /\ \A i \in 2..Len(t) : t[i] = s[i - 1]
  OBVIOUS
<1>2. \A i \in DOMAIN s : i + 1 \in DOMAIN t /\ t[i + 1] = s[i]
  BY <1>1
<1>3. ASSUME NEW i \in DOMAIN t, NEW j \in DOMAIN t, t[i] = t[j] PROVE i = j
  <2>1. \A k \in 2..Len(t) : k - 1 \in DOMAIN s /\ t[k] = s[k - 1] /\ t[k] # d
    BY <1>1 DEF Range
  <2>2. \A k, m \in DOMAIN s : s[k] = s[m] => k = m
    BY DEF IsInjective
  <2>3. i \in 1..Len(t) /\ j \in 1..Len(t)
    BY <1>1
  <2>4. CASE i = 1 \/ j = 1
    BY <1>1, <1>3, <2>1, <2>3, <2>4
  <2>5. CASE i # 1 /\ j # 1
    <3>1. i - 1 = j - 1
      BY <1>3, <2>1, <2>2, <2>3, <2>5
    <3> QED BY <2>3, <3>1
  <2> QED BY <2>4, <2>5
<1> QED BY <1>1, <1>2, <1>3 DEF IsInjective

LEMMA Appended ==
  ASSUME NEW s \in Seq(Droplets), IsInjective(s), NEW d \in Droplets, d \notin Range(s)
  PROVE  LET t == Append(s, d)
         IN /\ t \in Seq(Droplets) /\ IsInjective(t)
            /\ \A i \in DOMAIN s : i \in DOMAIN t /\ t[i] = s[i]
<1> DEFINE t == Append(s, d)
<1>1. /\ t \in Seq(Droplets) /\ Len(t) = Len(s) + 1 /\ t[Len(t)] = d
      /\ \A i \in 1..Len(s) : t[i] = s[i]
  OBVIOUS
<1>2. ASSUME NEW i \in DOMAIN t, NEW j \in DOMAIN t, t[i] = t[j] PROVE i = j
  <2>1. \A k \in DOMAIN s : s[k] # d
    BY DEF Range
  <2> QED BY <1>1, <1>2, <2>1 DEF IsInjective
<1> QED BY <1>1, <1>2 DEF IsInjective

LEMMA Removed ==
  ASSUME NEW s \in Seq(Droplets), IsInjective(s), NEW n \in DOMAIN s
  PROVE  LET t == SubSeq(s, 1, n - 1) \o SubSeq(s, n + 1, Len(s))
         IN t \in Seq(Droplets) /\ IsInjective(t)
<1> DEFINE a == SubSeq(s, 1, n - 1)
           b == SubSeq(s, n + 1, Len(s))
           t == a \o b
<1>0. n \in 1..Len(s)
  OBVIOUS
<1>1. /\ a \in Seq(Droplets) /\ Len(a) = n - 1 /\ \A i \in 1..(n - 1) : a[i] = s[i]
  BY <1>0
<1>2. /\ b \in Seq(Droplets) /\ Len(b) = Len(s) - n
      /\ \A i \in 1..(Len(s) - n) : b[i] = s[n + i]
  BY <1>0
<1> HIDE DEF a, b
<1>3. /\ t \in Seq(Droplets) /\ Len(t) = Len(s) - 1
      /\ \A i \in 1..Len(a) : t[i] = a[i]
      /\ \A i \in 1..Len(b) : t[Len(a) + i] = b[i]
  <2>1. t \in Seq(Droplets) /\ Len(t) = Len(a) + Len(b)
    BY <1>1, <1>2, ConcatProperties
  <2>2. \A i \in 1..(Len(a) + Len(b)) : t[i] = IF i <= Len(a) THEN a[i] ELSE b[i - Len(a)]
    BY <1>1, <1>2, ConcatProperties
  <2> HIDE DEF t
  <2>3. Len(a) \in Nat /\ Len(b) \in Nat /\ Len(t) = Len(s) - 1
    BY <1>0, <1>1, <1>2, <2>1
  <2>4. \A i \in 1..Len(a) : t[i] = a[i]
    BY <2>2, <2>3
  <2>5. ASSUME NEW i \in 1..Len(b) PROVE t[Len(a) + i] = b[i]
    <3>1. /\ Len(a) + i \in 1..(Len(a) + Len(b))
          /\ ~(Len(a) + i <= Len(a)) /\ Len(a) + i - Len(a) = i
      BY <2>3
    <3> QED BY <2>2, <3>1
  <2> QED BY <2>1, <2>3, <2>4, <2>5
<1> HIDE DEF t
<1>4. ASSUME NEW i \in 1..Len(t)
      PROVE  t[i] = IF i < n THEN s[i] ELSE s[i + 1]
  <2>1. CASE i < n
    BY <1>0, <1>1, <1>3, <2>1
  <2>2. CASE i >= n
    <3>1. i - (n - 1) \in 1..Len(b) /\ Len(a) + (i - (n - 1)) = i
          /\ n + (i - (n - 1)) = i + 1
      BY <1>0, <1>1, <1>2, <1>3, <2>2
    <3>2. t[i] = b[i - (n - 1)]
      BY <1>3, <3>1
    <3>3. b[i - (n - 1)] = s[i + 1]
      BY <1>2, <3>1
    <3> QED BY <1>0, <2>2, <3>2, <3>3
  <2> QED BY <1>0, <2>1, <2>2
<1>5. ASSUME NEW i \in 1..Len(t), NEW j \in 1..Len(t), t[i] = t[j] PROVE i = j
  <2> DEFINE f(k) == IF k < n THEN k ELSE k + 1
  <2>1. s[f(i)] = s[f(j)] /\ f(i) \in 1..Len(s) /\ f(j) \in 1..Len(s)
    BY <1>0, <1>3, <1>4, <1>5
  <2>2. f(i) = f(j)
    BY <2>1 DEF IsInjective
  <2> QED BY <1>0, <2>2
<1>6. IsInjective(t)
  BY <1>3, <1>5 DEF IsInjective
<1> QED BY <1>3, <1>6 DEF t, a, b

-----------------------------------------------------------------------------
(* Steps.                                                                  *)

LEMMA Initially == Init => Inv
<1> SUFFICES ASSUME Init PROVE Inv
  OBVIOUS
<1> USE AccountAssumption
<1>1. NobodyReads \in Reader /\ NobodyReads.token = FirstToken
  BY DEF NobodyReads, Reader
<1>2. TypeOK
  <2>1. /\ reader \in [Loops -> Reader] /\ about \in Tokens /\ token \in TeamTokens
        /\ verdict \in [Loops -> Statuses] /\ status \in Statuses /\ owner \in Users
    BY <1>1 DEF Init, Statuses
  <2>2. /\ grant \in [Tokens -> Grants] /\ phase \in [Loops -> Phases]
        /\ listed \in [Loops -> SUBSET Droplets] /\ page \in [Loops -> Nat]
        /\ kept \in [Loops -> SUBSET Droplets] /\ rows \in [Droplets -> Users \cup {NoRow}]
    BY DEF Init, Grants, Phases
  <2>3. /\ cloud \in Seq(Droplets) /\ IsInjective(cloud) /\ events \in 0..MaxEvents
        /\ checked \in TeamTokens \cup {NoToken} /\ raced \in BOOLEAN
    <3>1. cloud = FirstCloud /\ checked = NoToken /\ raced = FALSE /\ events = 0
      BY DEF Init
    <3>2. cloud \in Seq(Droplets) /\ IsInjective(cloud)
      BY <3>1, Zenon
    <3>3. events \in 0..MaxEvents /\ checked \in TeamTokens \cup {NoToken}
      BY <3>1
    <3>4. raced \in BOOLEAN
      BY <3>1
    <3> QED BY <3>2, <3>3, <3>4
  <2> QED BY <2>1, <2>2, <2>3 DEF TypeOK
<1>3. ReadersOK /\ KeptOK /\ VerdictsOK
  BY <1>1 DEF Init, ReadersOK, KeptOK, VerdictsOK
<1> QED BY <1>2, <1>3 DEF Inv

(* The end of a sync, whatever it has left in the database.                *)
LEMMA LeaveLoops ==
  ASSUME TypeOK, ReadersOK, KeptOK, NEW l \in Loops, Leave(l), UNCHANGED cloud
  PROVE  /\ phase' \in [Loops -> Phases] /\ reader' \in [Loops -> Reader]
         /\ verdict' \in [Loops -> Statuses]
         /\ listed' \in [Loops -> SUBSET Droplets] /\ page' \in [Loops -> Nat]
         /\ kept' \in [Loops -> SUBSET Droplets]
         /\ ReadersOK' /\ KeptOK'
         /\ \A k \in Loops : phase'[k] = "record" => phase[k] = "record" /\ reader'[k] = reader[k]
<1> USE AccountAssumption
<1>1. NobodyReads \in Reader /\ NobodyReads.token \in TeamTokens
  BY DEF NobodyReads, Reader
<1>2. /\ phase \in [Loops -> Phases] /\ reader \in [Loops -> Reader]
      /\ verdict \in [Loops -> Statuses]
      /\ listed \in [Loops -> SUBSET Droplets] /\ page \in [Loops -> Nat]
      /\ kept \in [Loops -> SUBSET Droplets]
  BY DEF TypeOK
<1>3. /\ phase' \in [Loops -> Phases] /\ reader' \in [Loops -> Reader]
      /\ verdict' \in [Loops -> Statuses]
      /\ listed' \in [Loops -> SUBSET Droplets] /\ page' \in [Loops -> Nat]
      /\ kept' \in [Loops -> SUBSET Droplets]
  BY <1>1, <1>2 DEF Leave, Phases, Statuses
<1>4. phase'[l] = "idle" /\ reader'[l] = NobodyReads
  BY <1>2 DEF Leave
<1>5. \A k \in Loops \ {l} :
        /\ phase'[k] = phase[k] /\ reader'[k] = reader[k] /\ page'[k] = page[k]
        /\ listed'[k] = listed[k] /\ kept'[k] = kept[k]
  BY <1>2 DEF Leave
<1>6. ReadersOK'
  BY <1>1, <1>4, <1>5 DEF ReadersOK
<1>7. KeptOK'
  BY <1>4, <1>5 DEF KeptOK, Ahead
<1> QED BY <1>3, <1>4, <1>5, <1>6, <1>7

LEMMA AskInv ==
  ASSUME Inv, NEW l \in Loops, Ask(l)
  PROVE  Inv'
<1> USE AccountAssumption DEF Inv
<1> DEFINE read == [token |-> token, user |-> owner]
<1>1. /\ read \in Reader /\ read.token = token /\ token \in TeamTokens
      /\ grant[token] \in Grants
  BY DEF TypeOK, Reader
<1>2. VerdictOf(grant[token]) \in Statuses /\ "invalid" \in Statuses
  BY <1>1 DEF VerdictOf, Grants, Statuses
<1>3. /\ phase \in [Loops -> Phases] /\ reader \in [Loops -> Reader]
      /\ verdict \in [Loops -> Statuses] /\ events \in 0..MaxEvents
      /\ phase' = [phase EXCEPT ![l] = "record"] /\ reader' = [reader EXCEPT ![l] = read]
      /\ UNCHANGED <<provider, account, rows, listed, page, kept, checked, raced>>
  BY DEF Ask, TypeOK
<1>4. verdict' \in [Loops -> Statuses] /\ events' \in 0..MaxEvents
  BY <1>2, <1>3 DEF Ask, Event
<1>5. TypeOK'
  BY <1>1, <1>3, <1>4 DEF TypeOK, Phases, provider, account
<1>6. ReadersOK'
  BY <1>1, <1>3 DEF ReadersOK
<1>7. KeptOK'
  BY <1>3 DEF KeptOK, Ahead, provider
<1>8. VerdictsOK'
  BY <1>1, <1>3 DEF VerdictsOK, account
<1> QED BY <1>5, <1>6, <1>7, <1>8

LEMMA RecordInv ==
  ASSUME Inv, NEW l \in Loops, Record(l)
  PROVE  Inv'
<1> USE AccountAssumption DEF Inv
<1>1. /\ phase \in [Loops -> Phases] /\ reader \in [Loops -> Reader]
      /\ verdict \in [Loops -> Statuses] /\ listed \in [Loops -> SUBSET Droplets]
      /\ page \in [Loops -> Nat] /\ kept \in [Loops -> SUBSET Droplets]
      /\ events \in 0..MaxEvents /\ cloud \in Seq(Droplets)
      /\ phase[l] = "record" /\ reader[l].token \in TeamTokens
      /\ UNCHANGED <<provider, token, owner, rows, checked, raced>>
  BY DEF Record, TypeOK, ReadersOK
<1>2. CASE SetStatus(l) \/ UNCHANGED <<status, about>>
  <2>1. status' \in Statuses /\ about' \in Tokens
    BY <1>1, <1>2 DEF SetStatus, TypeOK
  <2>2. ~raced' /\ status' # "unverified" => about' = token'
    BY <1>1, <1>2 DEF SetStatus, VerdictsOK
  <2>3. CASE /\ phase' = [phase EXCEPT ![l] = "list"] /\ page' = [page EXCEPT ![l] = 1]
             /\ kept' = [kept EXCEPT ![l] = Range(cloud)]
             /\ UNCHANGED <<reader, verdict, listed, events>>
    <3>1. TypeOK'
      BY <1>1, <2>1, <2>3, TheRange DEF TypeOK, Phases, provider
    <3>2. ReadersOK'
      BY <1>1, <2>3 DEF ReadersOK
    <3>3. Range(cloud) \subseteq Beyond(cloud, 0)
      BY <1>1, TheRange DEF Beyond
    <3>4. KeptOK'
      <4>1. kept'[l] \subseteq Ahead(l)'
        <5>1. kept'[l] = Range(cloud) /\ page'[l] - 1 = 0 /\ cloud' = cloud
          BY <1>1, <2>3 DEF provider
        <5> QED BY <3>3, <5>1 DEF Ahead
      <4> QED BY <1>1, <2>3, <4>1 DEF KeptOK, Ahead, provider
    <3>5. VerdictsOK'
      BY <1>1, <2>2, <2>3 DEF VerdictsOK
    <3> QED BY <3>1, <3>2, <3>4, <3>5
  <2>4. CASE Leave(l) /\ (UNCHANGED events \/ Event)
    <3>1. events' \in 0..MaxEvents
      BY <1>1, <2>4 DEF Event
    <3>2. TypeOK'
      BY <1>1, <2>1, <2>4, <3>1, LeaveLoops DEF TypeOK, provider
    <3>3. ReadersOK' /\ KeptOK'
      BY <1>1, <2>4, LeaveLoops DEF provider
    <3>4. VerdictsOK'
      BY <1>1, <2>2, <2>4, LeaveLoops DEF VerdictsOK, provider
    <3> QED BY <3>2, <3>3, <3>4
  <2> QED BY <2>3, <2>4 DEF Record
<1> QED BY <1>2 DEF Record

(* One page moves its droplets from those ahead to those listed.           *)
LEMMA PageRead ==
  ASSUME NEW t \in TeamTokens, NEW n \in Nat \ {0}, cloud \in Seq(Droplets),
         NEW seen, NEW due, due \subseteq seen \cup Beyond(cloud, n - 1)
  PROVE  /\ Answer(t, n).droplets \subseteq Droplets
         /\ due \subseteq seen \cup Answer(t, n).droplets \cup Beyond(cloud, n)
         /\ ~Answer(t, n).more => due \subseteq seen \cup Answer(t, n).droplets
<1> DEFINE from == (n - 1) * PageSize + 1
           read == {cloud[i] : i \in {j \in DOMAIN cloud : j >= from /\ j < from + PageSize}}
<1>1. n * PageSize \in Nat /\ (n - 1) * PageSize \in Nat
      /\ (n - 1) * PageSize + PageSize = n * PageSize
  BY AccountAssumption
<1>2. from + PageSize = n * PageSize + 1 /\ from = (n - 1) * PageSize + 1 /\ PageSize \in Nat
  BY <1>1, AccountAssumption
<1>3. Answer(t, n).droplets = read /\ Answer(t, n).more = (Len(cloud) >= from + PageSize)
  BY DEF Answer, Listing
<1> HIDE DEF from
<1>4. ASSUME NEW d \in due, d \notin seen, d \notin read
      PROVE  \E i \in DOMAIN cloud : d = cloud[i] /\ i > n * PageSize /\ i <= Len(cloud)
  <2>1. PICK i \in DOMAIN cloud : d = cloud[i] /\ i > (n - 1) * PageSize
    BY <1>4 DEF Beyond
  <2>2. ~(i >= from /\ i < from + PageSize)
    BY <1>4, <2>1
  <2> QED BY <1>1, <1>2, <2>1, <2>2
<1>5. due \subseteq seen \cup read \cup Beyond(cloud, n)
  BY <1>4 DEF Beyond
<1>6. ASSUME ~(Len(cloud) >= from + PageSize) PROVE due \subseteq seen \cup read
  BY <1>1, <1>2, <1>4, <1>6
<1>7. read \subseteq Droplets
  OBVIOUS
<1> HIDE DEF read
<1> QED BY <1>3, <1>5, <1>6, <1>7

LEMMA ListDropletsInv ==
  ASSUME Inv, NEW l \in Loops, ListDroplets(l)
  PROVE  Inv'
<1> USE AccountAssumption DEF Inv
<1>1. /\ phase \in [Loops -> Phases] /\ reader \in [Loops -> Reader]
      /\ verdict \in [Loops -> Statuses] /\ listed \in [Loops -> SUBSET Droplets]
      /\ page \in [Loops -> Nat] /\ kept \in [Loops -> SUBSET Droplets]
      /\ events \in 0..MaxEvents /\ cloud \in Seq(Droplets)
      /\ phase[l] = "list" /\ reader[l].token \in TeamTokens /\ page[l] \in Nat \ {0}
      /\ UNCHANGED <<provider, account, rows, checked, raced>>
  BY DEF ListDroplets, TypeOK, ReadersOK
<1> DEFINE answer == Answer(reader[l].token, page[l])
           read == listed[l] \cup answer.droplets
<1>2. /\ answer.droplets \subseteq Droplets
      /\ kept[l] \subseteq read \cup Beyond(cloud, page[l])
      /\ ~answer.more => kept[l] \subseteq read
  <2>1. kept[l] \subseteq listed[l] \cup Beyond(cloud, page[l] - 1)
    BY <1>1 DEF KeptOK, Ahead
  <2>2. /\ reader[l].token \in TeamTokens /\ page[l] \in Nat \ {0} /\ cloud \in Seq(Droplets)
        /\ listed[l] \in SUBSET Droplets /\ kept[l] \in SUBSET Droplets
    BY <1>1
  <2>3. /\ answer.droplets \subseteq Droplets
        /\ kept[l] \subseteq listed[l] \cup answer.droplets \cup Beyond(cloud, page[l])
        /\ ~answer.more => kept[l] \subseteq listed[l] \cup answer.droplets
    BY ONLY <2>1, <2>2, PageRead
  <2> QED BY <2>3
<1> HIDE DEF answer
<1>3. CASE /\ listed' = [listed EXCEPT ![l] = @ \cup answer.droplets]
           /\ IF answer.more
              THEN page' = [page EXCEPT ![l] = @ + 1] /\ UNCHANGED phase
              ELSE phase' = [phase EXCEPT ![l] = "store"] /\ UNCHANGED page
           /\ UNCHANGED <<reader, verdict, kept, events>>
  <2>0. page' \in [Loops -> Nat] /\ phase' \in [Loops -> Phases]
    <3>1. CASE answer.more
      BY <1>1, <1>3, <3>1
    <3>2. CASE ~answer.more
      BY <1>1, <1>3, <3>2 DEF Phases
    <3> QED BY <3>1, <3>2
  <2>1. /\ listed'[l] = read /\ listed' \in [Loops -> SUBSET Droplets]
        /\ page' \in [Loops -> Nat] /\ phase' \in [Loops -> Phases]
    <3>1. listed'[l] = read
      BY <1>1, <1>3
    <3>2. read \in SUBSET Droplets
      BY <1>1, <1>2
    <3> QED BY <1>1, <1>3, <2>0, <3>1, <3>2
  <2>2. \A k \in Loops \ {l} :
          phase'[k] = phase[k] /\ page'[k] = page[k] /\ listed'[k] = listed[k]
    BY <1>1, <1>3
  <2>3. TypeOK'
    BY <1>1, <1>3, <2>1 DEF TypeOK, provider, account
  <2>4. ReadersOK'
    <3>1. reader' = reader /\ page'[l] > 0
      BY <1>1, <1>3
    <3> QED BY <2>2, <3>1 DEF ReadersOK
  <2>5. KeptOK'
    <3>1. ASSUME phase'[l] = "list" PROVE kept'[l] \subseteq listed'[l] \cup Ahead(l)'
      <4>1. page'[l] - 1 = page[l] /\ cloud' = cloud
        BY <1>1, <1>3, <3>1 DEF provider
      <4> QED BY <1>2, <1>3, <2>1, <4>1 DEF Ahead
    <3>2. ASSUME phase'[l] = "store" PROVE kept'[l] \subseteq listed'[l]
      BY <1>1, <1>2, <1>3, <2>1, <3>2
    <3> QED BY <1>1, <1>3, <2>2, <3>1, <3>2 DEF KeptOK, Ahead, provider
  <2>6. VerdictsOK'
    BY <1>1, <1>3, <2>2 DEF VerdictsOK, account
  <2> QED BY <2>3, <2>4, <2>5, <2>6
<1>4. CASE Leave(l) /\ (UNCHANGED events \/ Event)
  <2>1. events' \in 0..MaxEvents
    BY <1>1, <1>4 DEF Event
  <2>2. TypeOK'
    BY <1>1, <1>4, <2>1, LeaveLoops DEF TypeOK, provider, account
  <2>3. ReadersOK' /\ KeptOK'
    BY <1>1, <1>4, LeaveLoops DEF provider
  <2>4. VerdictsOK'
    BY <1>1, <1>4, LeaveLoops DEF VerdictsOK, provider, account
  <2> QED BY <2>2, <2>3, <2>4
<1> QED BY <1>3, <1>4 DEF ListDroplets, GiveUp, answer

LEMMA StoreInv ==
  ASSUME Inv, NEW l \in Loops, Store(l)
  PROVE  Inv'
<1> USE AccountAssumption DEF Inv
<1>1. /\ Leave(l) /\ UNCHANGED <<provider, account, checked, raced>>
      /\ reader[l].user \in Users /\ rows \in [Droplets -> Users \cup {NoRow}]
      /\ events \in 0..MaxEvents
  BY DEF Store, TypeOK, Reader
<1>2. rows' \in [Droplets -> Users \cup {NoRow}] /\ events' \in 0..MaxEvents
  BY <1>1 DEF Store, UpsertDroplets, Event
<1>3. TypeOK'
  BY <1>1, <1>2, LeaveLoops DEF TypeOK, provider, account
<1>4. ReadersOK' /\ KeptOK'
  BY <1>1, LeaveLoops DEF provider
<1>5. VerdictsOK'
  BY <1>1, LeaveLoops DEF VerdictsOK, provider, account
<1> QED BY <1>3, <1>4, <1>5

(* Steps that leave the loops and the listing alone.                       *)
LEMMA ElsewhereInv ==
  ASSUME Inv, UNCHANGED <<cloud, loop>>
  PROVE  ReadersOK' /\ KeptOK'
BY DEF Inv, loop, ReadersOK, KeptOK, Ahead

LEMMA ReplaceTokenInv ==
  ASSUME Inv, ReplaceToken
  PROVE  Inv'
<1> USE AccountAssumption DEF Inv
<1>1. /\ checked \in TeamTokens /\ token' = checked /\ status' = "unverified"
      /\ checked' = NoToken /\ UNCHANGED <<provider, owner, about, rows, loop, events>>
  BY DEF ReplaceToken, ReplaceAccountToken, TypeOK
<1>2. raced' \in BOOLEAN
  BY DEF ReplaceToken, TypeOK
<1>3. TypeOK'
  BY <1>1, <1>2 DEF TypeOK, provider, loop, Statuses
<1>4. VerdictsOK'
  <2>1. ~raced' => \A l \in Loops : phase[l] # "record"
    BY DEF ReplaceToken
  <2> QED BY <1>1, <2>1 DEF VerdictsOK, loop
<1> QED BY <1>1, <1>3, <1>4, ElsewhereInv DEF provider

LEMMA CheckTokenInv ==
  ASSUME Inv, NEW t \in Tokens, CheckToken(t)
  PROVE  Inv'
<1> USE AccountAssumption DEF Inv
<1>1. TypeOK'
  BY DEF CheckToken, SameTeam, Event, TypeOK, provider, account, loop
<1>2. VerdictsOK'
  BY DEF CheckToken, VerdictsOK, account, loop
<1> QED BY <1>1, <1>2, ElsewhereInv DEF CheckToken, provider

LEMMA TransferInv ==
  ASSUME Inv, NEW u \in Users, Transfer(u)
  PROVE  Inv'
<1> USE AccountAssumption DEF Inv
<1>1. TypeOK'
  BY DEF Transfer, Event, TypeOK, provider, loop
<1>2. VerdictsOK'
  BY DEF Transfer, VerdictsOK, loop
<1> QED BY <1>1, <1>2, ElsewhereInv DEF Transfer, provider

LEMMA WithdrawInv ==
  ASSUME Inv, NEW t \in Tokens, NEW g \in Grants, Withdraw(t, g)
  PROVE  Inv'
<1> USE AccountAssumption DEF Inv
<1>1. TypeOK'
  BY DEF Withdraw, Event, TypeOK, account, loop
<1>2. VerdictsOK'
  BY DEF Withdraw, VerdictsOK, account, loop
<1> QED BY <1>1, <1>2, ElsewhereInv DEF Withdraw

LEMMA AppearInv ==
  ASSUME Inv, NEW d \in Droplets, Appear(d)
  PROVE  Inv'
<1> USE AccountAssumption DEF Inv
<1>1. /\ cloud \in Seq(Droplets) /\ IsInjective(cloud) /\ d \notin Range(cloud)
      /\ cloud' \in {<<d>> \o cloud, Append(cloud, d)} /\ Event
      /\ UNCHANGED <<grant, account, rows, loop, checked, raced>>
  BY DEF Appear, TypeOK
<1>2. cloud' \in Seq(Droplets) /\ IsInjective(cloud')
  BY <1>1, Prepended, Appended
<1>3. TypeOK'
  BY <1>1, <1>2 DEF Event, TypeOK, account, loop
<1>4. ReadersOK' /\ VerdictsOK'
  BY <1>1 DEF ReadersOK, VerdictsOK, account, loop
<1>5. ASSUME NEW n \in Int PROVE Beyond(cloud, n) \subseteq Beyond(cloud', n)
  <2>1. \A i \in DOMAIN cloud : i \in Int
    BY <1>1
  <2>2. \A i \in DOMAIN cloud :
          \E j \in DOMAIN cloud' : j >= i /\ cloud'[j] = cloud[i]
    <3>1. CASE cloud' = <<d>> \o cloud
      <4>1. \A i \in DOMAIN cloud : i + 1 \in DOMAIN cloud' /\ cloud'[i + 1] = cloud[i]
        BY <1>1, <3>1, Prepended
      <4> QED BY <2>1, <4>1
    <3>2. CASE cloud' = Append(cloud, d)
      <4>1. \A i \in DOMAIN cloud : i \in DOMAIN cloud' /\ cloud'[i] = cloud[i]
        BY <1>1, <3>2, Appended
      <4> QED BY <2>1, <4>1
    <3> QED BY <1>1, <3>1, <3>2
  <2>3. n * PageSize \in Int
    OBVIOUS
  <2>4. \A i \in DOMAIN cloud' : i \in Int
    BY <1>2
  <2> QED BY <2>1, <2>2, <2>3, <2>4 DEF Beyond
<1>6. KeptOK'
  <2>1. \A l \in Loops : Ahead(l) \subseteq Ahead(l)'
    BY <1>1, <1>5 DEF Ahead, TypeOK, loop
  <2> QED BY <1>1, <2>1 DEF KeptOK, loop
<1> QED BY <1>3, <1>4, <1>6

LEMMA DisappearInv ==
  ASSUME Inv, NEW d \in Droplets, Disappear(d)
  PROVE  Inv'
<1> USE AccountAssumption DEF Inv
<1>1. /\ cloud \in Seq(Droplets) /\ IsInjective(cloud) /\ Event
      /\ kept' = [l \in Loops |-> IF phase[l] = "list" THEN {} ELSE kept[l] \ {d}]
      /\ UNCHANGED <<grant, account, rows, phase, reader, verdict, listed, page, checked, raced>>
  BY DEF Disappear, TypeOK
<1>2. cloud' \in Seq(Droplets) /\ IsInjective(cloud')
  BY <1>1, Removed DEF Disappear
<1>3. TypeOK'
  BY <1>1, <1>2 DEF Event, TypeOK, account
<1>4. ReadersOK' /\ VerdictsOK'
  BY <1>1 DEF ReadersOK, VerdictsOK, account
<1>5. KeptOK'
  BY <1>1 DEF KeptOK
<1> QED BY <1>3, <1>4, <1>5

LEMMA Inductive == Inv /\ [Next]_vars => Inv'
<1> SUFFICES ASSUME Inv, [Next]_vars PROVE Inv'
  OBVIOUS
<1>1. CASE UNCHANGED vars
  <2>1. TypeOK' /\ VerdictsOK'
    BY <1>1 DEF Inv, vars, provider, account, loop, TypeOK, VerdictsOK
  <2> QED BY <1>1, <2>1, ElsewhereInv DEF Inv, vars, provider
<1>2. CASE Next
  BY <1>2, AskInv, RecordInv, ListDropletsInv, StoreInv, ReplaceTokenInv, CheckTokenInv,
     TransferInv, WithdrawInv, AppearInv, DisappearInv DEF Next, Sync
<1> QED BY <1>1, <1>2

LEMMA Invariance == Spec => []Inv
BY Initially, Inductive, PTL DEF Spec

-----------------------------------------------------------------------------
(* Theorems.                                                               *)

(* The row, the listing and the local variables of every sync keep their   *)
(* types; the listing names no droplet twice, and the stored token is      *)
(* always one of the team the account was registered with (syncAccount,    *)
(* replaceCloudAccountToken).                                              *)
THEOREM TypeCorrect == Spec => []TypeOK
<1>1. Inv => TypeOK
  BY DEF Inv
<1> QED BY <1>1, Invariance, PTL

(* The status shown is about the stored token, unless a token was replaced *)
(* while a sync waited for the provider (ReplaceAccountToken, syncAccount).*)
THEOREM VerdictAboutToken == Spec => []VerdictIsAboutToken
<1>1. Inv => VerdictIsAboutToken
  BY DEF Inv, VerdictsOK, VerdictIsAboutToken
<1> QED BY <1>1, Invariance, PTL

(* No sync drops the row of a droplet its listing could not miss, whatever *)
(* the size of a page and whatever fails or moves (ListDroplets,           *)
(* UpsertDroplets).                                                        *)
THEOREM RowsKept == Spec => RowsSurvive
<1> DEFINE Survive ==
      \A l \in Loops, d \in Droplets :
        phase[l] = "store" /\ phase'[l] = "idle" /\ d \in kept[l] /\ rows[d] # NoRow
        => rows'[d] # NoRow
<1>1. ASSUME Inv, [Next]_vars PROVE [Survive]_vars
  <2> SUFFICES ASSUME Next, NEW l \in Loops, NEW d \in Droplets,
                      phase[l] = "store", phase'[l] = "idle", d \in kept[l], rows[d] # NoRow
               PROVE  rows'[d] # NoRow
    BY <1>1
  <2>1. phase \in [Loops -> Phases] /\ reader \in [Loops -> Reader]
    BY <1>1 DEF Inv, TypeOK
  <2>2. CASE Store(l)
    <3>1. d \in listed[l] /\ reader[l].user # NoRow
      BY <1>1, <2>1, AccountAssumption DEF Inv, KeptOK, Reader
    <3> QED BY <2>2, <3>1 DEF Store, UpsertDroplets
  <2>3. ASSUME NEW k \in Loops, k # l, Sync(k) PROVE FALSE
    BY <2>1, <2>3 DEF Sync, Ask, Record, ListDroplets, GiveUp, Store, Leave
  <2>4. ~(Ask(l) \/ Record(l) \/ ListDroplets(l))
    BY DEF Ask, Record, ListDroplets
  <2>5. CASE UNCHANGED phase
    BY <2>5
  <2> QED BY <2>2, <2>3, <2>4, <2>5
          DEF Next, Sync, CheckToken, Withdraw, ReplaceToken, Transfer, Appear, Disappear,
              loop
<1> QED BY <1>1, Invariance, PTL DEF Spec, RowsSurvive
=============================================================================
