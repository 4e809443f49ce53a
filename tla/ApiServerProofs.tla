-------------------------- MODULE ApiServerProofs --------------------------
(***************************************************************************)
(* Whatever number of processes of whatever releases start, migrate, fail  *)
(* and die on one database: those that serve have their schema, their      *)
(* limiters keep their limits, and the settings they report as saved are   *)
(* what is stored.                                                         *)
(***************************************************************************)
EXTENDS ApiServer, RateLimiterProofs

-----------------------------------------------------------------------------
(* Migrations.                                                             *)

(* A process has every migration before the one it has come to; a          *)
(* transaction that is about to commit applies one that is not in effect,  *)
(* and no other transaction applies the same.                              *)
PlaceOK ==
  \A p \in Processes :
    /\ 1..(at[p] - 1) \subseteq schema
    /\ phase[p] = "serving" => at[p] = Release[p] + 1
    /\ phase[p] \in {"apply", "commit"} => at[p] <= Release[p]
    /\ phase[p] = "commit" => at[p] \notin schema
    /\ \A q \in Processes \ {p} :
         phase[p] = "commit" /\ phase[q] = "commit" => at[p] # at[q]

MigrationInv == MigrationTypeOK /\ SchemaIsRecorded /\ PlaceOK

LEMMA MigrationInitially == MigrationInit => MigrationInv
BY MigrationAssumption
DEF MigrationInit, MigrationInv, MigrationTypeOK, Phases, SchemaIsRecorded, PlaceOK

(* A process ends: its transaction, if it had one, is gone.                *)
LEMMA FatalInv ==
  ASSUME MigrationInv, NEW p \in Processes, Fatal(p), UNCHANGED <<schema, applied>>,
         deaths' \in Nat
  PROVE  MigrationInv'
<1> USE MigrationAssumption DEF MigrationInv
<1>1. /\ phase' = [phase EXCEPT ![p] = "down"] /\ at' = [at EXCEPT ![p] = 1]
      /\ phase \in [Processes -> Phases] /\ at \in [Processes -> Nat \ {0}]
  BY DEF Fatal, Goto, MigrationTypeOK
<1>2. MigrationTypeOK'
  BY <1>1 DEF MigrationTypeOK, Phases
<1>3. PlaceOK'
  BY <1>1 DEF PlaceOK
<1>4. SchemaIsRecorded'
  BY DEF SchemaIsRecorded
<1> QED BY <1>2, <1>3, <1>4

LEMMA DieInv ==
  ASSUME MigrationInv, NEW p \in Processes, Die(p)
  PROVE  MigrationInv'
<1>1. deaths' \in Nat
  BY DEF Die, Spend, MigrationInv, MigrationTypeOK
<1> QED BY <1>1, FatalInv DEF Die

LEMMA CommitInv ==
  ASSUME MigrationInv, NEW p \in Processes, Commit(p)
  PROVE  MigrationInv'
<1> USE MigrationAssumption DEF MigrationInv
<1> DEFINE Applied == schema' = schema \cup {at[p]} /\ applied' = applied \cup {at[p]}
<1>1. /\ phase[p] = "commit" /\ phase \in [Processes -> Phases]
      /\ at \in [Processes -> Nat \ {0}] /\ schema \subseteq Nat /\ applied \subseteq Nat
      /\ at[p] <= Release[p] /\ at[p] \notin schema /\ 1..(at[p] - 1) \subseteq schema
      /\ schema = applied
  BY DEF Commit, MigrationTypeOK, PlaceOK, SchemaIsRecorded
<1>2. ASSUME Applied PROVE SchemaIsRecorded' /\ schema' \subseteq Nat
  <2>1. ASSUME NEW v \in schema' PROVE 1..v \subseteq schema'
    <3>1. CASE v \in schema
      BY <1>2, <3>1 DEF SchemaIsRecorded
    <3>2. CASE v = at[p]
      <4>1. 1..v = 1..(at[p] - 1) \cup {at[p]}
        BY <1>1, <3>2
      <4> QED BY <1>1, <1>2, <4>1
    <3> QED BY <1>2, <3>1, <3>2
  <2> QED BY <1>1, <1>2, <2>1 DEF SchemaIsRecorded
<1>3. CASE Applied /\ Goto(p, "check") /\ at' = [at EXCEPT ![p] = @ + 1] /\ UNCHANGED deaths
  <2>1. MigrationTypeOK'
    BY <1>1, <1>2, <1>3 DEF MigrationTypeOK, Goto, Phases, SchemaIsRecorded
  <2>2. PlaceOK'
    <3>1. ASSUME NEW q \in Processes PROVE 1..(at'[q] - 1) \subseteq schema'
      <4>1. CASE q = p
        <5>1. 1..(at'[q] - 1) = 1..(at[p] - 1) \cup {at[p]}
          BY <1>1, <1>3, <4>1
        <5> QED BY <1>1, <1>3, <5>1
      <4>2. CASE q # p
        <5>1. at'[q] = at[q]
          BY <1>1, <1>3, <4>2
        <5> QED BY <1>3, <5>1 DEF PlaceOK
      <4> QED BY <4>1, <4>2
    <3>2. ASSUME NEW q \in Processes, q # p PROVE phase'[q] = phase[q] /\ at'[q] = at[q]
      BY <1>1, <1>3, <3>2 DEF Goto
    <3>3. phase'[p] = "check"
      BY <1>1, <1>3 DEF Goto
    <3>4. ASSUME NEW q \in Processes, phase'[q] = "commit" PROVE at'[q] \notin schema'
      <4>1. q # p /\ phase[q] = "commit"
        BY <3>2, <3>3, <3>4
      <4>2. at[q] \notin schema /\ at[q] # at[p]
        BY <1>1, <4>1 DEF PlaceOK
      <4> QED BY <1>3, <3>2, <4>1, <4>2
    <3> QED BY <3>1, <3>2, <3>3, <3>4 DEF PlaceOK
  <2> QED BY <1>2, <1>3, <2>1, <2>2
<1>4. CASE Applied /\ Fatal(p) /\ Spend
  <2>1. /\ phase' = [phase EXCEPT ![p] = "down"] /\ at' = [at EXCEPT ![p] = 1]
    BY <1>4 DEF Fatal, Goto
  <2>2. MigrationTypeOK'
    BY <1>1, <1>2, <1>4, <2>1 DEF MigrationTypeOK, Phases, Spend, SchemaIsRecorded
  <2>3. PlaceOK'
    BY <1>1, <1>4, <2>1 DEF PlaceOK
  <2> QED BY <1>2, <1>4, <2>2, <2>3
<1>5. CASE UNCHANGED <<schema, applied>> /\ Fatal(p) /\ Spend
  BY <1>5, FatalInv DEF Spend, MigrationTypeOK
<1> QED BY <1>3, <1>4, <1>5 DEF Commit, CommitBoth

LEMMA MigrateInv ==
  ASSUME MigrationInv, NEW p \in Processes, Migrate(p)
  PROVE  MigrationInv'
<1> USE MigrationAssumption DEF MigrationInv
<1>0. phase \in [Processes -> Phases] /\ at \in [Processes -> Nat \ {0}]
  BY DEF MigrationTypeOK
<1>1. CASE Boot(p) \/ CreateTable(p)
  <2>1. MigrationTypeOK'
    BY <1>1 DEF Boot, CreateTable, Goto, MigrationTypeOK, Phases
  <2>2. PlaceOK'
    BY <1>0, <1>1 DEF Boot, CreateTable, Goto, PlaceOK
  <2> QED BY <1>1, <2>1, <2>2 DEF Boot, CreateTable, SchemaIsRecorded
<1>2. CASE Check(p)
  <2>1. MigrationTypeOK'
    BY <1>2 DEF Check, Goto, MigrationTypeOK, Phases
  <2>2. SchemaIsRecorded'
    BY <1>2 DEF Check, SchemaIsRecorded
  <2>3. CASE at[p] > Release[p] /\ Goto(p, "serving") /\ UNCHANGED at
    <3>1. at[p] = Release[p] + 1
      BY <2>3 DEF MigrationTypeOK
    <3>2. PlaceOK'
      BY <1>0, <1>2, <2>3, <3>1 DEF Check, Goto, PlaceOK
    <3> QED BY <2>1, <2>2, <3>2
  <2>4. CASE /\ at[p] <= Release[p] /\ at[p] \in applied
             /\ at' = [at EXCEPT ![p] = @ + 1] /\ UNCHANGED phase
    <3>1. phase[p] = "check" /\ UNCHANGED schema /\ at[p] \in schema
      BY <1>2, <2>4 DEF Check, SchemaIsRecorded
    <3>2. 1..(at'[p] - 1) \subseteq schema
      <4>1. at'[p] - 1 = at[p]
        BY <1>0, <2>4
      <4> QED BY <3>1, <4>1 DEF SchemaIsRecorded
    <3>3. PlaceOK'
      BY <1>0, <2>4, <3>1, <3>2 DEF PlaceOK
    <3> QED BY <2>1, <2>2, <3>3
  <2>5. CASE /\ at[p] <= Release[p] /\ at[p] \notin applied
             /\ Goto(p, "apply") /\ UNCHANGED at
    <3>1. PlaceOK'
      BY <1>0, <1>2, <2>5 DEF Check, Goto, PlaceOK
    <3> QED BY <2>1, <2>2, <3>1
  <2> QED BY <1>2, <2>3, <2>4, <2>5 DEF Check
<1>3. CASE RunSQL(p)
  <2>1. CASE at[p] \in schema
    BY <1>3, <2>1, FatalInv DEF RunSQL, MigrationTypeOK
  <2>2. CASE at[p] \notin schema
    <3>1. MigrationTypeOK'
      BY <1>3, <2>2 DEF RunSQL, Goto, MigrationTypeOK, Phases
    <3>2. PlaceOK'
      BY <1>0, <1>3, <2>2 DEF RunSQL, Goto, PlaceOK
    <3> QED BY <1>3, <3>1, <3>2 DEF RunSQL, SchemaIsRecorded
  <2> QED BY <2>1, <2>2
<1>4. CASE Commit(p)
  BY <1>4, CommitInv
<1> QED BY <1>1, <1>2, <1>3, <1>4 DEF Migrate

LEMMA MigrationIdles ==
  ASSUME MigrationInv, UNCHANGED migrationVars
  PROVE  MigrationInv'
BY DEF MigrationInv, MigrationTypeOK, SchemaIsRecorded, PlaceOK, migrationVars

LEMMA ServingHasSchema == MigrationInv => ServesOnSchema
BY MigrationAssumption DEF MigrationInv, MigrationTypeOK, PlaceOK, ServesOnSchema

-----------------------------------------------------------------------------
(* Settings.                                                               *)

(* A save that nothing was written over finds what it has written so far.  *)
WrittenOK ==
  \A r \in Saves :
    save[r] # NoSave /\ save[r].alone =>
      \A i \in 1..(save[r].at - 1) : value[KeyOrder[i]] = save[r].page

SettingsInv == SettingsTypeOK /\ WrittenOK /\ SecretMatchesHost

(* The last key is the one that comes with the password, and the only one. *)
LEMMA KeysInOrder ==
  /\ Last \in Nat \ {0} /\ DOMAIN KeyOrder = 1..Last
  /\ \A i \in 1..Last : KeyOrder[i] \in Keys
  /\ "smtp" \in Keys
BY SettingsAssumption DEF Last, Keys

LEMMA SettingsInitially == SettingsInit => SettingsInv
BY SettingsAssumption, NoSaveAssumption, KeysInOrder
DEF SettingsInit, SettingsInv, SettingsTypeOK, WrittenOK, SecretMatchesHost

(* One statement: the row of its key, and with the last key the password.  *)
LEMMA SetSettingInv ==
  ASSUME SettingsInv, NEW page \in Pages, NEW key \in Keys, SetSetting(page, key)
  PROVE  /\ value' \in [Keys -> Pages \cup {Installed}]
         /\ secret' \in Pages \cup {NoSecret}
         /\ value'[key] = page /\ \A k \in Keys \ {key} : value'[k] = value[k]
         /\ SecretMatchesHost'
<1> USE SettingsAssumption, KeysInOrder DEF SettingsInv
<1>1. /\ value \in [Keys -> Pages \cup {Installed}] /\ secret \in Pages \cup {NoSecret}
      /\ value' = [value EXCEPT ![key] = page] /\ Password[page] \in {"keep", "set", "clear"}
  BY DEF SettingsTypeOK, SetSetting
<1>2. CASE key = "smtp"
  <2>1. /\ Password[page] = "set" => secret' = page
        /\ Password[page] = "clear" => secret' = NoSecret
        /\ secret' \in Pages \cup {NoSecret}
    BY <1>1, <1>2 DEF SetSetting, SecretAfter
  <2> QED BY <1>1, <1>2, <2>1 DEF SecretMatchesHost
<1>3. CASE key # "smtp"
  BY <1>1, <1>3 DEF SetSetting, SecretMatchesHost
<1> QED BY <1>2, <1>3

(* What a statement of `r' leaves of the other saves.                      *)
LEMMA WrittenType ==
  ASSUME NEW r \in Saves, NEW saves \in [Saves -> Save \cup {NoSave}]
  PROVE  /\ Written(r, saves) \in [Saves -> Save \cup {NoSave}]
         /\ Written(r, saves)[r] = saves[r]
         /\ \A x \in Saves \ {r} :
              Written(r, saves)[x] # NoSave => ~Written(r, saves)[x].alone
<1>1. ASSUME NEW x \in Saves, saves[x] # NoSave
      PROVE  /\ [saves[x] EXCEPT !.alone = FALSE] \in Save
             /\ ~[saves[x] EXCEPT !.alone = FALSE].alone
  BY <1>1 DEF Save
<1> QED BY <1>1 DEF Written

LEMMA WriteInv ==
  ASSUME SettingsInv, NEW r \in Saves, Write(r) \/ WriteFails(r)
  PROVE  SettingsInv'
<1> USE SettingsAssumption, NoSaveAssumption, KeysInOrder DEF SettingsInv
<1>0. save \in [Saves -> Save \cup {NoSave}]
  BY DEF SettingsTypeOK
<1>1. /\ save[r] \in Save /\ save[r].page \in Pages /\ save[r].at \in 1..Last
      /\ save[r].alone \in BOOLEAN
  BY <1>0 DEF Write, WriteFails, Save
<1> DEFINE page == save[r].page
           n == save[r].at
           next == [page |-> page, at |-> n + 1, alone |-> save[r].alone]
<1>2. KeyOrder[n] \in Keys /\ page \in Pages
  BY <1>1
<1>3. CASE Write(r)
  <2> DEFINE after == [save EXCEPT ![r] = next]
  <2>1. SetSetting(page, KeyOrder[n]) /\ save' = Written(r, after) /\ UNCHANGED <<saved, failures>>
    <3>1. [save[r] EXCEPT !.at = @ + 1] = next
      BY <1>1 DEF Save
    <3> QED BY <1>0, <1>3, <3>1 DEF Write
  <2>2. next \in Save /\ after \in [Saves -> Save \cup {NoSave}] /\ after[r] = next
    BY <1>0, <1>1 DEF Save
  <2>3. /\ save' \in [Saves -> Save \cup {NoSave}] /\ save'[r] = next
        /\ \A x \in Saves \ {r} : save'[x] # NoSave => ~save'[x].alone
    BY <2>1, <2>2, WrittenType
  <2>4. /\ value' \in [Keys -> Pages \cup {Installed}] /\ secret' \in Pages \cup {NoSecret}
        /\ value'[KeyOrder[n]] = page
        /\ \A k \in Keys \ {KeyOrder[n]} : value'[k] = value[k]
        /\ SecretMatchesHost'
    BY <1>2, <2>1, SetSettingInv
  <2>5. ASSUME save[r].alone, NEW i \in 1..n PROVE value'[KeyOrder[i]] = page
    <3>1. KeyOrder[i] \in Keys
      BY <1>1, <2>5
    <3>2. CASE KeyOrder[i] = KeyOrder[n]
      BY <2>4, <3>2
    <3>3. CASE KeyOrder[i] # KeyOrder[n]
      <4>1. i \in 1..(n - 1)
        BY <1>1, <2>5, <3>3
      <4>2. value[KeyOrder[i]] = page
        BY <1>3, <2>5, <4>1 DEF WrittenOK, Write
      <4> QED BY <2>4, <3>1, <3>3, <4>2
    <3> QED BY <3>2, <3>3
  <2>6. WrittenOK'
    <3>1. 1..(next.at - 1) = 1..n
      BY <1>1
    <3>2. ASSUME NEW x \in Saves, save'[x] # NoSave, save'[x].alone,
                 NEW i \in 1..(save'[x].at - 1)
          PROVE  value'[KeyOrder[i]] = save'[x].page
      <4>1. x = r
        BY <2>3, <3>2
      <4>2. save'[x].page = page /\ save'[x].at = next.at /\ save'[x].alone = save[r].alone
        BY <2>3, <4>1
      <4>3. save[r].alone /\ i \in 1..n
        BY <3>1, <3>2, <4>2
      <4> QED BY <2>5, <4>2, <4>3
    <3> QED BY <3>2 DEF WrittenOK
  <2> QED BY <2>1, <2>3, <2>4, <2>6 DEF SettingsTypeOK
<1>4. CASE WriteFails(r)
  <2>1. failures' \in 0..MaxFailures /\ UNCHANGED saved
    BY <1>4 DEF WriteFails, SettingsTypeOK
  <2>2. CASE UNCHANGED <<value, secret>> /\ save' = [save EXCEPT ![r] = NoSave]
    BY <1>0, <2>1, <2>2 DEF SettingsTypeOK, WrittenOK, SecretMatchesHost
  <2>3. CASE /\ SetSetting(page, KeyOrder[n])
             /\ save' = Written(r, [save EXCEPT ![r] = NoSave])
    <3>1. /\ value' \in [Keys -> Pages \cup {Installed}] /\ secret' \in Pages \cup {NoSecret}
          /\ SecretMatchesHost'
      BY <1>2, <2>3, SetSettingInv
    <3>2. /\ save' \in [Saves -> Save \cup {NoSave}] /\ save'[r] = NoSave
          /\ \A x \in Saves \ {r} : save'[x] # NoSave => ~save'[x].alone
      <4>1. /\ [save EXCEPT ![r] = NoSave] \in [Saves -> Save \cup {NoSave}]
            /\ [save EXCEPT ![r] = NoSave][r] = NoSave
        BY <1>0
      <4> QED BY <2>3, <4>1, WrittenType
    <3>3. WrittenOK'
      BY <3>2 DEF WrittenOK
    <3> QED BY <2>1, <3>1, <3>2, <3>3 DEF SettingsTypeOK
  <2> QED BY <1>4, <2>2, <2>3 DEF WriteFails
<1> QED BY <1>3, <1>4

LEMMA UpdateSettingsInv ==
  ASSUME SettingsInv, NEW r \in Saves, NEW page \in Pages, UpdateSettings(r, page)
  PROVE  SettingsInv'
<1> USE SettingsAssumption, NoSaveAssumption, KeysInOrder DEF SettingsInv
<1> DEFINE begun == [page |-> page, at |-> 1, alone |-> TRUE]
<1>1. begun \in Save
  BY DEF Save
<1>2. /\ save \in [Saves -> Save \cup {NoSave}] /\ save' = [save EXCEPT ![r] = begun]
      /\ UNCHANGED <<value, secret, failures>> /\ saved' \in 0..MaxSaves
  BY DEF UpdateSettings, SettingsTypeOK
<1>3. SettingsTypeOK'
  BY <1>1, <1>2 DEF SettingsTypeOK
<1>4. WrittenOK'
  BY <1>1, <1>2 DEF WrittenOK
<1> QED BY <1>2, <1>3, <1>4 DEF SecretMatchesHost

LEMMA AbandonInv ==
  ASSUME SettingsInv, NEW dead \in SUBSET Saves, Abandon(dead)
  PROVE  SettingsInv'
BY NoSaveAssumption
DEF Abandon, SettingsInv, SettingsTypeOK, WrittenOK, SecretMatchesHost

LEMMA AnswerInv ==
  ASSUME SettingsInv, NEW r \in Saves, Answer(r)
  PROVE  SettingsInv'
BY NoSaveAssumption
DEF Answer, SettingsInv, SettingsTypeOK, WrittenOK, SecretMatchesHost

LEMMA SettingsIdle ==
  ASSUME SettingsInv, UNCHANGED settingsVars
  PROVE  SettingsInv'
BY DEF settingsVars, SettingsInv, SettingsTypeOK, WrittenOK, SecretMatchesHost

LEMMA CompleteIsWhole == SettingsInv => SavedIsWhole
<1> SUFFICES ASSUME SettingsInv, NEW r \in Saves, Complete(r), save[r].alone, NEW k \in Keys
             PROVE  value[k] = save[r].page
  BY DEF SavedIsWhole
<1>1. save[r].at = Last + 1
  BY KeysInOrder DEF Complete, SettingsInv, SettingsTypeOK, Save
<1>2. PICK i \in 1..Last : k = KeyOrder[i]
  BY DEF Keys
<1>3. i \in 1..(save[r].at - 1)
  BY <1>1, <1>2, KeysInOrder
<1> QED BY <1>2, <1>3 DEF WrittenOK, SettingsInv, Complete

-----------------------------------------------------------------------------
(* The server.                                                             *)

Inv == MigrationInv /\ LimiterInv /\ SettingsInv

LEMMA Initially == Init => Inv
BY MigrationInitially, LimiterInitially, SettingsInitially DEF Init, Inv

LEMMA StartInv ==
  ASSUME Inv, NEW p \in Processes, Start(p)
  PROVE  Inv'
BY MigrateInv, LimiterIdles, SettingsIdle DEF Inv, Start

LEMMA FallInv ==
  ASSUME Inv, NEW p \in Processes, Fall(p)
  PROVE  Inv'
<1>1. MigrationInv'
  BY DieInv DEF Inv, Fall
<1>2. LimiterInv'
  <2>1. CASE p \in Servers
    BY <2>1, ForgetInv DEF Inv, Fall
  <2>2. CASE p \notin Servers
    BY <2>2, LimiterIdles DEF Inv, Fall
  <2> QED BY <2>1, <2>2
<1>3. SettingsInv'
  BY AbandonInv DEF Inv, Fall
<1> QED BY <1>1, <1>2, <1>3 DEF Inv

LEMMA LimitedInv ==
  ASSUME Inv, NEW s \in Servers, Limited(s)
  PROVE  Inv'
BY MigrationIdles, AttemptInv, SettingsIdle DEF Inv, Limited, Serving

LEMMA SaveStepInv ==
  ASSUME Inv, NEW r \in Saves, SaveStep(r)
  PROVE  Inv'
<1>1. SettingsInv'
  BY UpdateSettingsInv, WriteInv, AnswerInv DEF Inv, SaveStep
<1> QED BY <1>1, MigrationIdles, LimiterIdles DEF Inv, SaveStep, Serving

LEMMA TimePassesInv ==
  ASSUME Inv, TimePasses
  PROVE  Inv'
BY MigrationIdles, TickInv, SettingsIdle DEF Inv, TimePasses

LEMMA Inductive == Inv /\ [Next]_vars => Inv'
<1> SUFFICES ASSUME Inv, [Next]_vars PROVE Inv'
  OBVIOUS
<1>1. CASE UNCHANGED vars
  BY <1>1, MigrationIdles, LimiterIdles, SettingsIdle DEF Inv, vars
<1>2. CASE Next
  BY <1>2, StartInv, FallInv, LimitedInv, SaveStepInv, TimePassesInv DEF Next
<1> QED BY <1>1, <1>2

LEMMA Invariance == Spec => []Inv
BY Initially, Inductive, PTL DEF Spec

(* Every variable of every part keeps its type: no process is ever between *)
(* phases, no limiter's memory and no save takes a form the code has not.  *)
THEOREM TypeCorrect == Spec => []TypeOK
<1>1. Inv => TypeOK
  BY DEF Inv, TypeOK, MigrationInv, LimiterInv, SettingsInv
<1> QED BY <1>1, Invariance, PTL

(* A process that answers requests has every migration of its release in   *)
(* the schema, however many processes migrated at once (Migrate).          *)
THEOREM ServedOnSchema == Spec => []ServesOnSchema
<1>1. Inv => ServesOnSchema
  BY ServingHasSchema DEF Inv
<1> QED BY <1>1, Invariance, PTL

(* What schema_migrations lists is what is in the schema, with no gap      *)
(* (Migrate).                                                              *)
THEOREM RecordedSchema == Spec => []SchemaIsRecorded
<1>1. Inv => SchemaIsRecorded
  BY DEF Inv, MigrationInv
<1> QED BY <1>1, Invariance, PTL

(* No client gets twice the limit through a process within one window      *)
(* (rateLimit).                                                            *)
THEOREM LimitHolds == Spec => []AdmissionsBounded
<1>1. Inv => AdmissionsBounded
  BY BoundedAdmissions DEF Inv
<1> QED BY <1>1, Invariance, PTL

(* A client is refused for requests that went through, never for refusals  *)
(* (rateLimit).                                                            *)
THEOREM RefusedForAdmitted == Spec => RefusalsJustified
<1> DEFINE Justified ==
      \A s \in Servers :
        entry'[s] # entry[s] /\ ~Admits(entry'[s])
        => Through(s, IF clock > Window THEN clock - Window ELSE 1, clock) >= Limit
<1>1. ASSUME Inv, [Next]_vars PROVE [Justified]_limiterVars
  <2>1. CASE UNCHANGED limiterVars
    BY <2>1
  <2>2. ASSUME NEW s \in Servers, Limited(s) PROVE Justified
    <3>1. ~Admits(entry'[s])
          => Through(s, IF clock > Window THEN clock - Window ELSE 1, clock) >= Limit
      BY <1>1, <2>2, AttemptJustified DEF Inv, Limited
    <3>2. \A x \in Servers \ {s} : entry'[x] = entry[x]
      BY <1>1, <2>2 DEF Inv, LimiterInv, LimiterTypeOK, Limited, Attempt
    <3> QED BY <3>1, <3>2
  <2>3. ASSUME NEW p \in Servers, Forget(p) PROVE Justified
    <3>1. entry' = [entry EXCEPT ![p] = NoEntry] /\ Admits(NoEntry)
      BY <2>3, LimiterAssumption DEF Forget, Admits, NoEntry
    <3>2. entry \in [Servers -> [count: Nat, reset: Nat]]
      BY <1>1 DEF Inv, LimiterInv, LimiterTypeOK
    <3> QED BY <3>1, <3>2
  <2>4. ASSUME Tick PROVE Justified
    BY <2>4 DEF Tick
  <2>5. CASE UNCHANGED vars
    BY <2>1, <2>5 DEF vars
  <2>6. CASE Next
    BY <2>1, <2>2, <2>3, <2>4, <2>6 DEF Next, Start, Fall, SaveStep, TimePasses
  <2> QED BY <1>1, <2>5, <2>6
<1> QED BY <1>1, Invariance, PTL DEF Spec, RefusalsJustified

(* A page that is reported as saved is what is stored, unless another save *)
(* wrote in the meantime (adminUpdateSettings).                            *)
THEOREM WholeIsSaved == Spec => []SavedIsWhole
<1>1. Inv => SavedIsWhole
  BY CompleteIsWhole DEF Inv
<1> QED BY <1>1, Invariance, PTL

(* The stored SMTP password is the one entered with the stored host, and   *)
(* none is stored if it was cleared there, whatever saves overlapped,      *)
(* failed or died (SetSettingWithSecret).                                  *)
THEOREM SecretWithHost == Spec => []SecretMatchesHost
<1>1. Inv => SecretMatchesHost
  BY DEF Inv, SettingsInv
<1> QED BY <1>1, Invariance, PTL
=============================================================================
