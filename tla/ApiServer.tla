----------------------------- MODULE ApiServer -----------------------------
(***************************************************************************)
(* Processes that come up on one database, some of which answer HTTP       *)
(* requests: their start (Migration), the limiter in the memory of each    *)
(* (RateLimiter) and the settings they save for each other (Settings).     *)
(***************************************************************************)
EXTENDS Migration, RateLimiter, Settings

CONSTANT Host    \* the process that answers each save

ASSUME ServerAssumption ==
  /\ Servers \subseteq Processes
  /\ Host \in [Saves -> Servers]

vars == <<migrationVars, limiterVars, settingsVars>>

TypeOK == MigrationTypeOK /\ LimiterTypeOK /\ SettingsTypeOK

Init == MigrationInit /\ LimiterInit /\ SettingsInit

Start(p) == Migrate(p) /\ UNCHANGED <<limiterVars, settingsVars>>

(* A process dies, with its memory and its requests.                       *)
Fall(p) ==
  /\ Die(p)
  /\ IF p \in Servers THEN Forget(p) ELSE UNCHANGED limiterVars
  /\ Abandon({r \in Saves : Host[r] = p})

Serving(s) == phase[s] = "serving" /\ UNCHANGED migrationVars

(* A request to a limited route.                                           *)
Limited(s) == Serving(s) /\ Attempt(s) /\ UNCHANGED settingsVars

SaveStep(r) ==
  /\ Serving(Host[r]) /\ UNCHANGED limiterVars
  /\ (\E page \in Pages : UpdateSettings(r, page)) \/ Write(r) \/ WriteFails(r) \/ Answer(r)

TimePasses == Tick /\ UNCHANGED <<migrationVars, settingsVars>>

Next ==
  \/ \E p \in Processes : Start(p) \/ Fall(p)
  \/ \E s \in Servers : Limited(s)
  \/ \E r \in Saves : SaveStep(r)
  \/ TimePasses

Spec == Init /\ [][Next]_vars /\ MigrationFairness
=============================================================================
