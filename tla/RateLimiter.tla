---------------------------- MODULE RateLimiter ----------------------------
(***************************************************************************)
(* The limiter of one route and one client (rateLimit in server.go): a     *)
(* fixed window in the memory of each process.  Time is counted in ticks.  *)
(***************************************************************************)
EXTENDS Naturals, Sequences, FiniteSets

CONSTANTS
  Servers,       \* processes, each with a limiter of its own
  Limit, Window,   \* rateLimit's arguments
  MaxClock, MaxAttempts   \* bounds

ASSUME LimiterAssumption ==
  /\ Limit \in Nat \ {0} /\ Window \in Nat \ {0}
  /\ MaxClock \in Nat \ {0} /\ MaxAttempts \in Nat

VARIABLES
  clock,
  entry,      \* the client's rateEntry
  admitted,   \* the times at which requests went through; history
  attempts

limiterVars == <<clock, entry, admitted, attempts>>

Times == 1..MaxClock
NoEntry == [count |-> 0, reset |-> 0]

LimiterTypeOK ==
  /\ clock \in Times
  /\ entry \in [Servers -> [count: Nat, reset: Nat]]
  /\ admitted \in [Servers -> Seq(Times)]
  /\ attempts \in 0..MaxAttempts

LimiterInit ==
  /\ clock = 1
  /\ entry = [s \in Servers |-> NoEntry]
  /\ admitted = [s \in Servers |-> << >>]
  /\ attempts = 0

(* Mutant: every attempt starts the window again.                          *)
CountedSliding(e, now) ==
  IF now > e.reset THEN [count |-> 1, reset |-> now + Window]
  ELSE [count |-> e.count + 1, reset |-> now + Window]

(* Mutant: the window is over at Reset.                                    *)
CountedFromReset(e, now) ==
  IF now >= e.reset THEN [count |-> 1, reset |-> now + Window]
  ELSE [e EXCEPT !.count = @ + 1]

(* What the mutex protects.                                                *)
Counted(e, now) ==
  IF now > e.reset THEN [count |-> 1, reset |-> now + Window]
  ELSE [e EXCEPT !.count = @ + 1]

Admits(e) == e.count <= Limit

(* One request; a refused one counts, too.                                 *)
Attempt(s) ==
  LET e == Counted(entry[s], clock)
  IN /\ attempts < MaxAttempts /\ attempts' = attempts + 1
     /\ entry' = [entry EXCEPT ![s] = e]
     /\ admitted' = IF Admits(e) THEN [admitted EXCEPT ![s] = Append(@, clock)] ELSE admitted
     /\ UNCHANGED clock

Tick ==
  /\ clock < MaxClock /\ clock' = clock + 1
  /\ UNCHANGED <<entry, admitted, attempts>>

(* The memory of a process is gone.                                        *)
Forget(s) ==
  /\ entry' = [entry EXCEPT ![s] = NoEntry]
  /\ admitted' = [admitted EXCEPT ![s] = << >>]
  /\ UNCHANGED <<clock, attempts>>

-----------------------------------------------------------------------------
(* Properties.                                                             *)

(* How many of the requests went through between two times, ends included. *)
Through(s, from, to) ==
  Cardinality({i \in DOMAIN admitted[s] : admitted[s][i] \in from..to})

(* However its attempts fall, a client never gets twice the limit through  *)
(* in a stretch as long as the window, ends included: a window opens with  *)
(* a request and the next one opens strictly after Reset (rateLimit).      *)
AdmissionsBounded ==
  \A s \in Servers, t \in Times : Through(s, t, t + Window) < 2 * Limit

(* Nobody is turned away for attempts that were themselves turned away:    *)
(* behind every refusal are Limit requests that went through within the last *)
(* window.                                                                 *)
RefusalsJustified ==
  [][\A s \in Servers :
       entry'[s] # entry[s] /\ ~Admits(entry'[s])
       => Through(s, IF clock > Window THEN clock - Window ELSE 1, clock) >= Limit]_limiterVars
=============================================================================
