------------------------- MODULE RateLimiterProofs -------------------------
(***************************************************************************)
(* The limiter keeps its promises for any limit, window, number of         *)
(* processes and run of the clock.  The lemmas are about one client of one *)
(* process; ApiServerProofs puts them to use.                              *)
(***************************************************************************)
EXTENDS RateLimiter, FiniteSetTheorems, TLAPS

(* The requests that went through between two times, in the window that    *)
(* ends at `reset', and in a stretch of the same length before it opened.  *)
Hits(a, from, to) == {i \in DOMAIN a : a[i] \in from..to}
Current(a, reset) == {i \in DOMAIN a : a[i] + Window >= reset}
Previous(a, reset) ==
  {i \in DOMAIN a : a[i] + Window < reset /\ a[i] + Window + Window >= reset}

(* The entry counts what went through in its window, up to the limit; the  *)
(* window opened with a request; and the stretch before it has room left,  *)
(* because the request that opened the window before is not in it.         *)
EntryOK(a, e, now) ==
  /\ e.count = 0 => a = << >> /\ e.reset = 0
  /\ e.count > 0 =>
       /\ Window < e.reset /\ e.reset <= now + Window
       /\ \A i \in DOMAIN a : a[i] <= now /\ a[i] <= e.reset
       /\ \E i \in DOMAIN a : a[i] + Window = e.reset
       /\ Cardinality(Current(a, e.reset)) = IF e.count <= Limit THEN e.count ELSE Limit
       /\ Cardinality(Previous(a, e.reset)) < Limit

Bounded(a) == \A t \in Times : Cardinality(Hits(a, t, t + Window)) < 2 * Limit

(* The inductive invariant.                                                *)
WindowsOK ==
  \A s \in Servers : EntryOK(admitted[s], entry[s], clock) /\ Bounded(admitted[s])

LimiterInv == LimiterTypeOK /\ WindowsOK

-----------------------------------------------------------------------------
(* Counting in a list of times.                                            *)

LEMMA Indices ==
  ASSUME NEW a \in Seq(Times)
  PROVE  /\ \A S \in SUBSET DOMAIN a : IsFiniteSet(S) /\ Cardinality(S) \in Nat
         /\ \A S, T \in SUBSET DOMAIN a : S \subseteq T => Cardinality(S) <= Cardinality(T)
<1>1. IsFiniteSet(DOMAIN a)
  BY FS_Interval
<1>2. ASSUME NEW S \in SUBSET DOMAIN a PROVE IsFiniteSet(S) /\ Cardinality(S) \in Nat
  BY <1>1, FS_Subset, FS_CardinalityType
<1>3. ASSUME NEW S \in SUBSET DOMAIN a, NEW T \in SUBSET DOMAIN a, S \subseteq T
      PROVE  Cardinality(S) <= Cardinality(T)
  BY <1>2, <1>3, FS_Subset
<1> QED BY <1>2, <1>3

(* One more time at the end.                                               *)
LEMMA Appended ==
  ASSUME NEW a \in Seq(Times), NEW now \in Times
  PROVE  LET b == Append(a, now) n == Len(a) + 1
         IN /\ b \in Seq(Times) /\ n \notin DOMAIN a
            /\ DOMAIN b = DOMAIN a \cup {n}
            /\ b[n] = now /\ \A i \in DOMAIN a : b[i] = a[i]
BY DEF Times

(* A set of indices that misses one member of a larger one.                *)
LEMMA Smaller ==
  ASSUME NEW a \in Seq(Times), NEW T \in SUBSET DOMAIN a, NEW S \in SUBSET T,
         NEW i \in T, i \notin S
  PROVE  Cardinality(S) < Cardinality(T)
<1>1. IsFiniteSet(T) /\ Cardinality(T) \in Nat /\ Cardinality(S) \in Nat
  BY Indices
<1>2. Cardinality(S) <= Cardinality(T) /\ Cardinality(S) # Cardinality(T)
  BY <1>1, FS_Subset
<1> QED BY <1>1, <1>2

(* A set of indices that two others cover.                                 *)
LEMMA Covered ==
  ASSUME NEW a \in Seq(Times), NEW S \in SUBSET DOMAIN a, NEW T \in SUBSET DOMAIN a,
         NEW U \in SUBSET DOMAIN a, S \subseteq T \cup U
  PROVE  Cardinality(S) <= Cardinality(T) + Cardinality(U)
<1>1. /\ IsFiniteSet(T) /\ IsFiniteSet(U)
      /\ Cardinality(S) \in Nat /\ Cardinality(T) \in Nat /\ Cardinality(U) \in Nat
      /\ Cardinality(T \cup U) \in Nat /\ Cardinality(T \cap U) \in Nat
      /\ Cardinality(S) <= Cardinality(T \cup U)
  BY Indices
<1>2. Cardinality(T \cup U) = Cardinality(T) + Cardinality(U) - Cardinality(T \cap U)
  BY <1>1, FS_Union
<1> QED BY <1>1, <1>2

-----------------------------------------------------------------------------
(* One attempt in a window that is still open and has room.                *)
LEMMA AdmittedInWindow ==
  ASSUME NEW a \in Seq(Times), NEW e \in [count: Nat, reset: Nat], NEW now \in Times,
         EntryOK(a, e, now), Bounded(a), now <= e.reset, e.count > 0, e.count < Limit
  PROVE  LET b == Append(a, now) f == [e EXCEPT !.count = @ + 1]
         IN EntryOK(b, f, now) /\ Bounded(b)
<1> DEFINE b == Append(a, now)
           n == Len(a) + 1
           f == [e EXCEPT !.count = @ + 1]
<1> USE LimiterAssumption
<1>0. now \in Nat /\ \A i \in DOMAIN a : a[i] \in Nat
  BY DEF Times
<1>1. /\ b \in Seq(Times) /\ n \notin DOMAIN a /\ DOMAIN b = DOMAIN a \cup {n}
      /\ b[n] = now /\ \A i \in DOMAIN a : b[i] = a[i]
  BY Appended
<1>2. f = [count |-> e.count + 1, reset |-> e.reset]
  OBVIOUS
<1> HIDE DEF b, n, f
<1>3. Current(b, e.reset) = Current(a, e.reset) \cup {n}
  BY <1>0, <1>1 DEF EntryOK, Current
<1>4. Cardinality(Current(b, e.reset)) = Cardinality(Current(a, e.reset)) + 1
  <2>1. IsFiniteSet(Current(a, e.reset)) /\ n \notin Current(a, e.reset)
    BY <1>1, Indices DEF Current
  <2> QED BY <1>3, <2>1, FS_AddElement
<1>5. Previous(b, e.reset) = Previous(a, e.reset)
  BY <1>0, <1>1 DEF EntryOK, Previous
<1>6. EntryOK(b, f, now)
  <2>1. Cardinality(Current(b, f.reset)) = f.count /\ f.count <= Limit
    BY <1>2, <1>4 DEF EntryOK
  <2>2. \A i \in DOMAIN b : b[i] <= now /\ b[i] <= f.reset
    BY <1>0, <1>1, <1>2 DEF EntryOK
  <2>3. \E i \in DOMAIN b : b[i] + Window = f.reset
    BY <1>1, <1>2 DEF EntryOK
  <2> QED BY <1>2, <1>5, <2>1, <2>2, <2>3 DEF EntryOK
<1>7. ASSUME NEW t \in Times PROVE Cardinality(Hits(b, t, t + Window)) < 2 * Limit
  <2>0. t \in Nat
    BY DEF Times
  <2>1. CASE now \notin t..(t + Window)
    <3>1. Hits(b, t, t + Window) = Hits(a, t, t + Window)
      BY <1>1, <2>1 DEF Hits
    <3> QED BY <3>1 DEF Bounded
  <2>2. CASE now \in t..(t + Window)
    <3>1. Hits(b, t, t + Window) \subseteq Current(b, e.reset) \cup Previous(a, e.reset)
      BY <1>0, <1>1, <2>0, <2>2 DEF Hits, Current, Previous, EntryOK
    <3>2. /\ Cardinality(Current(b, e.reset)) \in Nat
          /\ Cardinality(Previous(a, e.reset)) \in Nat
      BY <1>1, Indices DEF Current, Previous
    <3>4. Cardinality(Hits(b, t, t + Window))
            <= Cardinality(Current(b, e.reset)) + Cardinality(Previous(a, e.reset))
      BY <1>1, <3>1, Covered DEF Hits, Current, Previous
    <3>5. Cardinality(Current(b, e.reset)) <= Limit /\ Cardinality(Previous(a, e.reset)) < Limit
      BY <1>4 DEF EntryOK
    <3>6. Cardinality(Hits(b, t, t + Window)) \in Nat
      BY <1>1, Indices DEF Hits
    <3> QED BY <3>2, <3>4, <3>5, <3>6
  <2> QED BY <2>1, <2>2
<1> QED BY <1>6, <1>7 DEF Bounded, b, f

(* The first attempt of a window.                                          *)
LEMMA AdmittedInNewWindow ==
  ASSUME NEW a \in Seq(Times), NEW e \in [count: Nat, reset: Nat], NEW now \in Times,
         EntryOK(a, e, now), Bounded(a), e.count = 0 \/ now > e.reset
  PROVE  LET b == Append(a, now) f == [count |-> 1, reset |-> now + Window]
         IN EntryOK(b, f, now) /\ Bounded(b)
<1> DEFINE b == Append(a, now)
           n == Len(a) + 1
           f == [count |-> 1, reset |-> now + Window]
           Recent == {i \in DOMAIN a : a[i] + Window >= now}
<1> USE LimiterAssumption
<1>0. now \in Nat /\ now > 0 /\ \A i \in DOMAIN a : a[i] \in Nat
  BY DEF Times
<1>1. /\ b \in Seq(Times) /\ n \notin DOMAIN a /\ DOMAIN b = DOMAIN a \cup {n}
      /\ b[n] = now /\ \A i \in DOMAIN a : b[i] = a[i]
  BY Appended
<1> HIDE DEF b, n
<1>2. \A i \in DOMAIN a : a[i] < now
  BY <1>0 DEF EntryOK
<1>3. Cardinality(Recent) \in Nat /\ Cardinality(Recent) < Limit
  <2>1. Cardinality(Recent) \in Nat
    BY Indices
  <2>2. CASE e.count = 0
    <3>1. Recent = {}
      BY <2>2 DEF EntryOK
    <3>2. Cardinality({}) = 0
      BY FS_EmptySet
    <3> HIDE DEF Recent
    <3> QED BY <3>1, <3>2
  <2>3. CASE e.count > 0
    <3>1. PICK i \in DOMAIN a : a[i] + Window = e.reset
      BY <2>3 DEF EntryOK
    <3>2. i \in Current(a, e.reset) /\ i \notin Recent
      BY <1>0, <2>3, <3>1 DEF Current
    <3>3. Recent \subseteq Current(a, e.reset)
      BY <1>0, <2>3 DEF Current
    <3>4. Cardinality(Recent) < Cardinality(Current(a, e.reset))
      BY <3>2, <3>3, Smaller DEF Current
    <3>5. Cardinality(Current(a, e.reset)) \in Nat /\ Cardinality(Current(a, e.reset)) <= Limit
      BY <2>3, Indices DEF Current, EntryOK
    <3> QED BY <2>1, <3>4, <3>5
  <2> QED BY <2>1, <2>2, <2>3
<1>4. EntryOK(b, f, now)
  <2>1. Current(b, f.reset) = {n}
    BY <1>0, <1>1, <1>2 DEF Current
  <2>2. Cardinality(Current(b, f.reset)) = 1
    BY <2>1, FS_Singleton
  <2>3. Previous(b, f.reset) = Recent
    BY <1>0, <1>1, <1>2 DEF Previous
  <2>4. \A i \in DOMAIN b : b[i] <= now /\ b[i] <= f.reset
    BY <1>0, <1>1, <1>2
  <2>5. n \in DOMAIN b /\ b[n] + Window = f.reset
    BY <1>1
  <2> HIDE DEF Recent
  <2> QED BY <1>0, <1>3, <2>2, <2>3, <2>4, <2>5 DEF EntryOK
<1>5. ASSUME NEW t \in Times PROVE Cardinality(Hits(b, t, t + Window)) < 2 * Limit
  <2>0. t \in Nat
    BY DEF Times
  <2>1. CASE now \notin t..(t + Window)
    <3>1. Hits(b, t, t + Window) = Hits(a, t, t + Window)
      BY <1>1, <2>1 DEF Hits
    <3> QED BY <3>1 DEF Bounded
  <2>2. CASE now \in t..(t + Window)
    <3>1. Hits(b, t, t + Window) \subseteq {n} \cup Recent
      BY <1>0, <1>1, <2>0, <2>2 DEF Hits
    <3>2. Cardinality(Hits(b, t, t + Window)) <= Cardinality({n}) + Cardinality(Recent)
      BY <1>1, <3>1, Covered DEF Hits
    <3>3. Cardinality({n}) = 1
      BY FS_Singleton
    <3>4. Cardinality(Hits(b, t, t + Window)) \in Nat
      BY <1>1, Indices DEF Hits
    <3> QED BY <1>3, <3>2, <3>3, <3>4
  <2> QED BY <2>1, <2>2
<1> QED BY <1>4, <1>5 DEF Bounded, b

(* A refused attempt leaves the list alone, and finds it full.             *)
LEMMA Refused ==
  ASSUME NEW a \in Seq(Times), NEW e \in [count: Nat, reset: Nat], NEW now \in Times,
         EntryOK(a, e, now), now <= e.reset, e.count >= Limit
  PROVE  /\ EntryOK(a, [e EXCEPT !.count = @ + 1], now)
         /\ Cardinality(Hits(a, IF now > Window THEN now - Window ELSE 1, now)) >= Limit
<1> DEFINE f == [e EXCEPT !.count = @ + 1]
           from == IF now > Window THEN now - Window ELSE 1
<1> USE LimiterAssumption
<1>0. now \in Nat /\ now > 0 /\ \A i \in DOMAIN a : a[i] \in Nat /\ a[i] > 0
  BY DEF Times
<1>1. f = [count |-> e.count + 1, reset |-> e.reset]
  OBVIOUS
<1>2. e.count > 0 /\ Cardinality(Current(a, e.reset)) = Limit
  BY DEF EntryOK
<1> HIDE DEF f
<1>3. EntryOK(a, f, now)
  BY <1>1, <1>2 DEF EntryOK
<1>4. Current(a, e.reset) \subseteq Hits(a, from, now)
  BY <1>0, <1>2 DEF Current, Hits, EntryOK
<1>5. Cardinality(Current(a, e.reset)) <= Cardinality(Hits(a, from, now))
  BY <1>4, Indices DEF Current, Hits
<1>6. Cardinality(Hits(a, from, now)) \in Nat
  BY Indices DEF Hits
<1> QED BY <1>2, <1>3, <1>5, <1>6 DEF f

(* Time only moves away from what went through.                            *)
LEMMA Later ==
  ASSUME NEW a \in Seq(Times), NEW e \in [count: Nat, reset: Nat], NEW now \in Nat,
         NEW then \in Nat, now <= then, EntryOK(a, e, now)
  PROVE  EntryOK(a, e, then)
<1> USE LimiterAssumption
<1>1. \A i \in DOMAIN a : a[i] \in Nat
  BY DEF Times
<1> QED BY <1>1 DEF EntryOK

LEMMA Fresh == EntryOK(<< >>, NoEntry, clock) /\ Bounded(<< >>)
<1>1. \A t \in Times : Hits(<< >>, t, t + Window) = {}
  BY DEF Hits
<1> QED BY <1>1, FS_EmptySet, LimiterAssumption DEF EntryOK, NoEntry, Bounded

-----------------------------------------------------------------------------
(* The limiter's steps.                                                    *)

LEMMA LimiterInitially == LimiterInit => LimiterInv
<1> SUFFICES ASSUME LimiterInit PROVE LimiterInv
  OBVIOUS
<1>1. LimiterTypeOK
  BY LimiterAssumption DEF LimiterInit, LimiterTypeOK, NoEntry, Times
<1>2. WindowsOK
  BY Fresh DEF LimiterInit, WindowsOK
<1> QED BY <1>1, <1>2 DEF LimiterInv

(* What an attempt makes of one client's entry and list, and what it means *)
(* for it to be refused.                                                   *)
LEMMA Counting ==
  ASSUME NEW a \in Seq(Times), NEW e \in [count: Nat, reset: Nat], NEW now \in Times,
         EntryOK(a, e, now), Bounded(a)
  PROVE  LET f == Counted(e, now) b == IF Admits(f) THEN Append(a, now) ELSE a
         IN /\ f \in [count: Nat, reset: Nat] /\ b \in Seq(Times)
            /\ EntryOK(b, f, now) /\ Bounded(b)
            /\ ~Admits(f) =>
                 Cardinality(Hits(a, IF now > Window THEN now - Window ELSE 1, now)) >= Limit
<1> DEFINE f == Counted(e, now)
           b == IF Admits(f) THEN Append(a, now) ELSE a
<1> USE LimiterAssumption
<1>0. now \in Nat /\ Append(a, now) \in Seq(Times)
  BY DEF Times
<1>1. f \in [count: Nat, reset: Nat]
  BY <1>0 DEF Counted
<1>2. CASE now > e.reset
  <2>1. f = [count |-> 1, reset |-> now + Window] /\ Admits(f)
    BY <1>2 DEF Counted, Admits
  <2> QED BY <1>0, <1>1, <1>2, <2>1, AdmittedInNewWindow
<1>3. CASE now <= e.reset
  <2>1. f = [e EXCEPT !.count = @ + 1] /\ f.count = e.count + 1
    BY <1>0, <1>3 DEF Counted
  <2>2. e.count > 0
    <3>1. SUFFICES ASSUME e.count = 0 PROVE FALSE
      OBVIOUS
    <3> QED BY <1>0, <1>3, <3>1 DEF EntryOK, Times
  <2>3. CASE e.count < Limit
    <3>1. Admits(f)
      BY <2>1, <2>3 DEF Admits
    <3>2. EntryOK(Append(a, now), f, now) /\ Bounded(Append(a, now))
      BY <1>3, <2>1, <2>2, <2>3, AdmittedInWindow
    <3> QED BY <1>0, <1>1, <3>1, <3>2
  <2>4. CASE e.count >= Limit
    <3>1. ~Admits(f)
      BY <2>1, <2>4 DEF Admits
    <3>2. /\ EntryOK(a, f, now)
          /\ Cardinality(Hits(a, IF now > Window THEN now - Window ELSE 1, now)) >= Limit
      BY <1>3, <2>1, <2>4, Refused
    <3> QED BY <1>1, <3>1, <3>2
  <2> QED BY <2>3, <2>4
<1> QED BY <1>0, <1>2, <1>3

LEMMA AttemptInv ==
  ASSUME LimiterInv, NEW s \in Servers, Attempt(s)
  PROVE  LimiterInv'
<1> DEFINE e == Counted(entry[s], clock)
           b == IF Admits(e) THEN Append(admitted[s], clock) ELSE admitted[s]
<1>1. /\ clock \in Times /\ UNCHANGED clock
      /\ entry \in [Servers -> [count: Nat, reset: Nat]]
      /\ admitted \in [Servers -> Seq(Times)]
      /\ \A x \in Servers : EntryOK(admitted[x], entry[x], clock) /\ Bounded(admitted[x])
  BY DEF LimiterInv, LimiterTypeOK, WindowsOK, Attempt
<1>2. /\ e \in [count: Nat, reset: Nat] /\ b \in Seq(Times)
      /\ EntryOK(b, e, clock) /\ Bounded(b)
  BY <1>1, Counting
<1>3. entry' = [entry EXCEPT ![s] = e] /\ admitted' = [admitted EXCEPT ![s] = b]
  BY <1>1 DEF Attempt
<1>4. attempts' \in 0..MaxAttempts
  BY LimiterAssumption DEF LimiterInv, LimiterTypeOK, Attempt
<1> HIDE DEF e, b
<1>5. LimiterTypeOK'
  BY <1>1, <1>2, <1>3, <1>4 DEF LimiterTypeOK
<1>6. WindowsOK'
  BY <1>1, <1>2, <1>3 DEF WindowsOK
<1> QED BY <1>5, <1>6 DEF LimiterInv

(* Every refusal has Limit requests of the last window behind it.          *)
LEMMA AttemptJustified ==
  ASSUME LimiterInv, NEW s \in Servers, Attempt(s), ~Admits(entry'[s])
  PROVE  Through(s, IF clock > Window THEN clock - Window ELSE 1, clock) >= Limit
<1>1. /\ clock \in Times /\ entry[s] \in [count: Nat, reset: Nat]
      /\ admitted[s] \in Seq(Times)
      /\ EntryOK(admitted[s], entry[s], clock) /\ Bounded(admitted[s])
  BY DEF LimiterInv, LimiterTypeOK, WindowsOK
<1>2. entry'[s] = Counted(entry[s], clock)
  BY DEF LimiterInv, LimiterTypeOK, Attempt
<1> QED BY <1>1, <1>2, Counting DEF Through, Hits

LEMMA TickInv ==
  ASSUME LimiterInv, Tick
  PROVE  LimiterInv'
<1>1. clock \in Nat /\ clock' \in Times /\ clock' \in Nat /\ clock <= clock'
  BY LimiterAssumption DEF LimiterInv, LimiterTypeOK, Tick, Times
<1>2. \A s \in Servers : EntryOK(admitted[s], entry[s], clock')
  BY <1>1, Later DEF LimiterInv, LimiterTypeOK, WindowsOK
<1> QED BY <1>1, <1>2 DEF LimiterInv, LimiterTypeOK, WindowsOK, Tick

LEMMA ForgetInv ==
  ASSUME LimiterInv, NEW s \in Servers, Forget(s)
  PROVE  LimiterInv'
<1>1. NoEntry \in [count: Nat, reset: Nat] /\ << >> \in Seq(Times)
  BY DEF NoEntry
<1>2. EntryOK(<< >>, NoEntry, clock) /\ Bounded(<< >>) /\ UNCHANGED clock
  BY Fresh DEF Forget
<1>3. LimiterTypeOK'
  BY <1>1 DEF LimiterInv, LimiterTypeOK, Forget
<1>4. WindowsOK'
  BY <1>2 DEF LimiterInv, LimiterTypeOK, WindowsOK, Forget
<1> QED BY <1>3, <1>4 DEF LimiterInv

LEMMA LimiterIdles ==
  ASSUME LimiterInv, UNCHANGED limiterVars
  PROVE  LimiterInv'
BY DEF LimiterInv, LimiterTypeOK, WindowsOK, limiterVars

LEMMA BoundedAdmissions == LimiterInv => AdmissionsBounded
BY DEF LimiterInv, WindowsOK, Bounded, AdmissionsBounded, Through, Hits
=============================================================================
