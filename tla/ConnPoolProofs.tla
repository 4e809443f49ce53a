--------------------------- MODULE ConnPoolProofs ---------------------------
(***************************************************************************)
(* ConnPool never locks up when the pool has more connections than the     *)
(* process has job loops, for any number of loops, handlers, connections   *)
(* and users.                                                              *)
(***************************************************************************)
EXTENDS ConnPool, FiniteSetTheorems, TLAPS

(* A connection is left for a statement as long as there are more of them  *)
(* than loops, whatever locks are held or waited for: the pigeonhole       *)
(* principle applied to the connections lockUser keeps.                    *)
LEMMA ConnectionLeft ==
  ASSUME TypeOK, Cardinality(Loops) < Cardinality(Conns),
         \A c \in Clients : stmt[c] = NoConn
  PROVE  Free # {}
<1> DEFINE T == {lockConn[l] : l \in Loops}
<1>1. lockConn \in Surjection(Loops, T)
  BY DEF TypeOK, Surjection
<1>2. IsFiniteSet(T) /\ Cardinality(T) <= Cardinality(Loops)
  BY <1>1, FS_Surjection, PoolAssumption
<1> HIDE DEF T
<1>3. ~(Conns \subseteq T)
  <2> SUFFICES ASSUME Conns \subseteq T PROVE FALSE
    OBVIOUS
  <2>1. Cardinality(Conns) <= Cardinality(T)
    BY <1>2, FS_Subset
  <2>2. /\ Cardinality(Conns) \in Nat /\ Cardinality(T) \in Nat
        /\ Cardinality(Loops) \in Nat
    BY <1>2, FS_CardinalityType, PoolAssumption
  <2> QED BY <1>2, <2>1, <2>2
<1>4. PICK conn \in Conns : conn \notin T
  BY <1>3
<1>5. conn \notin Taken
  BY <1>4, PoolAssumption DEF Taken, T
<1> QED BY <1>4, <1>5 DEF Free

(* In any well-typed state of such a process somebody can go on.           *)
LEMMA TypedNotStuck ==
  ASSUME TypeOK, Cardinality(Loops) < Cardinality(Conns)
  PROVE  NotStuck
<1> SUFFICES ASSUME NEW c \in Clients, phase[c] # "idle",
                    \A d \in Clients : stmt[d] = NoConn
             PROVE  \E d \in Clients : CanMove(d)
  BY DEF NotStuck, CanMove
<1>1. Free # {}
  BY ConnectionLeft
<1>2. ASSUME NEW d \in Clients, phase[d] \notin {"idle", "lockWait"}
      PROVE  CanMove(d)
  <2>1. CASE phase[d] = "locked"
    <3>1. d \in Loops /\ left[d] \in Nat
      BY <1>2, <2>1, PoolAssumption DEF TypeOK, Clients
    <3> QED BY <1>1, <1>2, <2>1, <3>1 DEF CanMove, WantsConn, StatementPhases
  <2>2. CASE phase[d] # "locked"
    BY <1>1, <1>2, <2>2 DEF CanMove, WantsConn, StatementPhases, TypeOK
  <2> QED BY <2>1, <2>2
<1>3. CASE phase[c] # "lockWait"
  BY <1>2, <1>3
<1>4. CASE phase[c] = "lockWait"
  <2>1. c \in Loops
    BY <1>4 DEF TypeOK, Clients
  <2>2. CASE LockHeld(key[c])
    <3>1. PICK l \in Loops : phase[l] = "locked"
      BY <2>2 DEF LockHeld
    <3> QED BY <1>2, <3>1 DEF Clients
  <2>3. CASE ~LockHeld(key[c])
    BY <1>4, <2>1, <2>3 DEF CanMove
  <2> QED BY <2>2, <2>3
<1> QED BY <1>3, <1>4

LEMMA TypeNext ==
  ASSUME TypeOK, [Next]_vars
  PROVE  TypeOK'
<1> USE PoolAssumption DEF TypeOK, StatementPhases
<1>1. ASSUME NEW c \in Clients, Wake(c) PROVE TypeOK'
  BY <1>1 DEF Wake, Goto, Clients
<1>2. ASSUME NEW c \in Clients, Acquire(c) PROVE TypeOK'
  BY <1>2 DEF Acquire, Free
<1>3. ASSUME NEW c \in Clients, Reported(c) PROVE TypeOK'
  BY <1>3 DEF Reported, Return, Goto
<1>4. ASSUME NEW l \in Loops, LoopStep(l) PROVE TypeOK'
  <2>0. l \in Clients /\ left[l] \in 0..MaxStatements
    BY DEF Clients
  <2> DEFINE PhaseTyped ==
        /\ phase \in [Clients -> StatementPhases \cup {"idle", "lockConn", "lockWait"}]
        /\ \A h \in Handlers : phase[h] \in {"idle", "request"}
  <2>g. ASSUME NEW p \in StatementPhases \cup {"idle", "lockConn", "lockWait"},
               Goto(l, p) \/ UNCHANGED phase
        PROVE  PhaseTyped'
    <3>1. l \notin Handlers
      OBVIOUS
    <3>2. CASE UNCHANGED phase
      BY <3>2
    <3>3. CASE phase' = [phase EXCEPT ![l] = p]
      <4>1. phase' \in [Clients -> StatementPhases \cup {"idle", "lockConn", "lockWait"}]
        BY <2>0, <2>g, <3>3
      <4>2. \A h \in Handlers : phase'[h] = phase[h]
        BY <2>0, <3>1, <3>3 DEF Clients
      <4> QED BY <4>1, <4>2
    <3> QED BY <2>g, <3>2, <3>3 DEF Goto
  <2> HIDE DEF PhaseTyped
  <2>1. CASE Claimed(l)
    <3>1. stmt' \in [Clients -> Conns \cup {NoConn}] /\ UNCHANGED lockConn
      BY <2>1 DEF Claimed, Return
    <3>2. PhaseTyped'
      BY <2>1, <2>g DEF Claimed
    <3>3. key' \in [Loops -> Keys \cup {NoKey}]
      BY <2>1 DEF Claimed
    <3>4. left' \in [Loops -> 0..MaxStatements]
      <4>1. \A n \in 1..MaxStatements : n \in 0..MaxStatements
        OBVIOUS
      <4> QED BY <2>1, <4>1 DEF Claimed
    <3> QED BY <3>1, <3>2, <3>3, <3>4 DEF PhaseTyped
  <2>2. CASE AccountRead(l)
    <3>1. stmt' \in [Clients -> Conns \cup {NoConn}] /\ UNCHANGED <<lockConn, left>>
      BY <2>2 DEF AccountRead, Return
    <3>2. PhaseTyped'
      BY <2>2, <2>g DEF AccountRead
    <3>3. key' \in [Loops -> Keys \cup {NoKey}]
      BY <2>2 DEF AccountRead
    <3> QED BY <3>1, <3>2, <3>3 DEF PhaseTyped
  <2>3. CASE AcquireLockConn(l)
    <3>1. PhaseTyped'
      BY <2>3, <2>g DEF AcquireLockConn
    <3> QED BY <2>3, <3>1 DEF AcquireLockConn, Free, PhaseTyped
  <2>4. CASE Lock(l)
    <3>1. PhaseTyped'
      BY <2>4, <2>g DEF Lock
    <3> QED BY <2>4, <3>1 DEF Lock, PhaseTyped
  <2>5. CASE LockFailed(l) \/ Unlock(l)
    <3>1. ReleaseLock(l)
      BY <2>5 DEF LockFailed, Unlock
    <3>2. PhaseTyped'
      BY <3>1, <2>g DEF ReleaseLock
    <3> QED BY <3>1, <3>2 DEF ReleaseLock, PhaseTyped
  <2>6. CASE StatementDone(l)
    <3>1. /\ stmt' \in [Clients -> Conns \cup {NoConn}] /\ UNCHANGED <<lockConn, key>>
          /\ left' = [left EXCEPT ![l] = left[l] - 1] /\ left[l] > 0
      BY <2>6 DEF StatementDone, Return
    <3>2. left[l] - 1 \in 0..MaxStatements
      BY <2>0, <3>1
    <3>3. PhaseTyped'
      BY <2>6, <2>g DEF StatementDone
    <3> QED BY <3>1, <3>2, <3>3 DEF PhaseTyped
  <2> QED BY <1>4, <2>1, <2>2, <2>3, <2>4, <2>5, <2>6 DEF LoopStep
<1>5. CASE UNCHANGED vars
  BY <1>5 DEF vars
<1> QED BY <1>1, <1>2, <1>3, <1>4, <1>5 DEF Next

(* Clients and connections keep their types.                               *)
THEOREM TypeCorrect == Spec => []TypeOK
<1>1. Init => TypeOK
  BY PoolAssumption DEF Init, TypeOK, StatementPhases, Clients
<1>2. TypeOK /\ [Next]_vars => TypeOK'
  BY TypeNext
<1> QED BY <1>1, <1>2, PTL DEF Spec

(* With more connections than job loops the process never locks up.        *)
THEOREM EnoughConnections ==
  Cardinality(Loops) < Cardinality(Conns) => (Spec => []NotStuck)
<1>1. Cardinality(Loops) < Cardinality(Conns) /\ TypeOK => NotStuck
  BY TypedNotStuck
<1>2. CASE Cardinality(Loops) < Cardinality(Conns)
  <2>1. TypeOK => NotStuck
    BY <1>1, <1>2
  <2> QED BY <2>1, TypeCorrect, PTL
<1> QED BY <1>2
=============================================================================
