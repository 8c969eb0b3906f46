-------------------------- MODULE FutexMutexProofs --------------------------
(***************************************************************************)
(* What TLAPS proves of FutexMutex, for any set of threads: the types,     *)
(* mutual exclusion, the absence of lost wakeups, and that every step of   *)
(* the mutex is a step of the abstract lock or leaves it unchanged.        *)
(* Liveness (ImplementsLock's fairness, FiniteCallsReturn) stays with TLC. *)
(***************************************************************************)
EXTENDS FutexMutex, TLAPS

\* The program counter and the state keep their types: fetch_sub is reached
\* only by an owner, whose lock makes the state 1 or 2.
TypeInv == TypeOK /\ MutualExclusion

LEMMA InitTypeInv == Init => TypeInv
  BY DEF Init, TypeInv, TypeOK, MutualExclusion, Holders, Holds, PCs

LEMMA StepTypeOK ==
  ASSUME TypeInv, NEW t \in Threads,
         Step(t) \/ CallLock(t) \/ SpuriousWake(t)
  PROVE  TypeOK'
<1>0. TypeOK /\ MutualExclusion
  BY DEF TypeInv
<1> USE <1>0 DEF TypeOK, Goto, PCs, SlowPath
<1>1. CASE FastPath(t)       BY <1>1 DEF FastPath
<1>2. CASE MarkContended(t)  BY <1>2 DEF MarkContended
<1>3. CASE FutexWait(t)      BY <1>3 DEF FutexWait
<1>4. CASE Retry(t)          BY <1>4 DEF Retry
<1>5. CASE Reload(t)         BY <1>5 DEF Reload
<1>6. CASE CallUnlock(t)     BY <1>6 DEF CallUnlock
<1>7. CASE FetchSub(t)
  <2>1. t \in Holders
    BY <1>7 DEF FetchSub, Holders, Holds
  <2>2. state \in 1..2
    BY <2>1 DEF MutualExclusion
  <2> QED
    BY <1>7, <2>2 DEF FetchSub
<1>8. CASE StoreZero(t)      BY <1>8 DEF StoreZero
<1>9. CASE WakeOne(t)        BY <1>9 DEF WakeOne, Asleep
<1>10. CASE CallLock(t)      BY <1>10 DEF CallLock
<1>11. CASE SpuriousWake(t)  BY <1>11 DEF SpuriousWake
<1> QED
  BY <1>1, <1>2, <1>3, <1>4, <1>5, <1>6, <1>7, <1>8, <1>9, <1>10, <1>11 DEF Step

\* A step that moves a thread between two places outside the critical section
\* and leaves the state alone disturbs nobody's lock.
LEMMA StepMutualExclusion ==
  ASSUME TypeInv, NEW t \in Threads,
         Step(t) \/ CallLock(t) \/ SpuriousWake(t)
  PROVE  MutualExclusion'
<1>0. TypeOK /\ MutualExclusion
  BY DEF TypeInv
<1> USE <1>0 DEF TypeOK, MutualExclusion, Holders, Holds, Goto
<1>1. CASE FastPath(t)       BY <1>1 DEF FastPath
<1>2. CASE MarkContended(t)  BY <1>2 DEF MarkContended
<1>3. CASE FutexWait(t)      BY <1>3 DEF FutexWait
<1>4. CASE Retry(t)          BY <1>4 DEF Retry
<1>5. CASE Reload(t)         BY <1>5 DEF Reload
<1>6. CASE CallUnlock(t)     BY <1>6 DEF CallUnlock
<1>7. CASE FetchSub(t)       BY <1>7 DEF FetchSub
<1>8. CASE StoreZero(t)      BY <1>8 DEF StoreZero
<1>9. CASE WakeOne(t)        BY <1>9 DEF WakeOne, Asleep
<1>10. CASE CallLock(t)      BY <1>10 DEF CallLock
<1>11. CASE SpuriousWake(t)  BY <1>11 DEF SpuriousWake
<1> QED
  BY <1>1, <1>2, <1>3, <1>4, <1>5, <1>6, <1>7, <1>8, <1>9, <1>10, <1>11 DEF Step

LEMMA TypeInvInductive == TypeInv /\ [Next]_vars => TypeInv'
<1> SUFFICES ASSUME TypeInv, [Next]_vars PROVE TypeInv'
  OBVIOUS
<1>1. CASE UNCHANGED vars
  BY <1>1 DEF vars, TypeInv, TypeOK, MutualExclusion, Holders, Holds
<1>2. CASE MutexDeinit
  BY <1>2 DEF MutexDeinit, TypeInv, TypeOK, MutualExclusion, Holders, Holds
<1>3. ASSUME NEW t \in Threads, Step(t) \/ CallLock(t) \/ SpuriousWake(t)
      PROVE TypeInv'
  BY <1>3, StepTypeOK, StepMutualExclusion DEF TypeInv
<1> QED
  BY <1>1, <1>2, <1>3 DEF Next

\* The type invariant of the mutex holds in every reachable state.
THEOREM TypeCorrect == Spec => []TypeOK
<1>1. TypeInv => TypeOK
  BY DEF TypeInv
<1> QED
  BY <1>1, InitTypeInv, TypeInvInductive, PTL DEF Spec

\* At most one thread is between the CAS that takes the lock and the write
\* that frees it, and the state is 0 exactly when none is.
THEOREM Exclusion == Spec => []MutualExclusion
<1>1. TypeInv => MutualExclusion
  BY DEF TypeInv
<1> QED
  BY <1>1, InitTypeInv, TypeInvInductive, PTL DEF Spec

-----------------------------------------------------------------------------
\* NoLostWakeup is inductive over the type invariant.  The step that could
\* break it is a release with sleepers left: MutexUnlock only writes 0 over a
\* 2 at "store", and goes on to "wake".
LEMMA NoLostWakeupInductive ==
  TypeInv /\ NoLostWakeup /\ [Next]_vars => NoLostWakeup'
<1> SUFFICES ASSUME TypeInv, NoLostWakeup, [Next]_vars PROVE NoLostWakeup'
  OBVIOUS
<1>0. TypeOK
  BY DEF TypeInv
<1> USE <1>0 DEF TypeOK, NoLostWakeup, Asleep, SlowPath, Goto
<1>1. CASE UNCHANGED vars    BY <1>1 DEF vars
<1>2. CASE MutexDeinit       BY <1>2 DEF MutexDeinit
<1>3. ASSUME NEW t \in Threads, Step(t) \/ CallLock(t) \/ SpuriousWake(t)
      PROVE NoLostWakeup'
  <2>1. CASE FastPath(t)       BY <2>1 DEF FastPath
  <2>2. CASE MarkContended(t)  BY <2>2 DEF MarkContended
  <2>3. CASE FutexWait(t)      BY <2>3 DEF FutexWait
  <2>4. CASE Retry(t)          BY <2>4 DEF Retry
  <2>5. CASE Reload(t)         BY <2>5 DEF Reload
  <2>6. CASE CallUnlock(t)     BY <2>6 DEF CallUnlock
  <2>7. CASE FetchSub(t)       BY <2>7 DEF FetchSub
  <2>8. CASE StoreZero(t)      BY <2>8 DEF StoreZero
  <2>9. CASE WakeOne(t)
    <3>1. CASE Asleep = {}     BY <2>9, <3>1 DEF WakeOne
    <3>2. CASE \E u \in Asleep : pc' = [pc EXCEPT ![t] = "idle", ![u] = "retry"]
      <4>1. PICK u \in Asleep : pc' = [pc EXCEPT ![t] = "idle", ![u] = "retry"]
        BY <3>2
      <4>2. u \in Threads /\ pc'[u] = "retry"
        BY <4>1
      <4> QED
        BY <4>2
    <3> QED
      BY <2>9, <3>1, <3>2 DEF WakeOne
  <2>10. CASE CallLock(t)      BY <2>10 DEF CallLock
  <2>11. CASE SpuriousWake(t)  BY <2>11 DEF SpuriousWake
  <2> QED
    BY <1>3, <2>1, <2>2, <2>3, <2>4, <2>5, <2>6, <2>7, <2>8, <2>9, <2>10, <2>11 DEF Step
<1> QED
  BY <1>1, <1>2, <1>3 DEF Next

\* While a thread sleeps, somebody is bound to wake it: a marked state, an
\* unlocker on its way to the wake, or a waiter that will restore the mark.
THEOREM Wakeup == Spec => []NoLostWakeup
<1>1. Init => NoLostWakeup
  BY DEF Init, NoLostWakeup, Asleep
<1> QED
  BY <1>1, InitTypeInv, TypeInvInductive, NoLostWakeupInductive, PTL DEF Spec

-----------------------------------------------------------------------------
\* Refinement, step by step: what each step does to the waiters and owners.
LEMMA StepRefines ==
  ASSUME TypeInv, NEW t \in Threads, 
         Step(t) \/ CallLock(t) \/ SpuriousWake(t)
  PROVE  [Lock!LockNext]_(Lock!lockVars)
<1>0. TypeOK /\ MutualExclusion
  BY DEF TypeInv
<1> DEFINE Same == InLock' = InLock /\ Holders' = Holders
           Enter == InLock' = InLock \cup {t} /\ Holders' = Holders
                    /\ t \notin InLock \cup Holders
           Take == t \in InLock /\ Holders = {} /\ Holders' = {t}
                   /\ InLock' = InLock \ {t}
           Free == Holders = {t} /\ Holders' = {} /\ InLock' = InLock
<1>r. Same \/ Enter \/ Take \/ Free
  <2> USE <1>0 DEF TypeOK, InLock, Holders, Holds, Goto, SlowPath
  <2>1. CASE FastPath(t)
    <3>1. CASE state = 0       BY <2>1, <3>1 DEF FastPath, MutualExclusion
    <3>2. CASE state # 0       BY <2>1, <3>2 DEF FastPath
    <3> QED                    BY <3>1, <3>2
  <2>2. CASE MarkContended(t)  BY <2>2 DEF MarkContended
  <2>3. CASE FutexWait(t)      BY <2>3 DEF FutexWait
  <2>4. CASE Retry(t)
    <3>1. CASE state = 0       BY <2>4, <3>1 DEF Retry, MutualExclusion
    <3>2. CASE state # 0       BY <2>4, <3>2 DEF Retry
    <3> QED                    BY <3>1, <3>2
  <2>5. CASE Reload(t)         BY <2>5 DEF Reload
  <2>6. CASE CallUnlock(t)     BY <2>6 DEF CallUnlock
  <2>7. CASE FetchSub(t)
    <3>1. CASE state = 1       BY <2>7, <3>1 DEF FetchSub, MutualExclusion
    <3>2. CASE state # 1       BY <2>7, <3>2 DEF FetchSub
    <3> QED                    BY <3>1, <3>2
  <2>8. CASE StoreZero(t)      BY <2>8 DEF StoreZero, MutualExclusion
  <2>9. CASE WakeOne(t)        BY <2>9 DEF WakeOne, Asleep
  <2>10. CASE CallLock(t)      BY <2>10 DEF CallLock
  <2>11. CASE SpuriousWake(t)  BY <2>11 DEF SpuriousWake
  <2> QED
    BY <2>1, <2>2, <2>3, <2>4, <2>5, <2>6, <2>7, <2>8, <2>9, <2>10, <2>11 DEF Step
<1>1. CASE Same   BY <1>1 DEF Lock!lockVars
<1>2. CASE Enter  BY <1>2 DEF Lock!LockNext, Lock!Request
<1>3. CASE Take   BY <1>3 DEF Lock!LockNext, Lock!Acquire
<1>4. CASE Free   BY <1>4 DEF Lock!LockNext, Lock!Release
<1> QED
  BY <1>r, <1>1, <1>2, <1>3, <1>4

\* Every behaviour of the mutex is, step by step, one of the abstract lock:
\* the safety half of ImplementsLock.
THEOREM RefinesLock == Spec => Lock!LockInit /\ [][Lock!LockNext]_(Lock!lockVars)
<1>1. Init => Lock!LockInit
  BY DEF Init, Lock!LockInit, InLock, Holders, Holds, SlowPath
<1>2. TypeInv /\ [Next]_vars => [Lock!LockNext]_(Lock!lockVars)
  <2> SUFFICES ASSUME TypeInv, [Next]_vars
               PROVE [Lock!LockNext]_(Lock!lockVars)
    OBVIOUS
  <2>1. CASE UNCHANGED vars
    BY <2>1 DEF vars, Lock!lockVars, InLock, Holders, Holds
  <2>2. CASE MutexDeinit
    BY <2>2 DEF MutexDeinit, Lock!lockVars, InLock, Holders, Holds
  <2> QED
    BY <2>1, <2>2, StepRefines DEF Next
<1> QED
  BY <1>1, <1>2, InitTypeInv, TypeInvInductive, PTL DEF Spec
=============================================================================
