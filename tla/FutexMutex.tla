----------------------------- MODULE FutexMutex -----------------------------
(***************************************************************************)
(* The three-state futex mutex of Source/Misra/Sys/Mutex.c (the direct     *)
(* syscall path of Linux and macOS).  One action per atomic operation on   *)
(* Mutex._state and per kernel call, so that every interleaving of the     *)
(* threads between two of them is a behaviour.                             *)
(*                                                                         *)
(* All the accesses are to one atomic word, whose modifications are        *)
(* totally ordered whatever memory_order they name: interleaving them is   *)
(* exact.  What the orders publish of OTHER memory is not modelled.        *)
(***************************************************************************)
EXTENDS Naturals

CONSTANT Threads

VARIABLES
    state,  \* Mutex._state: 0 unlocked, 1 locked, 2 locked with waiters
    pc,     \* pc[t]: the next step of thread t
    c       \* c[t]: the local `c` of MutexLock, the state t last read

vars == <<state, pc, c>>

\* A thread is outside the mutex ("idle"), inside MutexLock before ("try") or
\* in ("mark", "wait", "asleep", "retry", "reload") its slow path, owns the
\* lock ("cs"), or is inside MutexUnlock ("sub", "store", "wake").
SlowPath == {"mark", "wait", "asleep", "retry", "reload"}
PCs == {"idle", "try"} \cup SlowPath \cup {"cs", "sub", "store", "wake"}

Goto(t, l) == pc' = [pc EXCEPT ![t] = l]
Asleep == {t \in Threads : pc[t] = "asleep"}

\* MutexInit(): an unlocked mutex nobody uses yet.
Init ==
    /\ state = 0
    /\ pc = [t \in Threads |-> "idle"]
    /\ c = [t \in Threads |-> 0]

\* MutexLock is called.
CallLock(t) ==
    /\ pc[t] = "idle"
    /\ Goto(t, "try")
    /\ UNCHANGED <<state, c>>

\* The fast path: CAS 0 -> 1, or `c = expected`, the value the CAS saw.
FastPath(t) ==
    /\ pc[t] = "try"
    /\ \/ /\ state = 0
          /\ state' = 1
          /\ Goto(t, "cs")
          /\ UNCHANGED c
       \/ /\ state # 0
          /\ c' = [c EXCEPT ![t] = state]
          /\ Goto(t, "mark")
          /\ UNCHANGED state

\* Mutant: marking by an increment, which counts waiters in a word meant for a
\* flag.
MarkByIncrement(t) ==
    /\ pc[t] = "mark"
    /\ state' = state + 1
    /\ Goto(t, "wait")
    /\ UNCHANGED c

\* `c == 2 || CAS 1 -> 2`: sleep if either holds, else go on to the retry.
MarkContended(t) ==
    /\ pc[t] = "mark"
    /\ \/ c[t] = 2 /\ Goto(t, "wait") /\ UNCHANGED state
       \/ c[t] # 2 /\ state = 1 /\ state' = 2 /\ Goto(t, "wait")
       \/ c[t] # 2 /\ state # 1 /\ Goto(t, "retry") /\ UNCHANGED state
    /\ UNCHANGED c

\* mutex_wait(&state, 2): the kernel compares and queues in one step.
FutexWait(t) ==
    /\ pc[t] = "wait"
    /\ Goto(t, IF state = 2 THEN "asleep" ELSE "retry")
    /\ UNCHANGED <<state, c>>

\* FUTEX_WAIT may also return with no wake (a signal); the result is ignored.
SpuriousWake(t) ==
    /\ pc[t] = "asleep"
    /\ Goto(t, "retry")
    /\ UNCHANGED <<state, c>>

\* Mutant: a CAS from 0 to 1, which forgets the other sleepers.
RetryAsUncontended(t) ==
    /\ pc[t] = "retry"
    /\ IF state = 0 THEN state' = 1 /\ Goto(t, "cs")
                    ELSE Goto(t, "reload") /\ UNCHANGED state
    /\ UNCHANGED c

\* Mutant: a retry that takes the lock whenever it is not marked contended.
RetryUnlessContended(t) ==
    /\ pc[t] = "retry"
    /\ IF state # 2 THEN state' = 2 /\ Goto(t, "cs")
                    ELSE Goto(t, "reload") /\ UNCHANGED state
    /\ UNCHANGED c

\* CAS 0 -> 2: the lock is taken with the contended marker kept.
Retry(t) ==
    /\ pc[t] = "retry"
    /\ IF state = 0 THEN state' = 2 /\ Goto(t, "cs")
                    ELSE Goto(t, "reload") /\ UNCHANGED state
    /\ UNCHANGED c

\* `c = atomic_load(&m->_state)`, back to the head of the loop.
Reload(t) ==
    /\ pc[t] = "reload"
    /\ c' = [c EXCEPT ![t] = state]
    /\ Goto(t, "mark")
    /\ UNCHANGED state

\* The owner calls MutexUnlock.
CallUnlock(t) ==
    /\ pc[t] = "cs"
    /\ Goto(t, "sub")
    /\ UNCHANGED <<state, c>>

\* Mutant: an unlock that takes the decrement of a contended state for the
\* release.
FetchSubOnly(t) ==
    /\ pc[t] = "sub"
    /\ state' = state - 1
    /\ Goto(t, IF state = 1 THEN "idle" ELSE "wake")
    /\ UNCHANGED c

\* Mutant: an unlock that never wakes.
FetchSubNoWake(t) ==
    /\ pc[t] = "sub"
    /\ state' = 0
    /\ Goto(t, "idle")
    /\ UNCHANGED c

\* fetch_sub(1): from 1 the lock is released, from 2 it is not yet.
FetchSub(t) ==
    /\ pc[t] = "sub"
    /\ state' = state - 1
    /\ Goto(t, IF state = 1 THEN "idle" ELSE "store")
    /\ UNCHANGED c

\* atomic_store(0), whatever other threads made of the state meanwhile.
StoreZero(t) ==
    /\ pc[t] = "store"
    /\ state' = 0
    /\ Goto(t, "wake")
    /\ UNCHANGED c

\* mutex_wake_one: at most one sleeper, whichever the kernel picks.
WakeOne(t) ==
    /\ pc[t] = "wake"
    /\ \/ Asleep = {} /\ Goto(t, "idle")
       \/ \E u \in Asleep : pc' = [pc EXCEPT ![t] = "idle", ![u] = "retry"]
    /\ UNCHANGED <<state, c>>

\* MutexDeinit by the last user of the mutex: zero the struct.
MutexDeinit ==
    /\ \A t \in Threads : pc[t] = "idle"
    /\ state' = 0
    /\ UNCHANGED <<pc, c>>

\* The steps a thread takes by itself once it is inside the mutex.
Step(t) ==
    \/ FastPath(t) \/ MarkContended(t) \/ FutexWait(t) \/ Retry(t) \/ Reload(t)
    \/ CallUnlock(t) \/ FetchSub(t) \/ StoreZero(t) \/ WakeOne(t)

Next ==
    \/ \E t \in Threads : Step(t) \/ CallLock(t) \/ SpuriousWake(t)
    \/ MutexDeinit

\* The kernel runs every runnable thread, and an owner does unlock.  Nobody
\* has to call MutexLock, and no sleeper is woken unless somebody wakes it.
Fairness == \A t \in Threads : WF_vars(Step(t))

Spec == Init /\ [][Next]_vars /\ Fairness

-----------------------------------------------------------------------------
\* The lock is owned from the CAS that takes it to the write that frees it.
Holds(t) == pc[t] \in {"cs", "sub", "store"}

Holders == {t \in Threads : Holds(t)}
InLock == {t \in Threads : pc[t] \in {"try"} \cup SlowPath}

\* Type invariant: _state never leaves 0..2 (a fetch_sub on an unlocked mutex
\* would), and every thread is at a step of MutexLock or MutexUnlock.
TypeOK ==
    /\ state \in 0..2
    /\ pc \in [Threads -> PCs]
    /\ c \in [Threads -> 0..2]

\* At most one thread owns the mutex, and _state is 0 exactly while none does:
\* in particular not in the window of MutexUnlock between fetch_sub and store.
MutualExclusion ==
    /\ \A t, u \in Holders : t = u
    /\ state = 0 <=> Holders = {}

\* No lost wakeup: while a thread sleeps in FUTEX_WAIT, either the state tells
\* the next MutexUnlock to wake, or an unlocker is still going to, or a thread
\* is awake in the slow path and will take the lock with the marker set.
NoLostWakeup ==
    Asleep # {} =>
        \/ state = 2
        \/ \E t \in Threads : pc[t] \in {"store", "wake"} \cup (SlowPath \ {"asleep"})

\* The mutex implements the abstract lock, whose release is the write of 0 to
\* _state (fetch_sub from 1, or the store), its liveness included.
Lock == INSTANCE AbstractLock WITH waiting <- InLock, owners <- Holders
ImplementsLock == Lock!LockSpec

\* If from some point on MutexLock is not called any more, every call already
\* made returns, and every MutexUnlock too: no thread stays asleep for ever.
FiniteCallsReturn ==
    <>[][\A t \in Threads : ~CallLock(t)]_vars
        => <>[](\A t \in Threads : pc[t] = "idle")
=============================================================================
