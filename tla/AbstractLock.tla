---------------------------- MODULE AbstractLock ----------------------------
(***************************************************************************)
(* What <Misra/Sys/Mutex.h> promises of a Mutex, with nothing of how it is *)
(* done: MutexLock blocks until the lock is free and returns owning it,    *)
(* MutexUnlock gives it back, and a free lock somebody waits for is taken. *)
(***************************************************************************)
CONSTANT Threads

VARIABLES
    waiting,  \* the threads inside MutexLock
    owners    \* the threads MutexLock has returned to and that still own it

lockVars == <<waiting, owners>>

LockInit == waiting = {} /\ owners = {}

Request(t) ==
    /\ t \notin waiting \cup owners
    /\ waiting' = waiting \cup {t}
    /\ UNCHANGED owners

Acquire(t) ==
    /\ t \in waiting
    /\ owners = {}
    /\ waiting' = waiting \ {t}
    /\ owners' = {t}

Release(t) ==
    /\ owners = {t}
    /\ owners' = {}
    /\ UNCHANGED waiting

LockNext == \E t \in Threads : Request(t) \/ Acquire(t) \/ Release(t)

\* No waiter is promised its turn (the fast path may barge in for ever): only
\* that a free lock with waiters is taken by one of the threads that want it.
LockFairness == WF_lockVars(\E t \in Threads : Acquire(t))

LockSpec == LockInit /\ [][LockNext]_lockVars /\ LockFairness
=============================================================================
