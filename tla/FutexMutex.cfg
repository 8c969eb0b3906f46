\* Three threads: a holder, a sleeper, and one that barges in between.
SPECIFICATION Spec
CONSTANT Threads = {t1, t2, t3}
INVARIANTS TypeOK MutualExclusion NoLostWakeup
PROPERTIES ImplementsLock FiniteCallsReturn
