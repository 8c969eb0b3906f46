----------------------------- MODULE ProcProofs -----------------------------
(***************************************************************************)
(* What TLAPS proves of Proc, for pipes, outputs and time limits of any    *)
(* size: the exit status a handle holds is the one of its child, SIGTERM   *)
(* never goes to a process id that was given back, and the descriptors are *)
(* exact.  When calls return (CallsReturn) stays with TLC.                 *)
(***************************************************************************)
EXTENDS Proc, TLAPS

Processes == {"parent"} \cup Others
Descriptors == Pipes \X {"r", "w"} \X {"pipe", "std"}

EndKinds == {"alive", "exited", "signaled"}
ChildStates == {"none", "setup", "run", "zombie", "reaped"}

\* The types the steps need; counters play no part.
HandleTypeOK ==
    /\ proc \in [pid : BOOLEAN, completed : BOOLEAN, exit_code : Int]
    /\ child \in [state : ChildStates, status : EndKinds \X Int,
                  term : BOOLEAN, ignores : BOOLEAN]
    /\ fds \in [Processes -> SUBSET Descriptors]
    /\ pc \in Calls
    /\ ret \in Statuses
    /\ deinit \in BOOLEAN

\* Until the handle is released it is completed exactly when the child is
\* collected, also before proc_init has filled it in.
CompletedWhenReaped ==
    pc \notin {"ended", "killed"} => (proc.completed <=> child.state = "reaped")

\* An ended child has no descriptors left to end it a second time, and a
\* termination under way has a child to collect.
EndedOnce ==
    /\ child.state \in {"none", "zombie", "reaped"} => fds["child"] = {}
    /\ pc \in {"kill", "reap"} => ~proc.completed
    /\ pc = "start" => child.state = "none"
    /\ pc \in {"start", "spawned"} => ret = "none" /\ ~proc.pid
    /\ pc \in {"ended", "killed"} => ~proc.pid /\ ~proc.completed

StatusInv == HandleTypeOK /\ CompletedWhenReaped /\ EndedOnce /\ ExitStatusExact

LEMMA StatusTypes ==
  ASSUME NEW n \in Int
  PROVE  /\ Exited(n) \in EndKinds \X Int
         /\ Signaled(n) \in EndKinds \X Int
  BY DEF Exited, Signaled, EndKinds

LEMMA ExitCodeType ==
  ASSUME NEW status \in EndKinds \X Int
  PROVE  ExitCode(status) \in Int /\ Status(status) \in {"COMPLETED", "TERMINATED"}
  BY DEF ExitCode, Status, EndKinds

LEMMA NoProcType ==
  /\ NoProc \in [pid : BOOLEAN, completed : BOOLEAN, exit_code : Int]
  /\ ~NoProc.pid /\ ~NoProc.completed
  BY DEF NoProc

LEMMA FdTypes ==
  /\ PipeFds(Pipes) \in SUBSET Descriptors
  /\ StdFds \in SUBSET Descriptors
  BY DEF PipeFds, Ends, StdFds, Pipes, Streams, Descriptors

LEMMA InitStatus == Init => StatusInv
<1> SUFFICES ASSUME Init PROVE StatusInv
  OBVIOUS
<1>0. Alive \in EndKinds \X Int
  BY DEF Alive, EndKinds
<1>1. child \in [state : ChildStates, status : EndKinds \X Int,
                term : BOOLEAN, ignores : BOOLEAN] /\ child.state = "none"
  BY <1>0 DEF Init, ChildStates
<1>2. fds \in [Processes -> SUBSET Descriptors] /\ fds["child"] = {}
  BY DEF Init, Processes, Others
<1> QED
  BY <1>1, <1>2, NoProcType
     DEF Init, StatusInv, HandleTypeOK, CompletedWhenReaped, EndedOnce,
         ExitStatusExact, Calls, Statuses

USE DEF StatusInv, HandleTypeOK, CompletedWhenReaped, EndedOnce, ExitStatusExact,
        parent, data, Processes, Others, ChildStates

\* Starting a child: nothing is collected yet.
LEMMA SpawnStatus ==
  ASSUME StatusInv, SpawnFails \/ Fork \/ FillProc \/ Exec
  PROVE  StatusInv'
<1>1. CASE SpawnFails
  <2>1. PICK step : fds' = [fds EXCEPT !["parent"] = OpenedBefore(step) \ ClosedOnFailure]
    BY <1>1 DEF SpawnFails
  <2>2. OpenedBefore(step) \ ClosedOnFailure \in SUBSET Descriptors
    BY DEF OpenedBefore, PipeFds, Ends, Pipes, Streams, Descriptors, ClosedOnFailure
  <2> QED
    BY <1>1, <2>1, <2>2 DEF SpawnFails, Calls, Statuses
<1>2. CASE Fork
  BY <1>2, FdTypes DEF Fork, Calls
<1>3. CASE FillProc
  BY <1>3 DEF FillProc, Calls
<1>4. CASE Exec
  <2>1. Exited(127) \in EndKinds \X Int /\ Signaled(SIGPIPE) \in EndKinds \X Int
    BY StatusTypes DEF SIGPIPE
  <2>2. Wire(fds["child"]) \in SUBSET Descriptors
    BY FdTypes DEF Wire
  <2>3. CASE child'.state = "run"
    <3>1. /\ child' = [child EXCEPT !.state = "run"]
          /\ fds' = [fds EXCEPT !["child"] = Wire(fds["child"])]
      BY <1>4, <2>3 DEF Exec
    <3>2. UNCHANGED <<proc, pc, ret, deinit>> /\ child.state = "setup"
      BY <1>4 DEF Exec
    <3> QED
      BY <2>2, <3>1, <3>2
  <2>4. CASE child'.state = "zombie"
    BY <1>4, <2>1, <2>4 DEF Exec
  <2> QED
    BY <1>4, <2>3, <2>4 DEF Exec
<1> QED
  BY <1>1, <1>2, <1>3, <1>4

\* Only the child's own end changes its status, and it ends once.
LEMMA OthersStatus ==
  ASSUME StatusInv, Environment
  PROVE  StatusInv'
<1>1. ASSUME NEW h \in Others, NEW s \in Streams, OtherWrites(h, s)
      PROVE  StatusInv'
  <2>1. CASE UNCHANGED <<child, fds>>
    BY <1>1, <2>1 DEF OtherWrites
  <2>2. CASE h = "child" /\ Dies(Signaled(SIGPIPE))
    <3>1. Signaled(SIGPIPE) \in EndKinds \X Int
      BY StatusTypes DEF SIGPIPE
    <3>2. fds["child"] # {}
      BY <1>1, <2>2 DEF OtherWrites
    <3> QED
      BY <1>1, <2>2, <3>1, <3>2 DEF OtherWrites, Dies
  <2>3. CASE UNCHANGED child /\ fds' = [fds EXCEPT !["heir"] = {}]
    BY <1>1, <2>3 DEF OtherWrites
  <2> QED
    BY <1>1, <2>1, <2>2, <2>3 DEF OtherWrites
<1>2. ASSUME NEW h \in Others, OtherReads(h) PROVE StatusInv'
  BY <1>2 DEF OtherReads
<1>3. ASSUME NEW fd \in StdFds, ChildCloses(fd) PROVE StatusInv'
  BY <1>3 DEF ChildCloses
<1>4. CASE ChildForks
  BY <1>4 DEF ChildForks
<1>5. CASE ChildExits
  <2>1. PICK code \in {0, 1} : Dies(Exited(code))
    BY <1>5 DEF ChildExits
  <2>2. Exited(code) \in EndKinds \X Int
    BY StatusTypes
  <2> QED
    BY <1>5, <2>1, <2>2 DEF ChildExits, Dies
<1>6. CASE HeirExits
  BY <1>6 DEF HeirExits
<1>7. CASE ChildKilled
  <2>1. Signaled(SIGTERM) \in EndKinds \X Int
    BY StatusTypes DEF SIGTERM
  <2> QED
    BY <1>7, <2>1 DEF ChildKilled, Dies, Running
<1>8. CASE WaitInterrupted
  BY <1>8 DEF WaitInterrupted, Running, AfterTerminate, Calls, Waits, Statuses
<1>9. CASE WriteInterrupted
  BY <1>9 DEF WriteInterrupted, Calls
<1> QED
  BY <1>1, <1>2, <1>3, <1>4, <1>5, <1>6, <1>7, <1>8, <1>9 DEF Environment

\* Collecting the child sets the handle and the child in one step.
LEMMA CollectStatus ==
  ASSUME StatusInv, Collect
  PROVE  /\ child' = [child EXCEPT !.state = "reaped"] /\ child'.status = child.status
         /\ proc'.completed /\ proc'.pid = proc.pid
         /\ proc'.exit_code = ExitCode(child.status)
         /\ proc' \in [pid : BOOLEAN, completed : BOOLEAN, exit_code : Int]
         /\ fds["child"] = {}
         /\ Status(child.status) \in {"COMPLETED", "TERMINATED"}
  BY ExitCodeType DEF Collect

\* The calls of the parent.
LEMMA CallsStatus ==
  ASSUME StatusInv,
         \/ InCall \/ ProcWait \/ ProcWaitFor \/ ProcGetStatus \/ ProcTerminate
         \/ ProcDeinit \/ ProcWriteToStdin \/ \E s \in Streams : ProcRead(s)
  PROVE  StatusInv'
<1>1. CASE FillProc
  BY <1>1, SpawnStatus
<1>2. CASE WaitReturns
  <2>1. CASE Collect
    BY <1>2, <2>1, CollectStatus DEF WaitReturns, Calls, Statuses
  <2>2. CASE NoChild
    BY <1>2, <2>2 DEF WaitReturns, NoChild, Calls, Statuses, Collect
  <2> QED
    BY <1>2, <2>1, <2>2 DEF WaitReturns
<1>3. CASE Poll
  <2>1. CASE Collect
    BY <1>3, <2>1, CollectStatus DEF Poll, Calls, Statuses, Collect, Running
  <2>2. CASE UNCHANGED <<child, proc>>
    BY <1>3, <2>2 DEF Poll, Calls, Statuses, Collect
  <2> QED
    BY <1>3, <2>1, <2>2 DEF Poll, NoChild
<1>4. CASE Kill
  BY <1>4 DEF Kill, Calls, Waits
<1>5. CASE Reap
  BY <1>5, CollectStatus DEF Reap, AfterTerminate, Calls, Waits
<1>6. CASE Close
  BY <1>6, NoProcType DEF Close, Calls
<1>7. CASE WriteSome
  BY <1>7 DEF WriteSome, Calls
<1>8. CASE WriteBroken
  BY <1>8, NoProcType DEF WriteBroken, Calls
<1>9. ASSUME NEW s \in Streams, ReadSome(s) \/ ReadEof(s) PROVE StatusInv'
  BY <1>9 DEF ReadSome, ReadEof, ReadOf, Calls, Reads, Waits
<1>10. CASE ProcWait
  BY <1>10 DEF ProcWait, Calls, Waits
<1>11. CASE ProcWaitFor
  BY <1>11 DEF ProcWaitFor, Calls, Waits
<1>12. CASE ProcGetStatus
  <2>1. CASE Collect
    BY <1>12, <2>1, CollectStatus DEF ProcGetStatus, Statuses
  <2>2. CASE UNCHANGED <<child, proc>>
    BY <1>12, <2>2 DEF ProcGetStatus, Statuses, Collect
  <2> QED
    BY <1>12, <2>1, <2>2 DEF ProcGetStatus, NoChild
<1>13. CASE ProcTerminate
  BY <1>13 DEF ProcTerminate, Calls, Waits
<1>14. CASE ProcDeinit
  BY <1>14 DEF ProcDeinit, Calls, Waits
<1>15. CASE ProcWriteToStdin
  BY <1>15 DEF ProcWriteToStdin, Calls
<1>16. ASSUME NEW s \in Streams, ProcRead(s) PROVE StatusInv'
  BY <1>16 DEF ProcRead, ReadOf, Calls, Reads
<1> QED
  BY <1>1, <1>2, <1>3, <1>4, <1>5, <1>6, <1>7, <1>8, <1>9, <1>10, <1>11, <1>12,
     <1>13, <1>14, <1>15, <1>16 DEF InCall

HIDE DEF StatusInv, ExitStatusExact

LEMMA StepStatus == StatusInv /\ [Next]_vars => StatusInv'
<1> SUFFICES ASSUME StatusInv, [Next]_vars PROVE StatusInv'
  OBVIOUS
<1>1. CASE SpawnFails \/ Fork \/ Exec
  BY <1>1, SpawnStatus
<1>2. CASE Environment
  BY <1>2, OthersStatus
<1>3. CASE \/ InCall \/ ProcWait \/ ProcWaitFor \/ ProcGetStatus \/ ProcTerminate
           \/ ProcDeinit \/ ProcWriteToStdin \/ \E s \in Streams : ProcRead(s)
  BY <1>3, CallsStatus
<1>4. CASE UNCHANGED vars
  BY <1>4 DEF vars, StatusInv, ExitStatusExact
<1> QED
  BY <1>1, <1>2, <1>3, <1>4 DEF Next

\* Exit status: the handle is completed exactly when its child was collected,
\* holds the code the child ended with, reports the end it had, and sends
\* SIGTERM only while the child has not been collected.
THEOREM StatusExact == Spec => []ExitStatusExact
<1>1. Init => StatusInv
  BY InitStatus
<1>2. StatusInv /\ [Next]_vars => StatusInv'
  BY StepStatus
<1>3. StatusInv => ExitStatusExact
  BY DEF StatusInv
<1> QED
  BY <1>1, <1>2, <1>3, PTL DEF Spec

-----------------------------------------------------------------------------
HIDE DEF HandleTypeOK, CompletedWhenReaped, EndedOnce

\* How far the counters go; what no process has written nobody can read.
CountersOK ==
    /\ elapsed \in 0 .. Timeout /\ left \in 0 .. MaxInput
    /\ pc = "write" => left # 0
    /\ input \in 0 .. PipeSize
    /\ written \in [Streams -> Nat] /\ read \in [Streams -> Nat]
    /\ buf \in [Streams -> Nat]
    /\ \A s \in Streams : buf[s] <= read[s] /\ Inside(s) \in 0 .. PipeSize

\* Exit codes and signal numbers fit the code the handle stores.
CodesOK ==
    /\ child.status[2] \in 0 .. 127
    /\ proc.exit_code \in 0 .. 255

\* Until its program runs the child has written and started nothing.
FreshChild ==
    child.state \in {"none", "setup"} =>
        /\ fds["heir"] = {}
        /\ \A s \in Streams : written[s] = 0 /\ read[s] = 0

FdsInv == StatusInv /\ CountersOK /\ CodesOK /\ FreshChild /\ FdsExact

LEMMA InitFds == Init => FdsInv
<1> SUFFICES ASSUME Init PROVE FdsInv
  OBVIOUS
<1>1. CountersOK /\ FreshChild
  BY ProcAssumption DEF Init, CountersOK, FreshChild, Inside, Streams, Others
<1>2. child.status = Alive /\ child.state = "none"
  BY DEF Init
<1>3. CodesOK
  BY <1>2 DEF Init, NoProc, CodesOK, Alive
<1>4. ProcTypeOK
  <2>1. proc \in [pid : BOOLEAN, completed : BOOLEAN, exit_code : 0 .. 255]
    BY DEF Init, NoProc
  <2> QED
    BY <1>1, <1>2, <2>1 DEF Init, ProcTypeOK, CountersOK, Calls, Statuses
<1>5. FdsExact
  BY <1>2, <1>4 DEF Init, FdsExact, NoProc, Others
<1> QED
  BY <1>1, <1>3, <1>5, InitStatus DEF FdsInv

\* What a step needs of the invariant.
LEMMA FdsFacts ==
  ASSUME FdsInv
  PROVE  /\ CountersOK /\ CodesOK /\ FreshChild /\ FdsExact
         /\ child \in [state : ChildStates, status : EndKinds \X Int,
                      term : BOOLEAN, ignores : BOOLEAN]
         /\ proc \in [pid : BOOLEAN, completed : BOOLEAN, exit_code : Int]
         /\ fds \in [Processes -> SUBSET Descriptors]
         /\ child.state \in {"none", "zombie", "reaped"} => fds["child"] = {}
         /\ pc = "start" => child.state = "none"
  BY DEF FdsInv, StatusInv, HandleTypeOK, EndedOnce

\* Most steps leave the counters alone.
LEMMA CountersKept ==
  ASSUME CountersOK, UNCHANGED <<elapsed, left, input, data>>, pc' # "write" \/ pc' = pc
  PROVE  CountersOK'
  BY DEF CountersOK, Inside, data

LEMMA StepCounters ==
  ASSUME FdsInv, Next
  PROVE  CountersOK'
<1> USE FdsFacts, ProcAssumption
<1>1. CASE SpawnFails \/ Fork \/ FillProc
  BY <1>1, CountersKept DEF SpawnFails, Fork, FillProc, parent
<1>2. CASE Exec
  <2>1. CASE UNCHANGED written
    BY <1>2, <2>1, CountersKept DEF Exec, parent, data
  <2>2. CASE written' = [written EXCEPT !["stderr"] = @ + 1]
    <3>1. \A s \in Streams : written[s] = 0 /\ read[s] = 0
      BY <1>2 DEF Exec, FreshChild
    <3> QED
      BY <1>2, <2>2, <3>1 DEF Exec, CountersOK, Inside, parent, Streams
  <2> QED
    BY <1>2, <2>1, <2>2 DEF Exec
<1>3. ASSUME NEW h \in Others, NEW s \in Streams, OtherWrites(h, s)
      PROVE  CountersOK'
  <2>1. CASE UNCHANGED written
    BY <1>3, <2>1, CountersKept DEF OtherWrites, parent, data
  <2>2. CASE Inside(s) < PipeSize /\ written' = [written EXCEPT ![s] = @ + 1]
    BY <1>3, <2>2 DEF OtherWrites, CountersOK, Inside, parent
  <2> QED
    BY <1>3, <2>1, <2>2 DEF OtherWrites
<1>4. ASSUME NEW h \in Others, OtherReads(h) PROVE CountersOK'
  BY <1>4 DEF OtherReads, CountersOK, Inside, parent, data
<1>5. ASSUME NEW fd \in StdFds, ChildCloses(fd) PROVE CountersOK'
  BY <1>5, CountersKept DEF ChildCloses, parent
<1>6. CASE ChildForks \/ ChildExits \/ HeirExits \/ ChildKilled
  BY <1>6, CountersKept DEF ChildForks, ChildExits, HeirExits, ChildKilled, parent
<1>7. CASE WaitInterrupted
  BY <1>7, CountersKept DEF WaitInterrupted, AfterTerminate
<1>8. CASE WriteInterrupted \/ WriteBroken
  BY <1>8 DEF WriteInterrupted, WriteBroken, CountersOK, Inside, data
<1>9. CASE WaitReturns \/ Kill \/ Reap \/ Close
  BY <1>9, CountersKept DEF WaitReturns, Kill, Reap, Close, AfterTerminate, parent
<1>10. CASE Poll
  BY <1>10 DEF Poll, CountersOK, Inside, data
<1>11. CASE WriteSome
  <2>1. left \in 1 .. MaxInput /\ input \in 0 .. PipeSize /\ input < PipeSize
    BY <1>11 DEF WriteSome, CountersOK
  <2>2. left' = left - 1 /\ input' = input + 1 /\ (pc' = "write" => left # 1)
    BY <1>11 DEF WriteSome
  <2>3. left' \in 0 .. MaxInput /\ input' \in 0 .. PipeSize
    BY <2>1, <2>2
  <2>4. pc' = "write" => left' # 0
    BY <2>1, <2>2
  <2> QED
    BY <1>11, <2>3, <2>4 DEF WriteSome, CountersOK, Inside, data
<1>12. ASSUME NEW s \in Streams, ReadSome(s) PROVE CountersOK'
  BY <1>12 DEF ReadSome, CountersOK, Inside, parent
<1>13. ASSUME NEW s \in Streams, ReadEof(s) \/ ProcRead(s) PROVE CountersOK'
  BY <1>13, CountersKept DEF ReadEof, ProcRead, ReadOf, parent
<1>14. CASE ProcWait \/ ProcGetStatus \/ ProcTerminate \/ ProcDeinit
  BY <1>14, CountersKept DEF ProcWait, ProcGetStatus, ProcTerminate, ProcDeinit, parent
<1>15. CASE ProcWaitFor
  BY <1>15 DEF ProcWaitFor, CountersOK, Inside, data
<1>16. CASE ProcWriteToStdin
  BY <1>16 DEF ProcWriteToStdin, CountersOK, Inside, data
<1> QED
  BY <1>1, <1>2, <1>3, <1>4, <1>5, <1>6, <1>7, <1>8, <1>9, <1>10, <1>11, <1>12,
     <1>13, <1>14, <1>15, <1>16 DEF Next, InCall, Environment

\* The code a handle stores comes from a status in range.
LEMMA ExitCodeRange ==
  ASSUME NEW status \in EndKinds \X Int, status[2] \in 0 .. 127
  PROVE  ExitCode(status) \in 0 .. 255
  BY DEF ExitCode

LEMMA StepCodes ==
  ASSUME FdsInv, Next
  PROVE  CodesOK'
<1> USE FdsFacts DEF CodesOK
<1>1. CASE UNCHANGED <<child, proc>>
  BY <1>1
<1>2. CASE Collect
  BY <1>2, ExitCodeRange DEF Collect
<1>3. CASE UNCHANGED proc /\ child'.status = child.status
  BY <1>3
<1>4. ASSUME NEW status, Dies(status), status[2] \in 0 .. 127, UNCHANGED proc
      PROVE  CodesOK'
  BY <1>4 DEF Dies
<1>5. CASE Exec
  <2>1. Exited(127)[2] \in 0 .. 127 /\ Signaled(SIGPIPE)[2] \in 0 .. 127
    BY DEF Exited, Signaled, SIGPIPE
  <2>2. UNCHANGED proc
    BY <1>5 DEF Exec, parent
  <2>3. CASE child' = [child EXCEPT !.state = "run"]
    BY <1>3, <2>2, <2>3
  <2>4. CASE child' = [child EXCEPT !.state = "zombie", !.status = Exited(127)]
    <3>1. child'.status = Exited(127)
      BY <2>4
    <3> QED
      BY <2>1, <2>2, <3>1
  <2>5. CASE child' = [child EXCEPT !.state = "zombie", !.status = Signaled(SIGPIPE)]
    <3>1. child'.status = Signaled(SIGPIPE)
      BY <2>5
    <3> QED
      BY <2>1, <2>2, <3>1
  <2> QED
    BY <1>5, <2>3, <2>4, <2>5 DEF Exec
<1>6. ASSUME NEW h \in Others, NEW s \in Streams, OtherWrites(h, s)
      PROVE  CodesOK'
  <2>1. Signaled(SIGPIPE)[2] \in 0 .. 127
    BY DEF Signaled, SIGPIPE
  <2> QED
    BY <1>1, <1>4, <1>6, <2>1 DEF OtherWrites, parent
<1>7. CASE ChildExits
  <2>1. PICK code \in {0, 1} : Dies(Exited(code))
    BY <1>7 DEF ChildExits
  <2>2. Exited(code)[2] \in 0 .. 127
    BY DEF Exited
  <2> QED
    BY <1>4, <1>7, <2>1, <2>2 DEF ChildExits, parent
<1>8. CASE ChildKilled
  <2>1. Signaled(SIGTERM)[2] \in 0 .. 127
    BY DEF Signaled, SIGTERM
  <2> QED
    BY <1>4, <1>8, <2>1 DEF ChildKilled, parent
<1>9. CASE Fork \/ Kill
  BY <1>3, <1>9 DEF Fork, Kill, parent
<1>10. CASE FillProc
  BY <1>10 DEF FillProc
<1>11. CASE WaitReturns \/ Poll \/ ProcGetStatus \/ Reap
  BY <1>1, <1>2, <1>11 DEF WaitReturns, Poll, ProcGetStatus, Reap, NoChild
<1>12. CASE Close \/ WriteBroken
  BY <1>12 DEF Close, WriteBroken, NoProc
<1>13. CASE SpawnFails \/ ChildForks \/ HeirExits \/ WaitInterrupted \/ WriteInterrupted
            \/ WriteSome \/ ProcWait \/ ProcWaitFor \/ ProcTerminate \/ ProcDeinit
            \/ ProcWriteToStdin
  BY <1>1, <1>13 DEF SpawnFails, ChildForks, HeirExits, WaitInterrupted, WriteInterrupted,
     WriteSome, ProcWait, ProcWaitFor, ProcTerminate, ProcDeinit, ProcWriteToStdin, parent
<1>14. ASSUME NEW h \in Others, OtherReads(h) PROVE CodesOK'
  BY <1>1, <1>14 DEF OtherReads, parent
<1>15. ASSUME NEW fd \in StdFds, ChildCloses(fd) PROVE CodesOK'
  BY <1>1, <1>15 DEF ChildCloses, parent
<1>16. ASSUME NEW s \in Streams, ReadSome(s) \/ ReadEof(s) \/ ProcRead(s) PROVE CodesOK'
  BY <1>1, <1>16 DEF ReadSome, ReadEof, ProcRead, parent
<1> QED
  BY <1>5, <1>6, <1>7, <1>8, <1>9, <1>10, <1>11, <1>12, <1>13, <1>14, <1>15, <1>16
     DEF Next, InCall, Environment

\* No process writes, reads or forks before the program of the child runs.
LEMMA StepFresh ==
  ASSUME FdsInv, Next
  PROVE  FreshChild'
<1> USE FdsFacts DEF FreshChild, Others, Processes
<1>1. CASE child'.state \notin {"none", "setup"}
  BY <1>1
<1>2. ASSUME child'.state \in {"none", "setup"}, UNCHANGED <<written, read>>,
             child.state \in {"none", "setup"}, fds'["heir"] = {}
      PROVE  FreshChild'
  BY <1>2
<1>3. CASE SpawnFails \/ Fork \/ FillProc \/ Close \/ WriteBroken
  BY <1>1, <1>2, <1>3 DEF SpawnFails, Fork, FillProc, Close, WriteBroken, data
<1>4. CASE Exec
  BY <1>1, <1>4 DEF Exec
<1>5. ASSUME NEW h \in Others, NEW s \in Streams, OtherWrites(h, s)
      PROVE  FreshChild'
  <2>1. child.state \notin {"none", "setup"}
    BY <1>5 DEF OtherWrites
  <2>2. child'.state \notin {"none", "setup"}
    BY <1>5, <2>1 DEF OtherWrites, Dies
  <2> QED
    BY <1>1, <2>2
<1>6. CASE ChildForks
  BY <1>1, <1>6 DEF ChildForks
<1>7. CASE ChildExits \/ ChildKilled
  BY <1>1, <1>7 DEF ChildExits, ChildKilled, Dies
<1>8. CASE HeirExits
  BY <1>8 DEF HeirExits, data
<1>9. CASE WaitReturns \/ Poll \/ ProcGetStatus \/ Reap
  BY <1>1, <1>9 DEF WaitReturns, Poll, ProcGetStatus, Reap, Collect, NoChild, data
<1>10. CASE Kill
  BY <1>10 DEF Kill, data
<1>11. CASE WaitInterrupted \/ WriteInterrupted \/ WriteSome \/ ProcWait \/ ProcWaitFor
            \/ ProcTerminate \/ ProcDeinit \/ ProcWriteToStdin
  BY <1>11 DEF WaitInterrupted, WriteInterrupted, WriteSome, ProcWait, ProcWaitFor,
     ProcTerminate, ProcDeinit, ProcWriteToStdin, data
<1>12. ASSUME NEW h \in Others, OtherReads(h) PROVE FreshChild'
  BY <1>12 DEF OtherReads, data
<1>13. ASSUME NEW fd \in StdFds, ChildCloses(fd) PROVE FreshChild'
  BY <1>13 DEF ChildCloses, data
<1>14. ASSUME NEW s \in Streams, ReadSome(s) PROVE FreshChild'
  BY <1>14 DEF ReadSome, Inside, CountersOK
<1>15. ASSUME NEW s \in Streams, ReadEof(s) \/ ProcRead(s) PROVE FreshChild'
  BY <1>15 DEF ReadEof, ProcRead, data
<1> QED
  BY <1>3, <1>4, <1>5, <1>6, <1>7, <1>8, <1>9, <1>10, <1>11, <1>12, <1>13, <1>14,
     <1>15 DEF Next, InCall, Environment

\* The descriptors as sets: what each closing leaves.
LEMMA FdSets ==
  /\ PipeFds(Pipes) \ ChildEnds = ParentEnds
  /\ StdFds \cap ParentEnds = {}
  /\ \A step \in Pipes \cup {"fork"} : OpenedBefore(step) \ ClosedOnFailure = {}
<1>1. PipeFds(Pipes) \ ChildEnds = ParentEnds
  BY DEF PipeFds, Ends, ChildEnds, ParentEnds, Pipes, Streams
<1>2. StdFds \cap ParentEnds = {}
  BY DEF StdFds, Ends, ParentEnds, Pipes, Streams
<1>3. ASSUME NEW step \in Pipes \cup {"fork"}
      PROVE  OpenedBefore(step) \ ClosedOnFailure = {}
  BY <1>3 DEF OpenedBefore, ClosedOnFailure, PipeFds, Ends, Pipes, Streams
<1> QED
  BY <1>1, <1>2, <1>3

\* The descriptors part of FdsExact.
EndsOK ==
    /\ proc.pid <=> pc \notin {"start", "spawned", "ended", "killed"}
    /\ pc = "spawned" => fds["parent"] = PipeFds(Pipes)
    /\ proc.pid => fds["parent"] = ParentEnds
    /\ pc \in {"start", "ended", "killed"} => fds["parent"] = {}
    /\ child.state # "setup" => fds["child"] \cap ParentEnds = {}
    /\ fds["heir"] \cap ParentEnds = {}

LEMMA StepEnds ==
  ASSUME FdsInv, Next
  PROVE  EndsOK'
<1>0. EndsOK
  BY FdsFacts DEF FdsExact, EndsOK
<1> USE <1>0, FdsFacts DEF EndsOK, Others, Processes, FreshChild
<1>1. CASE SpawnFails
  BY <1>1, FdSets DEF SpawnFails, parent
<1>2. CASE Fork
  BY <1>2 DEF Fork, parent
<1>3. CASE FillProc
  BY <1>3, FdSets DEF FillProc
<1>4. CASE Exec
  <2>1. Wire(fds["child"]) \cap ParentEnds = {}
    BY FdSets DEF Wire
  <2> QED
    BY <1>4, <2>1 DEF Exec, parent
<1>5. ASSUME NEW h \in Others, NEW s \in Streams, OtherWrites(h, s) PROVE EndsOK'
  <2>1. CASE UNCHANGED <<child, fds>>
    BY <1>5, <2>1 DEF OtherWrites, parent
  <2>2. CASE h = "child" /\ Dies(Signaled(SIGPIPE))
    BY <1>5, <2>2 DEF OtherWrites, Dies, parent
  <2>3. CASE UNCHANGED child /\ fds' = [fds EXCEPT !["heir"] = {}]
    BY <1>5, <2>3 DEF OtherWrites, parent
  <2> QED
    BY <1>5, <2>1, <2>2, <2>3 DEF OtherWrites
<1>6. ASSUME NEW h \in Others, OtherReads(h) PROVE EndsOK'
  BY <1>6 DEF OtherReads, parent
<1>7. ASSUME NEW fd \in StdFds, ChildCloses(fd) PROVE EndsOK'
  BY <1>7 DEF ChildCloses, parent
<1>8. CASE ChildForks
  BY <1>8 DEF ChildForks, parent
<1>9. CASE ChildExits
  BY <1>9 DEF ChildExits, Dies, parent
<1>10. CASE HeirExits
  BY <1>10 DEF HeirExits, parent
<1>11. CASE ChildKilled
  BY <1>11 DEF ChildKilled, Dies, parent
<1>12. CASE WaitInterrupted \/ WriteInterrupted
  BY <1>12 DEF WaitInterrupted, WriteInterrupted, AfterTerminate
<1>13. CASE WaitReturns
  BY <1>13 DEF WaitReturns, Collect, NoChild
<1>14. CASE Poll
  BY <1>14 DEF Poll, Collect, NoChild
<1>15. CASE Kill \/ Reap
  BY <1>15 DEF Kill, Reap, Collect, AfterTerminate, parent
<1>16. CASE Close
  <2>1. fds["parent"] \ ParentEnds = {}
    BY <1>16 DEF Close
  <2> QED
    BY <1>16, <2>1, NoProcType DEF Close
<1>17. CASE WriteSome
  BY <1>17 DEF WriteSome
<1>18. CASE WriteBroken
  BY <1>18, NoProcType DEF WriteBroken
<1>19. ASSUME NEW s \in Streams, ReadSome(s) \/ ReadEof(s) \/ ProcRead(s) PROVE EndsOK'
  BY <1>19 DEF ReadSome, ReadEof, ProcRead, ReadOf, parent
<1>20. CASE ProcWait \/ ProcWaitFor \/ ProcTerminate \/ ProcDeinit \/ ProcWriteToStdin
  BY <1>20 DEF ProcWait, ProcWaitFor, ProcTerminate, ProcDeinit, ProcWriteToStdin, parent
<1>21. CASE ProcGetStatus
  BY <1>21 DEF ProcGetStatus, Collect, NoChild
<1> QED
  BY <1>1, <1>2, <1>3, <1>4, <1>5, <1>6, <1>7, <1>8, <1>9, <1>10, <1>11, <1>12, <1>13,
     <1>14, <1>15, <1>16, <1>17, <1>18, <1>19, <1>20, <1>21 DEF Next, InCall, Environment

LEMMA TypesFromParts == StatusInv /\ CountersOK /\ CodesOK => ProcTypeOK
<1> SUFFICES ASSUME StatusInv, CountersOK, CodesOK PROVE ProcTypeOK
  OBVIOUS
<1>1. proc \in [pid : BOOLEAN, completed : BOOLEAN, exit_code : 0 .. 255]
  BY DEF StatusInv, HandleTypeOK, CodesOK
<1> QED
  BY <1>1 DEF StatusInv, HandleTypeOK, CountersOK, ProcTypeOK, ChildStates

LEMMA StepFds == FdsInv /\ [Next]_vars => FdsInv'
<1> SUFFICES ASSUME FdsInv, [Next]_vars PROVE FdsInv'
  OBVIOUS
<1>1. StatusInv'
  BY StepStatus DEF FdsInv
<1>2. CASE Next
  <2>1. CountersOK' /\ CodesOK' /\ FreshChild' /\ EndsOK'
    BY <1>2, StepCounters, StepCodes, StepFresh, StepEnds
  <2>2. ProcTypeOK'
    BY <1>1, <2>1, TypesFromParts, PTL
  <2> QED
    BY <1>1, <2>1, <2>2 DEF FdsInv, FdsExact, EndsOK
<1>3. CASE UNCHANGED vars
  BY <1>1, <1>3 DEF FdsInv, FdsExact, ProcTypeOK, CountersOK, CodesOK, FreshChild,
     Inside, vars, parent, data
<1> QED
  BY <1>2, <1>3

\* Descriptors: a live handle has its three ends and no other, a handle that
\* never was or is gone has none, and no other process keeps an end of the
\* parent; with the types of every variable.
THEOREM DescriptorsExact == Spec => []FdsExact
<1>1. Init => FdsInv
  BY InitFds
<1>2. FdsInv /\ [Next]_vars => FdsInv'
  BY StepFds
<1>3. FdsInv => FdsExact
  BY DEF FdsInv
<1> QED
  BY <1>1, <1>2, <1>3, PTL DEF Spec
=============================================================================
