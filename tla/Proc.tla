-------------------------------- MODULE Proc --------------------------------
(***************************************************************************)
(* Child processes: Source/Misra/Sys/Proc.c on the POSIX path.  A parent   *)
(* that owns one Proc handle, the child, a process the child may leave     *)
(* behind with its descriptors, and the three pipes between them.  Every   *)
(* system call of the parent is a step, so that the child's end may fall   *)
(* between any two of them.                                                *)
(*                                                                         *)
(* The kernel and the programs that run in the other processes are         *)
(* external; the parent is taken to have its descriptors 0, 1 and 2 open.  *)
(* Data is counted, not looked at: a unit is what one read of the staging  *)
(* buffer can take.                                                        *)
(***************************************************************************)
EXTENDS Integers

CONSTANTS
    PipeSize,   \* units a pipe holds
    MaxOutput,  \* units all processes write to one output, a bound
    MaxInput,   \* units one ProcWriteToStdin carries, a bound
    Timeout     \* timeout_ms of ProcWaitFor, in sleep intervals of 10 ms

ASSUME ProcAssumption ==
    /\ PipeSize \in Nat \ {0}
    /\ MaxOutput \in Nat /\ MaxInput \in Nat
    /\ Timeout \in Nat \ {0}

Streams == {"stdout", "stderr"}
Pipes == {"stdin"} \cup Streams
Others == {"child", "heir"}

\* A descriptor is a pipe, an end of it, and which copy: the number pipe()
\* returned, or the standard number 0, 1 or 2 it is duplicated to.
Ends(ps, e, copy) == ps \X {e} \X {copy}
PipeFds(ps) == Ends(ps, "r", "pipe") \cup Ends(ps, "w", "pipe")
ParentEnds == Ends({"stdin"}, "w", "pipe") \cup Ends(Streams, "r", "pipe")
ChildEnds == Ends({"stdin"}, "r", "pipe") \cup Ends(Streams, "w", "pipe")
StdFds == Ends({"stdin"}, "r", "std") \cup Ends(Streams, "w", "std")

\* How a process ended: WIFEXITED with its code, or WIFSIGNALED with a signal.
SIGPIPE == 13
SIGTERM == 15
Exited(n) == <<"exited", n>>
Signaled(n) == <<"signaled", n>>
Alive == <<"alive", 0>>

VARIABLES
    proc,    \* the fields _pid (is it set), _completed and _exit_code of Proc
    pc,      \* where the parent is, see Calls
    elapsed, \* elapsed_ms of ProcWaitFor, in sleep intervals
    left,    \* units the write of ProcWriteToStdin has still to pass
    deinit,  \* is ProcTerminate running for ProcDeinit?
    ret,     \* the last ProcStatus returned
    child,   \* the child: its state, how it ended, signals, disposition
    fds,     \* fds[p]: the descriptors process p has of the three pipes
    input,   \* units in the stdin pipe
    written, \* written[s]: units written to s since the spawn
    read,    \* read[s]: units the reads of s say they read (total_read)
    buf      \* buf[s]: units of s in the caller's Str

parent == <<proc, elapsed, left, deinit, ret>>
data == <<written, read, buf>>
vars == <<parent, pc, child, fds, input, data>>

\* In a call, between calls, or at the end: handle released or SIGPIPE.
Waits == {"wait", "poll", "kill", "reap", "close"}
Reads == {"read_stdout", "read_stderr"}
Calls == {"start", "spawned", "idle", "write", "ended", "killed"}
             \cup Waits \cup Reads

NoProc == [pid |-> FALSE, completed |-> FALSE, exit_code |-> 0]

Init ==
    /\ proc = NoProc /\ pc = "start"
    /\ elapsed = 0 /\ left = 0 /\ deinit = FALSE /\ ret = "none"
    /\ child \in [state : {"none"}, status : {Alive}, term : {FALSE},
                  ignores : BOOLEAN]
    /\ fds = [p \in {"parent"} \cup Others |-> {}]
    /\ input = 0
    /\ written = [s \in Streams |-> 0]
    /\ read = [s \in Streams |-> 0]
    /\ buf = [s \in Streams |-> 0]

Open(p, e) == \E h \in DOMAIN fds, copy \in {"pipe", "std"} :
                  <<p, e, copy>> \in fds[h]
Inside(s) == written[s] - read[s]   \* units in the pipe of s

-----------------------------------------------------------------------------
(* proc_init *)

\* The pipes are made in this order; the three closes of each failing path
\* and the three after them close every end that was opened.
OpenedBefore(step) ==
    CASE step = "stdin" -> {}
      [] step = "stdout" -> PipeFds({"stdin"})
      [] step = "stderr" -> PipeFds({"stdin", "stdout"})
      [] OTHER -> PipeFds(Pipes)
ClosedOnFailure == PipeFds(Pipes)

\* A pipe or the fork fails: everything is closed, the handle stays zeroed.
SpawnFails ==
    /\ pc = "start"
    /\ \E step \in Pipes \cup {"fork"} :
           fds' = [fds EXCEPT !["parent"] = OpenedBefore(step) \ ClosedOnFailure]
    /\ pc' = "ended"
    /\ UNCHANGED <<parent, child, input, data>>

\* fork(): the child starts with every descriptor of the parent.
Fork ==
    /\ pc = "start"
    /\ fds' = [fds EXCEPT !["parent"] = PipeFds(Pipes), !["child"] = PipeFds(Pipes)]
    /\ child' = [child EXCEPT !.state = "setup"]
    /\ pc' = "spawned"
    /\ UNCHANGED <<parent, input, data>>

\* Mutant: a child that only duplicates: it would keep its own stdin open for
\* writing.
WireWithoutClosing(held) == held \cup StdFds

\* Three dup2 and three close in the child.
Wire(held) == (held \cup StdFds) \ ParentEnds

\* execve succeeds, or the error is logged (to the stderr pipe) and 127 is
\* the exit code, unless nobody is left to read that.
Exec ==
    /\ child.state = "setup"
    /\ \/ /\ child' = [child EXCEPT !.state = "run"]
          /\ fds' = [fds EXCEPT !["child"] = Wire(fds["child"])]
          /\ UNCHANGED written
       \/ /\ fds["parent"] # {}
          /\ child' = [child EXCEPT !.state = "zombie", !.status = Exited(127)]
          /\ fds' = [fds EXCEPT !["child"] = {}]
          /\ written' = [written EXCEPT !["stderr"] = @ + 1]
       \/ /\ fds["parent"] = {}
          /\ child' = [child EXCEPT !.state = "zombie", !.status = Signaled(SIGPIPE)]
          /\ fds' = [fds EXCEPT !["child"] = {}]
          /\ UNCHANGED written
    /\ UNCHANGED <<parent, pc, input, read, buf>>

\* The parent closes the ends only the child uses and fills the handle.
FillProc ==
    /\ pc = "spawned"
    /\ fds' = [fds EXCEPT !["parent"] = @ \ ChildEnds]
    /\ proc' = [proc EXCEPT !.pid = TRUE]
    /\ pc' = "idle"
    /\ UNCHANGED <<elapsed, left, deinit, ret, child, input, data>>

-----------------------------------------------------------------------------
(* The other processes and the kernel: external *)

Running == child.state \in {"setup", "run"}

Dies(status) ==
    /\ child' = [child EXCEPT !.state = "zombie", !.status = status]
    /\ fds' = [fds EXCEPT !["child"] = {}]

\* A program writes a unit; with no reader left SIGPIPE ends it.
OtherWrites(h, s) ==
    /\ child.state # "setup" /\ \E c \in {"pipe", "std"} : <<s, "w", c>> \in fds[h]
    /\ \/ /\ Open(s, "r") /\ Inside(s) < PipeSize /\ written[s] < MaxOutput
          /\ written' = [written EXCEPT ![s] = @ + 1]
          /\ UNCHANGED <<child, fds>>
       \/ /\ ~Open(s, "r") /\ h = "child" /\ Dies(Signaled(SIGPIPE))
          /\ UNCHANGED written
       \/ /\ ~Open(s, "r") /\ h = "heir"
          /\ fds' = [fds EXCEPT !["heir"] = {}]
          /\ UNCHANGED <<child, written>>
    /\ UNCHANGED <<parent, pc, input, read, buf>>

\* A program takes a unit of its standard input.
OtherReads(h) ==
    /\ child.state # "setup" /\ input > 0
    /\ \E c \in {"pipe", "std"} : <<"stdin", "r", c>> \in fds[h]
    /\ input' = input - 1
    /\ UNCHANGED <<parent, pc, child, fds, data>>

\* The child closes a standard stream, as a daemon does; the number it was
\* duplicated from, which the program does not know of, stays open.
ChildCloses(fd) ==
    /\ child.state = "run" /\ fd \in fds["child"] \cap StdFds
    /\ fds' = [fds EXCEPT !["child"] = @ \ {fd}]
    /\ UNCHANGED <<parent, pc, child, input, data>>

\* The child starts a process that may outlive it.
ChildForks ==
    /\ child.state = "run" /\ fds["heir"] = {}
    /\ fds' = [fds EXCEPT !["heir"] = fds["child"]]
    /\ UNCHANGED <<parent, pc, child, input, data>>

ChildExits ==
    /\ child.state = "run"
    /\ \E code \in {0, 1} : Dies(Exited(code))
    /\ UNCHANGED <<parent, pc, input, data>>

HeirExits ==
    /\ fds["heir"] # {}
    /\ fds' = [fds EXCEPT !["heir"] = {}]
    /\ UNCHANGED <<parent, pc, child, input, data>>

\* SIGTERM is delivered to a child that has not arranged to ignore it.
ChildKilled ==
    /\ child.term
    /\ Running /\ (child.state = "run" => ~child.ignores)
    /\ Dies(Signaled(SIGTERM))
    /\ UNCHANGED <<parent, pc, input, data>>

-----------------------------------------------------------------------------
(* Waiting: ProcWait, ProcWaitFor, ProcGetStatus *)

ExitCode(status) == IF status[1] = "exited" THEN status[2] ELSE 128 + status[2]
Status(status) == IF status[1] = "exited" THEN "COMPLETED" ELSE "TERMINATED"

\* wait4 hands out the status of the child once and the handle stores it.
Collect ==
    /\ child.state = "zombie"
    /\ child' = [child EXCEPT !.state = "reaped"]
    /\ proc' = [proc EXCEPT !.completed = TRUE, !.exit_code = ExitCode(child.status)]

\* wait4 fails: the child was collected before (ECHILD).
NoChild ==
    /\ child.state = "reaped"
    /\ UNCHANGED <<child, proc>>

\* ProcWait(p), and ProcWaitFor(p, 0), block in wait4.
ProcWait ==
    /\ pc = "idle" /\ pc' = "wait"
    /\ UNCHANGED <<parent, child, fds, input, data>>

WaitReturns ==
    /\ pc = "wait"
    /\ \/ Collect /\ ret' = Status(child.status)
       \/ NoChild /\ ret' = "ERROR"
    /\ pc' = "idle"
    /\ UNCHANGED <<elapsed, left, deinit, fds, input, data>>

\* ProcWaitFor(p, Timeout) polls.
ProcWaitFor ==
    /\ pc = "idle" /\ pc' = "poll"
    /\ elapsed' = 0
    /\ UNCHANGED <<proc, left, deinit, ret, child, fds, input, data>>

\* Mutant: a poll that sleeps without counting the time.
PollUncounted ==
    /\ pc = "poll"
    /\ \/ Running /\ UNCHANGED <<child, proc, ret, pc, elapsed>>
       \/ Collect /\ ret' = Status(child.status) /\ pc' = "idle" /\ elapsed' = 0
       \/ NoChild /\ ret' = "ERROR" /\ pc' = "idle" /\ elapsed' = 0
    /\ UNCHANGED <<left, deinit, fds, input, data>>

\* One turn of the loop: wait4 with WNOHANG, then the sleep.
Poll ==
    /\ pc = "poll"
    /\ \/ /\ elapsed < Timeout /\ Running
          /\ elapsed' = elapsed + 1
          /\ UNCHANGED <<child, proc, ret, pc>>
       \/ /\ elapsed < Timeout /\ elapsed' = 0 /\ pc' = "idle"
          /\ \/ Collect /\ ret' = Status(child.status)
             \/ NoChild /\ ret' = "ERROR"
       \/ /\ elapsed >= Timeout /\ elapsed' = 0 /\ pc' = "idle"
          /\ ret' = "RUNNING"
          /\ UNCHANGED <<child, proc>>
    /\ UNCHANGED <<left, deinit, fds, input, data>>

\* Mutant: a status query that reads the exit status but does not note it.
StatusUnnoted ==
    /\ pc = "idle"
    /\ \/ Running /\ ret' = "RUNNING" /\ UNCHANGED child
       \/ /\ child.state = "zombie" /\ child' = [child EXCEPT !.state = "reaped"]
          /\ ret' = Status(child.status)
       \/ child.state = "reaped" /\ ret' = "ERROR" /\ UNCHANGED child
    /\ UNCHANGED <<proc, pc, elapsed, left, deinit, fds, input, data>>

ProcGetStatus ==
    /\ pc = "idle"
    /\ \/ Running /\ ret' = "RUNNING" /\ UNCHANGED <<child, proc>>
       \/ Collect /\ ret' = Status(child.status)
       \/ NoChild /\ ret' = "ERROR"
    /\ UNCHANGED <<pc, elapsed, left, deinit, fds, input, data>>

-----------------------------------------------------------------------------
(* Ending: ProcTerminate, ProcDeinit *)

\* Nothing to do for a handle that has the exit status.
ProcTerminate ==
    /\ pc = "idle" /\ ~proc.completed
    /\ pc' = "kill"
    /\ UNCHANGED <<parent, child, fds, input, data>>

\* ProcDeinit calls ProcTerminate first, which may return at once.
ProcDeinit ==
    /\ pc = "idle"
    /\ deinit' = TRUE
    /\ pc' = IF proc.completed THEN "close" ELSE "kill"
    /\ UNCHANGED <<proc, elapsed, left, ret, child, fds, input, data>>

AfterTerminate == IF deinit THEN "close" ELSE "idle"

\* kill(_pid, SIGTERM), to which a zombie is deaf.
Kill ==
    /\ pc = "kill"
    /\ child' = [child EXCEPT !.term = Running \/ @]
    /\ pc' = "reap"
    /\ UNCHANGED <<parent, fds, input, data>>

\* The blocking wait4 of ProcTerminate; a handle that is not completed has a
\* child to collect (ExitStatusExact), so ECHILD is no outcome here.
Reap ==
    /\ pc = "reap"
    /\ Collect
    /\ pc' = AfterTerminate
    /\ UNCHANGED <<elapsed, left, deinit, ret, fds, input, data>>

\* EINTR: a blocking wait returns with the child not collected.
WaitInterrupted ==
    /\ Running
    /\ \/ pc = "wait" /\ ret' = "ERROR" /\ pc' = "idle"
       \/ pc = "reap" /\ pc' = AfterTerminate /\ UNCHANGED ret
    /\ UNCHANGED <<proc, elapsed, left, deinit, child, fds, input, data>>

\* The rest of ProcDeinit: three closes, and the handle is zeroed.
Close ==
    /\ pc = "close" /\ pc' = "ended"
    /\ fds' = [fds EXCEPT !["parent"] = @ \ ParentEnds]
    /\ proc' = NoProc /\ deinit' = FALSE
    /\ UNCHANGED <<elapsed, left, ret, child, input, data>>

-----------------------------------------------------------------------------
(* The pipes: ProcWriteToStdin, ProcReadFromStdout, ProcReadFromStderr *)

ProcWriteToStdin ==
    /\ pc = "idle" /\ pc' = "write"
    /\ left' \in 1 .. MaxInput
    /\ UNCHANGED <<proc, elapsed, deinit, ret, child, fds, input, data>>

\* The one write() passes a unit; it returns when all have passed.
WriteSome ==
    /\ pc = "write" /\ Open("stdin", "r") /\ input < PipeSize
    /\ input' = input + 1
    /\ left' = left - 1
    /\ pc' = IF left = 1 THEN "idle" ELSE "write"
    /\ UNCHANGED <<proc, elapsed, deinit, ret, child, fds, data>>

\* A signal ends a blocked write early: a short count, or -EINTR.
WriteInterrupted ==
    /\ pc = "write" /\ input = PipeSize
    /\ left' = 0 /\ pc' = "idle"
    /\ UNCHANGED <<proc, elapsed, deinit, ret, child, fds, input, data>>

\* Nobody has the read end: EPIPE for a caller that ignores SIGPIPE, which
\* the library does not; any other caller is ended by it.
WriteBroken ==
    /\ pc = "write" /\ ~Open("stdin", "r")
    /\ left' = 0
    /\ \/ pc' = "idle" /\ UNCHANGED <<proc, fds>>
       \/ pc' = "killed" /\ proc' = NoProc /\ fds' = [fds EXCEPT !["parent"] = {}]
    /\ UNCHANGED <<elapsed, deinit, ret, child, input, data>>

ReadOf(s) == IF s = "stdout" THEN "read_stdout" ELSE "read_stderr"

ProcRead(s) ==
    /\ pc = "idle" /\ pc' = ReadOf(s)
    /\ UNCHANGED <<parent, child, fds, input, data>>

\* Mutant: a read that returns what there is instead of going on to end of
\* file.
ReadOnce(s) ==
    /\ pc = ReadOf(s) /\ Inside(s) > 0
    /\ read' = [read EXCEPT ![s] = @ + 1]
    /\ buf' = [buf EXCEPT ![s] = @ + 1]
    /\ pc' = "idle"
    /\ UNCHANGED <<parent, child, fds, input, written>>

\* n > 0: `StrMergeR(buf, &tmpbuf); total_read += n;` whatever the merge says.
\* (EINTR reads again, which is no step of the model.)
ReadSome(s) ==
    /\ pc = ReadOf(s) /\ Inside(s) > 0
    /\ read' = [read EXCEPT ![s] = @ + 1]
    /\ \/ buf' = [buf EXCEPT ![s] = @ + 1]
       \/ UNCHANGED buf
    /\ UNCHANGED <<parent, pc, child, fds, input, written>>

\* n = 0: end of file.
ReadEof(s) ==
    /\ pc = ReadOf(s) /\ Inside(s) = 0 /\ ~Open(s, "w")
    /\ pc' = "idle"
    /\ UNCHANGED <<parent, child, fds, input, data>>

-----------------------------------------------------------------------------
Environment ==
    \/ \E h \in Others, s \in Streams : OtherWrites(h, s)
    \/ \E h \in Others : OtherReads(h)
    \/ \E fd \in StdFds : ChildCloses(fd)
    \/ ChildForks \/ ChildExits \/ HeirExits \/ ChildKilled
    \/ WaitInterrupted \/ WriteInterrupted

\* What the parent does inside a call.
InCall ==
    \/ FillProc \/ WaitReturns \/ Poll \/ Kill \/ Reap \/ Close
    \/ WriteSome \/ WriteBroken
    \/ \E s \in Streams : ReadSome(s) \/ ReadEof(s)

Next ==
    \/ SpawnFails \/ Fork \/ Exec \/ InCall \/ Environment
    \/ ProcWait \/ ProcWaitFor \/ ProcGetStatus \/ ProcTerminate \/ ProcDeinit
    \/ ProcWriteToStdin \/ \E s \in Streams : ProcRead(s)

\* The parent runs while it is inside a call and can go on, and a signal sent
\* is delivered.  The other processes owe nothing: no exit, no read, no write.
Fairness == WF_vars(InCall) /\ WF_vars(ChildKilled)

Spec == Init /\ [][Next]_vars /\ Fairness

-----------------------------------------------------------------------------
Statuses == {"none", "RUNNING", "COMPLETED", "TERMINATED", "ERROR"}

ProcTypeOK ==
    /\ proc \in [pid : BOOLEAN, completed : BOOLEAN, exit_code : 0 .. 255]
    /\ pc \in Calls
    /\ elapsed \in 0 .. Timeout /\ left \in 0 .. MaxInput
    /\ deinit \in BOOLEAN /\ ret \in Statuses
    /\ child.state \in {"none", "setup", "run", "zombie", "reaped"}
    /\ input \in 0 .. PipeSize
    /\ \A s \in Streams : buf[s] <= read[s] /\ Inside(s) \in 0 .. PipeSize

\* Descriptors: a live handle has its three, a handle that never was or is
\* gone has none, on every failing path of proc_init too; and no process but
\* the parent keeps one of the parent's ends, which would hold back the end
\* of file from a child or from the parent.
FdsExact ==
    /\ ProcTypeOK
    /\ proc.pid <=> pc \notin {"start", "spawned", "ended", "killed"}
    /\ pc = "spawned" => fds["parent"] = PipeFds(Pipes)
    /\ proc.pid => fds["parent"] = ParentEnds
    /\ pc \in {"start", "ended", "killed"} => fds["parent"] = {}
    /\ child.state # "setup" => fds["child"] \cap ParentEnds = {}
    /\ fds["heir"] \cap ParentEnds = {}

\* Exit status: whichever of the five calls collects the child, the handle
\* knows it and has the code of how the child ended; a status that says the
\* child ended is the right one; and no signal goes to a process id that was
\* given back to the system.
ExitStatusExact ==
    /\ proc.pid => (proc.completed <=> child.state = "reaped")
    /\ proc.completed => proc.exit_code = ExitCode(child.status)
    /\ ret \in {"COMPLETED", "TERMINATED"} =>
           child.state = "reaped" /\ ret = Status(child.status)
    /\ pc = "kill" => child.state # "reaped"

\* ProcReadFromStdout and ProcReadFromStderr return at end of file only: the
\* pipe is empty and no process can write to it any more.
DrainedAtEof ==
    [][\A s \in Streams :
           pc = ReadOf(s) /\ pc' # pc => Inside(s) = 0 /\ ~Open(s, "w")]_vars

\* What ends every call: a wait with a time limit ends by itself, a wait with
\* the death of the child, a termination whenever the child does not ignore
\* SIGTERM, a read when the writers are gone, a write when the readers are.
CallsReturn ==
    /\ pc = "poll" ~> pc # "poll"
    /\ (pc = "wait" /\ child.state = "zombie") ~> pc # "wait"
    /\ (pc = "kill" /\ ~child.ignores) ~> pc \in {"idle", "ended"}
    /\ (pc = "write" /\ ~Open("stdin", "r")) ~> pc # "write"
    /\ \A s \in Streams :
           (pc = ReadOf(s) /\ ~Open(s, "w")) ~> pc # ReadOf(s)

\* ProcReadFromStdout, Proc.h:205: "Returns the number of bytes appended to
\* `buf`".  They are not when the Str cannot grow.
BytesAppended == pc = "idle" => buf = read
=============================================================================
