----------------------------- MODULE ProcessMode -----------------------------
(***************************************************************************)
(* run_process_mode of src/src/process_mode.c: the parent forks one child  *)
(* per partition of the trials, reaps them all, and only then collects     *)
(* each child's Result, from a pipe of its own (src/src/ipc_pipe.c) or     *)
(* from its slot of a shared table (src/src/ipc_shm.c).                    *)
(*                                                                         *)
(* A Result is ResultSize chunks on a pipe that holds PipeCapacity of      *)
(* them.  pipe and fork may fail, a write may fail, and a child may be     *)
(* killed or crash at any point.  No signal handler is installed, so       *)
(* waitpid, read and write are not interrupted.                            *)
(***************************************************************************)
EXTENDS Integers

CONSTANTS
  NumProcesses,  \* cfg->processes
  ResultSize,    \* sizeof(Result), in chunks
  PipeCapacity   \* what a pipe holds before a write blocks

\* A Result has 64 bytes, less than any pipe holds (POSIX: PIPE_BUF >= 512).
ASSUME ProcessAssumption ==
  /\ NumProcesses \in Nat \ {0}
  /\ ResultSize \in Nat \ {0}
  /\ PipeCapacity \in Nat
  /\ ResultSize <= PipeCapacity

Processes == 0 .. NumProcesses - 1

VARIABLES
  ipcMode,                  \* cfg->ipc_mode: "pipe" or "shm"
  main, index, failed, rc,  \* the parent and its locals
  pids,                     \* pids[i]: "zero", "child" or "error"
  child,                    \* where each child is, or how it ended
  written,                  \* chunks the child has written
  inPipe,                   \* chunks in pipes[i]
  got,                      \* chunks the parent has read of the current Result
  writers,                  \* the processes that have pipes[i][1] open
  readOpen,                 \* the parent has pipes[i][0] open
  stdinOpen,                \* the parent has descriptor 0 open
  slots, done,              \* the shared table: slot i holds a whole Result
  merged                    \* how often child i's Result was merged into *out

mainVars == <<main, index, failed, rc, pids>>
pipeVars == <<inPipe, writers>>
fdVars   == <<readOpen, stdinOpen>>
shmVars  == <<slots, done>>
vars == <<ipcMode, mainVars, child, written, pipeVars, got, fdVars, shmVars, merged>>

UsePipe == ipcMode = "pipe"

\* The children that have not ended.
Running == {"work", "send", "exit"}

Init ==
  /\ ipcMode \in {"pipe", "shm"}
  /\ main = "setup"
  /\ index = 0
  /\ failed = FALSE
  /\ rc = 0
  /\ pids = [i \in Processes |-> "zero"]
  /\ child = [i \in Processes |-> "absent"]
  /\ written = [i \in Processes |-> 0]
  /\ inPipe = [i \in Processes |-> 0]
  /\ got = 0
  /\ writers = [i \in Processes |-> {}]
  /\ readOpen = [i \in Processes |-> FALSE]
  /\ stdinOpen = TRUE
  /\ slots = [i \in Processes |-> FALSE]
  /\ done = [i \in Processes |-> FALSE]
  /\ merged = [i \in Processes |-> 0]

(* ---- the child ----------------------------------------------------------*)

ChildGoto(i, label) == child' = [child EXCEPT ![i] = label]

\* run_batch over the child's partition.
ChildWork(i) ==
  /\ child[i] = "work"
  /\ ChildGoto(i, "send")
  /\ UNCHANGED <<ipcMode, mainVars, written, pipeVars, got, fdVars, shmVars,
                 merged>>

\* ipc_write_full: write as much as the pipe takes, block while it is full.
ChildWrite(i) ==
  /\ child[i] = "send"
  /\ UsePipe
  /\ written[i] < ResultSize
  /\ inPipe[i] < PipeCapacity
  /\ written' = [written EXCEPT ![i] = @ + 1]
  /\ inPipe' = [inPipe EXCEPT ![i] = @ + 1]
  /\ UNCHANGED <<ipcMode, mainVars, child, writers, got, fdVars, shmVars,
                 merged>>

\* The Result is written, or a write failed, which nobody looks at; either
\* way the child closes its end of the pipe.
ChildClose(i) ==
  /\ child[i] = "send"
  /\ UsePipe
  /\ writers' = [writers EXCEPT ![i] = @ \ {"child"}]
  /\ ChildGoto(i, "exit")
  /\ UNCHANGED <<ipcMode, mainVars, written, inPipe, got, fdVars, shmVars,
                 merged>>

\* shm_write_result: the Result and the done flag are two stores to memory
\* nobody synchronizes, in either order.
ChildStoreSlot(i) ==
  /\ child[i] = "send"
  /\ ~UsePipe
  /\ ~slots[i]
  /\ slots' = [slots EXCEPT ![i] = TRUE]
  /\ UNCHANGED <<ipcMode, mainVars, child, written, pipeVars, got, fdVars,
                 done, merged>>

ChildStoreDone(i) ==
  /\ child[i] = "send"
  /\ ~UsePipe
  /\ ~done[i]
  /\ done' = [done EXCEPT ![i] = TRUE]
  /\ UNCHANGED <<ipcMode, mainVars, child, written, pipeVars, got, fdVars,
                 slots, merged>>

ChildStored(i) ==
  /\ child[i] = "send"
  /\ ~UsePipe
  /\ slots[i] /\ done[i]
  /\ ChildGoto(i, "exit")
  /\ UNCHANGED <<ipcMode, mainVars, written, pipeVars, got, fdVars, shmVars,
                 merged>>

\* Faulty: the child never gets to _exit.
ChildExitSpins(i) == child[i] = "exit" /\ UNCHANGED vars

\* _exit(0), whatever became of the Result.
ChildExit(i) ==
  /\ child[i] = "exit"
  /\ ChildGoto(i, "exited")
  /\ UNCHANGED <<ipcMode, mainVars, written, pipeVars, got, fdVars, shmVars,
                 merged>>

\* A signal ends the child, or it exits with another status; its descriptors
\* are closed.
ChildAborts(i) ==
  /\ child[i] \in Running
  /\ ChildGoto(i, "aborted")
  /\ writers' = [writers EXCEPT ![i] = @ \ {"child"}]
  /\ UNCHANGED <<ipcMode, mainVars, written, inPipe, got, fdVars, shmVars,
                 merged>>

(* ---- the parent ---------------------------------------------------------*)

MainGoto(label) == main' = label /\ index' = 0

\* Faulty: the loop runs to i <= processes.
NextTurnOneMore(label) ==
  IF index < NumProcesses THEN index' = index + 1 /\ UNCHANGED main
                          ELSE MainGoto(label)

\* One turn of a loop over the processes; the last one goes on to label.
NextTurn(label) ==
  IF index + 1 < NumProcesses THEN index' = index + 1 /\ UNCHANGED main
                              ELSE MainGoto(label)

\* calloc or shm_result_table_create fails: return -1.
MainNoMemory ==
  /\ main = "setup"
  /\ MainGoto("ended")
  /\ rc' = -1
  /\ UNCHANGED <<ipcMode, failed, pids, child, written, pipeVars, got, fdVars,
                 shmVars, merged>>

MainSetup ==
  /\ main = "setup"
  /\ MainGoto("fork")
  /\ UNCHANGED <<ipcMode, failed, rc, pids, child, written, pipeVars, got,
                 fdVars, shmVars, merged>>

\* Faulty: the parent keeps its copy of the write end.
MainForkKeepsWriter ==
  /\ main = "fork"
  /\ pids' = [pids EXCEPT ![index] = "child"]
  /\ child' = [child EXCEPT ![index] = "work"]
  /\ writers' = [writers EXCEPT ![index] = {"parent", "child"}]
  /\ readOpen' = [readOpen EXCEPT ![index] = TRUE]
  /\ NextTurn("wait")
  /\ UNCHANGED <<ipcMode, failed, rc, written, inPipe, got, stdinOpen, shmVars,
                 merged>>

\* pipe, fork, and the parent closes the write end.
MainFork ==
  /\ main = "fork"
  /\ pids' = [pids EXCEPT ![index] = "child"]
  /\ child' = [child EXCEPT ![index] = "work"]
  /\ IF UsePipe
       THEN /\ writers' = [writers EXCEPT ![index] = {"child"}]
            /\ readOpen' = [readOpen EXCEPT ![index] = TRUE]
       ELSE UNCHANGED <<writers, readOpen>>
  /\ NextTurn("wait")
  /\ UNCHANGED <<ipcMode, failed, rc, written, inPipe, got, stdinOpen, shmVars,
                 merged>>

\* pipe fails: pipes[i] and what follows stay zero.
MainPipeFails ==
  /\ main = "fork"
  /\ UsePipe
  /\ failed' = TRUE
  /\ MainGoto("wait")
  /\ UNCHANGED <<ipcMode, rc, pids, child, written, pipeVars, got, fdVars,
                 shmVars, merged>>

\* fork fails after pipe has opened both ends, which stay open.
MainForkFails ==
  /\ main = "fork"
  /\ pids' = [pids EXCEPT ![index] = "error"]
  /\ IF UsePipe
       THEN /\ writers' = [writers EXCEPT ![index] = {"parent"}]
            /\ readOpen' = [readOpen EXCEPT ![index] = TRUE]
       ELSE UNCHANGED <<writers, readOpen>>
  /\ failed' = TRUE
  /\ MainGoto("wait")
  /\ UNCHANGED <<ipcMode, rc, child, written, inPipe, got, stdinOpen, shmVars,
                 merged>>

\* Faulty: WNOHANG, a child that still runs counts as failed and is left.
MainWaitNoHang ==
  /\ main = "wait"
  /\ failed' = (failed \/ (pids[index] = "child" /\ child[index] # "exited"))
  /\ child' = [child EXCEPT ![index] =
       IF pids[index] = "child" /\ @ \notin Running THEN "reaped" ELSE @]
  /\ NextTurn("read")
  /\ UNCHANGED <<ipcMode, rc, pids, written, pipeVars, got, fdVars, shmVars,
                 merged>>

\* waitpid for every child there is; one that did not exit with 0 is a failure.
MainWait ==
  /\ main = "wait"
  /\ IF pids[index] = "child"
       THEN /\ child[index] \notin Running
            /\ failed' = (failed \/ child[index] # "exited")
            /\ child' = [child EXCEPT ![index] = "reaped"]
       ELSE UNCHANGED <<failed, child>>
  /\ NextTurn("read")
  /\ UNCHANGED <<ipcMode, rc, pids, written, pipeVars, got, fdVars, shmVars,
                 merged>>

\* ipc_read_full, one read.
MainRead ==
  /\ main = "read"
  /\ UsePipe
  /\ pids[index] = "child"
  /\ got < ResultSize
  /\ inPipe[index] > 0
  /\ inPipe' = [inPipe EXCEPT ![index] = @ - 1]
  /\ got' = got + 1
  /\ UNCHANGED <<ipcMode, mainVars, child, written, writers, fdVars, shmVars,
                 merged>>

\* Faulty: the read ends are never closed.
LeaveReadEnd == UNCHANGED fdVars

\* Close pipes[i][0] if it is >= 0, and the zero of a pipe that never was is.
CloseReadEnd ==
  /\ readOpen' = [readOpen EXCEPT ![index] = FALSE]
  /\ stdinOpen' = (stdinOpen /\ readOpen[index])

\* A whole Result has been read: merge it and turn to the next child.
MainMergeRead ==
  /\ main = "read"
  /\ UsePipe
  /\ pids[index] = "child"
  /\ got = ResultSize
  /\ merged' = [merged EXCEPT ![index] = @ + 1]
  /\ got' = 0
  /\ CloseReadEnd
  /\ NextTurn("post")
  /\ UNCHANGED <<ipcMode, failed, rc, pids, child, written, pipeVars, shmVars>>

\* Faulty: a Result that cannot be read is skipped.
MainReadEndsSkips ==
  /\ main = "read"
  /\ UsePipe
  /\ pids[index] = "child"
  /\ got < ResultSize
  /\ inPipe[index] = 0
  /\ writers[index] = {}
  /\ got' = 0
  /\ CloseReadEnd
  /\ NextTurn("post")
  /\ UNCHANGED <<ipcMode, failed, rc, pids, child, written, pipeVars, shmVars,
                 merged>>

\* read returns 0: no process has the write end open and the pipe is empty.
MainReadEnds ==
  /\ main = "read"
  /\ UsePipe
  /\ pids[index] = "child"
  /\ got < ResultSize
  /\ inPipe[index] = 0
  /\ writers[index] = {}
  /\ failed' = TRUE
  /\ got' = 0
  /\ CloseReadEnd
  /\ NextTurn("post")
  /\ UNCHANGED <<ipcMode, rc, pids, child, written, pipeVars, shmVars, merged>>

\* There is no child to read from.
MainSkipRead ==
  /\ main = "read"
  /\ UsePipe
  /\ pids[index] # "child"
  /\ CloseReadEnd
  /\ NextTurn("post")
  /\ UNCHANGED <<ipcMode, failed, rc, pids, child, written, pipeVars, got,
                 shmVars, merged>>

\* shm_read_result: only a slot marked done is merged, any other is a failure.
MainReadSlot ==
  /\ main = "read"
  /\ ~UsePipe
  /\ IF done[index]
       THEN /\ merged' = [merged EXCEPT ![index] = IF slots[index] THEN @ + 1 ELSE @]
            /\ UNCHANGED failed
       ELSE failed' = TRUE /\ UNCHANGED merged
  /\ NextTurn("post")
  /\ UNCHANGED <<ipcMode, rc, pids, child, written, pipeVars, got, fdVars,
                 shmVars>>

\* Postprocessing, free, destroy the table, return failed ? -1 : 0.
MainReturn ==
  /\ main = "post"
  /\ rc' = IF failed THEN -1 ELSE 0
  /\ MainGoto("ended")
  /\ UNCHANGED <<ipcMode, failed, pids, child, written, pipeVars, got, fdVars,
                 shmVars, merged>>

-----------------------------------------------------------------------------
ChildSend(i) ==
  \/ ChildWrite(i) \/ ChildClose(i)
  \/ ChildStoreSlot(i) \/ ChildStoreDone(i) \/ ChildStored(i)
  \/ ChildExit(i)

ChildStep(i) == ChildWork(i) \/ ChildSend(i)

MainStep ==
  \/ MainNoMemory \/ MainSetup
  \/ MainFork \/ MainPipeFails \/ MainForkFails \/ MainWait
  \/ MainRead \/ MainMergeRead \/ MainReadEnds \/ MainSkipRead
  \/ MainReadSlot \/ MainReturn

Next ==
  \/ \E i \in Processes : ChildStep(i) \/ ChildAborts(i)
  \/ MainStep
  \/ main = "ended" /\ UNCHANGED vars

Spec == Init /\ [][Next]_vars

\* Parent and children are scheduled; nothing makes anybody kill a child.
Fairness == WF_vars(MainStep) /\ \A i \in Processes : WF_vars(ChildStep(i))

FairSpec == Spec /\ Fairness

-----------------------------------------------------------------------------
(* Properties. *)

TypeOK ==
  /\ ipcMode \in {"pipe", "shm"}
  /\ main \in {"setup", "fork", "wait", "read", "post", "ended"}
  /\ index \in Processes
  /\ failed \in BOOLEAN
  /\ rc \in {0, -1}
  /\ pids \in [Processes -> {"zero", "child", "error"}]
  /\ child \in [Processes -> Running \cup {"absent", "exited", "aborted", "reaped"}]
  /\ written \in [Processes -> 0 .. ResultSize]
  /\ inPipe \in [Processes -> 0 .. PipeCapacity]
  /\ got \in 0 .. ResultSize
  /\ writers \in [Processes -> SUBSET {"parent", "child"}]
  /\ readOpen \in [Processes -> BOOLEAN]
  /\ stdinOpen \in BOOLEAN
  /\ slots \in [Processes -> BOOLEAN]
  /\ done \in [Processes -> BOOLEAN]
  /\ merged \in [Processes -> Nat]

\* No child outlives the run and none is left a zombie: the parent reads no
\* pipe and no slot before every child has ended and been reaped.
AllReaped ==
  main \in {"read", "post", "ended"} =>
    \A i \in Processes : child[i] \in {"absent", "reaped"}

\* Reading after waitpid never blocks: what a child did not write before it
\* ended is an end of file, because nobody else holds its write end.
ReadsDoNotBlock ==
  main = "read" =>
    \A i \in Processes : pids[i] = "child" => writers[i] = {}

\* A successful run leaves the parent the descriptors it started with.
DescriptorsRestored ==
  main = "ended" /\ rc = 0 =>
    /\ stdinOpen
    /\ \A i \in Processes : ~readOpen[i] /\ "parent" \notin writers[i]

Run == INSTANCE SimulationRun
  WITH Pieces <- Processes,
       accounted <- {i \in Processes : merged[i] = 1},
       status <- IF main # "ended" THEN "running"
                 ELSE IF rc = 0 THEN "ok" ELSE "failed"

\* run_process_mode keeps the promise of every mode: it returns 0 only with
\* the whole Result of every child merged into *out exactly once, although a
\* child ignores a failed write and exits with 0.
ImplementsRun == Run!Spec

\* The run ends, whatever fails and whichever child is killed.
Ends == <>(main = "ended")

=============================================================================
