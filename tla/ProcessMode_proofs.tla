------------------------- MODULE ProcessMode_proofs -------------------------
(***************************************************************************)
(* Proofs about ProcessMode for any number of processes and any size of    *)
(* a Result: run_process_mode reaps every child, never blocks on a pipe,   *)
(* restores its descriptors, and keeps the promise of SimulationRun; no    *)
(* write blocks either, parent and children never all wait, and the steps  *)
(* left go down in every step.                                             *)
(***************************************************************************)
EXTENDS ProcessMode, Partition_proofs

\* The parent's loops have all still to be gone through from index on, and a
\* loop without a failure has done what it is there for up to index.
ForkedSoFar ==
  /\ main = "setup" => \A i \in Processes : pids[i] = "zero"
  /\ main = "setup" => index = 0 /\ ~failed
  /\ main = "fork" => ~failed
  /\ main = "fork" =>
       \A i \in Processes : pids[i] = (IF i < index THEN "child" ELSE "zero")
  /\ main \notin {"setup", "fork"} /\ ~failed /\ (main = "ended" => rc = 0) =>
       \A i \in Processes : pids[i] = "child"

\* There is a child exactly where fork succeeded, it is reaped in order, and
\* what it stored is complete unless its end has been noticed as a failure.
ChildrenInStep ==
  \A i \in Processes :
    /\ pids[i] = "child" <=> child[i] # "absent"
    /\ main \in {"setup", "fork"} => child[i] # "reaped"
    /\ main = "wait" =>
         (child[i] = "reaped" <=> pids[i] = "child" /\ i < index)
    /\ ~UsePipe /\ child[i] \in {"exit", "exited"} => slots[i]
    /\ ~UsePipe /\ child[i] = "reaped" /\ ~failed => slots[i]

\* A child that has ended has closed its write end, and the parent holds one
\* only where fork failed.
WriteEndsClosed ==
  \A i \in Processes :
    /\ child[i] \notin {"work", "send"} => "child" \notin writers[i]
    /\ "parent" \in writers[i] => pids[i] = "error"
    /\ ~UsePipe => writers[i] = {}

\* Every Result is merged in its own turn of the last loop.
MergedInTurn ==
  /\ main \in {"setup", "fork", "wait"} => \A i \in Processes : merged[i] = 0
  /\ main = "read" =>
       \A i \in Processes : /\ i >= index => merged[i] = 0
                            /\ i < index /\ ~failed => merged[i] = 1
  /\ main = "post" /\ ~failed => \A i \in Processes : merged[i] = 1
  /\ main = "ended" /\ rc = 0 => \A i \in Processes : merged[i] = 1

\* The descriptors of a run without failures.
DescriptorsInStep ==
  /\ main = "ended" /\ rc = 0 => ~failed
  /\ ~failed => stdinOpen
  /\ ~UsePipe => \A i \in Processes : ~readOpen[i]
  /\ UsePipe /\ main = "fork" => \A i \in Processes : i < index => readOpen[i]
  /\ UsePipe /\ main = "wait" /\ ~failed => \A i \in Processes : readOpen[i]
  /\ UsePipe /\ main = "read" /\ ~failed =>
       \A i \in Processes : readOpen[i] <=> i >= index
  /\ main \in {"post", "ended"} /\ ~failed /\ (main = "ended" => rc = 0) =>
       \A i \in Processes : ~readOpen[i]

IInv ==
  /\ TypeOK
  /\ AllReaped
  /\ ForkedSoFar
  /\ ChildrenInStep
  /\ WriteEndsClosed
  /\ MergedInTurn
  /\ DescriptorsInStep

-----------------------------------------------------------------------------
(* The steps. *)

Labels == {"setup", "fork", "wait", "read", "post", "ended"}

\* A turn of a loop leaves index a process and main a label.
LEMMA NextTurnType ==
  ASSUME TypeOK, NEW label \in Labels, NextTurn(label)
  PROVE  index' \in Processes /\ main' \in Labels
BY ProcessAssumption DEF TypeOK, Labels, NextTurn, MainGoto, Processes

\* A step of a child changes nothing that is the parent's.
LEMMA ChildKeeps ==
  ASSUME NEW i \in Processes, ChildStep(i) \/ ChildAborts(i)
  PROVE  UNCHANGED <<ipcMode, mainVars, got, fdVars, merged>>
BY DEF ChildStep, ChildSend, ChildWork, ChildWrite, ChildClose, ChildStoreSlot,
       ChildStoreDone, ChildStored, ChildExit, ChildAborts

\* A turn that goes on to the next process.
InnerTurn ==
  /\ main' = main
  /\ \A i \in Processes : /\ i < index' <=> i < index \/ i = index
                          /\ i >= index' <=> i >= index /\ i # index

\* The last turn of a loop, which goes on to label.
LastTurn(label) ==
  /\ main' = label
  /\ \A i \in Processes : /\ i < index \/ i = index
                          /\ i >= index' /\ ~(i < index')

\* A turn of a loop is one of the two.
LEMMA TurnCases ==
  ASSUME TypeOK, NEW label, NextTurn(label)
  PROVE  InnerTurn \/ LastTurn(label)
<1> USE ProcessAssumption
<1>1. CASE index + 1 < NumProcesses
  BY <1>1 DEF TypeOK, NextTurn, InnerTurn, Processes
<1>2. CASE ~(index + 1 < NumProcesses)
  BY <1>2 DEF TypeOK, NextTurn, MainGoto, LastTurn, Processes
<1> QED
  BY <1>1, <1>2

\* index is one of the processes, and < and >= are as they should be.
LEMMA IndexOrder ==
  ASSUME TypeOK
  PROVE  /\ index \in Processes
         /\ ~(index < index) /\ index >= index
         /\ \A i \in Processes : i >= index <=> ~(i < index)
BY ProcessAssumption DEF TypeOK, Processes

\* A step keeps the types.
LEMMA TypeStep == IInv /\ [Next]_vars => TypeOK'
<1> SUFFICES ASSUME IInv, [Next]_vars PROVE TypeOK'
  OBVIOUS
<1>0. TypeOK
  BY DEF IInv
<1> USE ProcessAssumption, <1>0
<1>1. ASSUME NEW i \in Processes, ChildWork(i) PROVE TypeOK'
  BY <1>1
     DEF ChildWork, ChildGoto, TypeOK, Running, mainVars, pipeVars, fdVars,
         shmVars
<1>2. ASSUME NEW i \in Processes, ChildWrite(i) PROVE TypeOK'
  <2>1. /\ written[i] + 1 \in 0 .. ResultSize
        /\ inPipe[i] + 1 \in 0 .. PipeCapacity
    BY <1>2 DEF TypeOK, ChildWrite
  <2> QED
    BY <1>2, <2>1 DEF TypeOK, ChildWrite, mainVars, fdVars, shmVars
<1>3. ASSUME NEW i \in Processes, ChildClose(i) PROVE TypeOK'
  BY <1>3 DEF ChildClose, ChildGoto, TypeOK, Running, mainVars, fdVars, shmVars
<1>4. ASSUME NEW i \in Processes, ChildStoreSlot(i) PROVE TypeOK'
  BY <1>4 DEF ChildStoreSlot, TypeOK, mainVars, pipeVars, fdVars
<1>5. ASSUME NEW i \in Processes, ChildStoreDone(i) PROVE TypeOK'
  BY <1>5 DEF ChildStoreDone, TypeOK, mainVars, pipeVars, fdVars
<1>6. ASSUME NEW i \in Processes, ChildStored(i) PROVE TypeOK'
  BY <1>6
     DEF ChildStored, ChildGoto, TypeOK, Running, mainVars, pipeVars, fdVars,
         shmVars
<1>7. ASSUME NEW i \in Processes, ChildExit(i) PROVE TypeOK'
  BY <1>7 DEF ChildExit, ChildGoto, TypeOK, mainVars, pipeVars, fdVars, shmVars
<1>8. ASSUME NEW i \in Processes, ChildAborts(i) PROVE TypeOK'
  BY <1>8 DEF ChildAborts, ChildGoto, TypeOK, mainVars, fdVars, shmVars
<1>9. CASE MainNoMemory
  <2>1. 0 \in Processes
    BY DEF Processes
  <2> QED
    BY <1>9, <2>1 DEF MainNoMemory, MainGoto, TypeOK, pipeVars, fdVars, shmVars
<1>10. CASE MainSetup
  BY <1>10
     DEF MainSetup, MainGoto, TypeOK, Processes, pipeVars, fdVars, shmVars
<1>11. CASE MainFork
  <2>1. index' \in Processes /\ main' \in Labels
    BY <1>11, NextTurnType DEF MainFork, Labels
  <2>2. writers' \in [Processes -> SUBSET {"parent", "child"}]
    BY <1>11 DEF MainFork, TypeOK
  <2>3. readOpen' \in [Processes -> BOOLEAN]
    BY <1>11 DEF MainFork, TypeOK
  <2> QED
    BY <1>11, <2>1, <2>2, <2>3 DEF MainFork, Labels, TypeOK, Running, shmVars
<1>12. CASE MainPipeFails
  <2>1. 0 \in Processes
    BY DEF Processes
  <2> QED
    BY <1>12, <2>1
       DEF MainPipeFails, MainGoto, TypeOK, pipeVars, fdVars, shmVars
<1>13. CASE MainForkFails
  <2>1. index' \in Processes /\ main' \in Labels
    BY <1>13 DEF MainForkFails, Labels, MainGoto, Processes
  <2>2. writers' \in [Processes -> SUBSET {"parent", "child"}]
    BY <1>13 DEF MainForkFails, TypeOK
  <2>3. readOpen' \in [Processes -> BOOLEAN]
    BY <1>13 DEF MainForkFails, TypeOK
  <2> QED
    BY <1>13, <2>1, <2>2, <2>3 DEF MainForkFails, Labels, TypeOK, shmVars
<1>14. CASE MainWait
  <2>1. index' \in Processes /\ main' \in Labels
    BY <1>14, NextTurnType DEF MainWait, Labels
  <2> QED
    BY <1>14, <2>1 DEF MainWait, Labels, TypeOK, pipeVars, fdVars, shmVars
<1>15. CASE MainRead
  <2>1. inPipe[index] - 1 \in 0 .. PipeCapacity /\ got + 1 \in 0 .. ResultSize
    BY <1>15 DEF MainRead, TypeOK
  <2> QED
    BY <1>15, <2>1 DEF MainRead, TypeOK, mainVars, fdVars, shmVars
<1>16. CASE MainMergeRead
  <2>1. index' \in Processes /\ main' \in Labels
    BY <1>16, NextTurnType DEF MainMergeRead, Labels
  <2> QED
    BY <1>16, <2>1
       DEF MainMergeRead, Labels, TypeOK, CloseReadEnd, pipeVars, shmVars
<1>17. CASE MainReadEnds
  <2>1. index' \in Processes /\ main' \in Labels
    BY <1>17, NextTurnType DEF MainReadEnds, Labels
  <2> QED
    BY <1>17, <2>1
       DEF MainReadEnds, Labels, TypeOK, CloseReadEnd, pipeVars, shmVars
<1>18. CASE MainSkipRead
  <2>1. index' \in Processes /\ main' \in Labels
    BY <1>18, NextTurnType DEF MainSkipRead, Labels
  <2> QED
    BY <1>18, <2>1
       DEF MainSkipRead, Labels, TypeOK, CloseReadEnd, pipeVars, shmVars
<1>19. CASE MainReadSlot
  <2>1. index' \in Processes /\ main' \in Labels
    BY <1>19, NextTurnType DEF MainReadSlot, Labels
  <2>2. merged[index] \in Nat /\ merged[index] + 1 \in Nat
    BY DEF TypeOK
  <2>3. CASE done[index]
    BY <1>19, <2>1, <2>2, <2>3
       DEF MainReadSlot, Labels, TypeOK, pipeVars, fdVars, shmVars
  <2>4. CASE ~done[index]
    BY <1>19, <2>1, <2>4
       DEF MainReadSlot, Labels, TypeOK, pipeVars, fdVars, shmVars
  <2> QED
    BY <2>3, <2>4
<1>20. CASE MainReturn
  BY <1>20
     DEF MainReturn, MainGoto, TypeOK, Processes, pipeVars, fdVars, shmVars
<1>21. CASE UNCHANGED vars
  BY <1>21 DEF TypeOK, vars, mainVars, pipeVars, fdVars, shmVars
<1> QED
  BY <1>1, <1>2, <1>3, <1>4, <1>5, <1>6, <1>7, <1>8, <1>9, <1>10, <1>11, <1>12,
     <1>13, <1>14, <1>15, <1>16, <1>17, <1>18, <1>19, <1>20, <1>21
     DEF Next, ChildStep, ChildSend, MainStep, vars

\* The loop over fork keeps its account of the children.
LEMMA ForkStep == IInv /\ [Next]_vars => ForkedSoFar'
<1> SUFFICES ASSUME IInv, [Next]_vars PROVE ForkedSoFar'
  OBVIOUS
<1>0. TypeOK /\ ForkedSoFar
  BY DEF IInv
<1> USE ProcessAssumption, <1>0
<1>1. CASE UNCHANGED mainVars
  BY <1>1 DEF ForkedSoFar, mainVars
<1>2. CASE MainNoMemory
  BY <1>2 DEF MainNoMemory, MainGoto, ForkedSoFar
<1>3. CASE MainSetup
  BY <1>3 DEF MainSetup, MainGoto, ForkedSoFar, Processes
<1>4. CASE MainFork
  <2>1. /\ main = "fork" /\ ~failed' /\ ~failed
        /\ pids'[index] = "child"
        /\ \A i \in Processes : i # index => pids'[i] = pids[i]
    BY <1>4 DEF MainFork, TypeOK, ForkedSoFar
  <2>8. CASE InnerTurn
    BY <2>1, <2>8, IndexOrder DEF ForkedSoFar, InnerTurn
  <2>9. CASE LastTurn("wait")
    BY <2>1, <2>9, IndexOrder DEF ForkedSoFar, LastTurn
  <2> QED
    BY <1>4, <2>8, <2>9, TurnCases DEF MainFork
<1>5. CASE MainPipeFails
  BY <1>5 DEF MainPipeFails, MainGoto, ForkedSoFar
<1>6. CASE MainForkFails
  BY <1>6 DEF MainForkFails, MainGoto, ForkedSoFar
<1>7. CASE MainWait
  BY <1>7 DEF MainWait, MainGoto, NextTurn, ForkedSoFar
<1>8. CASE MainMergeRead
  BY <1>8 DEF MainMergeRead, MainGoto, NextTurn, ForkedSoFar
<1>9. CASE MainReadEnds
  BY <1>9 DEF MainReadEnds, MainGoto, NextTurn, ForkedSoFar
<1>10. CASE MainSkipRead
  BY <1>10 DEF MainSkipRead, MainGoto, NextTurn, ForkedSoFar
<1>11. CASE MainReadSlot
  BY <1>11 DEF MainReadSlot, MainGoto, NextTurn, ForkedSoFar
<1>12. CASE MainReturn
  BY <1>12 DEF MainReturn, MainGoto, ForkedSoFar
<1> QED
  BY <1>1, <1>2, <1>3, <1>4, <1>5, <1>6, <1>7, <1>8, <1>9, <1>10, <1>11, <1>12,
     ChildKeeps
     DEF Next, MainStep, vars, MainRead

\* A step keeps child, pids and slots in step.
LEMMA ChildrenStep == IInv /\ [Next]_vars => ChildrenInStep'
<1> SUFFICES ASSUME IInv, [Next]_vars PROVE ChildrenInStep'
  OBVIOUS
<1>0. TypeOK /\ AllReaped /\ ForkedSoFar /\ ChildrenInStep
  BY DEF IInv
<1> USE ProcessAssumption, <1>0
<1>1. CASE UNCHANGED <<ipcMode, main, index, failed, pids, child, slots>>
  BY <1>1 DEF ChildrenInStep, UsePipe
<1>2. ASSUME NEW i \in Processes, ChildWork(i) PROVE ChildrenInStep'
  BY <1>2 DEF ChildWork, ChildGoto, ChildrenInStep, UsePipe, mainVars, shmVars
<1>3. ASSUME NEW i \in Processes, ChildClose(i) PROVE ChildrenInStep'
  BY <1>3 DEF ChildClose, ChildGoto, ChildrenInStep, UsePipe, mainVars
<1>4. ASSUME NEW i \in Processes, ChildStoreSlot(i) PROVE ChildrenInStep'
  BY <1>4 DEF ChildStoreSlot, ChildrenInStep, mainVars
<1>5. ASSUME NEW i \in Processes, ChildStored(i) PROVE ChildrenInStep'
  BY <1>5 DEF ChildStored, ChildGoto, ChildrenInStep, mainVars, shmVars
<1>6. ASSUME NEW i \in Processes, ChildExit(i) PROVE ChildrenInStep'
  BY <1>6 DEF ChildExit, ChildGoto, ChildrenInStep, UsePipe, mainVars, shmVars
<1>7. ASSUME NEW i \in Processes, ChildAborts(i) PROVE ChildrenInStep'
  BY <1>7
     DEF ChildAborts, ChildGoto, ChildrenInStep, Running, UsePipe, mainVars,
         shmVars
<1>8. CASE MainNoMemory
  BY <1>8 DEF MainNoMemory, MainGoto, ForkedSoFar, ChildrenInStep
<1>9. CASE MainSetup
  BY <1>9 DEF MainSetup, MainGoto, ForkedSoFar, ChildrenInStep
<1>10. CASE MainFork
  BY SMTT(30), <1>10
     DEF MainFork, MainGoto, NextTurn, TypeOK, AllReaped, ForkedSoFar,
         ChildrenInStep, Processes, Running, UsePipe, shmVars
<1>11. CASE MainPipeFails
  BY <1>11 DEF MainPipeFails, MainGoto, ChildrenInStep, Processes, UsePipe
<1>12. CASE MainForkFails
  BY <1>12
     DEF MainForkFails, MainGoto, ForkedSoFar, ChildrenInStep, Processes,
         UsePipe, shmVars
<1>13. CASE MainWait
  <2>1. /\ main = "wait" /\ UNCHANGED <<ipcMode, pids, slots>>
        /\ failed => failed'
        /\ \A i \in Processes : i # index => child'[i] = child[i]
    BY <1>13 DEF MainWait, TypeOK, shmVars
  <2>2. /\ pids[index] = "child" => child'[index] = "reaped"
        /\ pids[index] # "child" => child'[index] = child[index]
    BY <1>13 DEF MainWait, TypeOK
  <2>3. ~UsePipe /\ pids[index] = "child" /\ ~failed' => slots[index]
    BY <1>13, IndexOrder DEF MainWait, ChildrenInStep
  <2>8. CASE InnerTurn
    BY <2>1, <2>2, <2>3, <2>8, IndexOrder
       DEF ChildrenInStep, UsePipe, InnerTurn
  <2>9. CASE LastTurn("read")
    BY <2>1, <2>2, <2>3, <2>9, IndexOrder DEF ChildrenInStep, UsePipe, LastTurn
  <2> QED
    BY <1>13, <2>8, <2>9, TurnCases DEF MainWait
<1>14. CASE MainMergeRead
  BY <1>14 DEF MainMergeRead, MainGoto, NextTurn, ChildrenInStep, UsePipe
<1>15. CASE MainReadEnds
  BY <1>15 DEF MainReadEnds, MainGoto, NextTurn, ChildrenInStep, UsePipe
<1>16. CASE MainSkipRead
  BY <1>16 DEF MainSkipRead, MainGoto, NextTurn, ChildrenInStep, UsePipe
<1>17. CASE MainReadSlot
  BY <1>17 DEF MainReadSlot, MainGoto, NextTurn, ChildrenInStep, shmVars
<1>18. CASE MainReturn
  BY <1>18 DEF MainReturn, MainGoto, ChildrenInStep, UsePipe, shmVars
<1> QED
  BY <1>1, <1>2, <1>3, <1>4, <1>5, <1>6, <1>7, <1>8, <1>9, <1>10, <1>11, <1>12,
     <1>13, <1>14, <1>15, <1>16, <1>17, <1>18
     DEF Next, ChildStep, ChildSend, MainStep, vars, ChildWrite,
         ChildStoreDone, MainRead, mainVars, shmVars

\* The loop over waitpid leaves no child unreaped.
LEMMA ReapStep == IInv /\ [Next]_vars => AllReaped'
<1> SUFFICES ASSUME IInv, [Next]_vars PROVE AllReaped'
  OBVIOUS
<1>0. TypeOK /\ ForkedSoFar /\ AllReaped /\ ChildrenInStep
  BY DEF IInv
<1> USE ProcessAssumption, <1>0
<1>1. CASE UNCHANGED <<main, child>>
  BY <1>1 DEF AllReaped
<1>2. ASSUME NEW i \in Processes, ChildWork(i) PROVE AllReaped'
  BY <1>2 DEF ChildWork, ChildGoto, AllReaped, mainVars
<1>3. ASSUME NEW i \in Processes, ChildClose(i) PROVE AllReaped'
  BY <1>3 DEF ChildClose, ChildGoto, AllReaped, mainVars
<1>4. ASSUME NEW i \in Processes, ChildStored(i) PROVE AllReaped'
  BY <1>4 DEF ChildStored, ChildGoto, AllReaped, mainVars
<1>5. ASSUME NEW i \in Processes, ChildExit(i) PROVE AllReaped'
  BY <1>5 DEF ChildExit, ChildGoto, AllReaped, mainVars
<1>6. ASSUME NEW i \in Processes, ChildAborts(i) PROVE AllReaped'
  BY <1>6 DEF ChildAborts, ChildGoto, AllReaped, Running, mainVars
<1>7. CASE MainNoMemory
  BY <1>7 DEF MainNoMemory, MainGoto, ForkedSoFar, AllReaped, ChildrenInStep
<1>8. CASE MainSetup
  BY <1>8 DEF MainSetup, MainGoto, AllReaped
<1>9. CASE MainFork
  BY <1>9 DEF MainFork, MainGoto, NextTurn, AllReaped
<1>10. CASE MainPipeFails
  BY <1>10 DEF MainPipeFails, MainGoto, AllReaped
<1>11. CASE MainForkFails
  BY <1>11 DEF MainForkFails, MainGoto, AllReaped
<1>12. CASE MainWait
  <2>1. /\ main = "wait"
        /\ \A i \in Processes : i # index => child'[i] = child[i]
        /\ child'[index] \in {"absent", "reaped"}
    BY <1>12, IndexOrder DEF MainWait, TypeOK, ChildrenInStep
  <2>8. CASE InnerTurn
    BY <2>1, <2>8, IndexOrder DEF AllReaped, InnerTurn
  <2>9. CASE LastTurn("read")
    BY <2>1, <2>9, IndexOrder DEF AllReaped, ChildrenInStep, LastTurn
  <2> QED
    BY <1>12, <2>8, <2>9, TurnCases DEF MainWait
<1>13. CASE MainMergeRead
  BY <1>13 DEF MainMergeRead, MainGoto, AllReaped
<1>14. CASE MainReadEnds
  BY <1>14 DEF MainReadEnds, MainGoto, AllReaped
<1>15. CASE MainSkipRead
  BY <1>15 DEF MainSkipRead, MainGoto, AllReaped
<1>16. CASE MainReadSlot
  BY <1>16 DEF MainReadSlot, MainGoto, AllReaped
<1>17. CASE MainReturn
  BY <1>17 DEF MainReturn, MainGoto, AllReaped
<1> QED
  BY <1>1, <1>2, <1>3, <1>4, <1>5, <1>6, <1>7, <1>8, <1>9, <1>10, <1>11, <1>12,
     <1>13, <1>14, <1>15, <1>16, <1>17
     DEF Next, ChildStep, ChildSend, MainStep, vars, ChildWrite,
         ChildStoreSlot, ChildStoreDone, MainRead, mainVars

\* A step leaves no write end open that could hold up a read.
LEMMA WriteEndStep == IInv /\ [Next]_vars => WriteEndsClosed'
<1> SUFFICES ASSUME IInv, [Next]_vars PROVE WriteEndsClosed'
  OBVIOUS
<1>0. TypeOK /\ ChildrenInStep /\ ForkedSoFar /\ WriteEndsClosed
  BY DEF IInv
<1> USE ProcessAssumption, <1>0
<1>1. CASE UNCHANGED <<ipcMode, pids, child, writers>>
  BY <1>1 DEF WriteEndsClosed, UsePipe
<1>2. ASSUME NEW i \in Processes, ChildWork(i) PROVE WriteEndsClosed'
  BY <1>2
     DEF ChildWork, ChildGoto, WriteEndsClosed, UsePipe, mainVars, pipeVars
<1>3. ASSUME NEW i \in Processes, ChildClose(i) PROVE WriteEndsClosed'
  BY <1>3 DEF ChildClose, ChildGoto, TypeOK, WriteEndsClosed, UsePipe, mainVars
<1>4. ASSUME NEW i \in Processes, ChildStored(i) PROVE WriteEndsClosed'
  BY <1>4 DEF ChildStored, ChildGoto, WriteEndsClosed, pipeVars
<1>5. ASSUME NEW i \in Processes, ChildExit(i) PROVE WriteEndsClosed'
  BY <1>5
     DEF ChildExit, ChildGoto, WriteEndsClosed, UsePipe, mainVars, pipeVars
<1>6. ASSUME NEW i \in Processes, ChildAborts(i) PROVE WriteEndsClosed'
  BY <1>6
     DEF ChildAborts, ChildGoto, TypeOK, WriteEndsClosed, UsePipe, mainVars
<1>7. CASE MainFork
  <2>1. \A i \in Processes : /\ i # index
                             => /\ child'[i] = child[i]
                                /\ writers'[i] = writers[i]
                                /\ pids'[i] = pids[i]
    BY <1>7 DEF MainFork, TypeOK
  <2>2. child[index] = "absent" /\ pids[index] = "zero"
    BY <1>7, IndexOrder DEF MainFork, ChildrenInStep, ForkedSoFar
  <2>3. /\ ipcMode' = ipcMode
        /\ "child" \in writers'[index] => child'[index] = "work"
        /\ "parent" \in writers'[index] => pids'[index] = "error"
        /\ ~UsePipe => writers'[index] = writers[index]
    BY <1>7, <2>2, IndexOrder DEF MainFork, TypeOK, WriteEndsClosed
  <2> QED
    BY <2>1, <2>2, <2>3, IndexOrder DEF WriteEndsClosed, UsePipe
<1>8. CASE MainForkFails
  <2>1. \A i \in Processes : /\ i # index
                             => /\ child'[i] = child[i]
                                /\ writers'[i] = writers[i]
                                /\ pids'[i] = pids[i]
    BY <1>8 DEF MainForkFails, TypeOK
  <2>2. child[index] = "absent" /\ pids[index] = "zero"
    BY <1>8, IndexOrder DEF MainForkFails, ChildrenInStep, ForkedSoFar
  <2>3. /\ ipcMode' = ipcMode
        /\ "child" \in writers'[index] => child'[index] = "work"
        /\ "parent" \in writers'[index] => pids'[index] = "error"
        /\ ~UsePipe => writers'[index] = writers[index]
    BY <1>8, <2>2, IndexOrder DEF MainForkFails, TypeOK, WriteEndsClosed
  <2> QED
    BY <2>1, <2>2, <2>3, IndexOrder DEF WriteEndsClosed, UsePipe
<1>9. CASE MainWait
  BY <1>9
     DEF MainWait, MainGoto, TypeOK, WriteEndsClosed, Running, UsePipe,
         pipeVars, shmVars
<1> QED
  BY <1>1, <1>2, <1>3, <1>4, <1>5, <1>6, <1>7, <1>8, <1>9
     DEF Next, ChildStep, ChildSend, MainStep, vars, ChildWrite,
         ChildStoreSlot, ChildStoreDone, MainRead, MainNoMemory, MainSetup,
         MainPipeFails, MainMergeRead, MainReadEnds, MainSkipRead,
         MainReadSlot, MainReturn, mainVars, pipeVars

\* Each turn of the last loop merges its own Result, once.
LEMMA MergeStep == IInv /\ [Next]_vars => MergedInTurn'
<1> SUFFICES ASSUME IInv, [Next]_vars PROVE MergedInTurn'
  OBVIOUS
<1>0. TypeOK /\ AllReaped /\ ForkedSoFar /\ ChildrenInStep /\ MergedInTurn
  BY DEF IInv
<1> USE ProcessAssumption, <1>0
<1>1. CASE UNCHANGED <<mainVars, merged>>
  BY <1>1 DEF MergedInTurn, mainVars
<1>2. CASE MainNoMemory
  BY <1>2 DEF MainNoMemory, MainGoto, MergedInTurn
<1>3. CASE MainSetup
  BY <1>3 DEF MainSetup, MainGoto, MergedInTurn
<1>4. CASE MainFork
  BY <1>4 DEF MainFork, MainGoto, NextTurn, MergedInTurn
<1>5. CASE MainPipeFails
  BY <1>5 DEF MainPipeFails, MainGoto, MergedInTurn
<1>6. CASE MainForkFails
  BY <1>6 DEF MainForkFails, MainGoto, MergedInTurn
<1>7. CASE MainWait
  BY <1>7 DEF MainWait, MainGoto, NextTurn, MergedInTurn, Processes
<1>8. CASE MainMergeRead
  <2>1. \A i \in Processes : i # index => merged'[i] = merged[i]
    BY <1>8 DEF MainMergeRead
  <2>2. /\ failed \in BOOLEAN /\ failed' \in BOOLEAN
        /\ ~failed' => ~failed /\ merged'[index] = 1
    BY <1>8, IndexOrder DEF MainMergeRead, TypeOK, MergedInTurn
  <2>3. main = "read" /\ NextTurn("post") /\ rc' = rc
    BY <1>8 DEF MainMergeRead
  <2>8. CASE InnerTurn
    BY <2>1, <2>2, <2>3, <2>8, IndexOrder DEF MergedInTurn, InnerTurn
  <2>9. CASE LastTurn("post")
    BY <2>1, <2>2, <2>3, <2>9, IndexOrder DEF MergedInTurn, LastTurn
  <2> QED
    BY <1>8, <2>8, <2>9, TurnCases DEF MainMergeRead
<1>9. CASE MainReadEnds
  <2>1. \A i \in Processes : i # index => merged'[i] = merged[i]
    BY <1>9 DEF MainReadEnds
  <2>2. /\ failed \in BOOLEAN /\ failed' \in BOOLEAN
        /\ ~failed' => ~failed /\ merged'[index] = 1
    BY <1>9, IndexOrder DEF MainReadEnds, TypeOK, MergedInTurn
  <2>3. main = "read" /\ NextTurn("post") /\ rc' = rc
    BY <1>9 DEF MainReadEnds
  <2>8. CASE InnerTurn
    BY <2>1, <2>2, <2>3, <2>8, IndexOrder DEF MergedInTurn, InnerTurn
  <2>9. CASE LastTurn("post")
    BY <2>1, <2>2, <2>3, <2>9, IndexOrder DEF MergedInTurn, LastTurn
  <2> QED
    BY <1>9, <2>8, <2>9, TurnCases DEF MainReadEnds
<1>10. CASE MainSkipRead
  <2>1. \A i \in Processes : i # index => merged'[i] = merged[i]
    BY <1>10 DEF MainSkipRead
  <2>2. /\ failed \in BOOLEAN /\ failed' \in BOOLEAN
        /\ ~failed' => ~failed /\ merged'[index] = 1
    BY <1>10, IndexOrder DEF MainSkipRead, ForkedSoFar, MergedInTurn
  <2>3. main = "read" /\ NextTurn("post") /\ rc' = rc
    BY <1>10 DEF MainSkipRead
  <2>8. CASE InnerTurn
    BY <2>1, <2>2, <2>3, <2>8, IndexOrder DEF MergedInTurn, InnerTurn
  <2>9. CASE LastTurn("post")
    BY <2>1, <2>2, <2>3, <2>9, IndexOrder DEF MergedInTurn, LastTurn
  <2> QED
    BY <1>10, <2>8, <2>9, TurnCases DEF MainSkipRead
<1>11. CASE MainReadSlot
  <2>1. \A i \in Processes : i # index => merged'[i] = merged[i]
    BY <1>11 DEF MainReadSlot, TypeOK
  <2>4. merged[index] = 0
    BY <1>11, IndexOrder DEF MainReadSlot, MergedInTurn
  <2>5. done[index] /\ ~failed => slots[index]
    BY <1>11, IndexOrder
       DEF MainReadSlot, ForkedSoFar, ChildrenInStep, AllReaped
  <2>2. /\ failed \in BOOLEAN /\ failed' \in BOOLEAN
        /\ ~failed' => ~failed /\ merged'[index] = 1
    <3>1. CASE done[index]
      BY <1>11, <2>4, <2>5, <3>1, IndexOrder DEF MainReadSlot, TypeOK
    <3>2. CASE ~done[index]
      BY <1>11, <3>2 DEF MainReadSlot, TypeOK
    <3> QED
      BY <3>1, <3>2
  <2>3. main = "read" /\ NextTurn("post") /\ rc' = rc
    BY <1>11 DEF MainReadSlot
  <2>8. CASE InnerTurn
    BY <2>1, <2>2, <2>3, <2>8, IndexOrder DEF MergedInTurn, InnerTurn
  <2>9. CASE LastTurn("post")
    BY <2>1, <2>2, <2>3, <2>9, IndexOrder DEF MergedInTurn, LastTurn
  <2> QED
    BY <1>11, <2>8, <2>9, TurnCases DEF MainReadSlot
<1>12. CASE MainReturn
  BY <1>12 DEF MainReturn, MainGoto, MergedInTurn
<1> QED
  BY <1>1, <1>2, <1>3, <1>4, <1>5, <1>6, <1>7, <1>8, <1>9, <1>10, <1>11, <1>12,
     ChildKeeps
     DEF Next, MainStep, vars, MainRead

\* A step accounts for the descriptors it opens and closes.
LEMMA DescriptorStep == IInv /\ [Next]_vars => DescriptorsInStep'
<1> SUFFICES ASSUME IInv, [Next]_vars PROVE DescriptorsInStep'
  OBVIOUS
<1>0. TypeOK /\ ForkedSoFar /\ DescriptorsInStep
  BY DEF IInv
<1> USE ProcessAssumption, <1>0
<1>1. CASE UNCHANGED <<ipcMode, mainVars, fdVars>>
  BY <1>1 DEF DescriptorsInStep, UsePipe, mainVars, fdVars
<1>2. CASE MainNoMemory
  BY <1>2 DEF MainNoMemory, MainGoto, DescriptorsInStep, UsePipe, fdVars
<1>3. CASE MainSetup
  BY <1>3
     DEF MainSetup, MainGoto, DescriptorsInStep, Processes, UsePipe, fdVars
<1>4. CASE MainFork
  <2>1. /\ main = "fork" /\ UNCHANGED <<ipcMode, rc, failed, stdinOpen>>
        /\ \A i \in Processes : i # index => readOpen'[i] = readOpen[i]
        /\ readOpen'[index] <=> UsePipe
    BY <1>4, IndexOrder DEF MainFork, TypeOK, DescriptorsInStep
  <2>8. CASE InnerTurn
    BY <2>1, <2>8, IndexOrder DEF DescriptorsInStep, UsePipe, InnerTurn
  <2>9. CASE LastTurn("wait")
    BY <2>1, <2>9, IndexOrder DEF DescriptorsInStep, UsePipe, LastTurn
  <2> QED
    BY <1>4, <2>8, <2>9, TurnCases DEF MainFork
<1>5. CASE MainPipeFails
  BY <1>5 DEF MainPipeFails, MainGoto, DescriptorsInStep, UsePipe
<1>6. CASE MainForkFails
  BY <1>6 DEF MainForkFails, MainGoto, DescriptorsInStep, UsePipe
<1>7. CASE MainWait
  BY SMTT(30), <1>7
     DEF MainWait, MainGoto, NextTurn, TypeOK, ForkedSoFar, DescriptorsInStep,
         Processes, UsePipe, fdVars, shmVars
<1>8. CASE MainMergeRead
  <2>1. /\ main = "read" /\ UsePipe /\ UNCHANGED <<ipcMode, rc>>
        /\ \A i \in Processes : i # index => readOpen'[i] = readOpen[i]
        /\ ~readOpen'[index]
    BY <1>8 DEF MainMergeRead, TypeOK, CloseReadEnd
  <2>2. /\ failed \in BOOLEAN /\ failed' \in BOOLEAN
        /\ ~failed' => ~failed /\ stdinOpen'
    BY <1>8, IndexOrder
       DEF MainMergeRead, TypeOK, CloseReadEnd, DescriptorsInStep
  <2>8. CASE InnerTurn
    BY <2>1, <2>2, <2>8, IndexOrder DEF DescriptorsInStep, UsePipe, InnerTurn
  <2>9. CASE LastTurn("post")
    BY <2>1, <2>2, <2>9, IndexOrder DEF DescriptorsInStep, UsePipe, LastTurn
  <2> QED
    BY <1>8, <2>8, <2>9, TurnCases DEF MainMergeRead
<1>9. CASE MainReadEnds
  <2>1. /\ main = "read" /\ UsePipe /\ UNCHANGED <<ipcMode, rc>>
        /\ \A i \in Processes : i # index => readOpen'[i] = readOpen[i]
        /\ ~readOpen'[index]
    BY <1>9 DEF MainReadEnds, TypeOK, CloseReadEnd
  <2>2. /\ failed \in BOOLEAN /\ failed' \in BOOLEAN
        /\ ~failed' => ~failed /\ stdinOpen'
    BY <1>9, IndexOrder DEF MainReadEnds, TypeOK, DescriptorsInStep
  <2>8. CASE InnerTurn
    BY <2>1, <2>2, <2>8, IndexOrder DEF DescriptorsInStep, UsePipe, InnerTurn
  <2>9. CASE LastTurn("post")
    BY <2>1, <2>2, <2>9, IndexOrder DEF DescriptorsInStep, UsePipe, LastTurn
  <2> QED
    BY <1>9, <2>8, <2>9, TurnCases DEF MainReadEnds
<1>10. CASE MainSkipRead
  <2>1. /\ main = "read" /\ UsePipe /\ UNCHANGED <<ipcMode, rc>>
        /\ \A i \in Processes : i # index => readOpen'[i] = readOpen[i]
        /\ ~readOpen'[index]
    BY <1>10 DEF MainSkipRead, TypeOK, CloseReadEnd
  <2>2. /\ failed \in BOOLEAN /\ failed' \in BOOLEAN
        /\ ~failed' => ~failed /\ stdinOpen'
    BY <1>10, IndexOrder
       DEF MainSkipRead, TypeOK, CloseReadEnd, DescriptorsInStep
  <2>8. CASE InnerTurn
    BY <2>1, <2>2, <2>8, IndexOrder DEF DescriptorsInStep, UsePipe, InnerTurn
  <2>9. CASE LastTurn("post")
    BY <2>1, <2>2, <2>9, IndexOrder DEF DescriptorsInStep, UsePipe, LastTurn
  <2> QED
    BY <1>10, <2>8, <2>9, TurnCases DEF MainSkipRead
<1>11. CASE MainReadSlot
  BY <1>11
     DEF MainReadSlot, MainGoto, NextTurn, DescriptorsInStep, UsePipe, fdVars
<1>12. CASE MainReturn
  BY <1>12 DEF MainReturn, MainGoto, DescriptorsInStep, UsePipe, fdVars
<1> QED
  BY <1>1, <1>2, <1>3, <1>4, <1>5, <1>6, <1>7, <1>8, <1>9, <1>10, <1>11, <1>12,
     ChildKeeps
     DEF Next, MainStep, vars, MainRead

-----------------------------------------------------------------------------
(* The theorems. *)

\* The invariant holds at the start.
LEMMA InitIInv == Init => IInv
<1> SUFFICES ASSUME Init PROVE IInv
  OBVIOUS
<1> USE ProcessAssumption DEF Init
<1>1. TypeOK
  <2>1. 0 \in Processes /\ 0 \in 0 .. ResultSize /\ 0 \in 0 .. PipeCapacity
    BY DEF Processes
  <2> QED
    BY <2>1 DEF TypeOK
<1>2. AllReaped /\ ForkedSoFar /\ ChildrenInStep
  BY DEF AllReaped, ForkedSoFar, ChildrenInStep
<1>3. WriteEndsClosed /\ MergedInTurn /\ DescriptorsInStep
  BY DEF WriteEndsClosed, MergedInTurn, DescriptorsInStep
<1> QED
  BY <1>1, <1>2, <1>3 DEF IInv

\* The inductive invariant of run_process_mode.
THEOREM Inductive == Spec => []IInv
<1>1. IInv /\ [Next]_vars => IInv'
  BY TypeStep, ReapStep, ForkStep, ChildrenStep, WriteEndStep, MergeStep,
     DescriptorStep DEF IInv
<1> QED
  BY <1>1, InitIInv, PTL DEF Spec

\* Every variable keeps its type.
THEOREM TypeCorrect == Spec => []TypeOK
<1>1. IInv => TypeOK
  BY DEF IInv
<1> QED
  BY <1>1, Inductive, PTL

\* The parent reads no pipe and no slot, and does not return, before every
\* child there is has ended and been reaped.
THEOREM EveryChildReaped == Spec => []AllReaped
<1>1. IInv => AllReaped
  BY DEF IInv
<1> QED
  BY <1>1, Inductive, PTL

\* No ipc_read_full of the parent can block: what it reads is in the pipe, or
\* the pipe has no writer left.
THEOREM ReadsNeverBlock == Spec => []ReadsDoNotBlock
<1>1. IInv => ReadsDoNotBlock
  <2> SUFFICES ASSUME IInv, main = "read",
                      NEW i \in Processes, pids[i] = "child"
               PROVE  writers[i] = {}
    BY DEF ReadsDoNotBlock
  <2>1. child[i] \in {"absent", "reaped"}
    BY DEF IInv, AllReaped
  <2>2. "child" \notin writers[i] /\ "parent" \notin writers[i]
    BY <2>1 DEF IInv, WriteEndsClosed
  <2>3. writers[i] \subseteq {"parent", "child"}
    BY DEF IInv, TypeOK
  <2> QED
    BY <2>2, <2>3
<1> QED
  BY <1>1, Inductive, PTL

\* A run that returns 0 has closed every descriptor it opened and no other.
THEOREM DescriptorsBack == Spec => []DescriptorsRestored
<1>1. IInv => DescriptorsRestored
  <2> SUFFICES ASSUME IInv, main = "ended", rc = 0 PROVE DescriptorsRestored
    BY DEF DescriptorsRestored
  <2>1. ~failed /\ stdinOpen /\ \A i \in Processes : ~readOpen[i]
    BY DEF IInv, DescriptorsInStep
  <2>2. \A i \in Processes : pids[i] = "child"
    BY <2>1 DEF IInv, ForkedSoFar
  <2> QED
    BY <2>1, <2>2 DEF IInv, WriteEndsClosed, DescriptorsRestored
<1> QED
  BY <1>1, Inductive, PTL

\* The whole of Next, one step of SimulationRun or none at a time: a merge
\* accounts for one piece more, and returning ends the run.
LEMMA StepOfRun == IInv /\ IInv' /\ [Next]_vars => [Run!Next]_(Run!vars)
<1> DEFINE accounted == {i \in Processes : merged[i] = 1}
           status == IF main # "ended" THEN "running"
                     ELSE IF rc = 0 THEN "ok" ELSE "failed"
<1> SUFFICES ASSUME IInv, IInv', [Next]_vars
             PROVE  \/ /\ status = "running" /\ status' = status
                       /\ \E new \in SUBSET (Processes \ accounted) :
                            accounted' = accounted \cup new
                    \/ /\ status = "running" /\ accounted = Processes
                       /\ status' = "ok" /\ accounted' = accounted
                    \/ /\ status = "running" /\ status' = "failed"
                       /\ accounted' = accounted
                    \/ accounted' = accounted /\ status' = status
  BY DEF Run!Next, Run!Account, Run!Succeed, Run!GiveUp, Run!vars
<1>0. TypeOK /\ TypeOK' /\ MergedInTurn
  BY DEF IInv
<1>1. CASE UNCHANGED <<main, rc, merged>>
  BY <1>1
<1>2. CASE /\ main \notin {"setup", "ended"} /\ main' # "ended"
           /\ UNCHANGED merged
  BY <1>2
<1>3. CASE /\ main = "read" /\ main' # "ended"
           /\ merged' = [merged EXCEPT ![index] = @ + 1]
  <2>1. index \in Processes /\ index >= index
    BY <1>0, IndexOrder
  <2>2. merged[index] = 0
    BY <1>3, <1>0, <2>1 DEF MergedInTurn
  <2>3. /\ merged'[index] = 1
        /\ \A i \in Processes : i # index => merged'[i] = merged[i]
    BY <1>3, <1>0, <2>1, <2>2 DEF TypeOK
  <2>4. accounted' = accounted \cup {index}
    BY <2>1, <2>3
  <2>5. {index} \in SUBSET (Processes \ accounted)
    BY <2>1, <2>2
  <2> QED
    BY <1>3, <2>4, <2>5
<1>4. CASE MainReturn
  <2>1. main = "post" /\ main' = "ended" /\ UNCHANGED <<merged, failed>>
        /\ rc' = IF failed THEN -1 ELSE 0
    BY <1>4 DEF MainReturn, MainGoto
  <2>2. CASE failed
    BY <2>1, <2>2
  <2>3. CASE ~failed
    <3>1. accounted = Processes
      BY <1>0, <2>1, <2>3 DEF MergedInTurn
    <3> QED
      BY <2>1, <2>3, <3>1
  <2> QED
    BY <2>2, <2>3
<1>5. CASE MainNoMemory
  <2>1. main = "setup" /\ main' = "ended" /\ rc' = -1 /\ UNCHANGED merged
    BY <1>5 DEF MainNoMemory, MainGoto
  <2> QED
    BY <2>1
<1>6. CASE MainSetup
  BY <1>6 DEF MainSetup, MainGoto
<1>7. CASE MainFork \/ MainWait \/ MainSkipRead \/ MainReadEnds
  BY <1>2, <1>7
     DEF MainFork, MainWait, MainSkipRead, MainReadEnds, NextTurn, MainGoto
<1>8. CASE MainPipeFails \/ MainForkFails
  BY <1>2, <1>8 DEF MainPipeFails, MainForkFails, MainGoto
<1>9. CASE MainMergeRead
  BY <1>3, <1>9 DEF MainMergeRead, NextTurn, MainGoto
<1>10. CASE MainReadSlot
  <2>1. main = "read" /\ main' # "ended"
    BY <1>10 DEF MainReadSlot, NextTurn, MainGoto
  <2>2. \/ merged' = [merged EXCEPT ![index] = @ + 1]
        \/ merged' = [merged EXCEPT ![index] = @]
        \/ UNCHANGED merged
    BY <1>10 DEF MainReadSlot
  <2>3. [merged EXCEPT ![index] = @] = merged
    BY <1>0 DEF TypeOK
  <2> QED
    BY <1>2, <1>3, <2>1, <2>2, <2>3
<1> QED
  BY <1>1, <1>4, <1>5, <1>6, <1>7, <1>8, <1>9, <1>10, ChildKeeps
     DEF Next, MainStep, MainRead, vars, mainVars

\* run_process_mode implements SimulationRun: it returns 0 only with every
\* Result merged exactly once, and merges nothing twice or after its return.
THEOREM ImplementsSimulationRun == Spec => ImplementsRun
<1>1. Init => Run!Init
  BY DEF Init, Run!Init
<1> QED
  BY <1>1, StepOfRun, Inductive, PTL DEF ImplementsRun, Run!Spec, Spec

-----------------------------------------------------------------------------
(* The run comes to an end if whoever can go on does: somebody always can, *)
(* and nobody can go on for ever.                                          *)

\* Before the parent reads, a pipe holds all that its child has written.
PipesFill ==
  main \in {"setup", "fork", "wait"} => \A i \in Processes : inPipe[i] = written[i]

LEMMA FillStep == IInv /\ PipesFill /\ [Next]_vars => PipesFill'
<1> SUFFICES ASSUME IInv, PipesFill, [Next]_vars PROVE PipesFill'
  OBVIOUS
<1>0. TypeOK
  BY DEF IInv
<1> USE <1>0 DEF PipesFill
<1>1. ASSUME NEW i \in Processes, ChildWrite(i) PROVE PipesFill'
  BY <1>1 DEF ChildWrite, mainVars, TypeOK
<1>2. ASSUME NEW i \in Processes,
             \/ ChildWork(i) \/ ChildClose(i) \/ ChildStoreSlot(i)
             \/ ChildStoreDone(i) \/ ChildStored(i) \/ ChildExit(i) \/ ChildAborts(i)
      PROVE  PipesFill'
  BY <1>2 DEF ChildWork, ChildClose, ChildStoreSlot, ChildStoreDone, ChildStored,
     ChildExit, ChildAborts, mainVars, pipeVars
<1>3. CASE MainNoMemory \/ MainSetup \/ MainPipeFails \/ MainForkFails
  BY <1>3 DEF MainNoMemory, MainSetup, MainPipeFails, MainForkFails, MainGoto,
     pipeVars
<1>4. CASE MainFork \/ MainWait
  BY <1>4 DEF MainFork, MainWait, pipeVars
<1>5. CASE main \in {"read", "post"} /\ main' \notin {"setup", "fork", "wait"}
  BY <1>5
<1>6. CASE MainRead
  BY <1>6 DEF MainRead, mainVars
<1>7. CASE \/ MainMergeRead \/ MainReadEnds \/ MainSkipRead \/ MainReadSlot
           \/ MainReturn
  BY <1>5, <1>7 DEF MainMergeRead, MainReadEnds, MainSkipRead, MainReadSlot,
     MainReturn, NextTurn, MainGoto
<1>8. CASE UNCHANGED vars
  BY <1>8 DEF vars, mainVars, pipeVars
<1> QED
  BY <1>1, <1>2, <1>3, <1>4, <1>6, <1>7, <1>8
     DEF Next, ChildStep, ChildSend, MainStep

LEMMA PipesFilled == Spec => []PipesFill
<1>1. Init => PipesFill
  BY DEF Init, PipesFill
<1> QED
  BY <1>1, FillStep, Inductive, PTL DEF Spec

\* A child may write its whole Result before anybody reads of it.
WritesDoNotBlock ==
  \A i \in Processes :
    child[i] = "send" /\ written[i] < ResultSize => inPipe[i] < PipeCapacity

\* The parent reaps all children before it reads from any, and yet no write
\* of a child's ipc_write_full has to wait for a reader.
THEOREM WritesNeverBlock == Spec => []WritesDoNotBlock
<1>1. IInv /\ PipesFill => WritesDoNotBlock
  <2> SUFFICES ASSUME IInv, PipesFill, NEW i \in Processes,
                      child[i] = "send", written[i] < ResultSize
               PROVE  inPipe[i] < PipeCapacity
    BY DEF WritesDoNotBlock
  <2>1. main \in {"setup", "fork", "wait"}
    BY DEF IInv, TypeOK, AllReaped
  <2>2. inPipe[i] = written[i] /\ written[i] \in Nat
    BY <2>1 DEF PipesFill, IInv, TypeOK
  <2> QED
    BY <2>2, ProcessAssumption
<1> QED
  BY <1>1, PipesFilled, Inductive, PTL

\* What a child or the parent waits for has come, or it waits for nothing: the
\* conditions of write, waitpid and read.
ChildMoves(i) ==
  \/ child[i] \in {"work", "exit"}
  \/ child[i] = "send" /\ (UsePipe /\ written[i] < ResultSize => inPipe[i] < PipeCapacity)

ParentMoves ==
  /\ main = "wait" /\ pids[index] = "child" => child[index] \notin Running
  /\ main = "read" /\ UsePipe /\ pids[index] = "child" =>
       got = ResultSize \/ inPipe[index] > 0 \/ writers[index] = {}

\* Until run_process_mode has returned, the parent or some child can go on:
\* children blocked in write and a parent in waitpid never wait for each other.
THEOREM NoStandstill ==
  Spec => [](main = "ended" \/ ParentMoves \/ \E i \in Processes : ChildMoves(i))
<1>1. /\ TypeOK /\ ReadsDoNotBlock /\ WritesDoNotBlock
      => main = "ended" \/ ParentMoves \/ \E i \in Processes : ChildMoves(i)
  <2> SUFFICES ASSUME TypeOK, ReadsDoNotBlock, WritesDoNotBlock, ~ParentMoves
               PROVE  ChildMoves(index)
    BY DEF TypeOK
  <2>1. index \in Processes
    BY DEF TypeOK
  <2>2. ~(main = "read" /\ pids[index] = "child" /\ writers[index] # {})
    BY <2>1 DEF ReadsDoNotBlock
  <2>3. child[index] \in Running
    BY <2>2 DEF ParentMoves
  <2> QED
    BY <2>1, <2>3 DEF WritesDoNotBlock, ChildMoves, Running
<1> QED
  BY <1>1, TypeCorrect, ReadsNeverBlock, WritesNeverBlock, PTL

\* The turns of the parent's loops that are left.
ParentLeft ==
  CASE main = "setup" -> 5 * NumProcesses - index
    [] main = "fork"  -> 4 * NumProcesses - index
    [] main = "wait"  -> 3 * NumProcesses - index
    [] main = "read"  -> 2 * NumProcesses - index
    [] main = "post"  -> NumProcesses - index
    [] main = "ended" -> 0

\* The steps from a child's label on.
ChildPhase(label) ==
  CASE label = "absent" -> 5
    [] label = "work"   -> 4
    [] label = "send"   -> 3
    [] label = "exit"   -> 2
    [] label \in {"exited", "aborted"} -> 1
    [] label = "reaped" -> 0

\* What a child has still to do and to hand over.  A chunk counts twice: it is
\* to be written and to be read.
ChildLeft(i) ==
  ChildPhase(child[i]) + 2 * (ResultSize - written[i]) + inPipe[i]
  + (IF slots[i] THEN 0 ELSE 1) + (IF done[i] THEN 0 ELSE 1)

ChildrenLeft == SumOf([i \in Processes |-> ChildLeft(i)])

\* No run takes more steps from here.
StepsLeft == ParentLeft + ChildrenLeft

LeftOK ==
  /\ ParentLeft \in Nat
  /\ \A i \in Processes : ChildLeft(i) \in Nat
  /\ ChildrenLeft \in Nat

LEMMA ProcessesFinite == IsFiniteSet(Processes)
BY ProcessAssumption, FS_Interval DEF Processes

LEMMA LeftTypes == TypeOK => LeftOK
<1> SUFFICES ASSUME TypeOK PROVE LeftOK
  OBVIOUS
<1>1. ParentLeft \in Nat
  <2>1. /\ NumProcesses \in Nat /\ index \in Nat /\ index < NumProcesses
        /\ main \in {"setup", "fork", "wait", "read", "post", "ended"}
    BY ProcessAssumption DEF TypeOK, Processes
  <2> QED
    BY <2>1 DEF ParentLeft
<1>2. ASSUME NEW i \in Processes PROVE ChildLeft(i) \in Nat
  <2>1. ChildPhase(child[i]) \in Nat
    BY DEF TypeOK, Running, ChildPhase
  <2>2. ResultSize - written[i] \in Nat /\ inPipe[i] \in Nat
    BY ProcessAssumption DEF TypeOK
  <2> HIDE DEF ChildPhase
  <2> QED
    BY <2>1, <2>2 DEF ChildLeft
<1>3. ChildrenLeft \in Nat
  BY <1>2, ProcessesFinite, SumType DEF ChildrenLeft
<1> QED
  BY <1>1, <1>2, <1>3 DEF LeftOK

\* What a step changes: the parent's part or that of one child.
Shrinks(i) ==
  /\ \A j \in Processes \ {i} : ChildLeft(j)' = ChildLeft(j)
  /\ ChildLeft(i)' <= ChildLeft(i) /\ ParentLeft' <= ParentLeft
  /\ ChildLeft(i)' < ChildLeft(i) \/ ParentLeft' < ParentLeft

LEMMA ShrinkingIsLess ==
  ASSUME TypeOK, TypeOK', NEW i \in Processes, Shrinks(i)
  PROVE  StepsLeft' < StepsLeft
<1> DEFINE r == [j \in Processes |-> ChildLeft(j)]
           s == [j \in Processes |-> ChildLeft(j)']
<1>1. LeftOK /\ LeftOK'
  BY LeftTypes, PTL
<1>2. /\ ParentLeft \in Nat /\ ChildrenLeft \in Nat
      /\ ParentLeft' \in Nat /\ ChildrenLeft' \in Nat
      /\ r \in [Processes -> Nat] /\ s \in [Processes -> Nat]
  BY <1>1 DEF LeftOK
<1>3. \A j \in Processes \ {i} : s[j] = r[j]
  BY DEF Shrinks
<1>4. ChildrenLeft = SumOf(r)
  BY DEF ChildrenLeft
<1>5. ChildrenLeft' = SumOf(s)
  BY DEF ChildrenLeft
<1>6. r[i] = ChildLeft(i) /\ s[i] = ChildLeft(i)'
  OBVIOUS
<1>7. /\ s[i] <= r[i] /\ ParentLeft' <= ParentLeft
      /\ s[i] < r[i] \/ ParentLeft' < ParentLeft
  BY <1>6 DEF Shrinks
<1> HIDE DEF r, s
<1>8. ParentLeft' + SumOf(s) < ParentLeft + SumOf(r)
  BY <1>2, <1>3, <1>7, ProcessesFinite, SumShrinks
<1> QED
  BY <1>4, <1>5, <1>8 DEF StepsLeft

\* A step of a child leaves it less to do.
LEMMA ChildShrinks ==
  ASSUME IInv, NEW i \in Processes, ChildStep(i) \/ ChildAborts(i)
  PROVE  Shrinks(i)
<1>0. TypeOK
  BY DEF IInv
<1>1. ParentLeft' = ParentLeft /\ ParentLeft \in Nat
  BY <1>0, ChildKeeps, LeftTypes DEF LeftOK, ParentLeft, mainVars
<1>2. \A j \in Processes \ {i} : ChildLeft(j)' = ChildLeft(j)
  <2>1. ASSUME NEW j \in Processes \ {i}
        PROVE  /\ child'[j] = child[j] /\ written'[j] = written[j]
               /\ inPipe'[j] = inPipe[j] /\ slots'[j] = slots[j] /\ done'[j] = done[j]
    BY <1>0 DEF TypeOK, ChildStep, ChildSend, ChildWork, ChildWrite, ChildClose,
       ChildStoreSlot, ChildStoreDone, ChildStored, ChildExit, ChildAborts,
       ChildGoto, pipeVars, shmVars
  <2> QED
    BY <2>1 DEF ChildLeft
<1>3. /\ written[i] \in Nat /\ inPipe[i] \in Nat /\ ResultSize \in Nat
      /\ written[i] <= ResultSize
      /\ slots[i] \in BOOLEAN /\ done[i] \in BOOLEAN
  BY <1>0, ProcessAssumption DEF TypeOK
<1>4. ChildLeft(i)' < ChildLeft(i)
  <2>1. CASE ChildWrite(i)
    <3>1. /\ written'[i] = written[i] + 1 /\ inPipe'[i] = inPipe[i] + 1
          /\ child'[i] = child[i] /\ slots'[i] = slots[i] /\ done'[i] = done[i]
          /\ written[i] + 1 <= ResultSize /\ child[i] = "send"
      BY <1>0, <1>3, <2>1 DEF TypeOK, ChildWrite, shmVars
    <3> QED
      BY <1>3, <3>1 DEF ChildLeft, ChildPhase
  <2>2. CASE ChildStoreSlot(i)
    <3>1. /\ written'[i] = written[i] /\ inPipe'[i] = inPipe[i]
          /\ child'[i] = child[i] /\ slots'[i] /\ ~slots[i] /\ done'[i] = done[i]
          /\ child[i] = "send"
      BY <1>0, <2>2 DEF TypeOK, ChildStoreSlot, pipeVars
    <3> QED
      BY <1>3, <3>1 DEF ChildLeft, ChildPhase
  <2>3. CASE ChildStoreDone(i)
    <3>1. /\ written'[i] = written[i] /\ inPipe'[i] = inPipe[i]
          /\ child'[i] = child[i] /\ slots'[i] = slots[i] /\ done'[i] /\ ~done[i]
          /\ child[i] = "send"
      BY <1>0, <2>3 DEF TypeOK, ChildStoreDone, pipeVars
    <3> QED
      BY <1>3, <3>1 DEF ChildLeft, ChildPhase
  <2>4. CASE \/ ChildWork(i) \/ ChildClose(i) \/ ChildStored(i) \/ ChildExit(i)
             \/ ChildAborts(i)
    <3>1. /\ written'[i] = written[i] /\ inPipe'[i] = inPipe[i]
          /\ slots'[i] = slots[i] /\ done'[i] = done[i]
      BY <2>4 DEF ChildWork, ChildClose, ChildStored, ChildExit, ChildAborts,
         pipeVars, shmVars
    <3>2. ChildPhase(child[i]) \in Nat /\ ChildPhase(child'[i]) \in Nat
          /\ ChildPhase(child'[i]) < ChildPhase(child[i])
      BY <1>0, <2>4 DEF TypeOK, ChildWork, ChildClose, ChildStored, ChildExit,
         ChildAborts, ChildGoto, Running, ChildPhase
    <3> QED
      BY <1>3, <3>1, <3>2 DEF ChildLeft
  <2> QED
    BY <2>1, <2>2, <2>3, <2>4 DEF ChildStep, ChildSend
<1>5. ChildLeft(i)' \in Int /\ ChildLeft(i) \in Int
  <2>1. LeftOK
    BY <1>0, LeftTypes
  <2>2. TypeOK'
    BY TypeStep DEF Next
  <2>3. LeftOK'
    BY <2>2, LeftTypes, PTL
  <2> QED
    BY <2>1, <2>3 DEF LeftOK
<1> QED
  BY <1>1, <1>2, <1>4, <1>5 DEF Shrinks

\* A turn of a loop of the parent leaves it one less.
LEMMA TurnShrinks ==
  ASSUME TypeOK, NEW label, NextTurn(label),
         \/ main = "fork" /\ label = "wait"
         \/ main = "wait" /\ label = "read"
         \/ main = "read" /\ label = "post"
  PROVE  ParentLeft' < ParentLeft
<1>1. NumProcesses \in Nat /\ index \in Nat /\ index < NumProcesses
  BY ProcessAssumption DEF TypeOK, Processes
<1>2. CASE index + 1 < NumProcesses
  BY <1>1, <1>2 DEF NextTurn, ParentLeft
<1>3. CASE ~(index + 1 < NumProcesses)
  BY <1>1, <1>3 DEF NextTurn, MainGoto, ParentLeft
<1> QED
  BY <1>2, <1>3

\* So does a step of the parent, which reads a chunk, reaps a child, or only
\* goes on.
LEMMA ParentShrinks ==
  ASSUME IInv, MainStep, NEW i \in Processes, i = index
  PROVE  Shrinks(i)
<1>0. TypeOK
  BY DEF IInv
<1>1. LeftOK /\ LeftOK'
  <2>1. TypeOK'
    BY TypeStep DEF Next
  <2> QED
    BY <1>0, <2>1, LeftTypes, PTL
<1>2. /\ ParentLeft \in Nat /\ ParentLeft' \in Nat
      /\ \A j \in Processes : ChildLeft(j) \in Nat /\ ChildLeft(j)' \in Nat
  BY <1>1 DEF LeftOK
<1>3. /\ NumProcesses \in Nat \ {0} /\ index \in Nat /\ index < NumProcesses
  BY <1>0, ProcessAssumption DEF Processes
<1>4. CASE UNCHANGED <<child, written, inPipe, slots, done>> /\ ParentLeft' < ParentLeft
  <2>1. \A j \in Processes : ChildLeft(j)' = ChildLeft(j)
    BY <1>4 DEF ChildLeft
  <2> QED
    BY <1>0, <1>2, <1>4, <2>1 DEF Shrinks
<1>5. CASE MainFork \/ MainWait
  <2>1. ParentLeft' < ParentLeft
    BY <1>0, <1>5, TurnShrinks DEF MainFork, MainWait
  <2>2. ASSUME NEW j \in Processes
        PROVE  /\ written'[j] = written[j] /\ inPipe'[j] = inPipe[j]
               /\ slots'[j] = slots[j] /\ done'[j] = done[j]
    BY <1>5 DEF MainFork, MainWait, pipeVars, shmVars
  <2>3. \A j \in Processes \ {i} : child'[j] = child[j]
    BY <1>0, <1>5 DEF MainFork, MainWait, TypeOK
  <2>4. /\ ChildPhase(child[i]) \in Nat /\ ChildPhase(child'[i]) \in Nat
        /\ ChildPhase(child'[i]) <= ChildPhase(child[i])
    <3>1. CASE MainFork
      <4>1. child[i] = "absent" /\ child'[i] = "work"
        BY <1>0, <1>3, <3>1 DEF IInv, ForkedSoFar, ChildrenInStep, MainFork, TypeOK
      <4> QED
        BY <4>1 DEF ChildPhase
    <3>2. CASE MainWait
      <4>1. /\ child[i] \in Running \cup {"absent", "exited", "aborted", "reaped"}
            /\ child'[i] \in {child[i], "reaped"}
        BY <1>0, <3>2 DEF MainWait, TypeOK
      <4> QED
        BY <4>1 DEF ChildPhase, Running
    <3> QED
      BY <1>5, <3>1, <3>2
  <2>5. \A j \in Processes \ {i} : ChildLeft(j)' = ChildLeft(j)
    BY <2>2, <2>3 DEF ChildLeft
  <2>6. ChildLeft(i)' <= ChildLeft(i)
    <3>1. written[i] \in Nat /\ inPipe[i] \in Nat /\ ResultSize \in Nat
      BY <1>0, ProcessAssumption DEF TypeOK
    <3> HIDE DEF ChildPhase
    <3> QED
      BY <1>0, <2>2, <2>4, <3>1 DEF ChildLeft
  <2> QED
    BY <1>2, <2>1, <2>5, <2>6 DEF Shrinks
<1>6. CASE MainRead
  <2>1. ParentLeft' = ParentLeft
    BY <1>6 DEF MainRead, mainVars, ParentLeft
  <2>2. /\ inPipe'[i] = inPipe[i] - 1
        /\ \A j \in Processes \ {i} : inPipe'[j] = inPipe[j]
        /\ UNCHANGED <<child, written, slots, done, index>>
    BY <1>0, <1>6 DEF MainRead, TypeOK, mainVars, shmVars
  <2>3. \A j \in Processes \ {i} : ChildLeft(j)' = ChildLeft(j)
    BY <2>2 DEF ChildLeft
  <2>4. ChildLeft(i)' < ChildLeft(i)
    <3>1. /\ written[i] \in Nat /\ inPipe[i] \in Nat /\ ResultSize \in Nat
          /\ ChildPhase(child[i]) \in Nat
      BY <1>0, ProcessAssumption DEF TypeOK, ChildPhase, Running
    <3> HIDE DEF ChildPhase
    <3> QED
      BY <2>2, <3>1 DEF ChildLeft
  <2> QED
    BY <1>2, <2>1, <2>3, <2>4 DEF Shrinks
<1>7. CASE MainMergeRead \/ MainReadEnds \/ MainSkipRead \/ MainReadSlot
  <2>1. UNCHANGED <<child, written, inPipe, slots, done>>
    BY <1>7 DEF MainMergeRead, MainReadEnds, MainSkipRead, MainReadSlot,
       pipeVars, shmVars
  <2>2. ParentLeft' < ParentLeft
    BY <1>0, <1>7, TurnShrinks
       DEF MainMergeRead, MainReadEnds, MainSkipRead, MainReadSlot
  <2> QED
    BY <1>4, <2>1, <2>2
<1>8. CASE MainNoMemory \/ MainSetup \/ MainPipeFails \/ MainForkFails \/ MainReturn
  <2>1. UNCHANGED <<child, written, inPipe, slots, done>>
    BY <1>8 DEF MainNoMemory, MainSetup, MainPipeFails, MainForkFails,
       MainReturn, pipeVars, shmVars
  <2>2. ParentLeft' < ParentLeft
    BY <1>3, <1>8 DEF MainNoMemory, MainSetup, MainPipeFails, MainForkFails,
       MainReturn, MainGoto, ParentLeft
  <2> QED
    BY <1>4, <2>1, <2>2
<1> QED
  BY <1>5, <1>6, <1>7, <1>8 DEF MainStep

LEMMA StepShrinks ==
  IInv /\ IInv' /\ [Next]_vars => [StepsLeft' < StepsLeft]_vars
<1> SUFFICES ASSUME IInv, IInv', [Next]_vars, ~UNCHANGED vars
             PROVE  StepsLeft' < StepsLeft
  OBVIOUS
<1>1. TypeOK /\ TypeOK' /\ index \in Processes
  BY DEF IInv, TypeOK
<1>2. \E i \in Processes : Shrinks(i)
  BY <1>1, ChildShrinks, ParentShrinks DEF Next
<1> QED
  BY <1>1, <1>2, ShrinkingIsLess

\* Every step leaves fewer to take, so nobody can go on for ever: with
\* NoStandstill, run_process_mode returns if parent and children are scheduled,
\* whatever fails and whichever child is killed.
THEOREM StepsRunOut ==
  Spec => [](StepsLeft \in Nat) /\ [][StepsLeft' < StepsLeft]_vars
<1>1. IInv => StepsLeft \in Nat
  BY LeftTypes DEF IInv, LeftOK, StepsLeft
<1> QED
  BY <1>1, StepShrinks, Inductive, PTL DEF Spec

=============================================================================
