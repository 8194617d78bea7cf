----------------------------- MODULE MC_Driver ------------------------------
(***************************************************************************)
(* Instance of Driver for TLC, with ints of 15 bits and longs of 31, so    *)
(* that the defaults of config.c are what they are in the code.  As an int *)
(* 32771 is 3, and the 100000 batches of one trial are 1696.               *)
(***************************************************************************)
EXTENDS Driver

MCNumbers == {-1, 0, 1, 3, 32771}

Times(total, compute, sync, post) ==
  [s \in Stages \cup {"total"} |->
     CASE s = "total" -> total [] s = "compute" -> compute
       [] s = "sync"  -> sync  [] s = "post"    -> post
       [] OTHER       -> 1]

\* An ordinary run; four threads that wait most of the time; clocks that
\* cannot be read at the end of the run and at either end of a stage.
MCTimings == {Times(10, 7, 1, 1), Times(10, 8, 30, 1), Times(-10, 7, 1, 1),
              Times(20, 7, 1, -19), Times(20, 7, 1, 120)}

=============================================================================
