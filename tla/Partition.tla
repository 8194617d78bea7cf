----------------------------- MODULE Partition ------------------------------
(***************************************************************************)
(* How a range of trials is divided among threads or processes:            *)
(* partition_work of src/src/thread_mode.c, process_partition of           *)
(* src/src/process_mode.c, hybrid_partition and the loop over the threads  *)
(* in src/src/hybrid_mode.c are this one computation.  Part i is the       *)
(* trials from PartStart to PartEnd - 1.  All operands are nonnegative, so *)
(* \div and % are C's / and %.                                             *)
(***************************************************************************)
EXTENDS Integers

Lesser(a, b) == IF a < b THEN a ELSE b

PartStart(trials, parts, i) ==
  i * (trials \div parts) + Lesser(i, trials % parts)

\* Faulty: the remainder is forgotten.
PartEndShort(trials, parts, i) ==
  PartStart(trials, parts, i) + trials \div parts

PartEnd(trials, parts, i) ==
  PartStart(trials, parts, i) + trials \div parts
    + (IF i < trials % parts THEN 1 ELSE 0)

=============================================================================
