------------------------------- MODULE Driver -------------------------------
(***************************************************************************)
(* main() of src/src/main.c: the command line (cli.c, sync.c), the         *)
(* configuration (config.c), the choice of a mode, sequential mode, and    *)
(* the row that is printed (result.c, metrics.c).                          *)
(*                                                                         *)
(* The parallel modes are what their modules show them to be: a run fails  *)
(* or returns the exact Result, except that unprotected counters lose      *)
(* updates and that a wrapped number of batches ends the plan too early.   *)
(* Texts on the command line are names, numbers, or Junk.                  *)
(***************************************************************************)
EXTENDS Integers, Sequences

CONSTANTS
  IntMax, UintMax, LongMax,   \* INT_MAX, UINT_MAX, LONG_MAX
  Numbers,                    \* numbers that occur on command lines
  Junk,                       \* any other text, or none where one is needed
  MaxArgs,                    \* options on a command line
  Timings                     \* what the clocks may measure

Stages == {"pre", "compute", "sync", "ipc", "merge", "post"}

ASSUME DriverAssumption ==
  /\ IntMax \in Nat \ {0} /\ UintMax = 2 * IntMax + 1
  /\ LongMax \in Nat /\ LongMax > UintMax
  /\ 100000 <= LongMax /\ Numbers \subseteq -LongMax .. LongMax
  /\ MaxArgs \in Nat
  /\ Timings \subseteq [Stages \cup {"total"} -> Int]

-----------------------------------------------------------------------------
(* ---- tables ------------------------------------------------------------ *)

\* The parse_* functions of sync.c, by option.
Parse ==
  [mode     |-> [seq |-> 0, thread |-> 1, pipeline |-> 2, process |-> 3, hybrid |-> 4],
   sync     |-> [nosync |-> 0, mutex |-> 1, reduce |-> 2],
   schedule |-> [static |-> 0, queue |-> 1],
   merge    |-> [final |-> 0, interactive |-> 1],
   ipc      |-> [pipe |-> 0, shm |-> 1],
   workload |-> [uniform |-> 0, skewed |-> 1],
   profile  |-> [default |-> 0, process_friendly |-> 1, thread_friendly |-> 2],
   affinity |-> [off |-> 0, on |-> 1]]

\* Its *_to_string functions: the value k is printed as the (k + 1)-th text.
ToString ==
  [mode     |-> <<"seq", "thread", "pipeline", "process", "hybrid">>,
   sync     |-> <<"nosync", "mutex", "reduce">>,
   schedule |-> <<"static", "queue">>,
   merge    |-> <<"final", "interactive">>,
   ipc      |-> <<"pipe", "shm">>,
   workload |-> <<"uniform", "skewed">>,
   profile  |-> <<"default", "process_friendly", "thread_friendly">>]

Numeric == {"trials", "steps", "threads", "processes", "batch_size", "queue_size",
            "skew_factor", "inner_work", "core_count", "pre_work", "post_work",
            "enable_pipeline", "metrics_detail", "seed"}
Options == DOMAIN Parse \cup Numeric

\* The smallest and the largest number an option takes.
Limits(o) ==
  CASE o = "trials"     -> <<1, LongMax>>
    [] o = "inner_work" -> <<0, LongMax>>
    [] o = "seed"       -> <<0, UintMax>>
    [] o \in {"enable_pipeline", "metrics_detail"}        -> <<0, 1>>
    [] o \in {"core_count", "pre_work", "post_work"}      -> <<0, IntMax>>
    [] OTHER            -> <<1, IntMax>>

\* config_set_defaults.  cfg->verbose is left out: it only adds to stderr.
Defaults ==
  [mode |-> 1, sync |-> 2, schedule |-> 0, merge |-> 0, ipc |-> 0, workload |-> 0,
   profile |-> 0, affinity |-> 0, trials |-> 100000, inner_work |-> 0, steps |-> 50,
   threads |-> 4, processes |-> 2, batch_size |-> 1000, queue_size |-> 1024,
   skew_factor |-> 8, core_count |-> 0, pre_work |-> 0, post_work |-> 0,
   enable_pipeline |-> 1, metrics_detail |-> 1, seed |-> 42]

ModeSeq == 0
ModeThread == 1
ModePipeline == 2
ModeProcess == 3
ModeHybrid == 4
SyncNosync == 0
ScheduleQueue == 1

VARIABLES
  args,       \* argv: the options and their texts
  k,          \* the option cli_parse_args is at
  cfg,
  pc,         \* where main is
  ran,        \* the run_* function that was called
  rc, result, times,
  output,     \* the row on standard output
  status      \* exit status

vars == <<args, k, cfg, pc, ran, rc, result, times, output, status>>
run  == <<ran, rc, result, times>>

Texts(o) == IF o \in Numeric THEN Numbers ELSE DOMAIN Parse[o]
Arguments == UNION {{[option |-> o, text |-> x] : x \in Texts(o) \cup {Junk}} : o \in Options}
             \cup {[option |-> o, text |-> Junk] : o \in {"help", "unknown"}}

Init ==
  /\ args \in UNION {[1 .. n -> Arguments] : n \in 0 .. MaxArgs}
  /\ k = 1
  /\ cfg = Defaults
  /\ pc = "parse"
  /\ ran = "none"
  /\ rc = 0
  /\ result = [total |-> 0, hist |-> 0, collisions |-> 0]
  /\ times = [s \in Stages \cup {"total"} |-> 0]
  /\ output = <<>>
  /\ status = -1

-----------------------------------------------------------------------------
(* ---- the command line -------------------------------------------------- *)

\* (int) and (unsigned int) of a long.
ToUint(v) == v % (UintMax + 1)
ToInt(v)  == IF ToUint(v) > IntMax THEN ToUint(v) - (UintMax + 1) ELSE ToUint(v)

\* Faulty: only the lower limit is tested.
AcceptsAbove(o, text) ==
  IF o \in Numeric THEN text \in Numbers /\ text >= Limits(o)[1]
                   ELSE text \in DOMAIN Parse[o]

Accepts(o, text) ==
  IF o \in Numeric
    THEN text \in Numbers /\ Limits(o)[1] <= text /\ text <= Limits(o)[2]
    ELSE text \in DOMAIN Parse[o]

Value(o, text) ==
  CASE o \in DOMAIN Parse             -> Parse[o][text]
    [] o \in {"trials", "inner_work"} -> text
    [] o = "seed"                     -> ToUint(text)
    [] OTHER                          -> ToInt(text)

ConfigValid(c) ==
  /\ \A o \in DOMAIN ToString : c[o] \in 0 .. Len(ToString[o]) - 1
  /\ \A o \in {"trials", "steps", "threads", "processes", "batch_size",
               "queue_size", "skew_factor"} : c[o] > 0
  /\ \A o \in {"inner_work", "pre_work", "post_work", "core_count"} : c[o] >= 0

\* config_apply_profile_defaults
WithProfile(c) ==
  IF c.inner_work > 0 THEN c
  ELSE CASE c.profile = 1 -> [c EXCEPT !.inner_work = 2000]
         [] c.profile = 2 -> [c EXCEPT !.inner_work = 64]
         [] OTHER         -> c

Exit(code) == pc' = "ended" /\ status' = code

ParseOption ==
  /\ pc = "parse"
  /\ k <= Len(args)
  /\ args[k].option \in Options
  /\ Accepts(args[k].option, args[k].text)
  /\ cfg' = [cfg EXCEPT ![args[k].option] = Value(args[k].option, args[k].text)]
  /\ k' = k + 1
  /\ UNCHANGED <<args, pc, run, output, status>>

\* --help ends the program at once, whatever follows it.
ParseHelp ==
  /\ pc = "parse"
  /\ k <= Len(args)
  /\ args[k].option = "help"
  /\ Exit(0)
  /\ UNCHANGED <<args, k, cfg, run, output>>

\* cli_parse_args returns -1: the usage is printed and main returns 2.
Refuse ==
  /\ pc = "parse"
  /\ IF k <= Len(args)
       THEN /\ args[k].option # "help"
            /\ args[k].option \in Options => ~Accepts(args[k].option, args[k].text)
       ELSE ~ConfigValid(cfg)
  /\ Exit(2)
  /\ UNCHANGED <<args, k, cfg, run, output>>

Configure ==
  /\ pc = "parse"
  /\ k > Len(args)
  /\ ConfigValid(cfg)
  /\ cfg' = WithProfile(cfg)
  /\ pc' = "dispatch"
  /\ UNCHANGED <<args, k, run, output, status>>

-----------------------------------------------------------------------------
(* ---- the run ----------------------------------------------------------- *)

\* Faulty: the row keeps the schedule of the command line.
WithModeAsked(c) == c

\* Pipeline mode schedules by a queue, whatever --schedule says.
WithMode(c) == IF c.mode = ModePipeline THEN [c EXCEPT !.schedule = ScheduleQueue] ELSE c

Runner(c) ==
  CASE c.mode = ModeSeq     -> "run_sequential_metrics"
    [] c.mode = ModeProcess -> "run_process_mode"
    [] c.mode = ModeHybrid  -> "run_hybrid_mode"
    [] c.mode = ModeThread /\ c.schedule # ScheduleQueue -> "run_thread_mode_metrics"
    [] OTHER                -> "run_pipeline_mode"

Dispatch ==
  /\ pc = "dispatch"
  /\ cfg' = WithMode(cfg)
  /\ ran' = Runner(cfg)
  /\ pc' = "run"
  /\ UNCHANGED <<args, k, rc, result, times, output, status>>

\* Some trials collide; any deterministic number will do.
Collisions(n) == n \div 3
Exact(n) == [total |-> n, hist |-> n, collisions |-> Collisions(n)]

\* The batches create_batches makes: their number is cut to an int.
Batched(c) ==
  LET count == ToInt((c.trials + c.batch_size - 1) \div c.batch_size)
  IN  IF count <= 0 THEN 0
      ELSE IF count * c.batch_size > c.trials THEN c.trials
      ELSE count * c.batch_size

Returns(r) ==
  /\ rc' = 0
  /\ result' = r
  /\ times' \in Timings
  /\ pc' = "report"
  /\ UNCHANGED <<args, k, cfg, ran, output, status>>

\* One loop over all the trials; nothing in it can fail.
RunSequential ==
  /\ pc = "run"
  /\ ran = "run_sequential_metrics"
  /\ Returns(Exact(cfg.trials))

RunPipeline ==
  /\ pc = "run"
  /\ ran = "run_pipeline_mode"
  /\ Batched(cfg) > 0
  /\ Returns(Exact(Batched(cfg)))

\* Each counter loses some updates without synchronization.
RunPartitioned ==
  /\ pc = "run"
  /\ ran \in {"run_thread_mode_metrics", "run_process_mode", "run_hybrid_mode"}
  /\ \E r \in [total      : {cfg.trials, cfg.trials - 1},
               hist       : {cfg.trials, cfg.trials - 1},
               collisions : {Collisions(cfg.trials), 0}] :
       /\ cfg.sync # SyncNosync \/ ran = "run_process_mode" => r = Exact(cfg.trials)
       /\ Returns(r)

RunFails ==
  /\ pc = "run"
  /\ ran # "run_sequential_metrics"
  /\ rc' = -1
  /\ pc' = "report"
  /\ UNCHANGED <<args, k, cfg, ran, result, times, output, status>>

-----------------------------------------------------------------------------
(* ---- the row ----------------------------------------------------------- *)

\* Faulty: the histogram is compared with the total only.
ValidAlone(r, expected) ==
  r.total = r.hist /\ r.collisions \in 0 .. expected

\* result_validate
Valid(r, expected) ==
  /\ expected > 0
  /\ r.total = expected
  /\ r.hist = expected
  /\ r.collisions \in 0 .. expected

\* Faulty: a stage is not cut to the total.
ShareUncut(value, total) ==
  IF total <= 0 THEN <<0, 1>> ELSE <<IF value < 0 THEN 0 ELSE value, total>>

\* value / total of the metrics_*_ratio functions, as a fraction.
Share(value, total) ==
  IF total <= 0 THEN <<0, 1>>
  ELSE <<CASE value < 0 -> 0 [] value > total -> total [] OTHER -> value, total>>

Overhead(t) == t["pre"] + t["sync"] + t["ipc"] + t["merge"] + t["post"]

Ratios(t) ==
  [s \in {"compute", "sync", "ipc", "merge", "sequential"} |->
     Share(IF s = "sequential" THEN Overhead(t) ELSE t[s], t["total"])]

Short    == {"mode", "sync", "threads", "trials", "steps", "profile", "inner_work"}
Detailed == Short \cup {"schedule", "merge", "processes", "batch_size", "queue_size",
                        "ipc", "workload", "skew_factor", "pre_work", "post_work"}

Column(o) == IF o \in DOMAIN ToString THEN ToString[o][cfg[o] + 1] ELSE cfg[o]

\* print_final_row or result_print_csv_row
Report ==
  /\ pc = "report"
  /\ rc = 0
  /\ output' = <<[columns |-> [o \in IF cfg.metrics_detail = 1 THEN Detailed ELSE Short
                                 |-> Column(o)],
                  result  |-> result,
                  valid   |-> Valid(result, cfg.trials),
                  ratios  |-> IF cfg.metrics_detail = 1 THEN Ratios(times) ELSE <<>>]>>
  /\ Exit(0)
  /\ UNCHANGED <<args, k, cfg, run>>

\* Faulty: a failed run is reported like any other.
FailReports ==
  /\ pc = "report"
  /\ rc # 0
  /\ Exit(0)
  /\ UNCHANGED <<args, k, cfg, run, output>>

Fail ==
  /\ pc = "report"
  /\ rc # 0
  /\ Exit(1)
  /\ UNCHANGED <<args, k, cfg, run, output>>

Next ==
  \/ ParseOption \/ ParseHelp \/ Refuse \/ Configure
  \/ Dispatch \/ RunSequential \/ RunPipeline \/ RunPartitioned \/ RunFails
  \/ Report \/ Fail
  \/ pc = "ended" /\ UNCHANGED vars

Spec == Init /\ [][Next]_vars

-----------------------------------------------------------------------------
(* Properties. *)

\* What the command line says of an option: its last occurrence counts.
Asked(o) ==
  LET given == {j \in 1 .. Len(args) : args[j].option = o}
  IN  IF given # {}
        THEN args[CHOOSE j \in given : \A i \in given : i <= j].text
        ELSE IF o \in DOMAIN ToString THEN ToString[o][Defaults[o] + 1] ELSE Defaults[o]

\* The printed row, which is all that the experiments keep of a run, says how
\* the trials were run: each column is what the command line asks for, in any
\* order and with repeated options, or what pipeline mode and the profile
\* make of it.
RowEchoesCommandLine ==
  output # <<>> =>
    LET columns == output[1].columns IN
    \A o \in DOMAIN columns :
      columns[o] =
        CASE o = "schedule" /\ Asked("mode") = "pipeline" -> "queue"
          [] o = "inner_work" /\ Asked(o) = 0 ->
               [default |-> 0, process_friendly |-> 2000,
                thread_friendly |-> 64][Asked("profile")]
          [] OTHER -> Asked(o)

\* 2: nothing was run, and an option is why.  1: the run failed, and there is
\* no row.  0: there is a row of a run that returned 0, or help was asked for
\* before anything wrong.
StatusTellsOutcome ==
  pc = "ended" =>
    LET Wrong(j) == /\ args[j].option # "help"
                    /\ \A o \in Options : args[j].option = o => ~Accepts(o, args[j].text)
    IN  CASE status = 2 -> ran = "none" /\ output = <<>> /\ Wrong(k)
          [] status = 1 -> rc # 0 /\ output = <<>>
          [] status = 0 -> IF ran = "none" THEN args[k].option = "help"
                           ELSE rc = 0 /\ Len(output) = 1
                                /\ \A j \in 1 .. Len(args) : ~Wrong(j)
          [] OTHER      -> FALSE

\* Two rows with valid=1 and the same number of trials agree in the Result,
\* whatever else the command lines say, unless the counters were shared by
\* threads without synchronization.
ValidRowsAgree ==
  output # <<>> /\ output[1].valid =>
    \/ output[1].result = Exact(Asked("trials"))
    \/ Asked("sync") = "nosync" /\ Asked("mode") \in {"thread", "hybrid"}
       /\ ran # "run_pipeline_mode"

\* Every ratio in the row is a share of the whole time, also when the waiting
\* times of several threads add up to more, or when a clock that cannot be
\* read makes a stage or the whole negative.
RatiosInRange ==
  output # <<>> =>
    \A s \in DOMAIN output[1].ratios :
      LET q == output[1].ratios[s] IN 0 <= q[1] /\ q[1] <= q[2] /\ q[2] > 0

=============================================================================
