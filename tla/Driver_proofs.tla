---------------------------- MODULE Driver_proofs ----------------------------
(***************************************************************************)
(* Proofs about Driver for any command line, any clocks and any width of   *)
(* int: the exit status, the row and the command line agree.               *)
(***************************************************************************)
EXTENDS Driver, TLAPS

-----------------------------------------------------------------------------
(* The tables of sync.c and config.c. *)

LEMMA OptionNames ==
  /\ DOMAIN Parse = {"mode", "sync", "schedule", "merge", "ipc", "workload",
                     "profile", "affinity"}
  /\ DOMAIN ToString = {"mode", "sync", "schedule", "merge", "ipc", "workload",
                        "profile"}
  /\ DOMAIN Defaults = Options
  /\ \A o \in Numeric : o \notin DOMAIN Parse
<1>1. /\ DOMAIN Parse = {"mode", "sync", "schedule", "merge", "ipc", "workload",
                         "profile", "affinity"}
      /\ DOMAIN ToString = {"mode", "sync", "schedule", "merge", "ipc",
                            "workload", "profile"}
  BY DEF Parse, ToString
<1>2. DOMAIN Defaults = Options
  BY <1>1 DEF Options, Numeric, Defaults
<1>3. \A o \in Numeric : o \notin DOMAIN Parse
  BY <1>1 DEF Numeric
<1> QED
  BY <1>1, <1>2, <1>3

\* What a parse function of sync.c makes of a text, the *_to_string function
\* prints as that text.
LEMMA TextsBack ==
  ASSUME NEW o \in DOMAIN ToString
  PROVE  /\ Len(ToString[o]) \in Nat
         /\ Defaults[o] \in 0 .. Len(ToString[o]) - 1
         /\ \A text \in DOMAIN Parse[o] :
              /\ Parse[o][text] \in 0 .. Len(ToString[o]) - 1
              /\ ToString[o][Parse[o][text] + 1] = text
<1> USE DEF Parse, ToString, Defaults
<1>1. CASE o = "mode"
  BY <1>1
<1>2. CASE o = "sync"
  BY <1>2
<1>3. CASE o = "schedule"
  BY <1>3
<1>4. CASE o = "merge"
  BY <1>4
<1>5. CASE o = "ipc"
  BY <1>5
<1>6. CASE o = "workload"
  BY <1>6
<1>7. CASE o = "profile"
  BY <1>7
<1> QED
  BY <1>1, <1>2, <1>3, <1>4, <1>5, <1>6, <1>7, OptionNames

\* A number an option takes is converted to itself.
LEMMA ModSmall == ASSUME NEW m \in Nat \ {0}, NEW v \in 0 .. m - 1 PROVE v % m = v
OBVIOUS

LEMMA ValueIsText ==
  ASSUME NEW o \in Numeric, NEW text, Accepts(o, text)
  PROVE  /\ Value(o, text) = text /\ text \in Int
         /\ Limits(o)[1] <= text /\ text <= Limits(o)[2]
<1>0. IntMax \in Nat /\ 1 <= IntMax /\ UintMax = 2 * IntMax + 1 /\ IntMax <= UintMax
  BY DriverAssumption
<1>1. text \in Int /\ Limits(o)[1] <= text /\ text <= Limits(o)[2]
  <2>1. text \in Numbers /\ Limits(o)[1] <= text /\ text <= Limits(o)[2]
    BY DEF Accepts
  <2>2. text \in Int
    BY <2>1, DriverAssumption
  <2> QED
    BY <2>1, <2>2
<1>2. o \notin DOMAIN Parse
  BY OptionNames
<1>3. CASE o \in {"trials", "inner_work"}
  BY <1>1, <1>2, <1>3 DEF Value
<1>4. CASE o = "seed"
  <2>1. text \in 0 .. UintMax
    BY <1>1, <1>4 DEF Limits
  <2>2. text % (UintMax + 1) = text
    BY <1>0, <2>1, ModSmall
  <2> QED
    BY <1>1, <1>2, <1>4, <2>2 DEF Value, ToUint
<1>5. CASE o \notin {"trials", "inner_work", "seed"}
  <2>1. 0 <= text /\ text <= IntMax
    BY <1>0, <1>1, <1>5 DEF Limits, Numeric
  <2>2. text % (UintMax + 1) = text
    BY <1>0, <1>1, <2>1, ModSmall
  <2>3. ToInt(text) = text
    <3>1. ToUint(text) = text
      BY <2>2 DEF ToUint
    <3>2. ~(text > IntMax)
      BY <1>0, <1>1, <2>1
    <3> QED
      BY <3>1, <3>2 DEF ToInt
  <2> QED
    BY <1>1, <1>2, <1>5, <2>3 DEF Value
<1> QED
  BY <1>3, <1>4, <1>5

-----------------------------------------------------------------------------
(* What cli_parse_args makes of the first n options. *)

Accepted(a, n) ==
  \A j \in 1 .. n :
    a[j].option \in Options /\ Accepts(a[j].option, a[j].text)

Given(a, o, n) == {j \in 1 .. n : a[j].option = o}

Last(a, o, n) == CHOOSE j \in Given(a, o, n) : \A i \in Given(a, o, n) : i <= j

CfgAfter(a, n) ==
  [o \in Options |-> IF Given(a, o, n) # {} THEN Value(o, a[Last(a, o, n)].text)
                                         ELSE Defaults[o]]

\* The last of the options given counts; each has one.
LastGiven(a, n) == \A o \in Options : Given(a, o, n) # {} => Last(a, o, n) \in Given(a, o, n)

\* The configuration main works with, once all options are parsed.
Configured(a) == WithProfile(CfgAfter(a, Len(a)))

\* A mode was dispatched.
Dispatched == pc \in {"run", "report"} \/ (pc = "ended" /\ ran # "none")

(* ---- the invariant ------------------------------------------------------*)

\* cfg is what the options up to k make of the defaults, and then what the
\* profile and the mode make of that.
CfgFollowsArgs ==
  /\ Len(args) \in Nat /\ k \in 1 .. Len(args) + 1
  /\ Accepted(args, k - 1)
  /\ LastGiven(args, k - 1)
  /\ pc = "parse" => cfg = CfgAfter(args, k - 1)
  /\ pc = "dispatch" \/ Dispatched => k = Len(args) + 1
  /\ pc = "dispatch" => cfg = Configured(args)
  /\ Dispatched => cfg = WithMode(Configured(args)) /\ ran = Runner(Configured(args))

\* How far main has got, and how it has ended.
Progress ==
  /\ pc \in {"parse", "dispatch", "run", "report", "ended"}
  /\ pc \in {"parse", "dispatch"} => ran = "none"
  /\ pc \in {"run", "report"} => ran # "none"
  /\ pc # "ended" => output = <<>>
  /\ pc = "ended" =>
       \/ /\ status = 2 /\ ran = "none" /\ output = <<>>
          /\ k <= Len(args) /\ args[k].option # "help"
          /\ args[k].option \in Options =>
               ~Accepts(args[k].option, args[k].text)
       \/ /\ status = 0 /\ ran = "none" /\ output = <<>>
          /\ k <= Len(args) /\ args[k].option = "help"
       \/ status = 1 /\ ran # "none" /\ rc # 0 /\ output = <<>>
       \/ status = 0 /\ ran # "none" /\ rc = 0 /\ Len(output) = 1

\* What a run that returned 0 may have counted.
Counted ==
  \/ result = Exact(cfg.trials)
  \/ ran = "run_pipeline_mode" /\ result = Exact(Batched(cfg))
  \/ /\ ran \in {"run_thread_mode_metrics", "run_hybrid_mode"}
     /\ cfg.sync = SyncNosync

\* The row is made of what main then knows.
RowInStep ==
  /\ pc = "report" /\ rc = 0 => Counted /\ times \in Timings
  /\ output # <<>> =>
       /\ Dispatched /\ Counted /\ times \in Timings
       /\ DOMAIN output[1].columns =
            IF cfg.metrics_detail = 1 THEN Detailed ELSE Short
       /\ \A o \in DOMAIN output[1].columns : output[1].columns[o] = Column(o)
       /\ output[1].result = result
       /\ output[1].valid = Valid(result, cfg.trials)
       /\ output[1].ratios \in {Ratios(times), <<>>}

IInv == CfgFollowsArgs /\ Progress /\ RowInStep

-----------------------------------------------------------------------------
(* The options, one more at a time. *)

LEMMA NothingGiven ==
  ASSUME NEW a
  PROVE  Accepted(a, 0) /\ LastGiven(a, 0) /\ CfgAfter(a, 0) = Defaults
<1>1. \A o : Given(a, o, 0) = {}
  BY DEF Given
<1>2. Accepted(a, 0)
  BY DEF Accepted
<1>3. LastGiven(a, 0)
  BY <1>1 DEF LastGiven
<1>4. CfgAfter(a, 0) = [o \in Options |-> Defaults[o]]
  BY <1>1 DEF CfgAfter
<1>5. Defaults = [o \in DOMAIN Defaults |-> Defaults[o]]
  BY DEF Defaults
<1> QED
  BY <1>2, <1>3, <1>4, <1>5, OptionNames

LEMMA OneMore ==
  ASSUME NEW a, NEW n \in Nat \ {0}, Accepted(a, n - 1), LastGiven(a, n - 1),
         a[n].option \in Options, Accepts(a[n].option, a[n].text)
  PROVE  /\ Accepted(a, n) /\ LastGiven(a, n)
         /\ CfgAfter(a, n) =
              [CfgAfter(a, n - 1) EXCEPT ![a[n].option] =
                                        Value(a[n].option, a[n].text)]
<1> DEFINE new == a[n].option
<1>1. 1 .. n = (1 .. n - 1) \cup {n}
  OBVIOUS
<1>2. Accepted(a, n)
  BY <1>1 DEF Accepted
<1>3. ASSUME NEW o, o # new PROVE Given(a, o, n) = Given(a, o, n - 1)
  BY <1>1, <1>3 DEF Given
<1>4. /\ n \in Given(a, new, n) /\ Given(a, new, n) # {}
      /\ \A i \in Given(a, new, n) : i \in Nat /\ i <= n
  BY DEF Given
<1>5. Last(a, new, n) = n
  BY <1>4 DEF Last
<1>6. ASSUME NEW o, o # new PROVE Last(a, o, n) = Last(a, o, n - 1)
  BY <1>3, <1>6 DEF Last
<1> HIDE DEF new
<1>7. LastGiven(a, n)
  BY <1>3, <1>4, <1>5, <1>6 DEF LastGiven
<1>8. CfgAfter(a, n) = [CfgAfter(a, n - 1) EXCEPT ![new] = Value(new, a[n].text)]
  BY <1>3, <1>4, <1>5, <1>6 DEF CfgAfter
<1> QED
  BY <1>2, <1>7, <1>8 DEF new

\* What accepted options make of the defaults is valid, so that main refuses
\* only what is wrong.
LEMMA ValueOf ==
  ASSUME NEW a, NEW n \in Nat, Accepted(a, n), LastGiven(a, n), NEW o \in Options
  PROVE  \/ Given(a, o, n) = {} /\ CfgAfter(a, n)[o] = Defaults[o]
         \/ /\ Given(a, o, n) # {}
            /\ Accepts(o, a[Last(a, o, n)].text)
            /\ CfgAfter(a, n)[o] = Value(o, a[Last(a, o, n)].text)
<1>1. CASE Given(a, o, n) = {}
  BY <1>1 DEF CfgAfter
<1>2. CASE Given(a, o, n) # {}
  <2>1. Last(a, o, n) \in Given(a, o, n)
    BY <1>2 DEF LastGiven
  <2>2. Accepts(o, a[Last(a, o, n)].text)
    BY <2>1 DEF Accepted, Given
  <2> QED
    BY <1>2, <2>2 DEF CfgAfter
<1> QED
  BY <1>1, <1>2

LEMMA InLimits ==
  ASSUME NEW a, NEW n \in Nat, Accepted(a, n), LastGiven(a, n)
  PROVE  /\ \A o \in DOMAIN ToString :
              CfgAfter(a, n)[o] \in 0 .. Len(ToString[o]) - 1
         /\ \A o \in {"trials", "steps", "threads", "processes", "batch_size",
                      "queue_size", "skew_factor"} :
              CfgAfter(a, n)[o] \in Int /\ CfgAfter(a, n)[o] > 0
         /\ \A o \in {"inner_work", "pre_work", "post_work", "core_count"} :
              CfgAfter(a, n)[o] \in Int /\ CfgAfter(a, n)[o] >= 0
<1>1. ASSUME NEW o \in DOMAIN ToString
      PROVE  CfgAfter(a, n)[o] \in 0 .. Len(ToString[o]) - 1
  <2>1. o \in DOMAIN Parse /\ o \in Options /\ o \notin Numeric
    BY OptionNames DEF Options
  <2>2. ASSUME NEW text, Accepts(o, text)
        PROVE  text \in DOMAIN Parse[o] /\ Value(o, text) = Parse[o][text]
    BY <2>1, <2>2 DEF Accepts, Value, Numeric
  <2> QED
    BY <2>1, <2>2, ValueOf, TextsBack
<1>2. ASSUME NEW o \in {"trials", "steps", "threads", "processes", "batch_size",
                        "queue_size", "skew_factor"}
      PROVE  CfgAfter(a, n)[o] \in Int /\ CfgAfter(a, n)[o] > 0
  <2>1. o \in Numeric /\ o \in Options /\ Limits(o)[1] = 1
    BY DEF Numeric, Options, Limits
  <2>2. Defaults[o] \in Int /\ Defaults[o] > 0
    BY DEF Defaults
  <2> QED
    BY <2>1, <2>2, ValueOf, ValueIsText
<1>3. ASSUME NEW o \in {"inner_work", "pre_work", "post_work", "core_count"}
      PROVE  CfgAfter(a, n)[o] \in Int /\ CfgAfter(a, n)[o] >= 0
  <2>1. o \in Numeric /\ o \in Options /\ Limits(o)[1] = 0
    BY DEF Numeric, Options, Limits
  <2>2. Defaults[o] \in Int /\ Defaults[o] >= 0
    BY DEF Defaults
  <2> QED
    BY <2>1, <2>2, ValueOf, ValueIsText
<1> QED
  BY <1>1, <1>2, <1>3

LEMMA AcceptedIsValid ==
  ASSUME NEW a, NEW n \in Nat, Accepted(a, n), LastGiven(a, n)
  PROVE  ConfigValid(CfgAfter(a, n))
BY InLimits DEF ConfigValid

-----------------------------------------------------------------------------
(* The steps. *)

LEMMA CfgStep == IInv /\ [Next]_vars => CfgFollowsArgs'
<1> SUFFICES ASSUME IInv, [Next]_vars PROVE CfgFollowsArgs'
  OBVIOUS
<1>0. CfgFollowsArgs /\ Progress
  BY DEF IInv
<1>1. /\ args' = args /\ Len(args) \in Nat /\ k \in 1 .. Len(args) + 1
      /\ Accepted(args, k - 1) /\ LastGiven(args, k - 1)
  BY <1>0 DEF CfgFollowsArgs, Next, vars, ParseOption, ParseHelp, Refuse,
      Configure, Dispatch, RunSequential, RunPipeline, RunPartitioned, RunFails,
      Returns, Report, Fail
<1>2. CASE ParseOption
  <2>1. /\ k \in Nat \ {0} /\ k' = k + 1 /\ k' - 1 = k
        /\ k' \in 1 .. Len(args) + 1
    BY <1>1, <1>2 DEF ParseOption
  <2>2. /\ args[k].option \in Options /\ Accepts(args[k].option, args[k].text)
        /\ pc = "parse" /\ pc' = "parse"
    BY <1>2 DEF ParseOption
  <2>3. /\ Accepted(args, k) /\ LastGiven(args, k)
        /\ CfgAfter(args, k) =
             [CfgAfter(args, k - 1) EXCEPT ![args[k].option] =
                                       Value(args[k].option, args[k].text)]
    BY <1>1, <2>1, <2>2, OneMore
  <2>4. cfg' = CfgAfter(args, k)
    BY <1>0, <1>2, <2>2, <2>3 DEF ParseOption, CfgFollowsArgs
  <2> QED
    BY <1>1, <2>1, <2>2, <2>3, <2>4 DEF CfgFollowsArgs, Dispatched
<1>3. CASE ParseHelp \/ Refuse
  <2>1. k' = k /\ cfg' = cfg /\ pc = "parse" /\ pc' = "ended" /\ ran' = ran
    BY <1>3 DEF ParseHelp, Refuse, Exit, run
  <2>2. ran = "none"
    BY <1>0, <2>1 DEF Progress
  <2> QED
    BY <1>1, <2>1, <2>2 DEF CfgFollowsArgs, Dispatched
<1>4. CASE Configure
  <2>1. /\ k' = k /\ pc = "parse" /\ pc' = "dispatch" /\ cfg' = WithProfile(cfg)
        /\ k = Len(args) + 1
    BY <1>1, <1>4 DEF Configure
  <2>2. cfg = CfgAfter(args, Len(args))
    BY <1>0, <1>1, <2>1 DEF CfgFollowsArgs
  <2> QED
    BY <1>1, <2>1, <2>2 DEF CfgFollowsArgs, Dispatched, Configured
<1>5. CASE Dispatch
  <2>1. /\ k' = k /\ pc = "dispatch" /\ pc' = "run" /\ cfg' = WithMode(cfg)
        /\ ran' = Runner(cfg)
    BY <1>5 DEF Dispatch
  <2>2. k = Len(args) + 1 /\ cfg = Configured(args)
    BY <1>0, <2>1 DEF CfgFollowsArgs
  <2> QED
    BY <1>1, <2>1, <2>2 DEF CfgFollowsArgs, Dispatched
<1>6. CASE RunSequential \/ RunPipeline \/ RunPartitioned \/ RunFails \/ Report
           \/ Fail \/ UNCHANGED vars
  <2>1. /\ k' = k /\ cfg' = cfg /\ ran' = ran
        /\ \/ pc \in {"run", "report"} /\ pc' \in {"run", "report", "ended"}
           \/ pc' = pc
    BY <1>6 DEF RunSequential, RunPipeline, RunPartitioned, RunFails, Returns,
                Report, Fail, Exit, run, vars
  <2> QED
    BY <1>0, <1>1, <2>1 DEF CfgFollowsArgs, Dispatched
<1> QED
  BY <1>2, <1>3, <1>4, <1>5, <1>6 DEF Next

LEMMA RunnerIsOne == \A c : Runner(c) # "none"
BY DEF Runner

LEMMA ProgressStep == IInv /\ [Next]_vars => Progress'
<1> SUFFICES ASSUME IInv, [Next]_vars PROVE Progress'
  OBVIOUS
<1>0. CfgFollowsArgs /\ Progress
  BY DEF IInv
<1>1. CASE ParseOption \/ Configure
  BY <1>0, <1>1 DEF Progress, ParseOption, Configure, run
<1>2. CASE ParseHelp
  BY <1>0, <1>2 DEF Progress, ParseHelp, Exit, run
<1>3. CASE Refuse
  <2>1. k <= Len(args)
    <3> SUFFICES ASSUME ~(k <= Len(args)) PROVE FALSE
      OBVIOUS
    <3>1. pc = "parse" /\ ~ConfigValid(cfg)
      BY <1>3 DEF Refuse
    <3>2. /\ cfg = CfgAfter(args, k - 1) /\ k - 1 \in Nat
          /\ Accepted(args, k - 1) /\ LastGiven(args, k - 1)
      BY <1>0, <3>1 DEF CfgFollowsArgs
    <3> QED
      BY <3>1, <3>2, AcceptedIsValid
  <2>2. /\ pc = "parse" /\ pc' = "ended" /\ status' = 2
        /\ UNCHANGED <<args, k, ran, output>>
        /\ args[k].option # "help"
        /\ args[k].option \in Options => ~Accepts(args[k].option, args[k].text)
    BY <1>3, <2>1 DEF Refuse, Exit, run
  <2> QED
    BY <1>0, <2>1, <2>2 DEF Progress
<1>4. CASE Dispatch
  BY <1>0, <1>4, RunnerIsOne DEF Progress, Dispatch
<1>5. CASE RunSequential \/ RunPipeline \/ RunPartitioned \/ RunFails
  <2>1. pc = "run" /\ pc' = "report" /\ UNCHANGED <<ran, output>>
    BY <1>5 DEF RunSequential, RunPipeline, RunPartitioned, RunFails, Returns
  <2> QED
    BY <1>0, <2>1 DEF Progress
<1>6. CASE Report
  <2>1. /\ pc = "report" /\ pc' = "ended" /\ status' = 0 /\ rc = 0
        /\ UNCHANGED <<ran, rc>> /\ Len(output') = 1
    BY <1>6 DEF Report, Exit, run
  <2> QED
    BY <1>0, <2>1 DEF Progress
<1>7. CASE Fail
  BY <1>0, <1>7 DEF Progress, Fail, Exit, run
<1>8. CASE UNCHANGED vars
  BY <1>0, <1>8 DEF Progress, vars, run
<1> QED
  BY <1>1, <1>2, <1>3, <1>4, <1>5, <1>6, <1>7, <1>8 DEF Next

LEMMA RowStep == IInv /\ [Next]_vars => RowInStep'
<1> SUFFICES ASSUME IInv, [Next]_vars PROVE RowInStep'
  OBVIOUS
<1>0. CfgFollowsArgs /\ Progress /\ RowInStep
  BY DEF IInv
<1>1. CASE ParseOption \/ ParseHelp \/ Refuse \/ Configure \/ Dispatch
  <2>1. pc' # "report" /\ output' = output /\ output = <<>>
    BY <1>0, <1>1 DEF Progress, ParseOption, ParseHelp, Refuse, Configure,
                      Dispatch, Exit
  <2> QED
    BY <2>1 DEF RowInStep
<1>2. CASE RunSequential \/ RunPipeline \/ RunPartitioned
  <2>1. pc = "run" /\ UNCHANGED <<cfg, ran, output>> /\ times' \in Timings
    BY <1>2 DEF RunSequential, RunPipeline, RunPartitioned, Returns
  <2>2. output' = <<>>
    BY <1>0, <2>1 DEF Progress
  <2>3. Counted'
    BY <1>2, <2>1 DEF RunSequential, RunPipeline, RunPartitioned, Returns, Counted
  <2> QED
    BY <2>1, <2>2, <2>3 DEF RowInStep
<1>3. CASE RunFails \/ Fail
  <2>1. rc' # 0 /\ output' = <<>>
    BY <1>0, <1>3 DEF Progress, RunFails, Fail, run
  <2> QED
    BY <2>1 DEF RowInStep
<1>4. CASE Report
  <2>1. /\ pc = "report" /\ rc = 0 /\ pc' = "ended"
        /\ UNCHANGED <<cfg, ran, result, times>>
        /\ Counted /\ times \in Timings /\ ran # "none"
    BY <1>0, <1>4 DEF Report, Exit, run, RowInStep, Progress
  <2>2. Counted' /\ Dispatched'
    BY <2>1 DEF Counted, Dispatched
  <2>3. /\ DOMAIN output'[1].columns =
             IF cfg.metrics_detail = 1 THEN Detailed ELSE Short
        /\ \A o \in DOMAIN output'[1].columns : output'[1].columns[o] = Column(o)
        /\ output'[1].result = result
        /\ output'[1].valid = Valid(result, cfg.trials)
        /\ output'[1].ratios \in {Ratios(times), <<>>}
    BY <1>4 DEF Report
  <2>4. \A o : Column(o)' = Column(o)
    BY <2>1 DEF Column
  <2> QED
    BY <2>1, <2>2, <2>3, <2>4 DEF RowInStep
<1>5. CASE UNCHANGED vars
  BY <1>0, <1>5 DEF RowInStep, Counted, Dispatched, Column, vars, run
<1> QED
  BY <1>1, <1>2, <1>3, <1>4, <1>5 DEF Next

LEMMA InitIInv == Init => IInv
<1> SUFFICES ASSUME Init PROVE IInv
  OBVIOUS
<1>1. Len(args) \in Nat
  BY DriverAssumption DEF Init
<1>2. k \in 1 .. Len(args) + 1 /\ k - 1 = 0
  BY <1>1 DEF Init
<1>3. CfgFollowsArgs
  BY <1>1, <1>2, NothingGiven DEF Init, CfgFollowsArgs, Dispatched
<1>4. Progress /\ RowInStep
  BY DEF Init, Progress, RowInStep
<1> QED
  BY <1>3, <1>4 DEF IInv

LEMMA Invariance == Spec => []IInv
<1>1. IInv /\ [Next]_vars => IInv'
  BY CfgStep, ProgressStep, RowStep DEF IInv
<1> QED
  BY InitIInv, <1>1, PTL DEF Spec

-----------------------------------------------------------------------------
(* The configuration against what was asked for. *)

LEMMA AskedIs ==
  ASSUME NEW o \in Options
  PROVE  Asked(o) = IF Given(args, o, Len(args)) # {}
                      THEN args[Last(args, o, Len(args))].text
                      ELSE IF o \in DOMAIN ToString THEN ToString[o][Defaults[o] + 1]
                                                    ELSE Defaults[o]
BY DEF Asked, Given, Last

\* A number is the one asked for, a name is printed as the text asked for.
LEMMA Echo ==
  ASSUME CfgFollowsArgs, Dispatched, NEW o \in Options
  PROVE  LET c == CfgAfter(args, Len(args)) IN
         /\ o \in Numeric => c[o] = Asked(o)
         /\ o \in DOMAIN ToString =>
              /\ c[o] \in 0 .. Len(ToString[o]) - 1
              /\ ToString[o][c[o] + 1] = Asked(o)
<1> DEFINE n == Len(args)
           c == CfgAfter(args, n)
<1>1. n \in Nat /\ Accepted(args, n) /\ LastGiven(args, n)
  BY DEF CfgFollowsArgs
<1> HIDE DEF n
<1>2. \/ Given(args, o, n) = {} /\ c[o] = Defaults[o]
      \/ /\ Given(args, o, n) # {}
         /\ Accepts(o, args[Last(args, o, n)].text)
         /\ c[o] = Value(o, args[Last(args, o, n)].text)
  BY <1>1, ValueOf
<1>3. Asked(o) = IF Given(args, o, n) # {}
                   THEN args[Last(args, o, n)].text
                   ELSE IF o \in DOMAIN ToString THEN ToString[o][Defaults[o] + 1]
                                                 ELSE Defaults[o]
  BY AskedIs DEF n
<1> HIDE DEF c
<1>4. ASSUME o \in Numeric PROVE c[o] = Asked(o)
  <2>1. o \notin DOMAIN ToString
    BY <1>4, OptionNames
  <2> QED
    BY <1>2, <1>3, <1>4, <2>1, ValueIsText
<1>5. ASSUME o \in DOMAIN ToString
      PROVE  /\ c[o] \in 0 .. Len(ToString[o]) - 1
             /\ ToString[o][c[o] + 1] = Asked(o)
  <2>1. o \in DOMAIN Parse /\ o \notin Numeric
    BY <1>5, OptionNames
  <2>2. ASSUME NEW text, Accepts(o, text)
        PROVE  text \in DOMAIN Parse[o] /\ Value(o, text) = Parse[o][text]
    BY <2>1, <2>2 DEF Accepts, Value, Numeric
  <2> QED
    BY <1>2, <1>3, <1>5, <2>2, TextsBack
<1> QED
  BY <1>4, <1>5 DEF c, n

\* What the profile and the mode change of it.
LEMMA WithBoth ==
  ASSUME NEW c, c \in [Options -> Int]
  PROVE  /\ WithMode(WithProfile(c)) \in [Options -> Int]
         /\ \A o \in Options \ {"inner_work", "schedule"} :
              WithMode(WithProfile(c))[o] = c[o]
         /\ WithMode(WithProfile(c)).schedule =
              IF c.mode = ModePipeline THEN ScheduleQueue ELSE c.schedule
         /\ WithMode(WithProfile(c)).inner_work =
              IF c.inner_work > 0 THEN c.inner_work
              ELSE IF c.profile = 1 THEN 2000
              ELSE IF c.profile = 2 THEN 64 ELSE c.inner_work
<1>1. {"inner_work", "schedule", "mode", "profile"} \subseteq Options
  BY OptionNames DEF Options, Numeric
<1> DEFINE p == WithProfile(c)
<1>2. /\ p \in [Options -> Int]
      /\ \A o \in Options \ {"inner_work"} : p[o] = c[o]
      /\ p.inner_work = IF c.inner_work > 0 THEN c.inner_work
                        ELSE IF c.profile = 1 THEN 2000
                        ELSE IF c.profile = 2 THEN 64 ELSE c.inner_work
  BY <1>1 DEF WithProfile
<1> HIDE DEF p
<1>3. /\ WithMode(p) \in [Options -> Int]
      /\ \A o \in Options \ {"schedule"} : WithMode(p)[o] = p[o]
      /\ WithMode(p).schedule =
           IF p.mode = ModePipeline THEN ScheduleQueue ELSE p.schedule
  BY <1>1, <1>2 DEF WithMode, ScheduleQueue
<1> QED
  BY <1>1, <1>2, <1>3 DEF p

LEMMA CfgType ==
  ASSUME NEW a, NEW n \in Nat, Accepted(a, n), LastGiven(a, n)
  PROVE  CfgAfter(a, n) \in [Options -> Int]
<1>1. ASSUME NEW o \in Options PROVE Defaults[o] \in Int
  BY OptionNames DEF Defaults, Options, Numeric
<1>2. ASSUME NEW o \in Options, NEW text, Accepts(o, text)
      PROVE  Value(o, text) \in Int
  <2>1. CASE o \in Numeric
    BY <1>2, <2>1, ValueIsText
  <2>2. CASE o \notin Numeric
    <3>1. /\ o \in DOMAIN Parse /\ text \in DOMAIN Parse[o]
          /\ Value(o, text) = Parse[o][text]
      BY <1>2, <2>2, OptionNames DEF Options, Accepts, Value, Numeric
    <3>2. \A x \in DOMAIN Parse[o] : Parse[o][x] \in Int
      BY <3>1 DEF Parse
    <3> QED
      BY <3>1, <3>2
  <2> QED
    BY <2>1, <2>2
<1>3. \A o \in Options : CfgAfter(a, n)[o] \in Int
  BY <1>1, <1>2, ValueOf
<1>4. CfgAfter(a, n) = [o \in Options |-> CfgAfter(a, n)[o]]
  BY DEF CfgAfter
<1> QED
  BY <1>3, <1>4

\* The configuration of a run, field by field.
LEMMA CfgIs ==
  ASSUME CfgFollowsArgs, Dispatched
  PROVE  /\ \A o \in Numeric \ {"inner_work"} : cfg[o] = Asked(o)
         /\ \A o \in DOMAIN ToString \ {"schedule"} :
              /\ cfg[o] \in 0 .. Len(ToString[o]) - 1
              /\ ToString[o][cfg[o] + 1] = Asked(o)
         /\ cfg.schedule = ScheduleQueue \/ Asked("mode") # "pipeline"
         /\ Asked("mode") # "pipeline" =>
              ToString["schedule"][cfg.schedule + 1] = Asked("schedule")
         /\ Asked("inner_work") # 0 => cfg.inner_work = Asked("inner_work")
         /\ Asked("inner_work") = 0 =>
              cfg.inner_work = [default |-> 0, process_friendly |-> 2000,
                                thread_friendly |-> 64][Asked("profile")]
<1> DEFINE c == CfgAfter(args, Len(args))
<1>1. /\ Len(args) \in Nat /\ Accepted(args, Len(args))
      /\ LastGiven(args, Len(args)) /\ cfg = WithMode(WithProfile(c))
  BY DEF CfgFollowsArgs, Configured
<1>2. c \in [Options -> Int]
  BY <1>1, CfgType
<1>3. /\ \A o \in Numeric : c[o] = Asked(o)
      /\ \A o \in DOMAIN ToString :
           /\ c[o] \in 0 .. Len(ToString[o]) - 1
           /\ ToString[o][c[o] + 1] = Asked(o)
  BY Echo, OptionNames DEF Options
<1>4. c.inner_work >= 0 /\ c.inner_work \in Int
  BY <1>1, InLimits
<1> HIDE DEF c
<1>5. /\ \A o \in Options \ {"inner_work", "schedule"} : cfg[o] = c[o]
      /\ cfg.schedule = IF c.mode = ModePipeline THEN ScheduleQueue ELSE c.schedule
      /\ cfg.inner_work = IF c.inner_work > 0 THEN c.inner_work
                          ELSE IF c.profile = 1 THEN 2000
                          ELSE IF c.profile = 2 THEN 64 ELSE c.inner_work
  BY <1>1, <1>2, WithBoth
<1>6. \A o \in Numeric \ {"inner_work"} : cfg[o] = Asked(o)
  BY <1>3, <1>5, OptionNames DEF Options
<1>7. ASSUME NEW o \in DOMAIN ToString \ {"schedule"}
      PROVE  /\ cfg[o] \in 0 .. Len(ToString[o]) - 1
             /\ ToString[o][cfg[o] + 1] = Asked(o)
  <2>1. o \in Options /\ o # "inner_work"
    BY OptionNames DEF Options
  <2> QED
    BY <1>3, <1>5, <2>1
<1>8. /\ c.mode \in 0 .. 4 /\ ToString["mode"][c.mode + 1] = Asked("mode")
      /\ c.profile \in 0 .. 2
      /\ ToString["profile"][c.profile + 1] = Asked("profile")
  <2>1. /\ c["mode"] \in 0 .. Len(ToString["mode"]) - 1
        /\ ToString["mode"][c["mode"] + 1] = Asked("mode")
        /\ c["profile"] \in 0 .. Len(ToString["profile"]) - 1
        /\ ToString["profile"][c["profile"] + 1] = Asked("profile")
    BY <1>3, OptionNames
  <2>2. Len(ToString["mode"]) = 5 /\ Len(ToString["profile"]) = 3
    BY DEF ToString
  <2> QED
    BY <2>1, <2>2
<1>9. Asked("mode") = "pipeline" <=> c.mode = ModePipeline
  BY <1>8 DEF ToString, ModePipeline
<1>10. ToString["schedule"][c.schedule + 1] = Asked("schedule")
  BY <1>3, OptionNames
<1>11. c.inner_work = Asked("inner_work")
  BY <1>3 DEF Numeric
<1>12. [default |-> 0, process_friendly |-> 2000,
        thread_friendly |-> 64][Asked("profile")]
         = IF c.profile = 1 THEN 2000 ELSE IF c.profile = 2 THEN 64 ELSE 0
  BY <1>8 DEF ToString
<1> QED
  BY <1>4, <1>5, <1>6, <1>7, <1>9, <1>10, <1>11, <1>12

-----------------------------------------------------------------------------
(* The theorems. *)

\* The printed row says how the trials were run, whatever the order and the
\* repetition of the options.
THEOREM RowEchoes == Spec => []RowEchoesCommandLine
<1>1. IInv => RowEchoesCommandLine
  <2> SUFFICES ASSUME IInv, output # <<>>, NEW o \in DOMAIN output[1].columns
               PROVE  output[1].columns[o] =
                        CASE o = "schedule" /\ Asked("mode") = "pipeline" -> "queue"
                          [] o = "inner_work" /\ Asked(o) = 0 ->
                               [default |-> 0, process_friendly |-> 2000,
                                thread_friendly |-> 64][Asked("profile")]
                          [] OTHER -> Asked(o)
    BY DEF RowEchoesCommandLine
  <2>1. /\ CfgFollowsArgs /\ Dispatched /\ output[1].columns[o] = Column(o)
        /\ o \in Detailed
    BY DEF IInv, RowInStep, Short, Detailed
  <2>2. o \in DOMAIN ToString \/ (o \in Numeric /\ o \notin DOMAIN ToString)
    BY <2>1, OptionNames DEF Detailed, Short, Numeric
  <2>3. CASE o = "schedule"
    <3>1. Column(o) = ToString["schedule"][cfg.schedule + 1]
      BY <2>3, OptionNames DEF Column
    <3>2. ToString["schedule"][ScheduleQueue + 1] = "queue"
      BY DEF ToString, ScheduleQueue
    <3> QED
      BY <2>1, <2>3, <3>1, <3>2, CfgIs
  <2>4. CASE o = "inner_work"
    <3>1. Column(o) = cfg.inner_work
      BY <2>4, OptionNames DEF Column
    <3> QED
      BY <2>1, <2>4, <3>1, CfgIs
  <2>5. CASE o \notin {"schedule", "inner_work"}
    <3>1. Column(o) = Asked(o)
      BY <2>1, <2>2, <2>5, CfgIs DEF Column
    <3> QED
      BY <2>1, <2>5, <3>1
  <2> QED
    BY <2>3, <2>4, <2>5
<1> QED
  BY Invariance, <1>1, PTL

\* The exit status tells what became of the program: 2 for a wrong option and
\* nothing run, 1 for a failed run and no row, 0 for a row or for help.
THEOREM StatusTells == Spec => []StatusTellsOutcome
<1>1. IInv => StatusTellsOutcome
  <2> SUFFICES ASSUME IInv, pc = "ended" PROVE StatusTellsOutcome
    BY DEF StatusTellsOutcome
  <2>1. CfgFollowsArgs /\ Progress
    BY DEF IInv
  <2>2. ASSUME ran # "none", NEW j \in 1 .. Len(args)
        PROVE  \E o \in Options : /\ args[j].option = o
                                  /\ Accepts(o, args[j].text)
    <3>1. Accepted(args, Len(args))
      BY <2>1, <2>2 DEF CfgFollowsArgs, Dispatched
    <3> QED
      BY <2>2, <3>1 DEF Accepted
  <2> QED
    BY <2>1, <2>2 DEF Progress, StatusTellsOutcome
<1> QED
  BY Invariance, <1>1, PTL

\* Two valid rows of the same number of trials agree in the Result unless
\* threads shared the counters without synchronization.
THEOREM ValidRowsAreAlike == Spec => []ValidRowsAgree
<1>1. IInv => ValidRowsAgree
  <2> SUFFICES ASSUME IInv, output # <<>>, output[1].valid
               PROVE  \/ output[1].result = Exact(Asked("trials"))
                      \/ /\ Asked("sync") = "nosync"
                         /\ Asked("mode") \in {"thread", "hybrid"}
                         /\ ran # "run_pipeline_mode"
    BY DEF ValidRowsAgree
  <2>1. /\ CfgFollowsArgs /\ Dispatched /\ Counted
        /\ output[1].result = result /\ Valid(result, cfg.trials)
    BY DEF IInv, RowInStep
  <2>2. cfg.trials = Asked("trials")
    BY <2>1, CfgIs DEF Numeric
  <2>3. CASE result = Exact(cfg.trials)
    BY <2>1, <2>2, <2>3
  <2>4. CASE result = Exact(Batched(cfg))
    <3>1. result.total = Batched(cfg)
      BY <2>4 DEF Exact
    <3>2. result.total = cfg.trials
      BY <2>1 DEF Valid
    <3> QED
      BY <2>1, <2>2, <2>4, <3>1, <3>2
  <2>5. CASE /\ ran \in {"run_thread_mode_metrics", "run_hybrid_mode"}
             /\ cfg.sync = SyncNosync
    <3> DEFINE c == Configured(args)
    <3>1. ran = Runner(c) /\ cfg = WithMode(c)
      BY <2>1 DEF CfgFollowsArgs
    <3>2. c.mode \in {ModeThread, ModeHybrid}
      BY <2>5, <3>1 DEF Runner, ModeSeq, ModeProcess, ModeHybrid, ModeThread
    <3>3. cfg.mode \in {ModeThread, ModeHybrid}
      BY <3>1, <3>2 DEF WithMode, ModeThread, ModeHybrid, ModePipeline
    <3>4. /\ Asked("mode") = ToString["mode"][cfg.mode + 1]
          /\ Asked("sync") = ToString["sync"][cfg.sync + 1]
      BY <2>1, CfgIs, OptionNames
    <3>5. Asked("mode") \in {"thread", "hybrid"}
      BY <3>3, <3>4 DEF ToString, ModeThread, ModeHybrid
    <3>6. Asked("sync") = "nosync"
      BY <2>5, <3>4 DEF ToString, SyncNosync
    <3> QED
      BY <2>5, <3>5, <3>6
  <2> QED
    BY <2>1, <2>3, <2>4, <2>5 DEF Counted
<1> QED
  BY Invariance, <1>1, PTL

\* Every ratio is between 0 and 1, whatever the clocks say.
LEMMA ShareInRange ==
  ASSUME NEW v \in Int, NEW t \in Int
  PROVE  /\ 0 <= Share(v, t)[1] /\ Share(v, t)[1] <= Share(v, t)[2]
         /\ Share(v, t)[2] > 0
BY DEF Share

THEOREM RatiosAreShares == Spec => []RatiosInRange
<1>1. IInv => RatiosInRange
  <2> SUFFICES ASSUME IInv, output # <<>>, NEW s \in DOMAIN output[1].ratios
               PROVE  LET q == output[1].ratios[s]
                      IN  0 <= q[1] /\ q[1] <= q[2] /\ q[2] > 0
    BY DEF RatiosInRange
  <2>1. times \in Timings /\ output[1].ratios \in {Ratios(times), <<>>}
    BY DEF IInv, RowInStep
  <2>2. output[1].ratios = Ratios(times)
    BY <2>1
  <2>3. \A x \in Stages \cup {"total"} : times[x] \in Int
    BY <2>1, DriverAssumption
  <2>4. Overhead(times) \in Int
    BY <2>3 DEF Overhead, Stages
  <2>5. PICK v \in Int : output[1].ratios[s] = Share(v, times["total"])
    BY <2>2, <2>3, <2>4 DEF Ratios, Stages
  <2> QED
    BY <2>3, <2>5, ShareInRange
<1> QED
  BY Invariance, <1>1, PTL

=============================================================================
