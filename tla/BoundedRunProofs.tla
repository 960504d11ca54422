---------------------------- MODULE BoundedRunProofs ----------------------------
(***************************************************************************)
(* The safety of the bounded run for any set of descendants and both       *)
(* runners.  Two facts carry it: once the group has been sent SIGKILL it   *)
(* cannot grow, since whoever could fork or leave is in it; and once the   *)
(* pipes are at their end without too much output they stay so.  That a    *)
(* run ends is checked by TLC only.                                        *)
(***************************************************************************)
EXTENDS BoundedRun, TLAPS

Processes == {Leader} \cup Heirs

Stopping == {"term", "grace", "kill", "reap"}

Typed ==
    /\ variant \in Variants
    /\ leader \in [state : {"running", "zombie", "reaped"}, exit : {"none", "zero", "other", "signal"}]
    /\ heirs \in [Heirs -> {"none", "in", "out", "dead"}]
    /\ holding \subseteq Processes
    /\ flood \in BOOLEAN
    /\ signals \in [termed : BOOLEAN, killed : SUBSET Processes]
    /\ late \in BOOLEAN
    /\ at \in Stopping \cup {"read", "await", "returned", "raised"}
    /\ runner \in [stopped : BOOLEAN, graceful : BOOLEAN, exit : {"none", "zero", "other", "signal"},
                   then : {"none", "read", "await", "returned", "raised"}]

(* Nobody of the group is left that could run on, fork or leave it.        *)
Secured == Group \subseteq signals.killed

(* Nobody can write any more, and what was written is within the limits.   *)
Quiet == holding = {} /\ flood = FALSE

(* Until the runner has stopped the group nobody was signalled.            *)
Unsignalled == signals.termed = FALSE /\ signals.killed = {}

StopInv ==
    /\ runner.stopped = FALSE =>
        /\ Unsignalled /\ leader.state # "reaped" /\ at \in {"read", "await"}
    /\ at \in Stopping => leader.state # "reaped" /\ runner.then # "none"
    /\ runner.stopped = TRUE /\ at \notin {"term", "grace", "kill"} => Secured
    /\ runner.stopped = TRUE /\ at \in {"read", "await"} => leader.state = "reaped"

StatusInv ==
    /\ leader.state # "running" /\ Unsignalled => leader.exit \in {"zero", "other"}
    /\ runner.exit # "none" =>
        leader.state # "running" /\ runner.exit = leader.exit /\ leader.exit \in {"zero", "other"}
    /\ at = "await" => Quiet
    /\ at \in Stopping /\ runner.then = "await" => Quiet
    /\ at \in Stopping /\ runner.then = "returned" => Quiet /\ runner.exit # "none"
    /\ at = "returned" => Quiet /\ runner.exit # "none" /\ leader.state = "reaped"

Inv == Typed /\ StopInv /\ StatusInv

LEMMA InitialState == Init => Inv
<1> SUFFICES ASSUME Init PROVE Inv
    OBVIOUS
<1>1. Typed
    BY DEF Init, Typed, Processes, Stopping
<1>2. StopInv /\ StatusInv
    BY DEF Init, Stopping, StopInv, StatusInv, Unsignalled
<1>3. QED
    BY <1>1, <1>2 DEF Inv

(* What any step of the generator keeps. *)
Undisturbed ==
    /\ Typed'
    /\ UNCHANGED <<variant, signals, late, at, runner>>
    /\ leader' = leader \/ (leader.state = "running" /\ leader'.state = "zombie")
    /\ leader' # leader /\ Unsignalled => leader'.exit \in {"zero", "other"}
    /\ Secured => Secured'
    /\ Quiet => Quiet'

LEMMA ForkKeeps ==
    ASSUME Inv, NEW p \in Free, NEW h \in Heirs, Fork(p, h),
           UNCHANGED <<variant, signals, late, at, runner>>
    PROVE  Undisturbed
<1>1. Typed'
    BY DEF Inv, Typed, Fork, Free, Alive, Processes
<1>2. Secured => Secured'
  <2> SUFFICES ASSUME Secured PROVE Secured'
    OBVIOUS
  <2>1. p \notin Group
    BY DEF Free, Secured
  <2>2. heirs' = [heirs EXCEPT ![h] = "out"] /\ leader' = leader
    BY <2>1 DEF Fork
  <2>3. Group' \subseteq Group
    BY <2>2, RunAssumption DEF Inv, Typed, Group, Alive
  <2>4. QED
    BY <2>3 DEF Secured
<1>3. Quiet => Quiet'
    BY DEF Quiet, Fork
<1>4. QED
    BY <1>1, <1>2, <1>3 DEF Undisturbed, Fork

LEMMA LeaveKeeps ==
    ASSUME Inv, NEW h \in Heirs, LeaveGroup(h), UNCHANGED <<variant, signals, late, at, runner>>
    PROVE  Undisturbed
<1>1. Typed'
    BY DEF Inv, Typed, LeaveGroup
<1>2. ~Secured
    BY DEF Secured, LeaveGroup, Free
<1>3. QED
    BY <1>1, <1>2 DEF Undisturbed, Quiet, LeaveGroup

LEMMA OutputKeeps ==
    ASSUME Inv, NEW p \in Free, CloseOutput(p) \/ Overflow(p),
           UNCHANGED <<variant, signals, late, at, runner>>
    PROVE  Undisturbed
<1>1. Typed'
  <2>1. holding' \subseteq holding /\ flood' \in BOOLEAN /\ UNCHANGED <<leader, heirs>>
    BY DEF Inv, Typed, CloseOutput, Overflow
  <2>2. QED
    BY <2>1 DEF Inv, Typed
<1>2. Group' = Group
    BY DEF Group, Alive, CloseOutput, Overflow
<1>3. QED
    BY <1>1, <1>2 DEF Undisturbed, Quiet, Secured, CloseOutput, Overflow

LEMMA ExitKeeps ==
    ASSUME Inv, NEW p \in Alive, NEW how \in {"zero", "other", "signal"}, Exit(p, how),
           UNCHANGED <<variant, signals, late, at, runner>>
    PROVE  Undisturbed
<1>1. CASE p = Leader
  <2>1. leader.state = "running" /\ leader' = [state |-> "zombie", exit |-> how] /\ heirs' = heirs
    BY <1>1, RunAssumption DEF Exit, Alive
  <2>2. Typed' /\ leader'.state = "zombie" /\ leader'.exit = how
    BY <2>1 DEF Inv, Typed, Exit
  <2>3. Unsignalled => how \in {"zero", "other"}
    BY <1>1 DEF Exit, Unsignalled
  <2>4. Group' \subseteq Group
    BY <2>1, <2>2, RunAssumption DEF Group, Alive
  <2>5. QED
    BY <2>1, <2>2, <2>3, <2>4 DEF Undisturbed, Secured, Quiet, Exit
<1>2. CASE p # Leader
  <2>1. p \in Heirs /\ heirs' = [heirs EXCEPT ![p] = "dead"] /\ leader' = leader
    BY <1>2 DEF Exit, Alive
  <2>2. Typed'
    BY <2>1 DEF Inv, Typed, Exit
  <2>3. Group' \subseteq Group
    BY <2>1, RunAssumption DEF Inv, Typed, Group, Alive
  <2>4. QED
    BY <2>1, <2>2, <2>3 DEF Undisturbed, Secured, Quiet, Exit
<1>3. QED
    BY <1>1, <1>2

LEMMA ChildSteps ==
    ASSUME Inv, ChildStep PROVE Inv'
<1>1. Undisturbed
    BY ForkKeeps, LeaveKeeps, OutputKeeps, ExitKeeps DEF ChildStep
<1>2. StopInv'
    BY <1>1 DEF Inv, StopInv, Undisturbed, Unsignalled
<1>3. StatusInv'
    BY <1>1 DEF Inv, StatusInv, Undisturbed, Unsignalled, Quiet
<1>4. QED
    BY <1>1, <1>2, <1>3 DEF Inv, Undisturbed

(* Steps of the runner leave the children alone, but for Kill and Reap.    *)
LEMMA GroupKept ==
    ASSUME UNCHANGED <<leader, heirs, signals>> PROVE Secured' = Secured /\ Group' = Group
    BY DEF Secured, Group, Alive

(* stop_process: the first call starts stopping, a later one does nothing. *)
LEMMA Stops ==
    ASSUME Inv, NEW then \in {"read", "await", "returned", "raised"}, NEW graceful \in BOOLEAN,
           NEW exit \in {"none", "zero", "other", "signal"}, Stop(then, graceful, exit),
           at \in {"read", "await"}, then \in {"read", "await"} => runner.stopped = FALSE,
           then = "await" => Quiet,
           UNCHANGED <<variant, childVars, signals, late>>,
           exit # "none" => leader.state # "running" /\ exit = leader.exit,
           exit # "none" => runner.stopped = FALSE \/ exit = runner.exit,
           then = "returned" => Quiet /\ exit # "none"
    PROVE  Inv'
<1>1. Typed'
    BY DEF Inv, Typed, Stop, childVars, Stopping
<1>2. /\ runner'.stopped = TRUE /\ runner'.exit = exit
      /\ runner'.then = IF runner.stopped THEN runner.then ELSE then
      /\ at' = IF runner.stopped THEN then ELSE "term"
      /\ UNCHANGED <<leader, heirs, signals, holding, flood>>
    BY DEF Stop, childVars
<1>3. runner.stopped \in BOOLEAN /\ runner.stopped = TRUE => leader.state = "reaped" /\ Secured
    BY DEF Inv, Typed, StopInv, Stopping
<1>4. StopInv'
  <2>1. CASE runner.stopped = TRUE
    BY <1>2, <1>3, <2>1, GroupKept DEF StopInv, Stopping
  <2>2. CASE runner.stopped = FALSE
    BY <1>2, <2>2 DEF Inv, StopInv, Stopping
  <2>3. QED
    BY <2>1, <2>2 DEF Inv, Typed
<1>5. StatusInv'
  <2>1. exit # "none" => leader.exit \in {"zero", "other"}
    BY DEF Inv, StatusInv, StopInv, Typed
  <2>2. CASE runner.stopped = TRUE
    BY <1>2, <1>3, <2>1, <2>2 DEF Inv, StatusInv, Quiet, Unsignalled, Stopping
  <2>3. CASE runner.stopped = FALSE
    BY <1>2, <2>1, <2>3 DEF Inv, StatusInv, Quiet, Unsignalled, Stopping
  <2>4. QED
    BY <2>2, <2>3 DEF Inv, Typed
<1>6. QED
    BY <1>1, <1>4, <1>5 DEF Inv

LEMMA Raises ==
    ASSUME Inv, at \in {"read", "await"}, Raise, UNCHANGED <<variant, childVars, signals, late>>
    PROVE  Inv'
<1>1. runner.exit \in {"none", "zero", "other", "signal"}
    BY DEF Inv, Typed
<1>2. runner.exit # "none" => leader.state # "running" /\ runner.exit = leader.exit
    BY DEF Inv, StatusInv
<1>3. QED
    BY <1>1, <1>2, Stops DEF Raise

LEMMA ReadSteps ==
    ASSUME Inv, Read \/ ObserveFails PROVE Inv'
<1>1. CASE Raise
    BY <1>1, Raises DEF Read, ObserveFails
<1>2. CASE ~Raise
  <2>1. at = "read" /\ at' = "await" /\ Quiet /\ UNCHANGED <<runner, variant, childVars, signals, late>>
    BY <1>2 DEF Read, ObserveFails, Quiet, Inv, Typed
  <2>2. QED
    BY <2>1, GroupKept DEF Inv, Typed, StopInv, StatusInv, Unsignalled, Quiet, Stopping, childVars
<1>3. QED
    BY <1>1, <1>2

LEMMA ObserveStep ==
    ASSUME Inv, ObserveExit PROVE Inv'
<1>1. CASE leader.exit = "zero"
  <2>1. /\ runner' = [runner EXCEPT !.exit = leader.exit] /\ leader.state = "zombie"
        /\ at \in {"read", "await"} /\ UNCHANGED <<at, variant, childVars, signals, late>>
    BY <1>1 DEF ObserveExit
  <2>2. /\ Typed' /\ runner'.stopped = runner.stopped /\ runner'.then = runner.then
        /\ runner'.exit = leader.exit
    BY <2>1 DEF Inv, Typed, childVars
  <2>3. QED
    BY <1>1, <2>1, <2>2, GroupKept DEF Inv, StopInv, StatusInv, Unsignalled, Quiet, Stopping, childVars
<1>2. CASE leader.exit # "zero"
  <2>1. /\ Stop(at, TRUE, leader.exit) /\ at \in {"read", "await"} /\ leader.state = "zombie"
        /\ runner.stopped = FALSE /\ leader.exit \in {"none", "zero", "other", "signal"}
        /\ UNCHANGED <<variant, childVars, signals, late>>
    BY <1>2 DEF ObserveExit, Inv, Typed
  <2>2. at = "await" => Quiet
    BY DEF Inv, StatusInv
  <2>3. QED
    BY <2>1, <2>2, Stops
<1>3. QED
    BY <1>1, <1>2

LEMMA AwaitStep ==
    ASSUME Inv, Await PROVE Inv'
<1>1. /\ at = "await" /\ Quiet /\ UNCHANGED <<variant, childVars, signals, late>>
      /\ leader.exit \in {"none", "zero", "other", "signal"}
      /\ runner.exit \in {"none", "zero", "other", "signal"}
    BY DEF Await, Inv, StatusInv, Typed
<1>2. CASE Raise
    BY <1>1, <1>2, Raises
<1>3. CASE runner.exit # "none" /\ Stop("returned", FALSE, runner.exit)
  <2>1. leader.state # "running" /\ runner.exit = leader.exit
    BY <1>3 DEF Inv, StatusInv
  <2>2. QED
    BY <1>1, <1>3, <2>1, Stops
<1>4. CASE /\ variant = "patient" /\ leader.state = "zombie"
           /\ Stop("returned", FALSE, leader.exit)
  <2>1. runner.stopped = FALSE
    BY <1>1, <1>4 DEF Inv, StopInv, Typed
  <2>2. leader.exit # "none"
    BY <1>4, <2>1 DEF Inv, StopInv, StatusInv
  <2>3. QED
    BY <1>1, <1>4, <2>1, <2>2, Stops
<1>5. QED
    BY <1>2, <1>3, <1>4 DEF Await

LEMMA SignalSteps ==
    ASSUME Inv, Terminate \/ Grace PROVE Inv'
<1>1. /\ at \in {"term", "grace"} /\ at' \in {"grace", "kill"}
      /\ UNCHANGED <<variant, childVars, late, runner>>
    BY DEF Terminate, Grace
<1>2. Typed'
  <2>1. signals' = [signals EXCEPT !.termed = TRUE] \/ signals' = signals
    BY DEF Terminate, Grace
  <2>2. signals' \in [termed : BOOLEAN, killed : SUBSET Processes]
    BY <2>1 DEF Inv, Typed
  <2>3. QED
    BY <1>1, <2>2 DEF Inv, Typed, childVars, Stopping
<1>3. StopInv'
    BY <1>1 DEF Inv, StopInv, childVars, Stopping
<1>4. runner.stopped = TRUE
    BY <1>1 DEF Inv, StopInv, Typed
<1>5. signals'.termed = TRUE \/ signals' = signals
    BY DEF Inv, Typed, Terminate, Grace
<1>6. StatusInv'
    BY <1>1, <1>5 DEF Inv, StatusInv, childVars, Quiet, Unsignalled, Stopping
<1>7. QED
    BY <1>2, <1>3, <1>6 DEF Inv

LEMMA KillStep ==
    ASSUME Inv, Kill PROVE Inv' /\ Secured'
<1>1. /\ at = "kill" /\ at' = "reap" /\ signals' = [signals EXCEPT !.killed = @ \cup Group]
      /\ UNCHANGED <<variant, childVars, late, runner>>
    BY DEF Kill
<1>2. Group' = Group /\ Group \subseteq Processes
    BY <1>1 DEF Group, Alive, childVars, Processes
<1>3. /\ signals \in [termed : BOOLEAN, killed : SUBSET Processes]
      /\ signals.killed \cup Group \in SUBSET Processes
    BY <1>2 DEF Inv, Typed
<1>4. /\ signals' \in [termed : BOOLEAN, killed : SUBSET Processes]
      /\ signals'.termed = signals.termed /\ signals'.killed = signals.killed \cup Group
    BY <1>1, <1>3
<1>5. Typed'
    BY <1>1, <1>4 DEF Inv, Typed, childVars, Stopping
<1>6. Secured'
    BY <1>2, <1>4 DEF Secured
<1>7. StopInv' /\ StatusInv'
    BY <1>1, <1>4, <1>6 DEF Inv, StopInv, StatusInv, Typed, childVars, Quiet, Unsignalled, Stopping
<1>8. QED
    BY <1>5, <1>6, <1>7 DEF Inv

LEMMA ReapSteps ==
    ASSUME Inv, Reap \/ ReapTimesOut PROVE Inv'
<1>1. at = "reap" /\ runner.stopped = TRUE /\ Secured /\ UNCHANGED <<variant, heirs, holding, flood, signals, late, runner>>
    BY DEF Reap, ReapTimesOut, Inv, StopInv, Typed, childVars
<1>2. CASE Reap
  <2>1. /\ leader.state = "zombie" /\ leader' = [leader EXCEPT !.state = "reaped"]
        /\ at' = runner.then /\ runner.then # "none"
    BY <1>1, <1>2 DEF Reap, Inv, StopInv, Stopping
  <2>2. Typed' /\ leader'.state = "reaped" /\ leader'.exit = leader.exit
    BY <1>1, <2>1 DEF Inv, Typed
  <2>3. Group' = Group
    BY <1>1, <2>1, <2>2 DEF Group, Alive
  <2>4. at' \in {"read", "await", "returned", "raised"}
    BY <2>1 DEF Inv, Typed
  <2>5. StopInv'
    BY <1>1, <2>2, <2>3, <2>4 DEF StopInv, Secured, Stopping
  <2>6. StatusInv'
    BY <1>1, <2>1, <2>2, <2>4 DEF Inv, StatusInv, Quiet, Unsignalled, Stopping
  <2>7. QED
    BY <2>2, <2>5, <2>6 DEF Inv
<1>3. CASE ReapTimesOut
  <2>1. at' = "raised" /\ leader' = leader
    BY <1>3 DEF ReapTimesOut, childVars
  <2>2. QED
    BY <1>1, <2>1, GroupKept DEF Inv, Typed, StopInv, StatusInv, Quiet, Unsignalled, Stopping
<1>4. QED
    BY <1>2, <1>3

LEMMA InvariantHolds == Spec => []Inv
<1>1. Inv /\ [Next]_runVars => Inv'
  <2> SUFFICES ASSUME Inv, [Next]_runVars PROVE Inv'
    OBVIOUS
  <2>1. CASE Tick \/ UNCHANGED runVars
    <3>1. late' \in BOOLEAN /\ UNCHANGED <<variant, leader, heirs, holding, flood, signals, at, runner>>
      BY <2>1 DEF Tick, runVars, childVars, Inv, Typed
    <3>2. Typed'
      BY <3>1 DEF Inv, Typed
    <3>3. StopInv' /\ StatusInv'
      BY <3>1, GroupKept DEF Inv, StopInv, StatusInv, Quiet, Unsignalled
    <3> QED BY <3>2, <3>3 DEF Inv
  <2>2. QED
    BY <2>1, ChildSteps, ReadSteps, ObserveStep, AwaitStep, SignalSteps, KillStep, ReapSteps
    DEF Next, RunnerStep
<1>2. QED
    BY <1>1, InitialState, PTL DEF Spec

(* However a run ends, nothing of the process group runs on: _run_bounded, *)
(* _bounded_subprocess.                                                    *)
THEOREM GroupEndsWithRun == Spec => []NothingSurvives
<1>1. Inv => NothingSurvives
    BY DEF Inv, StopInv, Typed, Secured, NothingSurvives, Ended
<1>2. QED
    BY <1>1, InvariantHolds, PTL

(* What is returned is the status the leader ended with by itself, with    *)
(* all of the output.                                                      *)
THEOREM ReturnedStatusIsTheLeaders == Spec => []StatusIsTheLeaders
<1>1. Inv => StatusIsTheLeaders
    BY DEF Inv, StatusInv, Quiet, StatusIsTheLeaders
<1>2. QED
    BY <1>1, InvariantHolds, PTL

(* The group is signalled only while the leader, not yet reaped, keeps its *)
(* id from being given to somebody else.                                   *)
THEOREM GroupSignalsAreAnchored == Spec => SignalsAreAnchored
<1>1. Inv => ((at \in {"term", "kill"} /\ at' # at) => leader.state # "reaped")
    BY DEF Inv, StopInv, Stopping
<1>2. QED
    BY <1>1, InvariantHolds, PTL DEF SignalsAreAnchored
=============================================================================
