------------------------------- MODULE BoundedRun -------------------------------
(***************************************************************************)
(* Running a generator with bounded output and time, and ending with its   *)
(* whole process group: _run_bounded of publish_surface_preview.py         *)
(* ("patient") and _bounded_subprocess of disposable_ck_projection.py      *)
(* ("eager": it stops the group as soon as it sees the leader fail).  The  *)
(* leader forks descendants that may keep the pipes, close them, or leave  *)
(* the group with a session of their own.  POSIX only.                     *)
(***************************************************************************)
EXTENDS FiniteSets

CONSTANTS Variants,  \* which of the two runners are checked
          Heirs,     \* descendants the leader may have
          Leader     \* the direct child

ASSUME RunAssumption == Variants \subseteq {"patient", "eager"} /\ Leader \notin Heirs

VARIABLES
    variant,  \* the runner
    leader,   \* state: running, zombie, reaped; exit: how it ended
    heirs,    \* each descendant: none, in the group, out of it, dead
    holding,  \* processes that hold a write end of the pipes
    flood,    \* unread output over a limit
    signals,  \* SIGTERM was sent to the group; processes that were sent SIGKILL
    late,     \* the deadline has passed
    at,       \* where the runner is
    runner    \* stopped, the exit it observed, where it goes on after stopping

runVars == <<variant, leader, heirs, holding, flood, signals, late, at, runner>>
childVars == <<leader, heirs, holding, flood>>

Init ==
    /\ variant \in Variants
    /\ leader = [state |-> "running", exit |-> "none"]
    /\ heirs = [h \in Heirs |-> "none"]
    /\ holding = {Leader}
    /\ flood = FALSE
    /\ signals = [termed |-> FALSE, killed |-> {}]
    /\ late = FALSE
    /\ at = "read"
    /\ runner = [stopped |-> FALSE, graceful |-> TRUE, exit |-> "none", then |-> "none"]

-----------------------------------------------------------------------------
(* The generator and its descendants. *)

Alive == (IF leader.state = "running" THEN {Leader} ELSE {})
            \cup {h \in Heirs : heirs[h] \in {"in", "out"}}
Free == Alive \ signals.killed
Group == {p \in Alive : p = Leader \/ (p \in Heirs /\ heirs[p] = "in")}

Fork(parent, h) ==
    /\ parent \in Free /\ heirs[h] = "none"
    /\ heirs' = [heirs EXCEPT ![h] = IF parent \in Group THEN "in" ELSE "out"]
    /\ holding' = IF parent \in holding THEN holding \cup {h} ELSE holding
    /\ UNCHANGED <<leader, flood>>

LeaveGroup(h) ==
    /\ h \in Free \cap Group
    /\ heirs' = [heirs EXCEPT ![h] = "out"]
    /\ UNCHANGED <<leader, holding, flood>>

CloseOutput(p) ==
    /\ p \in Free \cap holding
    /\ holding' = holding \ {p}
    /\ UNCHANGED <<leader, heirs, flood>>

Overflow(p) ==
    /\ p \in Free \cap holding
    /\ flood' = TRUE
    /\ UNCHANGED <<leader, heirs, holding>>

(* By itself, by SIGTERM, or by SIGKILL. *)
Exit(p, how) ==
    /\ p \in Alive
    /\ how \in IF p \in signals.killed THEN {"signal"}
               ELSE {"zero", "other"} \cup (IF signals.termed /\ p \in Group THEN {"signal"} ELSE {})
    /\ IF p = Leader
       THEN leader' = [state |-> "zombie", exit |-> how] /\ UNCHANGED heirs
       ELSE heirs' = [heirs EXCEPT ![p] = "dead"] /\ UNCHANGED leader
    /\ holding' = holding \ {p}
    /\ UNCHANGED flood

ChildStep ==
    /\ \/ \E p \in Free : \/ \E h \in Heirs : Fork(p, h)
                          \/ CloseOutput(p) \/ Overflow(p)
       \/ \E h \in Heirs : LeaveGroup(h)
       \/ \E p \in Alive, how \in {"zero", "other", "signal"} : Exit(p, how)
    /\ UNCHANGED <<variant, signals, late, at, runner>>

Tick ==
    /\ ~late /\ at \notin {"returned", "raised"}
    /\ late' = TRUE
    /\ UNCHANGED <<variant, childVars, signals, at, runner>>

-----------------------------------------------------------------------------
(* The runner.  stop_process acts once; what follows it is `then`. *)

Ended == at \in {"returned", "raised"}

Stop(then, graceful, exit) ==
    /\ runner' = [stopped |-> TRUE, exit |-> exit,
                  then |-> IF runner.stopped THEN runner.then ELSE then,
                  graceful |-> IF runner.stopped THEN runner.graceful ELSE graceful]
    /\ at' = IF runner.stopped THEN then ELSE "term"

Raise == Stop("raised", TRUE, runner.exit)

(* select until both pipes are at their end; too much output or too late.  *)
Read ==
    /\ at = "read"
    /\ \/ (late \/ flood) /\ Raise
       \/ ~late /\ holding = {} /\ ~flood /\ at' = "await" /\ UNCHANGED runner
    /\ UNCHANGED <<variant, childVars, signals, late>>

(* waitid(WNOWAIT) fails. *)
ObserveFails ==
    /\ at = "await" \/ (at = "read" /\ variant = "eager")
    /\ ~runner.stopped /\ runner.exit = "none"
    /\ Raise
    /\ UNCHANGED <<variant, childVars, signals, late>>

(* observe_leader_exit: before and after every select, and while waiting   *)
(* for the exit.  A failed leader's group is stopped on the spot; the      *)
(* deadline is looked at again after that.                                 *)
ObserveExit ==
    /\ at \in {"read", "await"} /\ variant = "eager"
    /\ ~runner.stopped /\ runner.exit = "none" /\ leader.state = "zombie"
    /\ IF leader.exit = "zero"
       THEN runner' = [runner EXCEPT !.exit = leader.exit] /\ UNCHANGED at
       ELSE Stop(at, TRUE, leader.exit)
    /\ UNCHANGED <<variant, childVars, signals, late>>

AwaitStopped ==                                \* mutant: the status is read after stopping
    /\ at = "await"
    /\ IF late THEN Raise ELSE Stop("returned", FALSE, "signal")
    /\ UNCHANGED <<variant, childVars, signals, late>>

(* Both pipes are at their end, but the leader may not have exited.  Its   *)
(* status is taken without reaping it; then what is left of the group is   *)
(* stopped before anything is returned.                                    *)
Await ==
    /\ at = "await"
    /\ \/ late /\ Raise
       \/ /\ ~late \/ variant = "patient"
          /\ \/ runner.exit # "none" /\ Stop("returned", FALSE, runner.exit)
             \/ /\ variant = "patient" /\ leader.state = "zombie"
                /\ Stop("returned", FALSE, leader.exit)
    /\ UNCHANGED <<variant, childVars, signals, late>>

(* _stop_process *)
Terminate ==
    /\ at = "term"
    /\ signals' = [signals EXCEPT !.termed = TRUE]
    /\ at' = IF runner.graceful THEN "grace" ELSE "kill"
    /\ UNCHANGED <<variant, childVars, late, runner>>

GraceReaping ==                                \* mutant: the grace is a wait for the leader
    /\ at = "grace"
    /\ leader' = IF leader.state = "zombie" THEN [leader EXCEPT !.state = "reaped"] ELSE leader
    /\ at' = "kill"
    /\ UNCHANGED <<variant, heirs, holding, flood, signals, late, runner>>

Grace ==
    /\ at = "grace"
    /\ at' = "kill"
    /\ UNCHANGED <<variant, childVars, signals, late, runner>>

KillLeader ==                                  \* mutant: only the direct child
    /\ at = "kill"
    /\ signals' = [signals EXCEPT !.killed = @ \cup (Alive \cap {Leader})]
    /\ at' = "reap"
    /\ UNCHANGED <<variant, childVars, late, runner>>

Kill ==
    /\ at = "kill"
    /\ signals' = [signals EXCEPT !.killed = @ \cup Group]
    /\ at' = "reap"
    /\ UNCHANGED <<variant, childVars, late, runner>>

Reap ==
    /\ at = "reap" /\ leader.state = "zombie"
    /\ leader' = [leader EXCEPT !.state = "reaped"]
    /\ at' = runner.then
    /\ UNCHANGED <<variant, heirs, holding, flood, signals, late, runner>>

ReapForever ==                                 \* mutant: a wait without a timeout
    /\ at = "reap" /\ leader.state = "reaped" /\ at' = "raised"
    /\ UNCHANGED <<variant, childVars, signals, late, runner>>

(* "process group did not terminate" *)
ReapTimesOut ==
    /\ at = "reap" /\ leader.state = "running"
    /\ at' = "raised"
    /\ UNCHANGED <<variant, childVars, signals, late, runner>>

RunnerStep ==
    \/ Read \/ ObserveFails \/ ObserveExit \/ Await
    \/ Terminate \/ Grace \/ Kill \/ Reap \/ ReapTimesOut

Next == ChildStep \/ Tick \/ RunnerStep

(* Time passes and the runner runs; nothing is expected of the generator.  *)
Spec == /\ Init /\ [][Next]_runVars
        /\ WF_runVars(RunnerStep) /\ WF_runVars(Tick)

-----------------------------------------------------------------------------
(* Properties *)

(* "This prevents a generator grandchild from mutating a validated bundle  *)
(* during publication": when the runner is done, however it ended, nothing *)
(* of the group runs on, but for a process that SIGKILL is already ending. *)
NothingSurvives == Ended => Group \subseteq signals.killed

(* What is returned is the status the leader ended with by itself, before  *)
(* the runner signalled anyone, and the output is whole.                   *)
StatusIsTheLeaders ==
    at = "returned" =>
        /\ runner.exit = leader.exit /\ leader.exit \in {"zero", "other"}
        /\ leader.state = "reaped"
        /\ holding = {} /\ ~flood

(* "Keep the direct leader unreaped so its PID/PGID remains an anchor for  *)
(* the final group signal": the group is not signalled once its id could   *)
(* be another group's.                                                     *)
SignalsAreAnchored ==
    [][(at \in {"term", "kill"} /\ at' # at) => leader.state # "reaped"]_runVars

(* The runner returns or raises, though the leader never exits, cannot be  *)
(* killed, or leaves the pipes to a descendant outside the group.          *)
RunnerEnds == <>Ended
=============================================================================
