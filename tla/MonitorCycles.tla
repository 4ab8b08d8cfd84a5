---------------------------- MODULE MonitorCycles ----------------------------
(***************************************************************************)
(* The life of a monitor (peeka/commands/monitor.py): a start registers it,  *)
(* puts its wrapper in place and starts a timer thread that reports once a   *)
(* cycle and keeps the probe run; it is stopped by its own command, by reset *)
(* or detach, by probe.stop and by job.interrupt, from any connection (the   *)
(* monitor command does not take the mutation lock).  A stop holds _lock     *)
(* while it joins the timer, which needs _lock at the end of every cycle.    *)
(*                                                                         *)
(* How stacked wrappers are put back is module MonitorStack's; here a        *)
(* wrapper is installed or is not.                                           *)
(***************************************************************************)
EXTENDS Naturals, FiniteSets

CONSTANTS TimedMonitors, Stoppers, \* monitors by id, and connections that stop them
          Limits,             \* cycles asked for; 0 is -1, without a limit
          MaxReports,         \* bound: reports of one monitor
          Unheld                \* not a stopper

ASSUME CycleAssumption ==
    Limits \subseteq Nat /\ MaxReports \in Nat /\ Unheld \notin Stoppers

VARIABLES holder,    \* who holds the handler's _lock: it joins a timer
          listed,    \* _monitors
          installed, \* monitors whose wrapper is in the target
          statsOf,   \* monitors with statistics (MonitorManager._stats)
          signalled, \* monitors whose stop event is set
          timer, probe, job, \* the timer thread, the probe run, the start's job
          linked,    \* probe runs created with their job's id
          tracked,   \* tracked probe contexts
          cycles, reports, late, \* late: reports after the probe had ended
          cmd        \* what each stopper does

monitor == <<listed, installed, statsOf, cycles>>
runs == <<timer, probe, linked, tracked, reports, late>>
cycleVars == <<holder, monitor, signalled, runs, job, cmd>>

NoCmd == [at |-> "idle", op |-> "stop", for |-> {}]
Do(k, at, op, for) == cmd' = [cmd EXCEPT ![k] = [at |-> at, op |-> op, for |-> for]]
Idle(k) == cmd[k].at = "idle"
Answer(k) == cmd' = [cmd EXCEPT ![k] = NoCmd]

LiveJob(m) == job[m] \in {"running", "streaming"}
OverProbe(m) == probe[m] \in {"stopped", "failed"}

CycleInit ==
    /\ holder = Unheld /\ listed = {} /\ installed = {} /\ statsOf = {} /\ signalled = {}
    /\ timer = [m \in TimedMonitors |-> "none"] /\ probe = timer /\ job = timer
    /\ linked = {} /\ tracked = {}
    /\ cycles \in [TimedMonitors -> Limits]
    /\ reports = [m \in TimedMonitors |-> 0] /\ late = reports
    /\ cmd = [k \in Stoppers |-> NoCmd]

-----------------------------------------------------------------------------
(* start: the job, then the handler, then the job's new status *)

BeginStart(m) ==
    /\ job[m] = "none"
    /\ job' = [job EXCEPT ![m] = "running"]
    /\ UNCHANGED <<holder, monitor, signalled, runs, cmd>>

\* Statistics, registration, wrapper and thread: the id is in nobody else's hands
\* before the lock is given back.
StartCycles(m) ==
    /\ job[m] # "none" /\ timer[m] = "none" /\ holder = Unheld
    /\ statsOf' = statsOf \cup {m} /\ listed' = listed \cup {m}
    /\ installed' = installed \cup {m}
    /\ timer' = [timer EXCEPT ![m] = "begun"]
    /\ UNCHANGED <<holder, cycles, signalled, probe, linked, tracked, reports, late, job, cmd>>

\* Refused when the job was interrupted in the meantime.
SettleStart(m) ==
    /\ timer[m] # "none" /\ job[m] = "running"
    /\ job' = [job EXCEPT ![m] = "streaming"]
    /\ UNCHANGED <<holder, monitor, signalled, runs, cmd>>

-----------------------------------------------------------------------------
(* The timer thread *)

TimerAt(m, here, there) == timer[m] = here /\ timer' = [timer EXCEPT ![m] = there]

\* Reads its entry without the lock; a stop that has taken it away leaves the
\* probe run without a job.
CreateRun(m) ==
    /\ TimerAt(m, "begun", "created")
    /\ probe' = [probe EXCEPT ![m] = "created"]
    /\ linked' = linked \cup ({m} \cap listed)
    /\ UNCHANGED <<holder, monitor, signalled, tracked, reports, late, job, cmd>>

ActivateRun(m) ==
    /\ TimerAt(m, "created", "entered")
    /\ probe' = [probe EXCEPT ![m] = "active"]
    /\ UNCHANGED <<holder, monitor, signalled, linked, tracked, reports, late, job, cmd>>

TrackRun(m) ==
    /\ TimerAt(m, "entered", "loop")
    /\ tracked' = tracked \cup {m}
    /\ UNCHANGED <<holder, monitor, signalled, probe, linked, reports, late, job, cmd>>

\* Mutated form: the timer does not look at its probe run.
NeverShouldStop(m) == FALSE

\* should_stop.
ShouldStop(m) == OverProbe(m)

TestProbe(m) ==
    /\ TimerAt(m, "loop", IF ShouldStop(m) THEN "leaving" ELSE "waiting")
    /\ UNCHANGED <<holder, monitor, signalled, probe, linked, tracked, reports, late, job, cmd>>

\* stop_event.wait: at once when it is set, or a cycle is over.
WaitEnds(m) ==
    /\ m \in signalled \/ reports[m] < MaxReports
    /\ TimerAt(m, "waiting", IF m \in signalled THEN "leaving" ELSE "due")
    /\ UNCHANGED <<holder, monitor, signalled, probe, linked, tracked, reports, late, job, cmd>>

\* The statistics are there as long as the thread is: a stop takes them away only
\* after a join that did not time out.  record_event does not look at the status.
Report(m) ==
    /\ TimerAt(m, "due", "counted")
    /\ reports' = [reports EXCEPT ![m] = @ + 1]
    /\ late' = [late EXCEPT ![m] = IF OverProbe(m) THEN @ + 1 ELSE @]
    /\ UNCHANGED <<holder, monitor, signalled, probe, linked, tracked, job, cmd>>

\* cycle_count, for status; then the test of the cycles.
KeepCount(m) ==
    /\ holder = Unheld
    /\ TimerAt(m, "counted", IF cycles[m] > 0 /\ reports[m] >= cycles[m] THEN "over" ELSE "loop")
    /\ UNCHANGED <<holder, monitor, signalled, probe, linked, tracked, reports, late, job, cmd>>

CyclesOver(m) ==
    /\ holder = Unheld
    /\ TimerAt(m, "over", "leaving")
    /\ signalled' = signalled \cup ({m} \cap listed)
    /\ UNCHANGED <<holder, monitor, probe, linked, tracked, reports, late, job, cmd>>

UntrackRun(m) ==
    /\ TimerAt(m, "leaving", "exiting")
    /\ tracked' = tracked \ {m}
    /\ UNCHANGED <<holder, monitor, signalled, probe, linked, reports, late, job, cmd>>

\* set_status, of a run that is active or over by now.
Stopped(m) == [probe EXCEPT ![m] = IF @ = "active" THEN "stopped" ELSE @]

ExitRun(m) ==
    /\ TimerAt(m, "exiting", "done")
    /\ probe' = Stopped(m)
    /\ UNCHANGED <<holder, monitor, signalled, linked, tracked, reports, late, job, cmd>>

TimerSteps(m) ==
    \/ CreateRun(m) \/ ActivateRun(m) \/ TrackRun(m) \/ TestProbe(m) \/ WaitEnds(m)
    \/ Report(m) \/ KeepCount(m) \/ CyclesOver(m) \/ UntrackRun(m) \/ ExitRun(m)

-----------------------------------------------------------------------------
(* Stopping: "stop" is monitor stop, "all" reset and detach, "probe" probe.stop, *)
(* "job" job.interrupt.                                                          *)

BeginStop(k, m) ==
    /\ Idle(k) /\ timer[m] # "none"
    /\ Do(k, "stopping", "stop", {m})
    /\ UNCHANGED <<holder, monitor, signalled, runs, job>>

\* Mutations, so one at a time.
BeginStopAll(k) ==
    /\ Idle(k) /\ listed \cup tracked # {} /\ holder = Unheld
    /\ \A other \in Stoppers : cmd[other].op # "all"
    /\ IF listed = {} THEN Do(k, "contexts", "all", tracked)
                      ELSE Do(k, "stopping", "all", listed)
    /\ UNCHANGED <<holder, monitor, signalled, runs, job>>

\* probe.stop of a run that is over finishes its job; of another, looks for the
\* context.
BeginProbeStop(k, m) ==
    /\ Idle(k) /\ probe[m] # "none" /\ (OverProbe(m) => m \in linked /\ LiveJob(m))
    /\ IF OverProbe(m)
       THEN job' = [job EXCEPT ![m] = "completed"] /\ UNCHANGED cmd
       ELSE /\ Do(k, IF m \in tracked THEN "stopping" ELSE "ending", "probe", {m})
            /\ UNCHANGED job
    /\ UNCHANGED <<holder, monitor, signalled, runs>>

\* job.interrupt before there is a probe run of the job ends the job alone.
BeginInterrupt(k, m) ==
    /\ Idle(k) /\ LiveJob(m)
    /\ Do(k, IF m \in linked \cap tracked THEN "stopping" ELSE "ending",
             IF m \in linked THEN "job" ELSE "jobAlone", {m})
    /\ UNCHANGED <<holder, monitor, signalled, runs, job>>

\* Where a command goes on when one monitor is stopped, or could not be.
AfterStop(k, m, stopped) ==
    CASE cmd[k].op = "stop" -> Answer(k)
      [] cmd[k].op = "all" /\ cmd[k].for # {m} -> Do(k, "stopping", "all", cmd[k].for \ {m})
      [] cmd[k].op = "all" /\ cmd[k].for = {m} -> Do(k, "contexts", "all", tracked)
      [] cmd[k].op \in {"probe", "job"} ->
            IF stopped THEN Do(k, "ending", cmd[k].op, {m}) ELSE Answer(k)

NotListed(k, m) ==
    /\ cmd[k].at = "stopping" /\ m \in cmd[k].for \ listed /\ holder = Unheld
    /\ AfterStop(k, m, FALSE)
    /\ UNCHANGED <<holder, monitor, signalled, runs, job>>

\* The lock, the entry, the event; then the join.
SignalTimer(k, m) ==
    /\ cmd[k].at = "stopping" /\ m \in cmd[k].for \cap listed /\ holder = Unheld
    /\ holder' = k /\ listed' = listed \ {m} /\ signalled' = signalled \cup {m}
    /\ cmd' = [cmd EXCEPT ![k].at = "joining"]
    /\ UNCHANGED <<installed, statsOf, cycles, runs, job>>

\* The monitor that is being stopped, of those that are still to be.
Joined(k) == {m \in cmd[k].for : m \notin listed /\ m \in installed}

\* Mutated form: join() without a time limit.
NeverTimesOut(m) == FALSE

\* join(timeout=2): over in time, or not.
InTime(m) == timer[m] = "done"
MayTimeOut(m) == ~InTime(m)

\* The wrapper is taken out in either case, the statistics only after a join.
JoinEnds(k) ==
    \E m \in Joined(k) :
       /\ cmd[k].at = "joining" /\ holder = k /\ (InTime(m) \/ MayTimeOut(m))
       /\ installed' = installed \ {m} /\ holder' = Unheld
       /\ statsOf' = IF InTime(m) THEN statsOf \ {m} ELSE statsOf
       /\ AfterStop(k, m, InTime(m))
       /\ UNCHANGED <<listed, cycles, signalled, runs, job>>

\* reset and detach: contexts that are tracked when the monitors are done with.
StopContexts(k) ==
    /\ cmd[k].at = "contexts"
    /\ \/ cmd[k].for = {} /\ Answer(k) /\ UNCHANGED <<tracked, probe>>
       \/ \E m \in cmd[k].for :
             /\ tracked' = tracked \ {m}
             /\ probe' = IF m \in tracked THEN Stopped(m) ELSE probe
             /\ Do(k, "contexts", "all", cmd[k].for \ {m})
    /\ UNCHANGED <<holder, monitor, signalled, timer, linked, reports, late, job>>

\* The probe run, if it is not over, and the job: a run that is only created
\* cannot be stopped, which probe.stop reports and job.interrupt does not.
EndProbeAndJob(k) ==
    \E m \in cmd[k].for :
       /\ cmd[k].at = "ending"
       /\ probe' = IF cmd[k].op = "jobAlone" THEN probe ELSE Stopped(m)
       /\ job' = IF ~LiveJob(m) THEN job
                 ELSE IF cmd[k].op # "probe" THEN [job EXCEPT ![m] = "interrupted"]
                 ELSE IF m \in linked /\ probe[m] # "created"
                      THEN [job EXCEPT ![m] = "completed"] ELSE job
       /\ Answer(k)
       /\ UNCHANGED <<holder, monitor, signalled, timer, linked, tracked, reports, late>>

Stopping(k) ==
    \/ \E m \in TimedMonitors : NotListed(k, m) \/ SignalTimer(k, m)
    \/ JoinEnds(k) \/ StopContexts(k) \/ EndProbeAndJob(k)

CycleNext ==
    \/ \E m \in TimedMonitors : BeginStart(m) \/ StartCycles(m) \/ SettleStart(m) \/ TimerSteps(m)
    \/ \E k \in Stoppers, m \in TimedMonitors :
          BeginStop(k, m) \/ BeginProbeStop(k, m) \/ BeginInterrupt(k, m)
    \/ \E k \in Stoppers : BeginStopAll(k) \/ Stopping(k)

\* Threads run, cycles elapse and joins time out.
CycleSpec ==
    /\ CycleInit /\ [][CycleNext]_cycleVars
    /\ \A m \in TimedMonitors : WF_cycleVars(TimerSteps(m))
    /\ \A k \in Stoppers : WF_cycleVars(JoinEnds(k))

-----------------------------------------------------------------------------
(* Properties *)

CycleTypeOK ==
    /\ holder \in Stoppers \cup {Unheld} /\ listed \cup installed \cup statsOf \subseteq TimedMonitors
    /\ signalled \cup linked \cup tracked \subseteq TimedMonitors
    /\ probe \in [TimedMonitors -> {"none", "created", "active", "stopped"}]
    /\ job \in [TimedMonitors -> {"none", "running", "streaming", "completed", "interrupted"}]
    /\ \A m \in TimedMonitors : reports[m] <= MaxReports /\ late[m] <= reports[m]
    /\ \A k \in Stoppers : cmd[k].for \subseteq TimedMonitors

\* Whatever removes a monitor, and whoever else tries to at the same time: as long
\* as its wrapper is in the target a stop can find it or one is at it; once its
\* statistics are gone, which is what a stop that succeeded has done, nothing of it
\* is left running, tracked or in the target; and no more than one report is sent
\* for a probe run that is over.
MonitorReleased ==
    \A m \in TimedMonitors :
       /\ m \in installed => m \in listed \/ \E k \in Stoppers : m \in Joined(k) /\ holder = k
       /\ timer[m] # "none" /\ m \notin statsOf =>
             /\ timer[m] = "done" /\ OverProbe(m)
             /\ m \notin installed \cup tracked \cup listed
       /\ late[m] <= 1

\* A timer that is told to end does, and whoever waits for it holding the lock goes
\* on, although that lock is what the timer may be waiting for.
TimerEnds ==
    /\ \A m \in TimedMonitors : m \in signalled ~> timer[m] = "done"
    /\ \A k \in Stoppers : holder = k ~> holder = Unheld
=============================================================================
