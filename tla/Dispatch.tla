------------------------------ MODULE Dispatch ------------------------------
(***************************************************************************)
(* The agent's command dispatch (peeka/core/agent_control/dispatch.py) with *)
(* the registries it works on: command jobs (jobs.py), client sessions and  *)
(* their foreground job (client_sessions.py), probe runs (probes.py) and    *)
(* the probe contexts that tie a probe to its wrapper in the injector.      *)
(*                                                                         *)
(* One thread serves one connection.  Every registry call takes that        *)
(* registry's lock alone, so a command is a sequence of steps between which *)
(* the other connections' commands run.  Steps nobody can tell apart are    *)
(* merged: a job is "created" only until its own thread has set it running, *)
(* and everything that meets a created job treats it as a live one.         *)
(*                                                                         *)
(* A probe, its context and its wrapper are named by the job that started   *)
(* them.  Publishing a job's result to consumers changes no state here.     *)
(***************************************************************************)
CONSTANTS Threads,  \* connection handler threads
          Jobs,     \* job ids; one is drawn once (uuid4)
          Clients,  \* client session ids
          Sends,    \* <<thread, kind, session>>: the commands of each connection
          NoClient, \* no client_session_id, or a background command
          NoJob,
          NoThread

\* start: watch/trace start.  stop: watch/trace stop.  snapshot: a snapshot
\* command with allows_concurrent = False (stack, top).  concurrent: one with
\* True (memory, search, ...).  reset: the reset mutation, for all patterns.
Kinds == {"start", "stop", "snapshot", "concurrent", "reset"}

ASSUME DispatchAssumption ==
    /\ Sends \subseteq Threads \X Kinds \X (Clients \cup {NoClient})
    /\ NoClient \notin Clients
    /\ NoJob \notin Jobs
    /\ NoThread \notin Threads

VARIABLES session,  \* state of each client session
          fgjob,    \* foreground_job_id of each session
          status,   \* status of each job; "none" before, "gone" after the registry
          kind,     \* what the job's command is
          owner,    \* the session a foreground job was started by
          mutex,    \* holder of _mutation_lock
          probe,    \* status of the probe run a start job created
          tracked,  \* probe contexts tracked under a stream key
          wrapped,  \* wrappers registered in the injector
          overlap,  \* history: starts that overlapped a stop of theirs
          reported, \* history: registrations a failed command has left behind
          th        \* where each thread is in its command

vars == <<session, fgjob, status, kind, owner, mutex, probe, tracked, wrapped,
          overlap, reported, th>>

Live  == {"running", "streaming"}                  \* not TERMINAL_STATUSES
Ended == {"completed", "failed", "interrupted", "gone"}
Over  == {"stopped", "failed", "gone"}             \* of a probe run

\* A command in progress.  at: the step the thread is about to take; probe: the
\* handler found a probe run for the job.
Command == [at : {"idle", "lock", "admit", "exec", "enter", "inject", "track",
                  "stop", "untrack", "reset", "unwrap", "settle", "fail",
                  "mark", "clear"},
            kind : Kinds \cup {"interrupt", "probe_stop", "none"},
            client : Clients \cup {NoClient}, job : Jobs \cup {NoJob},
            probe : BOOLEAN]

Idle == [at |-> "idle", kind |-> "none", client |-> NoClient, job |-> NoJob,
         probe |-> FALSE]

Init ==
    /\ session = [c \in Clients |-> "new"]
    /\ fgjob = [c \in Clients |-> NoJob]
    /\ status = [j \in Jobs |-> "none"]
    /\ kind = [j \in Jobs |-> "none"]
    /\ owner = [j \in Jobs |-> NoClient]
    /\ mutex = NoThread
    /\ probe = [j \in Jobs |-> "none"]
    /\ tracked = {} /\ wrapped = {} /\ overlap = {} /\ reported = {}
    /\ th = [t \in Threads |-> Idle]

Goto(t, pc) == th' = [th EXCEPT ![t].at = pc]
Return(t)   == th' = [th EXCEPT ![t] = Idle]

-----------------------------------------------------------------------------
(* Client sessions *)

CreateClient(c) ==
    /\ session[c] = "new"
    /\ session' = [session EXCEPT ![c] = "open"]
    /\ UNCHANGED <<fgjob, status, kind, owner, mutex, probe, tracked, wrapped, overlap, reported, th>>

\* client.close removes the session with its pointer, whatever it is running.
CloseClient(c) ==
    /\ session[c] = "open"
    /\ session' = [session EXCEPT ![c] = "closed"]
    /\ fgjob' = [fgjob EXCEPT ![c] = NoJob]
    /\ UNCHANGED <<status, kind, owner, mutex, probe, tracked, wrapped, overlap, reported, th>>

\* cleanup_idle: only sessions that run nothing in the foreground.
IdleOut(c) ==
    /\ fgjob[c] = NoJob
    /\ CloseClient(c)

-----------------------------------------------------------------------------
(* _execute_command: admission *)

\* Mutated form: only a running job counts, a streaming one does not.
BusyRunning(c) == fgjob[c] # NoJob /\ status[fgjob[c]] = "running"

\* The session's foreground job is registered and not terminal.
Busy(c) == fgjob[c] # NoJob /\ status[fgjob[c]] \in Live

\* Up to the mutation lock.  A busy session is refused (JOB_ALREADY_RUNNING)
\* unless the command is a concurrent snapshot; an unknown session is not.
Request(t, k, c, j) ==
    /\ th[t] = Idle
    /\ <<t, k, c>> \in Sends
    /\ status[j] = "none" /\ \A u \in Threads : th[u].job # j
    /\ c # NoClient => session[c] # "new"
    /\ (c # NoClient /\ k # "concurrent") => (session[c] = "open" => ~Busy(c))
    /\ th' = [th EXCEPT ![t] = [at |-> IF k = "reset" THEN "lock" ELSE "admit",
                                kind |-> k, client |-> c, job |-> j, probe |-> FALSE]]
    /\ UNCHANGED <<session, fgjob, status, kind, owner, mutex, probe, tracked, wrapped, overlap, reported>>

\* Mutated form: the lock is taken though another thread holds it.
LockAnyway(t) ==
    /\ th[t].at = "lock"
    /\ mutex' = t
    /\ Goto(t, "admit")
    /\ UNCHANGED <<session, fgjob, status, kind, owner, probe, tracked, wrapped, overlap, reported>>

Lock(t) ==
    /\ th[t].at = "lock"
    /\ mutex = NoThread
    /\ mutex' = t
    /\ Goto(t, "admit")
    /\ UNCHANGED <<session, fgjob, status, kind, owner, probe, tracked, wrapped, overlap, reported>>

\* acquire(timeout=5.0) gives up: JOB_ALREADY_RUNNING, "mutation in progress".
LockTimeout(t) ==
    /\ th[t].at = "lock"
    /\ mutex # NoThread
    /\ Return(t)
    /\ UNCHANGED <<session, fgjob, status, kind, owner, mutex, probe, tracked, wrapped, overlap, reported>>

Starting(j) == \E t \in Threads : th[t].job = j /\ th[t].at \in {"enter", "inject", "track"}
\* A stop without an id, or a reset, between its two halves.
BulkStop(t) == th[t].at \in {"untrack", "unwrap"}

FirstStep(k) == CASE k = "start" -> "enter"
                  [] k = "stop"  -> "stop"
                  [] k = "reset" -> "reset"
                  [] OTHER       -> "exec"

\* job create, set_foreground_job, set_status(running).
Admit(t) ==
    /\ th[t].at = "admit"
    /\ LET j == th[t].job
           c == th[t].client
           k == th[t].kind
       IN  /\ status' = [status EXCEPT ![j] = "running"]
           /\ kind' = [kind EXCEPT ![j] = k]
           /\ owner' = [owner EXCEPT ![j] = c]
           /\ fgjob' = [d \in Clients |-> IF d = c /\ session[d] = "open" THEN j ELSE fgjob[d]]
           /\ overlap' = IF k = "start" /\ \E u \in Threads : BulkStop(u)
                         THEN overlap \cup {j} ELSE overlap
           /\ Goto(t, FirstStep(k))
    /\ UNCHANGED <<session, mutex, probe, tracked, wrapped, reported>>

-----------------------------------------------------------------------------
(* _execute_command: handler.execute *)

\* A snapshot: succeeds, returns an error or raises.
Execute(t) ==
    /\ th[t].at = "exec"
    /\ \E pc \in {"settle", "fail"} : Goto(t, pc)
    /\ UNCHANGED <<session, fgjob, status, kind, owner, mutex, probe, tracked, wrapped, overlap, reported>>

\* start: ProbeContext.__enter__ ...
Enter(t) ==
    /\ th[t].at = "enter"
    /\ probe' = [probe EXCEPT ![th[t].job] = "active"]
    /\ Goto(t, "inject")
    /\ UNCHANGED <<session, fgjob, status, kind, owner, mutex, tracked, wrapped, overlap, reported>>

\* ... injector.inject ...
Inject(t) ==
    /\ th[t].at = "inject"
    /\ wrapped' = wrapped \cup {th[t].job}
    /\ Goto(t, "track")
    /\ UNCHANGED <<session, fgjob, status, kind, owner, mutex, probe, tracked, overlap, reported>>

\* A context's exit: only an active probe run changes.
Exited(S, to) == [j \in Jobs |-> IF j \in S /\ probe[j] = "active" THEN to ELSE probe[j]]

\* Mutated form: the probe run of a failed injection is forgotten.
StillActive(S) == probe

\* The probe run of an injection that raised is marked failed.
Failed(S) == Exited(S, "failed")

\* inject raises: the target is not found, or its setattr is refused once the
\* wrapper is in the injector's registry, where it then stays.
InjectFails(t) ==
    /\ th[t].at = "inject"
    /\ \/ UNCHANGED <<wrapped, reported>>
       \/ /\ wrapped' = wrapped \cup {th[t].job}
          /\ reported' = reported \cup {th[t].job}
    /\ probe' = Failed({th[t].job})
    /\ Goto(t, "fail")
    /\ UNCHANGED <<session, fgjob, status, kind, owner, mutex, tracked, overlap>>

\* ... and track_probe_context.
Track(t) ==
    /\ th[t].at = "track"
    /\ tracked' = tracked \cup {th[t].job}
    /\ Goto(t, "settle")
    /\ UNCHANGED <<session, fgjob, status, kind, owner, mutex, probe, wrapped, overlap, reported>>

\* Mutated form: the context is stopped and the wrapper left in place.
ReleaseContext(j) ==
    /\ probe' = Exited(tracked \cap {j}, "stopped")
    /\ tracked' = tracked \ {j}
    /\ UNCHANGED wrapped

\* A handler's stop by id: uninject, then stop_probe_context.
Release(j) ==
    /\ wrapped' = wrapped \ {j}
    /\ probe' = Exited(tracked \cap {j}, "stopped")
    /\ tracked' = tracked \ {j}

\* The setattr that puts the original back raises: the registration is gone, and
\* the handler's other registries are not reached.
Unregister(j) ==
    /\ wrapped' = wrapped \ {j}
    /\ UNCHANGED <<probe, tracked>>

\* stop with an id; ValueError when the injector does not know it.  A target that
\* refused the wrapper refuses its original as well.
StopOne(t, j) ==
    /\ th[t].at = "stop"
    /\ \/ j \in wrapped /\ Release(j) /\ Goto(t, "settle")
       \/ j \in wrapped \cap reported /\ Unregister(j) /\ Goto(t, "fail")
       \/ j \notin wrapped /\ UNCHANGED <<probe, tracked, wrapped>> /\ Goto(t, "fail")
    /\ overlap' = IF Starting(j) THEN overlap \cup {j} ELSE overlap
    /\ UNCHANGED <<session, fgjob, status, kind, owner, mutex, reported>>

Disturbed == overlap \cup {j \in Jobs : Starting(j)}

\* One half of a stop of everything: the injector's wrappers, the contexts.
DropWrappers == wrapped' = {} /\ UNCHANGED <<probe, tracked>>
DropContexts == probe' = Exited(tracked, "stopped") /\ tracked' = {} /\ UNCHANGED wrapped

\* stop without an id: uninject_all, then stop_probe_contexts_by_type.  reset:
\* the contexts, then injector.reset.
StopAll(t) ==
    /\ \/ th[t].at = "stop"    /\ DropWrappers /\ Goto(t, "untrack")
       \/ th[t].at = "untrack" /\ DropContexts /\ Goto(t, "settle")
       \/ th[t].at = "reset"   /\ DropContexts /\ Goto(t, "unwrap")
       \/ th[t].at = "unwrap"  /\ DropWrappers /\ Goto(t, "settle")
    /\ overlap' = Disturbed
    /\ UNCHANGED <<session, fgjob, status, kind, owner, mutex, reported>>

\* A reset returns an error: before its first layer (an action it does not know,
\* a pattern it cannot match), or from injector.reset, the contexts being gone by
\* then and some wrappers not.
ResetFails(t) ==
    /\ \/ th[t].at = "reset" /\ UNCHANGED <<wrapped, reported>>
       \/ /\ th[t].at = "unwrap"
          /\ \E left \in SUBSET wrapped : wrapped' = left /\ reported' = reported \cup left
    /\ Goto(t, "fail")
    /\ overlap' = Disturbed
    /\ UNCHANGED <<session, fgjob, status, kind, owner, mutex, probe, tracked>>

-----------------------------------------------------------------------------
(* _execute_command: what follows the handler *)

\* set_status: refused unless the move is legal.
SetStatus(j, to) ==
    status' = [status EXCEPT ![j] =
                  IF @ = "running" \/ (@ = "streaming" /\ to # "streaming") THEN to ELSE @]

\* The handler succeeded: a start is left streaming, with the foreground slot.
Settle(t) ==
    /\ th[t].at = "settle"
    /\ IF th[t].kind = "start"
       THEN SetStatus(th[t].job, "streaming") /\ Return(t)
       ELSE SetStatus(th[t].job, "completed") /\ Goto(t, "clear")
    /\ UNCHANGED <<session, fgjob, kind, owner, mutex, probe, tracked, wrapped, overlap, reported>>

\* The handler returned an error or raised.
Fail(t) ==
    /\ th[t].at = "fail"
    /\ SetStatus(th[t].job, "failed")
    /\ Goto(t, "clear")
    /\ UNCHANGED <<session, fgjob, kind, owner, mutex, probe, tracked, wrapped, overlap, reported>>

\* Mutated form: the pointer is set to an empty id instead of None.
ClearedToEmpty(j) == [c \in Clients |-> IF c = owner[j] /\ fgjob[c] = j THEN NoClient ELSE fgjob[c]]

\* clear_foreground_job(expected_job_id=j).
Cleared(j) == [c \in Clients |-> IF c = owner[j] /\ fgjob[c] = j THEN NoJob ELSE fgjob[c]]

\* Mutated form: an error path that returns without the lock's release.
ClearOnly(t) ==
    /\ th[t].at = "clear"
    /\ fgjob' = Cleared(th[t].job)
    /\ mutex' = IF mutex = t /\ status[th[t].job] = "completed" THEN NoThread ELSE mutex
    /\ Return(t)
    /\ UNCHANGED <<session, status, kind, owner, probe, tracked, wrapped, overlap, reported>>

\* The foreground slot is given back, then the mutation lock.
Clear(t) ==
    /\ th[t].at = "clear"
    /\ fgjob' = Cleared(th[t].job)
    /\ mutex' = IF mutex = t THEN NoThread ELSE mutex
    /\ Return(t)
    /\ UNCHANGED <<session, status, kind, owner, probe, tracked, wrapped, overlap, reported>>

-----------------------------------------------------------------------------
(* job.interrupt and probe.stop *)

\* _stop_probe_resources: nothing to do for an untracked probe; a tracked one is
\* stopped by its handler, which fails when the injector does not know it.
StopResources(j) ==
    IF j \in tracked THEN j \in wrapped /\ Release(j)
    ELSE UNCHANGED <<probe, tracked, wrapped>>

Registered(j) == probe[j] \notin {"none", "gone"}

\* The thread goes on to end job j; found: it holds j's probe run.
Ending(t, k, j, found) ==
    th' = [th EXCEPT ![t] = [at |-> "mark", kind |-> k, client |-> NoClient, job |-> j,
                             probe |-> found]]

\* A live job of category "probe"; its probe run, if there is one by now.
Interrupt(t, j) ==
    /\ th[t] = Idle
    /\ status[j] \in Live
    /\ kind[j] \in {"start", "stop"}
    /\ IF Registered(j) THEN StopResources(j) ELSE UNCHANGED <<probe, tracked, wrapped>>
    /\ overlap' = IF Starting(j) THEN overlap \cup {j} ELSE overlap
    /\ Ending(t, "interrupt", j, Registered(j))
    /\ UNCHANGED <<session, fgjob, status, kind, owner, mutex, reported>>

\* A terminal probe run has no resources to stop: its job is finished all the same.
ProbeStop(t, j) ==
    /\ th[t] = Idle
    /\ Registered(j)
    /\ IF probe[j] = "active" THEN StopResources(j) ELSE UNCHANGED <<probe, tracked, wrapped>>
    /\ overlap' = IF Starting(j) THEN overlap \cup {j} ELSE overlap
    /\ Ending(t, "probe_stop", j, TRUE)
    /\ UNCHANGED <<session, fgjob, status, kind, owner, mutex, reported>>

\* Mutated form: the job ends and its session keeps pointing at it.
AfterMarkReturn(t) == Return(t)

\* The session's pointer goes next.
AfterMark(t) == Goto(t, "clear")

\* The probe run is stopped if it still runs, then the job ends if it still can.
\* probe.stop ends no job once the probe run is gone (_finish_probe_job).
Mark(t) ==
    /\ th[t].at = "mark"
    /\ LET j == th[t].job IN
          /\ probe' = IF th[t].probe THEN Exited({j}, "stopped") ELSE probe
          /\ IF status[j] \in Live /\ (th[t].kind = "probe_stop" => Registered(j))
             THEN /\ SetStatus(j, IF th[t].kind = "interrupt" THEN "interrupted" ELSE "completed")
                  /\ AfterMark(t)
             ELSE Return(t) /\ UNCHANGED status
    /\ UNCHANGED <<session, fgjob, kind, owner, mutex, tracked, wrapped, overlap, reported>>

-----------------------------------------------------------------------------
(* Retention: job cleanup and probe cleanup remove what is terminal *)

ForgetJob(j) ==
    /\ status[j] \in Ended \ {"gone"}
    /\ status' = [status EXCEPT ![j] = "gone"]
    /\ UNCHANGED <<session, fgjob, kind, owner, mutex, probe, tracked, wrapped, overlap, reported, th>>

ForgetProbe(j) ==
    /\ probe[j] \in Over \ {"gone"}
    /\ probe' = [probe EXCEPT ![j] = "gone"]
    /\ UNCHANGED <<session, fgjob, status, kind, owner, mutex, tracked, wrapped, overlap, reported, th>>

-----------------------------------------------------------------------------
\* A step of a command in progress.
Step(t) ==
    \/ Lock(t) \/ LockTimeout(t) \/ Admit(t)
    \/ Execute(t) \/ Enter(t) \/ Inject(t) \/ InjectFails(t) \/ Track(t)
    \/ \E j \in Jobs : StopOne(t, j)
    \/ StopAll(t) \/ ResetFails(t)
    \/ Settle(t) \/ Fail(t) \/ Mark(t) \/ Clear(t)

Next ==
    \/ \E c \in Clients : CreateClient(c) \/ CloseClient(c) \/ IdleOut(c)
    \/ \E t \in Threads :
          \/ \E k \in Kinds, c \in Clients \cup {NoClient}, j \in Jobs : Request(t, k, c, j)
          \/ \E j \in Jobs : Interrupt(t, j) \/ ProbeStop(t, j)
          \/ Step(t)
    \/ \E j \in Jobs : ForgetJob(j) \/ ForgetProbe(j)

\* Every thread goes on with its command: handlers are assumed to return.
Spec == Init /\ [][Next]_vars /\ \A t \in Threads : WF_vars(Step(t))

-----------------------------------------------------------------------------
(* Properties *)

\* Types of the registries.
TypeOK ==
    /\ session \in [Clients -> {"new", "open", "closed"}]
    /\ fgjob \in [Clients -> Jobs \cup {NoJob}]
    /\ status \in [Jobs -> {"none"} \cup Live \cup Ended]
    /\ kind \in [Jobs -> Kinds \cup {"none"}]
    /\ owner \in [Jobs -> Clients \cup {NoClient}]
    /\ mutex \in Threads \cup {NoThread}
    /\ probe \in [Jobs -> {"none", "active"} \cup Over]
    /\ tracked \subseteq Jobs /\ wrapped \subseteq Jobs
    /\ overlap \subseteq Jobs /\ reported \subseteq Jobs
    /\ th \in [Threads -> Command]
    /\ \A t \in Threads :
          /\ th[t].at # "idle" => th[t].job \in Jobs
          /\ th[t].at \in {"lock", "admit"} => th[t].kind \in Kinds

\* base.py: mutations are serialized.  From its lock to its release at most one
\* thread is in a reset.
InMutation(t) == th[t].kind = "reset" /\ th[t].at # "lock"
MutationsSerialized == \A t, u \in Threads : InMutation(t) /\ InMutation(u) => t = u

\* base.py's per-session foreground rule: an open session never has two live
\* foreground jobs of commands that do not allow concurrency.
Occupies(j, c) == owner[j] = c /\ status[j] \in Live /\ kind[j] # "concurrent"
OneForeground ==
    \A c \in Clients : session[c] = "open" =>
        \A i, j \in Jobs : Occupies(i, c) /\ Occupies(j, c) => i = j

\* A session is not held by a job that ended: what the pointer names is a live
\* job of that session, or a thread is about to clear it.
PointerLive ==
    \A c \in Clients : fgjob[c] # NoJob =>
        /\ owner[fgjob[c]] = c
        /\ \/ status[fgjob[c]] \in Live
           \/ \E t \in Threads : th[t].at = "clear" /\ th[t].job = fgjob[c]

\* At rest (the start has returned, no bulk stop is half done) a start's probe
\* run, context and wrapper agree, unless a stop came in while it was starting: an
\* active probe is in the target and can be stopped, and nothing is registered for
\* one that is over but what a command that failed (an injection after the
\* registration, a reset) has told its client of.
AtRest(j) == ~Starting(j) /\ \A t \in Threads : ~BulkStop(t)
ProbeMatchesWrapper ==
    \A j \in Jobs \ overlap : AtRest(j) =>
        /\ probe[j] = "active" <=> j \in tracked
        /\ probe[j] = "active" => j \in wrapped
        /\ j \in wrapped => probe[j] = "active" \/ j \in reported

\* A start whose job ended, by failure, interrupt or stop, has no probe running.
EndedJobHasNoProbe ==
    \A j \in Jobs \ overlap :
        kind[j] = "start" /\ status[j] \in Ended => probe[j] # "active"

\* docs/probe-lifecycle-model.md, invariant 3, for a stop at any time: no wrapper
\* stays in the target once its probe is stopped.
NoInactiveWrapper == \A j \in Jobs : AtRest(j) /\ probe[j] = "stopped" => j \notin wrapped

\* The mutation lock is always given back, after a failed reset too.
LockReleased == \A t \in Threads : mutex = t ~> mutex # t

=============================================================================
