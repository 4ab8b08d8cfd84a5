----------------------------- MODULE TopProfiler -----------------------------
(***************************************************************************)
(* The sampling profiler (peeka/commands/top.py).  start and stop are        *)
(* commands of any connection (snapshots do not take the mutation lock); a   *)
(* start makes a sampling thread and, to stream, an observation thread, and  *)
(* all of them share one stop event.  stop waits for them outside the lock.  *)
(*                                                                         *)
(* Of the statistics one function is kept, which may be on the stacks of two *)
(* threads of the application.  The runs are numbered as they start.         *)
(***************************************************************************)
EXTENDS Naturals, FiniteSets

CONSTANTS TopCommands, \* connections that send top commands, and the detach
          MaxTops,     \* bound: runs started
          MaxSamples,  \* bound: samples of one run
          SlowThreads  \* TRUE: a join may time out after its 2 s

ASSUME TopAssumption == MaxTops \in Nat /\ MaxSamples \in Nat /\ SlowThreads \in BOOLEAN

Tops == 1..MaxTops
NoTop == 0

VARIABLES stopEvent,
          sampling,   \* _sampling_thread, by the number of its run
          observing,  \* _observation_thread
          topId,      \* _top_id
          samplers,   \* the sampling threads: none, ready, walking, done
          observers,  \* the observation threads: none, new, looping, done
          contexts,   \* tracked probe contexts, by the id they are tracked under
          command,    \* where each connection's stop is, and whom it waits for
          counted,    \* total_count and total_samples
          inSample,   \* samplers that have counted the function in this sample
          overlapped  \* history: a run started while a stop was not done with
                      \* the one before, or a join timed out

threads == <<samplers, observers, contexts>>
fields == <<stopEvent, sampling, observing, topId>>
statistics == <<counted, inSample>>
topVars == <<fields, threads, command, statistics, overlapped>>

Alive(n) == n # NoTop /\ samplers[n] \in {"ready", "walking"}
ObserverAlive(n) == n # NoTop /\ observers[n] \in {"new", "looping"}

TopInit ==
    /\ stopEvent = FALSE /\ sampling = NoTop /\ observing = NoTop /\ topId = NoTop
    /\ samplers = [n \in Tops |-> "none"] /\ observers = samplers /\ contexts = {}
    /\ command = [k \in TopCommands |-> [at |-> "idle", for |-> NoTop]]
    /\ counted = [total |-> 0, samples |-> 0] /\ inSample = {}
    /\ overlapped = FALSE

-----------------------------------------------------------------------------
(* Commands *)

Stopping == {k \in TopCommands : command[k].at # "idle"}

\* Mutated form: any start makes threads of its own.
NeverRunning == FALSE

\* A start that finds the profiler running changes nothing.
AlreadyRunning == Alive(sampling)

StartTop(k, n, stream) ==
    /\ command[k].at = "idle" /\ ~AlreadyRunning
    /\ samplers[n] = "none" /\ \A m \in Tops : m < n => samplers[m] # "none"
    /\ topId' = n /\ sampling' = n /\ stopEvent' = FALSE
    /\ samplers' = [samplers EXCEPT ![n] = "ready"]
    /\ observing' = IF stream THEN n ELSE observing
    /\ observers' = IF stream THEN [observers EXCEPT ![n] = "new"] ELSE observers
    /\ counted' = [total |-> 0, samples |-> 0]
    /\ overlapped' = (overlapped \/ Stopping # {})
    /\ UNCHANGED <<contexts, command, inSample>>

\* stop, up to the end of its first critical section; stop_active_resources
\* does nothing unless there is a _top_id.
SignalStop(k, cleanup) ==
    /\ command[k].at = "idle" /\ Alive(sampling) /\ (cleanup => topId # NoTop)
    /\ stopEvent' = TRUE
    /\ command' = [command EXCEPT ![k].at = "signalled"]
    /\ UNCHANGED <<sampling, observing, topId, threads, statistics, overlapped>>

Goto(k, at, for) == command' = [command EXCEPT ![k] = [at |-> at, for |-> for]]

\* The two joins look their threads up without the lock, and wait 2 s at most.
JoinSampler(k) ==
    /\ command[k].at = "signalled"
    /\ Goto(k, "sampler", sampling)
    /\ UNCHANGED <<fields, threads, statistics, overlapped>>

JoinObserver(k) ==
    /\ command[k].at = "sampler" /\ (Alive(command[k].for) => SlowThreads)
    /\ Goto(k, "observer", observing)
    /\ overlapped' = (overlapped \/ Alive(command[k].for))
    /\ UNCHANGED <<fields, threads, statistics>>

JoinedBoth(k) ==
    /\ command[k].at = "observer" /\ (ObserverAlive(command[k].for) => SlowThreads)
    /\ Goto(k, "clean", NoTop)
    /\ overlapped' = (overlapped \/ ObserverAlive(command[k].for))
    /\ UNCHANGED <<fields, threads, statistics>>

CleanUp(k) ==
    /\ command[k].at = "clean"
    /\ sampling' = NoTop /\ observing' = NoTop /\ topId' = NoTop
    /\ Goto(k, "idle", NoTop)
    /\ UNCHANGED <<stopEvent, threads, statistics, overlapped>>

\* reset.
ResetStatistics ==
    /\ counted' = [total |-> 0, samples |-> 0] /\ counted' # counted
    /\ UNCHANGED <<fields, threads, command, inSample, overlapped>>

-----------------------------------------------------------------------------
(* The threads *)

\* The loop's test, and the wait at its end, which returns at once when the event
\* is set.
SamplerEnds(n) ==
    /\ samplers[n] = "ready" /\ stopEvent
    /\ samplers' = [samplers EXCEPT ![n] = "done"]
    /\ UNCHANGED <<fields, observers, contexts, command, statistics, overlapped>>

\* Bound: MaxSamples, and none once a start has overtaken a stop.
BeginSample(n) ==
    /\ samplers[n] = "ready" /\ ~stopEvent /\ counted.samples < MaxSamples /\ ~overlapped
    /\ samplers' = [samplers EXCEPT ![n] = "walking"]
    /\ inSample' = inSample \ {n}
    /\ UNCHANGED <<fields, observers, contexts, command, counted, overlapped>>

\* total_count goes up once per sample, however many frames are in the function.
FirstSeen(n) == n \notin inSample

CountFrame(n) ==
    /\ samplers[n] = "walking" /\ FirstSeen(n)
    /\ counted.total <= counted.samples + 2
    /\ counted' = [counted EXCEPT !.total = @ + 1]
    /\ inSample' = inSample \cup {n}
    /\ UNCHANGED <<fields, threads, command, overlapped>>

EndSample(n) ==
    /\ samplers[n] = "walking"
    /\ counted' = [counted EXCEPT !.samples = @ + 1]
    /\ samplers' = [samplers EXCEPT ![n] = "ready"]
    /\ inSample' = inSample \ {n}
    /\ UNCHANGED <<fields, observers, contexts, command, overlapped>>

\* The observation thread enters its probe context and tracks it under _top_id.
ObserverBegins(n) ==
    /\ observers[n] = "new"
    /\ observers' = [observers EXCEPT ![n] = IF topId = NoTop THEN "done" ELSE "looping"]
    /\ contexts' = contexts \cup ({topId} \ {NoTop})
    /\ UNCHANGED <<fields, samplers, command, statistics, overlapped>>

\* untrack_probe_context, of the _top_id there is by then.
Untracked(n) == contexts \ {topId}

\* The event is set, or the probe was stopped (probe.stop, job.interrupt).
ObserverEnds(n) ==
    /\ observers[n] = "looping"
    /\ observers' = [observers EXCEPT ![n] = "done"]
    /\ contexts' = Untracked(n)
    /\ UNCHANGED <<fields, samplers, command, statistics, overlapped>>

ThreadSteps(n) ==
    \/ SamplerEnds(n) \/ BeginSample(n) \/ CountFrame(n) \/ EndSample(n)
    \/ ObserverBegins(n) \/ ObserverEnds(n)

StopSteps(k) == JoinSampler(k) \/ JoinObserver(k) \/ JoinedBoth(k) \/ CleanUp(k)

TopNext ==
    \/ \E k \in TopCommands :
          \/ \E n \in Tops, stream \in BOOLEAN : StartTop(k, n, stream)
          \/ \E cleanup \in BOOLEAN : SignalStop(k, cleanup)
          \/ StopSteps(k)
    \/ ResetStatistics
    \/ \E n \in Tops : ThreadSteps(n)

TopSpec == TopInit /\ [][TopNext]_topVars

-----------------------------------------------------------------------------
(* Properties *)

TopTypeOK ==
    /\ {sampling, observing, topId} \subseteq 0..MaxTops
    /\ samplers \in [Tops -> {"none", "ready", "walking", "done"}]
    /\ observers \in [Tops -> {"none", "new", "looping", "done"}]
    /\ contexts \subseteq Tops /\ inSample \subseteq Tops
    /\ counted.total <= MaxSamples + 3 /\ counted.samples <= MaxSamples + MaxTops

\* A thread that runs can be found, by the next stop or by a detach, and so can
\* the context of one that streams; unless a start overtook a stop, which then
\* forgets the threads of the new run.
TopStoppable ==
    overlapped \/ \A n \in Tops :
        /\ Alive(n) => sampling = n
        /\ ObserverAlive(n) => observing = n
        /\ n \in contexts => ObserverAlive(n)
=============================================================================
