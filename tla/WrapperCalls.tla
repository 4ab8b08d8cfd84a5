---------------------------- MODULE WrapperCalls ----------------------------
(***************************************************************************)
(* What happens when the application calls an instrumented function: the    *)
(* watch and stack wrappers (peeka/core/instrumentation/watch.py) and the   *)
(* trace wrapper (trace.py) of one function, stacked, called by several     *)
(* threads, recursively, while probes are removed.                          *)
(*                                                                         *)
(* A wrapper calls the function it was put around, whether that wrapper's   *)
(* probe is still registered or not; the slot leads to the newest one that  *)
(* is (Injector).  The condition is evaluated over names all calls of a      *)
(* probe share, so its outcome is any.  What an observation says, and who    *)
(* receives it, belongs to TraceBackends, ResultConsumers, ObservationStream.*)
(***************************************************************************)
EXTENDS Naturals, Sequences, FiniteSets

CONSTANTS CallThreads,
          Scenes,   \* chain of wrappers (the first on top), which may be removed,
                    \* depth of the body's recursion, whether formatting raises,
                    \* and, a bound, how many calls each thread makes
          Free

ASSUME CallAssumption ==
    /\ \A s \in Scenes :
          /\ s.chain \in Seq([kind : {"watch", "trace"}, limit : Nat, before : BOOLEAN])
          /\ s.removable \subseteq DOMAIN s.chain
          /\ s.depth \in Nat \ {0} /\ s.broken \in BOOLEAN /\ s.calls \in Nat
    /\ IsFiniteSet(CallThreads) /\ Free \notin CallThreads

VARIABLES scene,
          registered, \* the wrappers whose probes are in instrumented
          count,      \* count of each
          lock,       \* DecoratorInjector._lock: held across calls by trace only
          frames,     \* what each thread is in, the innermost last
          calls,      \* calls each thread has made
          asked,      \* history: calls of the function in the present one, ...
          run,        \* ... how often its body ran, ...
          want,       \* ... the outcome of the outermost body ...
          got         \* ... and the outcome the application saw

callVars == <<scene, registered, count, lock, frames, calls, asked, run, want, got>>
tally == <<asked, run, want, got>>

Bottom == Len(scene.chain) + 1

\* The wrapper on top of the slot, or the body.
Slot == CHOOSE n \in registered \cup {Bottom} : \A k \in registered : n <= k

NewFrame(n) == [n |-> n, at |-> IF n = Bottom THEN "body" ELSE "prepare",
                holds |-> FALSE, out |-> "none"]

Top(t) == frames[t][Len(frames[t])]
At(t) == IF frames[t] = <<>> THEN "idle" ELSE Top(t).at
Replaced(t, f) == [frames[t] EXCEPT ![Len(frames[t])] = f]

\* The frame goes on as f; or it calls on, and waits as f.
Become(t, f) == frames' = [frames EXCEPT ![t] = Replaced(t, f)]
Descend(t, f, n) == frames' = [frames EXCEPT ![t] = Append(Replaced(t, f), NewFrame(n))]

CallInit ==
    /\ scene \in Scenes
    /\ registered = DOMAIN scene.chain
    /\ count = [n \in DOMAIN scene.chain |-> 0]
    /\ lock = Free /\ frames = [t \in CallThreads |-> <<>>]
    /\ calls = [t \in CallThreads |-> 0] /\ asked = calls /\ run = calls
    /\ want = [t \in CallThreads |-> "none"] /\ got = want

-----------------------------------------------------------------------------
(* The wrappers *)

Probe(n) == scene.chain[n]

\* Mutated form: the limit is looked up, never compared.
NeverReached(n) == n \notin registered

\* The probe was removed, or has reached its limit.
PassesThrough(n) == \/ n \notin registered
                    \/ Probe(n).limit > 0 /\ count[n] >= Probe(n).limit

\* _prepare_call of a watch: the lock is given back before the function is called.
PrepareWatch(t) ==
    /\ At(t) = "prepare" /\ Probe(Top(t).n).kind = "watch" /\ lock = Free
    /\ LET f == Top(t)
       IN  \/ /\ PassesThrough(f.n)
              /\ Descend(t, [f EXCEPT !.at = "through"], f.n + 1)
           \/ /\ ~PassesThrough(f.n) /\ Probe(f.n).before
              /\ Become(t, [f EXCEPT !.at = "enter"])
           \/ /\ ~PassesThrough(f.n) /\ ~Probe(f.n).before
              /\ Descend(t, [f EXCEPT !.at = "below"], f.n + 1)
    /\ UNCHANGED <<scene, registered, count, lock, calls, tally>>

\* Stage 0 of a trace: when it passes the call through it does so under the lock.
TracePassesThrough(t) ==
    /\ At(t) = "prepare" /\ Probe(Top(t).n).kind = "trace" /\ lock = Free
    /\ PassesThrough(Top(t).n)
    /\ lock' = t
    /\ Descend(t, [Top(t) EXCEPT !.at = "through", !.holds = TRUE], Top(t).n + 1)
    /\ UNCHANGED <<scene, registered, count, calls, tally>>

\* The function is called by one of the backends, without the lock.
BeginTrace(t) ==
    /\ At(t) = "prepare" /\ Probe(Top(t).n).kind = "trace" /\ lock = Free
    /\ ~PassesThrough(Top(t).n)
    /\ Descend(t, [Top(t) EXCEPT !.at = "below"], Top(t).n + 1)
    /\ UNCHANGED <<scene, registered, count, lock, calls, tally>>

\* The condition does not hold.
SkipWatch(t) ==
    /\ At(t) \in {"enter", "after"} /\ Probe(Top(t).n).kind = "watch"
    /\ \/ At(t) = "enter" /\ Descend(t, [Top(t) EXCEPT !.at = "below"], Top(t).n + 1)
       \/ At(t) = "after" /\ Become(t, [Top(t) EXCEPT !.at = "leave"])
    /\ UNCHANGED <<scene, registered, count, lock, calls, tally>>

SkipTrace(t) ==
    /\ At(t) = "after" /\ Probe(Top(t).n).kind = "trace"
    /\ Become(t, [Top(t) EXCEPT !.at = "leave"])
    /\ UNCHANGED <<scene, registered, count, lock, calls, tally>>

\* The truth value of the instance is taken, by watch only, and raises.
Raises(n) == scene.broken /\ Probe(n).kind = "watch"

CountOf(n) == IF n \in registered THEN [count EXCEPT ![n] = @ + 1] ELSE count

\* send_observation: the count, in a critical section of its own, then the rest.
\* What raises in it before the call replaces the call; after a successful one
\* it is observed in its turn as the call's exception.
ObserveWatch(t) ==
    /\ At(t) \in {"enter", "after"} /\ Probe(Top(t).n).kind = "watch" /\ lock = Free
    /\ LET f == Top(t)
       IN  /\ count' = CountOf(f.n)
           /\ \/ /\ f.at = "enter" /\ ~Raises(f.n)
                 /\ Descend(t, [f EXCEPT !.at = "below"], f.n + 1)
              \/ /\ f.at = "after" /\ Raises(f.n) /\ f.out = "ok"
                 /\ Become(t, [f EXCEPT !.out = "exc"])
              \/ /\ f.at = "after" /\ ~(Raises(f.n) /\ f.out = "ok")
                 /\ Become(t, [f EXCEPT !.at = "leave"])
              \/ /\ f.at = "enter" /\ Raises(f.n)
                 /\ Become(t, [f EXCEPT !.at = "leave", !.out = "exc"])
    /\ UNCHANGED <<scene, registered, lock, calls, tally>>

\* A trace counts and sends after the call; the outcome is kept in the call tree.
ObserveTrace(t) ==
    /\ At(t) = "after" /\ Probe(Top(t).n).kind = "trace" /\ lock = Free
    /\ count' = CountOf(Top(t).n)
    /\ Become(t, [Top(t) EXCEPT !.at = "leave"])
    /\ UNCHANGED <<scene, registered, lock, calls, tally>>

-----------------------------------------------------------------------------
(* Calls and returns *)

\* Mutated form: the exception of a call is swallowed by the trace wrapper.
SwallowedBy(f, o) == [f EXCEPT !.at = IF f.at = "below" /\ o # "exit" THEN "after" ELSE "leave",
                               !.out = IF o = "exc" THEN "ok" ELSE o]

\* What a frame does with the outcome of the call it waits for: SystemExit and
\* the like are no Exception and pass every wrapper unobserved.
Resumed(f, o) == CASE f.at = "calling" -> [f EXCEPT !.at = "called"]
                   [] f.at = "below" /\ o # "exit" -> [f EXCEPT !.at = "after", !.out = o]
                   [] OTHER -> [f EXCEPT !.at = "leave", !.out = o]

Return(t, o) ==
    LET rest == SubSeq(frames[t], 1, Len(frames[t]) - 1)
    IN  IF rest = <<>>
        THEN frames' = [frames EXCEPT ![t] = <<>>] /\ got' = [got EXCEPT ![t] = o]
        ELSE /\ frames' = [frames EXCEPT ![t] =
                              [rest EXCEPT ![Len(rest)] = Resumed(rest[Len(rest)], o)]]
             /\ UNCHANGED got

\* Mutated form: the lock is given back on the normal way only.
KeptOnError(f) == IF f.holds /\ f.out = "ok" THEN Free ELSE lock

\* Leaving the with statement of stage 0 gives the lock back.
LockAfter(f) == IF f.holds THEN Free ELSE lock

Leave(t) ==
    /\ At(t) = "leave"
    /\ lock' = LockAfter(Top(t))
    /\ Return(t, Top(t).out)
    /\ UNCHANGED <<scene, registered, count, calls, asked, run, want>>

Bodies(t) == {i \in DOMAIN frames[t] : frames[t][i].n = Bottom}

\* The body ends: it returns, raises, or raises what is no Exception.
BodyEnds(t, o) ==
    /\ At(t) \in {"body", "called"}
    /\ run' = [run EXCEPT ![t] = @ + 1]
    /\ want' = IF Cardinality(Bodies(t)) = 1 THEN [want EXCEPT ![t] = o] ELSE want
    /\ Return(t, o)
    /\ UNCHANGED <<scene, registered, count, lock, calls, asked>>

\* The body calls the function again, at most once and scene.depth deep.
BodyRecurses(t) ==
    /\ At(t) = "body" /\ Cardinality(Bodies(t)) < scene.depth
    /\ asked' = [asked EXCEPT ![t] = @ + 1]
    /\ Descend(t, [Top(t) EXCEPT !.at = "calling"], Slot)
    /\ UNCHANGED <<scene, registered, count, lock, calls, run, want, got>>

Call(t) ==
    /\ At(t) = "idle" /\ calls[t] < scene.calls
    /\ calls' = [calls EXCEPT ![t] = @ + 1]
    /\ asked' = [asked EXCEPT ![t] = 1] /\ run' = [run EXCEPT ![t] = 0]
    /\ want' = [want EXCEPT ![t] = "none"]
    /\ frames' = [frames EXCEPT ![t] = <<NewFrame(Slot)>>]
    /\ UNCHANGED <<scene, registered, count, lock, got>>

\* uninject.
RemoveProbe(n) ==
    /\ n \in registered \cap scene.removable /\ lock = Free
    /\ registered' = registered \ {n}
    /\ UNCHANGED <<scene, count, lock, frames, calls, tally>>

StepOfCall(t) ==
    \/ PrepareWatch(t) \/ TracePassesThrough(t) \/ BeginTrace(t) \/ Leave(t)
    \/ SkipWatch(t) \/ SkipTrace(t) \/ ObserveWatch(t) \/ ObserveTrace(t)
    \/ BodyRecurses(t) \/ \E o \in {"ok", "exc", "exit"} : BodyEnds(t, o)

CallNext == \/ \E t \in CallThreads : Call(t) \/ StepOfCall(t)
            \/ \E n \in DOMAIN scene.chain : RemoveProbe(n)

\* Wrappers are the application's own threads: what runs in them goes on, and
\* the body is taken to return.
CallSpec == /\ CallInit /\ [][CallNext]_callVars
            /\ \A t \in CallThreads : WF_callVars(StepOfCall(t))

-----------------------------------------------------------------------------
(* Properties *)

Outcomes == {"none", "ok", "exc", "exit"}

CallTypeOK ==
    /\ scene \in Scenes /\ registered \subseteq DOMAIN scene.chain
    /\ count \in [DOMAIN scene.chain -> Nat] /\ lock \in CallThreads \cup {Free}
    /\ \A t \in CallThreads : \A i \in DOMAIN frames[t] :
          frames[t][i] \in [n : 1..Bottom, holds : BOOLEAN, out : Outcomes,
              at : {"prepare", "through", "enter", "below", "after", "leave",
                    "body", "calling", "called"}]
    /\ want \in [CallThreads -> Outcomes] /\ got \in [CallThreads -> Outcomes]

\* However many wrappers a call passes, removed or at their limit, observed or
\* not, the body runs once for every call and the application sees its outcome.
\* When an observation of it raises, it sees that, and the body runs at most once.
Transparent ==
    \A t \in CallThreads : (At(t) = "idle" /\ calls[t] > 0) =>
        \/ run[t] = asked[t] /\ got[t] = want[t]
        \/ scene.broken /\ run[t] <= asked[t] /\ got[t] \in {want[t], "exc"}

\* The observations one call of the wrapper counts.
PerCall(n) == 1 + (IF Probe(n).before THEN 1 ELSE 0) + (IF Raises(n) THEN 1 ELSE 0)

\* The limit is tested in one critical section and counted in another: it is
\* exceeded by the calls in progress when it is reached, and no more.
LimitOvershoot ==
    \A n \in DOMAIN scene.chain : Probe(n).limit > 0 =>
        count[n] <= Probe(n).limit - 1
                      + PerCall(n) * scene.depth * Cardinality(CallThreads)

\* A wrapper wants the lock that a trace further up in its own call holds.
SelfLocked(t) ==
    At(t) = "prepare" /\ \E i \in DOMAIN frames[t] : frames[t][i].holds

\* Every call of an instrumented function returns, unless it, or that of another
\* thread, waits for itself: a trace that is removed or at its limit calls on under
\* the lock, which is not reentrant, and a call that comes to a wrapper again below
\* (recursion, or a wrapper underneath) never gets it.  Nothing else blocks a call.
CallsReturn ==
    \A t \in CallThreads :
        (frames[t] # <<>>) ~> (frames[t] = <<>> \/ \E u \in CallThreads : SelfLocked(u))
=============================================================================
