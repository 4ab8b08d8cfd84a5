---------------------------- MODULE AgentTeardown ----------------------------
(***************************************************************************)
(* What a reset and the stop of an agent do to all that its commands have    *)
(* started (agent_control/lifecycle.py, commands/reset.py): handlers that own  *)
(* resources, tracked probe contexts and the injector's wrappers are three     *)
(* layers, each with its own list and its own lock, gone through one after the *)
(* other.  Each layer contains what fails in it, and the summary says so.      *)
(* A reset holds the mutation lock, as other mutations do; a stop on a signal   *)
(* or at exit does not, and watches start and stop beside both.                *)
(*                                                                         *)
(* How the monitor, top, memory and logger handlers end what they own is the   *)
(* subject of MonitorCycles, TopProfiler, MemoryTracing and LoggerLevels.      *)
(***************************************************************************)
EXTENDS FiniteSets

CONSTANTS WatchRuns,    \* watches, traces and stacks: a context and a wrapper each
          Goods,        \* what handlers own: monitors, the sampler, tracemalloc, levels
          OwnerOf,      \* the handler of each
          DetachOnly,   \* handlers with cleanup_scope DETACH_ONLY
          Contextual,   \* those of Goods that have a probe context
          Matched,      \* what the pattern of a reset matches
          Situations    \* the cases tried: what is there, and a reset, a stop or both

ASSUME TeardownAssumption ==
    /\ WatchRuns \cap Goods = {} /\ DOMAIN OwnerOf = Goods /\ Contextual \subseteq Goods
    /\ Matched \subseteq WatchRuns \cup Goods /\ "watch" \notin DetachOnly
    /\ Situations \subseteq (SUBSET (WatchRuns \cup Goods)) \X (SUBSET {"reset", "detach"})

VARIABLES stage,      \* away, new; of a watch entered, injected; tracked; stopping, ended
          works,      \* what of Goods is there
          wraps,      \* watches whose wrapper is in place
          inList,     \* injector.instrumented
          ctxs,       \* _probe_contexts, _probe_context_types
          activeRun,  \* those whose probe run is active
          task,       \* of the reset and the stop: where it is, what it has to do still
          summary,    \* cleanup_summary of each: the errors of its layers, step_errors
          standing,   \* history: what there was when each began
          touched,    \* history: what the reset has ended
          unrestored  \* history: wrappers that uninject_all could not take away

layers == <<works, wraps, inList, ctxs, activeRun>>
tasks == <<task, summary, standing>>
teardownVars == <<stage, layers, tasks, touched, unrestored>>

Tasks == {"reset", "detach"}
Things == WatchRuns \cup Goods
Owners == {OwnerOf[x] : x \in Goods}
Kind(x) == IF x \in WatchRuns THEN "watch" ELSE OwnerOf[x]

Unasked == [at |-> "no", todo |-> {}, kinds |-> {}, scope |-> {}]
NoErrors == [owners |-> {}, contexts |-> {}, wrappers |-> {}, steps |-> {}]

TeardownInit ==
    /\ \E situation \in Situations :
          /\ stage = [x \in Things |-> IF x \in situation[1] THEN "new" ELSE "away"]
          /\ task = [k \in Tasks |-> [Unasked EXCEPT !.at = IF k \in situation[2] THEN "no" ELSE "never"]]
    /\ works = {} /\ wraps = {} /\ inList = {} /\ ctxs = {} /\ activeRun = {}
    /\ summary = [k \in Tasks |-> NoErrors]
    /\ standing = [k \in Tasks |-> {}] /\ touched = {} /\ unrestored = {}

-----------------------------------------------------------------------------
(* The commands meanwhile *)

Reaches(x, at) == stage' = [stage EXCEPT ![x] = at]

\* A watch begins in three steps, each with a lock of its own ...
EnterContext(w) ==
    /\ stage[w] = "new" /\ Reaches(w, "entered") /\ activeRun' = activeRun \cup {w}
    /\ UNCHANGED <<works, wraps, inList, ctxs, tasks, touched, unrestored>>

InjectWatch(w) ==
    /\ stage[w] = "entered" /\ Reaches(w, "injected")
    /\ wraps' = wraps \cup {w} /\ inList' = inList \cup {w}
    /\ UNCHANGED <<works, ctxs, activeRun, tasks, touched, unrestored>>

TrackWatch(w) ==
    /\ stage[w] = "injected" /\ Reaches(w, "tracked") /\ ctxs' = ctxs \cup {w}
    /\ UNCHANGED <<works, wraps, inList, activeRun, tasks, touched, unrestored>>

\* ... and ends in two; one that is not listed is an error, and nothing else happens.
UninjectWatch(w) ==
    /\ stage[w] = "tracked" /\ w \in inList /\ Reaches(w, "stopping")
    /\ wraps' = wraps \ {w} /\ inList' = inList \ {w}
    /\ UNCHANGED <<works, ctxs, activeRun, tasks, touched, unrestored>>

CloseContext(w) ==
    /\ stage[w] = "stopping" /\ Reaches(w, "ended") /\ ctxs' = ctxs \ {w}
    /\ activeRun' = IF w \in ctxs THEN activeRun \ {w} ELSE activeRun
    /\ UNCHANGED <<works, wraps, inList, tasks, touched, unrestored>>

\* What a handler starts is there before its thread tracks a context.
StartOwned(x) ==
    /\ stage[x] = "new" /\ Reaches(x, "started") /\ works' = works \cup {x}
    /\ UNCHANGED <<wraps, inList, ctxs, activeRun, tasks, touched, unrestored>>

TrackOwned(x) ==
    /\ x \in Contextual \cap works /\ stage[x] = "started" /\ Reaches(x, "tracked")
    /\ ctxs' = ctxs \cup {x} /\ activeRun' = activeRun \cup {x}
    /\ UNCHANGED <<works, wraps, inList, tasks, touched, unrestored>>

-----------------------------------------------------------------------------
(* The first layer: the handlers that own something *)

Standing == {w \in WatchRuns : stage[w] = "tracked"}
            \cup {x \in works : x \in Contextual => stage[x] = "tracked"}

\* A handler is made by its first command.
Handlers == {OwnerOf[x] : x \in {y \in Goods : stage[y] \notin {"away", "new"}}}

NotMeant(k) == IF k = "reset" THEN DetachOnly ELSE {}

BeginReset(scope) ==
    /\ task["reset"].at = "no"
    /\ task' = [task EXCEPT !["reset"] = [Unasked EXCEPT !.at = "owners", !.scope = scope, !.todo = Handlers]]
    /\ standing' = [standing EXCEPT !["reset"] = Standing]
    /\ UNCHANGED <<stage, layers, summary, touched, unrestored>>

TrackedKinds == {Kind(x) : x \in ctxs}

\* The types of the contexts are asked for before anything is stopped.
BeginDetach ==
    /\ task["detach"].at = "no"
    /\ task' = [task EXCEPT !["detach"] = [at |-> "owners", todo |-> Handlers, scope |-> Things,
                                              kinds |-> TrackedKinds]]
    /\ standing' = [standing EXCEPT !["detach"] = Standing]
    /\ UNCHANGED <<stage, layers, summary, touched, unrestored>>

GoesTo(k, at, todo) == task' = [task EXCEPT ![k].at = at, ![k].todo = todo]
Done(k, x) == GoesTo(k, task[k].at, task[k].todo \ {x})
Errs(k, layer, what) == summary' = [summary EXCEPT ![k][layer] = @ \cup what]

\* stop_active_resources: what it could not end, it answers or raises.
StopOwner(k, o) ==
    /\ task[k].at = "owners" /\ o \in task[k].todo /\ Done(k, o)
    /\ LET asked == {x \in works \cap task[k].scope : OwnerOf[x] = o}
       IN \E ended \in SUBSET asked :
             /\ works' = works \ ended /\ ctxs' = ctxs \ ended
             /\ activeRun' = activeRun \ ended
             /\ Errs(k, "owners", IF ended = asked THEN {} ELSE {o})
             /\ touched' = IF k = "reset" THEN touched \cup ended ELSE touched
    /\ UNCHANGED <<stage, wraps, inList, standing, unrestored>>

\* A stop has every handler end what it owns, a reset only those it is meant for.
StopForDetach(o) == StopOwner("detach", o)
StopForReset(o) == o \notin DetachOnly /\ StopOwner("reset", o)

-----------------------------------------------------------------------------
(* The second: probe contexts *)

\* A reset leaves the contexts of handlers that only a detach ends.
ResetContexts == {x \in ctxs \cap task["reset"].scope : Kind(x) \notin DetachOnly}
DetachContexts == {x \in ctxs : Kind(x) \in task["detach"].kinds}

ChooseContexts(k) ==
    /\ task[k].at = "owners" /\ task[k].todo \subseteq NotMeant(k)
    /\ GoesTo(k, "contexts", IF k = "reset" THEN ResetContexts ELSE DetachContexts)
    /\ UNCHANGED <<stage, layers, summary, standing, touched, unrestored>>

\* stop_probe_context: forgotten first; its end may raise.
StopContext(k, x) ==
    /\ task[k].at = "contexts" /\ x \in task[k].todo /\ Done(k, x)
    /\ ctxs' = ctxs \ {x} /\ touched' = (IF k = "reset" THEN touched \cup (ctxs \cap {x}) ELSE touched)
    /\ \/ activeRun' = (IF x \in ctxs THEN activeRun \ {x} ELSE activeRun)
          /\ UNCHANGED summary
       \/ x \in ctxs /\ Errs(k, "contexts", {x}) /\ UNCHANGED activeRun
    /\ UNCHANGED <<stage, works, wraps, inList, standing, unrestored>>

-----------------------------------------------------------------------------
(* The third: the injector *)

\* injector.reset chooses under the lock, and takes it again for each.
ChooseWrappers ==
    /\ task["reset"].at = "contexts" /\ task["reset"].todo = {}
    /\ GoesTo("reset", "wrappers", inList \cap task["reset"].scope)
    /\ UNCHANGED <<stage, layers, summary, standing, touched, unrestored>>

\* uninject takes it off the list first.
ResetWrapper(w) ==
    /\ task["reset"].at = "wrappers" /\ w \in task["reset"].todo /\ Done("reset", w)
    /\ inList' = inList \ {w} /\ touched' = touched \cup (inList \cap {w})
    /\ \/ wraps' = (IF w \in inList THEN wraps \ {w} ELSE wraps) /\ UNCHANGED summary
       \/ Errs("reset", "wrappers", {w}) /\ UNCHANGED wraps
    /\ UNCHANGED <<stage, works, ctxs, activeRun, standing, unrestored>>

ResetOver ==
    /\ task["reset"].at = "wrappers" /\ task["reset"].todo = {} /\ GoesTo("reset", "over", {})
    /\ UNCHANGED <<stage, layers, summary, standing, touched, unrestored>>

\* uninject_all: one critical section; what it cannot restore, it does not tell.
UninjectAll ==
    /\ task["detach"].at = "contexts" /\ task["detach"].todo = {} /\ GoesTo("detach", "orphans", {})
    /\ \E kept \in SUBSET inList :
          wraps' = (wraps \ inList) \cup kept /\ unrestored' = unrestored \cup kept
    /\ inList' = {}
    /\ UNCHANGED <<stage, works, ctxs, activeRun, summary, standing, touched>>

\* cleanup_orphan_watches: of what came since, the watches without a live session.  What
\* comes between (the observer's counters, ended probe runs) is in none of the layers.
SweepOrphans ==
    /\ task["detach"].at = "orphans" /\ GoesTo("detach", "over", {})
    /\ \E orphans \in SUBSET inList : wraps' = wraps \ orphans /\ inList' = inList \ orphans
    /\ UNCHANGED <<stage, works, ctxs, activeRun, summary, standing, touched, unrestored>>

\* run_step: a step that raises is given up where it is, and the next one begins.
StepRaises ==
    LET at == task["detach"].at IN
    /\ Errs("detach", "steps", {at})
    /\ \/ at = "owners" /\ GoesTo("detach", "contexts", DetachContexts)
       \/ at = "contexts" /\ task["detach"].todo # {} /\ GoesTo("detach", "contexts", {})
       \/ at = "orphans" /\ GoesTo("detach", "over", {})
    /\ UNCHANGED <<stage, layers, standing, touched, unrestored>>

ResetStep ==
    \/ \E scope \in {Things, Matched} : BeginReset(scope)
    \/ (\E o \in Owners : StopForReset(o)) \/ ChooseContexts("reset")
    \/ (\E x \in Things : StopContext("reset", x)) \/ ChooseWrappers
    \/ (\E w \in WatchRuns : ResetWrapper(w)) \/ ResetOver

DetachStep ==
    \/ BeginDetach
    \/ (\E o \in Owners : StopForDetach(o)) \/ ChooseContexts("detach")
    \/ (\E x \in Things : StopContext("detach", x))
    \/ UninjectAll \/ SweepOrphans \/ StepRaises

TeardownNext ==
    \/ \E w \in WatchRuns : \/ EnterContext(w) \/ InjectWatch(w) \/ TrackWatch(w)
                             \/ UninjectWatch(w) \/ CloseContext(w)
    \/ \E x \in Goods : StartOwned(x) \/ TrackOwned(x)
    \/ ResetStep \/ DetachStep

TeardownSpec == TeardownInit /\ [][TeardownNext]_teardownVars

-----------------------------------------------------------------------------
(* Properties *)

TeardownTypeOK ==
    /\ works \subseteq Goods /\ wraps \cup inList \cup unrestored \subseteq WatchRuns
    /\ ctxs \cup activeRun \cup touched \subseteq Things
    /\ \A k \in Tasks : /\ task[k].at \in {"never", "no", "owners", "contexts", "wrappers",
                                            "orphans", "over"}
                        /\ summary[k].owners \subseteq Owners /\ standing[k] \subseteq Things

\* Of what there was when a reset or the stop began, and is in its scope, nothing is
\* left in any layer but what the summary names: a handler, a context, a wrapper, or a
\* step that was given up.  One exception: what uninject_all could not restore.
LeftoversTold ==
    \A k \in Tasks : task[k].at = "over" =>
       \A x \in standing[k] \cap task[k].scope :
          /\ x \in works => \/ k = "reset" /\ Kind(x) \in DetachOnly
                            \/ Kind(x) \in summary[k].owners \/ "owners" \in summary[k].steps
          /\ x \in ctxs => (k = "reset" /\ Kind(x) \in DetachOnly)
                              \/ "contexts" \in summary[k].steps
          /\ x \in activeRun => x \in ctxs \/ \E any \in Tasks : x \in summary[any].contexts
          /\ x \notin inList
          /\ x \in wraps => x \in unrestored \cup summary["reset"].wrappers

\* A reset ends what its pattern matches, never what only a detach may end.
ResetScoped ==
    \A x \in touched : x \in task["reset"].scope /\ Kind(x) \notin DetachOnly

TeardownSound == LeftoversTold /\ ResetScoped
=============================================================================
