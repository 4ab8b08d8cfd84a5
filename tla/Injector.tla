------------------------------ MODULE Injector ------------------------------
(***************************************************************************)
(* DecoratorInjector (peeka/core/injector.py and                           *)
(* peeka/core/instrumentation/{registry,target}.py): the wrappers that the *)
(* watch, trace and stack commands put around one function of the target   *)
(* process, and the ways they are taken off again.                         *)
(*                                                                         *)
(* The function is reachable under several names (Places): the attribute a *)
(* pattern names, and module globals that hold the same object.  A value   *)
(* stored in a place is the original function, or the wrapper of a probe,  *)
(* written here as the probe itself.                                       *)
(*                                                                         *)
(* inject() resolves its target and scans for aliases BEFORE it takes      *)
(* injector._lock, so an injection is three steps of its thread; a removal *)
(* holds the lock throughout and is one step.  reset() and                 *)
(* cleanup_orphan_watches() collect the ids in one critical section and    *)
(* remove them one by one in others.                                       *)
(***************************************************************************)
EXTENDS Naturals, TLC

CONSTANTS Threads,      \* command threads that may be inside the injector
          Probes,       \* watch/trace ids; an id is drawn once (uuid4)
          Places,       \* bindings (parent object, attribute) of the function
          ModuleGlobals,\* places an alias scan can see: globals of a module
          Late,         \* places the application binds while it runs
          Targets,      \* places that patterns name
          ReadOnly,     \* places whose setattr raises (built-in types)
          Exclusive,    \* TRUE: no other thread changes the registry during an
                        \* injection, as if _lock covered all of inject();
                        \* FALSE: the code, where it does not
          Orig,         \* the function as the application defined it
          NoFn          \* an unbound place

ASSUME ConstantsAssumption ==
    /\ ModuleGlobals \subseteq Places
    /\ Late \subseteq Places
    /\ Targets \subseteq Places
    /\ ReadOnly \subseteq Places
    /\ Orig \notin Probes
    /\ NoFn \notin Probes \cup {Orig}
    /\ Exclusive \in BOOLEAN
    /\ ReadOnly \cap ModuleGlobals = {}      \* module attributes can be set

VARIABLES place,        \* what each place is bound to
          instrumented, \* the probes registered in injector.instrumented
          info,         \* their info records; kept after removal as history
          wrapped,      \* __wrapped__ of every wrapper made (reassigned by relinks)
          pend          \* where each thread is inside the injector

vars == <<place, instrumented, info, wrapped, pend>>

Fn    == Probes \cup {Orig}
Made  == DOMAIN info    \* the probes that were ever installed

(***************************************************************************)
(* The info record of a probe.  original: what its wrapper calls, fixed at *)
(* creation.  group: wrapper_group_key, named by its place.  older: the    *)
(* probes installed before it, which is the insertion order of the         *)
(* instrumented dictionary.                                                *)
(***************************************************************************)
Info == [original : Fn, root : Fn, at : Places, aliases : SUBSET Places,
         group : Places, older : SUBSET Probes]

Idle == [op |-> "idle"]
Pend == {Idle}
        \cup [op : {"scan"}, probe : Probes, at : Places, target : Fn]
        \cup [op : {"install"}, probe : Probes, at : Places, target : Fn,
              aliases : SUBSET Places]
        \cup [op : {"remove"}, todo : SUBSET Probes]

Init ==
    /\ place = [pl \in Places |-> IF pl \in Late THEN NoFn ELSE Orig]
    /\ instrumented = {}
    /\ info = [p \in {} |-> 0]
    /\ wrapped = [p \in {} |-> 0]
    /\ pend = [t \in Threads |-> Idle]

-----------------------------------------------------------------------------
\* No exclusive injection of another thread stands in the way of t.
Injecting(t) == pend[t].op \in {"scan", "install"}
MayChange(t) == Exclusive => \A u \in Threads \ {t} : ~Injecting(u)

-----------------------------------------------------------------------------
(* inject() and inject_trace() *)

\* No thread is using the id p, now or before.
Fresh(p) ==
    /\ p \notin Made
    /\ \A t \in Threads : pend[t].op \in {"scan", "install"} => pend[t].probe # p

\* _resolve_target: read the attribute the pattern names.
Resolve(t, p, pl) ==
    /\ pend[t] = Idle
    /\ MayChange(t)
    /\ Fresh(p)
    /\ place[pl] # NoFn
    /\ pend' = [pend EXCEPT ![t] = [op |-> "scan", probe |-> p, at |-> pl,
                                    target |-> place[pl]]]
    /\ UNCHANGED <<place, instrumented, info, wrapped>>

\* _find_module_aliases: the other module globals that hold the same object.
AliasesOf(target, at) == {pl \in ModuleGlobals \ {at} : place[pl] = target}

Scan(t) ==
    /\ pend[t].op = "scan"
    /\ pend' = [pend EXCEPT ![t] =
                   [op |-> "install", probe |-> @.probe, at |-> @.at, target |-> @.target,
                    aliases |-> AliasesOf(@.target, @.at)]]
    /\ UNCHANGED <<place, instrumented, info, wrapped>>

\* Mutated form: root_original left unset for the first probe of a slot.
NewInfoWithoutRoot(r) ==
    LET shared == r.target \in instrumented
    IN  [original |-> r.target,
         root     |-> IF shared THEN info[r.target].root ELSE NoFn,
         at       |-> r.at,
         aliases  |-> r.aliases,
         group    |-> IF shared THEN info[r.target].group ELSE r.at,
         older    |-> Made]

\* What inject() stores: a target that is a registered wrapper makes the probe
\* join that wrapper's group (_get_active_wrapper_info).
NewInfo(r) ==
    LET shared == r.target \in instrumented
    IN  [original |-> r.target,
         root     |-> IF shared THEN info[r.target].root ELSE r.target,
         at       |-> r.at,
         aliases  |-> r.aliases,
         group    |-> IF shared THEN info[r.target].group ELSE r.at,
         older    |-> Made]

\* The critical section of inject(): register, then replace the attribute and
\* its aliases.  A setattr that raises leaves the registration behind.
Install(t) ==
    /\ pend[t].op = "install"
    /\ MayChange(t)
    /\ LET r == pend[t]
           p == r.probe
       IN  /\ info' = [q \in Made \cup {p} |-> IF q = p THEN NewInfo(r) ELSE info[q]]
           /\ wrapped' = [q \in Made \cup {p} |-> IF q = p THEN r.target ELSE wrapped[q]]
           /\ instrumented' = instrumented \cup {p}
           /\ place' = IF r.at \in ReadOnly THEN place
                       ELSE [pl \in Places |->
                               IF pl = r.at \/ pl \in r.aliases THEN p ELSE place[pl]]
    /\ pend' = [pend EXCEPT ![t] = Idle]

-----------------------------------------------------------------------------
(* uninject() and _restore_wrapper_stack() *)

\* _active_probe_infos_in_group, after p was popped from the registry.
Remaining(p) == {q \in instrumented \ {p} : info[q].group = info[p].group}

\* Mutated forms of the next definition: the function the removed wrapper closed
\* over, registered or not; the root, whatever is below; the newest probe left.
BelowOriginal(p) == info[p].original
BelowRoot(p)     == info[p].root
BelowNewest(p)   ==
    IF Remaining(p) = {} THEN info[p].root
    ELSE CHOOSE q \in Remaining(p) : Remaining(p) \ {q} \subseteq info[q].older

\* _live_previous_probe_wrapper: the wrapper p wraps if it is still registered
\* in the group, otherwise the root.
Below(p) == IF wrapped[p] \in Remaining(p) THEN wrapped[p] ELSE info[p].root

\* Mutated form: the place is written even where another probe is on top.
UncoveredAlways(p) ==
    [pl \in Places |-> IF pl = info[p].at \/ pl \in info[p].aliases
                       THEN Below(p) ELSE place[pl]]

\* The places after the removal of p: nothing is written unless p is on top of
\* the place it was installed at; then its aliases follow where p is on top.
Uncovered(p) ==
    [pl \in Places |->
        IF /\ place[info[p].at] = p
           /\ \/ pl = info[p].at
              \/ pl \in info[p].aliases /\ place[pl] = p
        THEN Below(p) ELSE place[pl]]

\* Mutated form: the links are left as they were.
NotRelinked(p) == wrapped

\* _relink_wrapped_chain: live wrappers of the group stop naming p.
Relinked(p) ==
    [q \in Made |-> IF q \in Remaining(p) /\ wrapped[q] = p THEN Below(p) ELSE wrapped[q]]

\* The body of uninject(), one critical section.
Remove(p) ==
    /\ instrumented' = instrumented \ {p}
    /\ place' = Uncovered(p)
    /\ wrapped' = Relinked(p)
    /\ UNCHANGED info

\* watch/trace/stack stop with an id; an unknown id changes nothing (ValueError).
Uninject(t, p) ==
    /\ pend[t] = Idle
    /\ MayChange(t)
    /\ p \in instrumented
    /\ Remove(p)
    /\ UNCHANGED pend

-----------------------------------------------------------------------------
(* uninject_all() *)

\* The first registered probe of each group restores the group's places; the
\* others of the group are skipped.
First(p) == \A q \in instrumented : info[q].group = info[p].group => q \notin info[p].older

\* The group restorers that write pl; the last of them to do so decides.
Restorers(pl) == {p \in instrumented : First(p) /\ (pl = info[p].at \/ pl \in info[p].aliases)}
Last(p, S)    == \A q \in S \ {p} : q \in info[p].older

UninjectAll(t) ==
    /\ pend[t] = Idle
    /\ MayChange(t)
    /\ instrumented # {}
    /\ place' \in [Places -> Fn \cup {NoFn}]
    /\ \A pl \in Places :
          IF Restorers(pl) = {} THEN place'[pl] = place[pl]
          ELSE \E p \in Restorers(pl) :
                  Last(p, Restorers(pl)) /\ place'[pl] = info[p].root
    /\ instrumented' = {}
    /\ UNCHANGED <<info, wrapped, pend>>

-----------------------------------------------------------------------------
(* reset() and cleanup_orphan_watches() *)

StartRemoving(t, S) ==
    /\ pend[t] = Idle
    /\ S # {}
    /\ pend' = [pend EXCEPT ![t] = [op |-> "remove", todo |-> S]]
    /\ UNCHANGED <<place, instrumented, info, wrapped>>

\* reset(): the probes whose stored pattern matches the filter.
Reset(t, names) == StartRemoving(t, {p \in instrumented : info[p].at \in names})

\* cleanup_orphan_watches(): probes whose owning session has been dead past its
\* grace period; which ones those are is the clock's and the sessions' business.
SweepOrphans(t, S) == StartRemoving(t, S)

\* One iteration of the removal loop, in registration order.  The id may be
\* gone by now: uninject() then raises and the loop goes on.
RemoveNext(t) ==
    /\ pend[t].op = "remove"
    /\ MayChange(t)
    /\ \E p \in pend[t].todo :
          /\ \A q \in pend[t].todo \ {p} : q \notin info[p].older
          /\ IF p \in instrumented THEN Remove(p)
             ELSE UNCHANGED <<place, instrumented, info, wrapped>>
          /\ pend' = [pend EXCEPT ![t] =
                         IF @.todo = {p} THEN Idle
                         ELSE [op |-> "remove", todo |-> @.todo \ {p}]]

-----------------------------------------------------------------------------
\* The application caches the function under another name: it reads one place
\* and stores what it finds (``from mod import f'', handler = mod.f).
Bind(y, pl) ==
    /\ y \in Late
    /\ place[y] = NoFn
    /\ place[pl] # NoFn
    /\ place' = [place EXCEPT ![y] = place[pl]]
    /\ UNCHANGED <<instrumented, info, wrapped, pend>>

Next ==
    \/ \E t \in Threads :
          \/ \E p \in Probes, pl \in Targets : Resolve(t, p, pl)
          \/ Scan(t)
          \/ Install(t)
          \/ \E p \in Probes : Uninject(t, p)
          \/ UninjectAll(t)
          \/ \E names \in SUBSET Targets : Reset(t, names)
          \/ \E S \in SUBSET instrumented : SweepOrphans(t, S)
          \/ RemoveNext(t)
    \/ \E y \in Late, pl \in Places : Bind(y, pl)

Spec == Init /\ [][Next]_vars

-----------------------------------------------------------------------------
(* Properties *)

\* Types of the injector's state.
TypeOK ==
    /\ place \in [Places -> Fn \cup {NoFn}]
    /\ Made \subseteq Probes
    /\ info \in [Made -> Info]
    /\ wrapped \in [Made -> Fn]
    /\ instrumented \subseteq Made
    /\ pend \in [Threads -> Pend]

\* Enforced invariant 1 (docs/enforced-invariants.md): once no probe is
\* registered, every place a probe was installed at or found as an alias holds
\* the application's own function again, whatever the order of starts, stops,
\* resets and sweeps.  (Names the application bound while a wrapper was in place
\* are a matter of their own.)
OriginalRestored ==
    instrumented = {} =>
        \A p \in Made : \A pl \in ({info[p].at} \cup info[p].aliases) \ Late :
            place[pl] = Orig

\* The wrappers a call through a function value runs, outermost first: each
\* wrapper calls the function it closed over.
Chain[f \in Made \cup {Orig}] == IF f = Orig THEN {} ELSE {f} \cup Chain[info[f].original]

\* The registered probes that see a call made through a place.
Observers(pl) == IF place[pl] = NoFn THEN {} ELSE Chain[place[pl]] \cap instrumented

\* Enforced invariant 2: a registered probe sees the calls made through the name
\* it was started on, however many probes were stacked on it or removed since.
LiveProbeSeesCalls == \A p \in instrumented : p \in Observers(info[p].at)

\* Enforced invariant 3: the __wrapped__ link of a registered wrapper leads to
\* the original or to another registered wrapper, never to a removed one.
NoDeadLink ==
    \A p \in instrumented : wrapped[p] \in instrumented \cup {Orig}

\* inspect.unwrap(), which classifies a target before it is wrapped, follows
\* __wrapped__ and would raise on a cycle: after any number of relinks a link
\* still leads to an older wrapper.
UnwrapTerminates ==
    \A p \in Made : wrapped[p] \in Probes => wrapped[p] \in info[p].older

\* The injector implements ProbeObservers: no start, stop, reset or sweep changes
\* what the probes it is not about see, on any name.
Abstract == INSTANCE ProbeObservers WITH observers <- [pl \in Places |-> Observers(pl)]
ObserversIndependent == Abstract!Spec

\* For model checking: probe ids and threads are interchangeable, and every checked
\* property is a safety property that treats them alike.
Interchangeable == Permutations(Probes) \cup Permutations(Threads)
=============================================================================
