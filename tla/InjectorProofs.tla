--------------------------- MODULE InjectorProofs ---------------------------
(***************************************************************************)
(* Theorems about Injector, for any number of threads, probes and places.  *)
(***************************************************************************)
EXTENDS Injector, FiniteSetTheorems, WellFoundedInduction, TLAPS

USE DEF Idle

\* A thread's place in the injector determines the fields of its pend record.
LEMMA PendShape ==
    ASSUME TypeOK, NEW t \in Threads
    PROVE  /\ pend[t].op \in {"idle", "scan", "install", "remove"}
           /\ pend[t].op = "idle" <=> pend[t] = Idle
           /\ pend[t].op = "scan" =>
                 /\ pend[t] = [op |-> "scan", probe |-> pend[t].probe, at |-> pend[t].at,
                               target |-> pend[t].target]
                 /\ pend[t].probe \in Probes
                 /\ pend[t].at \in Places
                 /\ pend[t].target \in Fn
           /\ pend[t].op = "install" =>
                 /\ pend[t] = [op |-> "install", probe |-> pend[t].probe, at |-> pend[t].at,
                               target |-> pend[t].target, aliases |-> pend[t].aliases]
                 /\ pend[t].probe \in Probes
                 /\ pend[t].at \in Places
                 /\ pend[t].target \in Fn
                 /\ pend[t].aliases \subseteq Places
           /\ pend[t].op = "remove" =>
                 /\ pend[t] = [op |-> "remove", todo |-> pend[t].todo]
                 /\ pend[t].todo \subseteq Probes
<1>1. pend[t] \in Pend
  BY DEF TypeOK
<1>2. CASE pend[t] = Idle
  BY <1>2
<1>3. CASE pend[t] \in [op : {"scan"}, probe : Probes, at : Places, target : Fn]
  BY <1>3
<1>4. CASE pend[t] \in [op : {"install"}, probe : Probes, at : Places, target : Fn,
                        aliases : SUBSET Places]
  BY <1>4
<1>5. CASE pend[t] \in [op : {"remove"}, todo : SUBSET Probes]
  BY <1>5
<1>6. QED
  BY <1>1, <1>2, <1>3, <1>4, <1>5 DEF Pend

-----------------------------------------------------------------------------
(* Type correctness *)

LEMMA TypeInit == Init => TypeOK
  BY ConstantsAssumption DEF Init, TypeOK, Made, Fn, Pend

\* A removal preserves the types of the state it writes.
LEMMA RemoveType ==
    ASSUME TypeOK, NEW p \in instrumented, Remove(p)
    PROVE  /\ place' \in [Places -> Fn \cup {NoFn}]
           /\ info' = info
           /\ wrapped' \in [Made -> Fn]
           /\ instrumented' \subseteq Made
           /\ Below(p) \in Fn
<1>1. Below(p) \in Fn
  BY DEF TypeOK, Below, Remaining, Info
<1>2. QED
  BY <1>1 DEF TypeOK, Remove, Uncovered, Relinked

LEMMA TypeStep == TypeOK /\ [Next]_vars => TypeOK'
<1> SUFFICES ASSUME TypeOK, [Next]_vars PROVE TypeOK'
  OBVIOUS
<1>1. ASSUME NEW t \in Threads, NEW p \in Probes, NEW pl \in Targets, Resolve(t, p, pl)
      PROVE  TypeOK'
  <2>1. pl \in Places /\ place[pl] \in Fn
    BY <1>1, ConstantsAssumption DEF Resolve, TypeOK
  <2>2. pend' \in [Threads -> Pend]
    BY <1>1, <2>1 DEF Resolve, TypeOK, Pend
  <2> QED
    BY <1>1, <2>2 DEF Resolve, TypeOK, Made
<1>2. ASSUME NEW t \in Threads, Scan(t) PROVE TypeOK'
  <2>1. AliasesOf(pend[t].target, pend[t].at) \subseteq Places
    BY ConstantsAssumption DEF AliasesOf
  <2>2. pend' \in [Threads -> Pend]
    BY <1>2, <2>1, PendShape DEF Scan, TypeOK, Pend
  <2> QED
    BY <1>2, <2>2 DEF Scan, TypeOK, Made
<1>3. ASSUME NEW t \in Threads, Install(t) PROVE TypeOK'
  <2> DEFINE r == pend[t]
  <2>1. /\ r.probe \in Probes /\ r.at \in Places /\ r.target \in Fn
        /\ r.aliases \subseteq Places
    BY <1>3, PendShape DEF Install
  <2>2. NewInfo(r) \in Info
    BY <2>1 DEF NewInfo, Info, TypeOK
  <2>3. Made' = Made \cup {r.probe} /\ info' \in [Made' -> Info]
    BY <1>3, <2>2 DEF Install, TypeOK, Made
  <2>4. wrapped' \in [Made' -> Fn] /\ instrumented' \subseteq Made'
    BY <1>3, <2>1, <2>3 DEF Install, TypeOK
  <2>5. place' \in [Places -> Fn \cup {NoFn}]
    BY <1>3, <2>1 DEF Install, TypeOK, Fn
  <2>6. pend' \in [Threads -> Pend]
    BY <1>3 DEF Install, TypeOK, Pend
  <2> QED
    BY <2>1, <2>3, <2>4, <2>5, <2>6 DEF TypeOK
<1>4. ASSUME NEW t \in Threads, NEW p \in Probes, Uninject(t, p) PROVE TypeOK'
  BY <1>4, RemoveType DEF Uninject, TypeOK, Made
<1>5. ASSUME NEW t \in Threads, UninjectAll(t) PROVE TypeOK'
  BY <1>5 DEF UninjectAll, TypeOK, Made
<1>6. ASSUME NEW t \in Threads, NEW S \in SUBSET instrumented, StartRemoving(t, S)
      PROVE  TypeOK'
  BY <1>6 DEF StartRemoving, TypeOK, Made, Pend
<1>7. ASSUME NEW t \in Threads, RemoveNext(t) PROVE TypeOK'
  <2>1. PICK p \in pend[t].todo :
          /\ IF p \in instrumented THEN Remove(p)
             ELSE UNCHANGED <<place, instrumented, info, wrapped>>
          /\ pend' = [pend EXCEPT ![t] =
                         IF @.todo = {p} THEN Idle
                         ELSE [op |-> "remove", todo |-> @.todo \ {p}]]
    BY <1>7 DEF RemoveNext
  <2>2. pend' \in [Threads -> Pend]
    BY <1>7, <2>1, PendShape DEF RemoveNext, TypeOK, Pend
  <2> QED
    BY <2>1, <2>2, RemoveType DEF TypeOK, Made
<1>8. ASSUME NEW y \in Late, NEW pl \in Places, Bind(y, pl) PROVE TypeOK'
  BY <1>8, ConstantsAssumption DEF Bind, TypeOK, Made
<1>9. CASE UNCHANGED vars
  BY <1>9 DEF vars, TypeOK, Made
<1>10. QED
  BY <1>1, <1>2, <1>3, <1>4, <1>5, <1>6, <1>7, <1>8, <1>9
     DEF Next, Reset, SweepOrphans

\* Every state of the injector is well typed.
THEOREM TypeCorrect == Spec => []TypeOK
  BY TypeInit, TypeStep, PTL DEF Spec

-----------------------------------------------------------------------------
(* Links lead to older wrappers *)

\* Whatever is bound, linked, restored or about to be wrapped was made before;
\* "older" is transitive.
AgeInv ==
    /\ TypeOK
    /\ \A pl \in Places : place[pl] \in Probes => place[pl] \in Made
    /\ \A t \in Threads : Injecting(t) =>
          (pend[t].target \in Probes => pend[t].target \in Made)
    /\ \A t \in Threads : Injecting(t) => pend[t].probe \notin Made
    /\ \A p \in Made : info[p].older \subseteq Made
    /\ \A p \in Made : \A q \in info[p].older : info[q].older \subseteq info[p].older
    /\ \A p \in Made : info[p].root \in Probes => info[p].root \in info[p].older
    /\ UnwrapTerminates

\* Two injections in progress use different ids.
DistinctIds ==
    \A t, u \in Threads :
        Injecting(t) /\ Injecting(u) /\ pend[t].probe = pend[u].probe => t = u

LEMMA AgeInit == Init => AgeInv /\ DistinctIds
<1> SUFFICES ASSUME Init PROVE AgeInv /\ DistinctIds
  OBVIOUS
<1>1. TypeOK
  BY TypeInit
<1>2. \A t \in Threads : ~Injecting(t)
  BY DEF Init, Injecting
<1> QED
  BY <1>1, <1>2, ConstantsAssumption DEF Init, AgeInv, DistinctIds, UnwrapTerminates, Made

\* What a removal puts in place of p is older than everything p was older than.
LEMMA RemoveAge ==
    ASSUME AgeInv, NEW p \in instrumented, Remove(p)
    PROVE  /\ \A pl \in Places : place'[pl] \in Probes => place'[pl] \in Made
           /\ UnwrapTerminates'
<1>1. p \in Made /\ p \in Probes /\ Below(p) \in Fn
  BY RemoveType DEF AgeInv, TypeOK
<1>2. Below(p) \in Probes => Below(p) \in info[p].older
  BY <1>1 DEF AgeInv, UnwrapTerminates, Below
<1>3. \A pl \in Places : place'[pl] \in Probes => place'[pl] \in Made
  BY <1>1, <1>2 DEF AgeInv, Remove, Uncovered, TypeOK
<1>4. ASSUME NEW q \in Made, wrapped'[q] \in Probes
      PROVE  wrapped'[q] \in info[q].older
  <2>1. CASE q \in Remaining(p) /\ wrapped[q] = p
    <3>1. wrapped'[q] = Below(p)
      BY <2>1, <1>4 DEF Remove, Relinked
    <3>2. p \in info[q].older
      BY <2>1, <1>1, <1>4 DEF AgeInv, UnwrapTerminates
    <3> QED
      BY <1>2, <1>4, <3>1, <3>2 DEF AgeInv
  <2>2. CASE ~(q \in Remaining(p) /\ wrapped[q] = p)
    <3>1. wrapped'[q] = wrapped[q]
      BY <2>2, <1>4 DEF Remove, Relinked
    <3> QED
      BY <3>1, <1>4 DEF AgeInv, UnwrapTerminates
  <2> QED
    BY <2>1, <2>2
<1> QED
  BY <1>3, <1>4 DEF UnwrapTerminates, Remove, Made

LEMMA AgeStep == AgeInv /\ DistinctIds /\ [Next]_vars => AgeInv' /\ DistinctIds'
<1> SUFFICES ASSUME AgeInv, DistinctIds, [Next]_vars PROVE AgeInv' /\ DistinctIds'
  OBVIOUS
<1>0. TypeOK /\ TypeOK'
  BY TypeStep DEF AgeInv
<1>1. ASSUME NEW t \in Threads, NEW p \in Probes, NEW pl \in Targets, Resolve(t, p, pl)
      PROVE  AgeInv' /\ DistinctIds'
  <2>1. \A u \in Threads \ {t} : pend'[u] = pend[u]
    BY <1>0, <1>1 DEF Resolve, TypeOK
  <2>2. pend'[t].op = "scan" /\ pend'[t].probe = p /\ pend'[t].target = place[pl]
    BY <1>0, <1>1 DEF Resolve, TypeOK
  <2>3. DistinctIds'
    BY <1>1, <2>1, <2>2 DEF Resolve, Fresh, DistinctIds, Injecting
  <2>4. \A u \in Threads : Injecting(u)' =>
           /\ pend'[u].target \in Probes => pend'[u].target \in Made
           /\ pend'[u].probe \notin Made
    BY <1>1, <2>1, <2>2, ConstantsAssumption DEF Resolve, Fresh, AgeInv, Injecting
  <2> QED
    BY <1>0, <1>1, <2>3, <2>4 DEF AgeInv, Resolve, UnwrapTerminates, Made, Injecting
<1>2. ASSUME NEW t \in Threads, Scan(t) PROVE AgeInv' /\ DistinctIds'
  <2>1. \A u \in Threads : Injecting(u)' <=> Injecting(u)
    BY <1>0, <1>2 DEF Scan, TypeOK, Injecting
  <2>2. \A u \in Threads : Injecting(u) =>
           pend'[u].target = pend[u].target /\ pend'[u].probe = pend[u].probe
    BY <1>0, <1>2 DEF Scan, TypeOK, Injecting
  <2> QED
    BY <1>0, <1>2, <2>1, <2>2 DEF AgeInv, DistinctIds, Scan, UnwrapTerminates, Made
<1>3. ASSUME NEW t \in Threads, Install(t) PROVE AgeInv' /\ DistinctIds'
  <2> DEFINE r == pend[t]
             p == r.probe
  <2>1. /\ Injecting(t) /\ p \in Probes /\ p \notin Made /\ r.target \in Fn
        /\ r.target \in Probes => r.target \in Made
    BY <1>0, <1>3, PendShape DEF Install, Injecting, AgeInv
  <2>2. /\ Made' = Made \cup {p}
        /\ info'[p] = NewInfo(r) /\ wrapped'[p] = r.target
        /\ \A q \in Made : info'[q] = info[q] /\ wrapped'[q] = wrapped[q]
    BY <1>3, <2>1 DEF Install, Made
  <2>3. /\ info'[p].older = Made
        /\ info'[p].root \in Probes => info'[p].root \in Made
    BY <1>0, <2>1, <2>2 DEF NewInfo, AgeInv, TypeOK
  <2>4. \A u \in Threads : Injecting(u)' => Injecting(u) /\ u # t /\ pend'[u] = pend[u]
    BY <1>0, <1>3 DEF Install, Injecting, TypeOK
  <2>5. DistinctIds'
    BY <2>4 DEF DistinctIds, Injecting
  <2>6. \A u \in Threads : Injecting(u)' =>
           /\ pend'[u].target \in Probes => pend'[u].target \in Made'
           /\ pend'[u].probe \notin Made'
    BY <2>1, <2>2, <2>4 DEF AgeInv, DistinctIds
  <2>7. \A pl \in Places : place'[pl] \in Probes => place'[pl] \in Made'
    BY <1>0, <1>3, <2>2 DEF Install, AgeInv, TypeOK
  <2>8. \A q \in Made' : info'[q].older \subseteq Made'
    BY <2>2, <2>3 DEF AgeInv
  <2>9. \A q \in Made' : \A s \in info'[q].older : info'[s].older \subseteq info'[q].older
    BY <2>1, <2>2, <2>3 DEF AgeInv
  <2>10. /\ \A q \in Made' : info'[q].root \in Probes => info'[q].root \in info'[q].older
         /\ UnwrapTerminates'
    BY <2>1, <2>2, <2>3 DEF AgeInv, UnwrapTerminates
  <2> QED
    BY <1>0, <2>5, <2>6, <2>7, <2>8, <2>9, <2>10 DEF AgeInv
<1>4. ASSUME NEW t \in Threads, NEW p \in Probes, Uninject(t, p)
      PROVE  AgeInv' /\ DistinctIds'
  BY <1>0, <1>4, RemoveAge DEF Uninject, Remove, AgeInv, DistinctIds, Made, Injecting
<1>5. ASSUME NEW t \in Threads, UninjectAll(t) PROVE AgeInv' /\ DistinctIds'
  <2>1. \A pl \in Places : place'[pl] \in Probes => place'[pl] \in Made
    BY <1>5 DEF UninjectAll, Restorers, AgeInv, TypeOK
  <2> QED
    BY <1>0, <1>5, <2>1 DEF UninjectAll, AgeInv, DistinctIds, Made, UnwrapTerminates, Injecting
<1>6. ASSUME NEW t \in Threads, NEW S \in SUBSET instrumented, StartRemoving(t, S)
      PROVE  AgeInv' /\ DistinctIds'
  <2>1. \A u \in Threads : Injecting(u)' => Injecting(u) /\ pend'[u] = pend[u]
    BY <1>0, <1>6 DEF StartRemoving, Injecting, TypeOK
  <2> QED
    BY <1>0, <1>6, <2>1 DEF StartRemoving, AgeInv, DistinctIds, Made, UnwrapTerminates
<1>7. ASSUME NEW t \in Threads, RemoveNext(t) PROVE AgeInv' /\ DistinctIds'
  <2>1. PICK p \in pend[t].todo :
          /\ IF p \in instrumented THEN Remove(p)
             ELSE UNCHANGED <<place, instrumented, info, wrapped>>
          /\ pend' = [pend EXCEPT ![t] =
                         IF @.todo = {p} THEN Idle
                         ELSE [op |-> "remove", todo |-> @.todo \ {p}]]
    BY <1>7 DEF RemoveNext
  <2>2. \A u \in Threads : Injecting(u)' => Injecting(u) /\ pend'[u] = pend[u]
    BY <1>0, <1>7, <2>1 DEF RemoveNext, Injecting, TypeOK
  <2>3. info' = info
    BY <2>1 DEF Remove
  <2>4. /\ \A pl \in Places : place'[pl] \in Probes => place'[pl] \in Made
        /\ UnwrapTerminates'
    BY <2>1, RemoveAge DEF AgeInv, UnwrapTerminates, Made
  <2> QED
    BY <1>0, <2>2, <2>3, <2>4 DEF AgeInv, DistinctIds, Made
<1>8. ASSUME NEW y \in Late, NEW pl \in Places, Bind(y, pl) PROVE AgeInv' /\ DistinctIds'
  <2>1. \A a \in Places : place'[a] \in Probes => place'[a] \in Made
    BY <1>0, <1>8 DEF Bind, AgeInv, TypeOK
  <2> QED
    BY <1>0, <1>8, <2>1 DEF Bind, AgeInv, DistinctIds, Made, UnwrapTerminates, Injecting
<1>9. CASE UNCHANGED vars
  BY <1>0, <1>9 DEF vars, AgeInv, DistinctIds, Made, UnwrapTerminates, Injecting
<1>10. QED
  BY <1>1, <1>2, <1>3, <1>4, <1>5, <1>6, <1>7, <1>8, <1>9
     DEF Next, Reset, SweepOrphans

\* With any number of threads and without the exclusive injection, relinking never
\* makes a __wrapped__ cycle.
THEOREM NoWrappedCycle == Spec => []UnwrapTerminates
<1>1. AgeInv => UnwrapTerminates
  BY DEF AgeInv
<1> QED
  BY <1>1, AgeInit, AgeStep, PTL DEF Spec

-----------------------------------------------------------------------------
(* Restoration *)

\* The names that an injection always moves together.
Managed == (ModuleGlobals \cup Targets) \ Late

(***************************************************************************)
(* The conditions under which the injector restores what it changed: an    *)
(* injection is not interleaved with changes of the registry, patterns     *)
(* name writable attributes the application does not rebind, and whichever *)
(* of them is named, an alias scan finds all the others: at most one of    *)
(* them is a class attribute.                                              *)
(***************************************************************************)
Coherent ==
    /\ Exclusive
    /\ Targets \cap (Late \cup ReadOnly) = {}
    /\ \A pl \in Targets : Managed \ {pl} \subseteq ModuleGlobals

OnTop(p) == \A pl \in Managed : place[pl] = p

\* The managed names are bound to one function: the newest registered probe, or
\* the original when there is none.
TopIsNewest ==
    \A pl \in Managed :
        IF instrumented = {} THEN place[pl] = Orig
        ELSE /\ place[pl] \in instrumented
             /\ \A q \in instrumented \ {place[pl]} : q \in info[place[pl]].older

\* Every probe was put on all the managed names.
CoversManaged ==
    \A p \in Made : /\ info[p].at \in Targets
                    /\ Managed \subseteq {info[p].at} \cup info[p].aliases
                    /\ info[p].aliases \subseteq ModuleGlobals

\* "older" is a strict total order.
OlderIsOrder ==
    /\ \A p, q \in Made : p \in info[q].older => q \notin info[p].older
    /\ \A p, q \in Made : p = q \/ p \in info[q].older \/ q \in info[p].older

\* The registered probes form one group over the original.
OneGroup ==
    /\ \A p \in instrumented : info[p].root = Orig
    /\ \A p, q \in instrumented : info[p].group = info[q].group

\* A link leads to the next older registered probe, to the original from the oldest.
LinksToNext ==
    \A p \in instrumented :
        /\ wrapped[p] \in instrumented \cup {Orig}
        /\ \A q \in instrumented \cap info[p].older :
              wrapped[p] \in instrumented /\ (q = wrapped[p] \/ q \in info[wrapped[p]].older)

\* A registered probe that is not on top has a registered probe right above it.
HasAbove ==
    \A p \in instrumented : OnTop(p) \/ \E q \in instrumented : wrapped[q] = p

\* There is an oldest registered probe.
HasOldest ==
    instrumented # {} =>
        \E b \in instrumented : \A q \in instrumented \ {b} : b \in info[q].older

\* An injection under way still sees what it resolved, and is the only one.
PendingCurrent ==
    /\ \A t, u \in Threads : Injecting(t) /\ Injecting(u) => t = u
    /\ \A t \in Threads : Injecting(t) =>
          pend[t].at \in Targets /\ pend[t].target = place[pend[t].at]
    /\ \A t \in Threads : pend[t].op = "install" =>
          /\ Managed \subseteq {pend[t].at} \cup pend[t].aliases
          /\ pend[t].aliases \subseteq ModuleGlobals

StackInv ==
    /\ AgeInv
    /\ DistinctIds
    /\ TopIsNewest
    /\ CoversManaged
    /\ OlderIsOrder
    /\ OneGroup
    /\ LinksToNext
    /\ HasAbove
    /\ HasOldest
    /\ PendingCurrent

LEMMA StackInit == Init => StackInv
<1> SUFFICES ASSUME Init PROVE StackInv
  OBVIOUS
<1>1. \A t \in Threads : pend[t].op = "idle"
  BY DEF Init
<1> QED
  BY <1>1, AgeInit, ConstantsAssumption
     DEF Init, StackInv, TopIsNewest, CoversManaged, OlderIsOrder, OneGroup, LinksToNext,
         HasAbove, HasOldest, PendingCurrent, Injecting, Made, Managed

\* A registered probe and the name it was started on.
LEMMA ManagedFacts ==
    ASSUME Coherent, TypeOK
    PROVE  /\ Managed \subseteq Places
           /\ Targets \subseteq Managed
           /\ \A pl \in Targets : Managed \subseteq {pl} \cup ModuleGlobals
  BY ConstantsAssumption DEF Coherent, Managed

\* Below(p) is the next older registered probe, or the original.
LEMMA BelowIsNext ==
    ASSUME Coherent, StackInv, NEW p \in instrumented
    PROVE  /\ Remaining(p) = instrumented \ {p}
           /\ Below(p) = wrapped[p]
           /\ wrapped[p] # p
<1>1. Remaining(p) = instrumented \ {p}
  BY DEF StackInv, OneGroup, Remaining
<1>2. p \in Made /\ p \in Probes
  BY DEF StackInv, AgeInv, TypeOK
<1>3. wrapped[p] # p
  BY <1>2 DEF StackInv, AgeInv, UnwrapTerminates, OlderIsOrder
<1> QED
  BY <1>1, <1>3 DEF StackInv, OneGroup, LinksToNext, Below

LEMMA RemoveStack ==
    ASSUME Coherent, StackInv, NEW p \in instrumented, Remove(p)
    PROVE  /\ TopIsNewest' /\ CoversManaged' /\ OlderIsOrder' /\ OneGroup'
           /\ LinksToNext' /\ HasAbove' /\ HasOldest'
<1>0. /\ TypeOK /\ p \in Made /\ p \in Probes /\ Orig \notin instrumented
      /\ Made' = Made /\ info' = info /\ instrumented' = instrumented \ {p}
  BY ConstantsAssumption DEF StackInv, AgeInv, TypeOK, Remove, Made
<1>a. /\ Remaining(p) = instrumented \ {p}
      /\ Below(p) = wrapped[p] /\ wrapped[p] # p
  BY BelowIsNext
<1>b. /\ info[p].at \in Managed
      /\ Managed \subseteq {info[p].at} \cup info[p].aliases
      /\ Managed \subseteq Places
  BY <1>0, ManagedFacts DEF StackInv, CoversManaged
<1>c. \A a, b \in Managed : place[a] = place[b]
  BY <1>0 DEF StackInv, TopIsNewest, OlderIsOrder, AgeInv, TypeOK
<1>d. \A pl \in Managed : place'[pl] = IF place[pl] = p THEN wrapped[p] ELSE place[pl]
  BY <1>a, <1>b, <1>c DEF Remove, Uncovered
<1>e. \A q \in instrumented \ {p} :
         wrapped'[q] = IF wrapped[q] = p THEN wrapped[p] ELSE wrapped[q]
  BY <1>0, <1>a DEF Remove, Relinked, TypeOK
<1>f. \A q \in instrumented : q \in Made
  BY <1>0 DEF TypeOK
<1>1. TopIsNewest'
  <2> SUFFICES ASSUME NEW pl \in Managed
               PROVE  IF instrumented' = {} THEN place'[pl] = Orig
                      ELSE /\ place'[pl] \in instrumented'
                           /\ \A q \in instrumented' \ {place'[pl]} :
                                 q \in info[place'[pl]].older
    BY <1>0 DEF TopIsNewest
  <2>1. /\ place[pl] \in instrumented
        /\ \A q \in instrumented \ {place[pl]} : q \in info[place[pl]].older
    BY DEF StackInv, TopIsNewest
  <2>2. CASE place[pl] # p
    BY <1>0, <1>d, <2>1, <2>2
  <2>3. CASE place[pl] = p
    <3>1. place'[pl] = wrapped[p] /\ wrapped[p] \in instrumented \cup {Orig}
      BY <1>d, <2>3 DEF StackInv, LinksToNext
    <3>2. \A q \in instrumented \ {p} : q \in info[p].older
      BY <2>1, <2>3
    <3>3. \A q \in instrumented \ {p} :
             wrapped[p] \in instrumented /\ (q = wrapped[p] \/ q \in info[wrapped[p]].older)
      BY <3>2 DEF StackInv, LinksToNext
    <3>4. CASE instrumented = {p}
      BY <1>0, <1>a, <3>1, <3>4
    <3>5. CASE instrumented # {p}
      BY <1>0, <1>a, <3>1, <3>3, <3>5
    <3> QED
      BY <3>4, <3>5
  <2> QED
    BY <2>2, <2>3
<1>2. CoversManaged' /\ OlderIsOrder' /\ OneGroup'
  BY <1>0 DEF StackInv, CoversManaged, OlderIsOrder, OneGroup
<1>3. LinksToNext'
  <2> SUFFICES ASSUME NEW q \in instrumented \ {p}
               PROVE  /\ wrapped'[q] \in (instrumented \ {p}) \cup {Orig}
                      /\ \A s \in (instrumented \ {p}) \cap info[q].older :
                            /\ wrapped'[q] \in instrumented \ {p}
                            /\ s = wrapped'[q] \/ s \in info[wrapped'[q]].older
    BY <1>0 DEF LinksToNext
  <2>1. CASE wrapped[q] # p
    BY <1>e, <2>1 DEF StackInv, LinksToNext
  <2>2. CASE wrapped[q] = p
    <3>1. wrapped'[q] = wrapped[p]
      BY <1>e, <2>2
    <3>2. \A s \in (instrumented \ {p}) \cap info[q].older : s \in info[p].older
      BY <2>2 DEF StackInv, LinksToNext
    <3>3. \A s \in (instrumented \ {p}) \cap info[q].older :
             wrapped[p] \in instrumented /\ (s = wrapped[p] \/ s \in info[wrapped[p]].older)
      BY <3>2 DEF StackInv, LinksToNext
    <3> QED
      BY <1>a, <3>1, <3>3 DEF StackInv, LinksToNext
  <2> QED
    BY <2>1, <2>2
<1>4. HasAbove'
  <2> SUFFICES ASSUME NEW r \in instrumented \ {p}
               PROVE  OnTop(r)' \/ \E q \in instrumented \ {p} : wrapped'[q] = r
    BY <1>0 DEF HasAbove
  <2>1. CASE OnTop(r)
    BY <1>d, <2>1 DEF OnTop
  <2>2. ASSUME NEW q \in instrumented, wrapped[q] = r, q # p
        PROVE  OnTop(r)' \/ \E s \in instrumented \ {p} : wrapped'[s] = r
    BY <1>e, <2>2
  <2>3. ASSUME wrapped[p] = r
        PROVE  OnTop(r)' \/ \E q \in instrumented \ {p} : wrapped'[q] = r
    <3>1. CASE OnTop(p)
      BY <1>d, <2>3, <3>1 DEF OnTop
    <3>2. CASE \E q \in instrumented : wrapped[q] = p
      BY <1>a, <1>e, <2>3, <3>2
    <3> QED
      BY <3>1, <3>2 DEF StackInv, HasAbove
  <2> QED
    BY <2>1, <2>2, <2>3 DEF StackInv, HasAbove
<1>5. HasOldest'
  <2> SUFFICES ASSUME instrumented \ {p} # {}
               PROVE  \E b \in instrumented \ {p} :
                         \A q \in instrumented \ {p, b} : b \in info[q].older
    BY <1>0 DEF HasOldest
  <2>1. PICK b \in instrumented : \A q \in instrumented \ {b} : b \in info[q].older
    BY DEF StackInv, HasOldest
  <2>2. CASE b # p
    BY <2>1, <2>2
  <2>3. CASE b = p
    <3>1. PICK r \in instrumented \ {p} : TRUE
      OBVIOUS
    <3>2. p \in info[r].older /\ r \notin info[p].older
      BY <1>f, <2>1, <2>3 DEF StackInv, OlderIsOrder
    <3>3. ~OnTop(p)
      BY <1>b, <3>2 DEF StackInv, TopIsNewest, OnTop
    <3>4. PICK c \in instrumented : wrapped[c] = p
      BY <3>3 DEF StackInv, HasAbove
    <3>5. c # p
      BY <1>a, <3>4
    <3>6. ASSUME NEW q \in instrumented \ {p, c} PROVE c \in info[q].older
      <4>1. CASE q \in info[c].older
        <5>1. q \in info[p].older
          BY <3>4, <4>1 DEF StackInv, LinksToNext
        <5> QED
          BY <1>f, <2>1, <2>3, <5>1 DEF StackInv, OlderIsOrder
      <4> QED
        BY <1>f, <4>1 DEF StackInv, OlderIsOrder
    <3> QED
      BY <3>5, <3>6
  <2> QED
    BY <2>2, <2>3
<1> QED
  BY <1>1, <1>2, <1>3, <1>4, <1>5

LEMMA InstallStack ==
    ASSUME Coherent, StackInv, NEW t \in Threads, Install(t)
    PROVE  /\ TopIsNewest' /\ CoversManaged' /\ OlderIsOrder' /\ OneGroup'
           /\ LinksToNext' /\ HasAbove' /\ HasOldest'
<1> DEFINE r == pend[t]
           p == r.probe
<1>0. /\ TypeOK /\ Injecting(t) /\ p \in Probes /\ p \notin Made /\ instrumented \subseteq Made
      /\ r.at \in Targets /\ r.target = place[r.at] /\ r.at \notin ReadOnly
      /\ Managed \subseteq {r.at} \cup r.aliases /\ r.aliases \subseteq ModuleGlobals
  BY PendShape DEF StackInv, AgeInv, TypeOK, PendingCurrent, Injecting, Install, Coherent
<1>1. /\ Made' = Made \cup {p} /\ instrumented' = instrumented \cup {p}
      /\ info'[p] = NewInfo(r) /\ wrapped'[p] = r.target
      /\ \A q \in Made : info'[q] = info[q] /\ wrapped'[q] = wrapped[q]
  BY <1>0 DEF Install, Made
<1>2. /\ \A pl \in Managed : place'[pl] = p
      /\ r.at \in Managed /\ Managed \subseteq Places
  BY <1>0, ManagedFacts DEF Install
<1>3. IF instrumented = {} THEN r.target = Orig
      ELSE /\ r.target \in instrumented
           /\ \A q \in instrumented \ {r.target} : q \in info[r.target].older
  BY <1>0, <1>2 DEF StackInv, TopIsNewest
<1>4. info'[p].older = Made /\ info'[p].at = r.at /\ info'[p].aliases = r.aliases
  BY <1>1 DEF NewInfo
<1>5. TopIsNewest'
  BY <1>0, <1>1, <1>2, <1>4 DEF TopIsNewest
<1>6. CoversManaged'
  BY <1>0, <1>1, <1>4 DEF StackInv, CoversManaged
<1>7. OlderIsOrder'
  BY <1>0, <1>1, <1>4 DEF StackInv, AgeInv, OlderIsOrder
<1>8. OneGroup'
  <2>1. CASE instrumented = {}
    BY <1>1, <1>3, <2>1 DEF NewInfo, OneGroup
  <2>2. CASE instrumented # {}
    <3>1. info'[p].root = info[r.target].root /\ info'[p].group = info[r.target].group
      BY <1>1, <1>3, <2>2 DEF NewInfo
    <3> QED
      BY <1>0, <1>1, <1>3, <2>2, <3>1 DEF StackInv, OneGroup
  <2> QED
    BY <2>1, <2>2
<1>9. LinksToNext'
  <2> SUFFICES ASSUME NEW q \in instrumented \cup {p}
               PROVE  /\ wrapped'[q] \in instrumented \cup {p, Orig}
                      /\ \A s \in (instrumented \cup {p}) \cap info'[q].older :
                            /\ wrapped'[q] \in instrumented \cup {p}
                            /\ s = wrapped'[q] \/ s \in info'[wrapped'[q]].older
    BY <1>1 DEF LinksToNext
  <2>1. CASE q = p
    BY <1>0, <1>1, <1>3, <1>4, <2>1
  <2>2. CASE q # p
    <3>1. q \in Made /\ info'[q] = info[q] /\ wrapped'[q] = wrapped[q] /\ p \notin info[q].older
      BY <1>0, <1>1, <2>2 DEF StackInv, AgeInv
    <3> QED
      BY <1>0, <1>1, <2>2, <3>1 DEF StackInv, LinksToNext
  <2> QED
    BY <2>1, <2>2
<1>10. HasAbove'
  <2> SUFFICES ASSUME NEW q \in instrumented \cup {p}
               PROVE  OnTop(q)' \/ \E s \in instrumented \cup {p} : wrapped'[s] = q
    BY <1>1 DEF HasAbove
  <2>1. CASE q = p
    BY <1>2, <2>1 DEF OnTop
  <2>2. CASE q # p /\ OnTop(q)
    BY <1>1, <1>2, <1>0, <2>2 DEF OnTop
  <2>3. CASE q # p /\ \E s \in instrumented : wrapped[s] = q
    BY <1>0, <1>1, <2>3
  <2> QED
    BY <2>1, <2>2, <2>3 DEF StackInv, HasAbove
<1>11. HasOldest'
  <2>1. CASE instrumented = {}
    BY <1>1, <2>1 DEF HasOldest
  <2>2. CASE instrumented # {}
    <3>1. PICK b \in instrumented : \A q \in instrumented \ {b} : b \in info[q].older
      BY <2>2 DEF StackInv, HasOldest
    <3>2. \A q \in (instrumented \cup {p}) \ {b} : b \in info'[q].older
      BY <1>0, <1>1, <1>4, <3>1
    <3> QED
      BY <1>1, <3>1, <3>2 DEF HasOldest
  <2> QED
    BY <2>1, <2>2
<1> QED
  BY <1>5, <1>6, <1>7, <1>8, <1>9, <1>10, <1>11

LEMMA UninjectAllStack ==
    ASSUME Coherent, StackInv, NEW t \in Threads, UninjectAll(t)
    PROVE  /\ TopIsNewest' /\ CoversManaged' /\ OlderIsOrder' /\ OneGroup'
           /\ LinksToNext' /\ HasAbove' /\ HasOldest'
<1>0. /\ TypeOK /\ instrumented \subseteq Made /\ instrumented # {}
      /\ instrumented' = {} /\ info' = info /\ Made' = Made
  BY DEF StackInv, AgeInv, TypeOK, UninjectAll, Made
<1>1. PICK b \in instrumented : \A q \in instrumented \ {b} : b \in info[q].older
  BY <1>0 DEF StackInv, HasOldest
<1>2. \A p \in instrumented : First(p) <=> p = b
  BY <1>0, <1>1 DEF First, StackInv, OneGroup, OlderIsOrder
<1>3. ASSUME NEW pl \in Managed PROVE place'[pl] = Orig
  <2>1. pl \in Places /\ pl \in {info[b].at} \cup info[b].aliases
    BY <1>0, ManagedFacts DEF StackInv, CoversManaged
  <2>2. Restorers(pl) = {b}
    BY <1>2, <2>1 DEF Restorers
  <2> QED
    BY <2>1, <2>2 DEF UninjectAll, StackInv, OneGroup
<1> QED
  BY <1>0, <1>3 DEF TopIsNewest, CoversManaged, OlderIsOrder, OneGroup, LinksToNext,
                    HasAbove, HasOldest, StackInv

\* While a thread injects exclusively, the steps of others do not touch the managed
\* names, so what it resolved stays current.
LEMMA PendingStep ==
    ASSUME Coherent, StackInv, [Next]_vars
    PROVE  PendingCurrent'
<1>0. TypeOK /\ TypeOK' /\ Exclusive
  BY TypeStep DEF StackInv, AgeInv, Coherent
<1>1. ASSUME NEW t \in Threads, NEW p \in Probes, NEW pl \in Targets, Resolve(t, p, pl)
      PROVE  PendingCurrent'
  <2>1. \A u \in Threads \ {t} : pend'[u] = pend[u] /\ ~Injecting(u)
    BY <1>0, <1>1 DEF Resolve, TypeOK, MayChange
  <2>2. pend'[t].op = "scan" /\ pend'[t].at = pl /\ pend'[t].target = place[pl]
    BY <1>0, <1>1 DEF Resolve, TypeOK
  <2> QED
    BY <1>1, <2>1, <2>2 DEF PendingCurrent, Injecting, Resolve
<1>2. ASSUME NEW t \in Threads, Scan(t) PROVE PendingCurrent'
  <2>1. \A u \in Threads \ {t} : pend'[u] = pend[u]
    BY <1>0, <1>2 DEF Scan, TypeOK
  <2>2. /\ Injecting(t) /\ pend'[t].op = "install"
        /\ pend'[t].at = pend[t].at /\ pend'[t].target = pend[t].target
        /\ pend'[t].aliases = AliasesOf(pend[t].target, pend[t].at)
    BY <1>0, <1>2 DEF Scan, TypeOK, Injecting
  <2>3. pend[t].at \in Targets /\ pend[t].target = place[pend[t].at]
    BY <2>2 DEF StackInv, PendingCurrent
  <2>4. \A a, b \in Managed : place[a] = place[b]
    BY <1>0 DEF StackInv, TopIsNewest, OlderIsOrder, AgeInv, TypeOK
  <2>5. /\ Managed \subseteq {pend'[t].at} \cup pend'[t].aliases
        /\ pend'[t].aliases \subseteq ModuleGlobals
    BY <1>0, <2>2, <2>3, <2>4, ManagedFacts DEF AliasesOf
  <2> QED
    BY <1>2, <2>1, <2>2, <2>3, <2>5 DEF PendingCurrent, Injecting, Scan, StackInv
<1>3. ASSUME NEW t \in Threads, Install(t) PROVE PendingCurrent'
  <2>1. \A u \in Threads \ {t} : pend'[u] = pend[u] /\ ~Injecting(u)
    BY <1>0, <1>3 DEF Install, TypeOK, MayChange
  <2>2. pend'[t].op = "idle"
    BY <1>0, <1>3 DEF Install, TypeOK
  <2> QED
    BY <2>1, <2>2 DEF PendingCurrent, Injecting
<1>4. ASSUME NEW t \in Threads, NEW p \in Probes, Uninject(t, p) PROVE PendingCurrent'
  <2>1. \A u \in Threads : pend'[u] = pend[u] /\ ~Injecting(u)
    BY <1>0, <1>4 DEF Uninject, MayChange, Injecting
  <2> QED
    BY <2>1 DEF PendingCurrent, Injecting
<1>5. ASSUME NEW t \in Threads, UninjectAll(t) PROVE PendingCurrent'
  <2>1. \A u \in Threads : pend'[u] = pend[u] /\ ~Injecting(u)
    BY <1>0, <1>5 DEF UninjectAll, MayChange, Injecting
  <2> QED
    BY <2>1 DEF PendingCurrent, Injecting
<1>6. ASSUME NEW t \in Threads, NEW S \in SUBSET instrumented, StartRemoving(t, S)
      PROVE  PendingCurrent'
  <2>1. /\ \A u \in Threads \ {t} : pend'[u] = pend[u]
        /\ pend'[t].op = "remove" /\ place' = place
    BY <1>0, <1>6 DEF StartRemoving, TypeOK
  <2> QED
    BY <2>1 DEF PendingCurrent, Injecting, StackInv
<1>7. ASSUME NEW t \in Threads, RemoveNext(t) PROVE PendingCurrent'
  <2>1. /\ \A u \in Threads \ {t} : pend'[u] = pend[u] /\ ~Injecting(u)
        /\ pend'[t].op \in {"idle", "remove"}
    BY <1>0, <1>7 DEF RemoveNext, TypeOK, MayChange
  <2> QED
    BY <2>1 DEF PendingCurrent, Injecting
<1>8. ASSUME NEW y \in Late, NEW pl \in Places, Bind(y, pl) PROVE PendingCurrent'
  <2>1. pend' = pend /\ \A a \in Targets : place'[a] = place[a]
    BY <1>0, <1>8, ConstantsAssumption DEF Bind, TypeOK, Coherent
  <2> QED
    BY <2>1 DEF PendingCurrent, Injecting, StackInv
<1>9. CASE UNCHANGED vars
  BY <1>9 DEF vars, PendingCurrent, Injecting, StackInv
<1>10. QED
  BY <1>1, <1>2, <1>3, <1>4, <1>5, <1>6, <1>7, <1>8, <1>9
     DEF Next, Reset, SweepOrphans

LEMMA StackStep ==
    ASSUME Coherent, StackInv, [Next]_vars
    PROVE  StackInv'
<1> DEFINE Stack == /\ TopIsNewest /\ CoversManaged /\ OlderIsOrder /\ OneGroup
                    /\ LinksToNext /\ HasAbove /\ HasOldest
<1>0. AgeInv' /\ DistinctIds' /\ PendingCurrent' /\ TypeOK
  BY AgeStep, PendingStep DEF StackInv, AgeInv
<1>1. ASSUME UNCHANGED <<place, instrumented, info, wrapped>> PROVE Stack'
  BY <1>1 DEF StackInv, TopIsNewest, CoversManaged, OlderIsOrder, OneGroup, LinksToNext,
              HasAbove, HasOldest, OnTop, Made
<1>2. ASSUME NEW t \in Threads, RemoveNext(t) PROVE Stack'
  BY <1>1, <1>2, RemoveStack DEF RemoveNext
<1>3. ASSUME NEW y \in Late, NEW pl \in Places, Bind(y, pl) PROVE Stack'
  <2>1. \A a \in Managed : place'[a] = place[a]
    BY <1>0, <1>3, ConstantsAssumption DEF Bind, TypeOK, Managed
  <2> QED
    BY <1>3, <2>1 DEF Bind, StackInv, TopIsNewest, CoversManaged, OlderIsOrder, OneGroup,
                      LinksToNext, HasAbove, HasOldest, OnTop, Made
<1>4. Stack'
  BY <1>1, <1>2, <1>3, InstallStack, RemoveStack, UninjectAllStack
     DEF Next, vars, Resolve, Scan, Uninject, Reset, SweepOrphans, StartRemoving
<1> QED
  BY <1>0, <1>4 DEF StackInv

\* Under the conditions of Coherent, for any number of threads, probes and names:
\* whatever the order in which probes are started, stopped, reset and swept, every
\* name holds the application's function again once no probe is registered.
THEOREM Restoration == Coherent /\ Spec => []OriginalRestored
<1> SUFFICES ASSUME Coherent PROVE Spec => []OriginalRestored
  OBVIOUS
<1>1. StackInv => OriginalRestored
  BY DEF StackInv, CoversManaged, TopIsNewest, OriginalRestored, Managed
<1>2. StackInv /\ [Next]_vars => StackInv'
  BY StackStep
<1> QED
  BY <1>1, <1>2, StackInit, PTL DEF Spec

\* Under the same conditions no __wrapped__ link of a registered probe leads to a
\* removed one.
THEOREM LiveLinks == Coherent /\ Spec => []NoDeadLink
<1> SUFFICES ASSUME Coherent PROVE Spec => []NoDeadLink
  OBVIOUS
<1>1. StackInv => NoDeadLink
  BY DEF StackInv, LinksToNext, NoDeadLink
<1>2. StackInv /\ [Next]_vars => StackInv'
  BY StackStep
<1> QED
  BY <1>1, <1>2, StackInit, PTL DEF Spec

-----------------------------------------------------------------------------
(* What the probes see *)

LEMMA Least ==
    ASSUME NEW S \in SUBSET Nat, S # {}
    PROVE  \E n \in S : \A k \in S : n <= k
<1>1. PICK n \in S : \A k \in S : ~(<<k, n>> \in OpToRel(<, Nat))
  BY NatLessThanWellFounded, WFMin
<1>2. \A k \in S : ~(k < n)
  BY <1>1, Zenon DEF OpToRel
<1> QED
  BY <1>2

\* Finitely many wrappers were made.  Each calls an older one or the original, and
\* passes over no registered probe.
CallsNext ==
    /\ IsFiniteSet(Made)
    /\ \A q \in Made :
          /\ info[q].original \in info[q].older \cup {Orig}
          /\ \A s \in instrumented \cap info[q].older :
                info[q].original \in Made
                /\ (s = info[q].original \/ s \in info[info[q].original].older)

\* Of any wrappers there is an oldest.
LEMMA OldestOf ==
    ASSUME AgeInv, OlderIsOrder, CallsNext, NEW S \in SUBSET Made, S # {}
    PROVE  \E q \in S : \A s \in S : s \notin info[q].older
<1> DEFINE Age(q) == Cardinality(info[q].older)
<1>1. \A q \in S : IsFiniteSet(info[q].older) /\ Age(q) \in Nat
  BY FS_Subset, FS_CardinalityType DEF AgeInv, CallsNext
<1>2. {Age(q) : q \in S} \in SUBSET Nat /\ {Age(q) : q \in S} # {}
  BY <1>1
<1>3. PICK q \in S : \A s \in S : Age(q) <= Age(s)
  <2>1. PICK n \in {Age(q) : q \in S} : \A k \in {Age(q) : q \in S} : n <= k
    BY <1>2, Least
  <2> QED
    BY <2>1
<1>4. ASSUME NEW s \in S, s \in info[q].older PROVE FALSE
  <2>1. info[s].older \subseteq info[q].older /\ info[s].older # info[q].older
    BY <1>4 DEF AgeInv, OlderIsOrder
  <2>2. Age(s) <= Age(q) /\ (Age(s) = Age(q) => info[s].older = info[q].older)
    BY <1>1, <2>1, FS_Subset, Zenon
  <2> QED
    BY <1>1, <1>3, <2>1, <2>2
<1> QED
  BY <1>4

\* Chain is what its definition says: the recursion has a solution.
LEMMA ChainUnfolds ==
    ASSUME AgeInv, CallsNext
    PROVE  Chain = [f \in Made \cup {Orig} |->
                      IF f = Orig THEN {} ELSE {f} \cup Chain[info[f].original]]
<1> DEFINE D == Made \cup {Orig}
           Closed(S) == S \subseteq D /\ \A f \in S : f # Orig => info[f].original \in S
           Reached(f) == {x \in D : \A S \in SUBSET D : Closed(S) /\ f \in S => x \in S}
           Solution == [f \in D |-> Reached(f) \ {Orig}]
<1>1. \A f \in D : f # Orig => info[f].original \in D
  BY DEF AgeInv, CallsNext
<1>2. Orig \in D /\ Orig \notin Made
  BY ConstantsAssumption DEF AgeInv, TypeOK
<1>3. ASSUME NEW f \in D PROVE Closed(Reached(f)) /\ f \in Reached(f)
  BY <1>1
<1>4. ASSUME NEW f \in D, f # Orig PROVE Reached(f) = {f} \cup Reached(info[f].original)
  <2>1. info[f].original \in D
    BY <1>1, <1>4
  <2>2. info[f].original \in Reached(f)
    BY <1>3, <1>4
  <2>3. Reached(info[f].original) \subseteq Reached(f)
    BY <1>3, <2>2
  <2>4. Closed({f} \cup Reached(info[f].original))
    BY <1>3, <2>1
  <2>5. info[f].original \in Reached(info[f].original)
    BY <1>3, <2>1
  <2>6. Reached(f) \subseteq {f} \cup Reached(info[f].original)
    BY <2>4, <2>5
  <2> QED
    BY <1>3, <2>3, <2>6
<1>5. Reached(Orig) = {Orig}
  <2>1. Closed({Orig})
    BY <1>2
  <2> QED
    BY <1>2, <1>3, <2>1, ZenonT(30)
<1>6. \A f \in D : Solution[f] = IF f = Orig THEN {} ELSE {f} \cup Solution[info[f].original]
  <2> SUFFICES ASSUME NEW f \in D
               PROVE  Solution[f] = IF f = Orig THEN {} ELSE {f} \cup Solution[info[f].original]
    OBVIOUS
  <2>1. CASE f = Orig
    BY <1>5, <2>1
  <2>2. CASE f # Orig
    <3> HIDE DEF Reached, D
    <3> QED
      BY <1>1, <1>4, <2>2
  <2> QED
    BY <2>1, <2>2
<1>7. Solution = [f \in D |-> IF f = Orig THEN {} ELSE {f} \cup Solution[info[f].original]]
  <2> HIDE DEF Reached
  <2> QED
    BY <1>6
<1> HIDE DEF Solution
<1> QED
  BY <1>7, Zenon DEF Chain

\* The registered probes in the chain of a wrapper are that wrapper's and the older ones.
LEMMA ChainSees ==
    ASSUME AgeInv, OlderIsOrder, CallsNext, NEW q \in Made
    PROVE  Chain[q] \cap instrumented = instrumented \cap ({q} \cup info[q].older)
<1>0. /\ Orig \notin Made /\ \A f \in Made : info[f].original \in Made \cup {Orig}
      /\ \A f \in Made : Chain[f] = {f} \cup Chain[info[f].original]
      /\ Chain[Orig] = {}
  BY ChainUnfolds, ConstantsAssumption DEF AgeInv, TypeOK, CallsNext
<1> DEFINE Wrong == {f \in Made : Chain[f] \cap instrumented
                                     # instrumented \cap ({f} \cup info[f].older)}
<1>1. ASSUME Wrong # {} PROVE FALSE
  <2>1. PICK f \in Wrong : \A s \in Wrong : s \notin info[f].older
    BY <1>1, OldestOf
  <2> DEFINE o == info[f].original
  <2>2. CASE o = Orig
    BY <1>0, <2>1, <2>2 DEF CallsNext
  <2>3. CASE o \in Made
    <3>1. o \in info[f].older /\ o \notin Wrong
      BY <1>0, <2>1, <2>3 DEF CallsNext
    <3>2. Chain[o] \cap instrumented = instrumented \cap ({o} \cup info[o].older)
      BY <2>3, <3>1
    <3>3. instrumented \cap info[f].older = instrumented \cap ({o} \cup info[o].older)
      BY <2>1, <3>1 DEF CallsNext, AgeInv
    <3> QED
      BY <1>0, <2>1, <3>2, <3>3
  <2> QED
    BY <1>0, <2>1, <2>2, <2>3
<1> QED
  BY <1>1

\* The registered probes that a call of f passes.
Passing(f) == IF f \in Made THEN instrumented \cap ({f} \cup info[f].older) ELSE {}

LEMMA ObserversAre ==
    ASSUME AgeInv, OlderIsOrder, CallsNext, NEW pl \in Places
    PROVE  Observers(pl) = Passing(place[pl])
<1>1. place[pl] \in Made \cup {Orig, NoFn}
  BY DEF AgeInv, TypeOK, Fn
<1>2. Chain[Orig] = {} /\ Orig \notin Made /\ NoFn \notin Made /\ Orig # NoFn
  BY ChainUnfolds, ConstantsAssumption DEF AgeInv, TypeOK
<1> QED
  BY <1>1, <1>2, ChainSees DEF Observers, Passing

\* What an injection found as aliases still holds its target when it is installed.
AliasesCurrent ==
    \A t \in Threads : pend[t].op = "install" =>
        \A pl \in pend[t].aliases : place[pl] = pend[t].target

SeeInv == StackInv /\ CallsNext /\ AliasesCurrent

LEMMA SeeInit == Init => SeeInv
<1> SUFFICES ASSUME Init PROVE SeeInv
  OBVIOUS
<1>1. Made = {}
  BY DEF Init, Made
<1>2. CallsNext
  BY <1>1, FS_EmptySet DEF CallsNext
<1> QED
  BY <1>2, StackInit DEF SeeInv, AliasesCurrent, Init

LEMMA InstallCalls ==
    ASSUME Coherent, SeeInv, NEW t \in Threads, Install(t)
    PROVE  CallsNext'
<1> DEFINE r == pend[t]
           p == r.probe
<1>0. /\ TypeOK /\ Injecting(t) /\ p \in Probes /\ p \notin Made /\ instrumented \subseteq Made
      /\ r.at \in Targets /\ r.target = place[r.at] /\ r.at \in Managed
  BY PendShape, ManagedFacts DEF SeeInv, StackInv, AgeInv, TypeOK, PendingCurrent, Injecting, Install
<1>1. /\ Made' = Made \cup {p} /\ instrumented' = instrumented \cup {p}
      /\ info'[p].original = r.target /\ info'[p].older = Made
      /\ \A q \in Made : info'[q] = info[q]
  BY <1>0 DEF Install, Made, NewInfo
<1>2. IF instrumented = {} THEN r.target = Orig
      ELSE /\ r.target \in instrumented
           /\ \A q \in instrumented \ {r.target} : q \in info[r.target].older
  BY <1>0 DEF SeeInv, StackInv, TopIsNewest
<1>3. IsFiniteSet(Made')
  BY <1>1, FS_AddElement DEF SeeInv, CallsNext
<1>4. ASSUME NEW q \in Made
      PROVE  /\ info'[q].original \in info'[q].older \cup {Orig}
             /\ \A s \in instrumented' \cap info'[q].older :
                  info'[q].original \in Made'
                  /\ (s = info'[q].original \/ s \in info'[info'[q].original].older)
  <2>1. p \notin info[q].older
    BY <1>0 DEF SeeInv, StackInv, AgeInv
  <2> QED
    BY <1>0, <1>1, <2>1 DEF SeeInv, CallsNext
<1>5. /\ info'[p].original \in info'[p].older \cup {Orig}
      /\ \A s \in instrumented' \cap info'[p].older :
            info'[p].original \in Made'
            /\ (s = info'[p].original \/ s \in info'[info'[p].original].older)
  BY <1>0, <1>1, <1>2
<1> QED
  BY <1>1, <1>3, <1>4, <1>5 DEF CallsNext

LEMMA AliasesStep ==
    ASSUME Coherent, SeeInv, [Next]_vars
    PROVE  AliasesCurrent'
<1>0. TypeOK /\ TypeOK' /\ Exclusive
  BY TypeStep DEF SeeInv, StackInv, AgeInv, Coherent
<1>1. ASSUME NEW u \in Threads, pend'[u].op = "install", pend'[u] = pend[u],
             \A pl \in pend[u].aliases : place'[pl] = place[pl]
      PROVE  \A pl \in pend'[u].aliases : place'[pl] = pend'[u].target
  BY <1>1 DEF SeeInv, AliasesCurrent
<1>2. ASSUME NEW t \in Threads, NEW p \in Probes, NEW pl \in Targets, Resolve(t, p, pl)
      PROVE  AliasesCurrent'
  <2>1. \A u \in Threads \ {t} : pend'[u] = pend[u]
    BY <1>0, <1>2 DEF Resolve, TypeOK
  <2>2. pend'[t].op = "scan" /\ place' = place
    BY <1>0, <1>2 DEF Resolve, TypeOK
  <2> QED
    BY <1>1, <2>1, <2>2 DEF AliasesCurrent
<1>3. ASSUME NEW t \in Threads, Scan(t) PROVE AliasesCurrent'
  <2>1. \A u \in Threads \ {t} : pend'[u] = pend[u]
    BY <1>0, <1>3 DEF Scan, TypeOK
  <2>2. /\ pend'[t].target = pend[t].target /\ place' = place
        /\ pend'[t].aliases = AliasesOf(pend[t].target, pend[t].at)
    BY <1>0, <1>3 DEF Scan, TypeOK
  <2>3. \A pl \in pend'[t].aliases : place'[pl] = pend'[t].target
    BY <2>2 DEF AliasesOf
  <2> QED
    BY <1>1, <2>1, <2>2, <2>3 DEF AliasesCurrent
<1>4. ASSUME NEW t \in Threads, pend'[t].op # "install", \A u \in Threads \ {t} : pend'[u] = pend[u] /\ ~Injecting(u)
      PROVE  AliasesCurrent'
  BY <1>4 DEF AliasesCurrent, Injecting
<1>5. ASSUME NEW t \in Threads, Install(t) PROVE AliasesCurrent'
  BY <1>0, <1>4, <1>5 DEF Install, TypeOK, MayChange
<1>6. ASSUME NEW t \in Threads, NEW p \in Probes, Uninject(t, p) PROVE AliasesCurrent'
  BY <1>0, <1>4, <1>6 DEF Uninject, MayChange
<1>7. ASSUME NEW t \in Threads, UninjectAll(t) PROVE AliasesCurrent'
  BY <1>0, <1>4, <1>7 DEF UninjectAll, MayChange
<1>8. ASSUME NEW t \in Threads, NEW S \in SUBSET instrumented, StartRemoving(t, S)
      PROVE  AliasesCurrent'
  <2>1. /\ \A u \in Threads \ {t} : pend'[u] = pend[u]
        /\ pend'[t].op = "remove" /\ place' = place
    BY <1>0, <1>8 DEF StartRemoving, TypeOK
  <2> QED
    BY <1>1, <2>1 DEF AliasesCurrent
<1>9. ASSUME NEW t \in Threads, RemoveNext(t) PROVE AliasesCurrent'
  <2>1. /\ \A u \in Threads \ {t} : pend'[u] = pend[u] /\ ~Injecting(u)
        /\ pend'[t].op \in {"idle", "remove"}
    BY <1>0, <1>9 DEF RemoveNext, TypeOK, MayChange
  <2> QED
    BY <1>4, <2>1
<1>10. ASSUME NEW y \in Late, NEW pl \in Places, Bind(y, pl) PROVE AliasesCurrent'
  <2>1. \A u \in Threads : pend[u].op = "install" => pend[u].target # NoFn
    BY <1>0, PendShape, ConstantsAssumption DEF Fn
  <2>2. pend' = pend /\ place[y] = NoFn /\ \A a \in Places \ {y} : place'[a] = place[a]
    BY <1>0, <1>10, ConstantsAssumption DEF Bind, TypeOK
  <2>3. \A u \in Threads : pend[u].op = "install" => y \notin pend[u].aliases /\ pend[u].aliases \subseteq Places
    BY <1>0, <2>1, <2>2, PendShape DEF SeeInv, AliasesCurrent
  <2> QED
    BY <1>1, <2>2, <2>3 DEF AliasesCurrent
<1>11. CASE UNCHANGED vars
  BY <1>11 DEF vars, AliasesCurrent, SeeInv
<1> QED
  BY <1>2, <1>3, <1>5, <1>6, <1>7, <1>8, <1>9, <1>10, <1>11
     DEF Next, Reset, SweepOrphans

LEMMA SeeStep ==
    ASSUME Coherent, SeeInv, [Next]_vars
    PROVE  SeeInv'
<1>1. StackInv' /\ AliasesCurrent'
  BY StackStep, AliasesStep DEF SeeInv
<1>2. ASSUME info' = info, instrumented' \subseteq instrumented PROVE CallsNext'
  BY <1>2 DEF SeeInv, CallsNext, Made
<1>3. CallsNext'
  BY <1>2, InstallCalls
     DEF Next, vars, Resolve, Scan, Uninject, Remove, UninjectAll, Reset, SweepOrphans,
         StartRemoving, RemoveNext, Bind
<1> QED
  BY <1>1, <1>3 DEF SeeInv

\* Under the conditions of Coherent a registered probe sees the calls made through the
\* name it was started on, however many were stacked on it or removed since.
THEOREM EveryProbeSees == Coherent /\ Spec => []LiveProbeSeesCalls
<1> SUFFICES ASSUME Coherent PROVE Spec => []LiveProbeSeesCalls
  OBVIOUS
<1>1. SeeInv => LiveProbeSeesCalls
  <2> SUFFICES ASSUME SeeInv, NEW p \in instrumented PROVE p \in Observers(info[p].at)
    BY DEF LiveProbeSeesCalls
  <2>1. p \in Made /\ instrumented \subseteq Made /\ info[p].at \in Managed /\ info[p].at \in Places
    BY ManagedFacts DEF SeeInv, StackInv, AgeInv, TypeOK, CoversManaged
  <2>2. Observers(info[p].at) = Passing(place[info[p].at])
    BY <2>1, ObserversAre DEF SeeInv, StackInv
  <2> QED
    BY <2>1, <2>2 DEF SeeInv, StackInv, TopIsNewest, Passing
<1>2. SeeInv /\ [Next]_vars => SeeInv'
  BY SeeStep
<1> QED
  BY <1>1, <1>2, SeeInit, PTL DEF Spec

-----------------------------------------------------------------------------
(* The injector implements ProbeObservers *)

Seen == [pl \in Places |-> Observers(pl)]

SeenIsPassing == Seen = [pl \in Places |-> Passing(place[pl])]

LEMMA SeenIs == SeeInv => SeenIsPassing
  BY ObserversAre DEF Seen, SeeInv, StackInv, SeenIsPassing

LEMMA SeenWill == SeeInv' => SeenIsPassing'
  BY SeenIs, PTL

\* A removal takes the probe from every name and changes nothing else: what takes its
\* place lets pass the same registered probes.
LEMMA RemoveObserved ==
    ASSUME Coherent, SeeInv, SeeInv', NEW p \in instrumented, Remove(p)
    PROVE  Abstract!Stop({p})
<1>0. /\ TypeOK /\ p \in Made /\ info' = info /\ Made' = Made /\ instrumented' = instrumented \ {p}
      /\ instrumented \subseteq Made
  BY DEF SeeInv, StackInv, AgeInv, TypeOK, Remove, Made
<1>1. Below(p) = wrapped[p] /\ wrapped[p] \in instrumented \cup {Orig} /\ wrapped[p] # p
  BY BelowIsNext DEF SeeInv, StackInv, LinksToNext
<1>2. Orig \notin Made
  BY <1>0, ConstantsAssumption DEF TypeOK
<1>3. p \notin info[p].older
  BY <1>0 DEF SeeInv, StackInv, OlderIsOrder
<1>4. ASSUME NEW pl \in Places PROVE Passing(place[pl])' = Passing(place[pl]) \ {p}
  <2>1. CASE place'[pl] = place[pl]
    BY <1>0, <2>1 DEF Passing
  <2>2. CASE place'[pl] # place[pl]
    <3>1. place'[pl] = wrapped[p]
      BY <1>1, <2>2 DEF Remove, Uncovered
    <3>2. place[pl] = p
      <4>1. CASE pl = info[p].at
        BY <2>2, <4>1 DEF Remove, Uncovered
      <4> QED
        BY <2>2, <4>1 DEF Remove, Uncovered
    <3>3. Passing(place[pl]) \ {p} = instrumented \cap info[p].older
      BY <1>0, <1>3, <3>2 DEF Passing
    <3>4. CASE wrapped[p] = Orig
      <4>1. instrumented \cap info[p].older = {}
        BY <1>0, <1>2, <3>4 DEF SeeInv, StackInv, LinksToNext
      <4> QED
        BY <1>0, <1>2, <3>1, <3>3, <3>4, <4>1 DEF Passing
    <3>5. CASE wrapped[p] \in instrumented
      <4>1. wrapped[p] \in Probes /\ wrapped[p] \in info[p].older
        BY <1>0, <3>5 DEF SeeInv, StackInv, AgeInv, TypeOK, UnwrapTerminates
      <4>2. info[wrapped[p]].older \subseteq info[p].older
        BY <1>0, <4>1 DEF SeeInv, StackInv, AgeInv
      <4>3. instrumented \cap info[p].older = instrumented \cap ({wrapped[p]} \cup info[wrapped[p]].older)
        BY <1>0, <3>5, <4>1, <4>2 DEF SeeInv, StackInv, LinksToNext
      <4>4. Passing(place[pl])' = (instrumented \ {p}) \cap ({wrapped[p]} \cup info[wrapped[p]].older)
        BY <1>0, <3>1, <3>5 DEF Passing
      <4>5. p \notin info[wrapped[p]].older
        BY <1>3, <4>2
      <4> QED
        BY <1>1, <3>3, <4>3, <4>4, <4>5
    <3> QED
      BY <1>1, <3>4, <3>5
  <2> QED
    BY <2>1, <2>2
<1>5. SeenIsPassing /\ SeenIsPassing'
  BY SeenIs, SeenWill
<1> QED
  BY <1>4, <1>5 DEF SeenIsPassing, Seen, Abstract!Stop

\* An injection adds the probe to the names it was put on, which held its target: all
\* the registered probes were seen there.
LEMMA InstallObserved ==
    ASSUME Coherent, SeeInv, SeeInv', NEW t \in Threads, Install(t)
    PROVE  Abstract!Start(pend[t].probe, {pend[t].at} \cup pend[t].aliases)
<1> DEFINE r == pend[t]
           p == r.probe
           names == {r.at} \cup r.aliases
<1>0. /\ TypeOK /\ Injecting(t) /\ p \in Probes /\ p \notin Made /\ instrumented \subseteq Made
      /\ r.at \in Targets /\ r.target = place[r.at] /\ r.at \in Managed /\ r.at \notin ReadOnly
      /\ r.aliases \subseteq Places /\ Managed \subseteq Places
      /\ \A pl \in r.aliases : place[pl] = r.target
  BY PendShape, ManagedFacts
     DEF SeeInv, StackInv, AgeInv, TypeOK, PendingCurrent, Injecting, Install, AliasesCurrent, Coherent
<1>1. /\ Made' = Made \cup {p} /\ instrumented' = instrumented \cup {p}
      /\ info'[p].older = Made
      /\ \A q \in Made : info'[q] = info[q]
      /\ \A pl \in Places : place'[pl] = IF pl \in names THEN p ELSE place[pl]
  BY <1>0 DEF Install, Made, NewInfo
<1>2. Passing(r.target) = instrumented
  <2>1. CASE instrumented = {}
    BY <1>0, <2>1 DEF Passing
  <2>2. CASE instrumented # {}
    BY <1>0, <2>2 DEF Passing, SeeInv, StackInv, TopIsNewest
  <2> QED
    BY <2>1, <2>2
<1>3. ASSUME NEW pl \in Places
      PROVE  Passing(place[pl])' = IF pl \in names THEN Passing(place[pl]) \cup {p} ELSE Passing(place[pl])
  <2>1. CASE pl \in names
    <3>1. Passing(place[pl]) = instrumented
      BY <1>0, <1>2, <2>1
    <3>2. Passing(place[pl])' = instrumented \cup {p}
      BY <1>0, <1>1, <2>1 DEF Passing
    <3> QED
      BY <2>1, <3>1, <3>2
  <2>2. CASE pl \notin names
    <3>1. place'[pl] = place[pl]
      BY <1>1, <2>2
    <3>2. place[pl] # p
      BY <1>0 DEF SeeInv, StackInv, AgeInv
    <3>3. CASE place[pl] \in Made
      <4>1. p \notin info[place[pl]].older
        BY <1>0, <3>3 DEF SeeInv, StackInv, AgeInv
      <4> QED
        BY <1>1, <2>2, <3>1, <3>2, <3>3, <4>1, SMTT(20) DEF Passing
    <3>4. CASE place[pl] \notin Made
      BY <1>1, <2>2, <3>1, <3>2, <3>4 DEF Passing
    <3> QED
      BY <3>3, <3>4
  <2> QED
    BY <2>1, <2>2
<1>4. SeenIsPassing /\ SeenIsPassing'
  BY SeenIs, SeenWill
<1>5. \A pl \in Places : p \notin Passing(place[pl])
  BY <1>0 DEF Passing
<1> QED
  BY <1>3, <1>4, <1>5, ZenonT(30) DEF SeenIsPassing, Seen, Abstract!Start

\* Stops of all empty what every name sees.
LEMMA UninjectAllObserved ==
    ASSUME SeeInv, SeeInv', NEW t \in Threads, UninjectAll(t)
    PROVE  Abstract!Stop(Probes)
<1>1. instrumented \subseteq Probes /\ instrumented' = {}
  BY DEF SeeInv, StackInv, AgeInv, TypeOK, UninjectAll
<1>2. \A pl \in Places : Passing(place[pl])' = Passing(place[pl]) \ Probes
  BY <1>1 DEF Passing
<1>3. SeenIsPassing /\ SeenIsPassing'
  BY SeenIs, SeenWill
<1> QED
  BY <1>2, <1>3 DEF SeenIsPassing, Seen, Abstract!Stop

LEMMA BindObserved ==
    ASSUME SeeInv, SeeInv', NEW y \in Late, NEW pl \in Places, Bind(y, pl)
    PROVE  Abstract!Copy(y, pl)
<1>1. y \in Places /\ TypeOK /\ NoFn \notin Made
  BY ConstantsAssumption DEF SeeInv, StackInv, AgeInv, TypeOK
<1>2. \A a \in Places : Passing(place[a])' = IF a = y THEN Passing(place[pl]) ELSE Passing(place[a])
  BY <1>1 DEF Bind, Passing, TypeOK, Made
<1>3. Passing(place[y]) = {}
  BY <1>1 DEF Bind, Passing
<1>4. SeenIsPassing /\ SeenIsPassing'
  BY SeenIs, SeenWill
<1> QED
  BY <1>1, <1>2, <1>3, <1>4, ZenonT(30) DEF SeenIsPassing, Seen, Abstract!Copy

\* What leaves the registry and the names alone changes nothing of what is seen.
LEMMA SameObserved ==
    ASSUME SeeInv, SeeInv', UNCHANGED <<place, instrumented, info>>
    PROVE  Seen' = Seen
<1>1. \A pl \in Places : Passing(place[pl])' = Passing(place[pl])
  BY DEF Passing, Made
<1>2. SeenIsPassing /\ SeenIsPassing'
  BY SeenIs, SeenWill
<1> QED
  BY <1>1, <1>2 DEF SeenIsPassing

LEMMA ObservedStep ==
    ASSUME Coherent, SeeInv, SeeInv', [Next]_vars
    PROVE  [Abstract!Next]_Seen
<1>0. TypeOK
  BY DEF SeeInv, StackInv, AgeInv
<1>1. ASSUME UNCHANGED <<place, instrumented, info>> PROVE [Abstract!Next]_Seen
  BY <1>1, SameObserved
<1>2. ASSUME NEW p \in instrumented, Remove(p) PROVE Abstract!Next
  <2>1. Abstract!Stop({p}) /\ {p} \in SUBSET Probes
    BY <1>0, <1>2, RemoveObserved DEF TypeOK
  <2> QED
    BY <2>1 DEF Abstract!Next
<1>3. ASSUME NEW t \in Threads, Install(t) PROVE Abstract!Next
  <2>1. /\ pend[t].probe \in Probes /\ {pend[t].at} \cup pend[t].aliases \in SUBSET Places
        /\ Abstract!Start(pend[t].probe, {pend[t].at} \cup pend[t].aliases)
    BY <1>0, <1>3, InstallObserved, PendShape DEF Install
  <2> QED
    BY <2>1 DEF Abstract!Next
<1>4. ASSUME NEW t \in Threads, UninjectAll(t) PROVE Abstract!Next
  BY <1>4, UninjectAllObserved DEF Abstract!Next
<1>5. ASSUME NEW y \in Late, NEW pl \in Places, Bind(y, pl) PROVE Abstract!Next
  <2>1. y \in Places /\ Abstract!Copy(y, pl)
    BY <1>5, BindObserved, ConstantsAssumption
  <2> QED
    BY <2>1 DEF Abstract!Next
<1>6. ASSUME NEW t \in Threads, RemoveNext(t) PROVE [Abstract!Next]_Seen
  BY <1>1, <1>2, <1>6 DEF RemoveNext
<1> QED
  BY <1>1, <1>2, <1>3, <1>4, <1>5, <1>6
     DEF Next, vars, Resolve, Scan, Uninject, Reset, SweepOrphans, StartRemoving

\* Under the conditions of Coherent the injector is the abstract ProbeObservers: each
\* start, stop, reset, sweep and stop of all changes what the probes it is about see,
\* and nothing that another probe sees, through any name, even one that the application
\* bound to a wrapper meanwhile.
THEOREM ImplementsObservers == Coherent /\ Spec => ObserversIndependent
<1> SUFFICES ASSUME Coherent PROVE Spec => ObserversIndependent
  OBVIOUS
<1>1. SeeInv /\ [Next]_vars => SeeInv'
  BY SeeStep
<1>2. Init => Abstract!Init
  <2> SUFFICES ASSUME Init PROVE Abstract!Init
    OBVIOUS
  <2>1. SeenIsPassing
    BY SeeInit, SeenIs
  <2>2. \A pl \in Places : Passing(place[pl]) = {}
    BY DEF Init, Passing
  <2> QED
    BY <2>1, <2>2 DEF SeenIsPassing, Seen, Abstract!Init
<1>3. SeeInv /\ SeeInv' /\ [Next]_vars => [Abstract!Next]_[pl \in Places |-> Observers(pl)]
  BY ObservedStep DEF Seen
<1> QED
  BY <1>1, <1>2, <1>3, SeeInit, PTL DEF Spec, ObserversIndependent, Abstract!Spec

=============================================================================
