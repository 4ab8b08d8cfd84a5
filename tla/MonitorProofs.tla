----------------------------- MODULE MonitorProofs -----------------------------
(***************************************************************************)
(* Theorems about the wrappers of monitors and probes in one slot           *)
(* (MonitorStack).  Two invariants: the wrappers can be numbered so that    *)
(* each calls, links to and has on record only older ones, whatever was     *)
(* repaired (StackInv), so that every call gets to the body; and while no   *)
(* probe was stopped from under a monitor, the slot and the records name    *)
(* only what is registered, or the body (RestoreInv).                       *)
(***************************************************************************)
EXTENDS MonitorStack, SequenceTheorems, FiniteSetTheorems, WellFoundedInduction, TLAPS

\* A set of numbers has a least one.
LEMMA Least ==
    ASSUME NEW S \in SUBSET Nat, S # {}
    PROVE  \E n \in S : \A k \in S : n <= k
<1>1. PICK n \in S : \A k \in S : ~(<<k, n>> \in OpToRel(<, Nat))
  BY NatLessThanWellFounded, WFMin
<1>2. \A k \in S : ~(k < n)
  BY <1>1, Zenon DEF OpToRel
<1> QED
  BY <1>2

-----------------------------------------------------------------------------
(* The wrappers of monitors and probes *)

Used == {w \in Wraps : callee[w] # NoWrap}

\* Some numbering of the wrappers in the order they were made: each calls, links to
\* and has on record only what is older than itself, or the application's function.
Older(f, w, age, used) == f \in used \cup {Body} /\ age[f] < age[w]
OlderIfAny(f, w, age, used) == f = NoWrap \/ Older(f, w, age, used)

ByAge(age) ==
    /\ age \in [Funs -> Nat]
    /\ \A w \in Used : Older(callee[w], w, age, Used) /\ Older(links[w], w, age, Used)
    /\ \A m \in Monitors \cap Used :
          /\ Older(monInfo[m].original, m, age, Used)
          /\ OlderIfAny(monInfo[m].root, m, age, Used)
    /\ \A w \in Watches \cap Used :
          /\ Older(watchInfo[w].original, w, age, Used)
          /\ OlderIfAny(watchInfo[w].previous, w, age, Used)
          /\ Older(watchInfo[w].root, w, age, Used)

\* What is registered was made, once.
StackInv ==
    /\ MonitorTypeOK
    /\ slot \in Used \cup {Body} /\ mons \subseteq Used /\ Live \subseteq Used
    /\ \A i, j \in DOMAIN watches : watches[i] = watches[j] => i = j
    /\ \A m \in mons : links[m] = monInfo[m].original
    /\ \E age \in [Funs -> Nat] : ByAge(age)

LEMMA WayWithin ==
    ASSUME NEW f, NEW next, NEW S \in SUBSET Funs, f \in S \cup {NoWrap},
           \A h \in S \cap Wraps : next[h] \in S \cup {NoWrap}
    PROVE  Way(f, next) \subseteq S
  BY DEF Way

\* A search for a live wrapper stays within what the links lead to.
LEMMA SearchWithin ==
    ASSUME NEW m \in Monitors, NEW live \in SUBSET Wraps, NEW S \in SUBSET Funs,
           links[m] \in S \cup {NoWrap},
           \A h \in (S \cap Wraps) \ live : links[h] \in S \cup {NoWrap}
    PROVE  LowerLive(m, live) = NoWrap \/ LowerLive(m, live) \in S \cap live
<1> DEFINE next == [w \in Wraps |-> IF w \in live THEN NoWrap ELSE links[w]]
           way == Way(links[m], next)
<1>1. way \subseteq S
  <2>1. \A h \in S \cap Wraps : next[h] \in S \cup {NoWrap}
    OBVIOUS
  <2> HIDE DEF next
  <2> QED
    BY <2>1, WayWithin
<1>2. LowerLive(m, live) = IF way \cap live = {} \/ Cardinality(way) > 32 THEN NoWrap
                           ELSE CHOOSE f \in way : f \in live
  BY DEF LowerLive
<1> HIDE DEF way
<1>3. CASE way \cap live = {} \/ Cardinality(way) > 32
  BY <1>2, <1>3
<1>4. CASE ~(way \cap live = {} \/ Cardinality(way) > 32)
  <2>1. \E f \in way : f \in live
    BY <1>4
  <2>2. (CHOOSE f \in way : f \in live) \in way \cap live
    BY <2>1
  <2> QED
    BY <1>1, <1>2, <1>4, <2>2
<1> QED
  BY <1>3, <1>4

\* Whatever replaces a removed monitor is older than it.
LEMMA ReplacedByOlder ==
    ASSUME StackInv, NEW age \in [Funs -> Nat], ByAge(age), NEW m \in mons,
           NEW live \in SUBSET Used
    PROVE  Older(Replacement(m, live), m, age, Used)
<1>1. m \in Monitors \cap Used /\ m \in Wraps
  BY DEF StackInv, MonitorTypeOK, Wraps
<1> DEFINE S == {f \in Used \cup {Body} : age[f] < age[m]}
<1>2. S \in SUBSET Funs /\ live \in SUBSET Wraps
  BY DEF Used, Funs
<1>3. links[m] \in S
  BY <1>1 DEF ByAge, Older
<1>4. ASSUME NEW h \in S \cap Wraps PROVE links[h] \in S
  <2>1. h \in Used /\ h \in Funs /\ age[h] < age[m]
    BY <1>4, MonitorAssumption DEF Used, Wraps, Funs
  <2>2. links[h] \in Used \cup {Body} /\ age[links[h]] < age[h]
    BY <2>1 DEF ByAge, Older
  <2>3. links[h] \in Funs /\ m \in Funs
    BY <1>1, <2>2 DEF Used, Funs
  <2> QED
    BY <2>1, <2>2, <2>3
<1>5. LowerLive(m, live) = NoWrap \/ LowerLive(m, live) \in S
  <2> HIDE DEF S
  <2> QED
    BY <1>1, <1>2, <1>3, <1>4, SearchWithin
<1>6. monInfo[m].original \in S /\ (monInfo[m].root = NoWrap \/ monInfo[m].root \in S)
  BY <1>1 DEF ByAge, Older, OlderIfAny
<1>7. Replacement(m, live) \in S
  BY <1>5, <1>6 DEF Replacement
<1> QED
  BY <1>7 DEF Older

LEMMA StackInit == MonitorInit => StackInv
<1> SUFFICES ASSUME MonitorInit PROVE StackInv
  OBVIOUS
<1>1. MonitorTypeOK
  <2>1. slot \in Funs /\ mons \subseteq Monitors /\ watches \in Seq(Watches) /\ undercut \in BOOLEAN
    <3>1. watches = <<>> /\ <<>> \in Seq(Watches)
      BY EmptySeq DEF MonitorInit
    <3> QED
      BY <3>1 DEF MonitorInit, Funs
  <2>2. /\ monInfo \in [Monitors -> [original : Funs \cup {NoWrap}, root : Funs \cup {NoWrap}]]
        /\ watchInfo \in [Watches -> [original : Funs \cup {NoWrap},
                             previous : Funs \cup {NoWrap}, root : Funs \cup {NoWrap}]]
    BY DEF MonitorInit
  <2>3. callee \in [Wraps -> Funs \cup {NoWrap}] /\ links \in [Wraps -> Funs \cup {NoWrap}]
    BY DEF MonitorInit
  <2> QED
    BY <2>1, <2>2, <2>3 DEF MonitorTypeOK
<1>2. Used = {} /\ Live = {}
  BY DEF MonitorInit, Used, Live
<1>3. ByAge([f \in Funs |-> 0])
  BY <1>2 DEF ByAge
<1>4. [f \in Funs |-> 0] \in [Funs -> Nat] /\ DOMAIN watches = {}
  BY DEF MonitorInit
<1> QED
  BY <1>1, <1>2, <1>3, <1>4 DEF StackInv, MonitorInit

LEMMA LiveAre == MonitorTypeOK => Live \subseteq Watches
  BY DEF MonitorTypeOK, Live

LEMMA RootsTyped ==
    ASSUME MonitorTypeOK, NEW f
    PROVE  KnownRoot(f) \in Funs \cup {NoWrap}
<1>1. Live \subseteq Watches /\ mons \subseteq Monitors
  BY LiveAre DEF MonitorTypeOK
<1>2. CASE f \in Live
  BY <1>1, <1>2 DEF KnownRoot, MonitorTypeOK
<1>3. CASE f \notin Live /\ f \in mons
  BY <1>1, <1>3 DEF KnownRoot, MonitorTypeOK
<1>4. CASE f \notin Live /\ f \notin mons
  BY <1>4 DEF KnownRoot
<1> QED
  BY <1>2, <1>3, <1>4

\* A wrapper that is put on top is younger than what it finds there.
LEMMA PutOnTopByAge ==
    ASSUME StackInv, NEW w \in Wraps, Unused(w), PutOnTop(w),
           NEW age \in [Funs -> Nat], ByAge(age)
    PROVE  /\ Used' = Used \cup {w} /\ w \notin Used /\ slot' = w
           /\ callee' \in [Wraps -> Funs \cup {NoWrap}]
           /\ links' \in [Wraps -> Funs \cup {NoWrap}]
           /\ callee'[w] = slot /\ links'[w] = slot
           /\ \A v \in Used : callee'[v] = callee[v] /\ links'[v] = links[v]
           /\ \E new \in [Funs -> Nat] :
                 /\ Older(slot, w, new, Used')
                 /\ \A f : Older(f, slot, age, Used) => Older(f, w, new, Used')
                 /\ \A f : \A v \in Used :
                       Older(f, v, age, Used) => Older(f, v, new, Used')
<1>0. PICK s, n, new : s = slot /\ n = age[s] + 1 /\ new = [age EXCEPT ![w] = n]
  OBVIOUS
<1>1. /\ s \in Used \cup {Body} /\ s \in Funs /\ Used \subseteq Wraps /\ Wraps \subseteq Funs
      /\ Body \in Funs /\ Body \notin Wraps /\ NoWrap \notin Funs
  BY <1>0, MonitorAssumption DEF StackInv, Used, Wraps, Funs
<1>2. w \notin Used /\ w # Body /\ w \in Funs
  BY <1>1 DEF Unused, Used
<1>3. /\ callee \in [Wraps -> Funs \cup {NoWrap}] /\ links \in [Wraps -> Funs \cup {NoWrap}]
      /\ callee' = [callee EXCEPT ![w] = s] /\ links' = [links EXCEPT ![w] = s]
      /\ slot' = w
  BY <1>0 DEF StackInv, MonitorTypeOK, PutOnTop
<1>4. /\ callee' \in [Wraps -> Funs \cup {NoWrap}] /\ links' \in [Wraps -> Funs \cup {NoWrap}]
      /\ callee'[w] = s /\ links'[w] = s
      /\ \A v \in Wraps \ {w} : callee'[v] = callee[v] /\ links'[v] = links[v]
  BY <1>1, <1>3
<1>5. Used' = Used \cup {w}
  <2>1. \A v \in Wraps : callee'[v] # NoWrap <=> v = w \/ callee[v] # NoWrap
    BY <1>1, <1>4
  <2> QED
    BY <2>1 DEF Used
<1>6. /\ age[s] \in Nat /\ n \in Nat /\ new \in [Funs -> Nat] /\ new[w] = n
      /\ \A f \in Funs \ {w} : new[f] = age[f]
  BY <1>0, <1>1, <1>2
<1>7. Older(s, w, new, Used')
  BY <1>0, <1>1, <1>2, <1>5, <1>6 DEF Older
<1>8. \A f \in Used \cup {Body} : f # w /\ f \in Funs /\ new[f] = age[f]
  BY <1>1, <1>2, <1>6
<1>9. ASSUME NEW v \in Used, NEW f, Older(f, v, age, Used) PROVE Older(f, v, new, Used')
  BY <1>5, <1>8, <1>9 DEF Older
<1>10. ASSUME NEW f, Older(f, s, age, Used) PROVE Older(f, w, new, Used')
  BY <1>0, <1>1, <1>5, <1>6, <1>8, <1>10 DEF Older
<1>11. \A v \in Used : callee'[v] = callee[v] /\ links'[v] = links[v]
  BY <1>1, <1>2, <1>4
<1>12. \E x \in [Funs -> Nat] :
          /\ Older(s, w, x, Used')
          /\ \A f : Older(f, s, age, Used) => Older(f, w, x, Used')
          /\ \A f : \A v \in Used : Older(f, v, age, Used) => Older(f, v, x, Used')
  BY <1>6, <1>7, <1>9, <1>10
<1> QED
  BY <1>0, <1>2, <1>3, <1>4, <1>5, <1>11, <1>12

LEMMA StartMonitorStack ==
    ASSUME StackInv, NEW m \in Monitors, StartMonitor(m)
    PROVE  StackInv'
<1>0. PICK root : root = KnownRoot(slot)
  OBVIOUS
<1>1. /\ m \in Wraps /\ m \notin Watches /\ Body \notin Wraps /\ NoWrap \notin Funs
      /\ Monitors \subseteq Wraps /\ Watches \subseteq Wraps /\ Monitors \cap Watches = {}
  BY MonitorAssumption DEF Wraps, Funs
<1>2. /\ Unused(m) /\ mons' = mons \cup {m} /\ PutOnTop(m)
      /\ monInfo' = [monInfo EXCEPT ![m] = [original |-> slot, root |-> root]]
      /\ UNCHANGED <<watches, watchInfo, undercut>> /\ Live' = Live
  BY <1>0 DEF StartMonitor, Live
<1>3. root \in Funs \cup {NoWrap}
  BY <1>0, RootsTyped DEF StackInv
<1>4. PICK age \in [Funs -> Nat] : ByAge(age)
  BY DEF StackInv
<1>5. PICK s : s = slot
  OBVIOUS
<1>6. s \in Funs /\ s \in Used \cup {Body}
  BY <1>4, <1>5 DEF StackInv, MonitorTypeOK
<1>7. /\ Used' = Used \cup {m} /\ m \notin Used /\ slot' = m
      /\ callee' \in [Wraps -> Funs \cup {NoWrap}] /\ links' \in [Wraps -> Funs \cup {NoWrap}]
      /\ callee'[m] = s /\ links'[m] = s
      /\ \A v \in Used : callee'[v] = callee[v] /\ links'[v] = links[v]
  BY <1>1, <1>2, <1>4, <1>5, PutOnTopByAge
<1>9. PICK new \in [Funs -> Nat] :
          /\ Older(s, m, new, Used')
          /\ \A f : Older(f, s, age, Used) => Older(f, m, new, Used')
          /\ \A f : \A v \in Used : Older(f, v, age, Used) => Older(f, v, new, Used')
  BY <1>1, <1>2, <1>4, <1>5, PutOnTopByAge
<1>10. /\ monInfo' \in [Monitors -> [original : Funs \cup {NoWrap}, root : Funs \cup {NoWrap}]]
       /\ monInfo'[m].original = s /\ monInfo'[m].root = root
       /\ \A k \in Monitors \ {m} : monInfo'[k] = monInfo[k]
  BY <1>2, <1>3, <1>5, <1>6 DEF StackInv, MonitorTypeOK
<1>11. MonitorTypeOK'
  BY <1>1, <1>2, <1>7, <1>10 DEF StackInv, MonitorTypeOK, Funs
<1>12. OlderIfAny(root, s, age, Used)
  BY <1>0, <1>1, <1>4, <1>5, LiveAre DEF KnownRoot, StackInv, ByAge, OlderIfAny, MonitorTypeOK
<1>13. OlderIfAny(root, m, new, Used')
  BY <1>9, <1>12 DEF OlderIfAny
<1>14. ByAge(new)'
  <2>1. Used \subseteq Wraps /\ Used \subseteq Funs /\ Used \cup {Body} \subseteq Funs
    BY DEF Used, Funs
  <2>2. ASSUME NEW f, NEW v \in Used
        PROVE  /\ Older(f, v, age, Used) => Older(f, v, new, Used')
               /\ OlderIfAny(f, v, age, Used) => OlderIfAny(f, v, new, Used')
    BY <1>9, <2>2 DEF Older, OlderIfAny
  <2>3. ASSUME NEW w \in Used' PROVE Older(callee'[w], w, new, Used') /\ Older(links'[w], w, new, Used')
    <3>1. CASE w = m
      BY <1>7, <1>9, <3>1
    <3>2. CASE w # m
      BY <1>4, <1>7, <2>2, <3>2 DEF ByAge
    <3> QED
      BY <3>1, <3>2
  <2>4. ASSUME NEW k \in Monitors \cap Used'
        PROVE  Older(monInfo'[k].original, k, new, Used') /\ OlderIfAny(monInfo'[k].root, k, new, Used')
    <3>1. CASE k = m
      BY <1>9, <1>10, <1>13, <3>1
    <3>2. CASE k # m
      BY <1>4, <1>7, <1>10, <2>2, <3>2 DEF ByAge
    <3> QED
      BY <3>1, <3>2
  <2>5. ASSUME NEW w \in Watches \cap Used'
        PROVE  /\ Older(watchInfo'[w].original, w, new, Used')
               /\ OlderIfAny(watchInfo'[w].previous, w, new, Used')
               /\ Older(watchInfo'[w].root, w, new, Used')
    <3>1. w \in Used
      BY <1>1, <1>7, <2>5
    <3> QED
      BY <1>2, <1>4, <2>2, <3>1 DEF ByAge
  <2> QED
    BY <1>9, <2>3, <2>4, <2>5 DEF ByAge
<1> QED
  BY <1>1, <1>2, <1>7, <1>9, <1>10, <1>11, <1>14 DEF StackInv

LEMMA StartWatchStack ==
    ASSUME StackInv, NEW w \in Watches, StartWatch(w)
    PROVE  StackInv'
<1>0. PICK s, root, previous :
          /\ s = slot /\ previous = (IF slot \in Live THEN slot ELSE NoWrap)
          /\ root = (IF slot \in Live THEN watchInfo[slot].root ELSE slot)
  OBVIOUS
<1>1. /\ w \in Wraps /\ w \notin Monitors /\ Body \notin Wraps /\ NoWrap \notin Funs
      /\ Monitors \subseteq Wraps /\ Watches \subseteq Wraps /\ Monitors \cap Watches = {}
  BY MonitorAssumption DEF Wraps, Funs
<1>2. /\ Unused(w) /\ watches' = Append(watches, w) /\ PutOnTop(w)
      /\ watchInfo' = [watchInfo EXCEPT ![w] =
             [original |-> s, previous |-> previous, root |-> root]]
      /\ UNCHANGED <<mons, monInfo, undercut>>
  BY <1>0 DEF StartWatch
<1>3. PICK age \in [Funs -> Nat] : ByAge(age)
  BY DEF StackInv
<1>4. s \in Funs /\ s \in Used \cup {Body} /\ w \notin Used /\ Live \subseteq Used
  BY <1>0, <1>1, <1>2 DEF StackInv, MonitorTypeOK, Unused, Used
<1>5. /\ root \in Funs /\ (root = s \/ Older(root, s, age, Used))
      /\ previous \in Funs \cup {NoWrap} /\ (previous = s \/ previous = NoWrap)
  <2>1. CASE s \in Live
    <3>1. s \in Watches \cap Used /\ root = watchInfo[s].root /\ Older(root, s, age, Used)
      BY <1>0, <1>3, <1>4, <2>1, LiveAre DEF StackInv, ByAge
    <3>2. root \in Funs
      BY <3>1 DEF Older, Used, Funs
    <3> QED
      BY <1>0, <1>4, <2>1, <3>1, <3>2
  <2>2. CASE s \notin Live
    BY <1>0, <1>4, <2>2
  <2> QED
    BY <2>1, <2>2
<1>6. /\ watches \in Seq(Watches) /\ watches' \in Seq(Watches)
      /\ Live' = Live \cup {w}
      /\ (\A i, j \in DOMAIN watches : watches[i] = watches[j] => i = j)'
  <2>1. /\ watches \in Seq(Watches) /\ watches' \in Seq(Watches)
        /\ DOMAIN watches = 1..Len(watches) /\ Len(watches) \in Nat
        /\ DOMAIN watches' = 1..(Len(watches) + 1) /\ watches'[Len(watches) + 1] = w
        /\ \A i \in 1..Len(watches) : watches'[i] = watches[i]
    BY <1>2 DEF StackInv, MonitorTypeOK
  <2>2. Live' = Live \cup {w}
    BY <2>1 DEF Live
  <2>3. \A i \in DOMAIN watches : watches[i] # w
    BY <1>4 DEF Live
  <2>4. ASSUME NEW i \in DOMAIN watches', NEW j \in DOMAIN watches', watches'[i] = watches'[j]
        PROVE  i = j
    BY <2>1, <2>3, <2>4, SMTT(20) DEF StackInv
  <2> QED
    BY <2>1, <2>2, <2>4
<1>7. /\ Used' = Used \cup {w} /\ w \notin Used /\ slot' = w
      /\ callee' \in [Wraps -> Funs \cup {NoWrap}] /\ links' \in [Wraps -> Funs \cup {NoWrap}]
      /\ callee'[w] = s /\ links'[w] = s
      /\ \A v \in Used : callee'[v] = callee[v] /\ links'[v] = links[v]
  BY <1>0, <1>1, <1>2, <1>3, PutOnTopByAge
<1>8. PICK new \in [Funs -> Nat] :
          /\ Older(s, w, new, Used')
          /\ \A f : Older(f, s, age, Used) => Older(f, w, new, Used')
          /\ \A f : \A v \in Used : Older(f, v, age, Used) => Older(f, v, new, Used')
  BY <1>0, <1>1, <1>2, <1>3, PutOnTopByAge
<1>9. /\ watchInfo' \in [Watches -> [original : Funs \cup {NoWrap},
                            previous : Funs \cup {NoWrap}, root : Funs \cup {NoWrap}]]
      /\ watchInfo'[w].original = s /\ watchInfo'[w].previous = previous
      /\ watchInfo'[w].root = root
      /\ \A v \in Watches \ {w} : watchInfo'[v] = watchInfo[v]
  BY <1>2, <1>4, <1>5 DEF StackInv, MonitorTypeOK
<1>10. MonitorTypeOK'
  BY <1>1, <1>2, <1>6, <1>7, <1>9 DEF StackInv, MonitorTypeOK, Funs
<1>11. ByAge(new)'
  <2>1. ASSUME NEW f, NEW v \in Used, OlderIfAny(f, v, age, Used)
        PROVE  OlderIfAny(f, v, new, Used')
    BY <1>8, <2>1 DEF OlderIfAny
  <2>2. ASSUME NEW v \in Used'
        PROVE  Older(callee'[v], v, new, Used') /\ Older(links'[v], v, new, Used')
    <3>1. CASE v = w
      BY <1>7, <1>8, <3>1
    <3>2. CASE v # w
      BY <1>3, <1>7, <1>8, <3>2 DEF ByAge
    <3> QED
      BY <3>1, <3>2
  <2>3. ASSUME NEW m \in Monitors \cap Used'
        PROVE  Older(monInfo'[m].original, m, new, Used') /\ OlderIfAny(monInfo'[m].root, m, new, Used')
    <3>1. m \in Used
      BY <1>1, <1>7, <2>3
    <3> QED
      BY <1>2, <1>3, <1>8, <2>1, <3>1 DEF ByAge
  <2>4. ASSUME NEW v \in Watches \cap Used'
        PROVE  /\ Older(watchInfo'[v].original, v, new, Used')
               /\ OlderIfAny(watchInfo'[v].previous, v, new, Used')
               /\ Older(watchInfo'[v].root, v, new, Used')
    <3>1. CASE v = w
      BY <1>5, <1>8, <1>9, <3>1 DEF OlderIfAny
    <3>2. CASE v # w
      BY <1>3, <1>7, <1>8, <1>9, <2>1, <3>2 DEF ByAge
    <3> QED
      BY <3>1, <3>2
  <2> QED
    BY <1>8, <2>2, <2>3, <2>4 DEF ByAge
<1> QED
  BY <1>1, <1>2, <1>6, <1>7, <1>8, <1>10, <1>11 DEF StackInv

\* One of the probes is taken out of their order.
LEMMA StopWatchLive ==
    ASSUME StackInv, NEW w \in Watches, StopWatch(w)
    PROVE  /\ w \in Live /\ Live' = Live \ {w} /\ watches' \in Seq(Watches)
           /\ (\A i, j \in DOMAIN watches : watches[i] = watches[j] => i = j)'
<1>1. PICK i \in DOMAIN watches : watches[i] = w /\ watches' = Without(watches, i)
  BY DEF StopWatch
<1>2. PICK s, t, n : s = watches /\ t = watches' /\ n = Len(watches)
  OBVIOUS
<1>3. s \in Seq(Watches) /\ t = Without(s, i) /\ s[i] = w /\ n = Len(s) /\ i \in DOMAIN s
  BY <1>1, <1>2 DEF StackInv, MonitorTypeOK
<1>4. PICK a, b : a = SubSeq(s, 1, i - 1) /\ b = SubSeq(s, i + 1, n) /\ t = a \o b
  BY <1>3 DEF Without
<1>5. /\ n \in Nat /\ i \in 1..n /\ DOMAIN s = 1..n /\ \A j \in 1..n : s[j] \in Watches
  BY <1>3
<1>6. i \in Int /\ n \in Int /\ i - 1 \in Int /\ i + 1 \in Int /\ i >= 1 /\ i <= n
  BY <1>5
<1>7. a \in Seq(Watches) /\ Len(a) = i - 1 /\ \A j \in 1..(i - 1) : a[j] = s[j]
  <2>1. \A j \in 1..(i - 1) : s[j] \in Watches
    BY <1>5
  <2>2. /\ a \in Seq(Watches) /\ Len(a) = IF 1 <= i - 1 THEN i - 1 - 1 + 1 ELSE 0
        /\ \A j \in 1..(i - 1 - 1 + 1) : a[j] = s[1 + j - 1]
    BY <1>4, <1>6, <2>1, SubSeqProperties
  <2>3. i - 1 - 1 + 1 = i - 1 /\ \A j \in 1..(i - 1) : 1 + j - 1 = j
    BY <1>6
  <2>4. (IF 1 <= i - 1 THEN i - 1 - 1 + 1 ELSE 0) = i - 1
    BY <1>6
  <2> QED
    BY <2>2, <2>3, <2>4
<1>8. b \in Seq(Watches) /\ Len(b) = n - i /\ \A j \in 1..(n - i) : b[j] = s[i + j]
  <2>1. \A j \in (i + 1)..n : s[j] \in Watches
    BY <1>5, <1>6
  <2>2. /\ b \in Seq(Watches) /\ Len(b) = IF i + 1 <= n THEN n - (i + 1) + 1 ELSE 0
        /\ \A j \in 1..(n - (i + 1) + 1) : b[j] = s[i + 1 + j - 1]
    BY <1>4, <1>6, <2>1, SubSeqProperties, SMTT(20)
  <2>3. n - (i + 1) + 1 = n - i /\ \A j \in 1..(n - i) : i + 1 + j - 1 = i + j
    BY <1>6
  <2>4. (IF i + 1 <= n THEN n - (i + 1) + 1 ELSE 0) = n - i
    BY <1>6
  <2> QED
    BY <2>2, <2>3, <2>4
<1>9. /\ t \in Seq(Watches) /\ Len(t) = Len(a) + Len(b)
      /\ \A j \in 1..(Len(a) + Len(b)) : t[j] = IF j <= Len(a) THEN a[j] ELSE b[j - Len(a)]
  BY <1>4, <1>7, <1>8, ConcatProperties, SMTT(20)
<1>10. Len(a) + Len(b) = n - 1
  BY <1>6, <1>7, <1>8
<1>11. DOMAIN t = 1..(n - 1)
  BY <1>9, <1>10, LenProperties
<1>12. ASSUME NEW j \in 1..(n - 1) PROVE t[j] = IF j < i THEN s[j] ELSE s[j + 1]
  <2>1. CASE j < i
    <3>1. j \in 1..(i - 1) /\ j <= i - 1
      BY <1>6, <2>1
    <3> QED
      BY <1>7, <1>9, <1>10, <2>1, <3>1
  <2>2. CASE ~(j < i)
    <3>1. ~(j <= i - 1) /\ j - (i - 1) \in 1..(n - i) /\ i + (j - (i - 1)) = j + 1
      BY <1>6, <2>2
    <3>2. t[j] = b[j - (i - 1)]
      BY <1>7, <1>9, <1>10, <3>1
    <3>3. b[j - (i - 1)] = s[i + (j - (i - 1))]
      BY <1>8, <3>1
    <3> QED
      BY <2>2, <3>1, <3>2, <3>3
  <2> QED
    BY <2>1, <2>2
<1>13. \A j, k \in 1..n : s[j] = s[k] => j = k
  BY <1>2, <1>5 DEF StackInv
<1> DEFINE old(j) == IF j < i THEN j ELSE j + 1
<1>14. \A j \in 1..(n - 1) : old(j) \in 1..n /\ old(j) # i /\ t[j] = s[old(j)]
  BY <1>6, <1>12
<1>15. \A j, k \in 1..(n - 1) : old(j) = old(k) => j = k
  BY <1>6
<1>16. ASSUME NEW j \in 1..n, j # i PROVE \E k \in 1..(n - 1) : old(k) = j
  <2>1. CASE j < i
    <3>1. j \in 1..(n - 1) /\ old(j) = j
      BY <1>6, <2>1
    <3> QED
      BY <3>1
  <2>2. CASE ~(j < i)
    <3>1. j - 1 \in 1..(n - 1) /\ old(j - 1) = j
      BY <1>6, <1>16, <2>2
    <3> QED
      BY <3>1
  <2> QED
    BY <2>1, <2>2
<1> HIDE DEF old
<1>17. ASSUME NEW j \in 1..(n - 1), NEW k \in 1..(n - 1), t[j] = t[k] PROVE j = k
  <2>1. s[old(j)] = s[old(k)] /\ old(j) \in 1..n /\ old(k) \in 1..n
    BY <1>14, <1>17
  <2> QED
    BY <1>13, <1>15, <2>1
<1>18. Live = {s[j] : j \in 1..n} /\ Live' = {t[j] : j \in 1..(n - 1)}
  BY <1>2, <1>5, <1>11 DEF Live
<1>19. ASSUME NEW j \in 1..(n - 1) PROVE t[j] \in Live \ {w}
  <2>1. t[j] = s[old(j)] /\ old(j) \in 1..n /\ old(j) # i
    BY <1>14
  <2>2. s[old(j)] # s[i]
    BY <1>5, <1>13, <2>1
  <2> QED
    BY <1>3, <1>18, <2>1, <2>2
<1>20. ASSUME NEW j \in 1..n, s[j] # w PROVE s[j] \in Live'
  <2>1. PICK k \in 1..(n - 1) : old(k) = j
    BY <1>3, <1>16, <1>20
  <2>2. t[k] = s[j]
    BY <1>14, <2>1
  <2> QED
    BY <1>18, <2>2
<1>21. Live' = Live \ {w} /\ w \in Live
  BY <1>3, <1>5, <1>18, <1>19, <1>20
<1>22. \A j, k \in DOMAIN t : t[j] = t[k] => j = k
  BY <1>11, <1>17
<1> QED
  BY <1>2, <1>9, <1>21, <1>22

LEMMA StopWatchStack ==
    ASSUME StackInv, NEW w \in Watches, StopWatch(w)
    PROVE  StackInv'
<1>1. PICK below : below = (IF links[w] \in Live \ {w} THEN links[w] ELSE watchInfo[w].root)
  OBVIOUS
<1>2. /\ slot' = (IF slot = w THEN below ELSE slot)
      /\ links' = [k \in Wraps |-> IF k \in Live \ {w} /\ links[k] = w THEN below ELSE links[k]]
      /\ undercut' = (undercut \/ w \in Known)
      /\ UNCHANGED <<mons, monInfo, watchInfo, callee>>
  BY <1>1 DEF StopWatch
<1>3. PICK age \in [Funs -> Nat] : ByAge(age)
  BY DEF StackInv
<1>4. /\ w \in Live /\ Live' = Live \ {w} /\ watches' \in Seq(Watches)
      /\ (\A i, j \in DOMAIN watches : watches[i] = watches[j] => i = j)'
      /\ Live \subseteq Used /\ Live \subseteq Watches /\ w \in Used
      /\ Monitors \cap Watches = {} /\ NoWrap \notin Funs /\ Used \subseteq Wraps
      /\ Monitors \subseteq Wraps /\ Watches \subseteq Wraps
  BY StopWatchLive, LiveAre, MonitorAssumption DEF StackInv, Used, Wraps, Funs
<1>5. Used' = Used
  BY <1>2 DEF Used
<1>6. Older(below, w, age, Used) /\ below \in Funs
  BY <1>1, <1>3, <1>4 DEF ByAge, Older, Used, Funs
<1>7. ASSUME NEW k \in Used PROVE Older(links'[k], k, age, Used)
  <2>1. CASE k \in Live \ {w} /\ links[k] = w
    <3>1. links'[k] = below /\ k \in Funs /\ w \in Funs /\ age[w] < age[k]
      BY <1>2, <1>3, <1>4, <2>1 DEF ByAge, Older, Funs
    <3> QED
      BY <1>6, <3>1 DEF Older
  <2>2. CASE ~(k \in Live \ {w} /\ links[k] = w)
    BY <1>2, <1>3, <1>4, <2>2 DEF ByAge
  <2> QED
    BY <2>1, <2>2
<1>8. ByAge(age)'
  BY <1>2, <1>3, <1>5, <1>7 DEF ByAge
<1>9. links' \in [Wraps -> Funs \cup {NoWrap}] /\ slot' \in Funs /\ slot' \in Used \cup {Body}
  BY <1>2, <1>6 DEF StackInv, MonitorTypeOK, Older
<1>10. MonitorTypeOK'
  BY <1>2, <1>4, <1>9 DEF StackInv, MonitorTypeOK
<1>11. \A m \in mons : links'[m] = links[m]
  BY <1>2, <1>4 DEF StackInv, MonitorTypeOK
<1> QED
  BY <1>2, <1>4, <1>5, <1>8, <1>9, <1>10, <1>11 DEF StackInv

LEMMA StopAllStack ==
    ASSUME StackInv, StopAllWatches
    PROVE  StackInv'
<1>1. /\ watches # <<>> /\ slot' = watchInfo[watches[1]].root /\ watches' = <<>>
      /\ undercut' = (undercut \/ Live \cap Known # {})
      /\ UNCHANGED <<mons, monInfo, watchInfo, callee, links>>
  BY DEF StopAllWatches
<1>2. PICK age \in [Funs -> Nat] : ByAge(age)
  BY DEF StackInv
<1>3. watches[1] \in Live /\ watches[1] \in Watches \cap Used
  <2>1. watches \in Seq(Watches) /\ 1 \in DOMAIN watches
    BY <1>1, EmptySeq DEF StackInv, MonitorTypeOK
  <2> QED
    BY <2>1 DEF Live, StackInv
<1>4. Live' = {} /\ Used' = Used /\ DOMAIN watches' = {} /\ watches' \in Seq(Watches)
  BY <1>1, EmptySeq DEF Live, Used
<1>5. slot' \in Used \cup {Body} /\ slot' \in Funs
  BY <1>1, <1>2, <1>3 DEF ByAge, Older, Used, Funs
<1>6. ByAge(age)'
  BY <1>1, <1>2, <1>4 DEF ByAge
<1>7. MonitorTypeOK'
  BY <1>1, <1>4, <1>5 DEF StackInv, MonitorTypeOK
<1> QED
  BY <1>1, <1>4, <1>5, <1>6, <1>7 DEF StackInv

\* What a monitor m that new has replaced leaves in the records of the others ...
MonRecords(m, new) ==
    /\ \A k \in Monitors : k \notin mons' => monInfo'[k] = monInfo[k]
    /\ \A k \in mons' :
          /\ monInfo'[k] = [original |-> monInfo'[k].original, root |-> monInfo'[k].root]
          /\ monInfo'[k].original = IF monInfo[k].original = m THEN new ELSE monInfo[k].original
          /\ monInfo[k].original = m => monInfo'[k].root = Either(monInfo[k].root, monInfo[m].root)
          /\ monInfo[k].original # m =>
                monInfo'[k].root = IF monInfo[k].root = m
                                   THEN Either(monInfo[m].root, monInfo[m].original)
                                   ELSE monInfo[k].root

WatchRecords(m, new) ==
    /\ \A w \in Watches : w \notin Live => watchInfo'[w] = watchInfo[w]
    /\ \A w \in Live :
          /\ watchInfo'[w] = [original |-> watchInfo'[w].original,
                              previous |-> watchInfo'[w].previous, root |-> watchInfo'[w].root]
          /\ watchInfo'[w].original =
                IF watchInfo[w].original = m THEN new ELSE watchInfo[w].original
          /\ watchInfo'[w].previous =
                IF watchInfo[w].previous = m THEN new ELSE watchInfo[w].previous
          /\ watchInfo'[w].root = IF watchInfo[w].root = m /\ monInfo[m].original # w
                                  THEN Either(monInfo[m].root, new) ELSE watchInfo[w].root

LEMMA StopMonitorRecords ==
    ASSUME StackInv, NEW m \in mons, StopMonitor(m), NEW new,
           new = Replacement(m, Live \cup (mons \ {m}))
    PROVE  /\ mons' = mons \ {m} /\ watches' = watches /\ undercut' = undercut /\ Live' = Live
           /\ slot' = IF slot = m THEN new ELSE slot
           /\ MonRecords(m, new) /\ WatchRecords(m, new)
<1>1. /\ monInfo' = MonInfoAfter(m, new) /\ watchInfo' = WatchInfoAfter(m, new)
      /\ slot' = IF slot = m THEN new ELSE slot
      /\ mons' = mons \ {m} /\ watches' = watches /\ undercut' = undercut
  BY DEF StopMonitor
<1>2. Live' = Live /\ Live \subseteq Watches /\ mons \subseteq Monitors
  BY <1>1, LiveAre DEF Live, StackInv, MonitorTypeOK
<1>3. monInfo \in [Monitors -> [original : Funs \cup {NoWrap}, root : Funs \cup {NoWrap}]]
  BY DEF StackInv, MonitorTypeOK
<1>4. ASSUME NEW k \in Monitors, k \notin mons' PROVE monInfo'[k] = monInfo[k]
  BY <1>1, <1>4 DEF MonInfoAfter
<1>5. ASSUME NEW k \in mons'
      PROVE  /\ monInfo'[k] = [original |-> monInfo'[k].original, root |-> monInfo'[k].root]
             /\ monInfo'[k].original =
                   IF monInfo[k].original = m THEN new ELSE monInfo[k].original
             /\ monInfo[k].original = m =>
                   monInfo'[k].root = Either(monInfo[k].root, monInfo[m].root)
             /\ monInfo[k].original # m =>
                   monInfo'[k].root = IF monInfo[k].root = m
                                      THEN Either(monInfo[m].root, monInfo[m].original)
                                      ELSE monInfo[k].root
  <2>1. k \in Monitors /\ k \in mons \ {m}
    BY <1>1, <1>2, <1>5
  <2>2. CASE monInfo[k].original = m
    <3>1. monInfo'[k] = [original |-> new, root |-> Either(monInfo[k].root, monInfo[m].root)]
      BY <1>1, <2>1, <2>2 DEF MonInfoAfter
    <3> QED
      BY <2>2, <3>1
  <2>3. CASE monInfo[k].original # m /\ monInfo[k].root = m
    <3>1. monInfo'[k] = [monInfo[k] EXCEPT !.root = Either(monInfo[m].root, monInfo[m].original)]
      BY <1>1, <2>1, <2>3 DEF MonInfoAfter
    <3> QED
      BY <1>3, <2>1, <2>3, <3>1
  <2>4. CASE monInfo[k].original # m /\ monInfo[k].root # m
    <3>1. monInfo'[k] = monInfo[k]
      BY <1>1, <2>1, <2>4 DEF MonInfoAfter
    <3> QED
      BY <1>3, <2>1, <2>4, <3>1
  <2> QED
    BY <2>2, <2>3, <2>4
<1>6. ASSUME NEW w \in Watches, w \notin Live PROVE watchInfo'[w] = watchInfo[w]
  BY <1>1, <1>6 DEF WatchInfoAfter
<1>7. ASSUME NEW w \in Live
      PROVE  /\ watchInfo'[w] = [original |-> watchInfo'[w].original,
                                 previous |-> watchInfo'[w].previous,
                                 root |-> watchInfo'[w].root]
             /\ watchInfo'[w].original =
                   IF watchInfo[w].original = m THEN new ELSE watchInfo[w].original
             /\ watchInfo'[w].previous =
                   IF watchInfo[w].previous = m THEN new ELSE watchInfo[w].previous
             /\ watchInfo'[w].root =
                   IF watchInfo[w].root = m /\ monInfo[m].original # w
                   THEN Either(monInfo[m].root, new) ELSE watchInfo[w].root
  <2>1. w \in Watches
    BY <1>2
  <2>2. watchInfo'[w] =
            [original |-> IF watchInfo[w].original = m THEN new ELSE watchInfo[w].original,
             previous |-> IF watchInfo[w].previous = m THEN new ELSE watchInfo[w].previous,
             root |-> IF watchInfo[w].root = m /\ monInfo[m].original # w
                      THEN Either(monInfo[m].root, new) ELSE watchInfo[w].root]
    BY <1>1, <2>1 DEF WatchInfoAfter
  <2> QED
    BY <2>2
<1> QED
  <2>1. MonRecords(m, new)
    BY <1>4, <1>5, ZenonT(30) DEF MonRecords
  <2>2. WatchRecords(m, new)
    BY <1>6, <1>7, ZenonT(30) DEF WatchRecords
  <2> QED
    BY <1>1, <1>2, <2>1, <2>2

\* ... and in what their wrappers call and link to.
LEMMA StopMonitorLinks ==
    ASSUME StackInv, NEW m \in mons, StopMonitor(m), NEW new,
           new = Replacement(m, Live \cup (mons \ {m}))
    PROVE  /\ DOMAIN callee' = Wraps /\ DOMAIN links' = Wraps
           /\ \A w \in Wraps : /\ callee'[w] = callee[w] \/ (callee[w] = m /\ callee'[w] = new)
                               /\ links'[w] = links[w] \/ (links[w] = m /\ links'[w] = new)
           /\ \A k \in mons' : links'[k] = monInfo'[k].original
<1>1. PICK above :
        /\ above = {k \in mons \ {m} : monInfo[k].original = m}
                   \cup {w \in Live : m \in {watchInfo[w].original, watchInfo[w].previous}}
        /\ Retarget(above, m, new) /\ mons' = mons \ {m}
  BY DEF StopMonitor
<1>2. Live \subseteq Watches /\ mons \subseteq Monitors /\ Monitors \cap Watches = {}
  BY LiveAre, MonitorAssumption DEF StackInv, MonitorTypeOK
<1>3. DOMAIN callee' = Wraps /\ DOMAIN links' = Wraps
  BY <1>1 DEF Retarget
<1>4. ASSUME NEW w \in Wraps
      PROVE  /\ callee'[w] = IF w \in above /\ callee[w] = m THEN new ELSE callee[w]
             /\ links'[w] = IF w \in above /\ links[w] = m THEN new ELSE links[w]
  BY <1>1, <1>4 DEF Retarget
<1>5. ASSUME NEW k \in mons' PROVE links'[k] = monInfo'[k].original
  <2>1. k \in mons \ {m} /\ k \in Wraps /\ k \notin Live
    BY <1>1, <1>2, <1>5 DEF Wraps
  <2>2. links[k] = monInfo[k].original /\ (k \in above <=> monInfo[k].original = m)
    BY <1>1, <2>1 DEF StackInv
  <2>3. links'[k] = IF k \in above /\ links[k] = m THEN new ELSE links[k]
    BY <1>4, <2>1
  <2>4. MonRecords(m, new)
    BY StopMonitorRecords
  <2>5. monInfo'[k].original = IF monInfo[k].original = m THEN new ELSE monInfo[k].original
    BY <1>5, <2>4 DEF MonRecords
  <2> QED
    BY <2>2, <2>3, <2>5
<1>6. \A w \in Wraps : /\ callee'[w] = callee[w] \/ (callee[w] = m /\ callee'[w] = new)
                       /\ links'[w] = links[w] \/ (links[w] = m /\ links'[w] = new)
  <2> TAKE w \in Wraps
  <2>1. /\ callee'[w] = IF w \in above /\ callee[w] = m THEN new ELSE callee[w]
        /\ links'[w] = IF w \in above /\ links[w] = m THEN new ELSE links[w]
    BY <1>4
  <2> QED
    BY <2>1
<1> QED
  BY <1>3, <1>5, <1>6, Zenon

LEMMA StopMonitorStack ==
    ASSUME StackInv, NEW m \in mons, StopMonitor(m)
    PROVE  StackInv'
<1>0. PICK new : new = Replacement(m, Live \cup (mons \ {m}))
  OBVIOUS
<1>1. /\ mons' = mons \ {m} /\ watches' = watches /\ undercut' = undercut /\ Live' = Live
      /\ slot' = IF slot = m THEN new ELSE slot
  BY <1>0, StopMonitorRecords
<1>2. MonRecords(m, new)
  BY <1>0, StopMonitorRecords
<1>3. WatchRecords(m, new)
  BY <1>0, StopMonitorRecords
<1>4. /\ DOMAIN callee' = Wraps /\ DOMAIN links' = Wraps
      /\ \A w \in Wraps : /\ callee'[w] = callee[w] \/ (callee[w] = m /\ callee'[w] = new)
                          /\ links'[w] = links[w] \/ (links[w] = m /\ links'[w] = new)
      /\ \A k \in mons' : links'[k] = monInfo'[k].original
  BY <1>0, StopMonitorLinks
<1>5. /\ callee' = [w \in Wraps |-> callee'[w]] /\ links' = [w \in Wraps |-> links'[w]]
      /\ monInfo' = [k \in Monitors |-> monInfo'[k]]
      /\ watchInfo' = [w \in Watches |-> watchInfo'[w]]
  <2>1. monInfo' = MonInfoAfter(m, new) /\ watchInfo' = WatchInfoAfter(m, new)
    BY <1>0 DEF StopMonitor
  <2>2. PICK above : Retarget(above, m, new)
    BY <1>0 DEF StopMonitor
  <2>3. callee' = [w \in Wraps |-> callee'[w]] /\ links' = [w \in Wraps |-> links'[w]]
    BY <2>2 DEF Retarget
  <2>4. monInfo' = [k \in Monitors |-> monInfo'[k]]
    BY <2>1 DEF MonInfoAfter
  <2>5. watchInfo' = [w \in Watches |-> watchInfo'[w]]
    BY <2>1 DEF WatchInfoAfter
  <2> QED
    BY <2>3, <2>4, <2>5
<1>6. PICK age \in [Funs -> Nat] : ByAge(age)
  BY DEF StackInv
<1>7. /\ m \in Monitors \cap Used /\ Live \subseteq Used /\ mons \subseteq Monitors
      /\ NoWrap \notin Funs /\ Used \subseteq Wraps /\ Used \cup {Body} \subseteq Funs
      /\ Monitors \subseteq Wraps /\ Watches \subseteq Wraps /\ Live \subseteq Watches
  BY LiveAre, MonitorAssumption DEF StackInv, MonitorTypeOK, Used, Wraps, Funs
<1>8. Older(new, m, age, Used) /\ new \in Used \cup {Body} /\ new \in Funs
  <2>1. Live \cup (mons \ {m}) \in SUBSET Used
    BY DEF StackInv
  <2>2. Older(new, m, age, Used)
    BY <1>0, <1>6, <2>1, ReplacedByOlder
  <2> QED
    BY <1>7, <2>2 DEF Older
<1>9. ASSUME NEW v \in Used, NEW f, Older(m, v, age, Used)
      PROVE  /\ Older(f, m, age, Used) => Older(f, v, age, Used)
             /\ OlderIfAny(f, m, age, Used) => OlderIfAny(f, v, age, Used)
  <2>1. ASSUME Older(f, m, age, Used) PROVE Older(f, v, age, Used)
    <3>1. f \in Funs /\ v \in Funs /\ m \in Funs /\ age[f] < age[m] /\ age[m] < age[v]
      BY <1>7, <1>9, <2>1 DEF Older
    <3>2. age[f] < age[v]
      BY <1>6, <3>1
    <3> QED
      BY <2>1, <3>2 DEF Older
  <2> QED
    BY <2>1 DEF OlderIfAny
<1>10. Used' = Used
  BY <1>4, <1>7, <1>8 DEF Used
<1>11. ASSUME NEW w \in Used
      PROVE  Older(callee'[w], w, age, Used) /\ Older(links'[w], w, age, Used)
  <2>1. w \in Wraps /\ Older(callee[w], w, age, Used) /\ Older(links[w], w, age, Used)
    BY <1>6, <1>7 DEF ByAge
  <2>2. Older(callee'[w], w, age, Used)
    BY <1>4, <1>8, <1>9, <2>1
  <2>3. Older(links'[w], w, age, Used)
    BY <1>4, <1>8, <1>9, <2>1
  <2> QED
    BY <2>2, <2>3
<1>12. ASSUME NEW k \in Monitors \cap Used
       PROVE  /\ Older(monInfo'[k].original, k, age, Used)
              /\ OlderIfAny(monInfo'[k].root, k, age, Used)
  <2>1. /\ Older(monInfo[k].original, k, age, Used) /\ OlderIfAny(monInfo[k].root, k, age, Used)
        /\ Older(monInfo[m].original, m, age, Used) /\ OlderIfAny(monInfo[m].root, m, age, Used)
    BY <1>6, <1>7 DEF ByAge
  <2>2. CASE k \in mons' /\ monInfo[k].original = m
    <3>1. /\ monInfo'[k].original = new
          /\ monInfo'[k].root = Either(monInfo[k].root, monInfo[m].root)
      BY <1>2, <2>2 DEF MonRecords
    <3>2. Older(new, k, age, Used) /\ OlderIfAny(monInfo[m].root, k, age, Used)
      BY <1>8, <1>9, <2>1, <2>2
    <3> QED
      BY <2>1, <3>1, <3>2 DEF Either
  <2>3. CASE ~(k \in mons' /\ monInfo[k].original = m) /\ k \in mons' /\ monInfo[k].root = m
    <3>1. /\ monInfo'[k].original = monInfo[k].original
          /\ monInfo'[k].root = Either(monInfo[m].root, monInfo[m].original)
      BY <1>2, <2>3 DEF MonRecords
    <3>2. Older(m, k, age, Used)
      BY <1>7, <2>1, <2>3 DEF OlderIfAny
    <3>3. Older(monInfo[m].original, k, age, Used) /\ OlderIfAny(monInfo[m].root, k, age, Used)
      BY <1>9, <2>1, <3>2
    <3> QED
      BY <2>1, <3>1, <3>3 DEF Either, OlderIfAny
  <2>4. CASE ~(k \in mons' /\ monInfo[k].original = m) /\ ~(k \in mons' /\ monInfo[k].root = m)
    BY <1>2, <2>1, <2>4 DEF MonRecords
  <2> QED
    BY <2>2, <2>3, <2>4
<1>13. ASSUME NEW w \in Watches \cap Used
       PROVE  /\ Older(watchInfo'[w].original, w, age, Used)
              /\ OlderIfAny(watchInfo'[w].previous, w, age, Used)
              /\ Older(watchInfo'[w].root, w, age, Used)
  <2>1. /\ Older(watchInfo[w].original, w, age, Used)
        /\ OlderIfAny(watchInfo[w].previous, w, age, Used)
        /\ Older(watchInfo[w].root, w, age, Used) /\ OlderIfAny(monInfo[m].root, m, age, Used)
    BY <1>6, <1>7 DEF ByAge
  <2>2. CASE w \in Live
    <3>1. /\ watchInfo'[w].original =
             (IF watchInfo[w].original = m THEN new ELSE watchInfo[w].original)
          /\ watchInfo'[w].previous =
             (IF watchInfo[w].previous = m THEN new ELSE watchInfo[w].previous)
          /\ watchInfo'[w].root =
             (IF watchInfo[w].root = m /\ monInfo[m].original # w
              THEN Either(monInfo[m].root, new) ELSE watchInfo[w].root)
      BY <1>3, <2>2 DEF WatchRecords
    <3>2. Older(watchInfo'[w].original, w, age, Used)
      BY <1>8, <1>9, <2>1, <3>1
    <3>3. OlderIfAny(watchInfo'[w].previous, w, age, Used)
      BY <1>7, <1>8, <1>9, <2>1, <3>1 DEF OlderIfAny
    <3>4. Older(watchInfo'[w].root, w, age, Used)
      BY <1>8, <1>9, <2>1, <3>1 DEF Either, OlderIfAny
    <3> QED
      BY <3>2, <3>3, <3>4
  <2>3. CASE w \notin Live
    BY <1>3, <2>1, <2>3 DEF WatchRecords
  <2> QED
    BY <2>2, <2>3
<1>14. ByAge(age)'
  BY <1>6, <1>10, <1>11, <1>12, <1>13 DEF ByAge
<1>15. MonitorTypeOK'
  <2> DEFINE Any == Funs \cup {NoWrap}
  <2>1. /\ slot' \in Funs /\ mons' \subseteq Monitors /\ watches' \in Seq(Watches)
        /\ undercut' \in BOOLEAN
    BY <1>1, <1>8 DEF StackInv, MonitorTypeOK
  <2>2. callee' \in [Wraps -> Any] /\ links' \in [Wraps -> Any]
    <3>1. \A w \in Wraps : callee'[w] \in Any /\ links'[w] \in Any
      BY <1>4, <1>8 DEF StackInv, MonitorTypeOK
    <3> QED
      BY <1>5, <3>1
  <2>3. monInfo' \in [Monitors -> [original : Any, root : Any]]
    <3>1. ASSUME NEW k \in Monitors PROVE monInfo'[k] \in [original : Any, root : Any]
      <4>1. /\ monInfo[k].original \in Any /\ monInfo[k].root \in Any
            /\ monInfo[m].original \in Any /\ monInfo[m].root \in Any
            /\ monInfo[k] \in [original : Any, root : Any]
        BY <1>7 DEF StackInv, MonitorTypeOK
      <4>2. CASE k \in mons'
        <5>1. monInfo'[k].original \in Any /\ monInfo'[k].root \in Any
          BY <1>2, <1>8, <4>1, <4>2 DEF MonRecords, Either
        <5>2. monInfo'[k] = [original |-> monInfo'[k].original, root |-> monInfo'[k].root]
          BY <1>2, <4>2 DEF MonRecords
        <5> HIDE DEF Any
        <5> QED
          BY <5>1, <5>2
      <4> QED
        BY <1>2, <4>1, <4>2 DEF MonRecords
    <3> QED
      BY <1>5, <3>1
  <2>4. watchInfo' \in [Watches -> [original : Any, previous : Any, root : Any]]
    <3>1. ASSUME NEW w \in Watches
          PROVE  watchInfo'[w] \in [original : Any, previous : Any, root : Any]
      <4>1. /\ watchInfo[w].original \in Any /\ watchInfo[w].previous \in Any
            /\ watchInfo[w].root \in Any /\ monInfo[m].root \in Any
            /\ watchInfo[w] \in [original : Any, previous : Any, root : Any]
        BY <1>7 DEF StackInv, MonitorTypeOK
      <4>2. CASE w \in Live
        <5>1. new \in Any /\ Either(monInfo[m].root, new) \in Any
          BY <1>8, <4>1 DEF Either
        <5>2. /\ watchInfo'[w].original \in {new, watchInfo[w].original}
              /\ watchInfo'[w].previous \in {new, watchInfo[w].previous}
              /\ watchInfo'[w].root \in {Either(monInfo[m].root, new), watchInfo[w].root}
          BY <1>3, <4>2 DEF WatchRecords
        <5>3. /\ watchInfo'[w].original \in Any /\ watchInfo'[w].previous \in Any
              /\ watchInfo'[w].root \in Any
          BY <4>1, <5>1, <5>2, Zenon
        <5>4. watchInfo'[w] = [original |-> watchInfo'[w].original,
                               previous |-> watchInfo'[w].previous,
                               root |-> watchInfo'[w].root]
          BY <1>3, <4>2 DEF WatchRecords
        <5> HIDE DEF Any
        <5> QED
          BY <5>3, <5>4
      <4> QED
        BY <1>3, <4>1, <4>2 DEF WatchRecords
    <3> QED
      BY <1>5, <3>1
  <2> QED
    BY <2>1, <2>2, <2>3, <2>4 DEF MonitorTypeOK
<1>16. slot' \in Used \cup {Body} /\ mons' \subseteq Used /\ Live \subseteq Used
  BY <1>1, <1>8 DEF StackInv
<1>17. (\A i, j \in DOMAIN watches : watches[i] = watches[j] => i = j)'
  BY <1>1 DEF StackInv
<1>18. slot' \in Used' \cup {Body} /\ mons' \subseteq Used' /\ Live' \subseteq Used'
  BY <1>1, <1>10, <1>16
<1>19. (\A k \in mons : links[k] = monInfo[k].original)'
  BY <1>4
<1>20. (\E x \in [Funs -> Nat] : ByAge(x))'
  BY <1>6, <1>14
<1> QED
  BY <1>15, <1>17, <1>18, <1>19, <1>20 DEF StackInv

LEMMA StackStep == StackInv /\ [MonitorNext]_monitorVars => StackInv'
<1> SUFFICES ASSUME StackInv, [MonitorNext]_monitorVars PROVE StackInv'
  OBVIOUS
<1>1. ASSUME NEW m \in Monitors, StartMonitor(m) PROVE StackInv'
  BY <1>1, StartMonitorStack
<1>2. ASSUME NEW m \in Monitors, StopMonitor(m) PROVE StackInv'
  BY <1>2, StopMonitorStack DEF StopMonitor
<1>3. ASSUME NEW w \in Watches, StartWatch(w) PROVE StackInv'
  BY <1>3, StartWatchStack
<1>4. ASSUME NEW w \in Watches, StopWatch(w) PROVE StackInv'
  BY <1>4, StopWatchStack
<1>5. CASE StopAllWatches
  BY <1>5, StopAllStack
<1>6. CASE UNCHANGED monitorVars
  <2>1. UNCHANGED <<slot, mons, monInfo, watches, watchInfo, callee, links, undercut>>
    BY <1>6 DEF monitorVars
  <2>2. Used' = Used /\ Live' = Live
    BY <2>1 DEF Used, Live
  <2>3. MonitorTypeOK'
    BY <2>1 DEF StackInv, MonitorTypeOK
  <2>4. PICK age \in [Funs -> Nat] : ByAge(age)
    BY DEF StackInv
  <2>5. ByAge(age)'
    BY <2>1, <2>2, <2>4 DEF ByAge
  <2> QED
    BY <2>1, <2>2, <2>3, <2>5 DEF StackInv
<1> QED
  BY <1>1, <1>2, <1>3, <1>4, <1>5, <1>6 DEF MonitorNext

\* A call gets older with every wrapper it runs through, until it is at the body.
LEMMA StackRunsBody == StackInv => Body \in Runs
<1> SUFFICES ASSUME StackInv, NEW S \in SUBSET Funs, slot \in S \cup {NoWrap},
                    \A h \in S \cap Wraps : callee[h] \in S \cup {NoWrap}
             PROVE  Body \in S
  BY DEF Runs, Way, Funs
<1>1. PICK age \in [Funs -> Nat] : ByAge(age)
  BY DEF StackInv
<1>2. /\ NoWrap \notin Funs /\ Used \subseteq Wraps /\ Used \cup {Body} \subseteq Funs
      /\ slot \in Used \cup {Body}
  BY MonitorAssumption DEF StackInv, Used, Wraps, Funs
<1> DEFINE T == S \cap (Used \cup {Body})
           A == {age[f] : f \in T}
<1>3. A \in SUBSET Nat /\ A # {}
  BY <1>2
<1>4. PICK n \in A : \A k \in A : n <= k
  <2> HIDE DEF A
  <2> QED
    BY <1>3, Least
<1>5. PICK f \in T : n = age[f]
  BY <1>4
<1>6. CASE f \in Used
  <2>1. callee[f] \in Used \cup {Body} /\ age[callee[f]] < age[f]
    BY <1>1, <1>6 DEF ByAge, Older
  <2>2. callee[f] \in T
    BY <1>2, <1>5, <1>6, <2>1
  <2>3. age[f] <= age[callee[f]] /\ age[f] \in Nat /\ age[callee[f]] \in Nat
    BY <1>2, <1>4, <1>5, <2>1, <2>2
  <2> QED
    BY <2>1, <2>3
<1> QED
  BY <1>5, <1>6

\* While no probe has been stopped from under a monitor, all that the slot and the
\* records name is registered, or the body; a monitor's root is that of its original.
RecordsHold ==
    /\ slot \in mons \cup Live \cup {Body}
    /\ \A m \in mons : /\ monInfo[m].original \in mons \cup Live \cup {Body}
                       /\ monInfo[m].root \in mons \cup {Body, NoWrap}
                       /\ monInfo[m].root = KnownRoot(monInfo[m].original)
    /\ \A w \in Live : watchInfo[w].root \in mons \cup {Body}

RestoreInv == ~undercut => RecordsHold

LEMMA StackSorts ==
    ASSUME StackInv
    PROVE  /\ mons \subseteq Monitors /\ Live \subseteq Watches /\ mons \subseteq Used
           /\ Live \subseteq Used /\ Used \subseteq Wraps /\ Monitors \subseteq Wraps
           /\ Watches \subseteq Wraps /\ Wraps \subseteq Funs /\ Monitors \cap Watches = {}
           /\ mons \cap Live = {} /\ Body \notin mons \cup Live /\ NoWrap \notin Funs
           /\ Body \notin Wraps
  BY LiveAre, MonitorAssumption DEF StackInv, MonitorTypeOK, Used, Wraps, Funs

LEMMA RestoreInit == MonitorInit => RestoreInv
<1> SUFFICES ASSUME MonitorInit PROVE RecordsHold
  BY DEF RestoreInv
<1>1. Live = {} /\ mons = {} /\ slot = Body
  BY DEF MonitorInit, Live
<1> QED
  BY <1>1 DEF RecordsHold

LEMMA StartMonitorRestore ==
    ASSUME StackInv, RecordsHold, NEW m \in Monitors, StartMonitor(m)
    PROVE  RecordsHold'
<1>1. /\ mons' = mons \cup {m} /\ slot' = m /\ Live' = Live /\ watchInfo' = watchInfo
      /\ m \notin mons /\ m \in Monitors
  BY StackSorts DEF StartMonitor, PutOnTop, Unused, Used, Live
<1>2. PICK s, root : s = slot /\ root = KnownRoot(slot)
  OBVIOUS
<1>3. /\ monInfo'[m].original = s /\ monInfo'[m].root = root
      /\ \A k \in Monitors \ {m} : monInfo'[k] = monInfo[k]
  <2>1. monInfo' = [monInfo EXCEPT ![m] = [original |-> s, root |-> root]]
    BY <1>2 DEF StartMonitor
  <2> QED
    BY <2>1 DEF StackInv, MonitorTypeOK
<1>4. m \notin Live /\ m # Body
  BY StackSorts
<1>5. ASSUME NEW f, f # m PROVE KnownRoot(f)' = KnownRoot(f)
  <2>1. f \in mons => f \in Monitors \ {m}
    BY <1>5, StackSorts
  <2> QED
    BY <1>1, <1>3, <1>5, <2>1 DEF KnownRoot
<1>6. s \in mons \cup Live \cup {Body} /\ s # m
  BY <1>1, <1>2, <1>4 DEF RecordsHold
<1>7. root \in mons \cup {Body, NoWrap}
  BY <1>2, <1>6, StackSorts DEF RecordsHold, KnownRoot
<1>8. ASSUME NEW k \in mons'
      PROVE  /\ monInfo'[k].original \in mons' \cup Live' \cup {Body}
             /\ monInfo'[k].root \in mons' \cup {Body, NoWrap}
             /\ monInfo'[k].root = KnownRoot(monInfo[k].original)'
  <2>1. CASE k = m
    <3>1. KnownRoot(s)' = root
      BY <1>2, <1>5, <1>6
    <3> QED
      BY <1>1, <1>3, <1>6, <1>7, <2>1, <3>1
  <2>2. CASE k # m
    <3>1. k \in mons /\ monInfo'[k] = monInfo[k] /\ monInfo[k].original # m
      BY <1>1, <1>3, <1>4, <1>8, <2>2, StackSorts DEF RecordsHold
    <3>2. KnownRoot(monInfo[k].original)' = KnownRoot(monInfo[k].original)
      <4>1. PICK q : q = monInfo[k].original
        OBVIOUS
      <4>2. monInfo'[k].original = q /\ q # m
        BY <3>1, <4>1
      <4> QED
        BY <1>5, <4>1, <4>2
    <3> QED
      BY <1>1, <3>1, <3>2 DEF RecordsHold
  <2> QED
    BY <2>1, <2>2
<1>9. slot' \in mons' \cup Live' \cup {Body} /\ \A w \in Live' : watchInfo'[w].root \in mons' \cup {Body}
  BY <1>1 DEF RecordsHold
<1> QED
  BY <1>8, <1>9 DEF RecordsHold

LEMMA StartWatchRestore ==
    ASSUME StackInv, RecordsHold, NEW w \in Watches, StartWatch(w)
    PROVE  RecordsHold'
<1>1. /\ mons' = mons /\ slot' = w /\ monInfo' = monInfo /\ w \notin Live /\ w \notin mons /\ w # Body
  BY StackSorts DEF StartWatch, PutOnTop, Unused, Used
<1>2. Live' = Live \cup {w}
  <2>1. watches \in Seq(Watches) /\ watches' = Append(watches, w)
    BY DEF StartWatch, StackInv, MonitorTypeOK
  <2>2. /\ DOMAIN watches = 1..Len(watches) /\ Len(watches) \in Nat
        /\ DOMAIN watches' = 1..(Len(watches) + 1) /\ watches'[Len(watches) + 1] = w
        /\ \A i \in 1..Len(watches) : watches'[i] = watches[i]
    BY <2>1
  <2> QED
    BY <2>2 DEF Live
<1>3. PICK root : root = IF slot \in Live THEN watchInfo[slot].root ELSE slot
  OBVIOUS
<1>4. watchInfo'[w].root = root /\ \A v \in Watches \ {w} : watchInfo'[v] = watchInfo[v]
  BY <1>3 DEF StartWatch, StackInv, MonitorTypeOK
<1>5. root \in mons \cup {Body}
  BY <1>3 DEF RecordsHold
<1>6. \A v \in Live' : watchInfo'[v].root \in mons' \cup {Body}
  BY <1>1, <1>2, <1>4, <1>5, StackSorts DEF RecordsHold
<1>7. ASSUME NEW f, f # w PROVE KnownRoot(f)' = KnownRoot(f)
  <2>1. f \in Live => f \in Watches \ {w}
    BY <1>7, StackSorts
  <2> QED
    BY <1>1, <1>2, <1>4, <1>7, <2>1 DEF KnownRoot
<1>8. ASSUME NEW k \in mons
      PROVE  KnownRoot(monInfo[k].original)' = KnownRoot(monInfo[k].original)
  <2>1. PICK q : q = monInfo[k].original
    OBVIOUS
  <2>2. monInfo'[k].original = q /\ q # w
    BY <1>1, <2>1 DEF RecordsHold
  <2> QED
    BY <1>7, <2>1, <2>2
<1> QED
  BY <1>1, <1>2, <1>6, <1>8 DEF RecordsHold

LEMMA StopWatchRestore ==
    ASSUME StackInv, RecordsHold, NEW w \in Watches, StopWatch(w), w \notin Known
    PROVE  RecordsHold'
<1>1. /\ mons' = mons /\ monInfo' = monInfo /\ watchInfo' = watchInfo
      /\ w \in Live /\ Live' = Live \ {w} /\ w \notin mons
  BY StopWatchLive, StackSorts DEF StopWatch
<1>2. slot' \in mons' \cup Live' \cup {Body}
  BY <1>1 DEF StopWatch, RecordsHold
<1>3. ASSUME NEW k \in mons
      PROVE  /\ monInfo[k].original \in mons \cup Live' \cup {Body}
             /\ KnownRoot(monInfo[k].original)' = KnownRoot(monInfo[k].original)
  <2>1. PICK q : q = monInfo[k].original
    OBVIOUS
  <2>2. monInfo'[k].original = q /\ q # w
    BY <1>1, <2>1 DEF Known
  <2> QED
    BY <1>1, <2>1, <2>2 DEF KnownRoot, RecordsHold
<1> QED
  BY <1>1, <1>2, <1>3 DEF RecordsHold

LEMMA StopAllRestore ==
    ASSUME StackInv, RecordsHold, StopAllWatches, Live \cap Known = {}
    PROVE  RecordsHold'
<1>1. /\ mons' = mons /\ monInfo' = monInfo /\ watchInfo' = watchInfo /\ watches' = <<>>
      /\ slot' = watchInfo[watches[1]].root /\ watches # <<>>
  BY DEF StopAllWatches
<1>2. watches[1] \in Live /\ Live' = {}
  <2>1. watches \in Seq(Watches) /\ 1 \in DOMAIN watches
    BY <1>1, EmptySeq DEF StackInv, MonitorTypeOK
  <2> QED
    BY <1>1, <2>1 DEF Live
<1>3. slot' \in mons' \cup Live' \cup {Body}
  BY <1>1, <1>2 DEF RecordsHold
<1>4. ASSUME NEW k \in mons
      PROVE  /\ monInfo[k].original \in mons \cup Live' \cup {Body}
             /\ KnownRoot(monInfo[k].original)' = KnownRoot(monInfo[k].original)
  <2>1. PICK q : q = monInfo[k].original
    OBVIOUS
  <2>2. monInfo'[k].original = q /\ q \notin Live
    BY <1>1, <2>1 DEF Known
  <2> QED
    BY <1>1, <1>2, <2>1, <2>2 DEF KnownRoot, RecordsHold
<1> QED
  BY <1>1, <1>2, <1>3, <1>4 DEF RecordsHold

\* Where the records hold, a monitor is replaced by what it was put upon.
LEMMA ReplacedByOriginal ==
    ASSUME StackInv, RecordsHold, NEW m \in mons, NEW live,
           live = Live \cup (mons \ {m})
    PROVE  /\ Replacement(m, live) = monInfo[m].original
           /\ monInfo[m].original \in live \cup {Body}
<1>1. PICK o, next :
          /\ o = monInfo[m].original
          /\ next = [w \in Wraps |-> IF w \in live THEN NoWrap ELSE links[w]]
  OBVIOUS
<1>2. LowerLive(m, live) =
          IF Way(o, next) \cap live = {} \/ Cardinality(Way(o, next)) > 32 THEN NoWrap
          ELSE CHOOSE f \in Way(o, next) : f \in live
  <2>1. links[m] = o
    BY <1>1 DEF StackInv
  <2> QED
    BY <1>1, <2>1 DEF LowerLive
<1>3. o \in live \cup {Body} /\ o \in Funs /\ Body \notin live /\ live \subseteq Wraps
  <2>1. PICK age \in [Funs -> Nat] : ByAge(age)
    BY DEF StackInv
  <2>2. o # m
    BY <1>1, <2>1, StackSorts DEF ByAge, Older
  <2> QED
    BY <1>1, <2>2, StackSorts DEF RecordsHold, Funs
<1>4. Way(o, next) = {o}
  <2>1. ASSUME NEW h \in {o} \cap Wraps PROVE next[h] \in {o} \cup {NoWrap}
    BY <1>1, <1>3, <2>1, StackSorts
  <2>2. Way(o, next) \subseteq {o}
    <3>1. PICK S : S = {o}
      OBVIOUS
    <3>2. S \in SUBSET Funs /\ o \in S \cup {NoWrap}
      BY <1>3, <3>1
    <3>3. \A h \in S \cap Wraps : next[h] \in S \cup {NoWrap}
      BY <2>1, <3>1
    <3>4. Way(o, next) \subseteq S
      BY <3>2, <3>3, WayWithin
    <3> QED
      BY <3>1, <3>4
  <2>3. o \in Way(o, next)
    BY <1>3, StackSorts DEF Way
  <2> QED
    BY <2>2, <2>3
<1>5. Cardinality(Way(o, next)) = 1
  BY <1>4, FS_Singleton
<1>6. CASE o \in live
  <2>1. LowerLive(m, live) = o
    BY <1>2, <1>4, <1>5, <1>6
  <2>2. o # NoWrap
    BY <1>3, StackSorts
  <2> QED
    BY <1>1, <1>3, <2>1, <2>2 DEF Replacement
<1>7. CASE o \notin live
  <2>1. LowerLive(m, live) = NoWrap /\ o = Body
    BY <1>2, <1>3, <1>4, <1>7
  <2>2. monInfo[m].root = NoWrap
    <3>1. KnownRoot(Body) = NoWrap
      BY StackSorts DEF KnownRoot
    <3>2. monInfo[m].root = KnownRoot(o)
      BY <1>1 DEF RecordsHold
    <3> QED
      BY <2>1, <3>1, <3>2
  <2> QED
    BY <1>1, <1>3, <1>7, <2>1, <2>2 DEF Replacement
<1> QED
  BY <1>6, <1>7

LEMMA StopMonitorRestore ==
    ASSUME StackInv, RecordsHold, NEW m \in mons, StopMonitor(m)
    PROVE  RecordsHold'
<1>1. PICK o, r : o = monInfo[m].original /\ r = monInfo[m].root
  OBVIOUS
<1>2. /\ Replacement(m, Live \cup (mons \ {m})) = o
      /\ o \in Live \cup (mons \ {m}) \cup {Body}
  BY <1>1, ReplacedByOriginal
<1>3. /\ mons' = mons \ {m} /\ Live' = Live /\ slot' = (IF slot = m THEN o ELSE slot)
      /\ MonRecords(m, o) /\ WatchRecords(m, o)
  BY <1>2, StopMonitorRecords
<1>4. /\ mons \subseteq Monitors /\ Live \subseteq Watches /\ mons \cap Live = {}
      /\ Body \notin mons \cup Live /\ NoWrap \notin mons \cup Live \cup {Body}
  BY StackSorts DEF Funs
<1>5. /\ r \in (mons \ {m}) \cup {Body, NoWrap} /\ r = KnownRoot(o)
      /\ \A w \in Live : watchInfo[w].root = m => o # w
      /\ o \in mons => monInfo[o].original # m /\ monInfo[o].root # m
  <2>1. PICK age \in [Funs -> Nat] : ByAge(age)
    BY DEF StackInv
  <2>2. m \in Monitors \cap Used /\ o \in Funs /\ m \in Funs /\ age[o] < age[m] /\ age[m] \in Nat
        /\ age[o] \in Nat
    BY <1>1, <2>1, StackSorts DEF ByAge, Older, Used, Funs
  <2>3. r # m
    BY <1>1, <2>1, <2>2, StackSorts DEF ByAge, OlderIfAny, Older
  <2>4. ASSUME NEW w \in Live, watchInfo[w].root = m PROVE o # w
    <3>1. w \in Watches \cap Used
      BY <2>4, StackSorts
    <3>2. age[m] < age[w]
      BY <2>1, <2>4, <3>1 DEF ByAge, Older
    <3> QED
      BY <2>2, <3>2
  <2>5. ASSUME o \in mons PROVE monInfo[o].original # m /\ monInfo[o].root # m
    <3>1. o \in Monitors \cap Used
      BY <2>5, StackSorts
    <3>2. ~(age[m] < age[o])
      BY <2>2
    <3>3. NoWrap # m
      BY <1>4
    <3> QED
      BY <2>1, <3>1, <3>2, <3>3 DEF ByAge, OlderIfAny, Older
  <2>6. r \in mons \cup {Body, NoWrap} /\ r = KnownRoot(o)
    BY <1>1 DEF RecordsHold
  <2> QED
    BY <2>3, <2>4, <2>5, <2>6
<1>6. Either(r, o) \in (mons \ {m}) \cup {Body} /\ Either(r, o) # m
  <2>1. CASE r = NoWrap
    <3>1. o \notin Live
      BY <1>4, <1>5, <2>1 DEF RecordsHold, KnownRoot
    <3> QED
      BY <1>2, <1>4, <2>1, <3>1 DEF Either
  <2>2. CASE r # NoWrap
    BY <1>4, <1>5, <2>2 DEF Either
  <2> QED
    BY <2>1, <2>2
<1>7. ASSUME NEW w \in Live
      PROVE  /\ watchInfo'[w].root = IF watchInfo[w].root = m THEN Either(r, o)
                                     ELSE watchInfo[w].root
             /\ watchInfo'[w].root \in (mons \ {m}) \cup {Body}
  <2>1. watchInfo'[w].root = IF watchInfo[w].root = m THEN Either(r, o) ELSE watchInfo[w].root
    <3>1. watchInfo'[w].root = IF watchInfo[w].root = m /\ monInfo[m].original # w
                               THEN Either(monInfo[m].root, o) ELSE watchInfo[w].root
      BY <1>3 DEF WatchRecords
    <3>2. watchInfo[w].root = m => o # w
      BY <1>5
    <3> QED
      BY <1>1, <3>1, <3>2
  <2>2. watchInfo[w].root \in mons \cup {Body}
    BY DEF RecordsHold
  <2> QED
    BY <1>6, <2>1, <2>2
<1>8. slot' \in mons' \cup Live' \cup {Body}
  BY <1>2, <1>3 DEF RecordsHold
<1>9. ASSUME NEW k \in mons, k # m
      PROVE  /\ monInfo[k].original = m =>
                   /\ monInfo[k].root = r
                   /\ monInfo'[k].original = o /\ monInfo'[k].root = r
             /\ monInfo[k].original # m =>
                   /\ monInfo'[k].original = monInfo[k].original
                   /\ monInfo'[k].root = IF monInfo[k].root = m THEN Either(r, o)
                                         ELSE monInfo[k].root
  <2>1. k \in mons' /\ k \in Monitors
    BY <1>3, <1>4, <1>9
  <2>2. CASE monInfo[k].original = m
    <3>1. monInfo[k].root = r
      BY <1>1, <1>4, <1>9, <2>2 DEF RecordsHold, KnownRoot
    <3>2. monInfo'[k].original = o /\ monInfo'[k].root = Either(monInfo[k].root, r)
      BY <1>1, <1>3, <2>1, <2>2 DEF MonRecords
    <3> QED
      BY <2>2, <3>1, <3>2 DEF Either
  <2>3. CASE monInfo[k].original # m
    BY <1>1, <1>3, <2>1, <2>3 DEF MonRecords
  <2> QED
    BY <2>2, <2>3
<1>10. ASSUME NEW q \in (mons \ {m}) \cup Live \cup {Body}
       PROVE  KnownRoot(q)' = IF KnownRoot(q) = m THEN Either(r, o) ELSE KnownRoot(q)
  <2>1. CASE q \in Live
    <3>1. KnownRoot(q) = watchInfo[q].root /\ KnownRoot(q)' = watchInfo'[q].root
      BY <1>3, <1>4, <2>1 DEF KnownRoot
    <3> QED
      BY <1>7, <2>1, <3>1
  <2>2. CASE q \in mons \ {m}
    <3>1. KnownRoot(q) = monInfo[q].root /\ KnownRoot(q)' = monInfo'[q].root
      BY <1>3, <1>4, <2>2 DEF KnownRoot
    <3>2. CASE monInfo[q].original = m
      <4>1. monInfo[q].root = r /\ monInfo'[q].root = r /\ r # m
        BY <1>4, <1>5, <1>9, <2>2, <3>2
      <4> QED
        BY <3>1, <4>1
    <3>3. CASE monInfo[q].original # m
      <4>1. monInfo'[q].root = IF monInfo[q].root = m THEN Either(r, o) ELSE monInfo[q].root
        BY <1>9, <2>2, <3>3
      <4> QED
        BY <3>1, <4>1
    <3> QED
      BY <3>2, <3>3
  <2>3. CASE q = Body
    <3>1. KnownRoot(q) = NoWrap /\ KnownRoot(q)' = NoWrap /\ m # NoWrap
      BY <1>3, <1>4, <2>3 DEF KnownRoot
    <3> QED
      BY <3>1
  <2> QED
    BY <2>1, <2>2, <2>3
<1>11. KnownRoot(o)' = r
  <2>1. KnownRoot(o)' = IF KnownRoot(o) = m THEN Either(r, o) ELSE KnownRoot(o)
    BY <1>2, <1>10
  <2> QED
    BY <1>4, <1>5, <2>1
<1>12. ASSUME NEW k \in mons'
       PROVE  /\ monInfo'[k].original \in mons' \cup Live' \cup {Body}
              /\ monInfo'[k].root \in mons' \cup {Body, NoWrap}
              /\ monInfo'[k].root = KnownRoot(monInfo[k].original)'
  <2>1. k \in mons /\ k # m
    BY <1>3, <1>12
  <2>2. PICK q : q = monInfo[k].original
    OBVIOUS
  <2>3. CASE q = m
    <3>1. monInfo'[k].original = o /\ monInfo'[k].root = r
      BY <1>9, <2>1, <2>2, <2>3
    <3>2. o \in mons' \cup Live' \cup {Body} /\ r \in mons' \cup {Body, NoWrap}
      BY <1>2, <1>3, <1>5
    <3> QED
      BY <1>11, <3>1, <3>2
  <2>4. CASE q # m
    <3>1. /\ monInfo'[k].original = q
          /\ monInfo'[k].root = IF monInfo[k].root = m THEN Either(r, o) ELSE monInfo[k].root
      BY <1>9, <2>1, <2>2, <2>4
    <3>2. /\ q \in (mons \ {m}) \cup Live \cup {Body}
          /\ monInfo[k].root \in mons \cup {Body, NoWrap} /\ monInfo[k].root = KnownRoot(q)
      BY <2>1, <2>2, <2>4 DEF RecordsHold
    <3>3. KnownRoot(q)' = monInfo'[k].root
      BY <1>10, <3>1, <3>2
    <3>4. monInfo'[k].root \in mons' \cup {Body, NoWrap}
      BY <1>3, <1>6, <3>1, <3>2
    <3>5. q \in mons' \cup Live' \cup {Body}
      BY <1>3, <3>2
    <3> QED
      BY <3>1, <3>3, <3>4, <3>5
  <2> QED
    BY <2>3, <2>4
<1> QED
  BY <1>3, <1>7, <1>8, <1>12 DEF RecordsHold

LEMMA RestoreStep == StackInv /\ RestoreInv /\ [MonitorNext]_monitorVars => RestoreInv'
<1> SUFFICES ASSUME StackInv, RestoreInv, [MonitorNext]_monitorVars, ~undercut'
             PROVE  RecordsHold'
  BY DEF RestoreInv
<1>1. ASSUME NEW m \in Monitors, StartMonitor(m) PROVE RecordsHold'
  BY <1>1, StartMonitorRestore DEF StartMonitor, RestoreInv
<1>2. ASSUME NEW m \in Monitors, StopMonitor(m) PROVE RecordsHold'
  BY <1>2, StopMonitorRestore DEF StopMonitor, RestoreInv
<1>3. ASSUME NEW w \in Watches, StartWatch(w) PROVE RecordsHold'
  BY <1>3, StartWatchRestore DEF StartWatch, RestoreInv
<1>4. ASSUME NEW w \in Watches, StopWatch(w) PROVE RecordsHold'
  BY <1>4, StopWatchRestore DEF StopWatch, RestoreInv
<1>5. CASE StopAllWatches
  BY <1>5, StopAllRestore DEF StopAllWatches, RestoreInv
<1>6. CASE UNCHANGED monitorVars
  BY <1>6 DEF monitorVars, RestoreInv, RecordsHold, KnownRoot, Live
<1> QED
  BY <1>1, <1>2, <1>3, <1>4, <1>5, <1>6 DEF MonitorNext

\* MonitorStack: whatever is started and stopped, in whatever order, a call of the
\* function gets to its body; and when nothing is registered any more, the function
\* is its body again, unless a probe was stopped from under a monitor.
THEOREM RepairsKeepTheBody == MonitorSpec => []RepairsKeepBody
<1>1. MonitorInit => StackInv /\ RestoreInv
  BY StackInit, RestoreInit
<1>2. StackInv /\ RestoreInv /\ [MonitorNext]_monitorVars => StackInv' /\ RestoreInv'
  BY StackStep, RestoreStep
<1>3. StackInv /\ RestoreInv => RepairsKeepBody
  <2>1. ASSUME RestoreInv PROVE ~undercut => TargetRestored
    BY <2>1 DEF RestoreInv, RecordsHold, TargetRestored, Live
  <2> QED
    BY <2>1, StackRunsBody DEF RepairsKeepBody
<1> QED
  BY <1>1, <1>2, <1>3, PTL DEF MonitorSpec

\* The types of MonitorStack, for any monitors and probes.
THEOREM MonitorsWellTyped == MonitorSpec => []MonitorTypeOK
<1>1. StackInv => MonitorTypeOK
  BY DEF StackInv
<1> QED
  BY <1>1, StackInit, StackStep, PTL DEF MonitorSpec
================================================================================
