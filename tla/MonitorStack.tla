---------------------------- MODULE MonitorStack ----------------------------
(***************************************************************************)
(* Monitors (peeka/commands/monitor.py) put wrappers of their own into the  *)
(* slot the injector's watch, trace and stack probes use as well; neither   *)
(* registry knows the other's, so a monitor that is removed repairs both:   *)
(* the function the wrapper above it calls, that  wrapper's __wrapped__ link, *)
(* and the originals and roots recorded for what is left.                   *)
(*                                                                         *)
(* One slot, one command at a time: what goes wrong when a start resolves   *)
(* its target while another command removes it is Injector's subject.       *)
(***************************************************************************)
EXTENDS Naturals, Sequences, FiniteSets

CONSTANTS Monitors, Watches,
          StopAll,  \* TRUE: watch stop without an id (uninject_all), too
          Body,     \* the application's function
          NoWrap

ASSUME MonitorAssumption ==
    /\ Monitors \cap Watches = {} /\ Body \notin Monitors \cup Watches
    /\ NoWrap \notin Monitors \cup Watches \cup {Body}
    /\ StopAll \in BOOLEAN

Wraps == Monitors \cup Watches
Funs  == Wraps \cup {Body}

VARIABLES slot,     \* the attribute of the target
          mons,     \* MonitorCommand._monitors
          monInfo,  \* their original and owned_root_original
          watches,  \* DecoratorInjector.instrumented, in order
          watchInfo,\* their original, previous_wrapper and root_original
          callee,   \* the function each wrapper calls (its closure)
          links,    \* the __wrapped__ of each wrapper
          undercut  \* history: a probe was stopped that a monitor's record names
                    \* as its original, and nobody corrects that record

monitorVars == <<slot, mons, monInfo, watches, watchInfo, callee, links, undercut>>

MonitorInit ==
    /\ slot = Body /\ mons = {} /\ watches = <<>>
    /\ monInfo = [m \in Monitors |-> [original |-> NoWrap, root |-> NoWrap]]
    /\ watchInfo = [w \in Watches |-> [original |-> NoWrap, previous |-> NoWrap, root |-> NoWrap]]
    /\ callee = [w \in Wraps |-> NoWrap] /\ links = callee
    /\ undercut = FALSE

Live == {watches[i] : i \in DOMAIN watches}
Unused(w) == callee[w] = NoWrap
Either(x, y) == IF x = NoWrap THEN y ELSE x

\* The functions on the way from f along next.
Way(f, next) ==
    {g \in Funs : \A S \in SUBSET Funs :
        /\ f \in S \cup {NoWrap}
        /\ \A h \in S \cap Wraps : next[h] \in S \cup {NoWrap}
        => g \in S}

\* A new wrapper goes on top of the slot and calls what it found there.
PutOnTop(w) ==
    /\ callee' = [callee EXCEPT ![w] = slot]
    /\ links' = [links EXCEPT ![w] = slot]
    /\ slot' = w

-----------------------------------------------------------------------------
(* The monitor command *)

\* _known_peeka_root_for_wrapper: what is below the live wrapper f.
KnownRoot(f) == CASE f \in Live -> watchInfo[f].root
                  [] f \in mons -> monInfo[f].root
                  [] OTHER -> NoWrap

StartMonitor(m) ==
    /\ Unused(m)
    /\ mons' = mons \cup {m}
    /\ monInfo' = [monInfo EXCEPT ![m] = [original |-> slot, root |-> KnownRoot(slot)]]
    /\ PutOnTop(m)
    /\ UNCHANGED <<watches, watchInfo, undercut>>

\* _nearest_lower_live_wrapper: the first live one along the links, over wrappers
\* long removed.
LowerLive(m, live) ==
    LET way == Way(links[m], [w \in Wraps |-> IF w \in live THEN NoWrap ELSE links[w]])
    IN  IF way \cap live = {} \/ Cardinality(way) > 32 THEN NoWrap
        ELSE CHOOSE f \in way : f \in live

\* What takes the place of the removed monitor.
Replacement(m, live) ==
    LET info == monInfo[m]
    IN  IF LowerLive(m, live) # NoWrap THEN LowerLive(m, live)
        ELSE IF info.original \notin live /\ info.root \notin live \cup {NoWrap} THEN info.root
        ELSE info.original

\* _retarget_wrapper_func, on each of those above.
Retarget(above, m, new) ==
    /\ callee' = [w \in Wraps |-> IF w \in above /\ callee[w] = m THEN new ELSE callee[w]]
    /\ links' = [w \in Wraps |-> IF w \in above /\ links[w] = m THEN new ELSE links[w]]

\* The records of the other monitors ...
MonInfoAfter(m, new) ==
    [k \in Monitors |->
        CASE k \notin mons \ {m} -> monInfo[k]
          [] k \in mons \ {m} /\ monInfo[k].original = m ->
               [original |-> new, root |-> Either(monInfo[k].root, monInfo[m].root)]
          [] k \in mons \ {m} /\ monInfo[k].original # m /\ monInfo[k].root = m ->
               [monInfo[k] EXCEPT !.root = Either(monInfo[m].root, monInfo[m].original)]
          [] OTHER -> monInfo[k]]

\* ... and of the injector's probes.
WatchInfoAfter(m, new) ==
    [w \in Watches |->
        LET i == watchInfo[w]
        IN  IF w \notin Live THEN i
            ELSE [original |-> IF i.original = m THEN new ELSE i.original,
                  previous |-> IF i.previous = m THEN new ELSE i.previous,
                  root     |-> IF i.root = m /\ monInfo[m].original # w
                               THEN Either(monInfo[m].root, new) ELSE i.root]]

\* monitor stop, and stop_active_resources for reset and detach.
StopMonitor(m) ==
    /\ m \in mons
    /\ LET live  == Live \cup (mons \ {m})
           new   == Replacement(m, live)
           above == {k \in mons \ {m} : monInfo[k].original = m}
                    \cup {w \in Live : m \in {watchInfo[w].original, watchInfo[w].previous}}
       IN  /\ Retarget(above, m, new)
           /\ monInfo' = MonInfoAfter(m, new)
           /\ watchInfo' = WatchInfoAfter(m, new)
           /\ slot' = IF slot = m THEN new ELSE slot
    /\ mons' = mons \ {m}
    /\ UNCHANGED <<watches, undercut>>

-----------------------------------------------------------------------------
(* The injector, for this one slot: all its probes are in one group *)

StartWatch(w) ==
    /\ Unused(w)
    /\ watches' = Append(watches, w)
    /\ watchInfo' = [watchInfo EXCEPT ![w] =
           [original |-> slot,
            previous |-> IF slot \in Live THEN slot ELSE NoWrap,
            root     |-> IF slot \in Live THEN watchInfo[slot].root ELSE slot]]
    /\ PutOnTop(w)
    /\ UNCHANGED <<mons, monInfo, undercut>>

\* The originals that the registered monitors know of.
Known == {monInfo[m].original : m \in mons}

Without(s, i) == SubSeq(s, 1, i - 1) \o SubSeq(s, i + 1, Len(s))

\* uninject: a wrapper below that is a live probe's, else the root.
StopWatch(w) ==
    /\ w \in Live
    /\ LET rest  == Live \ {w}
           below == IF links[w] \in rest THEN links[w] ELSE watchInfo[w].root
       IN  /\ slot' = IF slot = w THEN below ELSE slot
           /\ links' = [k \in Wraps |-> IF k \in rest /\ links[k] = w THEN below ELSE links[k]]
    /\ \E i \in DOMAIN watches : watches[i] = w /\ watches' = Without(watches, i)
    /\ undercut' = (undercut \/ w \in Known)
    /\ UNCHANGED <<mons, monInfo, watchInfo, callee>>

\* uninject_all: the root of the group's first probe, over whatever is on top.
StopAllWatches ==
    /\ StopAll /\ watches # <<>>
    /\ slot' = watchInfo[watches[1]].root
    /\ watches' = <<>>
    /\ undercut' = (undercut \/ Live \cap Known # {})
    /\ UNCHANGED <<mons, monInfo, watchInfo, callee, links>>

MonitorNext ==
    \/ \E m \in Monitors : StartMonitor(m) \/ StopMonitor(m)
    \/ \E w \in Watches : StartWatch(w) \/ StopWatch(w)
    \/ StopAllWatches

MonitorSpec == MonitorInit /\ [][MonitorNext]_monitorVars

-----------------------------------------------------------------------------
(* Properties *)

MonitorTypeOK ==
    /\ slot \in Funs /\ mons \subseteq Monitors
    /\ monInfo \in [Monitors -> [original : Funs \cup {NoWrap}, root : Funs \cup {NoWrap}]]
    /\ watches \in Seq(Watches)
    /\ watchInfo \in [Watches -> [original : Funs \cup {NoWrap},
                         previous : Funs \cup {NoWrap}, root : Funs \cup {NoWrap}]]
    /\ callee \in [Wraps -> Funs \cup {NoWrap}] /\ links \in [Wraps -> Funs \cup {NoWrap}]
    /\ undercut \in BOOLEAN

\* The functions that a call of the slot runs through.
Runs == Way(slot, callee)

\* When the last monitor and the last probe are gone, so is every wrapper.
TargetRestored == (mons = {} /\ watches = <<>>) => slot = Body

\* Whatever the order of starts and stops, a call ends up in the application's
\* function: no wrapper is led back to itself or to nothing by a repair.  And the
\* function is restored, unless a probe was stopped from under a monitor: the
\* monitor's record then goes on naming a wrapper that is gone.
RepairsKeepBody ==
    /\ Body \in Runs
    /\ ~undercut => TargetRestored

\* A registered monitor counts the calls, and a probe sees them, whatever was
\* removed around it.  Two monitors and two probes break it: a probe's removal looks
\* below itself for probes only.
EveryOneSeesCalls == ~StopAll => mons \cup Live \subseteq Runs
=============================================================================
