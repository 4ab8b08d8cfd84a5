---------------------------- MODULE ObserverCounts ----------------------------
(***************************************************************************)
(* ObservationManager (peeka/core/observer.py): counts per watch and a bounded *)
(* buffer of observations.  It has two locks.  Application threads count while *)
(* they hold _stats_lock and fill the buffer while they hold _lock; commands    *)
(* register and unregister watches, and read the counts, while they hold _lock  *)
(* alone.  What an exception in add_observation costs is what follows the call  *)
(* in _send_observation: the observation goes to no stream.                   *)
(*                                                                         *)
(* Nothing subscribes, nobody reads or clears the buffer on its own, and watch *)
(* ids are not used again.                                                   *)
(***************************************************************************)
EXTENDS Naturals, Sequences, SequencesExt, FiniteSets

CONSTANTS CountedIds,     \* watch ids
          Adders,         \* application threads
          BufferSize,     \* DEFAULT_BUFFER_SIZE (10000)
          MaxAdded,       \* bound: observations of one watch
          MaxClears,      \* bound: clear_all
          NobodyHolds        \* no thread

ASSUME ObserverAssumption ==
    BufferSize \in Nat \ {0} /\ MaxAdded \in Nat /\ MaxClears \in Nat /\ NobodyHolds \notin Adders

VARIABLES watches,     \* keys of _watches
          counters,    \* of each watch: count, error_count
          statsLock,   \* _stats_lock: who holds it
          adder,       \* of each thread: where it is in add_observation, for what
          ring,        \* _buffer
          asker,       \* a command that reads counts: what it has still to read, what it read
          wasWatch,    \* ids that were registered once
          made,        \* observations of each watch so far
          clears,
          tally,       \* history: of each watch, observations that were found registered
          dropped,     \* history: observations whose counting raised
          sent         \* history: those that went on to the streams, since the last clear

counts == <<watches, counters, statsLock, wasWatch, made, clears>>
observerVars == <<counts, adder, ring, asker, tally, dropped, sent>>

NotAdding == [at |-> "idle", obs |-> <<>>, failed |-> FALSE, read |-> 0]
NotAsking == [todo |-> <<>>, got |-> <<>>, torn |-> FALSE]
NoCounts == [count |-> 0, errors |-> 0]

ObserverInit ==
    /\ watches = {} /\ wasWatch = {} /\ counters = [w \in CountedIds |-> NoCounts]
    /\ statsLock = NobodyHolds /\ adder = [t \in Adders |-> NotAdding] /\ ring = <<>>
    /\ asker = NotAsking /\ made = [w \in CountedIds |-> 0] /\ clears = 0
    /\ tally = [w \in CountedIds |-> NoCounts] /\ dropped = {} /\ sent = <<>>

\* Who reads counts has _lock.
Asking == asker.todo # <<>>

-----------------------------------------------------------------------------
(* Commands *)

\* After the injection: the first observations may have come already.
RegisterWatch(w) ==
    /\ ~Asking /\ w \notin wasWatch
    /\ watches' = watches \cup {w} /\ wasWatch' = wasWatch \cup {w}
    /\ counters' = [counters EXCEPT ![w] = NoCounts]
    /\ UNCHANGED <<statsLock, made, clears, adder, ring, asker, tally, dropped, sent>>

UnregisterWatch(w) ==
    /\ ~Asking /\ w \in watches /\ watches' = watches \ {w}
    /\ UNCHANGED <<counters, statsLock, wasWatch, made, clears, adder, ring, asker, tally,
                   dropped, sent>>

ClearAll ==
    /\ ~Asking /\ clears < MaxClears /\ clears' = clears + 1
    /\ watches' = {} /\ ring' = <<>> /\ sent' = <<>>
    /\ UNCHANGED <<counters, statsLock, wasWatch, made, adder, asker, tally, dropped>>

\* Of each watch in turn the count and the errors, so many times.
Reads(order, times) ==
    [i \in 1..Len(order) * times * 2 |->
        <<order[1 + (i - 1) \div (2 * times)], IF i % 2 = 1 THEN "count" ELSE "errors">>]

\* get_watch_stats: the count, then the errors.
AskOne(w) ==
    /\ ~Asking /\ w \in watches
    /\ asker' = [NotAsking EXCEPT !.todo = Reads(<<w>>, 1)]
    /\ UNCHANGED <<counts, adder, ring, tally, dropped, sent>>

\* get_all_stats: of every watch both for its entry, and both again for the totals.
AskAll ==
    /\ ~Asking /\ watches # {}
    /\ \E order \in SetToSeqs(watches) : asker' = [NotAsking EXCEPT !.todo = Reads(order, 2)]
    /\ UNCHANGED <<counts, adder, ring, tally, dropped, sent>>

ReadNext ==
    /\ Asking
    /\ LET next == Head(asker.todo) IN
       asker' = [asker EXCEPT !.todo = Tail(@), !.got = Append(@, counters[next[1]][next[2]])]
    /\ UNCHANGED <<counts, adder, ring, tally, dropped, sent>>

-----------------------------------------------------------------------------
(* add_observation *)

\* Mutated form: counting without a lock.
NeverLocked == TRUE
StatsLockFree == statsLock = NobodyHolds

Adds(t, at) == adder' = [adder EXCEPT ![t].at = at]
Leaves(t) == statsLock' = IF statsLock = t THEN NobodyHolds ELSE statsLock

\* Its watch is looked for; without one there is nothing to count.
FindWatch(t, w, failed) ==
    /\ adder[t].at = "idle" /\ made[w] < MaxAdded /\ StatsLockFree
    /\ made' = [made EXCEPT ![w] = @ + 1]
    /\ adder' = [adder EXCEPT ![t] = [at |-> IF w \in watches THEN "found" ELSE "buffer",
                                      obs |-> <<w, made[w] + 1>>, failed |-> failed, read |-> 0]]
    /\ statsLock' = IF w \in watches THEN t ELSE statsLock
    /\ UNCHANGED <<watches, counters, wasWatch, clears, ring, asker, tally, dropped, sent>>

\* Looked up a second time: a watch that has been unregistered since raises.
LookUp(t) ==
    LET w == adder[t].obs[1] IN
    /\ adder[t].at = "found"
    /\ IF w \in watches
       THEN /\ adder' = [adder EXCEPT ![t].at = "count", ![t].read = counters[w].count]
            /\ tally' = [tally EXCEPT ![w] =
                   [count |-> @.count + 1, errors |-> @.errors + (IF adder[t].failed THEN 1 ELSE 0)]]
            /\ UNCHANGED <<statsLock, dropped>>
       ELSE /\ adder' = [adder EXCEPT ![t] = NotAdding] /\ Leaves(t)
            /\ dropped' = dropped \cup {adder[t].obs} /\ UNCHANGED tally
    /\ UNCHANGED <<watches, counters, wasWatch, made, clears, ring, asker, sent>>

\* The reader with the other lock may meet a count that is being changed.
Torn(w) == asker' = IF Asking /\ \E i \in DOMAIN asker.todo : asker.todo[i][1] = w
                    THEN [asker EXCEPT !.torn = TRUE] ELSE asker

CountUp(t) ==
    LET w == adder[t].obs[1] IN
    /\ adder[t].at = "count"
    /\ counters' = [counters EXCEPT ![w].count = adder[t].read + 1] /\ Torn(w)
    /\ IF adder[t].failed THEN Adds(t, "error") /\ UNCHANGED statsLock
                          ELSE Adds(t, "buffer") /\ Leaves(t)
    /\ UNCHANGED <<watches, wasWatch, made, clears, ring, tally, dropped, sent>>

ErrorUp(t) ==
    LET w == adder[t].obs[1] IN
    /\ adder[t].at = "error" /\ Adds(t, "buffer") /\ Leaves(t)
    /\ counters' = [counters EXCEPT ![w].errors = @ + 1] /\ Torn(w)
    /\ UNCHANGED <<watches, wasWatch, made, clears, ring, tally, dropped, sent>>

LastOf(s) == SubSeq(s, 1 + (IF Len(s) > BufferSize THEN Len(s) - BufferSize ELSE 0), Len(s))

\* A deque with maxlen; then _send_observation goes on.
FillBuffer(t) ==
    /\ adder[t].at = "buffer" /\ ~Asking
    /\ ring' = LastOf(Append(ring, adder[t].obs)) /\ sent' = Append(sent, adder[t].obs)
    /\ adder' = [adder EXCEPT ![t] = NotAdding]
    /\ UNCHANGED <<counts, asker, tally, dropped>>

ObserverNext ==
    \/ \E w \in CountedIds : RegisterWatch(w) \/ UnregisterWatch(w) \/ AskOne(w)
    \/ ClearAll \/ AskAll \/ ReadNext
    \/ \E t \in Adders : \/ \E w \in CountedIds, failed \in BOOLEAN : FindWatch(t, w, failed)
                         \/ LookUp(t) \/ CountUp(t) \/ ErrorUp(t) \/ FillBuffer(t)

ObserverSpec == ObserverInit /\ [][ObserverNext]_observerVars

-----------------------------------------------------------------------------
(* Properties *)

ObserverTypeOK ==
    /\ watches \subseteq wasWatch /\ wasWatch \subseteq CountedIds
    /\ counters \in [CountedIds -> [count : 0..MaxAdded, errors : 0..MaxAdded]]
    /\ statsLock \in Adders \cup {NobodyHolds} /\ clears \in 0..MaxClears
    /\ \A t \in Adders : /\ adder[t].at \in {"idle", "found", "count", "error", "buffer"}
                         /\ adder[t].read \in 0..MaxAdded
    /\ Len(ring) <= BufferSize /\ made \in [CountedIds -> 0..MaxAdded]

\* However threads and commands interleave: once nobody counts, the counts are those of
\* the observations that found their watch; a watch that ends costs one observation at
\* most its way to the streams; and the buffer holds the last that went there.
CountsExact ==
    /\ statsLock = NobodyHolds => counters = tally
    /\ \A w \in CountedIds : /\ Cardinality({o \in dropped : o[1] = w}) <= 1
                             /\ w \in watches => \A o \in dropped : o[1] # w
    /\ ring = LastOf(sent)

\* What a command is told, although it reads with the other lock: there are no more errors
\* than observations unless a count changed meanwhile, and totals cover the entries.
StatsAddUp ==
    LET got == asker.got IN
    /\ \A i \in DOMAIN got : i % 2 = 0 => got[i] <= got[i - 1] \/ asker.torn
    /\ \A i \in DOMAIN got : i % 4 \in {3, 0} => got[i - 2] <= got[i]

ObserverSound == CountsExact /\ StatsAddUp
=============================================================================
