--------------------------- MODULE ResultConsumers ---------------------------
(***************************************************************************)
(* Result consumers (peeka/core/result_consumers.py and                     *)
(* agent_control/consumers.py) with their two publishers: observations that *)
(* ProbeRegistry.record_event appends while it holds its own lock, and job  *)
(* results that dispatch appends holding none.  A publication finds the     *)
(* consumers it concerns in one critical section of the consumer registry   *)
(* and appends to each in one of its own; meanwhile consumers are created,  *)
(* drained, closed and removed, and client sessions close.  Counters nothing *)
(* is decided from (dropped_count, event_count) are left out.               *)
(*                                                                         *)
(* An item is <<source, n>>: the n-th thing its source published.  "draining"*)
(* is left before the lock is, so it is "active" here.  Only connections of *)
(* a consumer's own session reach it (_consumer_owner_matches).             *)
(***************************************************************************)
EXTENDS Naturals, Sequences, FiniteSets

CONSTANTS ConsumerIds,
          SizeOf,        \* max_records of each
          Requestings,   \* what else each is created with, in the cases tried: its
                         \* policies, none when it is not created; topics; owner
          ConsumerLimit, \* MAX_RESULT_CONSUMERS (256)
          Probes, PublishingJobs,
          Publishers,    \* application threads in wrappers, and job threads
          Sessions, NoSession,
          Readers,       \* the consumers somebody drains
          LastEvent,     \* bound: observations of one probe
          DrainLimit,    \* records per drain (100)
          NoItem

ASSUME ConsumerAssumption ==
    /\ SizeOf \in [ConsumerIds -> Nat \ {0}]
    /\ Requestings \subseteq [ConsumerIds ->
          [policies : SUBSET {"drop_oldest", "drop_newest", "fail"},
           topics : SUBSET (Probes \cup PublishingJobs), owner : Sessions \cup {NoSession}]]
    /\ ConsumerLimit \in Nat /\ LastEvent \in Nat \ {0} /\ DrainLimit \in Nat \ {0}
    /\ Probes \cap PublishingJobs = {} /\ NoSession \notin Sessions
    /\ Readers \subseteq ConsumerIds /\ IsFiniteSet(Publishers)

Sources == Probes \cup PublishingJobs
Items == Sources \X (0..LastEvent)

VARIABLES requestOf, \* the case
          consumer, \* status of each: new, active, failed, closed, removed
          buffer,   \* its retained records
          accepted, \* history: everything it was given a sequence number for
          policy,   \* backpressure_policy
          joining,  \* created, not yet in the list of its session
          leaving,  \* closed or removed, not yet taken off that list
          listed,   \* result_consumers of each client session
          opened,   \* the sessions
          probeRun, \* status of the probe runs
          events,   \* _event_sequences; results published, for a job
          late,     \* history: events recorded when the probe was over
          pub,      \* where each publisher is
          drain,    \* the consumers whose reader waits in a drain
          seen,     \* the reader's cursor: records up to it are behind it, 0 for none
          received  \* history: the records the reader received

buffers == <<consumer, buffer, accepted, policy>>
links == <<joining, leaving, listed, opened>>
sources == <<probeRun, events, late, pub>>
readers == <<requestOf, drain, seen, received>>
consumerVars == <<buffers, links, sources, readers>>

NotPublishing == [at |-> "idle", item |-> NoItem, todo |-> {}]

ConsumerInit ==
    /\ requestOf \in Requestings
    /\ consumer = [c \in ConsumerIds |-> "new"]
    /\ buffer = [c \in ConsumerIds |-> <<>>] /\ accepted = buffer
    /\ policy = [c \in ConsumerIds |-> "none"]
    /\ joining = {} /\ leaving = {} /\ listed = [s \in Sessions |-> {}] /\ opened = Sessions
    /\ probeRun = [p \in Probes |-> "active"] /\ events = [s \in Sources |-> 0]
    /\ late = [p \in Probes |-> 0] /\ pub = [t \in Publishers |-> NotPublishing]
    /\ drain = {} /\ seen = [c \in ConsumerIds |-> 0] /\ received = [c \in ConsumerIds |-> {}]

\* A consumer that belongs to a session is in that session's list, too.
Owned(c) == IF requestOf[c].owner = NoSession THEN {} ELSE {c}

Registered == {c \in ConsumerIds : consumer[c] \in {"active", "failed", "closed"}}

-----------------------------------------------------------------------------
(* The life of a consumer *)

\* consumer.create up to the registry; the session was looked up before.
CreateConsumer(c, how) ==
    /\ consumer[c] = "new" /\ Cardinality(Registered) < ConsumerLimit
    /\ requestOf[c].owner \in opened \cup {NoSession}
    /\ consumer' = [consumer EXCEPT ![c] = "active"]
    /\ policy' = [policy EXCEPT ![c] = how]
    /\ joining' = joining \cup Owned(c)
    /\ UNCHANGED <<buffer, accepted, leaving, listed, opened, sources, readers>>

\* The end of create: add_result_consumer, to a session that may have closed.
JoinSession(c) ==
    /\ c \in joining
    /\ joining' = joining \ {c}
    /\ listed' = [s \in Sessions |-> IF s = requestOf[c].owner /\ s \in opened
                                     THEN listed[s] \cup {c} ELSE listed[s]]
    /\ UNCHANGED <<buffers, leaving, opened, sources, readers>>

\* consumer.close: the consumer stays registered and counts towards the limit.
CloseConsumer(c) ==
    /\ c \in Registered
    /\ consumer' = [consumer EXCEPT ![c] = "closed"]
    /\ leaving' = leaving \cup Owned(c)
    /\ UNCHANGED <<buffer, accepted, policy, joining, listed, opened, sources, readers>>

\* One consumer of consumer.cleanup.
RemoveConsumer(c, closedOnly) ==
    /\ c \in Registered
    /\ closedOnly => consumer[c] \in {"closed", "failed"}
    /\ consumer' = [consumer EXCEPT ![c] = "removed"]
    /\ buffer' = [buffer EXCEPT ![c] = <<>>]
    /\ leaving' = leaving \cup Owned(c)
    /\ UNCHANGED <<accepted, policy, joining, listed, opened, sources, readers>>

\* Both end with remove_result_consumer.
LeaveSession(c) ==
    /\ c \in leaving
    /\ leaving' = leaving \ {c}
    /\ listed' = [listed EXCEPT ![requestOf[c].owner] = @ \ {c}]
    /\ UNCHANGED <<buffers, joining, opened, sources, readers>>

\* client.close and the idle cleanup: the session goes, its consumers stay.
EndSession(s) ==
    /\ s \in opened
    /\ opened' = opened \ {s}
    /\ listed' = [listed EXCEPT ![s] = {}]
    /\ UNCHANGED <<buffers, joining, leaving, sources, readers>>

-----------------------------------------------------------------------------
(* Publishing *)

\* ProbeContext.should_stop: stopped, failed, or no longer registered.
Over(p) == probeRun[p] # "active"

\* A wrapper asks whether its probe still runs ...
AskProbe(t, p) ==
    /\ pub[t].at = "idle" /\ events[p] < LastEvent
    /\ ~Over(p)
    /\ pub' = [pub EXCEPT ![t] = [at |-> "record", item |-> <<p, 0>>, todo |-> {}]]
    /\ UNCHANGED <<buffers, links, probeRun, events, late, readers>>

ProbeEnds(p, st) ==
    /\ st \in CASE probeRun[p] = "active" -> {"over"} [] probeRun[p] = "over" -> {"gone"}
              [] OTHER -> {}
    /\ probeRun' = [probeRun EXCEPT ![p] = st]
    /\ UNCHANGED <<buffers, links, events, late, pub, readers>>

Matching(s) == {c \in Registered : s \in requestOf[c].topics}

\* Mutated form: the record is made under the lock and published after it.
ProbeLockNeverHeld == TRUE

\* Who is publishing an observation holds the probe registry's lock.
ProbeLockFree == \A t \in Publishers : pub[t].at = "publish" => pub[t].item[1] \notin Probes

Publication(item) == IF Matching(item[1]) = {} THEN NotPublishing
                     ELSE [at |-> "publish", item |-> item, todo |-> Matching(item[1])]

\* ... and then, in another critical section, records the event: its number is
\* drawn there.  A probe that was removed in between records nothing.
RecordEvent(t) ==
    /\ pub[t].at = "record" /\ ProbeLockFree
    /\ LET p == pub[t].item[1]
           recorded == probeRun[p] # "gone" /\ events[p] < LastEvent
       IN /\ events' = [events EXCEPT ![p] = IF recorded THEN @ + 1 ELSE @]
          /\ late' = [late EXCEPT ![p] = IF recorded /\ Over(p) THEN @ + 1 ELSE @]
          /\ pub' = [pub EXCEPT ![t] = IF recorded THEN Publication(<<p, events[p]>>)
                                       ELSE NotPublishing]
    /\ UNCHANGED <<buffers, links, probeRun, readers>>

\* _execute_command publishes a job's result, summary or failure: one of them.
PublishResult(t, j) ==
    /\ pub[t].at = "idle" /\ events[j] = 0
    /\ events' = [events EXCEPT ![j] = @ + 1]
    /\ pub' = [pub EXCEPT ![t] = Publication(<<j, events[j]>>)]
    /\ UNCHANGED <<buffers, links, probeRun, late, readers>>

Full(c) == Len(buffer[c]) >= SizeOf[c]

\* Mutated form: room is made when there is more than the size already.
MakeRoomLate(c) == IF Len(buffer[c]) > SizeOf[c] THEN Tail(buffer[c]) ELSE buffer[c]

\* drop_oldest.
MakeRoom(c) == IF Full(c) THEN Tail(buffer[c]) ELSE buffer[c]

Stored(c, item) ==
    /\ accepted' = [accepted EXCEPT ![c] = Append(@, item)]
    /\ buffer' = [buffer EXCEPT ![c] =
                     Append(MakeRoom(c), [seq |-> Len(accepted[c]) + 1, item |-> item])]
    /\ UNCHANGED <<consumer, policy>>

\* The publication p has c behind it.
Passed(p, c) == IF p.todo = {c} THEN NotPublishing ELSE [p EXCEPT !.todo = @ \ {c}]

\* append_record on one consumer.
AppendRecord(t, c) ==
    /\ c \in pub[t].todo
    /\ pub' = [pub EXCEPT ![t] = Passed(pub[t], c)]
    /\ \/ /\ consumer[c] = "active" /\ (Full(c) => policy[c] = "drop_oldest")
          /\ Stored(c, pub[t].item)
       \/ /\ consumer[c] = "active" /\ Full(c) /\ policy[c] = "fail"
          /\ consumer' = [consumer EXCEPT ![c] = "failed"]
          /\ UNCHANGED <<buffer, accepted, policy>>
       \/ /\ consumer[c] # "active" \/ (Full(c) /\ policy[c] = "drop_newest")
          /\ UNCHANGED buffers
    /\ UNCHANGED <<links, probeRun, events, late, readers>>

-----------------------------------------------------------------------------
(* Reading: the client gives the next_sequence of the last answer back as       *)
(* after_sequence, and none at first.  Numbers are one higher than the code's,   *)
(* which count from 0, so that 0 is no cursor here.                              *)

Eligible(c) == {i \in DOMAIN buffer[c] : buffer[c][i].seq > seen[c]}

\* Mutated form: the newest records first.
NewestSelected(c) ==
    {i \in Eligible(c) : Cardinality({j \in Eligible(c) : j >= i}) <= DrainLimit}

\* The first ones in the buffer.
Selected(c) == {i \in Eligible(c) : Cardinality({j \in Eligible(c) : j <= i}) <= DrainLimit}

\* A closed consumer is refused before the drain, a failed one is not.  (Closed
\* between the test and the drain is as good as closed after it: a closed
\* consumer's records do not change.)
Refused(c) == c \notin Readers \cap Registered \/ (consumer[c] = "closed" /\ c \notin drain)

\* consumer.drain, or a later poll of one that waits, finds records and returns
\* them; the buffer keeps them.
DrainReturns(c) ==
    /\ ~Refused(c) /\ Eligible(c) # {}
    /\ drain' = drain \ {c}
    /\ \E last \in Selected(c) : /\ \A i \in Selected(c) : i <= last
                                 /\ seen' = [seen EXCEPT ![c] = buffer[c][last].seq]
    /\ received' = [received EXCEPT ![c] = @ \cup {buffer[c][i].seq : i \in Selected(c)}]
    /\ UNCHANGED <<requestOf, buffers, links, sources>>

\* What an answer without records gives for the next after_sequence: the one that
\* was asked with or, without one, 0, which is the number of the first record.
NextSequence(c) == IF seen[c] = 0 THEN 1 ELSE seen[c]

\* It finds none and has no timeout, or the deadline passes.
DrainsNothing(c) ==
    /\ ~Refused(c) /\ Eligible(c) = {}
    /\ drain' = drain \ {c}
    /\ seen' = [seen EXCEPT ![c] = NextSequence(c)]
    /\ UNCHANGED <<requestOf, buffers, links, sources, received>>

\* It finds none and has time left: it polls every 10 ms.
DrainWaits(c) ==
    /\ ~Refused(c) /\ Eligible(c) = {} /\ c \notin drain
    /\ drain' = drain \cup {c}
    /\ UNCHANGED <<requestOf, buffers, links, sources, seen, received>>

\* The consumer is removed meanwhile: there is no answer to go on from.
DrainGivesUp(c) ==
    /\ c \in drain /\ consumer[c] = "removed"
    /\ drain' = drain \ {c}
    /\ UNCHANGED <<requestOf, buffers, links, sources, seen, received>>

ConsumerNext ==
    \/ \E c \in ConsumerIds :
          \/ \E how \in requestOf[c].policies : CreateConsumer(c, how)
          \/ JoinSession(c) \/ CloseConsumer(c) \/ LeaveSession(c)
          \/ \E closedOnly \in BOOLEAN : RemoveConsumer(c, closedOnly)
          \/ DrainReturns(c) \/ DrainsNothing(c) \/ DrainWaits(c) \/ DrainGivesUp(c)
          \/ \E t \in Publishers : AppendRecord(t, c)
    \/ \E s \in Sessions : EndSession(s)
    \/ \E t \in Publishers : RecordEvent(t) \/ (\E p \in Probes : AskProbe(t, p))
                             \/ \E j \in PublishingJobs : PublishResult(t, j)
    \/ \E p \in Probes : \E st \in {"over", "gone"} : ProbeEnds(p, st)

ConsumerSpec == ConsumerInit /\ [][ConsumerNext]_consumerVars

-----------------------------------------------------------------------------
(* Properties *)

Status == {"new", "active", "failed", "closed", "removed"}

ConsumerTypeOK ==
    /\ consumer \in [ConsumerIds -> Status]
    /\ \A c \in ConsumerIds :
          /\ Len(buffer[c]) <= SizeOf[c]
          /\ \A i \in DOMAIN buffer[c] : buffer[c][i] \in [seq : Nat, item : Items]
          /\ received[c] \subseteq DOMAIN accepted[c]
    /\ joining \subseteq ConsumerIds /\ leaving \subseteq ConsumerIds
    /\ listed \in [Sessions -> SUBSET ConsumerIds] /\ opened \subseteq Sessions
    /\ events \in [Sources -> 0..LastEvent] /\ late \in [Probes -> 0..LastEvent]
    /\ \A t \in Publishers : pub[t].item \in Items \cup {NoItem}
    /\ drain \subseteq ConsumerIds

\* Any two consumers, and the probe itself, agree on the order of observations,
\* of one probe or of several: record_event publishes under the lock it draws
\* the number in, although every append is a critical section of its own.
OneProbeOrder ==
    \A c, d \in ConsumerIds :
       \A i, j \in DOMAIN accepted[c] : \A k, l \in DOMAIN accepted[d] :
          LET x == accepted[c][i]  y == accepted[c][j]
          IN (i < j /\ x[1] \in Probes /\ y[1] \in Probes)
                => /\ x[1] = y[1] => x[2] < y[2]
                   /\ (accepted[d][k] = y /\ accepted[d][l] = x) => l < k

\* What is recorded for a probe after it ended is what calls that had passed
\* the test before had in hand: one event for each thread at most.
LateEventsBounded == \A p \in Probes : late[p] <= Cardinality(Publishers)

\* As long as its session is open an unclosed consumer can be found through it.
ActiveListed ==
    \A c \in ConsumerIds :
       (consumer[c] \in {"active", "failed"} /\ c \notin joining
          /\ requestOf[c].owner \in opened) => c \in listed[requestOf[c].owner]

\* What consumers are given agrees with the order of events, and ends with their
\* probes, and who is given it can be found: the three properties above.
ConsumersSound == OneProbeOrder /\ LateEventsBounded /\ ActiveListed

\* A reader goes through what its consumer accepted in order; it misses a record
\* only when the buffer's size in later records pushed that one out, or when it is
\* the first and the reader had asked before there was any.
Retained == INSTANCE RetainedLog WITH Ids <- ConsumerIds,
                log <- accepted, cursor <- seen, read <- received
ReaderPromise == Retained!Spec
=============================================================================
