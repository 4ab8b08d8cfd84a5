------------------------- MODULE ObservationStream -------------------------
(***************************************************************************)
(* The agent's observation stream (peeka/core/agent.py): instrumented      *)
(* application threads hand observations to _send_observation, which puts  *)
(* them into a bounded queue per stream connection; one flusher thread     *)
(* takes batches off the queues and sends them, evicting a client that     *)
(* does not read.  Handler threads register and unregister connections     *)
(* under it, and stop() drains what is left.                               *)
(*                                                                         *)
(* An observation is its sequence number.  Each step below is one critical *)
(* section of _observation_queue_lock or _connections_lock, or one send.   *)
(***************************************************************************)
EXTENDS Naturals, Sequences, FiniteSets

CONSTANTS Conns,      \* client connections, each with its handler thread
          Producers,  \* application threads inside wrappers
          Flushers,   \* flush threads that may come to be
          Cap,        \* queue capacity (1024)
          MaxBatch,   \* observations taken per batch (64)
          MaxSeq,     \* bound: observations emitted
          Unsendable, \* observations JSON cannot encode or over 256 KiB
          Overlap,    \* TRUE: two handlers may start the flusher at the same
                      \* time, as in the code; FALSE: they do not
          NoConn

ASSUME StreamAssumption ==
    /\ Cap \in Nat \ {0} /\ MaxBatch \in Nat \ {0} /\ MaxSeq \in Nat
    /\ Unsendable \subseteq 1..MaxSeq
    /\ Overlap \in BOOLEAN
    /\ NoConn \notin Conns

VARIABLES reg,      \* _client_connections and their kind
          handler,  \* where each connection's handler thread is
          stalled,  \* clients that have stopped reading
          present,  \* keys of _observation_queues
          queue,    \* the queues
          stats,    \* _observation_queue_stats
          seq,      \* _observation_sequence
          prod,     \* each producer: its observation, connections still to get it
          fl,       \* each flusher
          started,  \* _flush_thread_id is set
          running,  \* _flush_thread_running
          phase,    \* of the agent: up, draining, stopped
          got,      \* history: the last observation each client received
          accepted, \* history: the observations enqueued for each connection
          spilled   \* history: observations pushed out by a put-back

conns == <<reg, handler, stalled>>
queues == <<present, queue, stats, accepted, spilled>>
flush == <<fl, started, running>>
vars == <<conns, queues, flush, seq, prod, phase, got>>

NoStats == [enqueued |-> 0, delivered |-> 0, dropped |-> 0, drained |-> 0]
Resting == [at |-> "off", todo |-> {}, conn |-> NoConn, batch |-> <<>>,
            item |-> <<>>, n |-> 0, drops |-> 0, dead |-> {}]

Init ==
    /\ reg = [c \in Conns |-> "new"] /\ handler = [c \in Conns |-> "none"] /\ stalled = {}
    /\ present = {} /\ queue = [c \in Conns |-> <<>>] /\ stats = [c \in Conns |-> NoStats]
    /\ accepted = [c \in Conns |-> {}] /\ spilled = [c \in Conns |-> 0]
    /\ seq = 0 /\ prod = [p \in Producers |-> [item |-> 0, todo |-> {}]]
    /\ fl = [f \in Flushers |-> Resting] /\ started = FALSE /\ running = FALSE
    /\ phase = "up" /\ got = [c \in Conns |-> 0]

-----------------------------------------------------------------------------
(* Connections and their handlers *)

\* _handle_client begins: a control connection.
Register(c) ==
    /\ reg[c] = "new" /\ phase # "stopped"
    /\ reg' = [reg EXCEPT ![c] = "control"]
    /\ handler' = [handler EXCEPT ![c] = "serving"]
    /\ UNCHANGED <<stalled, queues, flush, seq, prod, phase, got>>

\* A command that opens a stream, or a client that asks for one: the kind is set
\* if the connection is still registered, its queue is created in any case.
Subscribe(c) ==
    /\ handler[c] = "serving"
    /\ reg' = [reg EXCEPT ![c] = IF @ = "gone" THEN @ ELSE "stream"]
    /\ present' = present \cup {c}
    /\ handler' = [handler EXCEPT ![c] = "check"]
    /\ UNCHANGED <<stalled, queue, stats, accepted, spilled, flush, seq, prod, phase, got>>

\* _start_flush_thread: the test of _flush_thread_id ...
CheckFlusher(c) ==
    /\ handler[c] = "check"
    /\ Overlap \/ \A d \in Conns : handler[d] # "start"
    /\ handler' = [handler EXCEPT ![c] = IF started THEN "respond" ELSE "start"]
    /\ UNCHANGED <<reg, stalled, queues, flush, seq, prod, phase, got>>

\* ... and the start of a thread.
StartFlusher(c) ==
    /\ handler[c] = "start"
    /\ \E f \in Flushers :
          /\ fl[f] = Resting
          /\ fl' = [fl EXCEPT ![f].at = "wait"]
    /\ started' = TRUE /\ running' = TRUE
    /\ handler' = [handler EXCEPT ![c] = "respond"]
    /\ UNCHANGED <<reg, stalled, queues, seq, prod, phase, got>>

\* Mutated form: the queue of a connection that goes away is kept.
ForgetKind(c) ==
    /\ reg' = [reg EXCEPT ![c] = "gone"]
    /\ UNCHANGED queues

\* _unregister_client_connection.
Forget(c) ==
    /\ reg' = [reg EXCEPT ![c] = "gone"]
    /\ present' = present \ {c}
    /\ queue' = [queue EXCEPT ![c] = <<>>]
    /\ stats' = [stats EXCEPT ![c] = NoStats]
    /\ UNCHANGED accepted
    /\ spilled' = [spilled EXCEPT ![c] = 0]

\* The handler's loop ends: the client left, or sent something unreadable.
Disconnect(c) ==
    /\ handler[c] = "serving"
    /\ handler' = [handler EXCEPT ![c] = "ended"]
    /\ Forget(c)
    /\ UNCHANGED <<stalled, flush, seq, prod, phase, got>>

\* Any other command of a client changes nothing here while it is registered.  Once
\* it was evicted its response finds no write lock, and the handler's loop ends.
NoResponse(c) ==
    /\ handler' = [handler EXCEPT ![c] = "ended"]
    /\ Forget(c)
    /\ UNCHANGED <<stalled, flush, seq, prod, phase, got>>

Serve(c) == handler[c] = "serving" /\ reg[c] = "gone" /\ NoResponse(c)

Respond(c) ==
    /\ handler[c] = "respond"
    /\ \/ reg[c] = "gone" /\ NoResponse(c)
       \/ /\ reg[c] # "gone"
          /\ handler' = [handler EXCEPT ![c] = "serving"]
          /\ UNCHANGED <<reg, stalled, queues, flush, seq, prod, phase, got>>

\* The client stops reading.
Stall(c) ==
    /\ reg[c] = "stream" /\ c \notin stalled
    /\ stalled' = stalled \cup {c}
    /\ UNCHANGED <<reg, handler, queues, flush, seq, prod, phase, got>>

\* _send_log to a client that does not read: it sets no timeout and waits, unless the
\* flusher's 0.1 s is on the socket just then, or the client hangs up while it waits.
\* Then it fails, and the client is unregistered.
LogFails(c) ==
    /\ c \in stalled /\ reg[c] # "gone"
    /\ Forget(c)
    /\ UNCHANGED <<handler, stalled, flush, seq, prod, phase, got>>

-----------------------------------------------------------------------------
(* Producers *)

\* _send_observation: draw a number, look up the stream connections ...
Emit(p) ==
    /\ prod[p].todo = {} /\ seq < MaxSeq
    /\ seq' = seq + 1
    /\ prod' = [prod EXCEPT ![p] = [item |-> seq + 1,
                                    todo |-> {c \in Conns : reg[c] = "stream"}]]
    /\ UNCHANGED <<conns, queues, flush, phase, got>>

\* Mutated form: the deque has no maxlen.
AppendedAlways(q, x) == Append(q, x)

\* deque(maxlen).append and appendleft.
Appended(q, x) == Append(IF Len(q) < Cap THEN q ELSE Tail(q), x)
PutBack(q, x)  == <<x>> \o (IF Len(q) < Cap THEN q ELSE SubSeq(q, 1, Cap - 1))

\* ... and enqueue for each of them, creating a queue for one that has none.
Enqueue(p, c) ==
    /\ c \in prod[p].todo
    /\ prod' = [prod EXCEPT ![p].todo = @ \ {c}]
    /\ present' = present \cup {c}
    /\ queue' = [queue EXCEPT ![c] = Appended(@, prod[p].item)]
    /\ stats' = [stats EXCEPT ![c].enqueued = @ + 1,
                              ![c].dropped = @ + (IF Len(queue[c]) = Cap THEN 1 ELSE 0)]
    /\ accepted' = [accepted EXCEPT ![c] = @ \cup {prod[p].item}]
    /\ UNCHANGED <<conns, spilled, flush, seq, phase, got>>

-----------------------------------------------------------------------------
(* The flusher *)

Set(f, r) == fl' = [fl EXCEPT ![f] = r]

\* _flush_loop: woken by the event or its 50 ms timeout, it lists the queues.
Wake(f) ==
    /\ fl[f].at = "wait"
    /\ Set(f, [Resting EXCEPT !.at = "pick", !.todo = present])
    /\ UNCHANGED <<conns, queues, started, running, seq, prod, phase, got>>

\* _flush_connection of the next connection.
Pick(f) ==
    /\ fl[f].at = "pick"
    /\ \E c \in fl[f].todo :
          Set(f, [fl[f] EXCEPT !.at = "pop", !.todo = @ \ {c}, !.conn = c])
    /\ UNCHANGED <<conns, queues, started, running, seq, prod, phase, got>>

\* Nothing is left for this connection, or the batch is full.
Enough(f) ==
    /\ fl[f].at = "pop"
    /\ queue[fl[f].conn] = <<>> \/ fl[f].n = MaxBatch
    /\ Set(f, [fl[f] EXCEPT !.at = "close"])
    /\ UNCHANGED <<conns, queues, started, running, seq, prod, phase, got>>

\* The oldest observation is taken and encoded.  Its frame joins the batch, or
\* this batch is too full for it.
Pop(f) ==
    /\ fl[f].at = "pop" /\ fl[f].n < MaxBatch
    /\ LET c == fl[f].conn
           x == Head(queue[c])
       IN  /\ queue[c] # <<>>
           /\ queue' = [queue EXCEPT ![c] = Tail(@)]
           /\ \/ x \in Unsendable /\ Set(f, [fl[f] EXCEPT !.n = @ + 1, !.drops = @ + 1])
              \/ /\ x \notin Unsendable
                 /\ Set(f, [fl[f] EXCEPT !.n = @ + 1, !.batch = Append(@, x)])
              \/ /\ x \notin Unsendable /\ fl[f].batch # <<>>
                 /\ Set(f, [fl[f] EXCEPT !.at = "return", !.item = <<x>>])
    /\ UNCHANGED <<conns, present, stats, accepted, spilled, started, running, seq, prod, phase, got>>

\* Mutated form: the observation that did not fit goes to the end of the queue.
ReturnToEnd(f) ==
    /\ fl[f].at = "return"
    /\ LET c == fl[f].conn IN
          /\ queue' = [queue EXCEPT ![c] = IF c \in present THEN Appended(@, fl[f].item[1]) ELSE @]
          /\ spilled' = [spilled EXCEPT ![c] = IF Len(queue[c]) = Cap THEN @ + 1 ELSE @]
    /\ Set(f, [fl[f] EXCEPT !.at = "close", !.item = <<>>])
    /\ UNCHANGED <<conns, present, stats, accepted, started, running, seq, prod, phase, got>>

\* ... and goes back to the front of the queue.  If the queue has filled up
\* meanwhile, the deque drops its newest entry.
Return(f) ==
    /\ fl[f].at = "return"
    /\ LET c == fl[f].conn IN
          /\ queue' = [queue EXCEPT ![c] = IF c \in present THEN PutBack(@, fl[f].item[1]) ELSE @]
          /\ spilled' = [spilled EXCEPT ![c] = IF Len(queue[c]) = Cap THEN @ + 1 ELSE @]
    /\ Set(f, [fl[f] EXCEPT !.at = "close", !.item = <<>>])
    /\ UNCHANGED <<conns, present, stats, accepted, started, running, seq, prod, phase, got>>

\* Mutated form: the early return of an empty batch precedes the counting.
CloseEarly(f) ==
    /\ fl[f].at = "close"
    /\ LET c == fl[f].conn IN
          stats' = IF c \in present /\ fl[f].batch # <<>>
                   THEN [stats EXCEPT ![c].dropped = @ + fl[f].drops] ELSE stats
    /\ Set(f, IF fl[f].batch = <<>>
              THEN [fl[f] EXCEPT !.at = "pick", !.conn = NoConn, !.n = 0, !.drops = 0]
              ELSE [fl[f] EXCEPT !.at = "send", !.drops = 0])
    /\ UNCHANGED <<conns, present, queue, accepted, spilled, started, running, seq, prod, phase, got>>

\* The drops are counted; an empty batch is not sent.
Close(f) ==
    /\ fl[f].at = "close"
    /\ LET c == fl[f].conn IN
          stats' = IF c \in present THEN [stats EXCEPT ![c].dropped = @ + fl[f].drops] ELSE stats
    /\ Set(f, IF fl[f].batch = <<>>
              THEN [fl[f] EXCEPT !.at = "pick", !.conn = NoConn, !.n = 0, !.drops = 0]
              ELSE [fl[f] EXCEPT !.at = "send", !.drops = 0])
    /\ UNCHANGED <<conns, present, queue, accepted, spilled, started, running, seq, prod, phase, got>>

\* The batch arrives.
Send(f) ==
    /\ fl[f].at = "send"
    /\ LET c == fl[f].conn IN
          /\ reg[c] # "gone" /\ c \notin stalled
          /\ got' = [got EXCEPT ![c] = fl[f].batch[Len(fl[f].batch)]]
    /\ Set(f, [fl[f] EXCEPT !.at = "count"])
    /\ UNCHANGED <<conns, queues, started, running, seq, prod, phase>>

\* Mutated form: the send has no time limit.
SendFails(f) ==
    /\ fl[f].at = "send"
    /\ fl[f].conn \notin stalled /\ reg[fl[f].conn] = "gone"
    /\ Set(f, [fl[f] EXCEPT !.at = "pick", !.conn = NoConn, !.batch = <<>>, !.n = 0,
                            !.dead = @ \cup {fl[f].conn}])
    /\ UNCHANGED <<conns, queues, started, running, seq, prod, phase, got>>

\* The send fails or its 100 ms pass: the client is evicted.  Some of the batch
\* may have arrived, or still does.
Evict(f) ==
    /\ fl[f].at = "send"
    /\ LET c == fl[f].conn IN
          /\ \E k \in 0..Len(fl[f].batch) :
                /\ k > 0 => reg[c] # "gone"
                /\ got' = [got EXCEPT ![c] = IF k = 0 THEN @ ELSE fl[f].batch[k]]
          /\ Set(f, [fl[f] EXCEPT !.at = "pick", !.conn = NoConn, !.batch = <<>>, !.n = 0,
                                  !.dead = @ \cup {c}])
    /\ UNCHANGED <<conns, queues, started, running, seq, prod, phase>>

Count(f) ==
    /\ fl[f].at = "count"
    /\ LET c == fl[f].conn IN
          stats' = IF c \in present
                   THEN [stats EXCEPT ![c].delivered = @ + Len(fl[f].batch)] ELSE stats
    /\ Set(f, [fl[f] EXCEPT !.at = "pick", !.conn = NoConn, !.batch = <<>>, !.n = 0])
    /\ UNCHANGED <<conns, present, queue, accepted, spilled, started, running, seq, prod, phase, got>>

\* At the end of a pass the evicted connections are unregistered ...
Bury(f) ==
    /\ fl[f].at = "pick" /\ fl[f].todo = {}
    /\ \E c \in fl[f].dead : Set(f, [fl[f] EXCEPT !.dead = @ \ {c}]) /\ Forget(c)
    /\ UNCHANGED <<handler, stalled, started, running, seq, prod, phase, got>>

\* ... and the loop condition is read.
EndPass(f) ==
    /\ fl[f].at = "pick" /\ fl[f].todo = {} /\ fl[f].dead = {}
    /\ Set(f, [Resting EXCEPT !.at = IF running THEN "wait" ELSE "over"])
    /\ UNCHANGED <<conns, queues, started, running, seq, prod, phase, got>>

Flush(f) ==
    \/ Wake(f) \/ Pick(f) \/ Enough(f) \/ Pop(f) \/ Return(f) \/ Close(f)
    \/ Send(f) \/ Evict(f) \/ Count(f) \/ Bury(f) \/ EndPass(f)

-----------------------------------------------------------------------------
(* stop() *)

\* _signal_observation_queue_drain: the flusher makes one more pass.
Shutdown ==
    /\ phase = "up"
    /\ phase' = "draining" /\ running' = FALSE
    /\ UNCHANGED <<conns, queues, fl, started, seq, prod, got>>

\* The queues are empty or 300 ms have passed: what is left is counted and dropped.
Drain ==
    /\ phase = "draining"
    /\ phase' = "stopped"
    /\ queue' = [c \in Conns |-> <<>>]
    /\ stats' = [c \in Conns |-> [stats[c] EXCEPT !.drained = @ + Len(queue[c])]]
    /\ UNCHANGED <<conns, present, accepted, spilled, flush, seq, prod, got>>

Next ==
    \/ \E c \in Conns :
          \/ Register(c) \/ Subscribe(c) \/ CheckFlusher(c) \/ StartFlusher(c)
          \/ Serve(c) \/ Respond(c) \/ Disconnect(c) \/ Stall(c) \/ LogFails(c)
    \/ \E p \in Producers : Emit(p) \/ \E c \in Conns : Enqueue(p, c)
    \/ \E f \in Flushers : Flush(f)
    \/ Shutdown \/ Drain

\* Threads that have work go on with it; nothing makes a client speak, read or
\* leave, the application call an instrumented function, or the agent stop.
Fairness ==
    /\ \A c \in Conns : WF_vars(CheckFlusher(c) \/ StartFlusher(c))
    /\ \A f \in Flushers : WF_vars(Flush(f))
    /\ WF_vars(Drain)

Spec == Init /\ [][Next]_vars /\ Fairness

-----------------------------------------------------------------------------
(* Properties *)

Seqs == 1..MaxSeq

\* Types of the stream's state.
TypeOK ==
    /\ reg \in [Conns -> {"new", "control", "stream", "gone"}]
    /\ handler \in [Conns -> {"none", "serving", "check", "start", "respond", "ended"}]
    /\ stalled \subseteq Conns /\ present \subseteq Conns
    /\ \A c \in Conns : queue[c] \in Seq(Seqs) /\ Len(queue[c]) <= Cap
    /\ stats \in [Conns -> [enqueued : Nat, delivered : Nat, dropped : Nat, drained : Nat]]
    /\ accepted \in [Conns -> SUBSET Seqs] /\ got \in [Conns -> 0..MaxSeq]
    /\ spilled \in [Conns -> Nat] /\ seq \in 0..MaxSeq
    /\ prod \in [Producers -> [item : 0..MaxSeq, todo : SUBSET Conns]]
    /\ \A f \in Flushers :
          /\ fl[f].at \in {"off", "wait", "pick", "pop", "return", "close", "send", "count", "over"}
          /\ fl[f].todo \cup fl[f].dead \subseteq Conns
          /\ fl[f].conn \in Conns \cup {NoConn}
          /\ fl[f].batch \in Seq(Seqs) /\ fl[f].item \in Seq(Seqs)
          /\ fl[f].n \in 0..MaxBatch /\ fl[f].drops \in 0..MaxBatch
    /\ started \in BOOLEAN /\ running \in BOOLEAN
    /\ phase \in {"up", "draining", "stopped"}

\* What the flusher holds of a connection's observations, oldest first.
Held(c) ==
    IF \E f \in Flushers : fl[f].conn = c /\ fl[f].at # "count"
    THEN LET f == CHOOSE f \in Flushers : fl[f].conn = c IN fl[f].batch \o fl[f].item
    ELSE <<>>
Pending(c) == Held(c) \o queue[c]

\* A registered client's statistics are complete: an observation enqueued for it
\* was delivered, counted as dropped, is on its way, or was pushed out by a
\* put-back, the one loss that is counted nowhere.
Flying(c) ==
    LET F == {f \in Flushers : fl[f].conn = c} IN
    IF F = {} THEN 0
    ELSE LET f == CHOOSE f \in F : TRUE IN Len(fl[f].batch) + Len(fl[f].item) + fl[f].drops
Accounted ==
    \A c \in Conns : reg[c] = "stream" /\ (\A f \in Flushers : c \notin fl[f].dead) =>
        stats[c].enqueued = stats[c].delivered + stats[c].dropped + stats[c].drained
                            + Len(queue[c]) + Flying(c) + spilled[c]

\* _ObservationQueue: a bounded FIFO queue per stream client.  Queue, batches,
\* put-backs, evictions and the drain together deliver in order, each observation
\* at most once.
Fifo == INSTANCE LossyFifo WITH Items <- Seqs, pending <- [c \in Conns |-> Pending(c)]
FifoPerConnection == Fifo!Spec

\* tests/test_agent_observation_queue.py, sequence_numbers_monotonic_per_connection:
\* a client sees rising sequence numbers.
MonotonicSeq ==
    \A c \in Conns :
        LET s == <<got[c]>> \o Pending(c) IN \A i \in 1..Len(s) - 1 : s[i] < s[i + 1]

\* No client is starved: an observation does not stay in a queue for ever, however
\* many clients stop reading, until the agent has stopped.
Queued(c, x) == \E i \in 1..Len(queue[c]) : queue[c][i] = x
Flushed == \A c \in Conns, x \in Seqs : Queued(c, x) /\ phase # "stopped" ~> ~Queued(c, x)

\* A queue that outlives its connection (a producer that had looked the connection
\* up creates it again) goes away by itself if it holds anything that can be sent:
\* the send fails and unregisters it.
Orphan(c) == c \in present /\ reg[c] = "gone"
OrphanQueueRemoved ==
    \A c \in Conns, x \in Seqs \ Unsendable :
        Orphan(c) /\ Queued(c, x) ~> ~Orphan(c) \/ phase # "up"
=============================================================================
