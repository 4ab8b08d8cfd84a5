----------------------------- MODULE StreamProofs -----------------------------
(***************************************************************************)
(* Theorems about ObservationStream, for any connections, application      *)
(* threads and capacities: types, the statistics of a client, and that the *)
(* stream implements LossyFifo.                                            *)
(***************************************************************************)
EXTENDS ObservationStream, SequenceTheorems, TLAPS

AtRest == {"off", "wait", "over"}
AtWork == {"pop", "return", "close", "send", "count"}

FlusherState ==
    [at : AtRest \cup AtWork \cup {"pick"}, todo : SUBSET Conns,
     conn : Conns \cup {NoConn}, batch : Seq(Seqs), item : Seq(Seqs),
     n : 0..MaxBatch, drops : 0..MaxBatch, dead : SUBSET Conns]

Statistics == [enqueued : Nat, delivered : Nat, dropped : Nat, drained : Nat]

-----------------------------------------------------------------------------
(* The inductive invariants *)

\* TypeOK, with the domains it leaves open.
StreamTypes ==
    /\ reg \in [Conns -> {"new", "control", "stream", "gone"}]
    /\ handler \in [Conns -> {"none", "serving", "check", "start", "respond", "ended"}]
    /\ stalled \subseteq Conns /\ present \subseteq Conns
    /\ queue \in [Conns -> Seq(Seqs)] /\ \A c \in Conns : Len(queue[c]) <= Cap
    /\ stats \in [Conns -> Statistics]
    /\ accepted \in [Conns -> SUBSET Seqs] /\ got \in [Conns -> 0..MaxSeq]
    /\ spilled \in [Conns -> Nat] /\ seq \in 0..MaxSeq
    /\ prod \in [Producers -> [item : 0..MaxSeq, todo : SUBSET Conns]]
    /\ fl \in [Flushers -> FlusherState]
    /\ started \in BOOLEAN /\ running \in BOOLEAN
    /\ phase \in {"up", "draining", "stopped"}

\* What a flusher holds where: nothing between two connections, one observation
\* that it puts back, a batch that it sends.
Sound(r) ==
    /\ r.at \in AtRest => r.todo = {} /\ r.dead = {}
    /\ r.at \notin AtWork => r.conn = NoConn /\ r.batch = <<>> /\ r.n = 0 /\ r.drops = 0
    /\ r.at \in AtWork => r.conn \in Conns
    /\ IF r.at = "return" THEN Len(r.item) = 1 ELSE r.item = <<>>
    /\ r.at \in {"send", "count"} => r.batch # <<>> /\ r.drops = 0
    /\ r.drops <= r.n
FlusherInv == \A f \in Flushers : Sound(fl[f])

\* A thread that still has to enqueue its observation has drawn a number for it.
ProducerInv == \A p \in Producers : prod[p].todo # {} => prod[p].item \in 1..seq

TypeInv == StreamTypes /\ FlusherInv /\ ProducerInv

-----------------------------------------------------------------------------
(* Queues *)

\* A full deque loses an entry at the other end.
LEMMA AppendedLen ==
    ASSUME NEW q \in Seq(Seqs), Len(q) <= Cap, NEW x \in Seqs
    PROVE  /\ Appended(q, x) \in Seq(Seqs)
           /\ Len(Appended(q, x)) = IF Len(q) < Cap THEN Len(q) + 1 ELSE Cap
<1>1. Cap \in Nat \ {0} /\ Len(q) \in Nat
  BY StreamAssumption, LenProperties
<1>2. CASE Len(q) < Cap
  BY <1>1, <1>2, AppendProperties DEF Appended
<1>3. CASE Len(q) = Cap
  <2>1. q # <<>>
    BY <1>1, <1>3, EmptySeq
  <2>2. Tail(q) \in Seq(Seqs) /\ Len(Tail(q)) = Cap - 1
    BY <2>1, <1>3, HeadTailProperties
  <2>3. Appended(q, x) = Append(Tail(q), x)
    BY <1>1, <1>3 DEF Appended
  <2>4. Len(Append(Tail(q), x)) = (Cap - 1) + 1 /\ Append(Tail(q), x) \in Seq(Seqs)
    BY <2>2, AppendProperties
  <2> QED
    BY <2>3, <2>4, <1>1, <1>3
<1> QED
  BY <1>1, <1>2, <1>3

LEMMA PutBackLen ==
    ASSUME NEW q \in Seq(Seqs), Len(q) <= Cap, NEW x \in Seqs
    PROVE  /\ PutBack(q, x) \in Seq(Seqs)
           /\ Len(PutBack(q, x)) = IF Len(q) < Cap THEN Len(q) + 1 ELSE Cap
<1>1. Cap \in Nat \ {0} /\ Len(q) \in Nat
  BY StreamAssumption, LenProperties
<1>2. <<x>> \in Seq(Seqs) /\ Len(<<x>>) = 1
  OBVIOUS
<1>3. CASE Len(q) < Cap
  BY <1>1, <1>2, <1>3, ConcatProperties DEF PutBack
<1>4. CASE Len(q) = Cap
  <2>1. \A i \in 1..Cap - 1 : q[i] \in Seqs
    BY <1>1, <1>4, ElementOfSeq
  <2>2. /\ SubSeq(q, 1, Cap - 1) \in Seq(Seqs)
        /\ Len(SubSeq(q, 1, Cap - 1)) = Cap - 1
    <3>1. 1 \in Int /\ Cap - 1 \in Int
      BY <1>1
    <3>2. Len(SubSeq(q, 1, Cap - 1)) = IF 1 <= Cap - 1 THEN (Cap - 1) - 1 + 1 ELSE 0
      BY <2>1, <3>1, SubSeqProperties
    <3> QED
      BY <1>1, <2>1, <3>1, <3>2, SubSeqProperties
  <2>3. PutBack(q, x) = <<x>> \o SubSeq(q, 1, Cap - 1)
    BY <1>1, <1>4 DEF PutBack
  <2> QED
    BY <1>1, <1>2, <1>4, <2>2, <2>3, ConcatProperties
<1> QED
  BY <1>1, <1>3, <1>4

-----------------------------------------------------------------------------
(* Type correctness *)

\* What the record of a flusher becomes.
LEMMA SetShape ==
    ASSUME TypeInv, NEW f \in Flushers, NEW r \in FlusherState, Sound(r), Set(f, r)
    PROVE  /\ fl' \in [Flushers -> FlusherState]
           /\ fl'[f] = r
           /\ \A g \in Flushers \ {f} : fl'[g] = fl[g]
           /\ FlusherInv'
  BY DEF Set, TypeInv, StreamTypes, FlusherInv, Sound

LEMMA TypesSuffice == StreamTypes => TypeOK
<1> SUFFICES ASSUME StreamTypes PROVE TypeOK
  OBVIOUS
<1>1. ASSUME NEW f \in Flushers
      PROVE  /\ fl[f].at \in {"off", "wait", "pick", "pop", "return", "close", "send", "count", "over"}
             /\ fl[f].todo \cup fl[f].dead \subseteq Conns
             /\ fl[f].conn \in Conns \cup {NoConn}
             /\ fl[f].batch \in Seq(Seqs) /\ fl[f].item \in Seq(Seqs)
             /\ fl[f].n \in 0..MaxBatch /\ fl[f].drops \in 0..MaxBatch
  <2>1. fl[f] \in FlusherState
    BY DEF StreamTypes
  <2> QED
    BY <2>1 DEF FlusherState, AtRest, AtWork
<1> QED
  BY <1>1 DEF StreamTypes, TypeOK, Statistics

LEMMA InitTypes == Init => TypeInv
<1> SUFFICES ASSUME Init PROVE TypeInv
  OBVIOUS
<1>1. Resting \in FlusherState
  <2>1. 0 \in 0..MaxBatch
    BY StreamAssumption
  <2>2. <<>> \in Seq(Seqs)
    BY EmptySeq
  <2> QED
    BY <2>1, <2>2 DEF Resting, FlusherState, AtRest, AtWork
<1>2. StreamTypes
  <2>1. queue \in [Conns -> Seq(Seqs)] /\ \A c \in Conns : Len(queue[c]) <= Cap
    BY StreamAssumption, EmptySeq DEF Init
  <2>2. fl \in [Flushers -> FlusherState]
    BY <1>1 DEF Init
  <2>3. stats \in [Conns -> Statistics]
    BY DEF Init, NoStats, Statistics
  <2>4. 0 \in 0..MaxSeq
    BY StreamAssumption
  <2> QED
    BY <2>1, <2>2, <2>3, <2>4 DEF Init, StreamTypes
<1>3. FlusherInv
  BY StreamAssumption DEF Init, FlusherInv, Sound, Resting, AtRest, AtWork
<1>4. ProducerInv
  BY DEF Init, ProducerInv
<1> QED
  BY <1>2, <1>3, <1>4 DEF TypeInv

\* Connections and producers leave the flushers alone.
LEMMA ClientTypes ==
    ASSUME TypeInv, NEW c \in Conns,
           \/ Register(c) \/ Subscribe(c) \/ CheckFlusher(c) \/ Serve(c) \/ Respond(c)
           \/ Disconnect(c) \/ Stall(c) \/ LogFails(c)
    PROVE  TypeInv'
<1> USE DEF conns, queues, flush
<1>1. UNCHANGED <<seq, prod, fl, started, running, phase, got>>
  BY DEF Register, Subscribe, CheckFlusher, Serve, Respond, Disconnect, Stall, LogFails,
         NoResponse
<1>2. \/ Forget(c)
      \/ UNCHANGED <<queue, stats, accepted, spilled>> /\ present' \subseteq Conns
  BY DEF Register, Subscribe, CheckFlusher, Serve, Respond, Disconnect, Stall, LogFails,
         NoResponse, TypeInv, StreamTypes
<1>3. /\ present' \subseteq Conns
      /\ queue' \in [Conns -> Seq(Seqs)] /\ \A d \in Conns : Len(queue'[d]) <= Cap
      /\ stats' \in [Conns -> Statistics]
      /\ accepted' \in [Conns -> SUBSET Seqs] /\ spilled' \in [Conns -> Nat]
  <2>1. CASE Forget(c)
    <3>1. <<>> \in Seq(Seqs) /\ Len(<<>>) <= Cap
      BY StreamAssumption
    <3> QED
      BY <2>1, <3>1 DEF Forget, NoStats, Statistics, TypeInv, StreamTypes
  <2> QED
    BY <1>2, <2>1 DEF TypeInv, StreamTypes
<1>4. reg' \in [Conns -> {"new", "control", "stream", "gone"}]
  BY DEF Register, Subscribe, CheckFlusher, Serve, Respond, Disconnect, Stall, LogFails,
         NoResponse, Forget, TypeInv, StreamTypes
<1>5. handler' \in [Conns -> {"none", "serving", "check", "start", "respond", "ended"}]
  BY DEF Register, Subscribe, CheckFlusher, Serve, Respond, Disconnect, Stall, LogFails,
         NoResponse, TypeInv, StreamTypes
<1>6. stalled' \subseteq Conns
  BY DEF Register, Subscribe, CheckFlusher, Serve, Respond, Disconnect, Stall, LogFails,
         NoResponse, TypeInv, StreamTypes
<1> QED
  BY <1>1, <1>3, <1>4, <1>5, <1>6 DEF TypeInv, StreamTypes, FlusherInv, ProducerInv

LEMMA StartTypes ==
    ASSUME TypeInv, NEW c \in Conns, StartFlusher(c)
    PROVE  TypeInv'
<1> USE DEF conns, queues
<1>1. PICK f \in Flushers : fl[f] = Resting /\ fl' = [fl EXCEPT ![f].at = "wait"]
  BY DEF StartFlusher
<1>2. [Resting EXCEPT !.at = "wait"] \in FlusherState
  BY <1>1 DEF TypeInv, StreamTypes, FlusherState, Resting, AtRest
<1>3. fl' \in [Flushers -> FlusherState]
  BY <1>1, <1>2 DEF TypeInv, StreamTypes
<1>4. fl'[f] = [Resting EXCEPT !.at = "wait"] /\ \A g \in Flushers \ {f} : fl'[g] = fl[g]
  BY <1>1 DEF TypeInv, StreamTypes
<1>5. FlusherInv'
  BY <1>4, StreamAssumption DEF TypeInv, FlusherInv, Sound, Resting, AtRest, AtWork
<1>6. StreamTypes'
  BY <1>3 DEF StartFlusher, TypeInv, StreamTypes
<1> QED
  BY <1>5, <1>6 DEF StartFlusher, TypeInv, ProducerInv

LEMMA ProducerTypes ==
    ASSUME TypeInv, NEW p \in Producers, Emit(p) \/ \E c \in Conns : Enqueue(p, c)
    PROVE  TypeInv'
<1> USE DEF conns, queues, flush
<1>1. CASE Emit(p)
  <2>1. seq + 1 \in 1..MaxSeq
    BY <1>1, StreamAssumption DEF Emit, TypeInv, StreamTypes
  <2>2. prod' \in [Producers -> [item : 0..MaxSeq, todo : SUBSET Conns]]
    BY <1>1, <2>1 DEF Emit, TypeInv, StreamTypes
  <2>3. ProducerInv'
    BY <1>1, <2>1 DEF Emit, TypeInv, StreamTypes, ProducerInv
  <2> QED
    BY <1>1, <2>1, <2>2, <2>3 DEF Emit, TypeInv, StreamTypes, FlusherInv
<1>2. ASSUME NEW c \in Conns, Enqueue(p, c) PROVE TypeInv'
  <2>1. prod[p].item \in Seqs
    BY <1>2, StreamAssumption DEF Enqueue, TypeInv, ProducerInv, StreamTypes, Seqs
  <2>2. prod' \in [Producers -> [item : 0..MaxSeq, todo : SUBSET Conns]] /\ ProducerInv'
    BY <1>2 DEF Enqueue, TypeInv, StreamTypes, ProducerInv
  <2>3. /\ queue' \in [Conns -> Seq(Seqs)]
        /\ \A d \in Conns : Len(queue'[d]) <= Cap
    <3>1. /\ Appended(queue[c], prod[p].item) \in Seq(Seqs)
          /\ Len(Appended(queue[c], prod[p].item)) <= Cap
      <4>1. queue[c] \in Seq(Seqs) /\ Len(queue[c]) <= Cap /\ Len(queue[c]) \in Nat
        BY LenProperties DEF TypeInv, StreamTypes
      <4>2. Cap \in Nat
        BY StreamAssumption
      <4>3. Len(Appended(queue[c], prod[p].item))
              = IF Len(queue[c]) < Cap THEN Len(queue[c]) + 1 ELSE Cap
        BY <2>1, <4>1, AppendedLen
      <4> QED
        BY <2>1, <4>1, <4>2, <4>3, AppendedLen
    <3> QED
      BY <1>2, <3>1 DEF Enqueue, TypeInv, StreamTypes
  <2>4. stats' \in [Conns -> Statistics]
    <3> DEFINE lost == IF Len(queue[c]) = Cap THEN 1 ELSE 0
    <3>1. stats' = [stats EXCEPT ![c].enqueued = @ + 1, ![c].dropped = @ + lost]
      BY <1>2 DEF Enqueue
    <3>2. stats \in [Conns -> Statistics] /\ lost \in Nat
      BY DEF TypeInv, StreamTypes
    <3> HIDE DEF lost
    <3>3. stats[c].enqueued + 1 \in Nat /\ stats[c].dropped + lost \in Nat
      BY <3>2 DEF Statistics
    <3> QED
      BY <3>1, <3>2, <3>3, Zenon DEF Statistics
  <2>5. accepted' \in [Conns -> SUBSET Seqs]
    BY <1>2, <2>1 DEF Enqueue, TypeInv, StreamTypes
  <2> QED
    BY <1>2, <2>2, <2>3, <2>4, <2>5 DEF Enqueue, TypeInv, StreamTypes, FlusherInv
<1> QED
  BY <1>1, <1>2

LEMMA StopTypes ==
    ASSUME TypeInv, Shutdown \/ Drain
    PROVE  TypeInv'
<1> USE DEF conns, queues, flush
<1>1. CASE Shutdown
  BY <1>1 DEF Shutdown, TypeInv, StreamTypes, FlusherInv, ProducerInv
<1>2. CASE Drain
  <2>1. queue' \in [Conns -> Seq(Seqs)] /\ \A c \in Conns : Len(queue'[c]) <= Cap
    BY <1>2, StreamAssumption DEF Drain
  <2>2. \A c \in Conns : Len(queue[c]) \in Nat
    BY LenProperties DEF TypeInv, StreamTypes
  <2>3. stats' \in [Conns -> Statistics]
    <3>1. \A c \in Conns : stats[c].drained + Len(queue[c]) \in Nat
      BY <2>2 DEF TypeInv, StreamTypes, Statistics
    <3>2. stats \in [Conns -> Statistics]
      BY DEF TypeInv, StreamTypes
    <3> QED
      BY <1>2, <3>1, <3>2, Zenon DEF Drain, Statistics
  <2> QED
    BY <1>2, <2>1, <2>3 DEF Drain, TypeInv, StreamTypes, FlusherInv, ProducerInv
<1> QED
  BY <1>1, <1>2

\* Where nothing but the flusher's own record changes.
LEMMA PassTypes ==
    ASSUME TypeInv, NEW f \in Flushers, Wake(f) \/ Pick(f) \/ Enough(f) \/ EndPass(f)
    PROVE  TypeInv'
<1> USE DEF conns, queues
<1>1. fl[f] \in FlusherState /\ Sound(fl[f]) /\ present \subseteq Conns
  BY DEF TypeInv, StreamTypes, FlusherInv
<1>2. Resting \in FlusherState /\ Resting.todo = {} /\ Resting.dead = {}
  BY StreamAssumption DEF Resting, FlusherState, AtRest, AtWork
<1>3. PICK r \in FlusherState : Sound(r) /\ Set(f, r)
  <2>1. CASE Wake(f)
    <3> DEFINE r == [Resting EXCEPT !.at = "pick", !.todo = present]
    <3>1. r \in FlusherState
      BY <1>1, <1>2 DEF FlusherState
    <3>2. Sound(r)
      BY StreamAssumption DEF Resting, Sound, AtRest, AtWork
    <3> QED
      BY <2>1, <3>1, <3>2 DEF Wake
  <2>2. CASE Pick(f)
    <3>1. PICK c \in fl[f].todo : Set(f, [fl[f] EXCEPT !.at = "pop", !.todo = @ \ {c}, !.conn = c])
      BY <2>2 DEF Pick
    <3> DEFINE r == [fl[f] EXCEPT !.at = "pop", !.todo = @ \ {c}, !.conn = c]
    <3>2. r \in FlusherState
      BY <1>1 DEF FlusherState, AtWork
    <3>3. Sound(r)
      BY <1>1, <2>2 DEF Pick, FlusherState, Sound, AtRest, AtWork
    <3> QED
      BY <3>1, <3>2, <3>3
  <2>3. CASE Enough(f)
    <3> DEFINE r == [fl[f] EXCEPT !.at = "close"]
    <3>1. r \in FlusherState
      BY <1>1 DEF FlusherState, AtWork
    <3>2. Sound(r)
      BY <1>1, <2>3 DEF Enough, FlusherState, Sound, AtRest, AtWork
    <3> QED
      BY <2>3, <3>1, <3>2 DEF Enough
  <2>4. CASE EndPass(f)
    <3> DEFINE r == [Resting EXCEPT !.at = IF running THEN "wait" ELSE "over"]
    <3>1. r \in FlusherState
      BY <1>2 DEF FlusherState, AtRest
    <3>2. Sound(r)
      BY <1>2, StreamAssumption DEF Resting, Sound, AtRest, AtWork
    <3> QED
      BY <2>4, <3>1, <3>2 DEF EndPass
  <2> QED
    BY <2>1, <2>2, <2>3, <2>4
<1>4. fl' \in [Flushers -> FlusherState] /\ FlusherInv'
  BY <1>3, SetShape
<1>5. UNCHANGED <<conns, queues, started, running, seq, prod, phase, got>>
  BY DEF Wake, Pick, Enough, EndPass
<1> QED
  BY <1>4, <1>5 DEF TypeInv, StreamTypes, ProducerInv

LEMMA PopTypes ==
    ASSUME TypeInv, NEW f \in Flushers, Pop(f)
    PROVE  TypeInv'
<1> USE DEF conns, queues
<1>1. fl[f] \in FlusherState /\ Sound(fl[f]) /\ queue \in [Conns -> Seq(Seqs)]
  BY DEF TypeInv, StreamTypes, FlusherInv
<1> DEFINE c == fl[f].conn  x == Head(queue[c])
<1>2. c \in Conns /\ queue[c] # <<>> /\ x \in Seqs /\ Tail(queue[c]) \in Seq(Seqs)
      /\ Len(Tail(queue[c])) <= Cap
  <2>1. c \in Conns /\ queue[c] # <<>> /\ queue[c] \in Seq(Seqs) /\ Len(queue[c]) <= Cap
    BY <1>1 DEF Pop, Sound, AtWork, TypeInv, StreamTypes
  <2>2. Len(Tail(queue[c])) = Len(queue[c]) - 1 /\ Len(queue[c]) \in Nat
    BY <2>1, HeadTailProperties, LenProperties
  <2> QED
    BY <2>1, <2>2, HeadTailProperties, StreamAssumption
<1>3. /\ fl[f].n + 1 \in 0..MaxBatch /\ fl[f].drops + 1 \in 0..MaxBatch
      /\ fl[f].drops + 1 <= fl[f].n + 1 /\ fl[f].drops <= fl[f].n + 1
      /\ Append(fl[f].batch, x) \in Seq(Seqs) /\ <<x>> \in Seq(Seqs)
  <2>1. fl[f].n < MaxBatch
    BY DEF Pop
  <2>2. fl[f].n \in 0..MaxBatch /\ fl[f].drops \in 0..MaxBatch /\ fl[f].drops <= fl[f].n
        /\ fl[f].batch \in Seq(Seqs)
    BY <1>1 DEF FlusherState, Sound
  <2> QED
    BY <1>2, <2>1, <2>2, StreamAssumption, AppendProperties, SMTT(20)
<1>4. PICK r \in FlusherState : Sound(r) /\ Set(f, r)
  <2> DEFINE r1 == [fl[f] EXCEPT !.n = @ + 1, !.drops = @ + 1]
             r2 == [fl[f] EXCEPT !.n = @ + 1, !.batch = Append(@, x)]
             r3 == [fl[f] EXCEPT !.at = "return", !.item = <<x>>]
  <2>1. r1 \in FlusherState /\ r2 \in FlusherState /\ r3 \in FlusherState
    BY <1>1, <1>3, Zenon DEF FlusherState, AtWork
  <2>2. fl[f].at = "pop"
    BY DEF Pop
  <2>3. /\ r1.at = "pop" /\ r1.n = fl[f].n + 1 /\ r1.drops = fl[f].drops + 1
        /\ r1.item = fl[f].item /\ r1.conn = fl[f].conn
        /\ r2.at = "pop" /\ r2.n = fl[f].n + 1 /\ r2.drops = fl[f].drops
        /\ r2.item = fl[f].item /\ r2.conn = fl[f].conn
        /\ r3.at = "return" /\ r3.n = fl[f].n /\ r3.drops = fl[f].drops
        /\ r3.item = <<x>> /\ r3.conn = fl[f].conn
    BY <1>1, <2>2, Zenon DEF FlusherState
  <2>4. Set(f, r1) \/ Set(f, r2) \/ Set(f, r3)
    BY Zenon DEF Pop
  <2> HIDE DEF r1, r2, r3
  <2>5. Sound(r1) /\ Sound(r2) /\ Sound(r3)
    BY <1>1, <1>3, <2>2, <2>3 DEF Sound, AtRest, AtWork
  <2> QED
    BY <2>1, <2>4, <2>5
<1>5. fl' \in [Flushers -> FlusherState] /\ FlusherInv'
  BY <1>4, SetShape
<1>6. queue' = [queue EXCEPT ![c] = Tail(@)]
  BY DEF Pop
<1>7. queue' \in [Conns -> Seq(Seqs)] /\ \A d \in Conns : Len(queue'[d]) <= Cap
  BY <1>2, <1>6 DEF TypeInv, StreamTypes
<1>8. UNCHANGED <<conns, present, stats, accepted, spilled, started, running, seq, prod, phase, got>>
  BY DEF Pop
<1> QED
  BY <1>5, <1>7, <1>8 DEF TypeInv, StreamTypes, ProducerInv

LEMMA ReturnTypes ==
    ASSUME TypeInv, NEW f \in Flushers, Return(f)
    PROVE  TypeInv'
<1> USE DEF conns, queues
<1>1. fl[f] \in FlusherState /\ Sound(fl[f]) /\ fl[f].at = "return"
  BY DEF TypeInv, StreamTypes, FlusherInv, Return
<1> DEFINE c == fl[f].conn  x == fl[f].item[1]
           r == [fl[f] EXCEPT !.at = "close", !.item = <<>>]
<1>2. c \in Conns /\ x \in Seqs
  <2>1. fl[f].item \in Seq(Seqs) /\ Len(fl[f].item) = 1
    BY <1>1 DEF FlusherState, Sound
  <2> QED
    BY <1>1, <2>1, ElementOfSeq DEF Sound, AtWork
<1>3. r \in FlusherState
  BY <1>1, EmptySeq DEF FlusherState, AtWork
<1>4. Sound(r)
  BY <1>1 DEF FlusherState, Sound, AtRest, AtWork
<1>5. fl' \in [Flushers -> FlusherState] /\ FlusherInv'
  BY <1>3, <1>4, SetShape DEF Return
<1>6. queue' \in [Conns -> Seq(Seqs)] /\ \A d \in Conns : Len(queue'[d]) <= Cap
  <2>1. queue[c] \in Seq(Seqs) /\ Len(queue[c]) <= Cap /\ Len(queue[c]) \in Nat /\ Cap \in Nat
    BY <1>2, LenProperties, StreamAssumption DEF TypeInv, StreamTypes
  <2>2. /\ PutBack(queue[c], x) \in Seq(Seqs)
        /\ Len(PutBack(queue[c], x)) = IF Len(queue[c]) < Cap THEN Len(queue[c]) + 1 ELSE Cap
    BY <1>2, <2>1, PutBackLen
  <2>3. Len(PutBack(queue[c], x)) <= Cap
    BY <2>1, <2>2
  <2>4. queue' = [queue EXCEPT ![c] = IF c \in present THEN PutBack(queue[c], x) ELSE queue[c]]
    BY DEF Return
  <2> QED
    BY <1>2, <2>1, <2>2, <2>3, <2>4 DEF TypeInv, StreamTypes
<1>7. spilled' \in [Conns -> Nat]
  BY <1>2 DEF Return, TypeInv, StreamTypes
<1>8. UNCHANGED <<conns, present, stats, accepted, started, running, seq, prod, phase, got>>
  BY DEF Return
<1> QED
  BY <1>5, <1>6, <1>7, <1>8 DEF TypeInv, StreamTypes, ProducerInv

LEMMA CloseTypes ==
    ASSUME TypeInv, NEW f \in Flushers, Close(f)
    PROVE  TypeInv'
<1> USE DEF conns, queues
<1>1. fl[f] \in FlusherState /\ Sound(fl[f]) /\ fl[f].at = "close" /\ fl[f].item = <<>>
  BY DEF TypeInv, StreamTypes, FlusherInv, Close, Sound
<1>0. 0 \in 0..MaxBatch
  BY StreamAssumption
<1> DEFINE c == fl[f].conn
<1>2. PICK r \in FlusherState : Sound(r) /\ Set(f, r)
  <2>1. CASE fl[f].batch = <<>>
    <3> DEFINE r == [fl[f] EXCEPT !.at = "pick", !.conn = NoConn, !.n = 0, !.drops = 0]
    <3>1. r \in FlusherState
      BY <1>0, <1>1, Zenon DEF FlusherState
    <3>2. Sound(r)
      BY <1>1, <2>1 DEF FlusherState, Sound, AtRest, AtWork
    <3> QED
      BY <2>1, <3>1, <3>2 DEF Close
  <2>2. CASE fl[f].batch # <<>>
    <3> DEFINE r == [fl[f] EXCEPT !.at = "send", !.drops = 0]
    <3>1. r \in FlusherState
      BY <1>0, <1>1, Zenon DEF FlusherState, AtWork
    <3>2. Sound(r)
      BY <1>1, <2>2 DEF FlusherState, Sound, AtRest, AtWork
    <3> QED
      BY <2>2, <3>1, <3>2 DEF Close
  <2> QED
    BY <2>1, <2>2
<1>3. fl' \in [Flushers -> FlusherState] /\ FlusherInv'
  BY <1>2, SetShape
<1>4. stats' \in [Conns -> Statistics]
  <2>1. stats \in [Conns -> Statistics] /\ fl[f].drops \in Nat /\ c \in Conns
    BY <1>1 DEF TypeInv, StreamTypes, FlusherState, Sound, AtWork
  <2>2. stats' = stats \/ stats' = [stats EXCEPT ![c].dropped = @ + fl[f].drops]
    BY DEF Close
  <2>3. stats[c].dropped + fl[f].drops \in Nat
    BY <2>1 DEF Statistics
  <2> QED
    BY <2>1, <2>2, <2>3, Zenon DEF Statistics
<1>5. UNCHANGED <<conns, present, queue, accepted, spilled, started, running, seq, prod, phase, got>>
  BY DEF Close
<1> QED
  BY <1>3, <1>4, <1>5 DEF TypeInv, StreamTypes, ProducerInv

LEMMA SendTypes ==
    ASSUME TypeInv, NEW f \in Flushers, Send(f) \/ Evict(f)
    PROVE  TypeInv'
<1> USE DEF conns, queues
<1>1. fl[f] \in FlusherState /\ Sound(fl[f]) /\ fl[f].at = "send" /\ fl[f].item = <<>>
      /\ fl[f].conn \in Conns /\ fl[f].batch \in Seq(Seqs) /\ Len(fl[f].batch) \in 1..Len(fl[f].batch)
  <2>1. fl[f] \in FlusherState /\ Sound(fl[f]) /\ fl[f].at = "send"
    BY DEF TypeInv, StreamTypes, FlusherInv, Send, Evict
  <2>2. fl[f].item = <<>> /\ fl[f].conn \in Conns /\ fl[f].batch \in Seq(Seqs) /\ fl[f].batch # <<>>
    BY <2>1 DEF Sound, FlusherState, AtWork
  <2>3. Len(fl[f].batch) \in Nat \ {0}
    BY <2>2, EmptySeq
  <2> QED
    BY <2>1, <2>2, <2>3
<1> DEFINE c == fl[f].conn
<1>2. PICK r \in FlusherState : Sound(r) /\ Set(f, r)
  <2>1. CASE Send(f)
    <3> DEFINE r == [fl[f] EXCEPT !.at = "count"]
    <3>1. r \in FlusherState
      BY <1>1 DEF FlusherState, AtWork
    <3>2. Sound(r)
      BY <1>1 DEF FlusherState, Sound, AtRest, AtWork
    <3> QED
      BY <2>1, <3>1, <3>2 DEF Send
  <2>2. CASE Evict(f)
    <3> DEFINE r == [fl[f] EXCEPT !.at = "pick", !.conn = NoConn, !.batch = <<>>, !.n = 0,
                                  !.dead = @ \cup {c}]
    <3>1. 0 \in 0..MaxBatch /\ <<>> \in Seq(Seqs)
      BY StreamAssumption
    <3>2. r \in FlusherState
      BY <1>1, <3>1, Zenon DEF FlusherState
    <3>3. Sound(r)
      BY <1>1 DEF FlusherState, Sound, AtRest, AtWork
    <3> QED
      BY <2>2, <3>2, <3>3 DEF Evict
  <2> QED
    BY <2>1, <2>2
<1>3. fl' \in [Flushers -> FlusherState] /\ FlusherInv'
  BY <1>2, SetShape
<1>4. got' \in [Conns -> 0..MaxSeq]
  <2>1. \A k \in 1..Len(fl[f].batch) : fl[f].batch[k] \in 0..MaxSeq
    <3>1. \A k \in 1..Len(fl[f].batch) : fl[f].batch[k] \in Seqs
      BY <1>1, ElementOfSeq
    <3>2. Seqs \subseteq 0..MaxSeq
      BY StreamAssumption DEF Seqs
    <3> QED
      BY <3>1, <3>2
  <2>2. CASE Send(f)
    BY <1>1, <2>1, <2>2 DEF Send, TypeInv, StreamTypes
  <2>3. CASE Evict(f)
    <3>1. PICK k \in 0..Len(fl[f].batch) :
             got' = [got EXCEPT ![c] = IF k = 0 THEN @ ELSE fl[f].batch[k]]
      BY <2>3 DEF Evict
    <3>2. k = 0 \/ k \in 1..Len(fl[f].batch)
      BY <1>1
    <3> QED
      BY <1>1, <2>1, <3>1, <3>2 DEF TypeInv, StreamTypes
  <2> QED
    BY <2>2, <2>3
<1>5. UNCHANGED <<conns, queues, started, running, seq, prod, phase>>
  BY DEF Send, Evict
<1> QED
  BY <1>3, <1>4, <1>5 DEF TypeInv, StreamTypes, ProducerInv

LEMMA CountTypes ==
    ASSUME TypeInv, NEW f \in Flushers, Count(f)
    PROVE  TypeInv'
<1> USE DEF conns, queues
<1>1. fl[f] \in FlusherState /\ Sound(fl[f]) /\ fl[f].at = "count"
  BY DEF TypeInv, StreamTypes, FlusherInv, Count
<1> DEFINE c == fl[f].conn
           r == [fl[f] EXCEPT !.at = "pick", !.conn = NoConn, !.batch = <<>>, !.n = 0]
<1>2. 0 \in 0..MaxBatch /\ <<>> \in Seq(Seqs)
  BY StreamAssumption
<1>3. r \in FlusherState
  BY <1>1, <1>2, Zenon DEF FlusherState
<1>4. Sound(r)
  BY <1>1 DEF FlusherState, Sound, AtRest, AtWork
<1>5. fl' \in [Flushers -> FlusherState] /\ FlusherInv'
  BY <1>3, <1>4, SetShape DEF Count
<1>6. stats' \in [Conns -> Statistics]
  <2>1. stats \in [Conns -> Statistics] /\ fl[f].batch \in Seq(Seqs) /\ c \in Conns
    BY <1>1 DEF TypeInv, StreamTypes, FlusherState, Sound, AtWork
  <2>2. stats' = stats \/ stats' = [stats EXCEPT ![c].delivered = @ + Len(fl[f].batch)]
    BY DEF Count
  <2>3. stats[c].delivered + Len(fl[f].batch) \in Nat
    BY <2>1, LenProperties DEF Statistics
  <2> QED
    BY <2>1, <2>2, <2>3, Zenon DEF Statistics
<1>7. UNCHANGED <<conns, present, queue, accepted, spilled, started, running, seq, prod, phase, got>>
  BY DEF Count
<1> QED
  BY <1>5, <1>6, <1>7 DEF TypeInv, StreamTypes, ProducerInv

LEMMA BuryTypes ==
    ASSUME TypeInv, NEW f \in Flushers, Bury(f)
    PROVE  TypeInv'
<1>1. fl[f] \in FlusherState /\ Sound(fl[f]) /\ fl[f].at = "pick"
  BY DEF TypeInv, StreamTypes, FlusherInv, Bury
<1>2. PICK c \in fl[f].dead : Set(f, [fl[f] EXCEPT !.dead = @ \ {c}]) /\ Forget(c)
  BY DEF Bury
<1> DEFINE r == [fl[f] EXCEPT !.dead = @ \ {c}]
<1>3. r \in FlusherState /\ c \in Conns
  BY <1>1 DEF FlusherState
<1>4. Sound(r)
  BY <1>1 DEF FlusherState, Sound, AtRest, AtWork
<1>5. fl' \in [Flushers -> FlusherState] /\ FlusherInv'
  BY <1>2, <1>3, <1>4, SetShape
<1>6. <<>> \in Seq(Seqs) /\ Len(<<>>) <= Cap
  BY StreamAssumption
<1>7. /\ reg' \in [Conns -> {"new", "control", "stream", "gone"}]
      /\ present' \subseteq Conns
      /\ queue' \in [Conns -> Seq(Seqs)] /\ \A d \in Conns : Len(queue'[d]) <= Cap
      /\ stats' \in [Conns -> Statistics]
      /\ accepted' \in [Conns -> SUBSET Seqs] /\ spilled' \in [Conns -> Nat]
  BY <1>2, <1>3, <1>6 DEF Forget, NoStats, Statistics, TypeInv, StreamTypes
<1>8. UNCHANGED <<handler, stalled, started, running, seq, prod, phase, got>>
  BY DEF Bury
<1> QED
  BY <1>5, <1>7, <1>8 DEF TypeInv, StreamTypes, ProducerInv

LEMMA TypeStep == TypeInv /\ [Next]_vars => TypeInv'
<1> SUFFICES ASSUME TypeInv, [Next]_vars PROVE TypeInv'
  OBVIOUS
<1>1. ASSUME NEW c \in Conns,
             \/ Register(c) \/ Subscribe(c) \/ CheckFlusher(c) \/ StartFlusher(c)
             \/ Serve(c) \/ Respond(c) \/ Disconnect(c) \/ Stall(c) \/ LogFails(c)
      PROVE  TypeInv'
  BY <1>1, ClientTypes, StartTypes
<1>2. ASSUME NEW f \in Flushers, Flush(f) PROVE TypeInv'
  BY <1>2, PassTypes, PopTypes, ReturnTypes, CloseTypes, SendTypes, CountTypes, BuryTypes
     DEF Flush
<1>3. CASE UNCHANGED vars
  BY <1>3 DEF vars, conns, queues, flush, TypeInv, StreamTypes, FlusherInv, ProducerInv
<1> QED
  BY <1>1, <1>2, <1>3, ProducerTypes, StopTypes DEF Next

THEOREM StreamTypeCorrect == Spec => []TypeOK
<1>1. Spec => []TypeInv
  BY InitTypes, TypeStep, PTL DEF Spec
<1>2. TypeInv => TypeOK
  BY TypesSuffice DEF TypeInv
<1> QED
  BY <1>1, <1>2, PTL

-----------------------------------------------------------------------------
(* One flusher: what holds when no two handlers start the flusher at the same time *)

StartInv ==
    /\ \A c, d \in Conns : handler[c] = "start" /\ handler[d] = "start" => c = d
    /\ (\E c \in Conns : handler[c] = "start") => ~started
    /\ ~started => \A f \in Flushers : fl[f].at = "off"

OneFlusher == \A f, g \in Flushers : fl[f].at # "off" /\ fl[g].at # "off" => f = g

\* A flusher's step changes its own record, and no thread but the flusher.
LEMMA FlushShape ==
    ASSUME TypeInv, NEW f \in Flushers, Flush(f)
    PROVE  /\ fl[f].at # "off" /\ fl'[f].at # "off"
           /\ \A g \in Flushers \ {f} : fl'[g] = fl[g]
           /\ UNCHANGED <<handler, stalled, started, running, seq, prod, phase>>
<1> USE DEF conns, queues
<1>1. fl[f] \in FlusherState /\ fl \in [Flushers -> FlusherState]
  BY DEF TypeInv, StreamTypes
<1>2. \A g \in Flushers \ {f} : fl'[g] = fl[g]
  BY <1>1 DEF Flush, Wake, Pick, Enough, Pop, Return, Close, Send, Evict, Count, Bury, EndPass, Set
<1>3. UNCHANGED <<handler, stalled, started, running, seq, prod, phase>>
  BY DEF Flush, Wake, Pick, Enough, Pop, Return, Close, Send, Evict, Count, Bury, EndPass
<1>4. fl[f].at # "off"
  BY DEF Flush, Wake, Pick, Enough, Pop, Return, Close, Send, Evict, Count, Bury, EndPass
<1>5. fl'[f].at # "off"
  <2>1. CASE Wake(f)
    BY <1>1, <2>1 DEF Wake, Set, FlusherState, Resting
  <2>2. CASE Pick(f)
    BY <1>1, <2>2 DEF Pick, Set, FlusherState
  <2>3. CASE Enough(f)
    BY <1>1, <2>3 DEF Enough, Set, FlusherState
  <2>4. CASE Pop(f)
    BY <1>1, <2>4, ZenonT(30) DEF Pop, Set, FlusherState
  <2>5. CASE Return(f)
    BY <1>1, <2>5 DEF Return, Set, FlusherState
  <2>6. CASE Close(f)
    BY <1>1, <2>6 DEF Close, Set, FlusherState
  <2>7. CASE Send(f)
    BY <1>1, <2>7 DEF Send, Set, FlusherState
  <2>8. CASE Evict(f)
    BY <1>1, <2>8 DEF Evict, Set, FlusherState
  <2>9. CASE Count(f)
    BY <1>1, <2>9 DEF Count, Set, FlusherState
  <2>10. CASE Bury(f)
    BY <1>1, <2>10 DEF Bury, Set, FlusherState
  <2>11. CASE EndPass(f)
    BY <1>1, <2>11 DEF EndPass, Set, FlusherState, Resting
  <2> QED
    BY <2>1, <2>2, <2>3, <2>4, <2>5, <2>6, <2>7, <2>8, <2>9, <2>10, <2>11 DEF Flush
<1> QED
  BY <1>2, <1>3, <1>4, <1>5

LEMMA OneStep ==
    ASSUME ~Overlap
    PROVE  TypeInv /\ StartInv /\ OneFlusher /\ [Next]_vars => (StartInv /\ OneFlusher)'
<1> SUFFICES ASSUME TypeInv, StartInv, OneFlusher, [Next]_vars
             PROVE  (StartInv /\ OneFlusher)'
  OBVIOUS
<1> USE DEF conns, queues, flush
<1>1. ASSUME NEW c \in Conns, Register(c) \/ Subscribe(c) \/ CheckFlusher(c) \/ Serve(c)
                \/ Respond(c) \/ Disconnect(c) \/ Stall(c) \/ LogFails(c)
      PROVE  (StartInv /\ OneFlusher)'
  <2>1. UNCHANGED <<fl, started>>
    BY <1>1 DEF Register, Subscribe, CheckFlusher, Serve, Respond, Disconnect, Stall, LogFails,
                NoResponse
  <2>2. handler \in [Conns -> {"none", "serving", "check", "start", "respond", "ended"}]
    BY DEF TypeInv, StreamTypes
  <2>3. CASE CheckFlusher(c)
    BY <2>1, <2>2, <2>3 DEF CheckFlusher, StartInv, OneFlusher
  <2>4. CASE ~CheckFlusher(c)
    <3>1. \A d \in Conns : handler'[d] = "start" => handler[d] = "start"
      BY <1>1, <2>2, <2>4 DEF Register, Subscribe, Serve, Respond, Disconnect, Stall, LogFails,
                              NoResponse
    <3> QED
      BY <2>1, <3>1 DEF StartInv, OneFlusher
  <2> QED
    BY <2>3, <2>4
<1>2. ASSUME NEW c \in Conns, StartFlusher(c) PROVE (StartInv /\ OneFlusher)'
  <2>1. PICK f \in Flushers : fl' = [fl EXCEPT ![f].at = "wait"]
    BY <1>2 DEF StartFlusher
  <2>2. ~started /\ \A g \in Flushers : fl[g].at = "off"
    BY <1>2 DEF StartFlusher, StartInv
  <2>3. OneFlusher'
    BY <2>1, <2>2 DEF OneFlusher, TypeInv, StreamTypes
  <2>4. \A d \in Conns : handler'[d] # "start"
    BY <1>2 DEF StartFlusher, StartInv, TypeInv, StreamTypes
  <2> QED
    BY <1>2, <2>3, <2>4 DEF StartFlusher, StartInv
<1>3. ASSUME NEW f \in Flushers, Flush(f) PROVE (StartInv /\ OneFlusher)'
  <2>1. /\ fl[f].at # "off" /\ fl'[f].at # "off"
        /\ \A g \in Flushers \ {f} : fl'[g] = fl[g]
        /\ UNCHANGED <<handler, started>>
    BY <1>3, FlushShape
  <2>2. \A g \in Flushers : fl'[g].at = "off" <=> fl[g].at = "off"
    BY <2>1
  <2> QED
    BY <2>1, <2>2 DEF StartInv, OneFlusher
<1>4. CASE UNCHANGED <<handler, fl, started>>
  BY <1>4 DEF StartInv, OneFlusher
<1>5. ASSUME NEW p \in Producers, Emit(p) \/ \E c \in Conns : Enqueue(p, c)
      PROVE  UNCHANGED <<handler, fl, started>>
  BY <1>5 DEF Emit, Enqueue
<1>6. CASE Shutdown \/ Drain
  BY <1>4, <1>6 DEF Shutdown, Drain
<1> QED
  BY <1>1, <1>2, <1>3, <1>4, <1>5, <1>6 DEF Next, vars

-----------------------------------------------------------------------------
(* Accounting *)

\* What a flusher's record, and the flushers g, have taken of a connection's
\* observations and not counted.
Load(r) == Len(r.batch) + Len(r.item) + r.drops
InFlight(g, c) ==
    LET F == {f \in Flushers : g[f].conn = c} IN
    IF F = {} THEN 0 ELSE Load(g[CHOOSE f \in F : TRUE])

Balanced(s, q, n, x) ==
    s.enqueued = s.delivered + s.dropped + s.drained + Len(q) + n + x

\* A client is live while it is a stream and its eviction has not been decided.
Live(c) == reg[c] = "stream" /\ \A f \in Flushers : c \notin fl[f].dead
AccountInv ==
    \A c \in Conns :
        Live(c) => Balanced(stats[c], queue[c], InFlight(fl, c), spilled[c])

\* Nothing knows a connection before it is a stream; a stream has its queue.
Untouched(c) ==
    /\ c \notin present /\ stats[c] = NoStats /\ queue[c] = <<>> /\ spilled[c] = 0
    /\ \A p \in Producers : c \notin prod[p].todo
    /\ \A f \in Flushers : c \notin fl[f].todo \cup fl[f].dead /\ fl[f].conn # c
FreshInv ==
    \A c \in Conns :
        /\ reg[c] = "stream" => c \in present
        /\ reg[c] \in {"new", "control"} => Untouched(c)

OneInv == TypeInv /\ StartInv /\ OneFlusher

\* The one flusher at work is the one that holds what is in flight.
LEMMA InFlightHere ==
    ASSUME NEW g \in [Flushers -> FlusherState], \A e \in Flushers : Sound(g[e]),
           \A e, h \in Flushers : g[e].at # "off" /\ g[h].at # "off" => e = h,
           NEW f \in Flushers, g[f].at # "off", NEW c \in Conns
    PROVE  InFlight(g, c) = IF g[f].conn = c THEN Load(g[f]) ELSE 0
<1> DEFINE F == {e \in Flushers : g[e].conn = c}
<1>1. \A e \in F : e = f
  BY StreamAssumption DEF Sound, AtWork
<1>2. CASE g[f].conn = c
  <2>1. F = {f}
    BY <1>1, <1>2
  <2>2. (CHOOSE e \in F : TRUE) = f
    BY <2>1
  <2> QED
    BY <1>2, <2>1, <2>2 DEF InFlight
<1>3. CASE g[f].conn # c
  BY <1>1, <1>3 DEF InFlight
<1> QED
  BY <1>2, <1>3

LEMMA NotInFlight ==
    ASSUME NEW g, NEW c, \A e \in Flushers : g[e].conn # c
    PROVE  InFlight(g, c) = 0
  BY DEF InFlight

LEMMA InFlightNat ==
    ASSUME NEW g \in [Flushers -> FlusherState], NEW c
    PROVE  InFlight(g, c) \in Nat
<1>1. ASSUME NEW e \in Flushers PROVE Load(g[e]) \in Nat
  <2>1. g[e].batch \in Seq(Seqs) /\ g[e].item \in Seq(Seqs) /\ g[e].drops \in Nat
    BY StreamAssumption DEF FlusherState
  <2>2. Len(g[e].batch) \in Nat /\ Len(g[e].item) \in Nat
    BY <2>1, LenProperties
  <2>3. \A a, b, d \in Nat : a + b + d \in Nat
    OBVIOUS
  <2> QED
    BY <2>1, <2>2, <2>3, Zenon DEF Load
<1> QED
  BY <1>1 DEF InFlight

\* A step of a flusher, in terms of its record before and after.
LEMMA InFlightStep ==
    ASSUME OneInv, OneInv', NEW f \in Flushers, Flush(f), NEW c \in Conns
    PROVE  /\ InFlight(fl, c) = IF fl[f].conn = c THEN Load(fl[f]) ELSE 0
           /\ InFlight(fl', c) = IF fl'[f].conn = c THEN Load(fl'[f]) ELSE 0
<1>1. fl[f].at # "off" /\ fl'[f].at # "off"
  BY FlushShape DEF OneInv
<1>2. fl \in [Flushers -> FlusherState] /\ \A e \in Flushers : Sound(fl[e])
  BY DEF OneInv, TypeInv, StreamTypes, FlusherInv
<1>3. fl' \in [Flushers -> FlusherState] /\ \A e \in Flushers : Sound(fl'[e])
  BY DEF OneInv, TypeInv, StreamTypes, FlusherInv
<1>4. /\ \A e, h \in Flushers : fl[e].at # "off" /\ fl[h].at # "off" => e = h
      /\ \A e, h \in Flushers : fl'[e].at # "off" /\ fl'[h].at # "off" => e = h
  BY DEF OneInv, OneFlusher
<1> QED
  BY <1>1, <1>2, <1>3, <1>4, InFlightHere

\* What a flusher's step changes of the queues: those of the connection it is at,
\* or it unregisters one.
LEMMA FlushQueues ==
    ASSUME TypeInv, NEW f \in Flushers, Flush(f)
    PROVE  \/ /\ UNCHANGED <<reg, present, accepted>>
              /\ \A d \in Conns : d # fl[f].conn =>
                    stats'[d] = stats[d] /\ queue'[d] = queue[d] /\ spilled'[d] = spilled[d]
              /\ fl'[f].todo \subseteq fl[f].todo \cup present
              /\ fl'[f].dead \subseteq fl[f].dead \cup {fl[f].conn}
              /\ fl'[f].conn \in fl[f].todo \cup {fl[f].conn, NoConn}
           \/ \E c \in fl[f].dead :
              /\ Forget(c)
              /\ fl'[f] = [fl[f] EXCEPT !.dead = @ \ {c}]
<1> USE DEF conns, queues
<1>1. /\ fl[f] \in FlusherState /\ fl \in [Flushers -> FlusherState]
      /\ queue \in [Conns -> Seq(Seqs)] /\ stats \in [Conns -> Statistics]
      /\ spilled \in [Conns -> Nat]
  BY DEF TypeInv, StreamTypes
<1>2. CASE Wake(f) \/ EndPass(f)
  <2>1. /\ fl'[f].todo \subseteq present /\ fl'[f].dead = {} /\ fl'[f].conn = NoConn
    <3>1. CASE Wake(f)
      BY <1>1, <3>1 DEF Wake, Set, Resting
    <3>2. CASE EndPass(f)
      BY <1>1, <3>2 DEF EndPass, Set, Resting
    <3> QED
      BY <1>2, <3>1, <3>2
  <2>2. UNCHANGED <<reg, present, queue, stats, accepted, spilled>>
    BY <1>2 DEF Wake, EndPass
  <2> QED
    BY <2>1, <2>2
<1>3. CASE Pick(f)
  BY <1>1, <1>3 DEF Pick, Set, FlusherState
<1>4. CASE Enough(f)
  BY <1>1, <1>4 DEF Enough, Set, FlusherState
<1>5. CASE Pop(f)
  <2>1. /\ fl'[f].todo = fl[f].todo /\ fl'[f].dead = fl[f].dead /\ fl'[f].conn = fl[f].conn
    <3> DEFINE x == Head(queue[fl[f].conn])
    <3>1. \/ Set(f, [fl[f] EXCEPT !.n = @ + 1, !.drops = @ + 1])
          \/ Set(f, [fl[f] EXCEPT !.n = @ + 1, !.batch = Append(@, x)])
          \/ Set(f, [fl[f] EXCEPT !.at = "return", !.item = <<x>>])
      BY <1>5, Zenon DEF Pop
    <3>2. fl[f] \in FlusherState /\ fl \in [Flushers -> FlusherState]
      BY <1>1
    <3>3. \/ fl'[f] = [fl[f] EXCEPT !.n = @ + 1, !.drops = @ + 1]
          \/ fl'[f] = [fl[f] EXCEPT !.n = @ + 1, !.batch = Append(@, x)]
          \/ fl'[f] = [fl[f] EXCEPT !.at = "return", !.item = <<x>>]
      BY <3>1, <3>2, Zenon DEF Set
    <3> HIDE DEF x
    <3>4. fl[f] \in FlusherState
      BY <1>1
    <3> QED
      BY <3>3, <3>4, Zenon DEF FlusherState
  <2>2. \A d \in Conns : d # fl[f].conn => queue'[d] = queue[d]
    BY <1>1, <1>5 DEF Pop
  <2> QED
    BY <1>5, <2>1, <2>2 DEF Pop
<1>6. CASE Return(f)
  <2>1. \A d \in Conns : d # fl[f].conn => queue'[d] = queue[d] /\ spilled'[d] = spilled[d]
    BY <1>1, <1>6 DEF Return
  <2>2. fl'[f].todo = fl[f].todo /\ fl'[f].dead = fl[f].dead /\ fl'[f].conn = fl[f].conn
    BY <1>1, <1>6 DEF Return, Set, FlusherState
  <2> QED
    BY <1>6, <2>1, <2>2 DEF Return
<1>7. CASE Close(f)
  <2>1. \A d \in Conns : d # fl[f].conn => stats'[d] = stats[d]
    BY <1>1, <1>7 DEF Close
  <2>2. fl'[f].todo = fl[f].todo /\ fl'[f].dead = fl[f].dead /\ fl'[f].conn \in {fl[f].conn, NoConn}
    BY <1>1, <1>7 DEF Close, Set, FlusherState
  <2> QED
    BY <1>7, <2>1, <2>2 DEF Close
<1>8. CASE Send(f)
  BY <1>1, <1>8 DEF Send, Set, FlusherState
<1>9. CASE Evict(f)
  <2>1. /\ fl'[f].todo = fl[f].todo /\ fl'[f].dead = fl[f].dead \cup {fl[f].conn}
        /\ fl'[f].conn = NoConn
    BY <1>1, <1>9 DEF Evict, Set, FlusherState
  <2> QED
    BY <1>9, <2>1 DEF Evict
<1>10. CASE Count(f)
  <2>1. \A d \in Conns : d # fl[f].conn => stats'[d] = stats[d]
    BY <1>1, <1>10 DEF Count
  <2>2. fl'[f].todo = fl[f].todo /\ fl'[f].dead = fl[f].dead /\ fl'[f].conn = NoConn
    BY <1>1, <1>10 DEF Count, Set, FlusherState
  <2> QED
    BY <1>10, <2>1, <2>2 DEF Count
<1>11. CASE Bury(f)
  <2>1. PICK c \in fl[f].dead : Set(f, [fl[f] EXCEPT !.dead = @ \ {c}]) /\ Forget(c)
    BY <1>11 DEF Bury
  <2>2. fl'[f] = [fl[f] EXCEPT !.dead = @ \ {c}]
    BY <1>1, <2>1 DEF Set
  <2> QED
    BY <2>1, <2>2
<1> QED
  BY <1>2, <1>3, <1>4, <1>5, <1>6, <1>7, <1>8, <1>9, <1>10, <1>11 DEF Flush

LEMMA FreshStep == OneInv /\ FreshInv /\ [Next]_vars => FreshInv'
<1> SUFFICES ASSUME OneInv, FreshInv, [Next]_vars PROVE FreshInv'
  OBVIOUS
<1> USE DEF conns, queues, flush
<1>1. /\ reg \in [Conns -> {"new", "control", "stream", "gone"}] /\ present \subseteq Conns
      /\ queue \in [Conns -> Seq(Seqs)] /\ stats \in [Conns -> Statistics]
      /\ spilled \in [Conns -> Nat]
      /\ prod \in [Producers -> [item : 0..MaxSeq, todo : SUBSET Conns]]
      /\ fl \in [Flushers -> FlusherState]
  BY DEF OneInv, TypeInv, StreamTypes
<1>2. ASSUME NEW c \in Conns, Forget(c), UNCHANGED prod,
             \A f \in Flushers : /\ fl'[f].todo = fl[f].todo /\ fl'[f].conn = fl[f].conn
                                 /\ fl'[f].dead \subseteq fl[f].dead
      PROVE  FreshInv'
  <2>1. reg'[c] = "gone"
    BY <1>1, <1>2 DEF Forget
  <2>2. ASSUME NEW d \in Conns, d # c
        PROVE  /\ reg'[d] = reg[d] /\ (d \in present <=> d \in present')
               /\ Untouched(d) => Untouched(d)'
    BY <1>1, <1>2, <2>2 DEF Forget, Untouched
  <2> QED
    BY <2>1, <2>2 DEF FreshInv
<1>3. ASSUME NEW c \in Conns,
             \/ Register(c) \/ Subscribe(c) \/ CheckFlusher(c) \/ StartFlusher(c)
             \/ Serve(c) \/ Respond(c) \/ Disconnect(c) \/ Stall(c) \/ LogFails(c)
      PROVE  FreshInv'
  <2>1. CASE Forget(c) /\ UNCHANGED <<prod, fl>>
    BY <1>2, <2>1
  <2>2. CASE Register(c)
    BY <1>1, <2>2 DEF Register, FreshInv, Untouched
  <2>3. CASE Subscribe(c)
    BY <1>1, <2>3 DEF Subscribe, FreshInv, Untouched
  <2>4. CASE StartFlusher(c)
    <3>1. \A f \in Flushers : /\ fl'[f].todo = fl[f].todo /\ fl'[f].conn = fl[f].conn
                              /\ fl'[f].dead = fl[f].dead
      BY <1>1, <2>4 DEF StartFlusher, FlusherState
    <3> QED
      BY <2>4, <3>1 DEF StartFlusher, FreshInv, Untouched
  <2>5. CASE UNCHANGED <<reg, queues, prod, fl>>
    BY <2>5 DEF FreshInv, Untouched
  <2> QED
    BY <1>3, <2>1, <2>2, <2>3, <2>4, <2>5
       DEF CheckFlusher, Serve, Respond, NoResponse, Disconnect, Stall, LogFails
<1>4. ASSUME NEW p \in Producers, Emit(p) PROVE FreshInv'
  <2>1. \A d \in Conns : d \in prod'[p].todo => reg[d] = "stream"
    BY <1>1, <1>4 DEF Emit
  <2>2. \A q \in Producers \ {p} : prod'[q] = prod[q]
    BY <1>1, <1>4 DEF Emit
  <2> QED
    BY <1>4, <2>1, <2>2 DEF Emit, FreshInv, Untouched
<1>5. ASSUME NEW p \in Producers, NEW c \in Conns, Enqueue(p, c) PROVE FreshInv'
  <2>1. c \in prod[p].todo /\ UNCHANGED <<reg, fl, spilled>> /\ present' = present \cup {c}
    BY <1>5 DEF Enqueue
  <2>2. \A d \in Conns : d # c => stats'[d] = stats[d] /\ queue'[d] = queue[d]
    BY <1>1, <1>5 DEF Enqueue
  <2>3. \A q \in Producers : prod'[q].todo \subseteq prod[q].todo
    BY <1>1, <1>5 DEF Enqueue
  <2> QED
    BY <2>1, <2>2, <2>3 DEF FreshInv, Untouched
<1>6. ASSUME NEW f \in Flushers, Flush(f) PROVE FreshInv'
  <2>1. UNCHANGED prod /\ \A g \in Flushers \ {f} : fl'[g] = fl[g]
    BY <1>6, FlushShape DEF OneInv
  <2>2. CASE \E c \in fl[f].dead : Forget(c) /\ fl'[f] = [fl[f] EXCEPT !.dead = @ \ {c}]
    <3>1. PICK c \in fl[f].dead : Forget(c) /\ fl'[f] = [fl[f] EXCEPT !.dead = @ \ {c}]
      BY <2>2
    <3>2. c \in Conns
      BY <1>1 DEF FlusherState
    <3>3. /\ fl'[f].todo = fl[f].todo /\ fl'[f].conn = fl[f].conn
          /\ fl'[f].dead \subseteq fl[f].dead
      BY <1>1, <3>1 DEF FlusherState
    <3> QED
      BY <1>2, <2>1, <3>1, <3>2, <3>3
  <2>3. CASE /\ UNCHANGED <<reg, present, accepted>>
             /\ \A d \in Conns : d # fl[f].conn =>
                   stats'[d] = stats[d] /\ queue'[d] = queue[d] /\ spilled'[d] = spilled[d]
             /\ fl'[f].todo \subseteq fl[f].todo \cup present
             /\ fl'[f].dead \subseteq fl[f].dead \cup {fl[f].conn}
             /\ fl'[f].conn \in fl[f].todo \cup {fl[f].conn, NoConn}
    <3>1. \A d \in Conns : d # NoConn
      BY StreamAssumption
    <3>2. ASSUME NEW d \in Conns, Untouched(d) PROVE Untouched(d)'
      <4>1. d \notin present /\ d # fl[f].conn /\ d \notin fl[f].todo /\ d \notin fl[f].dead
        BY <3>2 DEF Untouched
      <4>2. d \notin fl'[f].todo \cup fl'[f].dead /\ fl'[f].conn # d
        BY <2>3, <3>1, <4>1
      <4> QED
        BY <2>1, <2>3, <3>2, <4>1, <4>2 DEF Untouched
    <3> QED
      BY <2>3, <3>2 DEF FreshInv
  <2> QED
    BY <1>6, <2>2, <2>3, FlushQueues DEF OneInv
<1>7. CASE Drain
  <2>1. ASSUME NEW d \in Conns, Untouched(d) PROVE Untouched(d)'
    <3>1. stats'[d] = [NoStats EXCEPT !.drained = 0 + Len(<<>>)]
      BY <1>1, <1>7, <2>1 DEF Drain, Untouched, NoStats
    <3>2. stats'[d] = NoStats
      BY <3>1 DEF NoStats
    <3> QED
      BY <1>7, <2>1, <3>2 DEF Drain, Untouched
  <2> QED
    BY <1>7, <2>1 DEF Drain, FreshInv
<1>8. CASE UNCHANGED <<reg, queues, prod, fl>>
  BY <1>8 DEF FreshInv, Untouched
<1>9. CASE Shutdown \/ UNCHANGED vars
  BY <1>8, <1>9 DEF Shutdown, vars
<1> QED
  BY <1>3, <1>4, <1>5, <1>6, <1>7, <1>9 DEF Next

\* The flusher's steps, in terms of what it holds of the connection it is at.
LEMMA PassLoad ==
    ASSUME TypeInv, NEW f \in Flushers, Wake(f) \/ EndPass(f) \/ Pick(f)
    PROVE  /\ fl[f].conn = NoConn /\ fl[f].dead \subseteq fl'[f].dead
           /\ fl'[f].conn = NoConn \/ Load(fl'[f]) = 0
<1>1. fl[f] \in FlusherState /\ Sound(fl[f]) /\ fl \in [Flushers -> FlusherState]
  BY DEF TypeInv, StreamTypes, FlusherInv
<1>2. Len(<<>>) = 0
  OBVIOUS
<1>3. CASE Wake(f)
  <2>1. fl[f].dead = {} /\ fl[f].conn = NoConn
    BY <1>1, <1>3 DEF Wake, Sound, AtRest, AtWork
  <2>2. fl'[f].conn = NoConn
    BY <1>1, <1>3 DEF Wake, Set, Resting
  <2> QED
    BY <2>1, <2>2
<1>4. CASE EndPass(f)
  <2>1. fl[f].dead = {} /\ fl[f].conn = NoConn
    BY <1>1, <1>4 DEF EndPass, Sound, AtWork
  <2>2. fl'[f].conn = NoConn
    BY <1>1, <1>4 DEF EndPass, Set, Resting
  <2> QED
    BY <2>1, <2>2
<1>5. CASE Pick(f)
  <2>1. /\ fl[f].conn = NoConn /\ fl[f].batch = <<>> /\ fl[f].item = <<>> /\ fl[f].drops = 0
    BY <1>1, <1>5 DEF Pick, Sound, AtWork
  <2>2. /\ fl'[f].batch = fl[f].batch /\ fl'[f].item = fl[f].item
        /\ fl'[f].drops = fl[f].drops /\ fl'[f].dead = fl[f].dead
    <3>1. PICK c \in fl[f].todo :
             fl'[f] = [fl[f] EXCEPT !.at = "pop", !.todo = @ \ {c}, !.conn = c]
      BY <1>1, <1>5, Zenon DEF Pick, Set
    <3> QED
      BY <1>1, <3>1 DEF FlusherState
  <2>3. Len(fl'[f].batch) = 0 /\ Len(fl'[f].item) = 0 /\ fl'[f].drops = 0
    BY <1>2, <2>1, <2>2, Zenon
  <2>4. Load(fl'[f]) = 0
    BY <2>3 DEF Load
  <2> QED
    BY <2>1, <2>2, <2>4
<1> QED
  BY <1>3, <1>4, <1>5

LEMMA PopLoad ==
    ASSUME TypeInv, NEW f \in Flushers, Pop(f)
    PROVE  /\ fl'[f].conn = fl[f].conn /\ fl'[f].dead = fl[f].dead
           /\ Load(fl'[f]) = Load(fl[f]) + 1
           /\ Len(queue'[fl[f].conn]) = Len(queue[fl[f].conn]) - 1
<1>1. fl[f] \in FlusherState /\ Sound(fl[f]) /\ fl[f].at = "pop" /\ fl \in [Flushers -> FlusherState]
  BY DEF Pop, TypeInv, StreamTypes, FlusherInv
<1>2. /\ fl[f].batch \in Seq(Seqs) /\ fl[f].item = <<>> /\ fl[f].drops \in Nat
      /\ fl[f].conn \in Conns
  BY <1>1, StreamAssumption DEF FlusherState, Sound, AtWork
<1> DEFINE c == fl[f].conn
           x == Head(queue[c])
<1>3. queue[c] \in Seq(Seqs) /\ queue[c] # <<>> /\ queue' = [queue EXCEPT ![c] = Tail(@)]
  BY <1>2 DEF Pop, TypeInv, StreamTypes
<1>4. x \in Seqs /\ Len(Tail(queue[c])) = Len(queue[c]) - 1
  BY <1>3, HeadTailProperties
<1>5. Len(queue'[c]) = Len(queue[c]) - 1
  <2>1. queue'[c] = Tail(queue[c])
    BY <1>2, <1>3 DEF TypeInv, StreamTypes
  <2> QED
    BY <1>4, <2>1
<1>6. \/ Set(f, [fl[f] EXCEPT !.n = @ + 1, !.drops = @ + 1])
      \/ Set(f, [fl[f] EXCEPT !.n = @ + 1, !.batch = Append(@, x)])
      \/ Set(f, [fl[f] EXCEPT !.at = "return", !.item = <<x>>])
  BY Zenon DEF Pop
<1>7. \/ fl'[f] = [fl[f] EXCEPT !.n = @ + 1, !.drops = @ + 1]
      \/ fl'[f] = [fl[f] EXCEPT !.n = @ + 1, !.batch = Append(@, x)]
      \/ fl'[f] = [fl[f] EXCEPT !.at = "return", !.item = <<x>>]
  BY <1>1, <1>6, Zenon DEF Set
<1> HIDE DEF x
<1>8. fl[f] \in FlusherState
  BY <1>1
<1>9. /\ fl'[f].conn = fl[f].conn /\ fl'[f].dead = fl[f].dead
      /\ \/ /\ fl'[f].batch = fl[f].batch /\ fl'[f].item = fl[f].item
            /\ fl'[f].drops = fl[f].drops + 1
         \/ /\ fl'[f].batch = Append(fl[f].batch, x) /\ fl'[f].item = fl[f].item
            /\ fl'[f].drops = fl[f].drops
         \/ /\ fl'[f].batch = fl[f].batch /\ fl'[f].item = <<x>>
            /\ fl'[f].drops = fl[f].drops
  BY <1>7, <1>8, Zenon DEF FlusherState
<1>10. /\ Len(Append(fl[f].batch, x)) = Len(fl[f].batch) + 1
       /\ Len(<<x>>) = 1 /\ Len(<<>>) = 0 /\ Len(fl[f].batch) \in Nat
  BY <1>2, <1>4, AppendProperties, LenProperties
<1>11. /\ Len(fl[f].item) = 0 /\ fl[f].drops \in Nat /\ Len(fl[f].batch) \in Nat
       /\ \/ /\ Len(fl'[f].batch) = Len(fl[f].batch) /\ Len(fl'[f].item) = 0
             /\ fl'[f].drops = fl[f].drops + 1
          \/ /\ Len(fl'[f].batch) = Len(fl[f].batch) + 1 /\ Len(fl'[f].item) = 0
             /\ fl'[f].drops = fl[f].drops
          \/ /\ Len(fl'[f].batch) = Len(fl[f].batch) /\ Len(fl'[f].item) = 1
             /\ fl'[f].drops = fl[f].drops
  BY <1>2, <1>9, <1>10, Zenon
<1>12. /\ Load(fl[f]) = Len(fl[f].batch) + Len(fl[f].item) + fl[f].drops
       /\ Load(fl'[f]) = Len(fl'[f].batch) + Len(fl'[f].item) + fl'[f].drops
  BY Zenon DEF Load
<1>13. \A a, d \in Nat : a + 0 + (d + 1) = a + 0 + d + 1 /\ (a + 1) + 0 + d = a + 0 + d + 1
                        /\ a + 1 + d = a + 0 + d + 1
  OBVIOUS
<1>14. Load(fl'[f]) = Load(fl[f]) + 1
  BY <1>11, <1>12, <1>13, ZenonT(30)
<1> QED
  BY <1>5, <1>9, <1>14

LEMMA ReturnLoad ==
    ASSUME TypeInv, NEW f \in Flushers, Return(f)
    PROVE  /\ fl'[f].conn = fl[f].conn /\ fl'[f].dead = fl[f].dead
           /\ Load(fl[f]) = Load(fl'[f]) + 1
           /\ fl[f].conn \in present =>
                 Len(queue'[fl[f].conn]) + spilled'[fl[f].conn]
                    = Len(queue[fl[f].conn]) + spilled[fl[f].conn] + 1
<1>1. fl[f] \in FlusherState /\ Sound(fl[f]) /\ fl[f].at = "return" /\ fl \in [Flushers -> FlusherState]
  BY DEF Return, TypeInv, StreamTypes, FlusherInv
<1>2. /\ fl[f].batch \in Seq(Seqs) /\ Len(fl[f].item) = 1 /\ fl[f].drops \in Nat
      /\ fl[f].conn \in Conns /\ fl[f].item[1] \in Seqs
  BY <1>1, StreamAssumption, ElementOfSeq DEF FlusherState, Sound, AtWork
<1>3. /\ fl'[f].conn = fl[f].conn /\ fl'[f].dead = fl[f].dead
      /\ fl'[f].batch = fl[f].batch /\ fl'[f].item = <<>> /\ fl'[f].drops = fl[f].drops
  BY <1>1 DEF Return, Set, FlusherState
<1>4. Len(fl[f].batch) \in Nat /\ Len(<<>>) = 0
  BY <1>2, LenProperties
<1>5. Load(fl[f]) = Load(fl'[f]) + 1
  BY <1>2, <1>3, <1>4 DEF Load
<1> DEFINE c == fl[f].conn
           x == fl[f].item[1]
<1>6. ASSUME c \in present
      PROVE  Len(queue'[c]) + spilled'[c] = Len(queue[c]) + spilled[c] + 1
  <2>1. queue'[c] = PutBack(queue[c], x)
    BY <1>2, <1>6 DEF Return, TypeInv, StreamTypes
  <2>2. spilled'[c] = IF Len(queue[c]) = Cap THEN spilled[c] + 1 ELSE spilled[c]
    BY <1>2 DEF Return, TypeInv, StreamTypes
  <2>3. queue[c] \in Seq(Seqs) /\ Len(queue[c]) <= Cap /\ spilled[c] \in Nat
    BY <1>2 DEF TypeInv, StreamTypes
  <2>4. Len(PutBack(queue[c], x)) = IF Len(queue[c]) < Cap THEN Len(queue[c]) + 1 ELSE Cap
    BY <1>2, <2>3, PutBackLen
  <2>5. Len(queue[c]) \in Nat /\ Cap \in Nat
    BY <2>3, LenProperties, StreamAssumption
  <2> QED
    BY <2>1, <2>2, <2>3, <2>4, <2>5
<1> QED
  BY <1>3, <1>5, <1>6

LEMMA CloseLoad ==
    ASSUME TypeInv, NEW f \in Flushers, Close(f)
    PROVE  /\ fl'[f].dead = fl[f].dead
           /\ \/ fl'[f].conn = fl[f].conn /\ Load(fl[f]) = Load(fl'[f]) + fl[f].drops
              \/ fl'[f].conn = NoConn /\ Load(fl[f]) = fl[f].drops
<1>1. fl[f] \in FlusherState /\ Sound(fl[f]) /\ fl[f].at = "close" /\ fl \in [Flushers -> FlusherState]
  BY DEF Close, TypeInv, StreamTypes, FlusherInv
<1>2. /\ fl[f].batch \in Seq(Seqs) /\ fl[f].item = <<>> /\ fl[f].drops \in Nat
  BY <1>1, StreamAssumption DEF FlusherState, Sound
<1>3. Len(fl[f].batch) \in Nat /\ Len(<<>>) = 0
  BY <1>2, LenProperties
<1>4. CASE fl[f].batch = <<>>
  <2>1. fl'[f].conn = NoConn /\ fl'[f].dead = fl[f].dead
    BY <1>1, <1>4 DEF Close, Set, FlusherState
  <2>2. Len(fl[f].batch) = 0 /\ Len(fl[f].item) = 0 /\ fl[f].drops \in Nat
    BY <1>2, <1>3, <1>4, Zenon
  <2>3. Load(fl[f]) = fl[f].drops
    BY <2>2 DEF Load
  <2> QED
    BY <2>1, <2>3
<1>5. CASE fl[f].batch # <<>>
  <2>1. /\ fl'[f].conn = fl[f].conn /\ fl'[f].dead = fl[f].dead
        /\ fl'[f].batch = fl[f].batch /\ fl'[f].item = fl[f].item /\ fl'[f].drops = 0
    BY <1>1, <1>5 DEF Close, Set, FlusherState
  <2> QED
    BY <1>2, <1>3, <2>1 DEF Load
<1> QED
  BY <1>4, <1>5

\* The balance holds when an observation moves on, and when some of what is in
\* flight is counted.
LEMMA MovedOn ==
    ASSUME NEW s \in Statistics, NEW q \in Seq(Seqs), NEW q2 \in Seq(Seqs),
           NEW n \in Nat, NEW n2 \in Nat, NEW x \in Nat, NEW x2 \in Nat,
           Len(q2) + n2 + x2 = Len(q) + n + x, Balanced(s, q, n, x)
    PROVE  Balanced(s, q2, n2, x2)
<1> DEFINE e == s.enqueued
           k == s.delivered + s.dropped + s.drained
           l == Len(q)
           m == Len(q2)
<1>1. e \in Nat /\ k \in Nat /\ l \in Nat /\ m \in Nat
  BY LenProperties DEF Statistics
<1>2. m + n2 + x2 = l + n + x /\ e = k + l + n + x
  BY DEF Balanced
<1>3. Balanced(s, q2, n2, x2) <=> e = k + m + n2 + x2
  BY DEF Balanced
<1> HIDE DEF e, k, l, m
<1> QED
  BY <1>1, <1>2, <1>3

LEMMA Counted ==
    ASSUME NEW s \in Statistics, NEW t \in Statistics, NEW q \in Seq(Seqs),
           NEW n \in Nat, NEW x \in Nat, NEW k \in Nat,
           t.enqueued = s.enqueued,
           t.delivered + t.dropped + t.drained = s.delivered + s.dropped + s.drained + k,
           Balanced(s, q, n + k, x)
    PROVE  Balanced(t, q, n, x)
<1> DEFINE e == s.enqueued
           a == s.delivered + s.dropped + s.drained
           b == t.delivered + t.dropped + t.drained
           l == Len(q)
<1>1. e \in Nat /\ a \in Nat /\ b \in Nat /\ l \in Nat
  BY LenProperties, SMTT(20) DEF Statistics
<1>2. b = a + k /\ e = a + l + (n + k) + x
  BY DEF Balanced
<1>3. Balanced(t, q, n, x) <=> e = b + l + n + x
  BY DEF Balanced
<1> HIDE DEF e, a, b, l
<1> QED
  BY <1>1, <1>2, <1>3

LEMMA FlushAccount ==
    ASSUME OneInv, OneInv', FreshInv, NEW f \in Flushers, Flush(f), NEW c \in Conns,
           Live(c)', Live(c) => Balanced(stats[c], queue[c], InFlight(fl, c), spilled[c])
    PROVE  Balanced(stats[c], queue[c], InFlight(fl, c), spilled[c])'
<1> USE DEF conns, queues
<1>1. /\ fl[f] \in FlusherState /\ fl'[f] \in FlusherState /\ Sound(fl[f])
      /\ fl \in [Flushers -> FlusherState]
      /\ queue \in [Conns -> Seq(Seqs)] /\ stats \in [Conns -> Statistics]
      /\ spilled \in [Conns -> Nat] /\ reg \in [Conns -> {"new", "control", "stream", "gone"}]
  BY DEF OneInv, TypeInv, StreamTypes, FlusherInv
<1>2. Len(queue[c]) \in Nat /\ spilled[c] \in Nat /\ stats[c] \in Statistics
  BY <1>1, LenProperties
<1>3. Load(fl[f]) \in Nat /\ Load(fl'[f]) \in Nat
  <2>1. /\ Len(fl[f].batch) \in Nat /\ Len(fl[f].item) \in Nat /\ fl[f].drops \in Nat
        /\ Len(fl'[f].batch) \in Nat /\ Len(fl'[f].item) \in Nat /\ fl'[f].drops \in Nat
    <3>1. /\ fl[f].batch \in Seq(Seqs) /\ fl[f].item \in Seq(Seqs) /\ fl[f].drops \in Nat
          /\ fl'[f].batch \in Seq(Seqs) /\ fl'[f].item \in Seq(Seqs) /\ fl'[f].drops \in Nat
      <4>1. ASSUME NEW r \in FlusherState
            PROVE  r.batch \in Seq(Seqs) /\ r.item \in Seq(Seqs) /\ r.drops \in Nat
        BY StreamAssumption DEF FlusherState
      <4> QED
        BY <1>1, <4>1
    <3> QED
      BY <3>1, LenProperties
  <2>2. \A a, b, d \in Nat : a + b + d \in Nat
    OBVIOUS
  <2> QED
    BY <2>1, <2>2, Zenon DEF Load
<1>4. /\ InFlight(fl, c) = IF fl[f].conn = c THEN Load(fl[f]) ELSE 0
      /\ InFlight(fl', c) = IF fl'[f].conn = c THEN Load(fl'[f]) ELSE 0
  BY InFlightStep
<1>5. \A g \in Flushers \ {f} : fl'[g] = fl[g]
  BY FlushShape DEF OneInv
<1>6. c # NoConn
  BY StreamAssumption
<1>7. ASSUME fl[f].dead \subseteq fl'[f].dead, UNCHANGED reg
      PROVE  Live(c) /\ c \in present
  BY <1>5, <1>7 DEF Live, FreshInv
<1>8. CASE Wake(f) \/ EndPass(f) \/ Pick(f)
  <2>1. /\ fl[f].conn = NoConn /\ fl[f].dead \subseteq fl'[f].dead
        /\ fl'[f].conn = NoConn \/ Load(fl'[f]) = 0
    BY <1>8, PassLoad DEF OneInv
  <2>2. UNCHANGED <<reg, queue, stats, spilled>>
    BY <1>8 DEF Wake, EndPass, Pick
  <2>3. InFlight(fl, c) = 0 /\ InFlight(fl', c) = 0
    BY <1>4, <1>6, <2>1
  <2> QED
    BY <1>7, <2>1, <2>2, <2>3 DEF Balanced
<1>9. CASE Enough(f)
  <2>1. /\ fl'[f].conn = fl[f].conn /\ fl'[f].dead = fl[f].dead
        /\ fl'[f].batch = fl[f].batch /\ fl'[f].item = fl[f].item /\ fl'[f].drops = fl[f].drops
    BY <1>1, <1>9 DEF Enough, Set, FlusherState
  <2>2. UNCHANGED <<reg, queue, stats, spilled>>
    BY <1>9 DEF Enough
  <2>3. InFlight(fl', c) = InFlight(fl, c)
    <3>1. Load(fl'[f]) = Load(fl[f])
      BY <2>1, Zenon DEF Load
    <3> QED
      BY <1>4, <2>1, <3>1
  <2> QED
    BY <1>7, <2>1, <2>2, <2>3 DEF Balanced
<1>10. CASE Pop(f)
  <2>1. /\ fl'[f].conn = fl[f].conn /\ fl'[f].dead = fl[f].dead
        /\ Load(fl'[f]) = Load(fl[f]) + 1
        /\ Len(queue'[fl[f].conn]) = Len(queue[fl[f].conn]) - 1
    BY <1>10, PopLoad DEF OneInv
  <2>2. UNCHANGED <<reg, stats, spilled>>
    BY <1>10 DEF Pop
  <2>3. c # fl[f].conn => queue'[c] = queue[c]
    BY <1>1, <1>10 DEF Pop
  <2>4. InFlight(fl, c) \in Nat /\ InFlight(fl', c) \in Nat
    BY <1>3, <1>4
  <2>5. queue[c] \in Seq(Seqs) /\ queue'[c] \in Seq(Seqs)
    BY DEF OneInv, TypeInv, StreamTypes
  <2>6. Len(queue[c]) \in Nat /\ Len(queue'[c]) \in Nat
    BY <2>5, LenProperties
  <2>7. Len(queue'[c]) + InFlight(fl', c) = Len(queue[c]) + InFlight(fl, c)
    <3>1. CASE c = fl[f].conn
      <4> DEFINE a == InFlight(fl, c)
                 b == InFlight(fl', c)
                 l == Len(queue[c])
                 m == Len(queue'[c])
      <4>1. a \in Nat /\ l \in Nat /\ b = a + 1 /\ m = l - 1
        BY <1>4, <2>1, <2>4, <2>6, <3>1
      <4> HIDE DEF a, b, l, m
      <4>2. m + b = l + a
        BY <4>1
      <4> QED
        BY <4>2 DEF a, b, l, m
    <3>2. CASE c # fl[f].conn
      BY <1>4, <2>1, <2>3, <3>2
    <3> QED
      BY <3>1, <3>2
  <2>8. Len(queue'[c]) + InFlight(fl', c) + spilled'[c] = Len(queue[c]) + InFlight(fl, c) + spilled[c]
    BY <2>2, <2>7
  <2>9. stats'[c] = stats[c] /\ spilled'[c] \in Nat
    BY <1>2, <2>2
  <2> QED
    BY <1>2, <1>7, <2>1, <2>2, <2>4, <2>5, <2>8, <2>9, MovedOn
<1>11. CASE Return(f)
  <2>1. /\ fl'[f].conn = fl[f].conn /\ fl'[f].dead = fl[f].dead
        /\ Load(fl[f]) = Load(fl'[f]) + 1
        /\ fl[f].conn \in present =>
              Len(queue'[fl[f].conn]) + spilled'[fl[f].conn]
                 = Len(queue[fl[f].conn]) + spilled[fl[f].conn] + 1
    BY <1>11, ReturnLoad DEF OneInv
  <2>2. UNCHANGED <<reg, stats>>
    BY <1>11 DEF Return
  <2>3. c # fl[f].conn => queue'[c] = queue[c] /\ spilled'[c] = spilled[c]
    BY <1>1, <1>11 DEF Return
  <2>4. Live(c) /\ c \in present
    BY <1>7, <2>1, <2>2
  <2>5. InFlight(fl, c) \in Nat /\ InFlight(fl', c) \in Nat
    BY <1>3, <1>4
  <2>6. queue[c] \in Seq(Seqs) /\ queue'[c] \in Seq(Seqs) /\ spilled'[c] \in Nat
    BY DEF OneInv, TypeInv, StreamTypes
  <2>7. Len(queue[c]) \in Nat /\ Len(queue'[c]) \in Nat
    BY <2>6, LenProperties
  <2>8. Len(queue'[c]) + InFlight(fl', c) + spilled'[c] = Len(queue[c]) + InFlight(fl, c) + spilled[c]
    <3>1. CASE c = fl[f].conn
      <4> DEFINE a == InFlight(fl, c)
                 b == InFlight(fl', c)
                 l == Len(queue[c])
                 m == Len(queue'[c])
                 x == spilled[c]
                 y == spilled'[c]
      <4>1. m + y = l + x + 1
        BY <2>1, <2>4, <3>1
      <4>2. a = b + 1
        BY <1>4, <2>1, <3>1
      <4>3. b \in Nat /\ m \in Nat /\ l \in Nat /\ x \in Nat /\ y \in Nat
        BY <1>2, <2>5, <2>6, <2>7
      <4> HIDE DEF a, b, l, m, x, y
      <4>4. m + b + y = l + a + x
        BY <4>1, <4>2, <4>3
      <4> QED
        BY <4>4 DEF a, b, l, m, x, y
    <3>2. CASE c # fl[f].conn
      BY <1>4, <2>1, <2>3, <3>2
    <3> QED
      BY <3>1, <3>2
  <2>9. stats'[c] = stats[c]
    BY <2>2
  <2> QED
    BY <1>2, <2>4, <2>5, <2>6, <2>8, <2>9, MovedOn
<1>12. CASE Close(f)
  <2>1. /\ fl'[f].dead = fl[f].dead
        /\ \/ fl'[f].conn = fl[f].conn /\ Load(fl[f]) = Load(fl'[f]) + fl[f].drops
           \/ fl'[f].conn = NoConn /\ Load(fl[f]) = fl[f].drops
    BY <1>12, CloseLoad DEF OneInv
  <2>2. UNCHANGED <<reg, queue, spilled>>
    BY <1>12 DEF Close
  <2>3. Live(c) /\ c \in present
    BY <1>7, <2>1, <2>2
  <2>4. c # fl[f].conn => stats'[c] = stats[c]
    BY <1>1, <1>12 DEF Close
  <2>5. c = fl[f].conn => stats'[c] = [stats[c] EXCEPT !.dropped = @ + fl[f].drops]
    BY <1>1, <1>12, <2>3, Zenon DEF Close
  <2>6. fl[f].drops \in Nat
    BY <1>1, StreamAssumption DEF FlusherState
  <2>7. c = fl[f].conn =>
          /\ stats'[c].enqueued = stats[c].enqueued /\ stats'[c].delivered = stats[c].delivered
          /\ stats'[c].dropped = stats[c].dropped + fl[f].drops
          /\ stats'[c].drained = stats[c].drained
    BY <1>2, <2>5, Zenon DEF Statistics
  <2>8. CASE c = fl[f].conn
    <3>1. InFlight(fl, c) = InFlight(fl', c) + fl[f].drops /\ InFlight(fl', c) \in Nat
      BY <1>3, <1>4, <1>6, <2>1, <2>6, <2>8
    <3>2. Balanced(stats[c], queue[c], InFlight(fl', c) + fl[f].drops, spilled[c])
      BY <2>3, <3>1
    <3>3. stats'[c] \in Statistics /\ queue[c] \in Seq(Seqs)
      BY <1>1 DEF OneInv, TypeInv, StreamTypes
    <3>4. stats'[c].delivered + stats'[c].dropped + stats'[c].drained
            = stats[c].delivered + stats[c].dropped + stats[c].drained + fl[f].drops
      <4>1. /\ stats[c].delivered \in Nat /\ stats[c].dropped \in Nat /\ stats[c].drained \in Nat
        BY <1>2 DEF Statistics
      <4> QED
        BY <2>6, <2>7, <2>8, <4>1
    <3>5. Balanced(stats'[c], queue[c], InFlight(fl', c), spilled[c])
      BY <1>2, <2>6, <2>7, <2>8, <3>1, <3>2, <3>3, <3>4, Counted
    <3> QED
      BY <2>2, <3>5
  <2>9. CASE c # fl[f].conn
    <3>1. InFlight(fl, c) = 0 /\ InFlight(fl', c) = 0
      BY <1>4, <1>6, <2>1, <2>9
    <3> QED
      BY <2>2, <2>3, <2>4, <2>9, <3>1 DEF Balanced
  <2> QED
    BY <2>8, <2>9
<1>13. CASE Send(f)
  <2>1. /\ fl'[f].conn = fl[f].conn /\ fl'[f].dead = fl[f].dead
        /\ fl'[f].batch = fl[f].batch /\ fl'[f].item = fl[f].item /\ fl'[f].drops = fl[f].drops
    BY <1>1, <1>13 DEF Send, Set, FlusherState
  <2>2. UNCHANGED <<reg, queue, stats, spilled>>
    BY <1>13 DEF Send
  <2>3. InFlight(fl', c) = InFlight(fl, c)
    <3>1. Load(fl'[f]) = Load(fl[f])
      BY <2>1, Zenon DEF Load
    <3> QED
      BY <1>4, <2>1, <3>1
  <2> QED
    BY <1>7, <2>1, <2>2, <2>3 DEF Balanced
<1>14. CASE Evict(f)
  <2>1. /\ fl'[f].conn = NoConn /\ fl'[f].dead = fl[f].dead \cup {fl[f].conn}
    BY <1>1, <1>14 DEF Evict, Set, FlusherState
  <2>2. UNCHANGED <<reg, queue, stats, spilled>>
    BY <1>14 DEF Evict
  <2>3. fl[f].conn # c
    BY <2>1 DEF Live
  <2>4. InFlight(fl, c) = 0 /\ InFlight(fl', c) = 0
    BY <1>4, <1>6, <2>1, <2>3
  <2> QED
    BY <1>7, <2>1, <2>2, <2>4 DEF Balanced
<1>15. CASE Count(f)
  <2>1. /\ fl'[f].conn = NoConn /\ fl'[f].dead = fl[f].dead
    BY <1>1, <1>15 DEF Count, Set, FlusherState
  <2>2. UNCHANGED <<reg, queue, spilled>>
    BY <1>15 DEF Count
  <2>3. Live(c) /\ c \in present
    BY <1>7, <2>1, <2>2
  <2>4. c # fl[f].conn => stats'[c] = stats[c]
    BY <1>1, <1>15 DEF Count
  <2>5. c = fl[f].conn => stats'[c] = [stats[c] EXCEPT !.delivered = @ + Len(fl[f].batch)]
    BY <1>1, <1>15, <2>3, Zenon DEF Count
  <2>6. Len(fl[f].batch) \in Nat /\ fl[f].item = <<>> /\ fl[f].drops = 0
    BY <1>1, <1>15, LenProperties DEF Count, Sound, FlusherState
  <2>7. Load(fl[f]) = Len(fl[f].batch)
    <3>1. Len(fl[f].item) = 0
      BY <2>6
    <3>2. \A a \in Nat : a + 0 + 0 = a
      OBVIOUS
    <3> QED
      BY <2>6, <3>1, <3>2, Zenon DEF Load
  <2>8. c = fl[f].conn =>
          /\ stats'[c].enqueued = stats[c].enqueued
          /\ stats'[c].delivered = stats[c].delivered + Len(fl[f].batch)
          /\ stats'[c].dropped = stats[c].dropped /\ stats'[c].drained = stats[c].drained
    BY <1>2, <2>5, Zenon DEF Statistics
  <2>9. InFlight(fl', c) = 0
    BY <1>4, <1>6, <2>1
  <2>10. CASE c = fl[f].conn
    <3>1. InFlight(fl, c) = Len(fl[f].batch)
      BY <1>4, <2>7, <2>10
    <3>2. Balanced(stats[c], queue[c], 0 + Len(fl[f].batch), spilled[c])
      BY <2>3, <2>6, <3>1
    <3>3. stats'[c] \in Statistics /\ queue[c] \in Seq(Seqs)
      BY <1>1 DEF OneInv, TypeInv, StreamTypes
    <3>4. stats'[c].delivered + stats'[c].dropped + stats'[c].drained
            = stats[c].delivered + stats[c].dropped + stats[c].drained + Len(fl[f].batch)
      <4> DEFINE d == stats[c].delivered
                 p == stats[c].dropped
                 r == stats[c].drained
                 k == Len(fl[f].batch)
      <4>1. /\ stats'[c].delivered = d + k /\ stats'[c].dropped = p /\ stats'[c].drained = r
        BY <2>8, <2>10
      <4>2. d \in Nat /\ p \in Nat /\ r \in Nat /\ k \in Nat
        BY <1>2, <2>6 DEF Statistics
      <4> HIDE DEF d, p, r, k
      <4>3. (d + k) + p + r = d + p + r + k
        BY <4>2
      <4> QED
        BY <4>1, <4>3, Zenon DEF d, p, r, k
    <3>5. Balanced(stats'[c], queue[c], 0, spilled[c])
      BY <1>2, <2>6, <2>8, <2>10, <3>2, <3>3, <3>4, Counted
    <3> QED
      BY <2>2, <2>9, <3>5
  <2>11. CASE c # fl[f].conn
    BY <1>4, <2>2, <2>3, <2>4, <2>9, <2>11 DEF Balanced
  <2> QED
    BY <2>10, <2>11
<1>16. CASE Bury(f)
  <2>1. PICK d \in fl[f].dead : Set(f, [fl[f] EXCEPT !.dead = @ \ {d}]) /\ Forget(d)
    BY <1>16 DEF Bury
  <2>2. fl'[f] = [fl[f] EXCEPT !.dead = @ \ {d}]
    BY <1>1, <2>1 DEF Set
  <2>3. d \in Conns /\ d # c
    BY <1>1, <2>1 DEF FlusherState, Forget, Live
  <2>4. fl'[f].dead = fl[f].dead \ {d} /\ fl'[f].conn = fl[f].conn
    BY <1>1, <2>2 DEF FlusherState
  <2>5. fl'[f].batch = fl[f].batch /\ fl'[f].item = fl[f].item /\ fl'[f].drops = fl[f].drops
    BY <1>1, <2>2 DEF FlusherState
  <2>6. /\ reg'[c] = reg[c] /\ queue'[c] = queue[c] /\ stats'[c] = stats[c]
        /\ spilled'[c] = spilled[c]
    BY <1>1, <2>1, <2>3 DEF Forget
  <2>7. Live(c)
    BY <1>5, <2>3, <2>4, <2>6 DEF Live
  <2>8. InFlight(fl', c) = InFlight(fl, c)
    <3>1. Load(fl'[f]) = Load(fl[f])
      BY <2>5, Zenon DEF Load
    <3> QED
      BY <1>4, <2>4, <3>1
  <2> QED
    BY <2>6, <2>7, <2>8 DEF Balanced
<1> QED
  BY <1>8, <1>9, <1>10, <1>11, <1>12, <1>13, <1>14, <1>15, <1>16 DEF Flush

LEMMA EnqueueSum ==
    ASSUME NEW e \in Nat, NEW k \in Nat, NEW p \in Nat, NEW r \in Nat, NEW l \in Nat,
           NEW n \in Nat, NEW x \in Nat, NEW m \in Nat, NEW lost \in Nat,
           m + lost = l + 1, e = k + p + r + l + n + x
    PROVE  e + 1 = k + (p + lost) + r + m + n + x
  OBVIOUS

LEMMA AccountStep == OneInv /\ OneInv' /\ FreshInv /\ AccountInv /\ [Next]_vars => AccountInv'
<1> SUFFICES ASSUME OneInv, OneInv', FreshInv, AccountInv, [Next]_vars,
                    NEW c \in Conns, Live(c)'
             PROVE  Balanced(stats[c], queue[c], InFlight(fl, c), spilled[c])'
  BY DEF AccountInv
<1> USE DEF conns, queues, flush
<1>1. /\ reg \in [Conns -> {"new", "control", "stream", "gone"}]
      /\ queue \in [Conns -> Seq(Seqs)] /\ stats \in [Conns -> Statistics]
      /\ spilled \in [Conns -> Nat] /\ fl \in [Flushers -> FlusherState]
  BY DEF OneInv, TypeInv, StreamTypes
<1>2. ASSUME reg'[c] = reg[c], UNCHANGED fl
      PROVE  Live(c) /\ InFlight(fl', c) = InFlight(fl, c)
  BY <1>2 DEF Live
<1>3. ASSUME NEW d \in Conns, Forget(d), UNCHANGED fl
      PROVE  Balanced(stats[c], queue[c], InFlight(fl, c), spilled[c])'
  <2>1. d # c
    BY <1>1, <1>3 DEF Forget, Live
  <2>2. /\ reg'[c] = reg[c] /\ queue'[c] = queue[c] /\ stats'[c] = stats[c]
        /\ spilled'[c] = spilled[c]
    BY <1>1, <1>3, <2>1 DEF Forget
  <2> QED
    BY <1>2, <1>3, <2>2 DEF AccountInv
<1>4. ASSUME reg'[c] = reg[c], UNCHANGED <<queues, fl>>
      PROVE  Balanced(stats[c], queue[c], InFlight(fl, c), spilled[c])'
  BY <1>2, <1>4 DEF AccountInv
<1>5. ASSUME NEW d \in Conns, Register(d)
      PROVE  Balanced(stats[c], queue[c], InFlight(fl, c), spilled[c])'
  <2>1. c # d
    BY <1>1, <1>5 DEF Register, Live
  <2> QED
    BY <1>1, <1>4, <1>5, <2>1 DEF Register
<1>6. ASSUME NEW d \in Conns, Subscribe(d)
      PROVE  Balanced(stats[c], queue[c], InFlight(fl, c), spilled[c])'
  <2>1. UNCHANGED <<queue, stats, spilled, fl>>
    BY <1>6 DEF Subscribe
  <2>2. CASE reg[c] = "stream"
    <3>1. reg'[c] = reg[c]
      BY <1>1, <1>6, <2>2 DEF Subscribe
    <3> QED
      BY <1>2, <2>1, <3>1 DEF AccountInv
  <2>3. CASE reg[c] # "stream"
    <3>1. reg[c] \in {"new", "control"}
      BY <1>1, <1>6, <2>3 DEF Subscribe, Live
    <3>2. /\ stats[c] = NoStats /\ queue[c] = <<>> /\ spilled[c] = 0
          /\ \A e \in Flushers : fl[e].conn # c
      BY <3>1 DEF FreshInv, Untouched
    <3>3. InFlight(fl', c) = 0
      BY <2>1, <3>2, NotInFlight
    <3> QED
      BY <2>1, <3>2, <3>3 DEF Balanced, NoStats
  <2> QED
    BY <2>2, <2>3
<1>7. ASSUME NEW d \in Conns, StartFlusher(d)
      PROVE  Balanced(stats[c], queue[c], InFlight(fl, c), spilled[c])'
  <2>1. PICK f \in Flushers : fl[f] = Resting /\ fl' = [fl EXCEPT ![f].at = "wait"]
    BY <1>7 DEF StartFlusher
  <2>2. UNCHANGED <<reg, queue, stats, spilled>>
    BY <1>7 DEF StartFlusher
  <2>3. \A e \in Flushers : fl'[e].conn = fl[e].conn /\ fl'[e].dead = fl[e].dead
    BY <1>1, <2>1 DEF FlusherState
  <2>4. \A e \in Flushers : fl[e].conn # c
    <3>1. \A e \in Flushers : Sound(fl[e]) /\ fl[e].at = "off"
      BY <1>7 DEF StartFlusher, OneInv, StartInv, TypeInv, FlusherInv
    <3> QED
      BY <3>1, StreamAssumption DEF Sound, AtWork
  <2>5. InFlight(fl, c) = 0 /\ InFlight(fl', c) = 0
    BY <2>3, <2>4, NotInFlight
  <2> QED
    BY <2>2, <2>3, <2>5 DEF AccountInv, Live
<1>8. ASSUME NEW d \in Conns,
             \/ Register(d) \/ Subscribe(d) \/ CheckFlusher(d) \/ StartFlusher(d)
             \/ Serve(d) \/ Respond(d) \/ Disconnect(d) \/ Stall(d) \/ LogFails(d)
      PROVE  Balanced(stats[c], queue[c], InFlight(fl, c), spilled[c])'
  BY <1>3, <1>4, <1>5, <1>6, <1>7, <1>8
     DEF CheckFlusher, Serve, Respond, NoResponse, Disconnect, Stall, LogFails
<1>9. ASSUME NEW p \in Producers, Emit(p)
      PROVE  Balanced(stats[c], queue[c], InFlight(fl, c), spilled[c])'
  BY <1>4, <1>9 DEF Emit
<1>10. ASSUME NEW p \in Producers, NEW d \in Conns, Enqueue(p, d)
       PROVE  Balanced(stats[c], queue[c], InFlight(fl, c), spilled[c])'
  <2>1. UNCHANGED <<reg, spilled, fl>>
    BY <1>10 DEF Enqueue
  <2>2. Live(c) /\ InFlight(fl', c) = InFlight(fl, c)
    BY <1>2, <2>1
  <2>3. CASE d # c
    <3>1. stats'[c] = stats[c] /\ queue'[c] = queue[c]
      BY <1>1, <1>10, <2>3 DEF Enqueue
    <3> QED
      BY <2>1, <2>2, <3>1 DEF AccountInv
  <2>4. CASE d = c
    <3> DEFINE lost == IF Len(queue[c]) = Cap THEN 1 ELSE 0
               e == stats[c].enqueued
               k == stats[c].delivered
               p1 == stats[c].dropped
               r == stats[c].drained
               l == Len(queue[c])
               n == InFlight(fl, c)
               x == spilled[c]
    <3>1. /\ prod[p].item \in Seqs
      <4>1. prod[p].item \in 1..seq /\ seq \in 0..MaxSeq
        BY <1>10 DEF Enqueue, OneInv, TypeInv, ProducerInv, StreamTypes
      <4> QED
        BY <4>1, StreamAssumption DEF Seqs
    <3>2. Len(queue'[c]) = IF l < Cap THEN l + 1 ELSE Cap
      <4>1. queue[c] \in Seq(Seqs) /\ Len(queue[c]) <= Cap
        BY DEF OneInv, TypeInv, StreamTypes
      <4>2. queue'[c] = Appended(queue[c], prod[p].item)
        BY <1>1, <1>10, <2>4 DEF Enqueue
      <4> QED
        BY <3>1, <4>1, <4>2, AppendedLen
    <3>3. stats' = [stats EXCEPT ![c].enqueued = @ + 1, ![c].dropped = @ + lost]
      BY <1>10, <2>4, Zenon DEF Enqueue
    <3>4. stats \in [Conns -> Statistics] /\ lost \in Nat
      BY <1>1
    <3>5. l \in Nat /\ l <= Cap /\ Cap \in Nat
      BY <1>1, LenProperties, StreamAssumption DEF OneInv, TypeInv, StreamTypes
    <3>6. lost = IF l = Cap THEN 1 ELSE 0
      OBVIOUS
    <3>7. /\ e \in Nat /\ k \in Nat /\ p1 \in Nat /\ r \in Nat /\ x \in Nat
      BY <1>1 DEF Statistics
    <3>8. e = k + p1 + r + l + n + x
      BY <2>2 DEF AccountInv, Balanced
    <3> HIDE DEF lost
    <3>9. /\ stats'[c].enqueued = e + 1 /\ stats'[c].dropped = p1 + lost
          /\ stats'[c].delivered = k /\ stats'[c].drained = r
      BY <3>3, <3>4, Zenon DEF Statistics
    <3>10. n \in Nat
      BY InFlightNat DEF OneInv, TypeInv, StreamTypes
    <3> DEFINE m == Len(queue'[c])
    <3>11. Balanced(stats'[c], queue'[c], n, x) <=> e + 1 = k + (p1 + lost) + r + m + n + x
      BY <3>9, Zenon DEF Balanced
    <3>12. m = IF l < Cap THEN l + 1 ELSE Cap
      BY <3>2
    <3> HIDE DEF e, k, p1, r, l, n, x, m
    <3>13. e + 1 = k + (p1 + lost) + r + m + n + x
      <4>1. lost \in Nat /\ m + lost = l + 1
        BY <3>4, <3>5, <3>6, <3>12
      <4>2. m \in Nat
        BY <3>5, <3>12
      <4> QED
        BY <3>5, <3>7, <3>8, <3>10, <4>1, <4>2, EnqueueSum
    <3>14. Balanced(stats'[c], queue'[c], n, x)
      BY <3>11, <3>13
    <3> QED
      BY <2>1, <2>2, <3>14 DEF n, x
  <2> QED
    BY <2>3, <2>4
<1>11. ASSUME NEW f \in Flushers, Flush(f)
       PROVE  Balanced(stats[c], queue[c], InFlight(fl, c), spilled[c])'
  BY <1>11, FlushAccount DEF AccountInv
<1>12. CASE Drain
  <2>1. UNCHANGED <<reg, spilled, fl>>
    BY <1>12 DEF Drain
  <2>2. Live(c) /\ InFlight(fl', c) = InFlight(fl, c)
    BY <1>2, <2>1
  <2> DEFINE e == stats[c].enqueued
             k == stats[c].delivered
             p1 == stats[c].dropped
             r == stats[c].drained
             l == Len(queue[c])
             n == InFlight(fl, c)
             x == spilled[c]
  <2>3. stats'[c] = [stats[c] EXCEPT !.drained = @ + l] /\ queue'[c] = <<>>
    BY <1>12, Zenon DEF Drain
  <2>4. stats[c] \in Statistics
    BY <1>1
  <2>5. /\ stats'[c].enqueued = e /\ stats'[c].dropped = p1
        /\ stats'[c].delivered = k /\ stats'[c].drained = r + l
    BY <2>3, <2>4, Zenon DEF Statistics
  <2>6. /\ e \in Nat /\ k \in Nat /\ p1 \in Nat /\ r \in Nat /\ x \in Nat /\ l \in Nat
    BY <1>1, LenProperties DEF Statistics
  <2>7. e = k + p1 + r + l + n + x
    BY <2>2 DEF AccountInv, Balanced
  <2>8. n \in Nat
    BY InFlightNat DEF OneInv, TypeInv, StreamTypes
  <2>9. Len(queue'[c]) = 0
    BY <2>3
  <2>10. Balanced(stats'[c], queue'[c], n, x) <=> e = k + p1 + (r + l) + 0 + n + x
    BY <2>5, <2>9, Zenon DEF Balanced
  <2> HIDE DEF e, k, p1, r, l, n, x
  <2>11. e = k + p1 + (r + l) + 0 + n + x
    BY <2>6, <2>7, <2>8
  <2>12. Balanced(stats'[c], queue'[c], n, x)
    BY <2>10, <2>11
  <2> QED
    BY <2>1, <2>2, <2>12 DEF n, x
<1>13. CASE Shutdown \/ UNCHANGED vars
  BY <1>4, <1>13 DEF Shutdown, vars
<1> QED
  BY <1>8, <1>9, <1>10, <1>11, <1>12, <1>13 DEF Next

LEMMA OneInit == Init => OneInv /\ FreshInv /\ AccountInv
<1> SUFFICES ASSUME Init PROVE OneInv /\ FreshInv /\ AccountInv
  OBVIOUS
<1>1. TypeInv
  BY InitTypes
<1>2. StartInv /\ OneFlusher
  BY DEF Init, StartInv, OneFlusher, Resting
<1>3. FreshInv
  BY StreamAssumption DEF Init, FreshInv, Untouched, Resting
<1>4. AccountInv
  BY DEF Init, AccountInv, Live
<1> QED
  BY <1>1, <1>2, <1>3, <1>4 DEF OneInv

\* What is enqueued for a live client is delivered, counted as dropped or drained,
\* still on its way, or pushed out by a put-back, in every state (Accounted): the
\* statistics of _send_observation, _flush_connection and stop() add up.
THEOREM StreamAccounted ==
    ASSUME ~Overlap
    PROVE  Spec => []Accounted
<1> DEFINE Inv == OneInv /\ FreshInv /\ AccountInv
<1>1. Inv /\ [Next]_vars => Inv'
  BY TypeStep, OneStep, FreshStep, AccountStep DEF OneInv
<1>2. Inv => Accounted
  BY DEF AccountInv, Accounted, Live, Balanced, InFlight, Load, Flying
<1> QED
  BY OneInit, <1>1, <1>2, PTL DEF Spec

-----------------------------------------------------------------------------
(* What may be left of a sequence *)

Remains(t, s) == Fifo!Remains(t, s)

LEMMA RemainsByPlaces ==
    ASSUME NEW S, NEW s \in Seq(S), NEW t \in Seq(S), NEW h \in [1..Len(t) -> 1..Len(s)],
           \A i, j \in 1..Len(t) : i < j => h[i] < h[j],
           \A i \in 1..Len(t) : t[i] = s[h[i]]
    PROVE  Remains(t, s)
<1>1. DOMAIN t = 1..Len(t) /\ DOMAIN s = 1..Len(s)
  BY LenProperties
<1>2. h \in Fifo!Places(t, s)
  BY <1>1, Zenon DEF Fifo!Places
<1> QED
  BY <1>1, <1>2, Zenon DEF Remains, Fifo!Remains

LEMMA RemainsSame == ASSUME NEW S, NEW s \in Seq(S) PROVE Remains(s, s)
<1> DEFINE h == [i \in 1..Len(s) |-> i]
<1>1. /\ h \in [1..Len(s) -> 1..Len(s)]
      /\ \A i, j \in 1..Len(s) : i < j => h[i] < h[j]
      /\ \A i \in 1..Len(s) : s[i] = s[h[i]]
  BY LenProperties
<1> QED
  BY <1>1, RemainsByPlaces

\* One stretch of the sequence is gone.
LEMMA RemainsCut ==
    ASSUME NEW S, NEW a \in Seq(S), NEW b \in Seq(S), NEW d \in Seq(S)
    PROVE  Remains(a \o d, a \o b \o d)
<1> DEFINE l == Len(a)
           m == Len(b)
           n == Len(d)
           s == a \o b \o d
           t == a \o d
           h == [i \in 1..Len(t) |-> IF i <= l THEN i ELSE i + m]
<1>1. l \in Nat /\ m \in Nat /\ n \in Nat
  BY LenProperties
<1>2. /\ a \o b \in Seq(S) /\ Len(a \o b) = l + m
      /\ \A i \in 1..l + m : (a \o b)[i] = IF i <= l THEN a[i] ELSE b[i - l]
  BY ConcatProperties
<1>3. /\ s \in Seq(S) /\ Len(s) = l + m + n
      /\ \A i \in 1..l + m + n : s[i] = IF i <= l + m THEN (a \o b)[i] ELSE d[i - (l + m)]
  BY <1>2, ConcatProperties
<1>4. /\ t \in Seq(S) /\ Len(t) = l + n
      /\ \A i \in 1..l + n : t[i] = IF i <= l THEN a[i] ELSE d[i - l]
  BY ConcatProperties
<1> HIDE DEF l, m, n, s, t
<1>5. h \in [1..Len(t) -> 1..Len(s)]
  BY <1>1, <1>3, <1>4
<1>6. \A i, j \in 1..Len(t) : i < j => h[i] < h[j]
  BY <1>1, <1>4
<1>7. ASSUME NEW i \in 1..Len(t) PROVE t[i] = s[h[i]]
  <2>1. CASE i <= l
    <3>1. h[i] = i /\ i \in 1..l + m + n /\ i \in 1..l + m /\ i \in 1..l + n /\ i <= l + m
      BY <1>1, <1>4, <2>1
    <3>2. s[i] = (a \o b)[i] /\ (a \o b)[i] = a[i] /\ t[i] = a[i]
      BY <1>2, <1>3, <1>4, <2>1, <3>1
    <3> QED
      BY <3>1, <3>2
  <2>2. CASE ~(i <= l)
    <3>1. h[i] = i + m /\ i + m \in 1..l + m + n /\ ~(i + m <= l + m)
      BY <1>1, <1>4, <2>2
    <3>2. s[i + m] = d[(i + m) - (l + m)]
      BY <1>3, <3>1
    <3>3. (i + m) - (l + m) = i - l
      BY <1>1
    <3> QED
      BY <1>4, <2>2, <3>1, <3>2, <3>3
  <2> QED
    BY <2>1, <2>2
<1>8. Remains(t, s)
  BY <1>3, <1>4, <1>5, <1>6, <1>7, RemainsByPlaces
<1> QED
  BY <1>8 DEF s, t

LEMMA ConcatAppend ==
    ASSUME NEW S, NEW a \in Seq(S), NEW b \in Seq(S), NEW x \in S
    PROVE  a \o Append(b, x) = Append(a \o b, x)
<1>1. <<x>> \in Seq(S) /\ a \o b \in Seq(S)
  BY ConcatProperties
<1>2. Append(b, x) = b \o <<x>> /\ Append(a \o b, x) = (a \o b) \o <<x>>
  BY <1>1, AppendIsConcat
<1> QED
  BY <1>1, <1>2, ConcatAssociative

LEMMA RemainsEnd ==
    ASSUME NEW S, NEW a \in Seq(S), NEW b \in Seq(S)
    PROVE  Remains(b, a \o b) /\ Remains(a, a \o b)
<1>1. <<>> \in Seq(S)
  OBVIOUS
<1>2. Remains(<<>> \o b, <<>> \o a \o b) /\ Remains(a \o <<>>, a \o b \o <<>>)
  BY <1>1, RemainsCut
<1>3. /\ <<>> \o b = b /\ <<>> \o a = a /\ a \o <<>> = a
  BY ConcatEmptySeq
<1>4. a \o b \o <<>> = a \o b
  BY ConcatProperties, ConcatEmptySeq
<1> QED
  BY <1>2, <1>3, <1>4, Zenon

LEMMA RemainsAppend ==
    ASSUME NEW S, NEW x \in S, NEW a \in Seq(S), NEW b \in Seq(S), NEW d \in Seq(S)
    PROVE  Remains(Append(a \o d, x), Append(a \o b \o d, x))
<1>1. Append(d, x) \in Seq(S) /\ a \o b \in Seq(S)
  BY AppendProperties, ConcatProperties
<1>2. Remains(a \o Append(d, x), a \o b \o Append(d, x))
  BY <1>1, RemainsCut
<1>3. a \o Append(d, x) = Append(a \o d, x)
  BY ConcatAppend
<1>4. (a \o b) \o Append(d, x) = Append((a \o b) \o d, x)
  BY <1>1, ConcatAppend
<1> QED
  BY <1>2, <1>3, <1>4

LEMMA HeadAndTail ==
    ASSUME NEW S, NEW q \in Seq(S), q # <<>>
    PROVE  /\ Head(q) \in S /\ Tail(q) \in Seq(S)
           /\ q = <<Head(q)>> \o Tail(q)
<1>1. Head(q) \in S /\ Tail(q) \in Seq(S) /\ Len(q) \in Nat /\ 1 <= Len(q)
  BY HeadTailProperties, LenProperties, EmptySeq
<1>2. SubSeq(q, 1, Len(q)) = <<q[1]>> \o SubSeq(q, 1 + 1, Len(q))
  <2>1. 1 \in 1..Len(q) /\ Len(q) \in 1..Len(q)
    BY <1>1
  <2> QED
    BY <2>1, SubSeqRecursiveFirst
<1>3. 1 + 1 = 2 /\ Head(q) = q[1]
  OBVIOUS
<1> QED
  BY <1>1, <1>2, <1>3, SubSeqFull, TailIsSubSeq

\* What follows a stretch of the sequence.
LEMMA AfterPrefix ==
    ASSUME NEW S, NEW a \in Seq(S), NEW b \in Seq(S)
    PROVE  SubSeq(a \o b, Len(a) + 1, Len(a \o b)) = b
<1>1. /\ Len(a) \in Nat /\ Len(b) \in Nat /\ a \o b \in Seq(S)
      /\ Len(a \o b) = Len(a) + Len(b)
  BY LenProperties, ConcatProperties
<1>2. CASE b = <<>>
  <2>1. Len(b) = 0
    BY <1>2
  <2>2. Len(a) + 1 \in Int /\ Len(a \o b) \in Int /\ Len(a \o b) < Len(a) + 1
    BY <1>1, <2>1
  <2> QED
    BY <1>2, <2>2, SubSeqEmpty
<1>3. CASE b # <<>>
  <2>1. Len(b) >= 1
    BY <1>1, <1>3, EmptySeq
  <2>2. /\ Len(a) + 1 \in Len(a) + 1..Len(a) + Len(b)
        /\ Len(a) + Len(b) \in Len(a) + 1..Len(a) + Len(b)
        /\ (Len(a) + 1) - Len(a) = 1 /\ (Len(a) + Len(b)) - Len(a) = Len(b)
    BY <1>1, <2>1
  <2>3. SubSeq(a \o b, Len(a) + 1, Len(a) + Len(b))
          = SubSeq(b, (Len(a) + 1) - Len(a), (Len(a) + Len(b)) - Len(a))
    BY <2>2, SubSeqOfConcat2
  <2> QED
    BY <1>1, <2>2, <2>3, SubSeqFull
<1> QED
  BY <1>2, <1>3

LEMMA SplitAt ==
    ASSUME NEW S, NEW q \in Seq(S), NEW k \in 0..Len(q)
    PROVE  /\ SubSeq(q, 1, k) \in Seq(S) /\ SubSeq(q, k + 1, Len(q)) \in Seq(S)
           /\ Len(SubSeq(q, 1, k)) = k
           /\ q = SubSeq(q, 1, k) \o SubSeq(q, k + 1, Len(q))
<1>1. Len(q) \in Nat /\ k \in Nat /\ k <= Len(q)
  BY LenProperties
<1>2. /\ \A i \in 1..k : q[i] \in S
      /\ \A i \in k + 1..Len(q) : q[i] \in S
  BY <1>1, ElementOfSeq
<1>3. /\ SubSeq(q, 1, k) \in Seq(S)
      /\ Len(SubSeq(q, 1, k)) = IF 1 <= k THEN k - 1 + 1 ELSE 0
  <2>1. 1 \in Int /\ k \in Int
    BY <1>1
  <2> QED
    BY <1>2, <2>1, SubSeqProperties
<1>4. SubSeq(q, k + 1, Len(q)) \in Seq(S)
  <2>1. k + 1 \in Int /\ Len(q) \in Int
    BY <1>1
  <2> QED
    BY <1>2, <2>1, SubSeqProperties
<1>5. SubSeq(q, 1, k) \o SubSeq(q, k + 1, Len(q)) = SubSeq(q, 1, Len(q))
  <2>1. 1 \in 1..Len(q) + 1 /\ k \in 1 - 1..Len(q) /\ Len(q) \in k..Len(q)
    BY <1>1
  <2> QED
    BY <2>1, ConcatAdjacentSubSeq
<1>7. SubSeq(q, 1, Len(q)) = q
  BY SubSeqFull
<1>8. q = SubSeq(q, 1, k) \o SubSeq(q, k + 1, Len(q))
  BY <1>5, <1>7, Zenon
<1>9. Len(SubSeq(q, 1, k)) = k
  <2> DEFINE n == Len(SubSeq(q, 1, k))
  <2>1. n = IF 1 <= k THEN k - 1 + 1 ELSE 0
    BY <1>3
  <2> HIDE DEF n
  <2>2. n = k
    BY <1>1, <2>1
  <2> QED
    BY <2>2 DEF n
<1> QED
  BY <1>3, <1>4, <1>8, <1>9, Zenon

\* When the front of a sequence is delivered, what follows may be left.
LEMMA RemainsAfter ==
    ASSUME NEW S, NEW b \in Seq(S), NEW q \in Seq(S), NEW k \in 0..Len(b)
    PROVE  Remains(q, SubSeq(b \o q, k + 1, Len(b \o q)))
<1> DEFINE b1 == SubSeq(b, 1, k)
           b2 == SubSeq(b, k + 1, Len(b))
<1>1. b1 \in Seq(S) /\ b2 \in Seq(S) /\ Len(b1) = k /\ b = b1 \o b2
  BY SplitAt
<1> HIDE DEF b1, b2
<1>2. b \o q = b1 \o (b2 \o q) /\ b2 \o q \in Seq(S)
  BY <1>1, ConcatAssociative, ConcatProperties, SMTT(20)
<1>3. SubSeq(b1 \o (b2 \o q), Len(b1) + 1, Len(b1 \o (b2 \o q))) = b2 \o q
  BY <1>1, <1>2, AfterPrefix
<1> QED
  BY <1>1, <1>2, <1>3, RemainsEnd

-----------------------------------------------------------------------------
(* What is pending for a connection *)

\* What a flusher's record holds, and what the flushers g hold, of a connection's
\* observations.
Hand(r) == IF r.at = "count" THEN <<>> ELSE r.batch \o r.item
HeldIn(g, c) ==
    IF \E f \in Flushers : g[f].conn = c /\ g[f].at # "count"
    THEN LET f == CHOOSE f \in Flushers : g[f].conn = c IN g[f].batch \o g[f].item
    ELSE <<>>
PendingIn(g, q, c) == HeldIn(g, c) \o q[c]

LEMMA PendingHere == \A c : Pending(c) = PendingIn(fl, queue, c)
  BY DEF Pending, PendingIn, Held, HeldIn

LEMMA HeldHere ==
    ASSUME NEW g \in [Flushers -> FlusherState], \A e \in Flushers : Sound(g[e]),
           \A e, h \in Flushers : g[e].at # "off" /\ g[h].at # "off" => e = h,
           NEW f \in Flushers, g[f].at # "off", NEW c \in Conns
    PROVE  HeldIn(g, c) = IF g[f].conn = c THEN Hand(g[f]) ELSE <<>>
<1>1. \A e \in Flushers : g[e].conn = c => e = f
  BY StreamAssumption DEF Sound, AtWork
<1>2. CASE g[f].conn = c
  <2>1. (CHOOSE e \in Flushers : g[e].conn = c) = f
    BY <1>1, <1>2
  <2>2. (\E e \in Flushers : g[e].conn = c /\ g[e].at # "count") <=> g[f].at # "count"
    BY <1>1, <1>2
  <2> QED
    BY <1>2, <2>1, <2>2, Zenon DEF HeldIn, Hand
<1>3. CASE g[f].conn # c
  BY <1>1, <1>3 DEF HeldIn
<1> QED
  BY <1>2, <1>3

LEMMA NothingHeld ==
    ASSUME NEW g, NEW c, \A e \in Flushers : g[e].conn # c
    PROVE  HeldIn(g, c) = <<>>
  BY DEF HeldIn

LEMMA HeldStep ==
    ASSUME OneInv, OneInv', NEW f \in Flushers, Flush(f), NEW c \in Conns
    PROVE  /\ HeldIn(fl, c) = IF fl[f].conn = c THEN Hand(fl[f]) ELSE <<>>
           /\ HeldIn(fl', c) = IF fl'[f].conn = c THEN Hand(fl'[f]) ELSE <<>>
<1>1. fl[f].at # "off" /\ fl'[f].at # "off"
  BY FlushShape DEF OneInv
<1>2. fl \in [Flushers -> FlusherState] /\ \A e \in Flushers : Sound(fl[e])
  BY DEF OneInv, TypeInv, StreamTypes, FlusherInv
<1>3. fl' \in [Flushers -> FlusherState] /\ \A e \in Flushers : Sound(fl'[e])
  BY DEF OneInv, TypeInv, StreamTypes, FlusherInv
<1>4. /\ \A e, h \in Flushers : fl[e].at # "off" /\ fl[h].at # "off" => e = h
      /\ \A e, h \in Flushers : fl'[e].at # "off" /\ fl'[h].at # "off" => e = h
  BY DEF OneInv, OneFlusher
<1> QED
  BY <1>1, <1>2, <1>3, <1>4, HeldHere

\* Flusher records hold sequences of observations.
LEMMA HandSeq ==
    ASSUME NEW r \in FlusherState
    PROVE  Hand(r) \in Seq(Seqs) /\ r.batch \in Seq(Seqs) /\ r.item \in Seq(Seqs)
  BY ConcatProperties DEF Hand, FlusherState

-----------------------------------------------------------------------------
(* The flusher's steps *)

\* What a step may do to what is pending: lose some of it, or deliver from the
\* front of one connection's.
Loses(g, q, g2, q2) == \A c \in Conns : Remains(PendingIn(g2, q2, c), PendingIn(g, q, c))
Delivers(g, q, g2, q2, c, k) ==
    /\ k \in 1..Len(PendingIn(g, q, c))
    /\ Remains(PendingIn(g2, q2, c),
               SubSeq(PendingIn(g, q, c), k + 1, Len(PendingIn(g, q, c))))
    /\ \A d \in Conns : d # c => PendingIn(g2, q2, d) = PendingIn(g, q, d)

LEMMA HeldSeq ==
    ASSUME NEW g \in [Flushers -> FlusherState], NEW c
    PROVE  HeldIn(g, c) \in Seq(Seqs)
<1>1. \A f \in Flushers : g[f].batch \o g[f].item \in Seq(Seqs)
  BY HandSeq, ConcatProperties
<1> QED
  BY <1>1 DEF HeldIn

\* A step that leaves what is held of c and its queue alone.
LEMMA KeepsPending ==
    ASSUME NEW g \in [Flushers -> FlusherState], NEW q \in [Conns -> Seq(Seqs)], NEW c \in Conns
    PROVE  PendingIn(g, q, c) \in Seq(Seqs) /\ Remains(PendingIn(g, q, c), PendingIn(g, q, c))
<1>1. PendingIn(g, q, c) \in Seq(Seqs)
  BY HeldSeq, ConcatProperties DEF PendingIn
<1> QED
  BY <1>1, RemainsSame

LEMMA PassHeld ==
    ASSUME OneInv, OneInv', NEW f \in Flushers, NEW c \in Conns,
           Wake(f) \/ EndPass(f) \/ Pick(f) \/ Enough(f) \/ Close(f) \/ Count(f)
    PROVE  HeldIn(fl', c) = HeldIn(fl, c)
<1>1. /\ fl[f] \in FlusherState /\ Sound(fl[f]) /\ fl \in [Flushers -> FlusherState]
  BY DEF OneInv, TypeInv, StreamTypes, FlusherInv
<1>2. /\ HeldIn(fl, c) = IF fl[f].conn = c THEN Hand(fl[f]) ELSE <<>>
      /\ HeldIn(fl', c) = IF fl'[f].conn = c THEN Hand(fl'[f]) ELSE <<>>
  BY HeldStep DEF Flush
<1>3. c # NoConn
  BY StreamAssumption
<1>4. <<>> \o <<>> = <<>>
  OBVIOUS
<1>5. CASE Wake(f) \/ EndPass(f) \/ Pick(f)
  <2>1. fl[f].conn = NoConn
    BY <1>5, PassLoad DEF OneInv
  <2>2. CASE Wake(f) \/ EndPass(f)
    <3>1. fl'[f].conn = NoConn
      BY <1>1, <2>2, ZenonT(30) DEF Wake, EndPass, Set, Resting
    <3> QED
      BY <1>2, <1>3, <2>1, <3>1
  <2>3. CASE Pick(f)
    <3>1. /\ fl[f].batch = <<>> /\ fl[f].item = <<>>
      BY <1>1, <2>3 DEF Pick, Sound, AtWork
    <3>2. PICK d \in fl[f].todo :
             fl'[f] = [fl[f] EXCEPT !.at = "pop", !.todo = @ \ {d}, !.conn = d]
      BY <1>1, <2>3, Zenon DEF Pick, Set
    <3>3. fl'[f].batch = <<>> /\ fl'[f].item = <<>>
      BY <1>1, <3>1, <3>2 DEF FlusherState
    <3>4. Hand(fl'[f]) = <<>>
      BY <1>4, <3>3, Zenon DEF Hand
    <3> QED
      BY <1>2, <1>3, <2>1, <3>4
  <2> QED
    BY <1>5, <2>2, <2>3
<1>6. CASE Enough(f)
  <2>1. /\ fl'[f].conn = fl[f].conn /\ fl'[f].batch = fl[f].batch /\ fl'[f].item = fl[f].item
        /\ fl[f].at # "count" /\ fl'[f].at # "count"
    BY <1>1, <1>6 DEF Enough, Set, FlusherState
  <2>2. Hand(fl'[f]) = Hand(fl[f])
    BY <2>1, Zenon DEF Hand
  <2> QED
    BY <1>2, <2>1, <2>2
<1>7. CASE Close(f)
  <2>1. fl[f].item = <<>> /\ fl[f].at # "count"
    BY <1>1, <1>7 DEF Close, Sound
  <2>2. CASE fl[f].batch = <<>>
    <3>1. fl'[f].conn = NoConn
      BY <1>1, <1>7, <2>2 DEF Close, Set, FlusherState
    <3>2. Hand(fl[f]) = <<>>
      BY <1>4, <2>1, <2>2, Zenon DEF Hand
    <3> QED
      BY <1>2, <1>3, <3>1, <3>2
  <2>3. CASE fl[f].batch # <<>>
    <3>1. /\ fl'[f].conn = fl[f].conn /\ fl'[f].batch = fl[f].batch
          /\ fl'[f].item = fl[f].item /\ fl'[f].at # "count"
      BY <1>1, <1>7, <2>3 DEF Close, Set, FlusherState
    <3>2. Hand(fl'[f]) = Hand(fl[f])
      BY <2>1, <3>1, Zenon DEF Hand
    <3> QED
      BY <1>2, <3>1, <3>2
  <2> QED
    BY <2>2, <2>3
<1>8. CASE Count(f)
  <2>1. fl[f].at = "count" /\ fl'[f].conn = NoConn
    BY <1>1, <1>8 DEF Count, Set, FlusherState
  <2>2. Hand(fl[f]) = <<>>
    BY <2>1, Zenon DEF Hand
  <2> QED
    BY <1>2, <1>3, <2>1, <2>2
<1> QED
  BY <1>5, <1>6, <1>7, <1>8

\* Connections the flusher is not at keep what is pending for them.
LEMMA OthersPending ==
    ASSUME OneInv, OneInv', NEW f \in Flushers, Flush(f), fl'[f].conn \in {fl[f].conn, NoConn},
           NEW c \in Conns, c # fl[f].conn, queue'[c] = queue[c]
    PROVE  PendingIn(fl', queue', c) = PendingIn(fl, queue, c)
<1>1. c # NoConn
  BY StreamAssumption
<1> QED
  BY <1>1, HeldStep DEF PendingIn

LEMMA PopOrder ==
    ASSUME OneInv, OneInv', NEW f \in Flushers, Pop(f)
    PROVE  Loses(fl, queue, fl', queue')
<1>1. /\ fl[f] \in FlusherState /\ Sound(fl[f]) /\ fl[f].at = "pop"
      /\ fl \in [Flushers -> FlusherState] /\ queue \in [Conns -> Seq(Seqs)]
  BY DEF OneInv, TypeInv, StreamTypes, FlusherInv, Pop
<1> DEFINE c == fl[f].conn
           b == fl[f].batch
           x == Head(queue[c])
           q == Tail(queue[c])
<1>2. /\ b \in Seq(Seqs) /\ fl[f].item = <<>> /\ c \in Conns
  BY <1>1 DEF FlusherState, Sound, AtWork
<1>3. queue[c] # <<>> /\ queue' = [queue EXCEPT ![c] = q]
  BY DEF Pop
<1>4. x \in Seqs /\ q \in Seq(Seqs) /\ queue[c] = <<x>> \o q
  BY <1>1, <1>2, <1>3, HeadAndTail
<1>5. \/ fl'[f] = [fl[f] EXCEPT !.n = @ + 1, !.drops = @ + 1]
      \/ fl'[f] = [fl[f] EXCEPT !.n = @ + 1, !.batch = Append(@, x)]
      \/ fl'[f] = [fl[f] EXCEPT !.at = "return", !.item = <<x>>]
  <2>1. \/ Set(f, [fl[f] EXCEPT !.n = @ + 1, !.drops = @ + 1])
        \/ Set(f, [fl[f] EXCEPT !.n = @ + 1, !.batch = Append(@, x)])
        \/ Set(f, [fl[f] EXCEPT !.at = "return", !.item = <<x>>])
    BY Zenon DEF Pop
  <2> QED
    BY <1>1, <2>1, Zenon DEF Set
<1>6. queue'[c] = q /\ \A d \in Conns : d # c => queue'[d] = queue[d]
  BY <1>1, <1>2, <1>3
<1> HIDE DEF c, b, x, q
<1>7. fl[f] \in FlusherState /\ fl[f].at = "pop" /\ fl[f].conn = c /\ fl[f].batch = b
  BY <1>1 DEF c, b
<1>8. /\ fl'[f].conn = c /\ fl'[f].at # "count"
      /\ \/ fl'[f].batch = b /\ fl'[f].item = <<>>
         \/ fl'[f].batch = Append(b, x) /\ fl'[f].item = <<>>
         \/ fl'[f].batch = b /\ fl'[f].item = <<x>>
  BY <1>2, <1>5, <1>7, Zenon DEF FlusherState
<1>9. /\ b \o <<>> = b /\ Append(b, x) \o <<>> = b \o <<x>>
      /\ <<x>> \in Seq(Seqs) /\ b \o <<x>> \in Seq(Seqs)
  <2>1. <<x>> \in Seq(Seqs)
    BY <1>4
  <2>2. Append(b, x) = b \o <<x>> /\ b \o <<x>> \in Seq(Seqs)
    BY <1>2, <1>4, <2>1, AppendIsConcat, ConcatProperties
  <2> QED
    BY <1>2, <2>1, <2>2, ConcatEmptySeq
<1>10. Hand(fl'[f]) = b \/ Hand(fl'[f]) = b \o <<x>>
  BY <1>8, <1>9, Zenon DEF Hand
<1>11. Hand(fl[f]) = b
  <2>1. fl[f].at # "count"
    BY <1>7
  <2> QED
    BY <1>2, <1>7, <1>9, <2>1, Zenon DEF Hand
<1>12. PendingIn(fl, queue, c) = b \o <<x>> \o q
  <2>1. HeldIn(fl, c) = b
    BY <1>2, <1>7, <1>11, HeldStep DEF Flush
  <2>2. b \o (<<x>> \o q) = b \o <<x>> \o q
    <3>1. b \in Seq(Seqs) /\ q \in Seq(Seqs)
      BY <1>2, <1>4
    <3>2. \A u \in Seq(Seqs) : b \o (u \o q) = b \o u \o q
      BY <3>1, ConcatAssociative, SMTT(20)
    <3> QED
      BY <1>9, <3>2, Zenon
  <2> QED
    BY <1>4, <2>1, <2>2 DEF PendingIn
<1>13. \/ PendingIn(fl', queue', c) = b \o q
       \/ PendingIn(fl', queue', c) = b \o <<x>> \o q
  <2>1. HeldIn(fl', c) = b \/ HeldIn(fl', c) = b \o <<x>>
    BY <1>2, <1>8, <1>10, HeldStep DEF Flush
  <2> QED
    BY <1>6, <2>1 DEF PendingIn
<1>14. Remains(PendingIn(fl', queue', c), PendingIn(fl, queue, c))
  <2>1. Remains(b \o q, b \o <<x>> \o q)
    BY <1>2, <1>4, <1>9, RemainsCut
  <2>2. Remains(b \o <<x>> \o q, b \o <<x>> \o q)
    BY <1>4, <1>9, ConcatProperties, RemainsSame
  <2> QED
    BY <1>12, <1>13, <2>1, <2>2
<1>15. ASSUME NEW d \in Conns, d # c
       PROVE  Remains(PendingIn(fl', queue', d), PendingIn(fl, queue, d))
  <2>1. PendingIn(fl', queue', d) = PendingIn(fl, queue, d)
    BY <1>6, <1>7, <1>8, <1>15, OthersPending DEF Flush
  <2> QED
    BY <1>1, <2>1, KeepsPending
<1> QED
  BY <1>14, <1>15 DEF Loses

LEMMA ReturnOrder ==
    ASSUME OneInv, OneInv', NEW f \in Flushers, Return(f)
    PROVE  Loses(fl, queue, fl', queue')
<1>1. /\ fl[f] \in FlusherState /\ Sound(fl[f]) /\ fl[f].at = "return"
      /\ fl \in [Flushers -> FlusherState] /\ queue \in [Conns -> Seq(Seqs)]
      /\ \A d \in Conns : Len(queue[d]) <= Cap
  BY DEF OneInv, TypeInv, StreamTypes, FlusherInv, Return
<1> DEFINE c == fl[f].conn
           b == fl[f].batch
           x == fl[f].item[1]
           q == queue[c]
<1>2. /\ b \in Seq(Seqs) /\ fl[f].item \in Seq(Seqs) /\ Len(fl[f].item) = 1 /\ c \in Conns
  BY <1>1 DEF FlusherState, Sound, AtWork
<1>3. x \in Seqs /\ fl[f].item = <<x>>
  BY <1>2
<1>4. q \in Seq(Seqs) /\ Len(q) <= Cap
  BY <1>1, <1>2
<1>5. /\ queue'[c] = IF c \in present THEN PutBack(q, x) ELSE q
      /\ \A d \in Conns : d # c => queue'[d] = queue[d]
  BY <1>1, <1>2 DEF Return
<1>6. /\ fl'[f].conn = c /\ fl'[f].batch = b /\ fl'[f].item = <<>> /\ fl'[f].at = "close"
  BY <1>1 DEF Return, Set, FlusherState
<1>7. Hand(fl[f]) = b \o <<x>> /\ Hand(fl'[f]) = b
  <2>1. b \o <<>> = b
    BY <1>2, ConcatEmptySeq
  <2>2. fl[f].at # "count" /\ fl'[f].at # "count"
    BY <1>1, <1>6
  <2> QED
    BY <1>3, <1>6, <2>1, <2>2, Zenon DEF Hand
<1>8. HeldIn(fl, c) = b \o <<x>> /\ HeldIn(fl', c) = b
  BY <1>2, <1>6, <1>7, HeldStep DEF Flush
<1>9. PendingIn(fl, queue, c) = b \o <<x>> \o q /\ PendingIn(fl', queue', c) = b \o queue'[c]
  BY <1>8 DEF PendingIn
<1> HIDE DEF c, b, x, q
<1>10. <<x>> \in Seq(Seqs) /\ b \o <<x>> \in Seq(Seqs)
  BY <1>2, <1>3, ConcatProperties
<1>11. Remains(b \o queue'[c], b \o <<x>> \o q)
  <2>1. CASE c \notin present
    BY <1>2, <1>4, <1>5, <1>10, <2>1, RemainsCut
  <2>2. CASE c \in present /\ Len(q) < Cap
    <3>1. queue'[c] = <<x>> \o q
      BY <1>5, <2>2 DEF PutBack
    <3>2. b \o queue'[c] = b \o <<x>> \o q
      BY <1>2, <1>4, <1>10, <3>1, ConcatAssociative, SMTT(30)
    <3> QED
      BY <1>4, <1>10, <3>2, ConcatProperties, RemainsSame
  <2>3. CASE c \in present /\ ~(Len(q) < Cap)
    <3>1. queue'[c] = <<x>> \o SubSeq(q, 1, Cap - 1)
      BY <1>5, <2>3 DEF PutBack
    <3>2. Cap - 1 \in 0..Len(q)
      BY <1>4, <2>3, StreamAssumption, LenProperties
    <3> DEFINE q1 == SubSeq(q, 1, Cap - 1)
               q2 == SubSeq(q, (Cap - 1) + 1, Len(q))
    <3>3. q1 \in Seq(Seqs) /\ q2 \in Seq(Seqs) /\ q = q1 \o q2
      BY <1>4, <3>2, SplitAt
    <3> HIDE DEF q1, q2
    <3>4. b \o <<x>> \o q = (b \o <<x>> \o q1) \o q2 /\ b \o <<x>> \o q1 \in Seq(Seqs)
      <4>1. \A u \in Seq(Seqs) : u \o q = u \o q1 \o q2 /\ u \o q1 \in Seq(Seqs)
        BY <3>3, ConcatAssociative, ConcatProperties, SMTT(30)
      <4> QED
        BY <1>10, <4>1, Zenon
    <3>5. b \o queue'[c] = b \o <<x>> \o q1
      <4>1. \A u \in Seq(Seqs) : b \o (u \o q1) = b \o u \o q1
        BY <1>2, <3>3, ConcatAssociative, SMTT(20)
      <4>2. queue'[c] = <<x>> \o q1
        BY <3>1 DEF q1
      <4> QED
        BY <1>10, <4>1, <4>2, Zenon
    <3> QED
      BY <3>3, <3>4, <3>5, RemainsEnd
  <2> QED
    BY <2>1, <2>2, <2>3
<1>12. ASSUME NEW d \in Conns, d # c
       PROVE  Remains(PendingIn(fl', queue', d), PendingIn(fl, queue, d))
  <2>1. PendingIn(fl', queue', d) = PendingIn(fl, queue, d)
    BY <1>5, <1>6, <1>12, OthersPending DEF Flush, c
  <2> QED
    BY <1>1, <2>1, KeepsPending
<1> QED
  BY <1>9, <1>11, <1>12 DEF Loses

\* The front of the batch arrives, and the batch is not held any longer.
LEMMA SendOrder ==
    ASSUME OneInv, OneInv', NEW f \in Flushers, Send(f) \/ Evict(f), NEW k \in 0..Len(fl[f].batch)
    PROVE  /\ Loses(fl, queue, fl', queue')
           /\ k > 0 => /\ Delivers(fl, queue, fl', queue', fl[f].conn, k)
                       /\ fl[f].batch[k] = PendingIn(fl, queue, fl[f].conn)[k]
           /\ fl[f].conn \in Conns
<1>1. /\ fl[f] \in FlusherState /\ Sound(fl[f]) /\ fl[f].at = "send"
      /\ fl \in [Flushers -> FlusherState] /\ queue \in [Conns -> Seq(Seqs)]
  BY DEF OneInv, TypeInv, StreamTypes, FlusherInv, Send, Evict
<1> DEFINE c == fl[f].conn
           b == fl[f].batch
           q == queue[c]
<1>2. /\ b \in Seq(Seqs) /\ fl[f].item = <<>> /\ c \in Conns /\ q \in Seq(Seqs)
  BY <1>1 DEF FlusherState, Sound, AtWork
<1>3. UNCHANGED queue
  BY DEF Send, Evict, queues
<1>4. Hand(fl[f]) = b
  <2>1. b \o <<>> = b /\ fl[f].at # "count"
    BY <1>1, <1>2, ConcatEmptySeq
  <2> QED
    BY <1>2, <2>1, Zenon DEF Hand
<1>5. \/ fl'[f].conn = c /\ fl'[f].at = "count"
      \/ fl'[f].conn = NoConn
  <2>1. CASE Send(f)
    BY <1>1, <2>1 DEF Send, Set, FlusherState
  <2>2. CASE Evict(f)
    BY <1>1, <2>2 DEF Evict, Set, FlusherState
  <2> QED
    BY <2>1, <2>2
<1>6. HeldIn(fl, c) = b /\ HeldIn(fl', c) = <<>>
  <2>1. fl'[f].at = "count" => Hand(fl'[f]) = <<>>
    BY Zenon DEF Hand
  <2>2. c # NoConn
    BY <1>2, StreamAssumption
  <2> QED
    BY <1>2, <1>4, <1>5, <2>1, <2>2, HeldStep DEF Flush
<1>7. PendingIn(fl, queue, c) = b \o q /\ PendingIn(fl', queue', c) = q
  BY <1>2, <1>3, <1>6, ConcatEmptySeq DEF PendingIn
<1>8. \A d \in Conns : d # c => PendingIn(fl', queue', d) = PendingIn(fl, queue, d)
  BY <1>3, <1>5, OthersPending DEF Flush
<1>9. Loses(fl, queue, fl', queue')
  <2>1. Remains(q, b \o q)
    BY <1>2, RemainsEnd
  <2> QED
    BY <1>1, <1>7, <1>8, <2>1, KeepsPending DEF Loses
<1>10. ASSUME k > 0
       PROVE  /\ Delivers(fl, queue, fl', queue', c, k)
              /\ b[k] = PendingIn(fl, queue, c)[k]
  <2>1. Remains(q, SubSeq(b \o q, k + 1, Len(b \o q)))
    BY <1>2, RemainsAfter
  <2>2. Len(b) \in Nat /\ Len(q) \in Nat /\ Len(b \o q) = Len(b) + Len(q)
    BY <1>2, LenProperties, ConcatProperties
  <2>3. k \in 1..Len(b) /\ k \in 1..Len(b \o q)
    <3>1. k \in 1..Len(b)
      BY <1>10, <2>2
    <3>2. \A m, n \in Nat : \A i \in 1..m : i \in 1..m + n
      OBVIOUS
    <3> QED
      BY <2>2, <3>1, <3>2, Zenon
  <2>4. (b \o q)[k] = b[k]
    BY <1>2, <2>2, <2>3, ConcatProperties
  <2> QED
    BY <1>7, <1>8, <2>1, <2>3, <2>4 DEF Delivers
<1> QED
  BY <1>2, <1>9, <1>10

-----------------------------------------------------------------------------
(* The other steps *)

\* What is held stays, and queues are emptied or stay.
LEMMA QueuesOnly ==
    ASSUME NEW g \in [Flushers -> FlusherState], NEW g2 \in [Flushers -> FlusherState],
           NEW q \in [Conns -> Seq(Seqs)], NEW q2 \in [Conns -> Seq(Seqs)],
           \A d \in Conns : HeldIn(g2, d) = HeldIn(g, d) /\ q2[d] \in {q[d], <<>>}
    PROVE  Loses(g, q, g2, q2)
<1> SUFFICES ASSUME NEW d \in Conns PROVE Remains(PendingIn(g2, q2, d), PendingIn(g, q, d))
  BY DEF Loses
<1> DEFINE h == HeldIn(g, d)
<1>1. h \in Seq(Seqs) /\ q[d] \in Seq(Seqs)
  BY HeldSeq
<1>2. PendingIn(g, q, d) = h \o q[d] /\ PendingIn(g2, q2, d) = h \o q2[d]
  BY DEF PendingIn
<1> HIDE DEF h
<1>3. CASE q2[d] = q[d]
  <2>1. h \o q[d] \in Seq(Seqs) /\ PendingIn(g2, q2, d) = h \o q[d]
    BY <1>1, <1>2, <1>3, ConcatProperties
  <2> QED
    BY <1>2, <2>1, RemainsSame
<1>4. CASE q2[d] = <<>>
  <2>1. h \o <<>> = h
    BY <1>1, ConcatEmptySeq
  <2> QED
    BY <1>1, <1>2, <1>4, <2>1, RemainsEnd
<1> QED
  BY <1>3, <1>4

LEMMA StreamShapes ==
    ASSUME OneInv, OneInv'
    PROVE  /\ fl \in [Flushers -> FlusherState] /\ fl' \in [Flushers -> FlusherState]
           /\ queue \in [Conns -> Seq(Seqs)] /\ queue' \in [Conns -> Seq(Seqs)]
  BY DEF OneInv, TypeInv, StreamTypes

LEMMA ForgetOrder ==
    ASSUME OneInv, OneInv', NEW c \in Conns, Forget(c),
           \A d \in Conns : HeldIn(fl', d) = HeldIn(fl, d)
    PROVE  Loses(fl, queue, fl', queue')
<1>1. \A d \in Conns : queue'[d] \in {queue[d], <<>>}
  BY StreamShapes DEF Forget
<1> QED
  BY <1>1, StreamShapes, QueuesOnly

LEMMA FlushOrder ==
    ASSUME OneInv, OneInv', NEW f \in Flushers, Flush(f)
    PROVE  /\ UNCHANGED accepted
           /\ \/ Loses(fl, queue, fl', queue') /\ UNCHANGED got
              \/ \E c \in Conns : \E k \in 1..Len(PendingIn(fl, queue, c)) :
                    /\ Delivers(fl, queue, fl', queue', c, k)
                    /\ got' = [got EXCEPT ![c] = PendingIn(fl, queue, c)[k]]
<1> USE DEF queues
<1>1. /\ fl[f] \in FlusherState /\ Sound(fl[f]) /\ fl \in [Flushers -> FlusherState]
      /\ got \in [Conns -> 0..MaxSeq]
  BY DEF OneInv, TypeInv, StreamTypes, FlusherInv
<1>2. CASE Wake(f) \/ EndPass(f) \/ Pick(f) \/ Enough(f) \/ Close(f) \/ Count(f)
  <2>1. \A d \in Conns : HeldIn(fl', d) = HeldIn(fl, d)
    BY <1>2, PassHeld
  <2>2. UNCHANGED <<queue, accepted, got>>
    BY <1>2 DEF Wake, EndPass, Pick, Enough, Close, Count
  <2>3. Loses(fl, queue, fl', queue')
    BY <2>1, <2>2, StreamShapes, QueuesOnly
  <2> QED
    BY <2>2, <2>3
<1>3. CASE Pop(f)
  BY <1>3, PopOrder DEF Pop
<1>4. CASE Return(f)
  BY <1>4, ReturnOrder DEF Return
<1>5. ASSUME NEW k \in 0..Len(fl[f].batch), Send(f) \/ Evict(f),
             got' = [got EXCEPT ![fl[f].conn] = IF k = 0 THEN @ ELSE fl[f].batch[k]]
      PROVE  \/ Loses(fl, queue, fl', queue') /\ UNCHANGED got
             \/ \E c \in Conns : \E j \in 1..Len(PendingIn(fl, queue, c)) :
                   /\ Delivers(fl, queue, fl', queue', c, j)
                   /\ got' = [got EXCEPT ![c] = PendingIn(fl, queue, c)[j]]
  <2>1. /\ Loses(fl, queue, fl', queue')
        /\ k > 0 => /\ Delivers(fl, queue, fl', queue', fl[f].conn, k)
                    /\ fl[f].batch[k] = PendingIn(fl, queue, fl[f].conn)[k]
        /\ fl[f].conn \in Conns
    BY <1>5, SendOrder
  <2>2. CASE k = 0
    <3>1. UNCHANGED got
      BY <1>1, <1>5, <2>1, <2>2
    <3> QED
      BY <2>1, <3>1
  <2>3. CASE k # 0
    <3>1. k > 0
      BY <2>3
    <3>2. got' = [got EXCEPT ![fl[f].conn] = PendingIn(fl, queue, fl[f].conn)[k]]
      BY <1>5, <2>1, <2>3, <3>1
    <3> QED
      BY <2>1, <3>1, <3>2 DEF Delivers
  <2> QED
    BY <2>2, <2>3
<1>6. CASE Send(f)
  <2> DEFINE k == Len(fl[f].batch)
  <2>1. k \in Nat /\ k # 0
    <3>1. fl[f].batch \in Seq(Seqs) /\ fl[f].batch # <<>>
      BY <1>1, <1>6 DEF Send, Sound, FlusherState
    <3> QED
      BY <3>1, EmptySeq
  <2>2. got' = [got EXCEPT ![fl[f].conn] = fl[f].batch[k]]
    BY <1>6 DEF Send
  <2> HIDE DEF k
  <2>3. got' = [got EXCEPT ![fl[f].conn] = IF k = 0 THEN @ ELSE fl[f].batch[k]] /\ k \in 0..k
    BY <2>1, <2>2
  <2>4. UNCHANGED accepted
    BY <1>6 DEF Send
  <2> QED
    BY <1>5, <1>6, <2>3, <2>4 DEF k
<1>7. CASE Evict(f)
  <2>1. \E k \in 0..Len(fl[f].batch) :
           got' = [got EXCEPT ![fl[f].conn] = IF k = 0 THEN @ ELSE fl[f].batch[k]]
    BY <1>7 DEF Evict
  <2>2. UNCHANGED accepted
    BY <1>7 DEF Evict
  <2> QED
    BY <1>5, <1>7, <2>1, <2>2
<1>8. CASE Bury(f)
  <2>1. PICK c \in fl[f].dead : Set(f, [fl[f] EXCEPT !.dead = @ \ {c}]) /\ Forget(c)
    BY <1>8 DEF Bury
  <2>2. c \in Conns /\ UNCHANGED <<accepted, got>>
    BY <1>1, <1>8, <2>1 DEF FlusherState, Bury, Forget
  <2>3. fl[f].conn = NoConn /\ fl'[f].conn = NoConn
    BY <1>1, <1>8, <2>1 DEF Bury, Sound, AtWork, Set, FlusherState
  <2>4. \A d \in Conns : HeldIn(fl', d) = HeldIn(fl, d)
    BY <2>3, HeldStep, StreamAssumption DEF Flush
  <2> QED
    BY <2>1, <2>2, <2>4, ForgetOrder
<1> QED
  BY <1>2, <1>3, <1>4, <1>6, <1>7, <1>8 DEF Flush

\* Every number is drawn once, and enqueued for a connection once.
NumberInv ==
    /\ \A c \in Conns : accepted[c] \subseteq 1..seq
    /\ \A p \in Producers : \A c \in prod[p].todo : prod[p].item \notin accepted[c]
    /\ \A p, r \in Producers : prod[p].todo # {} /\ prod[r].todo # {} /\ prod[p].item = prod[r].item
                                  => p = r

LEMMA NumberStep == OneInv /\ NumberInv /\ [Next]_vars => NumberInv'
<1> SUFFICES ASSUME OneInv, NumberInv, [Next]_vars PROVE NumberInv'
  OBVIOUS
<1> USE DEF conns, queues, flush
<1>1. /\ seq \in Nat /\ prod \in [Producers -> [item : 0..MaxSeq, todo : SUBSET Conns]]
      /\ accepted \in [Conns -> SUBSET Seqs]
      /\ \A p \in Producers : prod[p].todo # {} => prod[p].item \in 1..seq
  BY StreamAssumption DEF OneInv, TypeInv, StreamTypes, ProducerInv
<1>2. CASE UNCHANGED <<accepted, seq, prod>>
  BY <1>2 DEF NumberInv
<1>3. ASSUME NEW p \in Producers, Emit(p) PROVE NumberInv'
  <2>1. /\ seq' = seq + 1 /\ UNCHANGED accepted
        /\ prod'[p].item = seq + 1 /\ \A r \in Producers \ {p} : prod'[r] = prod[r]
    BY <1>1, <1>3 DEF Emit
  <2>2. \A i \in 1..seq : i \in 1..seq + 1 /\ i # seq + 1
    BY <1>1
  <2>3. \A c \in Conns : accepted'[c] \subseteq 1..seq' /\ seq + 1 \notin accepted[c]
    BY <1>1, <2>1, <2>2 DEF NumberInv
  <2>4. \A r \in Producers : \A c \in prod'[r].todo : prod'[r].item \notin accepted'[c]
    <3>1. prod'[p].todo \subseteq Conns
      BY <1>1, <1>3 DEF Emit
    <3> QED
      BY <2>1, <2>3, <3>1 DEF NumberInv
  <2>5. \A r \in Producers \ {p} : prod'[r].todo # {} => prod'[r].item # seq + 1
    BY <1>1, <2>1, <2>2
  <2> QED
    BY <2>1, <2>3, <2>4, <2>5 DEF NumberInv
<1>4. ASSUME NEW p \in Producers, NEW c \in Conns, Enqueue(p, c) PROVE NumberInv'
  <2>1. /\ c \in prod[p].todo /\ UNCHANGED seq
        /\ prod'[p].item = prod[p].item /\ prod'[p].todo = prod[p].todo \ {c}
        /\ \A r \in Producers \ {p} : prod'[r] = prod[r]
    BY <1>1, <1>4 DEF Enqueue
  <2>2. /\ accepted'[c] = accepted[c] \cup {prod[p].item}
        /\ \A d \in Conns \ {c} : accepted'[d] = accepted[d]
    BY <1>1, <1>4 DEF Enqueue
  <2>3. \A d \in Conns : accepted'[d] \subseteq 1..seq'
    BY <1>1, <2>1, <2>2 DEF NumberInv
  <2>4. ASSUME NEW r \in Producers, NEW d \in prod'[r].todo
        PROVE  prod'[r].item \notin accepted'[d]
    <3>1. d \in Conns /\ d \in prod[r].todo /\ prod'[r].item = prod[r].item
      BY <1>1, <2>1, <2>4
    <3>2. prod[r].item \notin accepted[d]
      BY <3>1 DEF NumberInv
    <3>3. d = c => prod[r].item # prod[p].item
      BY <2>1, <2>4, <3>1 DEF NumberInv
    <3> QED
      BY <2>2, <3>1, <3>2, <3>3
  <2>5. \A r \in Producers : prod'[r].item = prod[r].item /\ prod'[r].todo \subseteq prod[r].todo
    BY <2>1
  <2> QED
    BY <2>3, <2>4, <2>5 DEF NumberInv
<1>5. ASSUME NEW c \in Conns,
             \/ Register(c) \/ Subscribe(c) \/ CheckFlusher(c) \/ StartFlusher(c)
             \/ Serve(c) \/ Respond(c) \/ Disconnect(c) \/ Stall(c) \/ LogFails(c)
      PROVE  NumberInv'
  BY <1>2, <1>5 DEF Register, Subscribe, CheckFlusher, StartFlusher, Serve, Respond,
                    NoResponse, Disconnect, Stall, LogFails, Forget
<1>6. ASSUME NEW f \in Flushers, Flush(f) PROVE NumberInv'
  <2>1. UNCHANGED <<seq, prod>>
    BY <1>6, FlushShape DEF OneInv
  <2>2. UNCHANGED accepted
    BY <1>6, FlushQueues DEF OneInv, Forget
  <2> QED
    BY <1>2, <2>1, <2>2
<1>7. CASE Shutdown \/ Drain \/ UNCHANGED vars
  BY <1>2, <1>7 DEF Shutdown, Drain, vars
<1> QED
  BY <1>3, <1>4, <1>5, <1>6, <1>7 DEF Next

-----------------------------------------------------------------------------
(* The refinement *)

LEMMA LoseStep ==
    ASSUME Loses(fl, queue, fl', queue'), UNCHANGED <<accepted, got>>
    PROVE  Fifo!Lose
<1>1. \A c \in Conns : Remains([d \in Conns |-> Pending(d)]'[c], [d \in Conns |-> Pending(d)][c])
  BY PendingHere DEF Loses, Pending, Held, PendingIn, HeldIn
<1> QED
  BY <1>1 DEF Fifo!Lose, Remains

LEMMA DeliverStep ==
    ASSUME NEW c \in Conns, NEW k, Delivers(fl, queue, fl', queue', c, k), UNCHANGED accepted,
           got' = [got EXCEPT ![c] = PendingIn(fl, queue, c)[k]]
    PROVE  Fifo!Next
<1> DEFINE P == [d \in Conns |-> Pending(d)]
<1>1. \A d \in Conns : P[d] = PendingIn(fl, queue, d) /\ P'[d] = PendingIn(fl', queue', d)
  BY PendingHere DEF Pending, Held, PendingIn, HeldIn
<1>2. k \in 1..Len(P[c]) /\ got' = [got EXCEPT ![c] = P[c][k]]
  BY <1>1 DEF Delivers
<1>3. Remains(P'[c], SubSeq(P[c], k + 1, Len(P[c])))
  BY <1>1 DEF Delivers
<1>4. \A d \in Conns : d # c => P'[d] = P[d]
  BY <1>1 DEF Delivers
<1>5. Fifo!Deliver(c, k)
  BY <1>2, <1>3, <1>4 DEF Fifo!Deliver, Fifo!Only, Remains
<1> QED
  BY <1>2, <1>5 DEF Fifo!Next

LEMMA EnqueueOrder ==
    ASSUME OneInv, OneInv', NumberInv, NEW p \in Producers, NEW c \in Conns, Enqueue(p, c)
    PROVE  Fifo!Next
<1> DEFINE x == prod[p].item
           h == HeldIn(fl, c)
           q == queue[c]
           s == PendingIn(fl, queue, c)
           t == PendingIn(fl', queue', c)
           P == [d \in Conns |-> Pending(d)]
<1>1. \A d \in Conns : P[d] = PendingIn(fl, queue, d) /\ P'[d] = PendingIn(fl', queue', d)
  BY PendingHere DEF Pending, Held, PendingIn, HeldIn
<1>2. x \in Seqs /\ x \notin accepted[c]
  <2>1. x \in 1..seq /\ seq \in 0..MaxSeq /\ MaxSeq \in Nat
    BY StreamAssumption DEF Enqueue, OneInv, TypeInv, ProducerInv, StreamTypes
  <2>2. x \in Seqs
    BY <2>1 DEF Seqs
  <2> QED
    BY <2>2 DEF Enqueue, NumberInv
<1>3. /\ queue \in [Conns -> Seq(Seqs)] /\ q \in Seq(Seqs) /\ Len(q) <= Cap
      /\ fl \in [Flushers -> FlusherState] /\ h \in Seq(Seqs)
  BY HeldSeq DEF OneInv, TypeInv, StreamTypes
<1>4. /\ UNCHANGED <<fl, got>> /\ accepted' = [accepted EXCEPT ![c] = @ \cup {x}]
      /\ queue' = [queue EXCEPT ![c] = Appended(@, x)]
  BY DEF Enqueue, flush
<1>5. /\ s = h \o q /\ t = h \o Appended(q, x)
      /\ \A d \in Conns : d # c => PendingIn(fl', queue', d) = PendingIn(fl, queue, d)
  BY <1>3, <1>4 DEF PendingIn
<1>6. PICK q1 \in Seq(Seqs), q2 \in Seq(Seqs) : q = q1 \o q2 /\ Appended(q, x) = Append(q2, x)
  <2>1. CASE Len(q) < Cap
    <3>1. <<>> \in Seq(Seqs) /\ <<>> \o q = q
      BY <1>3, ConcatEmptySeq
    <3>2. Appended(q, x) = Append(q, x)
      BY <2>1 DEF Appended
    <3> QED
      BY <1>3, <3>1, <3>2
  <2>2. CASE ~(Len(q) < Cap)
    <3>1. q # <<>>
      BY <1>3, <2>2, StreamAssumption, EmptySeq
    <3>2. Head(q) \in Seqs /\ Tail(q) \in Seq(Seqs) /\ q = <<Head(q)>> \o Tail(q)
      BY <1>3, <3>1, HeadAndTail
    <3>3. Appended(q, x) = Append(Tail(q), x)
      BY <2>2 DEF Appended
    <3>4. <<Head(q)>> \in Seq(Seqs)
      BY <3>2
    <3> QED
      BY <3>2, <3>3, <3>4
  <2> QED
    BY <2>1, <2>2
<1> HIDE DEF x, h, q
<1>7. t = Append(h \o q2, x) /\ s = h \o q1 \o q2
  <2>1. h \o Append(q2, x) = Append(h \o q2, x)
    BY <1>2, <1>3, <1>6, ConcatAppend
  <2>2. h \o (q1 \o q2) = h \o q1 \o q2
    BY <1>3, <1>6, ConcatAssociative, SMTT(20)
  <2> QED
    BY <1>5, <1>6, <2>1, <2>2
<1> HIDE DEF s, t
<1>8. Remains(t, Append(s, x))
  BY <1>2, <1>3, <1>6, <1>7, RemainsAppend
<1>9. t # <<>> /\ t[Len(t)] = x
  <2> DEFINE u == h \o q2
  <2>1. u \in Seq(Seqs) /\ t = Append(u, x)
    BY <1>3, <1>6, <1>7, ConcatProperties
  <2> HIDE DEF u
  <2>2. /\ Append(u, x) # <<>> /\ Append(u, x)[Len(u) + 1] = x
        /\ Len(Append(u, x)) = Len(u) + 1
    BY <1>2, <2>1, AppendProperties
  <2> QED
    BY <2>1, <2>2, Zenon
<1>10. P[c] = s /\ P'[c] = t /\ \A d \in Conns : d # c => P'[d] = P[d]
  BY <1>1, <1>5 DEF s, t
<1>11. Fifo!Accept(c, x)
  BY <1>2, <1>4, <1>8, <1>9, <1>10 DEF Fifo!Accept, Fifo!Only, Remains
<1> QED
  BY <1>2, <1>11 DEF Fifo!Next

LEMMA FifoStep ==
    OneInv /\ OneInv' /\ NumberInv /\ [Next]_vars
        => [Fifo!Next]_<<[c \in Conns |-> Pending(c)], accepted, got>>
<1> SUFFICES ASSUME OneInv, OneInv', NumberInv, [Next]_vars
             PROVE  Fifo!Next \/ UNCHANGED <<[c \in Conns |-> Pending(c)], accepted, got>>
  OBVIOUS
<1> USE DEF conns, queues, flush
<1>1. ASSUME Loses(fl, queue, fl', queue'), UNCHANGED <<accepted, got>> PROVE Fifo!Next
  BY <1>1, LoseStep DEF Fifo!Next
<1>2. ASSUME UNCHANGED <<fl, queue, accepted, got>> PROVE Fifo!Next
  <2>1. Loses(fl, queue, fl', queue')
    BY <1>2, StreamShapes, QueuesOnly
  <2> QED
    BY <1>1, <1>2, <2>1
<1>3. ASSUME NEW c \in Conns,
             \/ Register(c) \/ Subscribe(c) \/ CheckFlusher(c) \/ StartFlusher(c)
             \/ Serve(c) \/ Respond(c) \/ Disconnect(c) \/ Stall(c) \/ LogFails(c)
      PROVE  Fifo!Next
  <2>1. CASE Forget(c) /\ UNCHANGED <<fl, got>>
    <3>1. UNCHANGED accepted
      BY <2>1 DEF Forget
    <3> QED
      BY <1>1, <2>1, <3>1, ForgetOrder
  <2>2. CASE StartFlusher(c)
    <3>1. PICK f \in Flushers : fl[f] = Resting /\ fl' = [fl EXCEPT ![f].at = "wait"]
      BY <2>2 DEF StartFlusher
    <3>2. UNCHANGED <<queue, accepted, got>>
      BY <2>2 DEF StartFlusher
    <3>3. /\ \A e \in Flushers : fl'[e].conn = fl[e].conn
          /\ \A e \in Flushers : Sound(fl[e]) /\ fl[e].at = "off"
      BY <2>2, <3>1, SMTT(20) DEF StartFlusher, OneInv, StartInv, TypeInv, FlusherInv, StreamTypes, FlusherState
    <3>4. \A d \in Conns : \A e \in Flushers : fl[e].conn # d /\ fl'[e].conn # d
      BY <3>3, StreamAssumption DEF Sound, AtWork
    <3>5. \A d \in Conns : HeldIn(fl', d) = HeldIn(fl, d)
      BY <3>4, NothingHeld
    <3>6. Loses(fl, queue, fl', queue')
      BY <3>2, <3>5, StreamShapes, QueuesOnly
    <3> QED
      BY <1>1, <3>2, <3>6
  <2> QED
    BY <1>2, <1>3, <2>1, <2>2
       DEF Register, Subscribe, CheckFlusher, Serve, Respond, NoResponse, Disconnect, Stall,
           LogFails
<1>4. ASSUME NEW p \in Producers, Emit(p) PROVE Fifo!Next
  BY <1>2, <1>4 DEF Emit
<1>5. ASSUME NEW f \in Flushers, Flush(f) PROVE Fifo!Next
  BY <1>1, <1>5, FlushOrder, DeliverStep
<1>6. CASE Drain
  <2>1. \A d \in Conns : queue'[d] = <<>> /\ HeldIn(fl', d) = HeldIn(fl, d)
    BY <1>6 DEF Drain
  <2>2. Loses(fl, queue, fl', queue')
    BY <2>1, StreamShapes, QueuesOnly
  <2> QED
    BY <1>1, <1>6, <2>2 DEF Drain
<1>7. CASE Shutdown \/ UNCHANGED vars
  BY <1>2, <1>7 DEF Shutdown, vars
<1> QED
  BY <1>3, <1>4, <1>5, <1>6, <1>7, EnqueueOrder DEF Next

\* The queues, batches, put-backs, evictions and the drain of _send_observation,
\* _flush_connection and stop() together are one lossy FIFO channel per client
\* (FifoPerConnection): a client gets its observations in order and each at most
\* once, for any number of clients and threads and any capacities.
THEOREM StreamIsFifo ==
    ASSUME ~Overlap
    PROVE  Spec => FifoPerConnection
<1> DEFINE Inv == OneInv /\ NumberInv
<1>1. Init => Inv
  <2> SUFFICES ASSUME Init PROVE Inv
    OBVIOUS
  <2>1. OneInv
    BY OneInit
  <2>2. NumberInv
    BY DEF Init, NumberInv
  <2> QED
    BY <2>1, <2>2
<1>2. Inv /\ [Next]_vars => Inv'
  BY TypeStep, OneStep, NumberStep DEF OneInv
<1>3. Init => Fifo!Init
  <2> SUFFICES ASSUME Init PROVE Fifo!Init
    OBVIOUS
  <2>1. \A c \in Conns : \A f \in Flushers : fl[f].conn # c
    BY StreamAssumption DEF Init, Resting
  <2>2. \A c \in Conns : Pending(c) = <<>>
    BY <2>1 DEF Init, Pending, Held
  <2> QED
    BY <2>2 DEF Init, Fifo!Init
<1>4. Inv /\ Inv' /\ [Next]_vars => [Fifo!Next]_<<[c \in Conns |-> Pending(c)], accepted, got>>
  BY FifoStep
<1> QED
  BY <1>1, <1>2, <1>3, <1>4, PTL DEF Spec, FifoPerConnection, Fifo!Spec
=============================================================================
