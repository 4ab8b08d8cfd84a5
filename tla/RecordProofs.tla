----------------------------- MODULE RecordProofs -----------------------------
(***************************************************************************)
(* Theorems about Records: result consumers (ResultConsumers) with the log  *)
(* they promise their readers (RetainedLog), the registries of probe runs   *)
(* and jobs (RunRegistries), and the counts of observations                 *)
(* (ObserverCounts).                                                        *)
(***************************************************************************)
EXTENDS Records, SequenceTheorems, FiniteSetTheorems, TLAPS

-----------------------------------------------------------------------------
(* Result consumers *)

Records == [seq : Nat, item : Items]

PublisherStates == [at : {"idle", "record", "publish"}, item : Items \cup {NoItem}, todo : SUBSET ConsumerIds]

ConsumerTypes ==
    /\ requestOf \in Requestings /\ consumer \in [ConsumerIds -> Status]
    /\ buffer \in [ConsumerIds -> Seq(Records)] /\ accepted \in [ConsumerIds -> Seq(Items)]
    /\ joining \subseteq ConsumerIds /\ leaving \subseteq ConsumerIds /\ drain \subseteq ConsumerIds
    /\ listed \in [Sessions -> SUBSET ConsumerIds] /\ opened \subseteq Sessions
    /\ probeRun \in [Probes -> {"active", "over", "gone"}]
    /\ events \in [Sources -> 0..LastEvent] /\ late \in [Probes -> Nat]
    /\ pub \in [Publishers -> PublisherStates]
    /\ seen \in [ConsumerIds -> Nat] /\ received \in [ConsumerIds -> SUBSET Nat]

PublisherInv ==
    \A t \in Publishers : /\ pub[t].at # "idle" => pub[t].item \in Items
                          /\ pub[t].at = "record" => pub[t].item[1] \in Probes
                          /\ pub[t].at # "publish" => pub[t].todo = {}

\* A buffer holds the records with the last numbers, ...
NewestOf(b, l) == Len(b) <= l /\ \A i \in 1..Len(b) : b[i].seq = l - Len(b) + i

\* ... as many as there is room for.
KeptOf(b, l, n) == Len(b) <= n /\ NewestOf(b, l) /\ (Len(b) = n \/ Len(b) = l)

BufferInv ==
    \A c \in ConsumerIds :
        /\ IF consumer[c] = "removed" THEN buffer[c] = <<>>
           ELSE KeptOf(buffer[c], Len(accepted[c]), SizeOf[c])
        /\ seen[c] \in 0..Len(accepted[c]) \/ seen[c] = 1
        /\ received[c] \subseteq 1..Len(accepted[c])

LEMMA RecordAppended ==
    ASSUME NEW b \in Seq(Records), NEW l \in Nat, NEW n \in Nat \ {0}, KeptOf(b, l, n),
           NEW r \in Records, r.seq = l + 1
    PROVE  LET s == Append(IF Len(b) >= n THEN Tail(b) ELSE b, r)
           IN  s \in Seq(Records) /\ KeptOf(s, l + 1, n)
<1> DEFINE m == IF Len(b) >= n THEN Tail(b) ELSE b  s == Append(m, r)
<1>1. m \in Seq(Records) /\ Len(b) \in Nat /\ Len(m) \in Nat
      /\ \/ Len(b) >= n /\ b # <<>> /\ Len(m) = Len(b) - 1 /\ \A i \in 1..Len(m) : m[i] = b[i + 1]
         \/ Len(b) < n /\ m = b
  BY DEF KeptOf
<1> HIDE DEF m
<1>2. /\ s \in Seq(Records) /\ Len(s) = Len(m) + 1 /\ s[Len(m) + 1] = r
      /\ \A i \in 1..Len(m) : s[i] = m[i]
  BY <1>1
<1> HIDE DEF s
<1>3. Len(m) <= l /\ \A i \in 1..Len(m) : m[i].seq = l - Len(m) + i
  <2>1. Len(b) <= l /\ \A i \in 1..Len(b) : b[i].seq = l - Len(b) + i
    BY DEF KeptOf, NewestOf
  <2>2. CASE Len(m) = Len(b) - 1 /\ \A i \in 1..Len(m) : m[i] = b[i + 1]
    <3>1. ASSUME NEW i \in 1..Len(m) PROVE m[i].seq = l - Len(m) + i
      <4>1. i + 1 \in 1..Len(b)
        BY <1>1, <2>2
      <4>2. b[i + 1].seq = l - Len(b) + (i + 1)
        BY <2>1, <4>1
      <4> QED
        BY <1>1, <2>2, <4>2
    <3> QED
      BY <1>1, <2>1, <2>2, <3>1
  <2> QED
    BY <1>1, <2>1, <2>2
<1>4. ASSUME NEW i \in 1..Len(s) PROVE s[i].seq = l + 1 - Len(s) + i
  <2>1. CASE i = Len(m) + 1
    BY <1>1, <1>2, <2>1
  <2>2. CASE i \in 1..Len(m)
    <3>1. s[i].seq = l - Len(m) + i
      BY <1>2, <1>3, <2>2
    <3> QED
      BY <1>1, <1>2, <3>1
  <2> QED
    BY <1>1, <1>2, <2>1, <2>2
<1>5. Len(s) <= n /\ Len(s) <= l + 1 /\ (Len(s) = n \/ Len(s) = l + 1)
  BY <1>1, <1>2, <1>3 DEF KeptOf, NewestOf
<1>6. KeptOf(s, l + 1, n)
  BY <1>4, <1>5 DEF KeptOf, NewestOf
<1> QED
  BY <1>2, <1>6 DEF s, m

\* The records that a drain returns: from the first after the cursor that is still there, to
\* the last of DrainLimit ones.
LEMMA SelectedIs ==
    ASSUME ConsumerTypes, NEW c \in ConsumerIds, NewestOf(buffer[c], Len(accepted[c])), Eligible(c) # {}
    PROVE  \E lo, hi \in 1..Len(buffer[c]) :
              /\ lo <= hi /\ Selected(c) = lo..hi
              /\ \A i \in 1..Len(buffer[c]) : buffer[c][i].seq > seen[c] <=> lo <= i
<1> DEFINE k == Len(buffer[c])  l == Len(accepted[c])  d == l - k
<1>1. k \in Nat /\ l \in Nat /\ d \in Nat /\ seen[c] \in Nat
      /\ \A i \in 1..k : buffer[c][i].seq = d + i
  BY DEF ConsumerTypes, NewestOf
<1>2. Eligible(c) = {i \in 1..k : d + i > seen[c]}
  <2>1. DOMAIN buffer[c] = 1..k
    BY DEF ConsumerTypes
  <2>2. \A i \in 1..k : buffer[c][i].seq = d + i
    BY <1>1
  <2> HIDE DEF k, d
  <2> QED
    BY <2>1, <2>2 DEF Eligible
<1> HIDE DEF k, l, d
<1> DEFINE lo == IF seen[c] < d THEN 1 ELSE seen[c] - d + 1
<1>3. lo \in Nat /\ lo >= 1 /\ \A i \in 1..k : d + i > seen[c] <=> lo <= i
  BY <1>1
<1>4. lo \in 1..k /\ Eligible(c) = lo..k
  <2> HIDE DEF lo
  <2>1. PICK a \in 1..k : lo <= a
    BY <1>2, <1>3
  <2>2. lo \in 1..k
    BY <1>1, <1>3, <2>1
  <2>3. ASSUME NEW x PROVE x \in lo..k <=> x \in 1..k /\ lo <= x
    BY <1>1, <2>2
  <2>4. Eligible(c) = {i \in 1..k : lo <= i}
    BY <1>2, <1>3
  <2> QED
    BY <2>2, <2>3, <2>4
<1> DEFINE hi == IF k - lo + 1 <= DrainLimit THEN k ELSE lo + DrainLimit - 1
<1> HIDE DEF lo
<1>5. hi \in lo..k /\ \A i \in lo..k : i - lo + 1 <= DrainLimit <=> i <= hi
  BY <1>1, <1>3, <1>4, ConsumerAssumption
<1>6. ASSUME NEW i \in lo..k PROVE Cardinality({j \in Eligible(c) : j <= i}) = i - lo + 1
  <2>1. {j \in Eligible(c) : j <= i} = lo..i
    BY <1>1, <1>3, <1>4
  <2>2. lo \in Int /\ i \in Int /\ lo <= i
    BY <1>1, <1>3
  <2>3. Cardinality(lo..i) = i - lo + 1
    BY <2>2, FS_Interval
  <2> QED
    BY <2>1, <2>3
<1> HIDE DEF hi
<1>7. Selected(c) = lo..hi
  <2>1. ASSUME NEW i \in lo..k PROVE i \in Selected(c) <=> i <= hi
    BY <1>4, <1>5, <1>6, <2>1 DEF Selected
  <2>2. \A i \in Selected(c) : i \in lo..k
    BY <1>4 DEF Selected
  <2>3. lo..hi \subseteq lo..k /\ \A i \in lo..k : i <= hi <=> i \in lo..hi
    BY <1>1, <1>3, <1>5
  <2> QED
    BY <2>1, <2>2, <2>3
<1>8. hi \in 1..k /\ lo <= hi
  BY <1>1, <1>3, <1>4, <1>5
<1> QED
  BY <1>1, <1>3, <1>4, <1>7, <1>8 DEF k


\* What each step leaves alone.
LEMMA ConsumerCases ==
    ASSUME ConsumerNext
    PROVE  \/ /\ UNCHANGED <<buffer, accepted, sources, readers>>
              /\ \E c \in ConsumerIds :
                    \/ \E how \in requestOf[c].policies : CreateConsumer(c, how)
                    \/ JoinSession(c) \/ CloseConsumer(c) \/ LeaveSession(c)
           \/ \E c \in ConsumerIds, closedOnly \in BOOLEAN : RemoveConsumer(c, closedOnly)
           \/ \E s \in Sessions : EndSession(s)
           \/ \E t \in Publishers, c \in ConsumerIds : AppendRecord(t, c)
           \/ \E c \in ConsumerIds : DrainReturns(c)
           \/ \E c \in ConsumerIds : DrainsNothing(c)
           \/ /\ UNCHANGED <<buffers, links, sources, requestOf, seen, received>>
              /\ \E c \in ConsumerIds : drain' = drain \cup {c} \/ drain' = drain \ {c}
           \/ \E t \in Publishers, p \in Probes : AskProbe(t, p)
           \/ \E t \in Publishers : RecordEvent(t)
           \/ \E t \in Publishers, j \in PublishingJobs : PublishResult(t, j)
           \/ \E p \in Probes, st \in {"over", "gone"} : ProbeEnds(p, st)
<1>1. \A c \in ConsumerIds : \A how : CreateConsumer(c, how) => UNCHANGED <<buffer, accepted, sources, readers>>
  BY DEF CreateConsumer
<1>2. \A c \in ConsumerIds : JoinSession(c) \/ CloseConsumer(c) \/ LeaveSession(c)
                             => UNCHANGED <<buffer, accepted, sources, readers>>
  BY DEF JoinSession, CloseConsumer, LeaveSession, buffers
<1>3. \A c \in ConsumerIds : DrainWaits(c) \/ DrainGivesUp(c) =>
         /\ UNCHANGED <<buffers, links, sources, requestOf, seen, received>>
         /\ drain' = drain \cup {c} \/ drain' = drain \ {c}
  BY DEF DrainWaits, DrainGivesUp
<1> QED
  BY <1>1, <1>2, <1>3 DEF ConsumerNext

LEMMA ConsumerTypesInit == ConsumerInit => ConsumerTypes /\ PublisherInv /\ BufferInv
<1> SUFFICES ASSUME ConsumerInit PROVE ConsumerTypes /\ PublisherInv /\ BufferInv
  OBVIOUS
<1> USE DEF ConsumerInit
<1>1. NotPublishing \in PublisherStates /\ NotPublishing.at = "idle" /\ NotPublishing.todo = {}
  BY DEF NotPublishing, PublisherStates
<1>2. \A S : <<>> \in Seq(S) /\ Len(<<>>) = 0
  OBVIOUS
<1>3. ConsumerTypes
  BY <1>1, <1>2, ConsumerAssumption DEF ConsumerTypes, Status
<1>4. PublisherInv
  BY <1>1 DEF PublisherInv
<1>5. KeptOf(<<>>, 0, 1) /\ \A n \in Nat : KeptOf(<<>>, 0, n)
  BY <1>2 DEF KeptOf, NewestOf
<1>6. BufferInv
  BY <1>2, <1>5, ConsumerAssumption DEF BufferInv
<1> QED
  BY <1>3, <1>4, <1>6

\* The consumer's part of an append: nothing, a failure, or one record more.
LEMMA AppendIs ==
    ASSUME ConsumerTypes, PublisherInv, NEW t \in Publishers, NEW c \in ConsumerIds, AppendRecord(t, c)
    PROVE  /\ pub[t].at = "publish" /\ pub[t].item \in Items
           /\ UNCHANGED <<links, probeRun, events, late, readers, policy>>
           /\ pub' = [pub EXCEPT ![t] = Passed(pub[t], c)]
           /\ \/ UNCHANGED buffers
              \/ /\ consumer[c] = "active" /\ consumer' = [consumer EXCEPT ![c] = "failed"]
                 /\ UNCHANGED <<buffer, accepted>>
              \/ consumer[c] = "active" /\ UNCHANGED consumer /\ Stored(c, pub[t].item)
<1>1. c \in pub[t].todo /\ UNCHANGED <<links, probeRun, events, late, readers, policy>>
  BY DEF AppendRecord, Stored, buffers
<1>2. pub[t].at = "publish" /\ pub[t].item \in Items
  BY <1>1 DEF PublisherInv
<1>3. pub' = [pub EXCEPT ![t] = Passed(pub[t], c)]
  BY DEF AppendRecord
<1>4. \/ UNCHANGED buffers
      \/ /\ consumer[c] = "active" /\ consumer' = [consumer EXCEPT ![c] = "failed"]
         /\ UNCHANGED <<buffer, accepted>>
      \/ consumer[c] = "active" /\ UNCHANGED consumer /\ Stored(c, pub[t].item)
  BY DEF AppendRecord, Stored
<1> QED
  BY <1>1, <1>2, <1>3, <1>4

\* What a consumer has of a stored item.
LEMMA StoredIs ==
    ASSUME ConsumerTypes, BufferInv, NEW c \in ConsumerIds, NEW x \in Items,
           consumer[c] = "active", Stored(c, x)
    PROVE  /\ accepted' \in [ConsumerIds -> Seq(Items)] /\ buffer' \in [ConsumerIds -> Seq(Records)]
           /\ accepted'[c] = Append(accepted[c], x) /\ Len(accepted'[c]) = Len(accepted[c]) + 1
           /\ KeptOf(buffer'[c], Len(accepted[c]) + 1, SizeOf[c])
           /\ \A d \in ConsumerIds \ {c} : accepted'[d] = accepted[d] /\ buffer'[d] = buffer[d]
<1> DEFINE r == [seq |-> Len(accepted[c]) + 1, item |-> x]
<1>1. accepted[c] \in Seq(Items) /\ buffer[c] \in Seq(Records) /\ Len(accepted[c]) \in Nat
      /\ SizeOf[c] \in Nat \ {0}
  BY ConsumerAssumption DEF ConsumerTypes
<1>2. r \in Records /\ r.seq = Len(accepted[c]) + 1
  BY <1>1 DEF Records
<1>3. KeptOf(buffer[c], Len(accepted[c]), SizeOf[c])
  BY DEF BufferInv
<1> DEFINE s == Append(IF Len(buffer[c]) >= SizeOf[c] THEN Tail(buffer[c]) ELSE buffer[c], r)
<1>4. s \in Seq(Records) /\ KeptOf(s, Len(accepted[c]) + 1, SizeOf[c])
  BY <1>1, <1>2, <1>3, RecordAppended
<1>5. /\ buffer' = [buffer EXCEPT ![c] = s]
      /\ accepted' = [accepted EXCEPT ![c] = Append(accepted[c], x)]
  BY DEF Stored, MakeRoom, Full, ConsumerTypes
<1> HIDE DEF s
<1>6. Append(accepted[c], x) \in Seq(Items) /\ Len(Append(accepted[c], x)) = Len(accepted[c]) + 1
  BY <1>1
<1> QED
  BY <1>4, <1>5, <1>6 DEF ConsumerTypes


LEMMA PublisherFacts ==
    /\ NotPublishing \in PublisherStates /\ NotPublishing.at = "idle" /\ NotPublishing.todo = {}
    /\ \A p \in PublisherStates, c \in ConsumerIds :
          /\ Passed(p, c) \in PublisherStates
          /\ Passed(p, c) = NotPublishing
             \/ /\ Passed(p, c).at = p.at /\ Passed(p, c).item = p.item
                /\ Passed(p, c).todo = p.todo \ {c}
    /\ \A p \in Probes : LET asked == [at |-> "record", item |-> <<p, 0>>, todo |-> {}]
                         IN  /\ asked \in PublisherStates /\ asked.item \in Items
                             /\ asked.at = "record" /\ asked.item[1] = p /\ asked.todo = {}
    /\ \A x \in Items : /\ Publication(x) \in PublisherStates /\ Publication(x).at # "record"
                        /\ Publication(x) = NotPublishing \/ (Publication(x).at = "publish" /\ Publication(x).item = x)
<1>1. NotPublishing \in PublisherStates /\ NotPublishing.at = "idle" /\ NotPublishing.todo = {}
  BY DEF NotPublishing, PublisherStates
<1>2. ASSUME NEW p \in PublisherStates, NEW c \in ConsumerIds
      PROVE  /\ Passed(p, c) \in PublisherStates
             /\ Passed(p, c) = NotPublishing
                \/ /\ Passed(p, c).at = p.at /\ Passed(p, c).item = p.item
                   /\ Passed(p, c).todo = p.todo \ {c}
  BY <1>1 DEF Passed, PublisherStates
<1>3. ASSUME NEW p \in Probes
      PROVE  LET asked == [at |-> "record", item |-> <<p, 0>>, todo |-> {}]
             IN  /\ asked \in PublisherStates /\ asked.item \in Items
                 /\ asked.at = "record" /\ asked.item[1] = p /\ asked.todo = {}
  BY ConsumerAssumption DEF PublisherStates, Items, Sources
<1>4. ASSUME NEW x \in Items
      PROVE  /\ Publication(x) \in PublisherStates /\ Publication(x).at # "record"
             /\ Publication(x) = NotPublishing \/ (Publication(x).at = "publish" /\ Publication(x).item = x)
  BY <1>1 DEF Publication, PublisherStates, Matching, Registered
<1> QED
  BY <1>1, <1>2, <1>3, <1>4

LEMMA RecordIs ==
    ASSUME ConsumerTypes, PublisherInv, NEW t \in Publishers, RecordEvent(t)
    PROVE  /\ pub[t].item[1] \in Probes /\ pub[t].at = "record" /\ UNCHANGED <<buffers, links, probeRun, readers>>
           /\ LET p == pub[t].item[1]  n == events[p]
              IN  /\ \/ /\ n < LastEvent /\ events' = [events EXCEPT ![p] = n + 1]
                        /\ <<p, n>> \in Items /\ pub' = [pub EXCEPT ![t] = Publication(<<p, n>>)]
                        /\ probeRun[p] # "gone"
                        /\ late' = [late EXCEPT ![p] = IF Over(p) THEN late[p] + 1 ELSE late[p]]
                     \/ UNCHANGED <<events, late>> /\ pub' = [pub EXCEPT ![t] = NotPublishing]
<1> DEFINE p == pub[t].item[1]  n == events[p]
<1>1. p \in Probes /\ pub[t].at = "record" /\ UNCHANGED <<buffers, links, probeRun, readers>>
  BY DEF RecordEvent, PublisherInv
<1>2. /\ events' = [events EXCEPT ![p] = IF probeRun[p] # "gone" /\ n < LastEvent THEN n + 1 ELSE n]
      /\ late' = [late EXCEPT ![p] = IF (probeRun[p] # "gone" /\ n < LastEvent) /\ Over(p) THEN late[p] + 1 ELSE late[p]]
      /\ pub' = [pub EXCEPT ![t] = IF probeRun[p] # "gone" /\ n < LastEvent THEN Publication(<<p, n>>)
                                   ELSE NotPublishing]
  BY DEF RecordEvent
<1>3. p \in Sources /\ n \in 0..LastEvent /\ <<p, n>> \in Items
  BY <1>1 DEF ConsumerTypes, Sources, Items
<1> HIDE DEF p
<1>4. events = [events EXCEPT ![p] = events[p]] /\ late = [late EXCEPT ![p] = late[p]]
  BY <1>1, <1>3 DEF ConsumerTypes
<1>5. CASE probeRun[p] # "gone" /\ n < LastEvent
  BY <1>1, <1>2, <1>3, <1>5 DEF p
<1>6. CASE ~(probeRun[p] # "gone" /\ n < LastEvent)
  BY <1>1, <1>2, <1>3, <1>4, <1>6 DEF p
<1> QED
  BY <1>5, <1>6

LEMMA ConsumerTypesStep ==
    ASSUME ConsumerTypes, PublisherInv, BufferInv, ConsumerNext
    PROVE  ConsumerTypes' /\ PublisherInv'
<1> USE DEF ConsumerTypes, PublisherInv
<1>1. ASSUME NEW c \in ConsumerIds, UNCHANGED <<buffer, accepted, sources, readers>>,
             \/ \E how \in requestOf[c].policies : CreateConsumer(c, how)
             \/ JoinSession(c) \/ CloseConsumer(c) \/ LeaveSession(c)
      PROVE  ConsumerTypes' /\ PublisherInv'
  <2>1. consumer' \in [ConsumerIds -> Status] /\ joining' \subseteq ConsumerIds /\ leaving' \subseteq ConsumerIds
    BY <1>1 DEF CreateConsumer, JoinSession, CloseConsumer, LeaveSession, buffers, links, Owned, Status
  <2>2. listed' \in [Sessions -> SUBSET ConsumerIds] /\ opened' \subseteq Sessions
    <3>1. CASE UNCHANGED <<listed, opened>>
      BY <3>1
    <3>2. CASE JoinSession(c)
      BY <3>2 DEF JoinSession
    <3>3. CASE LeaveSession(c)
      <4>1. listed' = [listed EXCEPT ![requestOf[c].owner] = @ \ {c}] /\ opened' = opened
        BY <3>3 DEF LeaveSession
      <4> DEFINE o == requestOf[c].owner
      <4> HIDE DEF o
      <4>2. listed' = [listed EXCEPT ![o] = @ \ {c}]
        BY <4>1 DEF o
      <4>3. \A s \in Sessions : listed'[s] = IF s = o THEN listed[s] \ {c} ELSE listed[s]
        BY <4>2
      <4>4. listed' = [s \in Sessions |-> listed'[s]]
        BY <4>2
      <4> QED
        BY <4>1, <4>3, <4>4
    <3> QED
      BY <1>1, <3>1, <3>2, <3>3 DEF CreateConsumer, CloseConsumer
  <2> QED
    BY <1>1, <2>1, <2>2 DEF sources, readers
<1>2. ASSUME NEW c \in ConsumerIds, NEW closedOnly \in BOOLEAN, RemoveConsumer(c, closedOnly)
      PROVE  ConsumerTypes' /\ PublisherInv'
  BY <1>2 DEF RemoveConsumer, Owned, Status, sources, readers
<1>3. ASSUME NEW s \in Sessions, EndSession(s) PROVE ConsumerTypes' /\ PublisherInv'
  BY <1>3 DEF EndSession, buffers, sources, readers
<1>4. ASSUME NEW t \in Publishers, NEW c \in ConsumerIds, AppendRecord(t, c) PROVE ConsumerTypes' /\ PublisherInv'
  <2>1. /\ pub[t].at = "publish" /\ pub[t].item \in Items /\ UNCHANGED <<links, probeRun, events, late, readers, policy>>
        /\ pub' = [pub EXCEPT ![t] = Passed(pub[t], c)]
    BY <1>4, AppendIs
  <2>2. /\ buffer' \in [ConsumerIds -> Seq(Records)] /\ accepted' \in [ConsumerIds -> Seq(Items)]
        /\ consumer' \in [ConsumerIds -> Status]
    <3>1. CASE UNCHANGED buffers
      BY <3>1 DEF buffers
    <3>2. CASE /\ consumer[c] = "active" /\ consumer' = [consumer EXCEPT ![c] = "failed"]
               /\ UNCHANGED <<buffer, accepted>>
      BY <3>2 DEF Status
    <3>3. CASE consumer[c] = "active" /\ UNCHANGED consumer /\ Stored(c, pub[t].item)
      BY <2>1, <3>3, StoredIs
    <3> QED
      BY <1>4, AppendIs, <3>1, <3>2, <3>3
  <2>3. \A u \in Publishers : pub'[u] = IF u = t THEN Passed(pub[t], c) ELSE pub[u]
    BY <2>1
  <2> DEFINE q == Passed(pub[t], c)
  <2>4. q \in PublisherStates /\ \/ q = NotPublishing
                                 \/ q.at = pub[t].at /\ q.item = pub[t].item /\ q.todo = pub[t].todo \ {c}
    BY PublisherFacts
  <2> HIDE DEF q
  <2>5. pub' \in [Publishers -> PublisherStates]
    BY <2>1, <2>4 DEF q
  <2>6. PublisherInv'
    BY <2>1, <2>3, <2>4, PublisherFacts DEF q
  <2> QED
    BY <2>1, <2>2, <2>5, <2>6 DEF links, readers
<1>5. ASSUME NEW c \in ConsumerIds, DrainReturns(c) PROVE ConsumerTypes' /\ PublisherInv'
  <2>1. PICK last \in Selected(c) : seen' = [seen EXCEPT ![c] = buffer[c][last].seq]
    BY <1>5 DEF DrainReturns
  <2>2. /\ received' = [received EXCEPT ![c] = @ \cup {buffer[c][i].seq : i \in Selected(c)}]
        /\ drain' = drain \ {c} /\ UNCHANGED <<requestOf, buffers, links, sources>>
    BY <1>5 DEF DrainReturns
  <2>3. \A i \in Selected(c) : buffer[c][i].seq \in Nat
    <3>1. \A i \in 1..Len(buffer[c]) : buffer[c][i] \in Records
      OBVIOUS
    <3>2. Selected(c) \subseteq 1..Len(buffer[c])
      BY DEF Selected, Eligible
    <3> QED
      BY <3>1, <3>2 DEF Records
  <2> QED
    BY <2>1, <2>2, <2>3 DEF buffers, links, sources
<1>6. ASSUME UNCHANGED <<buffers, links, sources, requestOf, seen, received>>,
             \E c \in ConsumerIds : drain' = drain \cup {c} \/ drain' = drain \ {c}
      PROVE  ConsumerTypes' /\ PublisherInv'
  BY <1>6 DEF buffers, links, sources
<1>7. ASSUME NEW t \in Publishers, NEW p \in Probes, AskProbe(t, p) PROVE ConsumerTypes' /\ PublisherInv'
  <2> DEFINE q == [at |-> "record", item |-> <<p, 0>>, todo |-> {}]
  <2>1. pub' = [pub EXCEPT ![t] = q] /\ UNCHANGED <<buffers, links, probeRun, events, late, readers>>
    BY <1>7 DEF AskProbe
  <2>2. q \in PublisherStates /\ q.item \in Items /\ q.item[1] \in Probes /\ q.todo = {}
    BY PublisherFacts
  <2> HIDE DEF q
  <2> QED
    BY <2>1, <2>2 DEF buffers, links, readers
<1>8. ASSUME NEW t \in Publishers, RecordEvent(t) PROVE ConsumerTypes' /\ PublisherInv'
  <2> DEFINE p == pub[t].item[1]  n == events[p]
  <2>1. /\ p \in Probes /\ UNCHANGED <<buffers, links, probeRun, readers>>
        /\ \/ /\ n < LastEvent /\ events' = [events EXCEPT ![p] = n + 1]
              /\ <<p, n>> \in Items /\ pub' = [pub EXCEPT ![t] = Publication(<<p, n>>)]
              /\ late' = [late EXCEPT ![p] = IF Over(p) THEN late[p] + 1 ELSE late[p]]
           \/ UNCHANGED <<events, late>> /\ pub' = [pub EXCEPT ![t] = NotPublishing]
    BY <1>8, RecordIs
  <2> HIDE DEF p
  <2>2. events' \in [Sources -> 0..LastEvent] /\ late' \in [Probes -> Nat]
    <3>1. p \in Sources /\ n \in 0..LastEvent /\ (n < LastEvent => n + 1 \in 0..LastEvent)
      BY <2>1, ConsumerAssumption DEF Sources
    <3>2. \A k \in {late[p], late[p] + 1} : [late EXCEPT ![p] = k] \in [Probes -> Nat]
      BY <2>1
    <3>3. late' = late \/ \E k \in {late[p], late[p] + 1} : late' = [late EXCEPT ![p] = k]
      BY <2>1
    <3>4. events' \in [Sources -> 0..LastEvent]
      BY <2>1, <3>1
    <3> QED
      BY <3>2, <3>3, <3>4
  <2>3. PICK q \in PublisherStates : /\ pub' = [pub EXCEPT ![t] = q] /\ q.at # "record"
                                     /\ q.at # "idle" => q.item \in Items
                                     /\ q.at # "publish" => q.todo = {}
    BY <2>1, PublisherFacts
  <2>4. pub' \in [Publishers -> PublisherStates] /\ PublisherInv'
    BY <2>3
  <2> QED
    BY <2>1, <2>2, <2>4 DEF buffers, links, readers
<1>9. ASSUME NEW t \in Publishers, NEW j \in PublishingJobs, PublishResult(t, j)
      PROVE  ConsumerTypes' /\ PublisherInv'
  <2>1. /\ events[j] = 0 /\ events' = [events EXCEPT ![j] = @ + 1] /\ pub' = [pub EXCEPT ![t] = Publication(<<j, 0>>)]
        /\ UNCHANGED <<buffers, links, probeRun, late, readers>>
    BY <1>9 DEF PublishResult
  <2>2. <<j, 0>> \in Items /\ events' \in [Sources -> 0..LastEvent]
    BY <2>1, ConsumerAssumption DEF Items, Sources
  <2> DEFINE x == <<j, 0>>
  <2>5. x \in Items /\ pub' = [pub EXCEPT ![t] = Publication(x)]
    BY <2>1, <2>2
  <2> HIDE DEF x
  <2>3. PICK q \in PublisherStates : /\ pub' = [pub EXCEPT ![t] = q] /\ q.at # "record"
                                     /\ q.at # "idle" => q.item \in Items
                                     /\ q.at # "publish" => q.todo = {}
    <3>1. /\ Publication(x) \in PublisherStates /\ Publication(x).at # "record"
          /\ Publication(x) = NotPublishing \/ (Publication(x).at = "publish" /\ Publication(x).item = x)
      BY <2>5, PublisherFacts
    <3> DEFINE q == Publication(x)
    <3>2. /\ q \in PublisherStates /\ q.at # "record" /\ (q.at # "idle" => q.item \in Items)
          /\ q.at # "publish" => q.todo = {}
      BY <2>5, <3>1, PublisherFacts
    <3>3. pub' = [pub EXCEPT ![t] = q]
      BY <2>5
    <3> HIDE DEF q
    <3> QED
      BY <3>2, <3>3
  <2>4. pub' \in [Publishers -> PublisherStates] /\ PublisherInv'
    BY <2>3
  <2> QED
    BY <2>1, <2>2, <2>4 DEF buffers, links, readers
<1>10. ASSUME NEW p \in Probes, NEW st \in {"over", "gone"}, ProbeEnds(p, st) PROVE ConsumerTypes' /\ PublisherInv'
  BY <1>10 DEF ProbeEnds, buffers, links, readers
<1>11. ASSUME NEW c \in ConsumerIds, DrainsNothing(c) PROVE ConsumerTypes' /\ PublisherInv'
  <2>1. /\ seen' = [seen EXCEPT ![c] = NextSequence(c)] /\ drain' = drain \ {c}
        /\ UNCHANGED <<requestOf, buffers, links, sources, received>>
    BY <1>11 DEF DrainsNothing
  <2>2. NextSequence(c) \in Nat
    BY DEF NextSequence
  <2> QED
    BY <2>1, <2>2 DEF buffers, links, sources
<1> QED
  BY <1>1, <1>2, <1>3, <1>4, <1>5, <1>6, <1>7, <1>8, <1>9, <1>10, <1>11, ConsumerCases


LEMMA BufferStep ==
    ASSUME ConsumerTypes, PublisherInv, BufferInv, ConsumerNext
    PROVE  BufferInv'
<1>0. ConsumerTypes'
  BY ConsumerTypesStep
<1>1. ASSUME UNCHANGED <<buffer, accepted, seen, received>>,
             \A c \in ConsumerIds : consumer'[c] = "removed" <=> consumer[c] = "removed"
      PROVE  BufferInv'
  BY <1>1 DEF BufferInv
<1>2. ASSUME NEW c \in ConsumerIds, UNCHANGED <<buffer, accepted, sources, readers>>,
             \/ \E how \in requestOf[c].policies : CreateConsumer(c, how)
             \/ JoinSession(c) \/ CloseConsumer(c) \/ LeaveSession(c)
      PROVE  BufferInv'
  <2>1. \/ UNCHANGED consumer
        \/ /\ consumer[c] # "removed" /\ \E st \in {"active", "closed"} : consumer' = [consumer EXCEPT ![c] = st]
    BY <1>2 DEF CreateConsumer, JoinSession, CloseConsumer, LeaveSession, buffers, Registered
  <2>2. \A d \in ConsumerIds : consumer'[d] = "removed" <=> consumer[d] = "removed"
    BY <2>1 DEF ConsumerTypes
  <2> QED
    BY <1>1, <1>2, <2>2 DEF readers
<1>3. ASSUME NEW c \in ConsumerIds, NEW closedOnly \in BOOLEAN, RemoveConsumer(c, closedOnly) PROVE BufferInv'
  <2>1. /\ consumer' = [consumer EXCEPT ![c] = "removed"] /\ buffer' = [buffer EXCEPT ![c] = <<>>]
        /\ UNCHANGED <<accepted, seen, received>>
    BY <1>3 DEF RemoveConsumer, readers
  <2>2. /\ consumer'[c] = "removed" /\ buffer'[c] = <<>>
        /\ \A d \in ConsumerIds \ {c} : consumer'[d] = consumer[d] /\ buffer'[d] = buffer[d]
    BY <2>1 DEF ConsumerTypes
  <2> QED
    BY <2>1, <2>2 DEF BufferInv
<1>4. ASSUME NEW t \in Publishers, NEW c \in ConsumerIds, AppendRecord(t, c) PROVE BufferInv'
  <2>1. UNCHANGED <<seen, received>> /\ pub[t].item \in Items
    BY <1>4, AppendIs DEF readers
  <2>2. CASE UNCHANGED buffers
    BY <1>1, <2>1, <2>2 DEF buffers
  <2>3. CASE /\ consumer[c] = "active" /\ consumer' = [consumer EXCEPT ![c] = "failed"]
             /\ UNCHANGED <<buffer, accepted>>
    <3>1. \A d \in ConsumerIds : consumer'[d] = "removed" <=> consumer[d] = "removed"
      BY <2>3 DEF ConsumerTypes
    <3> QED
      BY <1>1, <2>1, <2>3, <3>1
  <2>4. CASE consumer[c] = "active" /\ UNCHANGED consumer /\ Stored(c, pub[t].item)
    <3>1. /\ Len(accepted'[c]) = Len(accepted[c]) + 1
          /\ KeptOf(buffer'[c], Len(accepted[c]) + 1, SizeOf[c])
          /\ \A d \in ConsumerIds \ {c} : accepted'[d] = accepted[d] /\ buffer'[d] = buffer[d]
      BY <2>1, <2>4, StoredIs
    <3>2. Len(accepted[c]) \in Nat
      BY DEF ConsumerTypes
    <3>3. /\ seen'[c] \in 0..Len(accepted'[c]) \/ seen'[c] = 1
          /\ received'[c] \subseteq 1..Len(accepted'[c])
      BY <2>1, <3>1, <3>2 DEF BufferInv
    <3>4. KeptOf(buffer'[c], Len(accepted'[c]), SizeOf[c]) /\ consumer'[c] # "removed"
      BY <2>4, <3>1
    <3> QED
      BY <2>1, <2>4, <3>1, <3>3, <3>4 DEF BufferInv
  <2> QED
    BY <1>4, AppendIs, <2>2, <2>3, <2>4
<1>5. ASSUME NEW c \in ConsumerIds, DrainReturns(c) PROVE BufferInv'
  <2>1. PICK last \in Selected(c) : seen' = [seen EXCEPT ![c] = buffer[c][last].seq]
    BY <1>5 DEF DrainReturns
  <2>2. /\ received' = [received EXCEPT ![c] = @ \cup {buffer[c][i].seq : i \in Selected(c)}]
        /\ UNCHANGED <<consumer, buffer, accepted>> /\ consumer[c] # "removed"
    BY <1>5 DEF DrainReturns, Refused, Registered, buffers
  <2>3. \A i \in Selected(c) : buffer[c][i].seq \in 1..Len(accepted[c])
    <3> DEFINE k == Len(buffer[c])  l == Len(accepted[c])
    <3>1. Selected(c) \subseteq 1..k
      BY DEF Selected, Eligible, ConsumerTypes
    <3>2. \A i \in 1..k : buffer[c][i].seq = l - k + i
      BY <2>2 DEF BufferInv, KeptOf, NewestOf
    <3>3. k \in Nat /\ l \in Nat /\ k <= l
      BY <2>2 DEF BufferInv, KeptOf, NewestOf, ConsumerTypes
    <3>4. \A i \in 1..k : l - k + i \in 1..l
      <4> HIDE DEF k, l
      <4> QED
        BY <3>3
    <3> HIDE DEF k, l
    <3>5. \A i \in Selected(c) : buffer[c][i].seq \in 1..l
      BY <3>1, <3>2, <3>4
    <3> QED
      BY <3>5 DEF l
  <2>4. /\ seen'[c] \in 0..Len(accepted[c]) /\ received'[c] \subseteq 1..Len(accepted[c])
        /\ \A d \in ConsumerIds \ {c} : seen'[d] = seen[d] /\ received'[d] = received[d]
    BY <2>1, <2>2, <2>3 DEF BufferInv, ConsumerTypes
  <2> QED
    BY <2>2, <2>4 DEF BufferInv
<1>6. ASSUME \/ UNCHANGED <<buffers, seen, received>>
             \/ UNCHANGED <<buffers, links, sources, requestOf, seen, received>>
             \/ \E s \in Sessions : EndSession(s)
             \/ \E t \in Publishers, p \in Probes : AskProbe(t, p)
             \/ \E t \in Publishers, j \in PublishingJobs : PublishResult(t, j)
             \/ \E p \in Probes, st \in {"over", "gone"} : ProbeEnds(p, st)
      PROVE  BufferInv'
  BY <1>1, <1>6 DEF EndSession, AskProbe, PublishResult, ProbeEnds, buffers, readers
<1>7. ASSUME NEW t \in Publishers, RecordEvent(t) PROVE BufferInv'
  BY <1>6, <1>7 DEF RecordEvent, readers
<1>8. ASSUME NEW c \in ConsumerIds, DrainsNothing(c) PROVE BufferInv'
  <2>1. UNCHANGED <<consumer, buffer, accepted, received>> /\ seen' = [seen EXCEPT ![c] = NextSequence(c)]
    BY <1>8 DEF DrainsNothing, buffers
  <2>2. \A d \in ConsumerIds : seen'[d] = seen[d] \/ seen'[d] = 1
    BY <2>1 DEF NextSequence, ConsumerTypes
  <2> QED
    BY <2>1, <2>2 DEF BufferInv
<1> QED
  BY <1>2, <1>3, <1>4, <1>5, <1>6, <1>7, <1>8, ConsumerCases

LEMMA FirstPlace ==
    ASSUME NEW k \in Nat, NEW l \in Nat, k <= l, NEW s \in Nat, NEW lo \in 1..k,
           \A i \in 1..k : (l - k) + i > s <=> lo <= i
    PROVE  (l - k) + lo = IF s + 1 > (l - k) + 1 THEN s + 1 ELSE (l - k) + 1
<1>1. (l - k) + lo > s
  OBVIOUS
<1>2. lo > 1 => ~((l - k) + (lo - 1) > s)
  <2>1. lo > 1 => lo - 1 \in 1..k
    OBVIOUS
  <2>2. ~(lo <= lo - 1)
    OBVIOUS
  <2> QED
    BY <2>1, <2>2
<1> QED
  BY <1>1, <1>2

\* A step of the consumers is one of the log that each of them keeps, or none.
LEMMA LogStep ==
    ASSUME ConsumerTypes, PublisherInv, BufferInv, ConsumerNext
    PROVE  Retained!Next \/ UNCHANGED <<accepted, seen, received>>
<1>1. ASSUME NEW t \in Publishers, NEW c \in ConsumerIds, AppendRecord(t, c)
      PROVE  Retained!Accept(c) \/ UNCHANGED <<accepted, seen, received>>
  <2>1. UNCHANGED <<seen, received>> /\ pub[t].item \in Items
    BY <1>1, AppendIs DEF readers
  <2>2. CASE UNCHANGED accepted
    BY <2>1, <2>2
  <2>3. CASE consumer[c] = "active" /\ Stored(c, pub[t].item)
    <3> DEFINE x == pub[t].item
    <3>1. accepted' = [accepted EXCEPT ![c] = Append(accepted[c], x)]
      BY <2>3 DEF Stored
    <3>2. accepted[c] \in Seq(Items) /\ x \in Items /\ Len(accepted[c]) \in Nat
      BY <2>1 DEF ConsumerTypes
    <3> HIDE DEF x
    <3>3. accepted'[c] = Append(accepted[c], x)
      BY <3>1 DEF ConsumerTypes
    <3>4. Len(accepted'[c]) = Len(accepted[c]) + 1 /\ accepted'[c][Len(accepted[c]) + 1] = x
      BY <3>2, <3>3
    <3> QED
      BY <2>1, <3>1, <3>4 DEF Retained!Accept
  <2> QED
    BY <1>1, AppendIs, <2>2, <2>3 DEF buffers
<1>2. ASSUME NEW c \in ConsumerIds, DrainReturns(c) PROVE Retained!Read(c)
  <2> DEFINE k == Len(buffer[c])  l == Len(accepted[c])  s == seen[c]
             from == IF s + 1 > Retained!Oldest(c) THEN s + 1 ELSE Retained!Oldest(c)
  <2>1. /\ consumer[c] # "removed" /\ Eligible(c) # {} /\ UNCHANGED accepted
        /\ \E last \in Selected(c) : /\ \A i \in Selected(c) : i <= last
                                     /\ seen' = [seen EXCEPT ![c] = buffer[c][last].seq]
        /\ received' = [received EXCEPT ![c] = @ \cup {buffer[c][i].seq : i \in Selected(c)}]
    BY <1>2 DEF DrainReturns, Refused, Registered, buffers
  <2>2. KeptOf(buffer[c], l, SizeOf[c])
    BY <2>1 DEF BufferInv
  <2>3. /\ k \in Nat /\ l \in Nat /\ k <= l /\ s \in Nat /\ SizeOf[c] \in Nat /\ (k = SizeOf[c] \/ k = l)
        /\ k <= SizeOf[c] /\ \A i \in 1..k : buffer[c][i].seq = (l - k) + i
    BY <2>2, ConsumerAssumption DEF KeptOf, NewestOf, ConsumerTypes
  <2>4. PICK lo, hi \in 1..k : /\ lo <= hi /\ Selected(c) = lo..hi
                               /\ \A i \in 1..k : buffer[c][i].seq > s <=> lo <= i
    BY <2>1, <2>2, SelectedIs DEF KeptOf
  <2>5. Retained!Oldest(c) = (l - k) + 1
    <3>1. Retained!Oldest(c) = IF l > SizeOf[c] THEN l - SizeOf[c] + 1 ELSE 1
      BY DEF Retained!Oldest
    <3> HIDE DEF k, l
    <3> QED
      BY <2>3, <3>1
  <2> HIDE DEF k, l, s
  <2>6. from = (l - k) + lo
    <3>1. \A i \in 1..k : (l - k) + i > s <=> lo <= i
      BY <2>3, <2>4
    <3>2. (l - k) + lo = IF s + 1 > (l - k) + 1 THEN s + 1 ELSE (l - k) + 1
      <4>1. k \in Nat /\ l \in Nat /\ s \in Nat /\ k <= l /\ lo \in 1..k
        BY <2>3
      <4> QED
        BY <3>1, <4>1, FirstPlace
    <3> QED
      BY <2>5, <3>2
  <2> DEFINE n == (l - k) + hi
  <2>7. {buffer[c][i].seq : i \in Selected(c)} = from..n
    <3>1. ASSUME NEW i \in lo..hi PROVE buffer[c][i].seq = (l - k) + i
      <4>1. i \in 1..k
        BY <2>3
      <4> QED
        BY <2>3, <4>1
    <3>2. {buffer[c][i].seq : i \in Selected(c)} = {(l - k) + i : i \in lo..hi}
      BY <2>4, <3>1
    <3>3. ASSUME NEW m \in (l - k) + lo..n PROVE \E i \in lo..hi : m = (l - k) + i
      <4>1. m - (l - k) \in lo..hi /\ m = (l - k) + (m - (l - k))
        BY <2>3, <2>4
      <4> QED
        BY <4>1
    <3>4. \A i \in lo..hi : (l - k) + i \in (l - k) + lo..n
      BY <2>3, <2>4
    <3>5. {(l - k) + i : i \in lo..hi} = (l - k) + lo..n
      BY <3>3, <3>4
    <3> QED
      BY <2>6, <3>2, <3>5
  <2>8. seen' = [seen EXCEPT ![c] = n]
    <3>1. PICK last \in lo..hi : /\ \A i \in lo..hi : i <= last
                                 /\ seen' = [seen EXCEPT ![c] = buffer[c][last].seq]
      BY <2>1, <2>4
    <3>2. hi \in lo..hi /\ hi \in Nat /\ hi \in 1..k
      BY <2>3, <2>4
    <3>3. last = hi
      BY <2>4, <3>1, <3>2
    <3> QED
      BY <2>3, <3>1, <3>2, <3>3
  <2>9. n \in 1..l /\ from <= n
    BY <2>3, <2>4, <2>6
  <2> HIDE DEF from, n
  <2>10. received' = [received EXCEPT ![c] = @ \cup from..n]
    BY <2>1, <2>7
  <2> QED
    BY <2>1, <2>8, <2>9, <2>10 DEF Retained!Read, from, l, s
<1>3. ASSUME NEW c \in ConsumerIds, DrainsNothing(c)
      PROVE  Retained!ReadEmpty(c) \/ UNCHANGED <<accepted, seen, received>>
  <2> DEFINE k == Len(buffer[c])  l == Len(accepted[c])
  <2>1. /\ consumer[c] # "removed" /\ Eligible(c) = {} /\ UNCHANGED <<accepted, received>>
        /\ seen' = [seen EXCEPT ![c] = NextSequence(c)]
    BY <1>3 DEF DrainsNothing, Refused, Registered, buffers
  <2>2. CASE seen[c] # 0
    <3>1. seen' = [seen EXCEPT ![c] = seen[c]]
      BY <2>1, <2>2 DEF NextSequence
    <3>2. seen' = seen
      BY <3>1 DEF ConsumerTypes
    <3> QED
      BY <2>1, <3>2
  <2>3. CASE seen[c] = 0
    <3>0. KeptOf(buffer[c], l, SizeOf[c])
      BY <2>1 DEF BufferInv
    <3>1. /\ k \in Nat /\ l \in Nat /\ k <= l /\ SizeOf[c] \in Nat \ {0} /\ (k = SizeOf[c] \/ k = l)
          /\ \A i \in 1..k : buffer[c][i].seq = (l - k) + i
      BY <3>0, ConsumerAssumption DEF KeptOf, NewestOf, ConsumerTypes
    <3>2. DOMAIN buffer[c] = 1..k
      BY DEF ConsumerTypes
    <3> HIDE DEF k, l
    <3>3. ASSUME k # 0 PROVE FALSE
      <4>1. 1 \in 1..k /\ (l - k) + 1 > 0
        BY <3>1, <3>3
      <4>2. 1 \in Eligible(c)
        BY <2>3, <3>1, <3>2, <4>1 DEF Eligible
      <4> QED
        BY <2>1, <4>2
    <3>4. l = 0
      BY <3>1, <3>3
    <3>5. accepted[c] = <<>>
      BY <3>4 DEF l, ConsumerTypes
    <3>6. seen' = [seen EXCEPT ![c] = 1]
      BY <2>1, <2>3 DEF NextSequence
    <3> QED
      BY <2>1, <2>3, <3>5, <3>6 DEF Retained!ReadEmpty
  <2> QED
    BY <2>2, <2>3
<1>4. ASSUME ~\E t \in Publishers, c \in ConsumerIds : AppendRecord(t, c),
             ~\E c \in ConsumerIds : DrainReturns(c),
             ~\E c \in ConsumerIds : DrainsNothing(c)
      PROVE  UNCHANGED <<accepted, seen, received>>
  BY <1>4, ConsumerCases DEF RemoveConsumer, EndSession, AskProbe, RecordEvent, PublishResult, ProbeEnds,
     buffers, readers
<1> QED
  BY <1>1, <1>2, <1>3, <1>4 DEF Retained!Next


\* An unclosed consumer stays in its session's list until it leaves it.
ListInv ==
    /\ ActiveListed
    /\ \A c \in leaving : consumer[c] \in {"closed", "removed"} /\ requestOf[c].owner # NoSession

LEMMA ListStep ==
    ASSUME ConsumerTypes, PublisherInv, ListInv, ConsumerNext
    PROVE  ListInv'
<1> USE DEF ListInv, ActiveListed, ConsumerTypes
<1>1. \A c \in ConsumerIds : requestOf[c].owner \in Sessions \cup {NoSession}
  BY ConsumerAssumption
<1>2. ASSUME UNCHANGED <<joining, leaving, listed, opened, requestOf>>,
             \/ UNCHANGED consumer
             \/ \E c \in ConsumerIds : consumer[c] = "active" /\ consumer' = [consumer EXCEPT ![c] = "failed"]
      PROVE  ListInv'
  BY <1>2
<1>3. ASSUME NEW c \in ConsumerIds, NEW how, CreateConsumer(c, how), UNCHANGED requestOf PROVE ListInv'
  <2>1. /\ consumer[c] = "new" /\ requestOf[c].owner \in opened \cup {NoSession}
        /\ consumer' = [consumer EXCEPT ![c] = "active"] /\ joining' = joining \cup Owned(c)
        /\ UNCHANGED <<leaving, listed, opened>>
    BY <1>3 DEF CreateConsumer
  <2>2. requestOf[c].owner \in opened => c \in joining'
    BY <2>1, ConsumerAssumption DEF Owned
  <2>3. c \notin leaving /\ consumer'[c] = "active" /\ \A d \in ConsumerIds \ {c} : consumer'[d] = consumer[d]
    BY <2>1
  <2> QED
    BY <1>3, <2>1, <2>2, <2>3
<1>4. ASSUME NEW c \in ConsumerIds, JoinSession(c), UNCHANGED requestOf PROVE ListInv'
  <2>1. /\ joining' = joining \ {c} /\ UNCHANGED <<consumer, leaving, opened>>
        /\ \A s \in Sessions : listed'[s] = IF s = requestOf[c].owner /\ s \in opened
                                            THEN listed[s] \cup {c} ELSE listed[s]
    BY <1>4 DEF JoinSession, buffers
  <2> QED
    BY <1>1, <1>4, <2>1
<1>5. ASSUME NEW c \in ConsumerIds, UNCHANGED <<requestOf, joining, listed, opened>>, leaving' = leaving \cup Owned(c),
             NEW st \in {"closed", "removed"}, consumer' = [consumer EXCEPT ![c] = st]
      PROVE  ListInv'
  <2>1. consumer'[c] = st /\ \A d \in ConsumerIds \ {c} : consumer'[d] = consumer[d]
    BY <1>5
  <2>2. \A d \in leaving' : d \in leaving \/ (d = c /\ requestOf[c].owner # NoSession)
    BY <1>5 DEF Owned
  <2> QED
    BY <1>5, <2>1, <2>2
<1>6. ASSUME NEW c \in ConsumerIds, CloseConsumer(c), UNCHANGED requestOf PROVE ListInv'
  BY <1>5, <1>6 DEF CloseConsumer
<1>7. ASSUME NEW c \in ConsumerIds, NEW closedOnly \in BOOLEAN, RemoveConsumer(c, closedOnly) PROVE ListInv'
  BY <1>5, <1>7 DEF RemoveConsumer, readers
<1>8. ASSUME NEW c \in ConsumerIds, LeaveSession(c), UNCHANGED requestOf PROVE ListInv'
  <2>1. /\ c \in leaving /\ leaving' = leaving \ {c} /\ UNCHANGED <<consumer, joining, opened>>
        /\ listed' = [listed EXCEPT ![requestOf[c].owner] = @ \ {c}]
    BY <1>8 DEF LeaveSession, buffers
  <2>2. consumer[c] \in {"closed", "removed"} /\ requestOf[c].owner \in Sessions
    BY <1>1, <2>1
  <2>3. \A s \in Sessions, d \in ConsumerIds : d # c => (d \in listed[s] => d \in listed'[s])
    BY <2>1, <2>2
  <2> QED
    BY <1>1, <1>8, <2>1, <2>2, <2>3, ConsumerAssumption
<1>9. ASSUME NEW s \in Sessions, EndSession(s) PROVE ListInv'
  BY <1>9 DEF EndSession, buffers, readers
<1>10. ASSUME NEW t \in Publishers, NEW c \in ConsumerIds, AppendRecord(t, c) PROVE ListInv'
  <2>1. UNCHANGED <<links, readers>> /\ \/ UNCHANGED consumer
                                        \/ consumer[c] = "active" /\ consumer' = [consumer EXCEPT ![c] = "failed"]
    BY <1>10, AppendIs DEF buffers
  <2> QED
    BY <1>2, <2>1 DEF links, readers
<1>11. ASSUME ~\E t \in Publishers, c \in ConsumerIds : AppendRecord(t, c),
              ~\E c \in ConsumerIds, closedOnly \in BOOLEAN : RemoveConsumer(c, closedOnly),
              ~\E s \in Sessions : EndSession(s),
              ~\E c \in ConsumerIds : \/ \E how \in requestOf[c].policies : CreateConsumer(c, how)
                                      \/ JoinSession(c) \/ CloseConsumer(c) \/ LeaveSession(c)
       PROVE  UNCHANGED <<joining, leaving, listed, opened, requestOf, consumer>>
  BY <1>11, ConsumerCases DEF DrainReturns, DrainsNothing, AskProbe, RecordEvent, PublishResult, ProbeEnds,
     buffers, links, readers
<1>12. \A c \in ConsumerIds : (\E how \in requestOf[c].policies : CreateConsumer(c, how))
          \/ JoinSession(c) \/ CloseConsumer(c) \/ LeaveSession(c) => UNCHANGED requestOf
  BY DEF CreateConsumer, JoinSession, CloseConsumer, LeaveSession, readers
<1> QED
  BY <1>2, <1>3, <1>4, <1>6, <1>7, <1>8, <1>9, <1>10, <1>11, <1>12

\* The publishers that have asked about p and will record.
InRecord(p) == {t \in Publishers : pub[t].at = "record" /\ pub[t].item[1] = p}

\* Who has asked while p ran records one event, and nobody asks any more when it has ended.
LateInv ==
    \A p \in Probes : /\ probeRun[p] = "active" => late[p] = 0
                      /\ late[p] <= events[p]
                      /\ late[p] + Cardinality(InRecord(p)) <= Cardinality(Publishers)

LEMMA InRecordFacts ==
    ASSUME NEW p
    PROVE  /\ IsFiniteSet(InRecord(p)) /\ Cardinality(InRecord(p)) \in Nat /\ Cardinality(Publishers) \in Nat
           /\ Cardinality(InRecord(p)) <= Cardinality(Publishers)
           /\ \A t \in InRecord(p) : Cardinality(InRecord(p) \ {t}) = Cardinality(InRecord(p)) - 1
<1>1. IsFiniteSet(Publishers) /\ InRecord(p) \subseteq Publishers
  BY ConsumerAssumption DEF InRecord
<1>2. IsFiniteSet(InRecord(p)) /\ Cardinality(InRecord(p)) <= Cardinality(Publishers)
  BY <1>1, FS_Subset
<1>3. Cardinality(InRecord(p)) \in Nat /\ Cardinality(Publishers) \in Nat
  BY <1>1, <1>2, FS_CardinalityType
<1>4. \A t \in InRecord(p) : Cardinality(InRecord(p) \ {t}) = Cardinality(InRecord(p)) - 1
  BY <1>2, FS_RemoveElement
<1> QED
  BY <1>2, <1>3, <1>4

LEMMA LateStep ==
    ASSUME ConsumerTypes, PublisherInv, LateInv, ConsumerNext
    PROVE  LateInv'
<1>1. ASSUME UNCHANGED <<probeRun, events, late>>, \A p \in Probes : InRecord(p)' = InRecord(p) PROVE LateInv'
  BY <1>1 DEF LateInv
<1>2. ASSUME NEW t \in Publishers, NEW c \in ConsumerIds, AppendRecord(t, c) PROVE LateInv'
  <2>1. pub[t].at = "publish" /\ pub' = [pub EXCEPT ![t] = Passed(pub[t], c)] /\ UNCHANGED <<probeRun, events, late>>
    BY <1>2, AppendIs
  <2>2. Passed(pub[t], c).at # "record"
    <3>1. pub[t] \in PublisherStates
      BY DEF ConsumerTypes
    <3>2. Passed(pub[t], c) = NotPublishing \/ Passed(pub[t], c).at = "publish"
      BY <2>1, <3>1, PublisherFacts
    <3>3. NotPublishing.at = "idle"
      BY PublisherFacts
    <3> QED
      BY <3>2, <3>3
  <2>3. \A u \in Publishers : pub'[u] = IF u = t THEN Passed(pub[t], c) ELSE pub[u]
    BY <2>1 DEF ConsumerTypes
  <2>4. \A p \in Probes : InRecord(p)' = InRecord(p)
    BY <2>1, <2>2, <2>3 DEF InRecord
  <2> QED
    BY <1>1, <2>1, <2>4
<1>3. ASSUME NEW t \in Publishers, NEW p \in Probes, AskProbe(t, p) PROVE LateInv'
  <2> DEFINE q == [at |-> "record", item |-> <<p, 0>>, todo |-> {}]
  <2>1. pub[t].at = "idle" /\ probeRun[p] = "active" /\ pub' = [pub EXCEPT ![t] = q] /\ UNCHANGED <<probeRun, events, late>>
    BY <1>3 DEF AskProbe, Over
  <2>2. q.at = "record" /\ q.item[1] = p
    OBVIOUS
  <2> HIDE DEF q
  <2>3. \A r \in Probes \ {p} : InRecord(r)' = InRecord(r)
    BY <2>1, <2>2 DEF InRecord, ConsumerTypes
  <2>4. IsFiniteSet(InRecord(p)') /\ Cardinality(InRecord(p)') <= Cardinality(Publishers) /\ Cardinality(InRecord(p)') \in Nat
    <3>1. InRecord(p)' \subseteq Publishers
      BY DEF InRecord
    <3> QED
      BY <3>1, FS_Subset, FS_CardinalityType, ConsumerAssumption
  <2>5. late[p] = 0
    BY <2>1 DEF LateInv
  <2> QED
    BY <2>1, <2>3, <2>4, <2>5 DEF LateInv
<1>4. ASSUME NEW t \in Publishers, RecordEvent(t) PROVE LateInv'
  <2>0. PICK p \in Probes : p = pub[t].item[1]
    BY <1>4, RecordIs
  <2> DEFINE n == events[p]
  <2>1. /\ pub[t].at = "record" /\ UNCHANGED probeRun
        /\ \/ /\ events' = [events EXCEPT ![p] = n + 1] /\ <<p, n>> \in Items
              /\ pub' = [pub EXCEPT ![t] = Publication(<<p, n>>)]
              /\ late' = [late EXCEPT ![p] = IF Over(p) THEN late[p] + 1 ELSE late[p]]
           \/ UNCHANGED <<events, late>> /\ pub' = [pub EXCEPT ![t] = NotPublishing]
    BY <1>4, <2>0, RecordIs
  <2>2. t \in InRecord(p)
    BY <2>0, <2>1 DEF InRecord
  <2>3. \A r \in Probes : InRecord(r)' = InRecord(r) \ {t}
    <3>1. PICK q : pub' = [pub EXCEPT ![t] = q] /\ q.at # "record"
      BY <2>1, PublisherFacts
    <3> QED
      BY <3>1 DEF InRecord, ConsumerTypes
  <2>4. ASSUME NEW r \in Probes \ {p} PROVE InRecord(r)' = InRecord(r)
    <3>1. t \notin InRecord(r)
      BY <2>0 DEF InRecord
    <3> QED
      BY <2>3, <3>1
  <2>5. Cardinality(InRecord(p)') = Cardinality(InRecord(p)) - 1
    <3>1. InRecord(p)' = InRecord(p) \ {t}
      BY <2>1, <2>3
    <3>2. Cardinality(InRecord(p) \ {t}) = Cardinality(InRecord(p)) - 1
      BY <2>2, InRecordFacts
    <3> QED
      BY <3>1, <3>2
  <2>6. /\ late'[p] \in {late[p], late[p] + 1} /\ (probeRun[p] = "active" => late'[p] = late[p])
        /\ late'[p] = late[p] + 1 => events'[p] = events[p] + 1
        /\ events'[p] \in {events[p], events[p] + 1}
        /\ late[p] \in Nat /\ events[p] \in Nat
        /\ \A r \in Probes \ {p} : late'[r] = late[r] /\ events'[r] = events[r]
    <3>1. p \in Sources /\ \A r \in Probes : r \in Sources
      BY <2>1 DEF Sources
    <3>2. late[p] \in Nat /\ events[p] \in Nat
      BY <2>1, <3>1 DEF ConsumerTypes
    <3>3. CASE UNCHANGED <<events, late>>
      BY <3>2, <3>3
    <3>4. CASE /\ events' = [events EXCEPT ![p] = n + 1]
               /\ late' = [late EXCEPT ![p] = IF Over(p) THEN late[p] + 1 ELSE late[p]]
      <4>1. \A r \in Probes \ {p} : late'[r] = late[r] /\ events'[r] = events[r]
        BY <3>1, <3>4 DEF ConsumerTypes
      <4>2. events'[p] = events[p] + 1
        BY <3>1, <3>4 DEF ConsumerTypes
      <4>3. late'[p] = IF Over(p) THEN late[p] + 1 ELSE late[p]
        BY <2>1, <3>4 DEF ConsumerTypes
      <4> QED
        BY <3>2, <4>1, <4>2, <4>3 DEF Over
    <3> QED
      BY <2>1, <3>3, <3>4
  <2>7. ASSUME NEW r \in Probes
        PROVE  /\ probeRun[r] = "active" => late'[r] = 0
               /\ late'[r] <= events'[r]
               /\ late'[r] + Cardinality(InRecord(r)') <= Cardinality(Publishers)
    <3>1. CASE r = p
      <4> DEFINE a == Cardinality(InRecord(p))  b == Cardinality(InRecord(p)')  m == Cardinality(Publishers)
      <4>1. a \in Nat /\ m \in Nat /\ b = a - 1
        BY <2>5, InRecordFacts
      <4>2. (probeRun[p] = "active" => late[p] = 0) /\ late[p] <= events[p] /\ late[p] + a <= m
        BY <2>1 DEF LateInv
      <4> HIDE DEF a, b, m
      <4>3. (probeRun[p] = "active" => late'[p] = 0) /\ late'[p] <= events'[p] /\ late'[p] + b <= m
        BY <2>6, <4>1, <4>2
      <4> QED
        BY <3>1, <4>3 DEF b, m
    <3>2. CASE r # p
      BY <2>4, <2>6, <3>2 DEF LateInv
    <3> QED
      BY <3>1, <3>2
  <2> QED
    BY <2>1, <2>7 DEF LateInv
<1>5. ASSUME NEW t \in Publishers, NEW j \in PublishingJobs, PublishResult(t, j) PROVE LateInv'
  <2>1. /\ pub[t].at = "idle" /\ events' = [events EXCEPT ![j] = @ + 1] /\ events[j] = 0
        /\ pub' = [pub EXCEPT ![t] = Publication(<<j, events[j]>>)] /\ UNCHANGED <<probeRun, late>>
    BY <1>5 DEF PublishResult
  <2>2. \A p \in Probes : events'[p] = events[p]
    BY <2>1, ConsumerAssumption DEF ConsumerTypes, Sources
  <2>3. PICK q : pub' = [pub EXCEPT ![t] = q] /\ q.at # "record"
    <3>1. <<j, events[j]>> \in Items
      BY <2>1, ConsumerAssumption DEF Items, Sources
    <3> QED
      BY <2>1, <3>1, PublisherFacts
  <2>4. \A p \in Probes : InRecord(p)' = InRecord(p)
    BY <2>1, <2>3 DEF InRecord, ConsumerTypes
  <2> QED
    BY <2>1, <2>2, <2>4 DEF LateInv
<1>6. ASSUME NEW p \in Probes, NEW st \in {"over", "gone"}, ProbeEnds(p, st) PROVE LateInv'
  <2>1. /\ probeRun' = [probeRun EXCEPT ![p] = st] /\ UNCHANGED <<events, late, pub>>
    BY <1>6 DEF ProbeEnds
  <2>2. \A r \in Probes : (probeRun'[r] = "active" => probeRun[r] = "active") /\ InRecord(r)' = InRecord(r)
    BY <2>1 DEF ConsumerTypes, InRecord
  <2> QED
    BY <2>1, <2>2 DEF LateInv
<1>7. ASSUME UNCHANGED <<probeRun, events, late, pub>> PROVE LateInv'
  BY <1>1, <1>7 DEF InRecord
<1>8. \/ \E t \in Publishers, c \in ConsumerIds : AppendRecord(t, c)
      \/ \E t \in Publishers, p \in Probes : AskProbe(t, p)
      \/ \E t \in Publishers : RecordEvent(t)
      \/ \E t \in Publishers, j \in PublishingJobs : PublishResult(t, j)
      \/ \E p \in Probes, st \in {"over", "gone"} : ProbeEnds(p, st)
      \/ UNCHANGED <<probeRun, events, late, pub>>
  BY ConsumerCases DEF RemoveConsumer, EndSession, DrainReturns, DrainsNothing, sources
<1> QED
  BY <1>2, <1>3, <1>4, <1>5, <1>6, <1>7, <1>8


Recorded == {x \in Items : x[1] \in Probes /\ x[2] < events[x[1]]}

\* The publisher has an observation in hand.
Hands(t) == pub[t].at = "publish" /\ pub[t].item[1] \in Probes

\* An order of the observations, which the probes' numbers and all consumers agree with, and
\* in which the one in hand is the last.
Ranked(rank) ==
    /\ \A x, y \in Recorded : (x[1] = y[1] /\ x[2] < y[2]) => rank[x] < rank[y]
    /\ \A c \in ConsumerIds : \A i, j \in 1..Len(accepted[c]) :
          (i < j /\ accepted[c][i][1] \in Probes /\ accepted[c][j][1] \in Probes)
             => rank[accepted[c][i]] < rank[accepted[c][j]]
    /\ \A t \in Publishers : Hands(t) => \A x \in Recorded \ {pub[t].item} : rank[x] < rank[pub[t].item]

OrderInv ==
    /\ \A c \in ConsumerIds : \A i \in 1..Len(accepted[c]) :
          accepted[c][i][1] \in Probes => accepted[c][i] \in Recorded
    /\ \A t \in Publishers : Hands(t) =>
          /\ pub[t].item \in Recorded
          /\ \A c \in pub[t].todo : \A i \in 1..Len(accepted[c]) : accepted[c][i] # pub[t].item
    /\ \A t, u \in Publishers : Hands(t) /\ Hands(u) => t = u
    /\ \E rank \in [Items -> Nat], top \in Nat : Ranked(rank) /\ \A x \in Recorded : rank[x] < top

LEMMA OrderSound == ConsumerTypes /\ OrderInv => OneProbeOrder
<1> SUFFICES ASSUME ConsumerTypes, OrderInv, NEW c \in ConsumerIds, NEW d \in ConsumerIds,
                    NEW i \in DOMAIN accepted[c], NEW j \in DOMAIN accepted[c],
                    NEW k \in DOMAIN accepted[d], NEW l \in DOMAIN accepted[d], i < j,
                    accepted[c][i][1] \in Probes, accepted[c][j][1] \in Probes
             PROVE  /\ accepted[c][i][1] = accepted[c][j][1] => accepted[c][i][2] < accepted[c][j][2]
                    /\ (accepted[d][k] = accepted[c][j] /\ accepted[d][l] = accepted[c][i]) => l < k
  BY DEF OneProbeOrder
<1>1. PICK rank \in [Items -> Nat] : Ranked(rank)
  BY DEF OrderInv
<1>2. \A b \in ConsumerIds : DOMAIN accepted[b] = 1..Len(accepted[b]) /\ Len(accepted[b]) \in Nat
  BY DEF ConsumerTypes
<1> DEFINE x == accepted[c][i]  y == accepted[c][j]
<1>3. x \in Recorded /\ y \in Recorded
  BY <1>2 DEF OrderInv
<1>4. rank[x] < rank[y] /\ rank[x] \in Nat /\ rank[y] \in Nat
  BY <1>1, <1>2, <1>3 DEF Ranked, Recorded
<1>5. ASSUME x[1] = y[1] PROVE x[2] < y[2]
  <2>1. x[2] \in Nat /\ y[2] \in Nat /\ x = <<x[1], x[2]>> /\ y = <<y[1], y[2]>>
    BY <1>3 DEF Recorded, Items
  <2>2. x # y
    BY <1>4
  <2>3. ~(y[2] < x[2])
    BY <1>1, <1>3, <1>4, <1>5 DEF Ranked
  <2> HIDE DEF x, y
  <2> QED
    BY <1>5, <2>1, <2>2, <2>3
<1>6. ASSUME accepted[d][k] = y, accepted[d][l] = x PROVE l < k
  <2>1. ~(k < l)
    <3>1. accepted[d][k][1] \in Probes /\ accepted[d][l][1] \in Probes
      BY <1>3, <1>6 DEF Recorded
    <3>2. k < l => rank[accepted[d][k]] < rank[accepted[d][l]]
      BY <1>1, <1>2, <3>1 DEF Ranked
    <3>3. ~(rank[y] < rank[x])
      BY <1>4
    <3> QED
      BY <1>6, <3>2, <3>3
  <2>2. k # l
    BY <1>4, <1>6
  <2> QED
    BY <1>2, <2>1, <2>2
<1> QED
  BY <1>5, <1>6

\* A step that records nothing and hands nothing out.
LEMMA OrderKept ==
    ASSUME ConsumerTypes, OrderInv, UNCHANGED accepted, Recorded' = Recorded,
           \A t \in Publishers : Hands(t)' => Hands(t) /\ UNCHANGED pub[t]
    PROVE  OrderInv'
<1>1. PICK rank \in [Items -> Nat], top \in Nat : Ranked(rank) /\ \A x \in Recorded : rank[x] < top
  BY DEF OrderInv
<1>2. Ranked(rank)' /\ \A x \in Recorded' : rank[x] < top
  BY <1>1 DEF Ranked
<1>3. \A t \in Publishers : Hands(t)' => Hands(t) /\ pub'[t] = pub[t]
  OBVIOUS
<1>4. \A t \in Publishers : Hands(t)' =>
          /\ pub'[t].item \in Recorded'
          /\ \A c \in pub'[t].todo : \A i \in 1..Len(accepted'[c]) : accepted'[c][i] # pub'[t].item
  BY <1>3 DEF OrderInv
<1>5. \A t, u \in Publishers : Hands(t)' /\ Hands(u)' => t = u
  BY <1>3 DEF OrderInv
<1>6. \A c \in ConsumerIds : \A i \in 1..Len(accepted'[c]) :
          accepted'[c][i][1] \in Probes => accepted'[c][i] \in Recorded'
  BY DEF OrderInv
<1> QED
  BY <1>2, <1>4, <1>5, <1>6 DEF OrderInv

\* An observation is recorded while no other one is in hand: it becomes the last.
LEMMA OrderRecorded ==
    ASSUME ConsumerTypes, PublisherInv, OrderInv, NEW t \in Publishers, NEW y \in Items, y[1] \in Probes,
           UNCHANGED accepted, ProbeLockFree, y \notin Recorded, Recorded' = Recorded \cup {y},
           \A x \in Recorded : x[1] = y[1] => x[2] < y[2], y[2] \in Nat,
           \A x \in Recorded : x[2] \in Nat,
           pub' = [pub EXCEPT ![t] = Publication(y)]
    PROVE  OrderInv'
<1>1. PICK rank \in [Items -> Nat], top \in Nat : Ranked(rank) /\ \A x \in Recorded : rank[x] < top
  BY DEF OrderInv
<1> DEFINE next == [rank EXCEPT ![y] = top]
<1>2. /\ next \in [Items -> Nat] /\ next[y] = top /\ \A x \in Recorded : next[x] = rank[x]
      /\ Recorded \subseteq Items /\ \A x \in Recorded : rank[x] \in Nat
  BY <1>1 DEF Recorded
<1> HIDE DEF next
<1>3. \A u \in Publishers : Hands(u)' => u = t /\ pub'[u].item = y
  <2>1. \A u \in Publishers : ~Hands(u)
    BY DEF Hands, ProbeLockFree
  <2>2. \A u \in Publishers \ {t} : pub'[u] = pub[u]
    BY DEF ConsumerTypes
  <2>3. pub'[t] = Publication(y)
    BY DEF ConsumerTypes
  <2>4. \A u \in Publishers \ {t} : ~Hands(u)'
    BY <2>1, <2>2 DEF Hands
  <2>5. Hands(t)' => pub'[t].item = y
    <3>1. Publication(y) = NotPublishing \/ Publication(y).item = y
      BY PublisherFacts
    <3>2. NotPublishing.at = "idle"
      BY PublisherFacts
    <3> QED
      BY <2>3, <3>1, <3>2 DEF Hands
  <2> QED
    BY <2>4, <2>5
<1>4. \A c \in ConsumerIds : \A i \in 1..Len(accepted[c]) :
          accepted[c][i][1] \in Probes => accepted[c][i] \in Recorded
  BY DEF OrderInv
<1>5. \A x \in Recorded' : next[x] < top + 1
  BY <1>1, <1>2
<1>6. Ranked(next)'
  <2>1. ASSUME NEW x \in Recorded', NEW z \in Recorded', x[1] = z[1], x[2] < z[2] PROVE next[x] < next[z]
    <3>1. CASE x \in Recorded /\ z \in Recorded
      BY <1>1, <1>2, <2>1, <3>1 DEF Ranked
    <3>2. CASE x \in Recorded /\ z = y
      BY <1>1, <1>2, <3>2
    <3>3. CASE x = y
      BY <2>1, <3>3
    <3> QED
      BY <3>1, <3>2, <3>3
  <2>2. ASSUME NEW c \in ConsumerIds, NEW i \in 1..Len(accepted'[c]), NEW j \in 1..Len(accepted'[c]),
               i < j, accepted'[c][i][1] \in Probes, accepted'[c][j][1] \in Probes
        PROVE  next[accepted'[c][i]] < next[accepted'[c][j]]
    BY <1>1, <1>2, <1>4, <2>2 DEF Ranked
  <2>3. ASSUME NEW u \in Publishers, Hands(u)', NEW x \in Recorded' \ {pub'[u].item}
        PROVE  next[x] < next[pub'[u].item]
    BY <1>1, <1>2, <1>3, <2>3
  <2> QED
    BY <2>1, <2>2, <2>3 DEF Ranked
<1>7. \A u \in Publishers : Hands(u)' =>
          /\ pub'[u].item \in Recorded'
          /\ \A c \in pub'[u].todo : \A i \in 1..Len(accepted'[c]) : accepted'[c][i] # pub'[u].item
  <2> SUFFICES ASSUME NEW u \in Publishers, Hands(u)', NEW c \in pub'[u].todo, NEW i \in 1..Len(accepted'[c])
               PROVE  accepted'[c][i] # y
    BY <1>3
  <2>1. pub'[u].todo \subseteq ConsumerIds
    <3>1. Publication(y) \in PublisherStates
      BY PublisherFacts
    <3>2. pub'[u] = Publication(y)
      BY <1>3 DEF ConsumerTypes
    <3> QED
      BY <3>1, <3>2 DEF PublisherStates
  <2> QED
    BY <1>4, <2>1
<1>8. \A u, v \in Publishers : Hands(u)' /\ Hands(v)' => u = v
  BY <1>3
<1>9. \A c \in ConsumerIds : \A i \in 1..Len(accepted'[c]) :
          accepted'[c][i][1] \in Probes => accepted'[c][i] \in Recorded'
  BY <1>4
<1>10. top + 1 \in Nat
  BY <1>1
<1> QED
  BY <1>2, <1>5, <1>6, <1>7, <1>8, <1>9, <1>10 DEF OrderInv

\* What is in hand is appended to one consumer more.
LEMMA OrderAppended ==
    ASSUME ConsumerTypes, PublisherInv, BufferInv, OrderInv,
           NEW t \in Publishers, NEW c \in ConsumerIds, AppendRecord(t, c)
    PROVE  OrderInv'
<1>1. /\ pub[t].at = "publish" /\ pub[t].item \in Items /\ pub' = [pub EXCEPT ![t] = Passed(pub[t], c)]
      /\ UNCHANGED <<events>> /\ c \in pub[t].todo
  BY AppendIs DEF AppendRecord
<1>2. Recorded' = Recorded
  BY <1>1 DEF Recorded
<1>3. \A u \in Publishers : /\ Hands(u)' => Hands(u) /\ pub'[u].item = pub[u].item
                                           /\ pub'[u].todo \subseteq pub[u].todo
                            /\ Hands(u)' /\ u = t => pub'[u].todo = pub[u].todo \ {c}
  <2>1. pub[t] \in PublisherStates /\ \A u \in Publishers : pub'[u] = IF u = t THEN Passed(pub[t], c) ELSE pub[u]
    BY <1>1 DEF ConsumerTypes
  <2>2. \/ Passed(pub[t], c) = NotPublishing
        \/ /\ Passed(pub[t], c).at = pub[t].at /\ Passed(pub[t], c).item = pub[t].item
           /\ Passed(pub[t], c).todo = pub[t].todo \ {c}
    BY <2>1, PublisherFacts
  <2>3. NotPublishing.at = "idle"
    BY PublisherFacts
  <2> DEFINE q == Passed(pub[t], c)
  <2> HIDE DEF q
  <2>4. q.at # "publish" \/ (q.item = pub[t].item /\ q.todo = pub[t].todo \ {c})
    BY <2>2, <2>3 DEF q
  <2> QED
    BY <1>1, <2>1, <2>4 DEF Hands, q
<1>4. PICK rank \in [Items -> Nat], top \in Nat : Ranked(rank) /\ \A x \in Recorded : rank[x] < top
  BY DEF OrderInv
<1> DEFINE y == pub[t].item  n == Len(accepted[c])
<1>5. /\ n \in Nat /\ \A d \in ConsumerIds : \A i \in 1..Len(accepted'[d]) :
            \/ i \in 1..Len(accepted[d]) /\ accepted'[d][i] = accepted[d][i]
            \/ d = c /\ i = n + 1 /\ accepted'[d][i] = y
  <2>1. n \in Nat /\ accepted[c] \in Seq(Items)
    BY DEF ConsumerTypes
  <2>2. CASE UNCHANGED accepted
    BY <2>1, <2>2
  <2>3. CASE consumer[c] = "active" /\ Stored(c, y)
    <3>1. /\ accepted'[c] = Append(accepted[c], y) /\ \A d \in ConsumerIds \ {c} : accepted'[d] = accepted[d]
      BY <1>1, <2>3, StoredIs
    <3>2. /\ Len(Append(accepted[c], y)) = n + 1 /\ Append(accepted[c], y)[n + 1] = y
          /\ \A i \in 1..n : Append(accepted[c], y)[i] = accepted[c][i]
      BY <1>1, <2>1
    <3>3. \A i \in 1..n + 1 : i \in 1..n \/ i = n + 1
      BY <2>1
    <3> QED
      BY <2>1, <3>1, <3>2, <3>3
  <2> QED
    BY AppendIs, <2>2, <2>3 DEF buffers
<1>6. y[1] \in Probes => /\ Hands(t) /\ y \in Recorded /\ \A i \in 1..n : accepted[c][i] # y
                         /\ \A x \in Recorded \ {y} : rank[x] < rank[y]
  BY <1>1, <1>4 DEF OrderInv, Hands, Ranked
<1>7. \A d \in ConsumerIds : \A i \in 1..Len(accepted[d]) :
          accepted[d][i][1] \in Probes => accepted[d][i] \in Recorded
  BY DEF OrderInv
<1> HIDE DEF y, n
<1>8. \A d \in ConsumerIds : \A i \in 1..Len(accepted'[d]) :
          accepted'[d][i][1] \in Probes => accepted'[d][i] \in Recorded'
  BY <1>2, <1>5, <1>6, <1>7
<1>9. Ranked(rank)'
  <2>1. ASSUME NEW d \in ConsumerIds, NEW i \in 1..Len(accepted'[d]), NEW j \in 1..Len(accepted'[d]),
               i < j, accepted'[d][i][1] \in Probes, accepted'[d][j][1] \in Probes
        PROVE  rank[accepted'[d][i]] < rank[accepted'[d][j]]
    <3>1. CASE j \in 1..Len(accepted[d]) /\ accepted'[d][j] = accepted[d][j]
      <4>1. i \in 1..Len(accepted[d]) /\ (d = c => i # n + 1)
        BY <2>1, <3>1, <1>5 DEF n
      <4>2. accepted'[d][i] = accepted[d][i]
        BY <1>5, <4>1
      <4> QED
        BY <1>4, <2>1, <3>1, <4>1, <4>2 DEF Ranked
    <3>2. CASE d = c /\ j = n + 1 /\ accepted'[d][j] = y
      <4>1. i # n + 1
        BY <1>5, <2>1, <3>2
      <4>2. i \in 1..n /\ accepted'[d][i] = accepted[c][i]
        BY <1>5, <3>2, <4>1 DEF n
      <4>3. accepted[c][i] \in Recorded \ {y}
        BY <1>6, <1>7, <2>1, <3>2, <4>2 DEF n
      <4> QED
        BY <1>6, <2>1, <3>2, <4>2, <4>3
    <3> QED
      BY <1>5, <3>1, <3>2
  <2>2. ASSUME NEW u \in Publishers, Hands(u)', NEW x \in Recorded' \ {pub'[u].item}
        PROVE  rank[x] < rank[pub'[u].item]
    BY <1>2, <1>3, <1>4, <2>2 DEF Ranked
  <2>3. \A x, z \in Recorded' : (x[1] = z[1] /\ x[2] < z[2]) => rank[x] < rank[z]
    BY <1>2, <1>4 DEF Ranked
  <2> QED
    BY <2>1, <2>2, <2>3 DEF Ranked
<1>10. ASSUME NEW u \in Publishers, Hands(u)'
       PROVE  /\ pub'[u].item \in Recorded'
              /\ \A d \in pub'[u].todo : \A i \in 1..Len(accepted'[d]) : accepted'[d][i] # pub'[u].item
  <2>1. /\ Hands(u) /\ pub'[u].item = pub[u].item /\ pub'[u].todo \subseteq pub[u].todo
        /\ u = t => pub'[u].todo = pub[u].todo \ {c}
    BY <1>3, <1>10
  <2>2. pub[u].todo \subseteq ConsumerIds
    BY DEF ConsumerTypes, PublisherStates
  <2>3. /\ pub[u].item \in Recorded /\ pub[u].item[1] \in Probes
        /\ \A d \in pub[u].todo : \A i \in 1..Len(accepted[d]) : accepted[d][i] # pub[u].item
    BY <2>1 DEF OrderInv, Hands
  <2>4. ASSUME NEW d \in pub'[u].todo, NEW i \in 1..Len(accepted'[d]), accepted'[d][i] = pub'[u].item PROVE FALSE
    <3>1. d = c /\ y = pub[u].item
      BY <1>5, <2>1, <2>2, <2>3, <2>4
    <3>2. u = t
      BY <1>6, <2>1, <2>3, <3>1 DEF OrderInv
    <3> QED
      BY <2>1, <2>4, <3>1, <3>2
  <2> QED
    BY <1>2, <2>1, <2>3, <2>4
<1>11. \A u, v \in Publishers : Hands(u)' /\ Hands(v)' => u = v
  BY <1>3 DEF OrderInv
<1>12. \A x \in Recorded' : rank[x] < top
  BY <1>2, <1>4
<1> QED
  BY <1>4, <1>8, <1>9, <1>10, <1>11, <1>12 DEF OrderInv


LEMMA OrderStep ==
    ASSUME ConsumerTypes, PublisherInv, BufferInv, OrderInv, ConsumerNext
    PROVE  OrderInv'
<1>1. ASSUME NEW t \in Publishers, NEW p \in Probes, AskProbe(t, p) PROVE OrderInv'
  <2> DEFINE q == [at |-> "record", item |-> <<p, 0>>, todo |-> {}]
  <2>1. pub' = [pub EXCEPT ![t] = q] /\ q.at = "record" /\ UNCHANGED <<accepted, events>>
    BY <1>1 DEF AskProbe, buffers
  <2> HIDE DEF q
  <2>2. \A u \in Publishers : pub'[u] = IF u = t THEN q ELSE pub[u]
    BY <2>1 DEF ConsumerTypes
  <2>3. \A u \in Publishers : Hands(u)' => Hands(u) /\ UNCHANGED pub[u]
    BY <2>1, <2>2 DEF Hands
  <2>4. Recorded' = Recorded
    BY <2>1 DEF Recorded
  <2> QED
    BY <2>1, <2>3, <2>4, OrderKept
<1>2. ASSUME NEW t \in Publishers, RecordEvent(t) PROVE OrderInv'
  <2>0. PICK p \in Probes : p = pub[t].item[1]
    BY <1>2, RecordIs
  <2> DEFINE n == events[p]  y == <<p, n>>
  <2>1. /\ UNCHANGED accepted /\ ProbeLockFree
        /\ \/ events' = [events EXCEPT ![p] = n + 1] /\ y \in Items /\ pub' = [pub EXCEPT ![t] = Publication(y)]
           \/ UNCHANGED events /\ pub' = [pub EXCEPT ![t] = NotPublishing]
    BY <1>2, <2>0, RecordIs DEF RecordEvent, buffers
  <2>2. n \in Nat /\ \A r \in Probes : r \in Sources /\ events[r] \in Nat
    BY DEF ConsumerTypes, Sources
  <2>3. CASE UNCHANGED events /\ pub' = [pub EXCEPT ![t] = NotPublishing]
    <3>1. \A u \in Publishers : pub'[u] = IF u = t THEN NotPublishing ELSE pub[u]
      BY <2>3 DEF ConsumerTypes
    <3>2. \A u \in Publishers : Hands(u)' => Hands(u) /\ UNCHANGED pub[u]
      BY <3>1, PublisherFacts DEF Hands
    <3>3. Recorded' = Recorded
      BY <2>3 DEF Recorded
    <3> QED
      BY <2>1, <3>2, <3>3, OrderKept
  <2>4. CASE events' = [events EXCEPT ![p] = n + 1] /\ y \in Items /\ pub' = [pub EXCEPT ![t] = Publication(y)]
    <3>1. events'[p] = n + 1 /\ \A r \in Probes \ {p} : events'[r] = events[r]
      BY <2>2, <2>4 DEF ConsumerTypes
    <3>2. \A x \in Items : x = <<x[1], x[2]>> /\ x[2] \in Nat
      BY DEF Items
    <3>3. \A x \in Items : (x[1] = p /\ x[2] = n) => x = y
      BY <3>2
    <3>4. y[1] = p /\ y[2] = n
      OBVIOUS
    <3> HIDE DEF y, n
    <3>5. Recorded' = Recorded \cup {y}
      <4>1. ASSUME NEW x \in Items PROVE x \in Recorded' <=> x \in Recorded \/ x = y
        <5>1. CASE x[1] = p
          BY <2>2, <3>1, <3>2, <3>3, <3>4, <5>1 DEF Recorded, n
        <5>2. CASE x[1] # p
          BY <3>1, <3>4, <5>2 DEF Recorded
        <5> QED
          BY <5>1, <5>2
      <4>2. Recorded' \subseteq Items /\ Recorded \subseteq Items /\ y \in Items
        BY <2>4 DEF Recorded
      <4> QED
        BY <4>1, <4>2
    <3>6. y \notin Recorded /\ \A x \in Recorded : x[2] \in Nat /\ (x[1] = y[1] => x[2] < y[2])
      BY <2>2, <3>2, <3>4 DEF Recorded, n
    <3> QED
      BY <2>1, <2>2, <2>4, <3>4, <3>5, <3>6, OrderRecorded
  <2> QED
    BY <2>1, <2>3, <2>4
<1>3. ASSUME NEW t \in Publishers, NEW j \in PublishingJobs, PublishResult(t, j) PROVE OrderInv'
  <2>1. /\ events' = [events EXCEPT ![j] = @ + 1] /\ events[j] = 0
        /\ pub' = [pub EXCEPT ![t] = Publication(<<j, events[j]>>)] /\ UNCHANGED accepted
    BY <1>3 DEF PublishResult, buffers
  <2> DEFINE x == <<j, 0>>
  <2>2. x \in Items /\ x[1] \notin Probes /\ pub' = [pub EXCEPT ![t] = Publication(x)]
    BY <2>1, ConsumerAssumption DEF Items, Sources
  <2> HIDE DEF x
  <2>3. Publication(x) = NotPublishing \/ Publication(x).item = x
    BY <2>2, PublisherFacts
  <2>4. \A u \in Publishers : pub'[u] = IF u = t THEN Publication(x) ELSE pub[u]
    BY <2>2 DEF ConsumerTypes
  <2>5. NotPublishing.at = "idle"
    BY PublisherFacts
  <2>6. \A u \in Publishers : Hands(u)' => Hands(u) /\ UNCHANGED pub[u]
    BY <2>2, <2>3, <2>4, <2>5 DEF Hands
  <2>7. \A r \in Probes : events'[r] = events[r]
    BY <2>1, ConsumerAssumption DEF ConsumerTypes, Sources
  <2>8. Recorded' = Recorded
    BY <2>7 DEF Recorded
  <2> QED
    BY <2>1, <2>6, <2>8, OrderKept
<1>4. ASSUME UNCHANGED <<accepted, events, pub>> PROVE OrderInv'
  <2>1. Recorded' = Recorded /\ \A u \in Publishers : Hands(u)' => Hands(u) /\ UNCHANGED pub[u]
    BY <1>4 DEF Recorded, Hands
  <2> QED
    BY <1>4, <2>1, OrderKept
<1>5. \/ \E t \in Publishers, c \in ConsumerIds : AppendRecord(t, c)
      \/ \E t \in Publishers, p \in Probes : AskProbe(t, p)
      \/ \E t \in Publishers : RecordEvent(t)
      \/ \E t \in Publishers, j \in PublishingJobs : PublishResult(t, j)
      \/ UNCHANGED <<accepted, events, pub>>
  BY ConsumerCases DEF RemoveConsumer, EndSession, DrainReturns, DrainsNothing, ProbeEnds, sources, buffers
<1> QED
  BY <1>1, <1>2, <1>3, <1>4, <1>5, OrderAppended

ConsumerInv == ConsumerTypes /\ PublisherInv /\ BufferInv /\ ListInv /\ LateInv /\ OrderInv

LEMMA ConsumerInvInit == ConsumerInit => ConsumerInv
<1> SUFFICES ASSUME ConsumerInit PROVE ConsumerInv
  OBVIOUS
<1>1. ConsumerTypes /\ PublisherInv /\ BufferInv
  BY ConsumerTypesInit
<1>2. ListInv
  BY DEF ConsumerInit, ListInv, ActiveListed
<1>3. LateInv
  BY <1>1, InRecordFacts, ConsumerAssumption DEF ConsumerInit, LateInv, Sources
<1>4. Recorded = {}
  <2>1. \A x \in Items : x[2] \in Nat
    BY DEF Items
  <2>2. \A p \in Probes : events[p] = 0
    BY DEF ConsumerInit, Sources
  <2> QED
    BY <2>1, <2>2 DEF Recorded
<1>5. OrderInv
  <2>1. \A t \in Publishers : ~Hands(t)
    BY PublisherFacts DEF ConsumerInit, Hands
  <2>2. \A c \in ConsumerIds : Len(accepted[c]) = 0
    BY DEF ConsumerInit
  <2>3. [x \in Items |-> 0] \in [Items -> Nat] /\ 0 \in Nat
    OBVIOUS
  <2>4. Ranked([x \in Items |-> 0])
    BY <1>4, <2>1, <2>2 DEF Ranked
  <2> QED
    BY <1>4, <2>1, <2>2, <2>3, <2>4 DEF OrderInv
<1> QED
  BY <1>1, <1>2, <1>3, <1>5 DEF ConsumerInv

LEMMA ConsumerInvStep == ConsumerInv /\ [ConsumerNext]_consumerVars => ConsumerInv'
<1> SUFFICES ASSUME ConsumerInv, [ConsumerNext]_consumerVars PROVE ConsumerInv'
  OBVIOUS
<1> USE DEF ConsumerInv
<1>1. CASE ConsumerNext
  BY <1>1, ConsumerTypesStep, BufferStep, ListStep, LateStep, OrderStep
<1>2. CASE UNCHANGED consumerVars
  <2> USE <1>2 DEF consumerVars, buffers, links, sources, readers
  <2>1. ConsumerTypes' /\ PublisherInv' /\ BufferInv'
    BY DEF ConsumerTypes, PublisherInv, BufferInv
  <2>2. ListInv' /\ LateInv'
    BY DEF ListInv, ActiveListed, LateInv, InRecord
  <2>3. OrderInv'
    BY OrderKept DEF Recorded, Hands
  <2> QED
    BY <2>1, <2>2, <2>3
<1> QED
  BY <1>1, <1>2

LEMMA ConsumerInvAlways == ConsumerSpec => []ConsumerInv
BY ConsumerInvInit, ConsumerInvStep, PTL DEF ConsumerSpec

\* No buffer outgrows its size, and no reader is given a number that no record had.
THEOREM ConsumersTyped == ConsumerSpec => []ConsumerTypeOK
<1>1. ASSUME ConsumerInv PROVE ConsumerTypeOK
  <2> USE <1>1 DEF ConsumerInv
  <2>1. ASSUME NEW c \in ConsumerIds
        PROVE  /\ Len(buffer[c]) <= SizeOf[c]
               /\ \A i \in DOMAIN buffer[c] : buffer[c][i] \in [seq : Nat, item : Items]
               /\ received[c] \subseteq DOMAIN accepted[c]
    <3>1. Len(buffer[c]) <= SizeOf[c]
      <4>1. CASE consumer[c] = "removed"
        <5>1. Len(buffer[c]) = 0 /\ SizeOf[c] \in Nat
          BY <4>1, ConsumerAssumption DEF BufferInv
        <5> QED
          BY <5>1
      <4>2. CASE consumer[c] # "removed"
        BY <4>2 DEF BufferInv, KeptOf
      <4> QED
        BY <4>1, <4>2
    <3>2. \A i \in DOMAIN buffer[c] : buffer[c][i] \in Records
      BY DEF ConsumerTypes
    <3>3. received[c] \subseteq 1..Len(accepted[c]) /\ DOMAIN accepted[c] = 1..Len(accepted[c])
      BY DEF BufferInv, ConsumerTypes
    <3> QED
      BY <3>1, <3>2, <3>3 DEF Records
  <2>2. late \in [Probes -> 0..LastEvent]
    <3>1. \A p \in Probes : late[p] \in Nat /\ late[p] <= events[p] /\ events[p] \in 0..LastEvent
      BY DEF LateInv, ConsumerTypes, Sources
    <3>2. \A p \in Probes : late[p] \in 0..LastEvent
      BY <3>1, ConsumerAssumption
    <3> QED
      BY <3>2 DEF ConsumerTypes
  <2>3. \A t \in Publishers : pub[t].item \in Items \cup {NoItem}
    BY DEF ConsumerTypes, PublisherStates
  <2> QED
    BY <2>1, <2>2, <2>3 DEF ConsumerTypeOK, ConsumerTypes
<1> QED
  BY <1>1, ConsumerInvAlways, PTL

\* Consumers agree on the order of observations, are given at most one for every call that was
\* under way when its probe ended, and stay in the list of the session that they belong to.
THEOREM ConsumersAreSound == ConsumerSpec => []ConsumersSound
<1>1. ASSUME ConsumerInv PROVE ConsumersSound
  <2> USE <1>1 DEF ConsumerInv
  <2>1. OneProbeOrder /\ ActiveListed
    BY OrderSound DEF ListInv
  <2>2. ASSUME NEW p \in Probes PROVE late[p] <= Cardinality(Publishers)
    <3>1. /\ late[p] \in Nat /\ Cardinality(InRecord(p)) \in Nat /\ Cardinality(Publishers) \in Nat
          /\ late[p] + Cardinality(InRecord(p)) <= Cardinality(Publishers)
      BY InRecordFacts DEF LateInv, ConsumerTypes
    <3> QED
      BY <3>1
  <2> QED
    BY <2>1, <2>2 DEF ConsumersSound, LateEventsBounded
<1> QED
  BY <1>1, ConsumerInvAlways, PTL

\* What a consumer keeps and returns (append_record, drain) is a log that keeps its last records: a
\* reader is given them in order, and misses one only when as many later ones as there is
\* room for have pushed it out, or when it is the first and the reader asked before it came.
THEOREM ConsumersRetain == ConsumerSpec => ReaderPromise
<1>1. ConsumerInit => Retained!Init
  BY DEF ConsumerInit, Retained!Init
<1>2. ConsumerInv /\ [ConsumerNext]_consumerVars => [Retained!Next]_<<accepted, seen, received>>
  <2> SUFFICES ASSUME ConsumerInv, [ConsumerNext]_consumerVars
               PROVE  Retained!Next \/ UNCHANGED <<accepted, seen, received>>
    OBVIOUS
  <2>1. CASE ConsumerNext
    BY <2>1, LogStep DEF ConsumerInv
  <2>2. CASE UNCHANGED consumerVars
    BY <2>2 DEF consumerVars, buffers, readers
  <2> QED
    BY <2>1, <2>2
<1> QED
  BY <1>1, <1>2, ConsumerInvAlways, PTL DEF ConsumerSpec, ReaderPromise, Retained!Spec

-----------------------------------------------------------------------------
(* The registries' records *)

Fields == {"status", "ended", "count", "error", "summary"}
RunStatuses == {"created", "active", "stopped", "failed"}
WorkStatuses == {"created", "running", "streaming", "completed", "failed", "interrupted"}
StatusesOf(r) == IF r \in RunIds THEN RunStatuses ELSE WorkStatuses
Summaries == [count : Nat, status : RunStatuses \cup WorkStatuses \cup {"none"}]
FieldValues == RunStatuses \cup WorkStatuses \cup BOOLEAN \cup Nat \cup Summaries
FieldWrites == Fields \X FieldValues

\* The writes of a change that are still to come.
LeftOf(r) == IF BeingWritten(r) THEN writing[RegistryOf(r)].left ELSE <<>>
Written(s) == {s[i] : i \in 1..Len(s)}

\* The record as it will be when the change under way is made.
Toward(r, goal) ==
    /\ \A w \in Written(LeftOf(r)) : goal[w[1]] = w[2]
    /\ \A f \in Fields : entry[r][f] = goal[f] \/ \E w \in Written(LeftOf(r)) : w[1] = f

\* A record that is over says so in every field.
Settled(e, status) ==
    e.status = status /\ e.ended = TRUE /\ e.summary.status = status /\ (status = "failed" => e.error = TRUE)

\* A record that adds up.
EntrySound(r, e) ==
    /\ e.status \in StatusesOf(r) /\ e.count \in Nat
    /\ e.summary.count = e.count /\ e.summary.status \in {e.status, "none"}
    /\ e.status \in Terminal => Settled(e, e.status)

\* What the user of the record, and who removed it, know of its status.
StatusDue(r, status) ==
    /\ user[r] \in {"away", "new", "made"} => status = "created"
    /\ user[r] \in {"open", "closed"} /\ r \in known => status # "created"
    /\ user[r] = "closed" /\ r \in known => status \in Terminal
    /\ user[r] \notin {"away", "new"} /\ r \notin known =>
          status \in Terminal \cup (IF r \in RunIds THEN {"created"} ELSE {})

\* What the record becomes by the writes to come: a record that adds up, with a status
\* that may follow the present one.
GoalSound(r, goal) ==
    /\ Toward(r, goal) /\ EntrySound(r, goal) /\ StatusDue(r, goal.status)
    /\ r \in RunIds => goal.count = nextSeq[r]
    /\ entry[r].count \in Nat /\ entry[r].count <= goal.count
    /\ entry[r].status = goal.status \/ goal.status \in LegalFrom(entry[r].status)

RegTypes ==
    /\ entry \in [Entries -> [Fields -> FieldValues]]
    /\ known \subseteq Entries /\ user \in [Entries -> {"away", "new", "made", "open", "closed"}]
    /\ recent \in [RunIds -> Seq(Nat)] /\ nextSeq \in [RunIds -> Nat]
    /\ DOMAIN writing = {"probes", "jobs"}
    /\ \A k \in {"probes", "jobs"} :
          \/ writing[k] = Unheld
          \/ /\ writing[k] \in [of : known, left : Seq(FieldWrites)]
             /\ RegistryOf(writing[k].of) = k /\ writing[k].left # <<>>
    /\ \A r \in Entries : user[r] \in {"away", "new"} => r \notin known /\ (r \in RunIds => nextSeq[r] = 0)

\* Each record is on its way to one that adds up.
GoalInv == \A r \in Entries : \E goal \in [Fields -> FieldValues] : GoalSound(r, goal)

\* The events that are kept are the newest.
RecentInv ==
    \A r \in RunIds \cap known :
        /\ Len(recent[r]) = (IF nextSeq[r] < RecentLimit THEN nextSeq[r] ELSE RecentLimit)
        /\ \A i \in 1..Len(recent[r]) : recent[r][i] = nextSeq[r] - Len(recent[r]) + i - 1

\* A run that is not in the registry, or not any more, has no events there.
EmptyInv == \A r \in RunIds \ known : recent[r] = <<>>

\* What a clean-up of jobs has chosen was over, and stays so.
SweepInv ==
    /\ sweep \in [at : {"idle", "removing"}, chosen : SUBSET Entries]
    /\ \A r \in sweep.chosen : r \in WorkIds /\ entry[r].status \in Terminal

\* What was read is what it was, or less; what is over was over.
ReadSound(r, e, got, torn, evs) ==
    LET n == Len(got)
        over == n > 0 /\ got[1] \in Terminal /\ ~torn
        summary == IF r \in RunIds THEN 5 ELSE 3
    IN /\ evs # <<>> => r \in RunIds /\ Last(evs) < e.count
       /\ over => Settled(e, got[1])
       /\ over /\ n > 1 => got[2] = TRUE
       /\ over /\ n > 3 /\ got[1] = "failed" => got[4] = TRUE
       /\ over /\ n >= summary => got[summary].status = got[1]
       /\ r \in RunIds /\ n > 2 => /\ got[3] \in Nat /\ got[3] <= e.count
                                   /\ evs # <<>> => Last(evs) < got[3]
       /\ r \in RunIds /\ n > 4 /\ ~torn => got[5].count >= got[3]

Answers == [of : Entries \cup {"none"}, fetched : BOOLEAN, events : Seq(Nat), got : Seq(FieldValues),
            torn : BOOLEAN]

\* A query that has begun has read the events before the fields, and these in order.
AnswerInv ==
    /\ answer \in Answers
    /\ answer.of = "none" => answer.fetched = FALSE
    /\ answer.fetched = FALSE => answer.got = <<>>
    /\ answer.of \in Entries => /\ Len(answer.got) <= Len(FieldsOf(answer.of))
                                /\ ReadSound(answer.of, entry[answer.of], answer.got, answer.torn, answer.events)

RegInv == RegTypes /\ GoalInv /\ RecentInv /\ EmptyInv /\ SweepInv /\ AnswerInv

LEMMA WrittenJoined ==
    ASSUME NEW S, NEW s \in Seq(S), NEW t \in Seq(S)
    PROVE  Written(s \o t) = Written(s) \cup Written(t)
<1>1. Len(s) \in Nat /\ Len(t) \in Nat /\ Len(s \o t) = Len(s) + Len(t)
      /\ \A i \in 1..Len(s) + Len(t) : (s \o t)[i] = IF i <= Len(s) THEN s[i] ELSE t[i - Len(s)]
  OBVIOUS
<1>2. ASSUME NEW i \in 1..Len(s) PROVE i \in 1..Len(s \o t) /\ (s \o t)[i] = s[i]
  BY <1>1
<1>3. ASSUME NEW i \in 1..Len(t) PROVE i + Len(s) \in 1..Len(s \o t) /\ (s \o t)[i + Len(s)] = t[i]
  BY <1>1
<1>4. ASSUME NEW i \in 1..Len(s \o t)
      PROVE  \/ i \in 1..Len(s) /\ (s \o t)[i] = s[i]
             \/ i - Len(s) \in 1..Len(t) /\ (s \o t)[i] = t[i - Len(s)]
  BY <1>1
<1>5. ASSUME NEW w \in Written(s) PROVE w \in Written(s \o t)
  <2>1. PICK i \in 1..Len(s) : w = s[i]
    BY <1>5 DEF Written
  <2> QED
    BY <1>2, <2>1 DEF Written
<1>6. ASSUME NEW w \in Written(t) PROVE w \in Written(s \o t)
  <2>1. PICK i \in 1..Len(t) : w = t[i]
    BY <1>6 DEF Written
  <2> QED
    BY <1>3, <2>1 DEF Written
<1>7. ASSUME NEW w \in Written(s \o t) PROVE w \in Written(s) \/ w \in Written(t)
  <2>1. PICK i \in 1..Len(s \o t) : w = (s \o t)[i]
    BY <1>7 DEF Written
  <2> QED
    BY <1>4, <2>1 DEF Written
<1> QED
  BY <1>5, <1>6, <1>7

LEMMA WrittenOnes == ASSUME NEW w PROVE Written(<<w>>) = {w} /\ Written(<<>>) = {}
<1>1. Len(<<w>>) = 1 /\ Len(<<>>) = 0 /\ <<w>>[1] = w /\ 1..1 = {1} /\ 1..0 = {}
  OBVIOUS
<1> QED
  BY <1>1 DEF Written

LEMMA WrittenHead ==
    ASSUME NEW S, NEW s \in Seq(S), s # <<>>
    PROVE  /\ Head(s) \in S /\ Tail(s) \in Seq(S) /\ Written(s) = {Head(s)} \cup Written(Tail(s))
           /\ Written(s) \subseteq S
<1>1. Len(s) \in Nat /\ Len(s) > 0 /\ Head(s) = s[1] /\ s[1] \in S /\ Tail(s) \in Seq(S)
      /\ Len(Tail(s)) = Len(s) - 1
      /\ \A i \in 1..Len(s) - 1 : Tail(s)[i] = s[i + 1]
  OBVIOUS
<1>2. ASSUME NEW i \in 1..Len(s) PROVE s[i] \in {Head(s)} \cup Written(Tail(s))
  <2>1. CASE i = 1
    BY <1>1, <2>1
  <2>2. CASE i # 1
    <3>1. i - 1 \in 1..Len(s) - 1 /\ (i - 1) + 1 = i
      BY <1>1, <2>2
    <3>2. Tail(s)[i - 1] = s[i]
      BY <1>1, <3>1
    <3> QED
      BY <1>1, <3>1, <3>2 DEF Written
  <2> QED
    BY <2>1, <2>2
<1>3. ASSUME NEW i \in 1..Len(Tail(s)) PROVE Tail(s)[i] \in Written(s)
  <2>1. i + 1 \in 1..Len(s) /\ Tail(s)[i] = s[i + 1]
    BY <1>1
  <2> QED
    BY <2>1 DEF Written
<1>4. Head(s) \in Written(s)
  BY <1>1 DEF Written
<1>5. \A i \in 1..Len(s) : s[i] \in S
  OBVIOUS
<1> QED
  BY <1>1, <1>2, <1>3, <1>4, <1>5 DEF Written

LEMMA Legality ==
    ASSUME NEW status, NEW new \in LegalFrom(status),
           status \in RunStatuses \cup WorkStatuses
    PROVE  status \notin Terminal /\ new # "created" /\ new \in RunStatuses \cup WorkStatuses
<1>1. CASE status = "created"
  BY <1>1 DEF LegalFrom, Terminal, RunStatuses, WorkStatuses
<1>2. CASE status = "active"
  BY <1>2 DEF LegalFrom, Terminal, RunStatuses, WorkStatuses
<1>3. CASE status = "running"
  BY <1>3 DEF LegalFrom, Terminal, RunStatuses, WorkStatuses
<1>4. CASE status = "streaming"
  BY <1>4 DEF LegalFrom, Terminal, RunStatuses, WorkStatuses
<1>5. CASE status \in Terminal
  <2>1. LegalFrom(status) = {}
    BY <1>5 DEF LegalFrom, Terminal
  <2> QED
    BY <2>1
<1> QED
  BY <1>1, <1>2, <1>3, <1>4, <1>5 DEF RunStatuses, WorkStatuses, Terminal

LEMMA OverStaysOver == ASSUME NEW status \in Terminal PROVE LegalFrom(status) = {}
BY DEF LegalFrom, Terminal

LEMMA KindsOf == \A r \in Entries : /\ r # "none" /\ RegistryOf(r) \in {"probes", "jobs"}
                                    /\ RegistryOf(r) = "probes" <=> r \in RunIds
                                    /\ r \in WorkIds <=> r \notin RunIds
BY RegistriesAssumption DEF Entries, RegistryOf

\* A record nobody changes is as sound as the changes leave it.
LEMMA StillSound ==
    ASSUME RegTypes, GoalInv, NEW r \in Entries, ~BeingWritten(r)
    PROVE  LeftOf(r) = <<>> /\ GoalSound(r, entry[r]) /\ entry[r] \in [Fields -> FieldValues]
<1>1. LeftOf(r) = <<>> /\ Written(<<>>) = {}
  BY WrittenOnes DEF LeftOf
<1>2. PICK goal \in [Fields -> FieldValues] : GoalSound(r, goal)
  BY DEF GoalInv
<1>3. entry[r] \in [Fields -> FieldValues]
  BY DEF RegTypes
<1>4. \A f \in Fields : entry[r][f] = goal[f]
  BY <1>1, <1>2 DEF GoalSound, Toward
<1>5. entry[r] = goal
  BY <1>2, <1>3, <1>4
<1> QED
  BY <1>1, <1>2, <1>5

LEMMA FreeOf ==
    ASSUME NEW r \in Entries, Unlocked(RegistryOf(r))
    PROVE  \A q \in Entries : RegistryOf(q) = RegistryOf(r) => ~BeingWritten(q)
BY KindsOf DEF Unlocked, BeingWritten, Unheld

\* What is kept of a record nothing is done with.
LEMMA GoalKept ==
    ASSUME RegTypes, NEW r \in Entries, NEW goal, GoalSound(r, goal),
           LeftOf(r)' = LeftOf(r), entry'[r] = entry[r], StatusDue(r, goal.status)',
           r \in RunIds => nextSeq'[r] = nextSeq[r]
    PROVE  GoalSound(r, goal)'
BY DEF GoalSound, Toward, EntrySound, Settled

LEMMA RegInit == RegistriesInit => RegInv
<1> SUFFICES ASSUME RegistriesInit PROVE RegInv
  OBVIOUS
<1>1. NewEntry \in [Fields -> FieldValues] /\ NewEntry.status = "created" /\ NewEntry.count = 0
      /\ NewEntry.summary = [count |-> 0, status |-> "none"]
  <2>1. NewEntry.status = "created" /\ NewEntry.ended = FALSE /\ NewEntry.count = 0 /\ NewEntry.error = FALSE
        /\ NewEntry.summary = [count |-> 0, status |-> "none"] /\ DOMAIN NewEntry = Fields
    BY DEF NewEntry, Fields
  <2>2. "created" \in FieldValues /\ FALSE \in FieldValues /\ 0 \in FieldValues
    BY DEF FieldValues, RunStatuses
  <2>3. [count |-> 0, status |-> "none"] \in FieldValues
    BY DEF FieldValues, Summaries
  <2>4. \A f \in Fields : NewEntry[f] \in FieldValues
    BY <2>1, <2>2, <2>3 DEF Fields
  <2>5. NewEntry = [f \in Fields |-> NewEntry[f]]
    BY DEF NewEntry, Fields
  <2> QED
    BY <2>1, <2>4, <2>5
<1>2. RegTypes
  BY <1>1 DEF RegistriesInit, RegTypes
<1>3. GoalInv
  <2> SUFFICES ASSUME NEW r \in Entries PROVE GoalSound(r, NewEntry)
    BY <1>1 DEF GoalInv
  <2>1. entry[r] = NewEntry /\ ~BeingWritten(r) /\ user[r] \in {"away", "new"} /\ r \notin known
        /\ (r \in RunIds => nextSeq[r] = 0)
    BY KindsOf DEF RegistriesInit, BeingWritten, Unheld
  <2>2. Toward(r, NewEntry)
    BY <2>1, WrittenOnes DEF Toward, LeftOf
  <2>3. EntrySound(r, NewEntry)
    BY <1>1 DEF EntrySound, StatusesOf, RunStatuses, WorkStatuses, Terminal
  <2>4. StatusDue(r, "created")
    BY <2>1 DEF StatusDue
  <2> QED
    BY <1>1, <2>1, <2>2, <2>3, <2>4 DEF GoalSound
<1>4. RecentInv /\ EmptyInv /\ SweepInv
  BY DEF RegistriesInit, RecentInv, EmptyInv, SweepInv, NoSweep
<1>5. AnswerInv
  <2>1. answer = [of |-> "none", fetched |-> FALSE, events |-> <<>>, got |-> <<>>, torn |-> FALSE]
    BY DEF RegistriesInit, NoAnswer, Question
  <2>2. answer.of = "none" /\ answer.fetched = FALSE /\ answer.events = <<>> /\ answer.got = <<>>
        /\ answer.torn = FALSE
    BY <2>1
  <2>3. <<>> \in Seq(FieldValues) /\ <<>> \in Seq(Nat) /\ FALSE \in BOOLEAN
    OBVIOUS
  <2>4. answer \in Answers
    BY <2>1, <2>3 DEF Answers
  <2> QED
    BY <2>2, <2>4, KindsOf DEF AnswerInv
<1> QED
  BY <1>2, <1>3, <1>4, <1>5 DEF RegInv

LEMMA FrameReg ==
    ASSUME RegInv, UNCHANGED <<entry, known, recent, nextSeq, writing, user>>
    PROVE  RegTypes' /\ GoalInv' /\ RecentInv' /\ EmptyInv'
<1>1. RegTypes' /\ RecentInv' /\ EmptyInv'
  BY DEF RegInv, RegTypes, RecentInv, EmptyInv
<1>2. ASSUME NEW r \in Entries PROVE \E goal \in [Fields -> FieldValues] : GoalSound(r, goal)'
  <2>1. PICK goal \in [Fields -> FieldValues] : GoalSound(r, goal)
    BY DEF RegInv, GoalInv
  <2>2. LeftOf(r)' = LeftOf(r)
    BY DEF LeftOf, BeingWritten
  <2>3. StatusDue(r, goal.status)'
    BY <2>1 DEF GoalSound, StatusDue
  <2>4. GoalSound(r, goal)'
    BY <2>1, <2>2, <2>3, GoalKept DEF RegInv
  <2> QED
    BY <2>4
<1> QED
  BY <1>1, <1>2 DEF GoalInv

\* The writes of a change of the status.
LEMMA StatusWritten ==
    ASSUME NEW r \in Entries, NEW new \in RunStatuses \cup WorkStatuses, entry[r].count \in Nat
    PROVE  LET s == StatusWrites(r, new) IN
           /\ s \in Seq(FieldWrites) /\ s # <<>>
           /\ \A w : w \in Written(s) <=>
                 \/ w = <<"status", new>>
                 \/ new \in Terminal /\ w = <<"ended", TRUE>>
                 \/ new = "failed" /\ w = <<"error", TRUE>>
                 \/ w = <<"summary", [count |-> entry[r].count, status |-> new]>>
<1> DEFINE w1 == <<"status", new>>
           w2 == <<"ended", TRUE>>
           w3 == <<"error", TRUE>>
           w4 == <<"summary", [count |-> entry[r].count, status |-> new]>>
           over == IF new \in Terminal THEN <<w2>> ELSE <<>>
           error == IF new = "failed" THEN <<w3>> ELSE <<>>
           rest == IF r \in RunIds THEN error \o <<w4>> ELSE <<w4>> \o error
<1>1. w1 \in FieldWrites /\ w2 \in FieldWrites /\ w3 \in FieldWrites /\ w4 \in FieldWrites
  <2>1. new \in FieldValues /\ TRUE \in FieldValues
    BY DEF FieldValues
  <2>2. [count |-> entry[r].count, status |-> new] \in FieldValues
    BY DEF FieldValues, Summaries
  <2>3. {"status", "ended", "error", "summary"} \subseteq Fields
    BY DEF Fields
  <2> QED
    BY <2>1, <2>2, <2>3 DEF FieldWrites
<1>2. StatusWrites(r, new) = <<w1>> \o over \o rest
  BY DEF StatusWrites
<1> HIDE DEF w1, w2, w3, w4
<1>10. /\ \A w \in FieldWrites : <<w>> \in Seq(FieldWrites) /\ Written(<<w>>) = {w}
       /\ <<>> \in Seq(FieldWrites) /\ Written(<<>>) = {}
  <2>1. \A w \in FieldWrites : <<w>> \in Seq(FieldWrites)
    OBVIOUS
  <2>2. <<>> \in Seq(FieldWrites)
    OBVIOUS
  <2> QED
    BY <2>1, <2>2, WrittenOnes
<1>11. \A s, t \in Seq(FieldWrites) : s \o t \in Seq(FieldWrites) /\ Written(s \o t) = Written(s) \cup Written(t)
  <2>1. \A s, t \in Seq(FieldWrites) : s \o t \in Seq(FieldWrites)
    OBVIOUS
  <2> QED
    BY <2>1, WrittenJoined
<1> HIDE DEF over, error
<1>3. over \in Seq(FieldWrites) /\ Written(over) = IF new \in Terminal THEN {w2} ELSE {}
  <2>1. CASE new \in Terminal
    <3>1. over = <<w2>>
      BY <2>1 DEF over
    <3> QED
      BY <1>1, <1>10, <2>1, <3>1
  <2>2. CASE new \notin Terminal
    <3>1. over = <<>>
      BY <2>2 DEF over
    <3> QED
      BY <1>10, <2>2, <3>1
  <2> QED
    BY <2>1, <2>2
<1>4. error \in Seq(FieldWrites) /\ Written(error) = IF new = "failed" THEN {w3} ELSE {}
  <2>1. CASE new = "failed"
    <3>1. error = <<w3>>
      BY <2>1 DEF error
    <3> QED
      BY <1>1, <1>10, <2>1, <3>1
  <2>2. CASE new # "failed"
    <3>1. error = <<>>
      BY <2>2 DEF error
    <3> QED
      BY <1>10, <2>2, <3>1
  <2> QED
    BY <2>1, <2>2
<1>5. <<w4>> \in Seq(FieldWrites) /\ Written(<<w4>>) = {w4} /\ <<w1>> \in Seq(FieldWrites)
      /\ Written(<<w1>>) = {w1}
  BY <1>1, <1>10
<1>6. rest \in Seq(FieldWrites) /\ Written(rest) = {w4} \cup Written(error)
  <2>1. CASE r \in RunIds
    <3>1. rest = error \o <<w4>>
      BY <2>1
    <3>2. error \o <<w4>> \in Seq(FieldWrites) /\ Written(error \o <<w4>>) = Written(error) \cup Written(<<w4>>)
      BY <1>4, <1>5, <1>11
    <3> QED
      BY <1>5, <3>1, <3>2
  <2>2. CASE r \notin RunIds
    <3>1. rest = <<w4>> \o error
      BY <2>2
    <3>2. <<w4>> \o error \in Seq(FieldWrites) /\ Written(<<w4>> \o error) = Written(<<w4>>) \cup Written(error)
      BY <1>4, <1>5, <1>11
    <3> QED
      BY <1>5, <3>1, <3>2
  <2> QED
    BY <2>1, <2>2
<1> HIDE DEF rest
<1>7. <<w1>> \o over \in Seq(FieldWrites) /\ Written(<<w1>> \o over) = Written(<<w1>>) \cup Written(over)
  BY <1>3, <1>5, <1>11
<1>12. (<<w1>> \o over) \o rest \in Seq(FieldWrites)
       /\ Written((<<w1>> \o over) \o rest) = Written(<<w1>> \o over) \cup Written(rest)
  BY <1>6, <1>7, <1>11
<1>8. StatusWrites(r, new) \in Seq(FieldWrites)
      /\ Written(StatusWrites(r, new)) = {w1} \cup Written(over) \cup {w4} \cup Written(error)
  BY <1>2, <1>5, <1>6, <1>7, <1>12
<1>9. StatusWrites(r, new) # <<>>
  BY <1>8, WrittenOnes
<1> QED
  BY <1>3, <1>4, <1>8, <1>9 DEF w1, w2, w3, w4

\* The lock of a registry is taken for a change of record r.
LEMMA TakeLock ==
    ASSUME RegTypes, NEW r \in known, Unlocked(RegistryOf(r)),
           NEW left \in Seq(FieldWrites), left # <<>>, Holds(r, left)
    PROVE  /\ LeftOf(r)' = left /\ \A q \in Entries \ {r} : LeftOf(q)' = LeftOf(q)
           /\ DOMAIN writing' = {"probes", "jobs"}
           /\ \A k \in {"probes", "jobs"} :
                  \/ writing'[k] = Unheld
                  \/ /\ writing'[k] \in [of : known, left : Seq(FieldWrites)]
                     /\ RegistryOf(writing'[k].of) = k /\ writing'[k].left # <<>>
<1> DEFINE k == RegistryOf(r)
<1>1. k \in {"probes", "jobs"} /\ r \in Entries
  BY KindsOf DEF RegTypes
<1>2. writing' = [writing EXCEPT ![k] = [of |-> r, left |-> left]]
  BY DEF Holds
<1>3. writing'[k] = [of |-> r, left |-> left] /\ \A j \in {"probes", "jobs"} \ {k} : writing'[j] = writing[j]
      /\ DOMAIN writing' = {"probes", "jobs"}
  BY <1>1, <1>2 DEF RegTypes
<1>4. LeftOf(r)' = left
  BY <1>3 DEF LeftOf, BeingWritten
<1>5. ASSUME NEW q \in Entries \ {r} PROVE LeftOf(q)' = LeftOf(q)
  <2>1. CASE RegistryOf(q) = k
    <3>1. ~BeingWritten(q)
      BY <1>1, <2>1, FreeOf
    <3>2. writing'[RegistryOf(q)].of # q
      BY <1>3, <2>1
    <3> QED
      BY <3>1, <3>2 DEF LeftOf, BeingWritten
  <2>2. CASE RegistryOf(q) # k
    <3>1. writing'[RegistryOf(q)] = writing[RegistryOf(q)]
      BY <1>3, <2>2, KindsOf
    <3> QED
      BY <3>1 DEF LeftOf, BeingWritten
  <2> QED
    BY <2>1, <2>2
<1>6. [of |-> r, left |-> left] \in [of : known, left : Seq(FieldWrites)]
  OBVIOUS
<1> QED
  BY <1>3, <1>4, <1>5, <1>6 DEF RegTypes

LEMMA SetStatusSound ==
    ASSUME RegInv, NEW r \in Entries, NEW new \in StatusesOf(r), SetStatus(r, new),
           user' \in [Entries -> {"away", "new", "made", "open", "closed"}],
           \A q \in Entries : user'[q] = user[q] \/ (q = r /\ user'[q] \notin {"away", "new"}),
           UNCHANGED <<answer, sweep>>, NEW final, StatusDue(r, final)',
           final = IF r \in known /\ new \in LegalFrom(entry[r].status) THEN new ELSE entry[r].status
    PROVE  RegInv'
<1> USE DEF RegInv
<1>1. UNCHANGED <<entry, known, recent, nextSeq>> /\ Unlocked(RegistryOf(r))
  BY DEF SetStatus
<1>2. SweepInv' /\ AnswerInv' /\ RecentInv' /\ EmptyInv'
  BY <1>1 DEF SweepInv, AnswerInv, RecentInv, EmptyInv, ReadSound
<1>3. ~BeingWritten(r) /\ LeftOf(r) = <<>> /\ GoalSound(r, entry[r]) /\ entry[r] \in [Fields -> FieldValues]
  BY <1>1, FreeOf, StillSound
<1>4. CASE r \in known /\ new \in LegalFrom(entry[r].status)
  <2> DEFINE left == StatusWrites(r, new)
             g0 == [f \in Fields |->
                        CASE f = "status" -> new
                          [] f = "ended" /\ new \in Terminal -> TRUE
                          [] f = "error" /\ new = "failed" -> TRUE
                          [] f = "summary" -> [count |-> entry[r].count, status |-> new]
                          [] OTHER -> entry[r][f]]
  <2>1. entry[r].status \in RunStatuses \cup WorkStatuses /\ entry[r].count \in Nat
        /\ entry[r].status \in StatusesOf(r)
    BY <1>3 DEF GoalSound, EntrySound, StatusesOf
  <2>2. new # "created" /\ new \in RunStatuses \cup WorkStatuses /\ entry[r].status \notin Terminal
    BY <1>4, <2>1, Legality
  <2>3. /\ left \in Seq(FieldWrites) /\ left # <<>>
        /\ \A w : w \in Written(left) <=>
                 \/ w = <<"status", new>>
                 \/ new \in Terminal /\ w = <<"ended", TRUE>>
                 \/ new = "failed" /\ w = <<"error", TRUE>>
                 \/ w = <<"summary", [count |-> entry[r].count, status |-> new]>>
    BY <2>1, <2>2, StatusWritten
  <2>4. Holds(r, left)
    BY <1>4 DEF SetStatus
  <2> HIDE DEF left
  <2>5. /\ LeftOf(r)' = left /\ \A q \in Entries \ {r} : LeftOf(q)' = LeftOf(q)
        /\ DOMAIN writing' = {"probes", "jobs"}
        /\ \A k \in {"probes", "jobs"} :
                  \/ writing'[k] = Unheld
                  \/ /\ writing'[k] \in [of : known, left : Seq(FieldWrites)]
                     /\ RegistryOf(writing'[k].of) = k /\ writing'[k].left # <<>>
    BY <1>1, <1>4, <2>3, <2>4, TakeLock
  <2>6. RegTypes'
    BY <1>1, <2>5 DEF RegTypes
  <2>20. /\ g0.status = new /\ (new \in Terminal => g0.ended = TRUE)
         /\ (new = "failed" => g0.error = TRUE) /\ g0.count = entry[r].count
         /\ g0.summary = [count |-> entry[r].count, status |-> new]
         /\ (new \notin Terminal => g0.ended = entry[r].ended)
         /\ (new # "failed" => g0.error = entry[r].error)
    BY DEF Fields
  <2>21. g0 \in [Fields -> FieldValues]
    <3>1. new \in FieldValues /\ TRUE \in FieldValues /\ [count |-> entry[r].count, status |-> new] \in FieldValues
      BY <2>1, <2>2 DEF FieldValues, Summaries
    <3>2. \A f \in Fields : entry[r][f] \in FieldValues
      BY <1>3
    <3> HIDE DEF g0
    <3>3. \A f \in Fields : g0[f] \in FieldValues
      BY <2>20, <3>1, <3>2 DEF Fields
    <3> QED
      BY <3>3 DEF g0
  <2> HIDE DEF g0
  <2>7. PICK goal \in [Fields -> FieldValues] :
            /\ goal.status = new /\ (new \in Terminal => goal.ended = TRUE)
            /\ (new = "failed" => goal.error = TRUE) /\ goal.count = entry[r].count
            /\ goal.summary = [count |-> entry[r].count, status |-> new]
            /\ (new \notin Terminal => goal.ended = entry[r].ended)
            /\ (new # "failed" => goal.error = entry[r].error)
    BY <2>20, <2>21
  <2>9. Toward(r, goal)'
    <3>1. ASSUME NEW w \in Written(left) PROVE goal[w[1]] = w[2]
      <4>1. CASE w = <<"status", new>>
        BY <2>7, <4>1
      <4>2. CASE new \in Terminal /\ w = <<"ended", TRUE>>
        BY <2>7, <4>2
      <4>3. CASE new = "failed" /\ w = <<"error", TRUE>>
        BY <2>7, <4>3
      <4>4. CASE w = <<"summary", [count |-> entry[r].count, status |-> new]>>
        BY <2>7, <4>4
      <4> QED
        BY <2>3, <4>1, <4>2, <4>3, <4>4
    <3>2. ASSUME NEW f \in Fields PROVE entry[r][f] = goal[f] \/ \E w \in Written(left) : w[1] = f
      <4>1. CASE f = "status"
        <5>1. <<"status", new>> \in Written(left) /\ <<"status", new>>[1] = "status"
          BY <2>3
        <5> QED
          BY <4>1, <5>1
      <4>2. CASE f = "ended"
        <5>1. new \in Terminal => <<"ended", TRUE>> \in Written(left) /\ <<"ended", TRUE>>[1] = "ended"
          BY <2>3
        <5> QED
          BY <2>7, <4>2, <5>1
      <4>3. CASE f = "count"
        BY <2>7, <4>3
      <4>4. CASE f = "error"
        <5>1. new = "failed" => <<"error", TRUE>> \in Written(left) /\ <<"error", TRUE>>[1] = "error"
          BY <2>3
        <5> QED
          BY <2>7, <4>4, <5>1
      <4>5. CASE f = "summary"
        <5> DEFINE w == <<"summary", [count |-> entry[r].count, status |-> new]>>
        <5>1. w \in Written(left) /\ w[1] = "summary"
          BY <2>3
        <5> QED
          BY <4>5, <5>1
      <4> QED
        BY <4>1, <4>2, <4>3, <4>4, <4>5 DEF Fields
    <3> QED
      BY <1>1, <2>5, <3>1, <3>2 DEF Toward
  <2>10. EntrySound(r, goal)
    BY <2>1, <2>2, <2>7 DEF EntrySound, Settled
  <2>11. StatusDue(r, goal.status)'
    BY <1>4, <2>7
  <2>12. GoalSound(r, goal)'
    <3>1. r \in RunIds => goal.count = nextSeq'[r]
      BY <1>1, <1>3, <2>7 DEF GoalSound
    <3>2. entry'[r].count <= goal.count /\ entry'[r].count \in Nat
      BY <1>1, <2>1, <2>7
    <3>3. goal.status \in LegalFrom(entry'[r].status)
      BY <1>1, <1>4, <2>7
    <3>4. EntrySound(r, goal)'
      BY <2>10 DEF EntrySound
    <3> QED
      BY <2>9, <2>11, <3>1, <3>2, <3>3, <3>4 DEF GoalSound
  <2>13. ASSUME NEW q \in Entries \ {r} PROVE \E g \in [Fields -> FieldValues] : GoalSound(q, g)'
    <3>1. PICK g \in [Fields -> FieldValues] : GoalSound(q, g)
      BY DEF GoalInv
    <3>2. StatusDue(q, g.status)'
      BY <1>1, <3>1 DEF GoalSound, StatusDue
    <3>3. GoalSound(q, g)'
      BY <1>1, <2>5, <3>1, <3>2, GoalKept
    <3> QED
      BY <3>3
  <2>14. GoalInv'
    BY <2>12, <2>13 DEF GoalInv
  <2> QED
    BY <1>2, <2>6, <2>14
<1>5. CASE ~(r \in known /\ new \in LegalFrom(entry[r].status))
  <2>1. UNCHANGED writing
    BY <1>5 DEF SetStatus
  <2>2. \A q \in Entries : LeftOf(q)' = LeftOf(q)
    BY <2>1 DEF LeftOf, BeingWritten
  <2>3. RegTypes'
    BY <1>1, <2>1 DEF RegTypes
  <2>4. GoalSound(r, entry[r])'
    <3>1. final = entry[r].status /\ entry'[r].status = entry[r].status
      BY <1>1, <1>5
    <3>2. StatusDue(r, entry[r].status)'
      BY <3>1
    <3> QED
      BY <1>1, <1>3, <2>2, <3>2, GoalKept DEF GoalSound, Toward, EntrySound
  <2>5. ASSUME NEW q \in Entries \ {r} PROVE \E g \in [Fields -> FieldValues] : GoalSound(q, g)'
    <3>1. PICK g \in [Fields -> FieldValues] : GoalSound(q, g)
      BY DEF GoalInv
    <3>2. StatusDue(q, g.status)'
      BY <1>1, <3>1 DEF GoalSound, StatusDue
    <3>3. GoalSound(q, g)'
      BY <1>1, <2>2, <3>1, <3>2, GoalKept
    <3> QED
      BY <3>3
  <2>6. GoalInv'
    <3>1. entry'[r] \in [Fields -> FieldValues]
      BY <1>1, <1>3
    <3>2. \E g \in [Fields -> FieldValues] : GoalSound(r, g)'
      BY <1>1, <1>3, <2>4
    <3> QED
      BY <2>5, <3>2 DEF GoalInv
  <2> QED
    BY <1>2, <2>3, <2>6
<1> QED
  BY <1>4, <1>5

LEMMA WriteSound == ASSUME RegInv, NEW k \in {"probes", "jobs"}, Write(k) PROVE RegInv'
<1> USE DEF RegInv
<1>0. writing[k] # Unheld
  BY DEF Write, Unlocked
<1>1. PICK r \in known, left \in Seq(FieldWrites) :
          writing[k] = [of |-> r, left |-> left] /\ left # <<>> /\ RegistryOf(r) = k /\ r \in Entries
  BY <1>0 DEF RegTypes
<1>3. PICK w \in FieldWrites, rest \in Seq(FieldWrites) :
          /\ w = Head(left) /\ rest = Tail(left) /\ Written(left) = {w} \cup Written(rest)
          /\ Written(left) \subseteq FieldWrites
  BY <1>1, WrittenHead
<1>2. /\ entry' = [entry EXCEPT ![r][w[1]] = w[2]]
      /\ writing' = [writing EXCEPT ![k] = IF rest = <<>> THEN Unheld ELSE [of |-> r, left |-> rest]]
      /\ UNCHANGED <<known, recent, nextSeq, user, answer, sweep>>
  BY <1>1, <1>3 DEF Write
<1>4. BeingWritten(r) /\ LeftOf(r) = left
  BY <1>1 DEF BeingWritten, LeftOf
<1>5. /\ w[1] \in Fields /\ w[2] \in FieldValues
  BY <1>3 DEF FieldWrites
<1>6. /\ entry' \in [Entries -> [Fields -> FieldValues]]
      /\ \A q \in Entries \ {r} : entry'[q] = entry[q]
      /\ \A f \in Fields : entry'[r][f] = IF f = w[1] THEN w[2] ELSE entry[r][f]
  <2>1. entry[r] \in [Fields -> FieldValues]
    BY <1>1 DEF RegTypes
  <2>2. entry'[r] = [entry[r] EXCEPT ![w[1]] = w[2]]
    BY <1>1, <1>2 DEF RegTypes
  <2>3. [entry[r] EXCEPT ![w[1]] = w[2]] \in [Fields -> FieldValues]
    BY <1>5, <2>1
  <2>4. \A f \in Fields : [entry[r] EXCEPT ![w[1]] = w[2]][f] = IF f = w[1] THEN w[2] ELSE entry[r][f]
    BY <1>5, <2>1
  <2>5. entry' = [entry EXCEPT ![r] = [entry[r] EXCEPT ![w[1]] = w[2]]]
    BY <1>2
  <2>6. \A q \in Entries \ {r} : entry'[q] = entry[q]
    BY <2>5 DEF RegTypes
  <2>7. entry' \in [Entries -> [Fields -> FieldValues]]
    BY <2>3, <2>5 DEF RegTypes
  <2> QED
    BY <2>2, <2>4, <2>6, <2>7
<1>7. /\ DOMAIN writing' = {"probes", "jobs"}
      /\ writing'[k] = IF rest = <<>> THEN Unheld ELSE [of |-> r, left |-> rest]
      /\ \A j \in {"probes", "jobs"} \ {k} : writing'[j] = writing[j]
  BY <1>2 DEF RegTypes
<1>8. RegTypes'
  <2>1. rest # <<>> => [of |-> r, left |-> rest] \in [of : known, left : Seq(FieldWrites)]
    BY <1>1, <1>3
  <2> HIDE DEF RegInv
  <2>2. ASSUME NEW j \in {"probes", "jobs"}
        PROVE  \/ writing'[j] = Unheld
               \/ /\ writing'[j] \in [of : known, left : Seq(FieldWrites)]
                  /\ RegistryOf(writing'[j].of) = j /\ writing'[j].left # <<>>
    <3>1. CASE j = k
      <4>1. CASE rest = <<>>
        BY <1>7, <3>1, <4>1
      <4>2. CASE rest # <<>>
        <5>1. writing'[j] = [of |-> r, left |-> rest]
          BY <1>7, <3>1, <4>2
        <5> QED
          BY <1>1, <2>1, <3>1, <4>2, <5>1
      <4> QED
        BY <4>1, <4>2
    <3>2. CASE j # k
      BY <1>7, <3>2 DEF RegTypes, RegInv
    <3> QED
      BY <3>1, <3>2
  <2> QED
    BY <1>2, <1>6, <1>7, <2>2 DEF RegTypes, RegInv
<1>9. LeftOf(r)' = rest /\ \A q \in Entries \ {r} : LeftOf(q)' = LeftOf(q)
  <2>1. LeftOf(r)' = rest
    <3>1. CASE rest = <<>>
      <4>1. writing'[RegistryOf(r)].of = "none" /\ r # "none"
        BY <1>1, <1>7, <3>1, KindsOf DEF Unheld
      <4> QED
        BY <3>1, <4>1 DEF LeftOf, BeingWritten
    <3>2. CASE rest # <<>>
      <4>1. writing'[RegistryOf(r)] = [of |-> r, left |-> rest]
        BY <1>1, <1>7, <3>2
      <4> QED
        BY <4>1 DEF LeftOf, BeingWritten
    <3> QED
      BY <3>1, <3>2
  <2>2. ASSUME NEW q \in Entries \ {r} PROVE LeftOf(q)' = LeftOf(q)
    <3>1. CASE RegistryOf(q) = k
      <4>1. writing[k].of # q /\ writing'[k].of # q
        BY <1>1, <1>7, KindsOf DEF Unheld
      <4> QED
        BY <3>1, <4>1 DEF LeftOf, BeingWritten
    <3>2. CASE RegistryOf(q) # k
      <4>1. writing'[RegistryOf(q)] = writing[RegistryOf(q)]
        BY <1>7, <3>2, KindsOf
      <4> QED
        BY <4>1 DEF LeftOf, BeingWritten
    <3> QED
      BY <3>1, <3>2
  <2> QED
    BY <2>1, <2>2
<1>10. PICK goal \in [Fields -> FieldValues] : GoalSound(r, goal)
  BY <1>1 DEF GoalInv
<1>11. goal[w[1]] = w[2] /\ \A v \in Written(rest) : goal[v[1]] = v[2]
  BY <1>3, <1>4, <1>10 DEF GoalSound, Toward
<1>12. \A f \in Fields : entry'[r][f] = IF f = w[1] THEN goal[f] ELSE entry[r][f]
  BY <1>6, <1>11
<1>13. entry'[r].status \in {entry[r].status, goal.status} /\ entry'[r].count \in {entry[r].count, goal.count}
       /\ entry'[r].ended \in {entry[r].ended, goal.ended} /\ entry'[r].error \in {entry[r].error, goal.error}
       /\ entry'[r].summary \in {entry[r].summary, goal.summary}
  BY <1>12 DEF Fields
<1>14. /\ EntrySound(r, goal) /\ StatusDue(r, goal.status) /\ goal.count \in Nat
       /\ entry[r].count \in Nat /\ entry[r].count <= goal.count
       /\ entry[r].status = goal.status \/ goal.status \in LegalFrom(entry[r].status)
       /\ (r \in RunIds => goal.count = nextSeq[r])
  BY <1>10 DEF GoalSound, EntrySound
<1>15. GoalSound(r, goal)'
  <2>1. ASSUME NEW f \in Fields PROVE entry'[r][f] = goal[f] \/ \E v \in Written(rest) : v[1] = f
    BY <1>3, <1>4, <1>10, <1>12 DEF GoalSound, Toward
  <2>2. Toward(r, goal)'
    BY <1>9, <1>11, <2>1 DEF Toward
  <2>3. entry'[r].count \in Nat /\ entry'[r].count <= goal.count
    BY <1>13, <1>14
  <2>4. entry'[r].status = goal.status \/ goal.status \in LegalFrom(entry'[r].status)
    BY <1>13, <1>14
  <2>5. StatusDue(r, goal.status)'
    BY <1>2, <1>14 DEF StatusDue
  <2>6. EntrySound(r, goal)'
    BY <1>14
  <2> QED
    BY <1>2, <1>14, <2>2, <2>3, <2>4, <2>5, <2>6 DEF GoalSound
<1>16. ASSUME NEW q \in Entries \ {r} PROVE \E g \in [Fields -> FieldValues] : GoalSound(q, g)'
  <2>1. PICK g \in [Fields -> FieldValues] : GoalSound(q, g)
    BY DEF GoalInv
  <2>2. StatusDue(q, g.status)'
    BY <1>2, <2>1 DEF GoalSound, StatusDue
  <2>3. GoalSound(q, g)'
    BY <1>2, <1>6, <1>9, <2>1, <2>2, GoalKept
  <2> QED
    BY <2>3
<1>17. GoalInv'
  BY <1>15, <1>16 DEF GoalInv
<1>18. RecentInv' /\ EmptyInv'
  BY <1>2 DEF RecentInv, EmptyInv
\* What is over stays over, and counts only grow.
<1>19. ASSUME NEW q \in Entries, entry[q].status \in Terminal PROVE entry'[q].status = entry[q].status
  <2>1. CASE q = r
    <3>1. goal.status = entry[r].status
      BY <1>14, <1>19, <2>1, OverStaysOver
    <3> QED
      BY <1>13, <2>1, <3>1
  <2> QED
    BY <1>6, <2>1
<1>20. ASSUME NEW q \in Entries, NEW status \in Terminal, Settled(entry[q], status) PROVE Settled(entry'[q], status)
  <2>1. CASE q = r
    <3>1. goal.status = status
      BY <1>14, <1>20, <2>1, OverStaysOver DEF Settled
    <3>2. Settled(goal, status)
      BY <1>14, <3>1 DEF EntrySound
    <3> QED
      BY <1>13, <1>20, <2>1, <3>2 DEF Settled
  <2> QED
    BY <1>6, <1>20, <2>1
<1>21. ASSUME NEW q \in Entries
       PROVE  entry[q].count \in Nat /\ entry'[q].count \in Nat /\ entry[q].count <= entry'[q].count
  <2>1. CASE q = r
    BY <1>13, <1>14, <2>1
  <2>2. CASE q # r
    <3>1. entry'[q] = entry[q] /\ entry[q].count \in Nat
      BY <1>6, <2>2 DEF GoalInv, GoalSound
    <3> QED
      BY <3>1
  <2> QED
    BY <2>1, <2>2
<1>22. SweepInv'
  <2>1. \A q \in sweep.chosen : q \in Entries
    BY DEF SweepInv, Entries
  <2> QED
    BY <1>2, <1>19, <2>1 DEF SweepInv
<1>23. AnswerInv'
  <2>1. ASSUME NEW a \in Answers, a.of \in Entries, ReadSound(a.of, entry[a.of], a.got, a.torn, a.events)
        PROVE  ReadSound(a.of, entry[a.of], a.got, a.torn, a.events)'
    <3> DEFINE q == a.of
               got == a.got
               evs == a.events
               old == entry[q]
               new == entry'[q]
    <3>1. /\ old.count \in Nat /\ new.count \in Nat /\ old.count <= new.count
          /\ \A status \in Terminal : Settled(old, status) => Settled(new, status)
      BY <1>20, <1>21, <2>1
    <3>2. evs \in Seq(Nat)
      BY DEF Answers
    <3>3. evs # <<>> => Last(evs) \in Nat
      BY <3>2 DEF Last
    <3>4. evs # <<>> => q \in RunIds /\ Last(evs) < new.count
      <4>1. evs # <<>> => q \in RunIds /\ Last(evs) < old.count
        BY <2>1 DEF ReadSound
      <4> HIDE DEF q, evs, old, new
      <4> QED
        BY <3>1, <3>3, <4>1
    <3>5. ASSUME q \in RunIds, Len(got) > 2
          PROVE  got[3] \in Nat /\ got[3] <= new.count /\ (evs # <<>> => Last(evs) < got[3])
      <4>1. got[3] \in Nat /\ got[3] <= old.count /\ (evs # <<>> => Last(evs) < got[3])
        BY <2>1, <3>5 DEF ReadSound
      <4>2. \A x, y, z \in Nat : x <= y /\ y <= z => x <= z
        OBVIOUS
      <4> HIDE DEF q, evs, old, new, got
      <4> QED
        BY <3>1, <4>1, <4>2
    <3>6. Len(got) > 0 /\ got[1] \in Terminal /\ ~a.torn => Settled(new, got[1])
      BY <2>1, <3>1 DEF ReadSound
    <3> HIDE DEF q, got, evs, new
    <3>7. ReadSound(q, entry[q], got, a.torn, evs)
      BY <2>1 DEF q, got, evs
    <3>8. ReadSound(q, entry[q], got, a.torn, evs)'
      <4>1. (entry[q])' = new
        BY DEF new
      <4> QED
        BY <3>4, <3>5, <3>6, <3>7, <4>1 DEF ReadSound
    <3> QED
      BY <3>8 DEF q, got, evs
  <2>2. PICK a \in Answers : a = answer /\ a = answer'
    BY <1>2 DEF AnswerInv
  <2>3. a.of \in Entries => ReadSound(a.of, entry[a.of], a.got, a.torn, a.events)
    BY <2>2 DEF AnswerInv
  <2>4. a.of \in Entries => ReadSound(a.of, entry[a.of], a.got, a.torn, a.events)'
    BY <2>1, <2>3
  <2> QED
    BY <2>2, <2>4 DEF AnswerInv
<1> QED
  BY <1>8, <1>17, <1>18, <1>22, <1>23

LEMMA EventSound == ASSUME RegInv, NEW r \in RunIds, RecordRunEvent(r) PROVE RegInv'
<1> USE DEF RegInv
<1>1. /\ r \in Entries /\ r \in known /\ user[r] \in {"open", "closed"} /\ RegistryOf(r) = "probes"
      /\ Unlocked(RegistryOf(r))
      /\ nextSeq' = [nextSeq EXCEPT ![r] = @ + 1]
      /\ UNCHANGED <<entry, known, user, answer, sweep>>
  BY DEF RecordRunEvent, Entries, RegistryOf
<1>2. ~BeingWritten(r) /\ LeftOf(r) = <<>> /\ GoalSound(r, entry[r]) /\ entry[r] \in [Fields -> FieldValues]
  BY <1>1, FreeOf, StillSound
<1>3. /\ entry[r].count = nextSeq[r] /\ nextSeq[r] \in Nat /\ EntrySound(r, entry[r])
      /\ StatusDue(r, entry[r].status)
  BY <1>2 DEF GoalSound, EntrySound, RegTypes
<1>4. PICK c \in Nat, summary \in Summaries, status \in RunStatuses, old \in [Fields -> FieldValues] :
          /\ c = nextSeq[r] + 1 /\ status = entry[r].status /\ summary = [count |-> c, status |-> status]
          /\ old = entry[r]
  <2>1. entry[r].status \in RunStatuses
    BY <1>3 DEF EntrySound, StatusesOf
  <2>2. [count |-> nextSeq[r] + 1, status |-> entry[r].status] \in Summaries
    BY <1>3, <2>1 DEF Summaries
  <2> QED
    BY <1>2, <1>3, <2>1, <2>2
<1> DEFINE w1 == <<"count", c>>
           w2 == <<"summary", summary>>
           left == <<w1, w2>>
           goal == [old EXCEPT !.count = c, !.summary = summary]
<1>5. Holds(r, left)
  BY <1>3, <1>4 DEF RecordRunEvent
<1>6. left \in Seq(FieldWrites) /\ left # <<>> /\ Written(left) = {w1, w2}
  <2>1. w1 \in FieldWrites /\ w2 \in FieldWrites
    BY DEF FieldWrites, Fields, FieldValues
  <2> HIDE DEF w1, w2
  <2>2. left \in Seq(FieldWrites) /\ left # <<>> /\ Len(left) = 2 /\ left[1] = w1 /\ left[2] = w2
    BY <2>1
  <2>3. 1..2 = {1, 2}
    OBVIOUS
  <2> HIDE DEF left
  <2> QED
    BY <2>2, <2>3 DEF Written
<1>7. /\ LeftOf(r)' = left /\ \A q \in Entries \ {r} : LeftOf(q)' = LeftOf(q)
      /\ DOMAIN writing' = {"probes", "jobs"}
      /\ \A k \in {"probes", "jobs"} :
                \/ writing'[k] = Unheld
                \/ /\ writing'[k] \in [of : known, left : Seq(FieldWrites)]
                   /\ RegistryOf(writing'[k].of) = k /\ writing'[k].left # <<>>
  <2> HIDE DEF left
  <2> QED
    BY <1>1, <1>5, <1>6, TakeLock
<1>8. PICK all \in Seq(Nat) : all = Append(recent[r], nextSeq[r]) /\ all # <<>>
  <2>1. recent[r] \in Seq(Nat)
    BY DEF RegTypes
  <2>2. Append(recent[r], nextSeq[r]) \in Seq(Nat) /\ Append(recent[r], nextSeq[r]) # <<>>
    BY <1>3, <2>1
  <2> QED
    BY <2>2
<1>9. recent' = [recent EXCEPT ![r] = IF Len(all) > RecentLimit THEN Tail(all) ELSE all]
  BY <1>8 DEF RecordRunEvent
<1>10. RegTypes'
  <2>1. Tail(all) \in Seq(Nat)
    BY <1>8
  <2>2. recent' \in [RunIds -> Seq(Nat)]
    BY <1>9, <2>1 DEF RegTypes
  <2>3. nextSeq' \in [RunIds -> Nat]
    BY <1>1 DEF RegTypes
  <2>4. \A q \in Entries : user'[q] \in {"away", "new"} => q \notin known' /\ (q \in RunIds => nextSeq'[q] = 0)
    BY <1>1 DEF RegTypes
  <2> QED
    BY <1>1, <1>7, <2>2, <2>3, <2>4 DEF RegTypes
<1>11. /\ goal \in [Fields -> FieldValues] /\ goal.count = c /\ goal.summary = summary
       /\ goal.status = status /\ goal.ended = old.ended /\ goal.error = old.error
  <2>1. c \in FieldValues /\ summary \in FieldValues
    BY DEF FieldValues
  <2> QED
    BY <1>4, <2>1 DEF Fields
<1>12. summary.count = c /\ summary.status = status
  BY <1>4
<1>13. Toward(r, goal)'
  <2>1. ASSUME NEW w \in Written(left) PROVE goal[w[1]] = w[2]
    <3> HIDE DEF goal
    <3>1. CASE w = w1
      BY <1>11, <3>1
    <3>2. CASE w = w2
      BY <1>11, <3>2
    <3> HIDE DEF w1, w2, left
    <3> QED
      BY <1>6, <3>1, <3>2
  <2>2. ASSUME NEW f \in Fields PROVE old[f] = goal[f] \/ \E w \in Written(left) : w[1] = f
    <3>1. w1[1] = "count" /\ w2[1] = "summary"
      OBVIOUS
    <3>2. f \notin {"count", "summary"} => old[f] = goal[f]
      BY <1>4, <1>11 DEF Fields
    <3> QED
      BY <1>6, <3>1, <3>2
  <2> HIDE DEF goal, left
  <2> QED
    BY <1>1, <1>4, <1>7, <2>1, <2>2 DEF Toward
<1> HIDE DEF goal
<1>14. EntrySound(r, goal)
  <2>1. status \in Terminal => old.ended = TRUE /\ (status = "failed" => old.error = TRUE)
    BY <1>3, <1>4 DEF EntrySound, Settled
  <2>2. status \in StatusesOf(r)
    BY <1>3, <1>4 DEF EntrySound
  <2> QED
    BY <1>11, <1>12, <2>1, <2>2 DEF EntrySound, Settled
<1>15. GoalSound(r, goal)'
  <2>1. StatusDue(r, goal.status)'
    BY <1>1, <1>3, <1>4, <1>11 DEF StatusDue
  <2>2. nextSeq'[r] = c /\ entry'[r].count \in Nat /\ entry'[r].count <= c
    BY <1>1, <1>3, <1>4 DEF RegTypes
  <2>3. entry'[r].status = goal.status
    BY <1>1, <1>4, <1>11
  <2>4. EntrySound(r, goal)'
    BY <1>14
  <2> QED
    BY <1>11, <1>13, <2>1, <2>2, <2>3, <2>4 DEF GoalSound
<1>16. ASSUME NEW q \in Entries \ {r} PROVE \E g \in [Fields -> FieldValues] : GoalSound(q, g)'
  <2>1. PICK g \in [Fields -> FieldValues] : GoalSound(q, g)
    BY DEF GoalInv
  <2>2. StatusDue(q, g.status)'
    BY <1>1, <2>1 DEF GoalSound, StatusDue
  <2>3. q \in RunIds => nextSeq'[q] = nextSeq[q]
    BY <1>1 DEF RegTypes
  <2>4. GoalSound(q, g)'
    BY <1>1, <1>7, <2>1, <2>2, <2>3, GoalKept
  <2> QED
    BY <2>4
<1>17. GoalInv'
  <2>1. \E g \in [Fields -> FieldValues] : GoalSound(r, g)'
    BY <1>11, <1>15 DEF goal
  <2> QED
    BY <1>16, <2>1 DEF GoalInv
<1>18. RecentInv' /\ EmptyInv'
  <2> DEFINE s == recent[r]
             n == nextSeq[r]
             l == Len(s)
  <2>1. /\ s \in Seq(Nat) /\ l \in Nat /\ n \in Nat
        /\ l = (IF n < RecentLimit THEN n ELSE RecentLimit)
        /\ \A i \in 1..l : s[i] = n - l + i - 1
    BY <1>1 DEF RecentInv, RegTypes
  <2>2. /\ all = Append(s, n) /\ Len(all) = l + 1 /\ all[l + 1] = n /\ \A i \in 1..l : all[i] = s[i]
    BY <1>8, <2>1
  <2>3. /\ recent'[r] = IF Len(all) > RecentLimit THEN Tail(all) ELSE all
        /\ \A q \in RunIds \ {r} : recent'[q] = recent[q] /\ nextSeq'[q] = nextSeq[q]
        /\ nextSeq'[r] = n + 1
    BY <1>1, <1>9 DEF RegTypes
  <2> HIDE DEF s, n, l
  <2>4. RecentLimit \in Nat \ {0}
    BY RegistriesAssumption
  <2>5. \A i \in 1..l + 1 : all[i] = n - l + i - 1
    <3> SUFFICES ASSUME NEW i \in 1..l + 1 PROVE all[i] = n - l + i - 1
      OBVIOUS
    <3>1. CASE i = l + 1
      <4>1. all[i] = n
        BY <2>2, <3>1
      <4>2. n - l + (l + 1) - 1 = n
        BY <2>1
      <4> QED
        BY <3>1, <4>1, <4>2
    <3>2. CASE i # l + 1
      <4>1. i \in 1..l
        BY <2>1, <3>2
      <4> QED
        BY <2>1, <2>2, <4>1
    <3> QED
      BY <3>1, <3>2
  <2>6. /\ Len(recent'[r]) = (IF n + 1 < RecentLimit THEN n + 1 ELSE RecentLimit)
        /\ \A i \in 1..Len(recent'[r]) : recent'[r][i] = (n + 1) - Len(recent'[r]) + i - 1
    <3>1. CASE l + 1 > RecentLimit
      <4>1. recent'[r] = Tail(all) /\ l = RecentLimit /\ l > 0 /\ ~(n < RecentLimit)
        BY <2>1, <2>2, <2>3, <2>4, <3>1
      <4>2. Len(Tail(all)) = l /\ \A i \in 1..l : Tail(all)[i] = all[i + 1]
        <5>1. Len(Tail(all)) = Len(all) - 1 /\ \A i \in 1..Len(all) - 1 : Tail(all)[i] = all[i + 1]
          <6>1. /\ Len(Tail(all)) = Len(all) - 1
                /\ \A i \in 1..Len(Tail(all)) : Tail(all)[i] = all[i + 1]
            BY <1>8, HeadTailProperties, Zenon
          <6> QED
            BY <6>1, Zenon
        <5>2. Len(all) - 1 = l
          BY <2>1, <2>2
        <5> QED
          BY <5>1, <5>2
      <4>3. ASSUME NEW i \in 1..l PROVE Tail(all)[i] = (n + 1) - l + i - 1
        <5>1. i + 1 \in 1..l + 1
          BY <2>1
        <5>2. all[i + 1] = n - l + (i + 1) - 1
          BY <2>5, <5>1
        <5>3. n - l + (i + 1) - 1 = (n + 1) - l + i - 1
          <6>1. n \in Nat /\ l \in Nat /\ i \in Int
            BY <2>1
          <6> QED
            BY <6>1
        <5> QED
          BY <4>2, <5>2, <5>3
      <4>4. ~(n + 1 < RecentLimit)
        BY <2>1, <2>4, <4>1
      <4> QED
        BY <4>1, <4>2, <4>3, <4>4
    <3>2. CASE ~(l + 1 > RecentLimit)
      <4>1. recent'[r] = all /\ Len(all) = l + 1 /\ l = n
        BY <2>1, <2>2, <2>3, <2>4, <3>2
      <4>2. l + 1 = (IF n + 1 < RecentLimit THEN n + 1 ELSE RecentLimit)
        BY <2>1, <2>4, <3>2, <4>1
      <4>3. ASSUME NEW i \in 1..l + 1 PROVE all[i] = (n + 1) - (l + 1) + i - 1
        <5>1. all[i] = n - l + i - 1
          BY <2>5
        <5>2. n - l + i - 1 = (n + 1) - (l + 1) + i - 1
          <6>1. n \in Nat /\ l \in Nat /\ i \in Int
            BY <2>1
          <6> QED
            BY <6>1
        <5> QED
          BY <5>1, <5>2
      <4> QED
        BY <4>1, <4>2, <4>3
    <3> QED
      BY <3>1, <3>2
  <2>7. RecentInv'
    <3> SUFFICES ASSUME NEW q \in RunIds \cap known
                 PROVE  /\ Len(recent'[q]) = (IF nextSeq'[q] < RecentLimit THEN nextSeq'[q] ELSE RecentLimit)
                        /\ \A i \in 1..Len(recent'[q]) : recent'[q][i] = nextSeq'[q] - Len(recent'[q]) + i - 1
      BY <1>1 DEF RecentInv
    <3>1. CASE q = r
      BY <2>3, <2>6, <3>1
    <3>2. CASE q # r
      <4>1. recent'[q] = recent[q] /\ nextSeq'[q] = nextSeq[q]
        BY <2>3, <3>2
      <4> QED
        BY <4>1 DEF RecentInv
    <3> QED
      BY <3>1, <3>2
  <2>8. EmptyInv'
    BY <1>1, <2>3 DEF EmptyInv
  <2> QED
    BY <2>7, <2>8
<1>19. SweepInv' /\ AnswerInv'
  BY <1>1 DEF SweepInv, AnswerInv, ReadSound
<1> QED
  BY <1>10, <1>17, <1>18, <1>19

LEMMA CreateSound == ASSUME RegInv, NEW r \in Entries, CreateRun(r) \/ CreateJob(r) PROVE RegInv'
<1> USE DEF RegInv
<1>1. /\ user[r] = "new" /\ Unlocked(RegistryOf(r)) /\ known' = known \cup {r}
      /\ user' = [user EXCEPT ![r] = "made"] /\ UNCHANGED <<entry, writing, answer, sweep>>
  BY DEF CreateRun, CreateJob, NowKnown
<1>2. /\ recent' \in [RunIds -> Seq(Nat)] /\ nextSeq' = nextSeq
      /\ \A q \in RunIds : recent'[q] = IF q = r THEN <<>> ELSE recent[q]
      /\ r \in RunIds => nextSeq[r] = 0
  <2>1. r \in RunIds => nextSeq[r] = 0
    BY <1>1 DEF RegTypes
  <2>2. CASE CreateRun(r)
    <3>1. /\ recent' = [recent EXCEPT ![r] = <<>>] /\ nextSeq' = [nextSeq EXCEPT ![r] = 0] /\ r \in RunIds
      BY <2>2 DEF CreateRun
    <3>2. <<>> \in Seq(Nat)
      OBVIOUS
    <3>3. nextSeq' = nextSeq
      BY <2>1, <3>1 DEF RegTypes
    <3> QED
      BY <2>1, <3>1, <3>2, <3>3 DEF RegTypes
  <2>3. CASE CreateJob(r)
    <3>1. UNCHANGED <<recent, nextSeq>> /\ r \notin RunIds
      BY <2>3, KindsOf DEF CreateJob
    <3> QED
      BY <2>1, <3>1 DEF RegTypes
  <2> QED
    BY <2>2, <2>3
<1>3. user' \in [Entries -> {"away", "new", "made", "open", "closed"}] /\ user'[r] = "made"
      /\ \A q \in Entries \ {r} : user'[q] = user[q]
  BY <1>1 DEF RegTypes
<1>4. RegTypes'
  <2>1. ASSUME NEW k \in {"probes", "jobs"}, writing[k] # Unheld
        PROVE  writing[k] \in [of : known', left : Seq(FieldWrites)]
    <3>1. writing[k] \in [of : known, left : Seq(FieldWrites)]
      BY <2>1 DEF RegTypes
    <3> QED
      BY <1>1, <3>1
  <2>2. \A q \in Entries : user'[q] \in {"away", "new"} => q \notin known' /\ (q \in RunIds => nextSeq'[q] = 0)
    BY <1>1, <1>2, <1>3 DEF RegTypes
  <2>3. \A k \in {"probes", "jobs"} :
            \/ writing'[k] = Unheld
            \/ /\ writing'[k] \in [of : known', left : Seq(FieldWrites)]
               /\ RegistryOf(writing'[k].of) = k /\ writing'[k].left # <<>>
    BY <1>1, <2>1 DEF RegTypes
  <2> QED
    BY <1>1, <1>2, <1>3, <2>2, <2>3 DEF RegTypes
<1>5. ASSUME NEW q \in Entries PROVE \E g \in [Fields -> FieldValues] : GoalSound(q, g)'
  <2>1. PICK g \in [Fields -> FieldValues] : GoalSound(q, g)
    BY DEF GoalInv
  <2>2. StatusDue(q, g.status)'
    <3>1. StatusDue(q, g.status)
      BY <2>1 DEF GoalSound
    <3>2. CASE q = r
      BY <1>1, <1>3, <3>1, <3>2 DEF StatusDue
    <3>3. CASE q # r
      BY <1>1, <1>3, <3>1, <3>3 DEF StatusDue
    <3> QED
      BY <3>2, <3>3
  <2>3. LeftOf(q)' = LeftOf(q)
    BY <1>1 DEF LeftOf, BeingWritten
  <2>4. GoalSound(q, g)'
    BY <1>1, <1>2, <2>1, <2>2, <2>3, GoalKept
  <2> QED
    BY <2>4
<1>6. GoalInv'
  BY <1>5 DEF GoalInv
<1>7. RecentInv' /\ EmptyInv'
  <2>1. Len(<<>>) = 0 /\ 1..0 = {} /\ 0 < RecentLimit
    BY RegistriesAssumption
  <2>2. RecentInv'
    <3> SUFFICES ASSUME NEW q \in RunIds \cap known'
                 PROVE  /\ Len(recent'[q]) = (IF nextSeq'[q] < RecentLimit THEN nextSeq'[q] ELSE RecentLimit)
                        /\ \A i \in 1..Len(recent'[q]) : recent'[q][i] = nextSeq'[q] - Len(recent'[q]) + i - 1
      BY DEF RecentInv
    <3>1. CASE q = r
      BY <1>2, <2>1, <3>1
    <3>2. CASE q # r
      <4>1. recent'[q] = recent[q] /\ nextSeq'[q] = nextSeq[q] /\ q \in RunIds \cap known
        BY <1>1, <1>2, <3>2
      <4> QED
        BY <4>1 DEF RecentInv
    <3> QED
      BY <3>1, <3>2
  <2>3. EmptyInv'
    BY <1>1, <1>2 DEF EmptyInv
  <2> QED
    BY <2>2, <2>3
<1>8. SweepInv' /\ AnswerInv'
  BY <1>1 DEF SweepInv, AnswerInv, ReadSound
<1> QED
  BY <1>4, <1>6, <1>7, <1>8

\* What a clean-up removes is not being changed, and is over or, of the runs, not begun.
LEMMA RemoveSound ==
    ASSUME RegInv, known' \subseteq known, UNCHANGED <<entry, nextSeq, writing, user, answer>>,
           \A r \in known \ known' : /\ ~BeingWritten(r)
                                    /\ entry[r].status \in Terminal \cup (IF r \in RunIds THEN {"created"} ELSE {}),
           recent' \in [RunIds -> Seq(Nat)],
           \A r \in RunIds : IF r \in known \ known' THEN recent'[r] = <<>> ELSE recent'[r] = recent[r],
           sweep' = sweep \/ \E chosen \in SUBSET sweep.chosen, at \in {"idle", "removing"} :
                                 sweep' = [at |-> at, chosen |-> chosen]
    PROVE  RegInv'
<1> USE DEF RegInv
<1>1. RegTypes'
  <2>1. ASSUME NEW k \in {"probes", "jobs"}, writing[k] # Unheld
        PROVE  writing[k] \in [of : known', left : Seq(FieldWrites)]
    <3>1. writing[k] \in [of : known, left : Seq(FieldWrites)] /\ RegistryOf(writing[k].of) = k
      BY <2>1 DEF RegTypes
    <3>2. writing[k].of \in known'
      BY <3>1 DEF BeingWritten
    <3> QED
      BY <3>1, <3>2
  <2>2. \A k \in {"probes", "jobs"} :
            \/ writing'[k] = Unheld
            \/ /\ writing'[k] \in [of : known', left : Seq(FieldWrites)]
               /\ RegistryOf(writing'[k].of) = k /\ writing'[k].left # <<>>
    BY <2>1 DEF RegTypes
  <2> QED
    BY <2>2 DEF RegTypes
<1>2. ASSUME NEW q \in Entries PROVE \E g \in [Fields -> FieldValues] : GoalSound(q, g)'
  <2>1. PICK g \in [Fields -> FieldValues] : GoalSound(q, g) /\ (~BeingWritten(q) => g = entry[q])
    <3>1. CASE BeingWritten(q)
      BY <3>1 DEF GoalInv
    <3>2. CASE ~BeingWritten(q)
      BY <3>2, StillSound
    <3> QED
      BY <3>1, <3>2
  <2>2. StatusDue(q, g.status)'
    <3>1. StatusDue(q, g.status)
      BY <2>1 DEF GoalSound
    <3>2. q \in known \ known' => g.status \in Terminal \cup (IF q \in RunIds THEN {"created"} ELSE {})
      BY <2>1
    <3> QED
      BY <3>1, <3>2 DEF StatusDue
  <2>3. LeftOf(q)' = LeftOf(q)
    BY DEF LeftOf, BeingWritten
  <2>4. GoalSound(q, g)'
    BY <2>1, <2>2, <2>3, GoalKept
  <2> QED
    BY <2>4
<1>3. GoalInv'
  BY <1>2 DEF GoalInv
<1>4. RecentInv' /\ EmptyInv'
  <2>1. ASSUME NEW q \in RunIds, q \in known' PROVE recent'[q] = recent[q] /\ q \in known
    BY <2>1
  <2>2. RecentInv'
    BY <2>1 DEF RecentInv
  <2>3. EmptyInv'
    BY DEF EmptyInv
  <2> QED
    BY <2>2, <2>3
<1>5. SweepInv' /\ AnswerInv'
  BY DEF SweepInv, AnswerInv, ReadSound
<1> QED
  BY <1>1, <1>3, <1>4, <1>5

LEMMA CleanUpsSound ==
    ASSUME RegInv,
           \/ \E older, only : CleanRuns(older, only)
           \/ \E retention : CleanJobs(retention)
           \/ \E r \in WorkIds : RemoveJob(r)
    PROVE  RegInv'
<1> USE DEF RegInv
<1>1. recent \in [RunIds -> Seq(Nat)] /\ known \subseteq Entries
  BY DEF RegTypes
<1>2. ASSUME NEW older, NEW only, CleanRuns(older, only) PROVE RegInv'
  <2> DEFINE removed == Expired(older, only)
  <2>1. /\ removed \subseteq RunIds \cap known /\ \A r \in removed : entry[r].status # "active"
    BY DEF Expired, Removable
  <2>2. /\ known' = known \ removed /\ recent' = [r \in RunIds |-> IF r \in removed THEN <<>> ELSE recent[r]]
        /\ UNCHANGED <<entry, nextSeq, writing, user, answer, sweep>> /\ Unlocked("probes")
    BY <1>2 DEF CleanRuns
  <2> HIDE DEF removed
  <2>3. ASSUME NEW r \in removed
        PROVE  ~BeingWritten(r) /\ entry[r].status \in Terminal \cup {"created"} /\ r \in RunIds /\ r \in known
    <3>1. r \in Entries /\ r \in RunIds /\ r \in known
      BY <1>1, <2>1
    <3>2. ~BeingWritten(r)
      BY <2>2, <3>1, KindsOf, FreeOf
    <3>3. EntrySound(r, entry[r])
      BY <3>1, <3>2, StillSound DEF GoalSound
    <3> QED
      BY <2>1, <3>1, <3>2, <3>3 DEF EntrySound, StatusesOf, RunStatuses, Terminal
  <2>4. recent' \in [RunIds -> Seq(Nat)]
    <3>1. <<>> \in Seq(Nat)
      OBVIOUS
    <3> QED
      BY <1>1, <2>2, <3>1
  <2>5. known \ known' = removed /\ known' \subseteq known
    BY <2>1, <2>2
  <2> QED
    BY <2>2, <2>3, <2>4, <2>5, RemoveSound
<1>3. ASSUME NEW retention, CleanJobs(retention) PROVE RegInv'
  <2>1. /\ known' \subseteq known /\ \A r \in known \ known' : r \notin RunIds /\ entry[r].status \in Terminal
        /\ UNCHANGED <<entry, recent, nextSeq, writing, user, answer, sweep>> /\ Unlocked("jobs")
    BY <1>3 DEF CleanJobs
  <2>2. ASSUME NEW r \in known \ known' PROVE ~BeingWritten(r)
    <3>1. r \in Entries /\ RegistryOf(r) = "jobs"
      BY <1>1, <2>1, KindsOf
    <3> QED
      BY <2>1, <3>1, FreeOf
  <2> QED
    BY <1>1, <2>1, <2>2, RemoveSound
<1>4. ASSUME NEW r \in WorkIds, RemoveJob(r) PROVE RegInv'
  <2>1. /\ r \in sweep.chosen /\ known' = known \ {r}
        /\ sweep' = IF sweep.chosen = {r} THEN NoSweep ELSE [sweep EXCEPT !.chosen = @ \ {r}]
        /\ UNCHANGED <<entry, recent, nextSeq, writing, user, answer>> /\ Unlocked("jobs")
    BY <1>4 DEF RemoveJob
  <2>2. sweep \in [at : {"idle", "removing"}, chosen : SUBSET Entries]
    BY DEF SweepInv
  <2>3. \E chosen \in SUBSET sweep.chosen, at \in {"idle", "removing"} : sweep' = [at |-> at, chosen |-> chosen]
    <3>1. CASE sweep.chosen = {r}
      <4>1. sweep' = [at |-> "idle", chosen |-> {}]
        BY <2>1, <3>1 DEF NoSweep
      <4> QED
        BY <4>1
    <3>2. CASE sweep.chosen # {r}
      <4>1. sweep' = [at |-> sweep.at, chosen |-> sweep.chosen \ {r}] /\ sweep.at \in {"idle", "removing"}
        BY <2>1, <2>2, <3>2
      <4> QED
        BY <4>1
    <3> QED
      BY <3>1, <3>2
  <2>4. r \in Entries /\ RegistryOf(r) = "jobs" /\ r \notin RunIds /\ entry[r].status \in Terminal
    BY <2>1, KindsOf DEF SweepInv, Entries
  <2>5. ~BeingWritten(r)
    BY <2>1, <2>4, FreeOf
  <2>6. known \ known' \subseteq {r} /\ known' \subseteq known
    BY <2>1
  <2> QED
    BY <1>1, <2>1, <2>3, <2>4, <2>5, <2>6, RemoveSound
<1> QED
  BY <1>2, <1>3, <1>4

LEMMA LegalTable ==
    /\ LegalFrom("created") = {"active", "running"} /\ LegalFrom("active") = {"stopped", "failed"}
    /\ LegalFrom("running") = {"streaming", "completed", "failed", "interrupted"}
    /\ LegalFrom("streaming") = {"completed", "failed", "interrupted"}
    /\ \A status \in Terminal : LegalFrom(status) = {}
BY OverStaysOver DEF LegalFrom

LEMMA UsersSound ==
    ASSUME RegInv, NEW r \in Entries,
           \/ Open(r) \/ EndFromOutside(r) \/ GoOnStreaming(r) \/ \E failed \in BOOLEAN : Close(r, failed)
    PROVE  RegInv'
<1> USE DEF RegInv
<1>1. user \in [Entries -> {"away", "new", "made", "open", "closed"}]
  BY DEF RegTypes
<1>2. ASSUME Unlocked(RegistryOf(r))
      PROVE  StatusDue(r, entry[r].status) /\ entry[r].status \in StatusesOf(r)
  BY <1>2, FreeOf, StillSound DEF GoalSound, EntrySound
<1>3. CASE Open(r)
  <2> DEFINE new == IF r \in RunIds THEN "active" ELSE "running"
  <2>1. SetStatus(r, new) /\ user[r] = "made" /\ user' = [user EXCEPT ![r] = "open"]
        /\ UNCHANGED <<answer, sweep, known, entry>> /\ Unlocked(RegistryOf(r))
    BY <1>3 DEF Open, SetStatus
  <2>2. new \in StatusesOf(r) /\ new \in LegalFrom("created") /\ new # "created" /\ new \notin Terminal
    BY LegalTable DEF StatusesOf, RunStatuses, WorkStatuses, Terminal
  <2>3. entry[r].status = "created" /\ (r \notin known => r \in RunIds)
    BY <1>2, <2>1 DEF StatusDue, Terminal
  <2>4. user'[r] = "open" /\ user' \in [Entries -> {"away", "new", "made", "open", "closed"}]
        /\ \A q \in Entries \ {r} : user'[q] = user[q]
    BY <1>1, <2>1
  <2> HIDE DEF new
  <2>5. PICK final : final = IF r \in known /\ new \in LegalFrom(entry[r].status) THEN new ELSE entry[r].status
    OBVIOUS
  <2>6. StatusDue(r, final)'
    BY <2>1, <2>2, <2>3, <2>4, <2>5 DEF StatusDue, Terminal
  <2>8. \A q \in Entries : user'[q] = user[q] \/ (q = r /\ user'[q] \notin {"away", "new"})
    BY <2>4
  <2>9. UNCHANGED <<answer, sweep>> /\ SetStatus(r, new)
    BY <2>1
  <2> HIDE DEF RegInv
  <2> QED
    BY <2>2, <2>4, <2>5, <2>6, <2>8, <2>9, SetStatusSound
<1>4. ASSUME NEW failed \in BOOLEAN, Close(r, failed) PROVE RegInv'
  <2> DEFINE new == IF failed THEN "failed" ELSE IF r \in RunIds THEN "stopped" ELSE "completed"
  <2>1. SetStatus(r, new) /\ user[r] = "open" /\ user' = [user EXCEPT ![r] = "closed"]
        /\ UNCHANGED <<answer, sweep, known, entry>> /\ Unlocked(RegistryOf(r))
    BY <1>4 DEF Close, SetStatus
  <2>2. new \in StatusesOf(r) /\ new # "created" /\ new \in Terminal
    BY DEF StatusesOf, RunStatuses, WorkStatuses, Terminal
  <2>3. StatusDue(r, entry[r].status) /\ entry[r].status \in StatusesOf(r)
    BY <1>2, <2>1
  <2>4. user'[r] = "closed" /\ user' \in [Entries -> {"away", "new", "made", "open", "closed"}]
        /\ \A q \in Entries \ {r} : user'[q] = user[q]
    BY <1>1, <2>1
  <2>5. PICK final : final = IF r \in known /\ new \in LegalFrom(entry[r].status) THEN new ELSE entry[r].status
    OBVIOUS
  <2>6. ASSUME r \in known PROVE final \in Terminal
    <3>1. CASE entry[r].status \in Terminal
      BY <2>2, <2>5, <3>1
    <3>2. CASE entry[r].status \notin Terminal
      <4>1. entry[r].status # "created"
        BY <2>1, <2>3, <2>6 DEF StatusDue
      <4>2. CASE r \in RunIds
        <5>1. entry[r].status = "active" /\ new \in {"failed", "stopped"}
          BY <2>3, <3>2, <4>1, <4>2 DEF StatusesOf, RunStatuses, Terminal
        <5> QED
          BY <2>2, <2>5, <2>6, <5>1, LegalTable
      <4>3. CASE r \notin RunIds
        <5>1. entry[r].status \in {"running", "streaming"} /\ new \in {"failed", "completed"}
          BY <2>3, <3>2, <4>1, <4>3 DEF StatusesOf, WorkStatuses, Terminal
        <5> QED
          BY <2>2, <2>5, <2>6, <5>1, LegalTable
      <4> QED
        BY <4>2, <4>3
    <3> QED
      BY <3>1, <3>2
  <2> HIDE DEF new
  <2>7. StatusDue(r, final)'
    <3>1. CASE r \in known
      BY <2>1, <2>4, <2>6, <3>1 DEF StatusDue, Terminal
    <3>2. CASE r \notin known
      BY <2>1, <2>3, <2>4, <2>5, <3>2 DEF StatusDue
    <3> QED
      BY <3>1, <3>2
  <2>8. \A q \in Entries : user'[q] = user[q] \/ (q = r /\ user'[q] \notin {"away", "new"})
    BY <2>4
  <2>9. UNCHANGED <<answer, sweep>> /\ SetStatus(r, new)
    BY <2>1
  <2> HIDE DEF RegInv
  <2> QED
    BY <2>2, <2>4, <2>5, <2>7, <2>8, <2>9, SetStatusSound
<1>5. CASE EndFromOutside(r) \/ GoOnStreaming(r)
  <2>1. PICK new \in StatusesOf(r) : /\ SetStatus(r, new) /\ r \in known /\ UNCHANGED <<user, answer, sweep>>
                                    /\ entry[r].status \notin Terminal /\ new \notin {"created", "active", "running"}
    <3>1. CASE EndFromOutside(r)
      <4>1. (IF r \in RunIds THEN "stopped" ELSE "interrupted") \in StatusesOf(r) \ {"created", "active", "running"}
        BY DEF StatusesOf, RunStatuses, WorkStatuses
      <4> QED
        BY <3>1, <4>1 DEF EndFromOutside
    <3>2. CASE GoOnStreaming(r)
      <4>1. SetStatus(r, "streaming") /\ r \in WorkIds /\ entry[r].status = "running" /\ UNCHANGED <<user, answer, sweep>>
            /\ user[r] = "open"
        BY <3>2 DEF GoOnStreaming
      <4>2. "streaming" \in StatusesOf(r) \ {"created", "active", "running"} /\ r \notin RunIds
        BY <4>1, KindsOf DEF StatusesOf, WorkStatuses
      <4>3. "running" \notin Terminal
        BY DEF Terminal
      <4>4. StatusDue(r, entry[r].status)
        BY <1>2, <4>1 DEF SetStatus
      <4>5. r \in known
        BY <4>1, <4>2, <4>3, <4>4 DEF StatusDue
      <4> QED
        BY <4>1, <4>2, <4>3, <4>5
    <3> QED
      BY <1>5, <3>1, <3>2
  <2>2. StatusDue(r, entry[r].status) /\ entry[r].status \in StatusesOf(r) /\ UNCHANGED <<known, entry>>
    BY <1>2, <2>1 DEF SetStatus
  <2>3. PICK final : final = IF r \in known /\ new \in LegalFrom(entry[r].status) THEN new ELSE entry[r].status
    OBVIOUS
  <2>4. StatusDue(r, final)'
    <3>1. CASE new \in LegalFrom(entry[r].status)
      <4>1. entry[r].status # "created" /\ final = new
        BY <2>1, <2>3, <3>1, LegalTable
      <4> QED
        BY <2>1, <2>2, <4>1 DEF StatusDue
    <3>2. CASE new \notin LegalFrom(entry[r].status)
      <4>1. final = entry[r].status
        BY <2>3, <3>2
      <4> QED
        BY <2>1, <2>2, <4>1 DEF StatusDue
    <3> QED
      BY <3>1, <3>2
  <2>8. /\ \A q \in Entries : user'[q] = user[q] \/ (q = r /\ user'[q] \notin {"away", "new"})
        /\ user' \in [Entries -> {"away", "new", "made", "open", "closed"}]
    BY <1>1, <2>1
  <2>9. UNCHANGED <<answer, sweep>> /\ SetStatus(r, new)
    BY <2>1
  <2> HIDE DEF RegInv
  <2> QED
    BY <2>3, <2>4, <2>8, <2>9, SetStatusSound
<1> QED
  BY <1>3, <1>4, <1>5

LEMMA ReadFieldOn ==
    ASSUME NEW r \in Entries, NEW got \in Seq(FieldValues), NEW torn \in BOOLEAN, NEW now \in BOOLEAN,
           NEW evs, torn => now, ~now => EntrySound(r, entry[r]), entry[r].count \in Nat,
           Len(got) < Len(FieldsOf(r)), ReadSound(r, entry[r], got, torn, evs)
    PROVE  LET more == Append(got, entry[r][FieldsOf(r)[Len(got) + 1]]) IN
           Len(more) <= Len(FieldsOf(r)) /\ ReadSound(r, entry[r], more, now, evs)
<1> DEFINE n == Len(got)
           f == FieldsOf(r)[n + 1]
           v == entry[r][f]
           more == Append(got, v)
           e == entry[r]
<1>1. n \in Nat /\ Len(more) = n + 1 /\ more[n + 1] = v /\ \A i \in 1..n : more[i] = got[i]
  OBVIOUS
<1>2. Len(FieldsOf(r)) = IF r \in RunIds THEN 5 ELSE 4
  BY DEF FieldsOf
<1>3. /\ n = 0 => f = "status"
      /\ n = 1 => f = "ended"
      /\ n = 2 => f = IF r \in RunIds THEN "count" ELSE "summary"
      /\ n = 3 => f = "error"
      /\ n = 4 /\ r \in RunIds => f = "summary"
  <2>1. CASE r \in RunIds
    <3>1. FieldsOf(r) = <<"status", "ended", "count", "error", "summary">>
      BY <2>1 DEF FieldsOf
    <3>2. /\ FieldsOf(r)[1] = "status" /\ FieldsOf(r)[2] = "ended" /\ FieldsOf(r)[3] = "count"
          /\ FieldsOf(r)[4] = "error" /\ FieldsOf(r)[5] = "summary"
      BY <3>1
    <3>3. 0 + 1 = 1 /\ 1 + 1 = 2 /\ 2 + 1 = 3 /\ 3 + 1 = 4 /\ 4 + 1 = 5
      OBVIOUS
    <3> HIDE DEF n
    <3> QED
      BY <2>1, <3>2, <3>3
  <2>2. CASE r \notin RunIds
    <3>1. FieldsOf(r) = <<"status", "ended", "summary", "error">>
      BY <2>2 DEF FieldsOf
    <3>2. /\ FieldsOf(r)[1] = "status" /\ FieldsOf(r)[2] = "ended" /\ FieldsOf(r)[3] = "summary"
          /\ FieldsOf(r)[4] = "error"
      BY <3>1
    <3>3. 0 + 1 = 1 /\ 1 + 1 = 2 /\ 2 + 1 = 3 /\ 3 + 1 = 4 /\ 4 + 1 = 5
      OBVIOUS
    <3> HIDE DEF n
    <3> QED
      BY <2>2, <3>2, <3>3
  <2> QED
    BY <2>1, <2>2
<1>4. n \in 0..4 /\ (r \notin RunIds => n \in 0..3)
  <2>1. n < (IF r \in RunIds THEN 5 ELSE 4)
    BY <1>2
  <2> HIDE DEF n
  <2> QED
    BY <1>1, <2>1
<1>5. /\ evs # <<>> => r \in RunIds /\ Last(evs) < e.count
      /\ n > 0 /\ got[1] \in Terminal /\ ~torn => Settled(e, got[1])
      /\ n > 1 /\ got[1] \in Terminal /\ ~torn => got[2] = TRUE
      /\ n > 3 /\ got[1] \in Terminal /\ ~torn /\ got[1] = "failed" => got[4] = TRUE
      /\ r \notin RunIds /\ n > 2 /\ got[1] \in Terminal /\ ~torn => got[3].status = got[1]
      /\ r \in RunIds /\ n > 2 =>
             got[3] \in Nat /\ got[3] <= e.count /\ (evs # <<>> => Last(evs) < got[3])
  BY <1>1 DEF ReadSound
<1>6. ~now => (e.status \in Terminal => Settled(e, e.status)) /\ e.summary.count = e.count
  BY DEF EntrySound
<1> HIDE DEF n, f, more
<1>7. ASSUME more[1] \in Terminal, ~now PROVE Settled(e, more[1])
  <2>1. CASE n = 0
    <3>1. more[1] = e.status
      BY <1>1, <1>3, <2>1
    <3> QED
      BY <1>6, <1>7, <3>1
  <2>2. CASE n > 0
    <3>1. more[1] = got[1]
      BY <1>1, <2>2
    <3> QED
      BY <1>5, <1>7, <2>2, <3>1
  <2> QED
    BY <1>1, <2>1, <2>2
<1>8. ASSUME n + 1 > 1, more[1] \in Terminal, ~now PROVE more[2] = TRUE
  <2>1. more[1] = got[1]
    BY <1>1, <1>8
  <2>2. CASE n = 1
    <3>1. more[2] = e.ended
      BY <1>1, <1>3, <2>2
    <3> QED
      BY <1>7, <1>8, <3>1 DEF Settled
  <2>3. CASE n # 1
    <3>1. n > 1 /\ more[2] = got[2]
      BY <1>1, <1>8, <2>3
    <3> QED
      BY <1>5, <1>8, <2>1, <3>1
  <2> QED
    BY <2>2, <2>3
<1>9. ASSUME n + 1 > 3, more[1] = "failed", ~now PROVE more[4] = TRUE
  <2>1. more[1] = got[1] /\ "failed" \in Terminal
    BY <1>1, <1>9 DEF Terminal
  <2>2. CASE n = 3
    <3>1. more[4] = e.error
      BY <1>1, <1>3, <2>2
    <3> QED
      BY <1>7, <1>9, <2>1, <3>1 DEF Settled
  <2>3. CASE n # 3
    <3>1. n > 3 /\ more[4] = got[4]
      <4>1. n \in Nat /\ n > 3 /\ 4 \in 1..n
        BY <1>4, <1>9, <2>3
      <4> QED
        BY <1>1, <4>1
    <3> QED
      BY <1>5, <1>9, <2>1, <3>1
  <2> QED
    BY <2>2, <2>3
<1>10. ASSUME r \in RunIds, n + 1 >= 5, ~now
       PROVE  (more[1] \in Terminal => more[5].status = more[1]) /\ more[5].count >= more[3]
  <2>1. n = 4 /\ more[5] = e.summary /\ more[3] = got[3] /\ got[3] \in Nat /\ got[3] <= e.count
    BY <1>1, <1>3, <1>4, <1>5, <1>10
  <2>2. more[5].count >= more[3]
    BY <1>6, <1>10, <2>1
  <2> QED
    BY <1>7, <1>10, <2>1, <2>2 DEF Settled
<1>11. ASSUME r \notin RunIds, n + 1 >= 3, more[1] \in Terminal, ~now PROVE more[3].status = more[1]
  <2>1. CASE n = 2
    <3>1. more[3] = e.summary
      BY <1>1, <1>3, <1>11, <2>1
    <3> QED
      BY <1>7, <1>11, <3>1 DEF Settled
  <2>2. CASE n # 2
    <3>1. n > 2 /\ more[3] = got[3] /\ more[1] = got[1]
      BY <1>1, <1>11, <2>2
    <3> QED
      BY <1>5, <1>11, <3>1
  <2> QED
    BY <2>1, <2>2
<1>12. ASSUME r \in RunIds, n + 1 > 2
       PROVE  more[3] \in Nat /\ more[3] <= e.count /\ (evs # <<>> => Last(evs) < more[3])
  <2>1. CASE n = 2
    <3>1. more[3] = e.count
      BY <1>1, <1>3, <1>12, <2>1
    <3> QED
      BY <1>5, <3>1
  <2>2. CASE n # 2
    <3>1. n > 2 /\ more[3] = got[3]
      BY <1>1, <1>12, <2>2
    <3> QED
      BY <1>5, <1>12, <3>1
  <2> QED
    BY <2>1, <2>2
<1>13. Len(more) = n + 1 /\ n + 1 <= Len(FieldsOf(r))
  BY <1>1, <1>2, <1>4
<1>14. ReadSound(r, entry[r], more, now, evs)
  <2> DEFINE k == Len(more)
             over == k > 0 /\ more[1] \in Terminal /\ ~now
  <2>1. over => Settled(e, more[1])
    BY <1>7
  <2>2. over /\ k > 1 => more[2] = TRUE
    BY <1>8, <1>13
  <2>3. over /\ k > 3 /\ more[1] = "failed" => more[4] = TRUE
    BY <1>9, <1>13
  <2>4. over /\ k >= (IF r \in RunIds THEN 5 ELSE 3) => more[IF r \in RunIds THEN 5 ELSE 3].status = more[1]
    <3>1. CASE r \in RunIds
      BY <1>10, <1>13, <3>1
    <3>2. CASE r \notin RunIds
      BY <1>11, <1>13, <3>2
    <3> QED
      BY <3>1, <3>2
  <2>5. r \in RunIds /\ k > 2 =>
            more[3] \in Nat /\ more[3] <= e.count /\ (evs # <<>> => Last(evs) < more[3])
    BY <1>12, <1>13
  <2>6. r \in RunIds /\ k > 4 /\ ~now => more[5].count >= more[3]
    <3>1. k > 4 => n + 1 >= 5
      BY <1>1, <1>13
    <3> QED
      BY <1>10, <3>1
  <2> QED
    BY <1>5, <2>1, <2>2, <2>3, <2>4, <2>5, <2>6 DEF ReadSound
<1> QED
  BY <1>13, <1>14 DEF more, n, f

LEMMA AskersSound ==
    ASSUME RegInv,
           \/ \E r \in Entries : AskStatus(r) \/ AskEvents(r)
           \/ ReadEvents \/ ReadField \/ AnswerSent
    PROVE  RegInv'
<1>1. UNCHANGED <<entry, known, recent, nextSeq, writing, user, sweep>>
  BY DEF AskStatus, AskEvents, ReadEvents, ReadField, AnswerSent, registryState
<1>2. RegTypes' /\ GoalInv' /\ RecentInv' /\ EmptyInv'
  BY <1>1, FrameReg
<1>3. SweepInv'
  BY <1>1 DEF RegInv, SweepInv
<1>4. ASSUME NEW r \in Entries PROVE Len(<<>>) <= Len(FieldsOf(r)) /\ \A torn : ReadSound(r, entry[r], <<>>, torn, <<>>)
  <2>1. Len(<<>>) = 0 /\ Len(FieldsOf(r)) \in {4, 5}
    BY DEF FieldsOf
  <2> QED
    BY <2>1 DEF ReadSound
<1>5. ASSUME NEW r \in Entries \cup {"none"}, NEW fetched \in BOOLEAN, r = "none" => fetched = FALSE,
             answer' = [of |-> r, fetched |-> fetched, events |-> <<>>, got |-> <<>>, torn |-> FALSE]
      PROVE  AnswerInv'
  <2>1. <<>> \in Seq(Nat) /\ <<>> \in Seq(FieldValues) /\ FALSE \in BOOLEAN
    OBVIOUS
  <2>2. answer' \in Answers
    BY <1>5, <2>1 DEF Answers
  <2>3. answer'.of = r /\ answer'.fetched = fetched /\ answer'.got = <<>> /\ answer'.events = <<>>
        /\ answer'.torn = FALSE
    BY <1>5
  <2>4. r \in Entries => Len(<<>>) <= Len(FieldsOf(r)) /\ ReadSound(r, entry[r], <<>>, FALSE, <<>>)
    BY <1>4
  <2>5. r \in Entries => Len(<<>>) <= Len(FieldsOf(r)) /\ ReadSound(r, entry[r], <<>>, FALSE, <<>>)'
    BY <1>1, <2>4 DEF ReadSound
  <2> QED
    BY <1>5, <2>2, <2>3, <2>5, KindsOf DEF AnswerInv
<1>6. ASSUME NEW r \in Entries, AskStatus(r) \/ AskEvents(r) PROVE AnswerInv'
  <2>1. \E fetched \in BOOLEAN :
           answer' = [of |-> r, fetched |-> fetched, events |-> <<>>, got |-> <<>>, torn |-> FALSE]
    BY <1>6 DEF AskStatus, AskEvents, Question
  <2> QED
    BY <1>5, <2>1, KindsOf
<1>7. ASSUME AnswerSent PROVE AnswerInv'
  <2>1. answer' = [of |-> "none", fetched |-> FALSE, events |-> <<>>, got |-> <<>>, torn |-> FALSE]
    BY <1>7 DEF AnswerSent, NoAnswer, Question
  <2>2. PICK none \in Entries \cup {"none"}, fetched \in BOOLEAN : none = "none" /\ fetched = FALSE
    OBVIOUS
  <2>3. answer' = [of |-> none, fetched |-> fetched, events |-> <<>>, got |-> <<>>, torn |-> FALSE]
    BY <2>1, <2>2
  <2> QED
    BY <1>5, <2>2, <2>3
<1>8. /\ answer \in Answers /\ (answer.fetched = FALSE => answer.got = <<>>)
      /\ answer.of = "none" => answer.fetched = FALSE
      /\ answer.of \in Entries => /\ Len(answer.got) <= Len(FieldsOf(answer.of))
                                  /\ ReadSound(answer.of, entry[answer.of], answer.got, answer.torn, answer.events)
  BY DEF RegInv, AnswerInv
<1>9. /\ answer = [of |-> answer.of, fetched |-> answer.fetched, events |-> answer.events,
                   got |-> answer.got, torn |-> answer.torn]
      /\ answer.got \in Seq(FieldValues) /\ answer.torn \in BOOLEAN /\ answer.events \in Seq(Nat)
  BY <1>8 DEF Answers
<1>10. ASSUME ReadEvents PROVE AnswerInv'
  <2>1. /\ answer.of \in RunIds /\ answer.of \in Entries /\ answer.fetched = FALSE /\ answer.got = <<>> /\ Unlocked(RegistryOf(answer.of))
        /\ answer' = [answer EXCEPT !.fetched = TRUE, !.events = recent[answer.of]]
    <3>1. /\ answer.of \in RunIds /\ ~answer.fetched /\ Unlocked("probes")
          /\ answer' = [answer EXCEPT !.fetched = TRUE, !.events = recent[answer.of]]
      BY <1>10 DEF ReadEvents
    <3>2. answer.fetched = FALSE
      BY <1>8, <3>1 DEF Answers
    <3> QED
      BY <1>8, <3>1, <3>2 DEF Entries, RegistryOf
  <2>13. PICK r \in Entries : r = answer.of
    BY <2>1
  <2> DEFINE evs == recent[r]
  <2>2. evs \in Seq(Nat) /\ nextSeq[r] \in Nat
    BY <2>1, <2>13 DEF RegInv, RegTypes
  <2>3. entry[r].count = nextSeq[r]
    <3>1. ~BeingWritten(r)
      BY <2>1, <2>13, FreeOf
    <3> QED
      BY <2>1, <2>13, <3>1, StillSound DEF RegInv, GoalSound
  <2>4. evs # <<>> => Last(evs) < entry[r].count
    <3> SUFFICES ASSUME evs # <<>> PROVE Last(evs) < entry[r].count
      OBVIOUS
    <3>1. r \in RunIds \cap known
      BY <2>1, <2>13 DEF RegInv, EmptyInv
    <3>2. Len(evs) \in Nat /\ Len(evs) > 0 /\ Last(evs) = evs[Len(evs)]
      BY <2>2 DEF Last
    <3>3. evs[Len(evs)] = nextSeq[r] - Len(evs) + Len(evs) - 1
      BY <3>1, <3>2 DEF RegInv, RecentInv
    <3> HIDE DEF evs
    <3> QED
      BY <2>2, <2>3, <3>2, <3>3
  <2>5. answer' = [of |-> r, fetched |-> TRUE, events |-> evs, got |-> <<>>, torn |-> answer.torn]
    <3>1. answer' = [of |-> answer.of, fetched |-> TRUE, events |-> recent[answer.of], got |-> answer.got,
                     torn |-> answer.torn]
      BY <1>9, <2>1
    <3> QED
      BY <1>8, <2>1, <2>13, <3>1
  <2>6. PICK ev \in Seq(Nat), torn \in BOOLEAN : ev = evs /\ torn = answer.torn
    BY <1>9, <2>2
  <2>7. ReadSound(r, entry[r], <<>>, torn, ev)
    <3>1. Len(<<>>) = 0
      OBVIOUS
    <3> QED
      BY <2>1, <2>4, <2>6, <2>13, <3>1 DEF ReadSound
  <2>8. ReadSound(r, entry[r], <<>>, torn, ev)'
    BY <1>1, <2>7 DEF ReadSound
  <2>9. answer' = [of |-> r, fetched |-> TRUE, events |-> ev, got |-> <<>>, torn |-> torn]
    BY <2>5, <2>6
  <2>10. answer' \in Answers
    <3>1. <<>> \in Seq(FieldValues)
      OBVIOUS
    <3> QED
      BY <2>9, <3>1 DEF Answers
  <2>11. answer'.of = r /\ answer'.fetched = TRUE /\ answer'.got = <<>> /\ answer'.events = ev
         /\ answer'.torn = torn
    BY <2>9
  <2>12. Len(<<>>) <= Len(FieldsOf(r)) /\ r # "none"
    BY <1>4, KindsOf
  <2> QED
    BY <2>8, <2>10, <2>11, <2>12 DEF AnswerInv
<1>11. ASSUME ReadField PROVE AnswerInv'
  <2>1. /\ answer.fetched /\ ~Answered
        /\ answer' = [answer EXCEPT !.got = Append(@, entry[answer.of][FieldsOf(answer.of)[Len(answer.got) + 1]]),
                                    !.torn = @ \/ BeingWritten(answer.of)]
    BY <1>11 DEF ReadField
  <2>2. answer.of \in Entries /\ answer.fetched = TRUE
    <3>1. answer.fetched \in BOOLEAN /\ answer.of \in Entries \cup {"none"}
      BY <1>8 DEF Answers
    <3> QED
      BY <1>8, <2>1, <3>1
  <2>3. PICK r \in Entries : r = answer.of
    BY <2>2
  <2>4. Len(answer.got) < Len(FieldsOf(r))
    <3>1. Len(answer.got) <= Len(FieldsOf(r)) /\ Len(answer.got) # Len(FieldsOf(r)) /\ Len(answer.got) \in Nat
      BY <1>8, <1>9, <2>1, <2>2, <2>3 DEF Answered
    <3>2. Len(FieldsOf(r)) \in Nat
      BY DEF FieldsOf
    <3> QED
      BY <3>1, <3>2
  <2>5. PICK now \in BOOLEAN : now = (answer.torn \/ BeingWritten(r))
    OBVIOUS
  <2>6. PICK more : more = Append(answer.got, entry[r][FieldsOf(r)[Len(answer.got) + 1]])
    OBVIOUS
  <2>7. FieldsOf(r)[Len(answer.got) + 1] \in Fields
    <3>1. Len(answer.got) \in Nat /\ Len(answer.got) + 1 \in 1..Len(FieldsOf(r))
      <4>1. Len(answer.got) \in Nat /\ Len(FieldsOf(r)) \in Nat
        BY <1>9 DEF FieldsOf
      <4> QED
        BY <2>4, <4>1
    <3>2. FieldsOf(r) \in Seq(Fields)
      <4>1. {"status", "ended", "count", "error", "summary"} = Fields
        BY DEF Fields
      <4>2. <<"status", "ended", "count", "error", "summary">> \in Seq(Fields)
        BY <4>1
      <4>3. <<"status", "ended", "summary", "error">> \in Seq(Fields)
        BY <4>1
      <4> QED
        BY <4>2, <4>3 DEF FieldsOf
    <3> QED
      BY <3>1, <3>2
  <2>8. more \in Seq(FieldValues)
    <3>1. entry[r][FieldsOf(r)[Len(answer.got) + 1]] \in FieldValues
      BY <2>7 DEF RegInv, RegTypes
    <3> QED
      BY <1>9, <2>6, <3>1
  <2>9. entry[r].count \in Nat /\ (~now => EntrySound(r, entry[r]))
    <3>1. entry[r].count \in Nat
      BY DEF RegInv, GoalInv, GoalSound
    <3>2. ~now => EntrySound(r, entry[r])
      BY <2>5, StillSound DEF RegInv, GoalSound
    <3> QED
      BY <3>1, <3>2
  <2>15. PICK ev \in Seq(Nat) : ev = answer.events
    BY <1>9
  <2>10. Len(more) <= Len(FieldsOf(r)) /\ ReadSound(r, entry[r], more, now, ev)
    <3>1. ReadSound(r, entry[r], answer.got, answer.torn, answer.events)
      BY <1>8, <2>3
    <3>2. answer.torn => now
      BY <2>5
    <3> QED
      BY <1>9, <2>4, <2>6, <2>9, <2>15, <3>1, <3>2, ReadFieldOn
  <2>11. ReadSound(r, entry[r], more, now, ev)'
    BY <1>1, <2>10 DEF ReadSound
  <2>12. answer' = [of |-> r, fetched |-> TRUE, events |-> ev, got |-> more, torn |-> now]
    <3>1. answer' = [of |-> answer.of, fetched |-> answer.fetched, events |-> answer.events,
                     got |-> Append(answer.got, entry[answer.of][FieldsOf(answer.of)[Len(answer.got) + 1]]),
                     torn |-> answer.torn \/ BeingWritten(answer.of)]
      BY <1>9, <2>1
    <3> QED
      BY <2>2, <2>3, <2>5, <2>6, <2>15, <3>1
  <2>13. answer' \in Answers
    BY <2>8, <2>12 DEF Answers
  <2>14. answer'.of = r /\ answer'.fetched = TRUE /\ answer'.got = more /\ answer'.events = ev
         /\ answer'.torn = now
    BY <2>12
  <2>16. r # "none"
    BY KindsOf
  <2> QED
    BY <2>10, <2>11, <2>13, <2>14, <2>16 DEF AnswerInv
<1>12. AnswerInv'
  BY <1>6, <1>7, <1>10, <1>11
<1> QED
  BY <1>2, <1>3, <1>12 DEF RegInv

LEMMA RegStep == RegInv /\ [RegistriesNext]_registriesVars => RegInv'
<1> SUFFICES ASSUME RegInv, [RegistriesNext]_registriesVars PROVE RegInv'
  OBVIOUS
<1>1. ASSUME UNCHANGED <<entry, known, recent, nextSeq, writing, user, answer>>,
             sweep' = sweep \/ \E older, only : ChooseJobs(older, only)
      PROVE  RegInv'
  <2>1. RegTypes' /\ GoalInv' /\ RecentInv' /\ EmptyInv'
    BY <1>1, FrameReg
  <2>2. AnswerInv'
    BY <1>1 DEF RegInv, AnswerInv
  <2>3. SweepInv'
    <3>1. CASE sweep' = sweep
      BY <1>1, <3>1 DEF RegInv, SweepInv
    <3>2. ASSUME NEW older, NEW only, ChooseJobs(older, only) PROVE SweepInv'
      <4> DEFINE chosen == {r \in WorkIds \cap known : /\ entry[r].status \in Terminal
                                                       /\ only => entry[r].status = "completed"
                                                       /\ age[r] > older}
      <4>1. sweep' = [at |-> "removing", chosen |-> chosen]
        BY <3>2 DEF ChooseJobs
      <4>2. chosen \in SUBSET (WorkIds \cap known) /\ \A r \in chosen : entry[r].status \in Terminal
        OBVIOUS
      <4> HIDE DEF chosen
      <4> QED
        BY <1>1, <4>1, <4>2 DEF SweepInv, Entries
    <3> QED
      BY <1>1, <3>1, <3>2
  <2> QED
    BY <2>1, <2>2, <2>3 DEF RegInv
<1>2. ASSUME NEW older, NEW only, ChooseJobs(older, only) PROVE RegInv'
  BY <1>1, <1>2 DEF ChooseJobs, registryState
<1>3. CASE GrowOlder
  BY <1>1, <1>3 DEF GrowOlder
<1>4. CASE UNCHANGED registriesVars
  BY <1>1, <1>4 DEF registriesVars, registryState
<1>5. ASSUME NEW r \in Entries,
             \/ CreateRun(r) \/ CreateJob(r) \/ Open(r) \/ EndFromOutside(r)
             \/ GoOnStreaming(r) \/ AskStatus(r) \/ AskEvents(r)
             \/ \E failed \in BOOLEAN : Close(r, failed)
      PROVE  RegInv'
  BY <1>5, CreateSound, UsersSound, AskersSound
<1>6. ASSUME NEW r \in RunIds, RecordRunEvent(r) PROVE RegInv'
  BY <1>6, EventSound
<1>7. ASSUME NEW k \in {"probes", "jobs"}, Write(k) PROVE RegInv'
  BY <1>7, WriteSound
<1>8. CASE ReadEvents \/ ReadField \/ AnswerSent
  BY <1>8, AskersSound
<1>9. ASSUME \/ \E older, only : CleanRuns(older, only)
             \/ \E retention : CleanJobs(retention)
             \/ \E r \in WorkIds : RemoveJob(r)
      PROVE  RegInv'
  BY <1>9, CleanUpsSound
<1> QED
  BY <1>2, <1>3, <1>4, <1>5, <1>6, <1>7, <1>8, <1>9 DEF RegistriesNext

LEMMA RegSound == RegInv => RegistriesSound
<1> SUFFICES ASSUME RegInv PROVE RegistriesSound
  OBVIOUS
<1> USE DEF RegInv
<1>1. RunsConsistent
  <2> SUFFICES ASSUME Unlocked("probes"), NEW r \in RunIds \cap known
               PROVE  /\ entry[r].count = nextSeq[r]
                      /\ Len(recent[r]) = (IF nextSeq[r] < RecentLimit THEN nextSeq[r] ELSE RecentLimit)
                      /\ \A i \in 1..Len(recent[r]) : recent[r][i] = nextSeq[r] - Len(recent[r]) + i - 1
                      /\ entry[r].summary.status \in {entry[r].status, "none"}
                      /\ entry[r].summary.count = entry[r].count
    BY DEF RunsConsistent
  <2>1. ~BeingWritten(r) /\ r \in Entries
    BY KindsOf, FreeOf DEF Entries
  <2>2. EntrySound(r, entry[r]) /\ entry[r].count = nextSeq[r]
    BY <2>1, StillSound DEF GoalSound
  <2> QED
    BY <2>2 DEF EntrySound, RecentInv
<1>2. RemovedWhenOver
  <2> SUFFICES ASSUME NEW r \in Entries, r \in known => user[r] = "closed" /\ ~BeingWritten(r)
               PROVE  /\ user[r] \notin {"away", "new"} /\ r \notin known =>
                             entry[r].status \in Terminal \cup (IF r \in RunIds THEN {"created"} ELSE {})
                      /\ r \in known => entry[r].status \in Terminal
    BY DEF RemovedWhenOver
  <2>1. ~BeingWritten(r)
    BY KindsOf DEF BeingWritten, RegTypes, Unheld
  <2>2. StatusDue(r, entry[r].status)
    BY <2>1, StillSound DEF GoalSound
  <2> QED
    BY <2>2 DEF StatusDue
<1>3. AnswersAddUp
  <2> SUFFICES ASSUME Answered PROVE AnswersAddUp
    BY DEF AnswersAddUp
  <2> DEFINE r == answer.of
             got == answer.got
             torn == answer.torn
  <2>1. /\ r \in Entries /\ Len(got) = (IF r \in RunIds THEN 5 ELSE 4)
        /\ ReadSound(r, entry[r], got, torn, answer.events)
    BY DEF Answered, AnswerInv, FieldsOf
  <2> HIDE DEF r, got, torn
  <2>2. got[1] \in Terminal /\ ~torn => got[2] = TRUE /\ (got[1] = "failed" => got[4] = TRUE)
    BY <2>1 DEF ReadSound
  <2>3. CASE r \in RunIds
    <3>1. got[1] \in Terminal /\ ~torn => got[5].status = got[1]
      BY <2>1, <2>3 DEF ReadSound
    <3>2. (answer.events # <<>> => Last(answer.events) < got[3]) /\ (~torn => got[5].count >= got[3])
      BY <2>1, <2>3 DEF ReadSound
    <3>3. answer.events # <<>> => got[3] > Last(answer.events)
      <4>1. ASSUME answer.events # <<>> PROVE Last(answer.events) \in Nat
        <5>1. answer.events \in Seq(Nat)
          BY DEF AnswerInv, Answers
        <5> QED
          BY <4>1, <5>1 DEF Last
      <4>2. got[3] \in Nat
        BY <2>1, <2>3 DEF ReadSound
      <4> QED
        BY <3>2, <4>1, <4>2
    <3> QED
      BY <2>2, <2>3, <3>1, <3>2, <3>3 DEF AnswersAddUp, r, got, torn
  <2>4. CASE r \notin RunIds
    <3>1. got[1] \in Terminal /\ ~torn => got[3].status = got[1]
      BY <2>1, <2>4 DEF ReadSound
    <3> QED
      BY <2>2, <2>4, <3>1 DEF AnswersAddUp, r, got, torn
  <2> QED
    BY <2>3, <2>4
<1> QED
  BY <1>1, <1>2, <1>3 DEF RegistriesSound

\* Whatever runs, jobs, interruptions, queries and clean-ups meet: a record outside its
\* changes adds up with the events of its run, only what is over or not begun is removed,
\* and an answer that met no change adds up.
THEOREM RegistriesAreSound == RegistriesSpec => []RegistriesSound
<1> QED
  BY RegInit, RegStep, RegSound, PTL DEF RegistriesSpec

-----------------------------------------------------------------------------
(* Counts of observations *)

Observations == CountedIds \X Nat
Counting == {"found", "count", "error"}
AdderStates == [at : Counting \cup {"idle", "buffer"}, obs : Observations \cup {<<>>},
                failed : BOOLEAN, read : Nat]
CountPair == [count : Nat, errors : Nat]

CountTypes ==
    /\ IsFiniteSet(watches) /\ watches \subseteq wasWatch /\ wasWatch \subseteq CountedIds
    /\ counters \in [CountedIds -> CountPair] /\ tally \in [CountedIds -> CountPair]
    /\ statsLock \in Adders \cup {NobodyHolds}
    /\ adder \in [Adders -> AdderStates]
    /\ sent \in Seq(Observations) /\ dropped \subseteq Observations
    /\ made \in [CountedIds -> Nat]

\* Who counts holds the lock, and counts a watch that was registered.
LockInv ==
    \A t \in Adders :
        /\ adder[t].at \in Counting <=> statsLock = t
        /\ adder[t].at # "idle" => adder[t].obs \in Observations
        /\ adder[t].at \in Counting => adder[t].obs[1] \in wasWatch
        /\ adder[t].at = "count" => adder[t].read = counters[adder[t].obs[1]].count
        /\ adder[t].at = "error" => adder[t].failed

\* What thread t has still to add to the counts of w.
CountDue(t, w) == adder[t].at = "count" /\ adder[t].obs[1] = w
ErrorDue(t, w) == adder[t].at \in {"count", "error"} /\ adder[t].failed /\ adder[t].obs[1] = w

\* The counts are behind by what the holder has still to add, the errors no more than that.
TallySound(w) ==
    /\ w \notin wasWatch => counters[w] = NoCounts /\ tally[w] = NoCounts
    /\ counters[w].errors <= counters[w].count
    /\ \A t \in Adders : adder[t].at = "error" /\ adder[t].obs[1] = w
                            => counters[w].errors < counters[w].count
    /\ IF \E t \in Adders : CountDue(t, w)
       THEN tally[w].count = counters[w].count + 1 ELSE tally[w].count = counters[w].count
    /\ IF \E t \in Adders : ErrorDue(t, w)
       THEN tally[w].errors = counters[w].errors + 1 ELSE tally[w].errors = counters[w].errors

TallyInv == \A w \in CountedIds : TallySound(w)

\* What was dropped is of watches that are over, one of each.
DropInv ==
    /\ \A o \in dropped : o[1] \in wasWatch \ watches
    /\ \A o, p \in dropped : o[1] = p[1] => o = p
    /\ \A t \in Adders : adder[t].at = "found" => \A o \in dropped : o[1] # adder[t].obs[1]

ExactInv == CountTypes /\ LockInv /\ TallyInv /\ DropInv /\ ring = LastOf(sent)

LEMMA ExactInit == ObserverInit => ExactInv
<1> SUFFICES ASSUME ObserverInit PROVE ExactInv
  OBVIOUS
<1>1. CountTypes
  BY FS_EmptySet DEF ObserverInit, CountTypes, AdderStates, CountPair, NotAdding, NoCounts, Counting
<1>2. LockInv
  BY ObserverAssumption DEF ObserverInit, LockInv, NotAdding, Counting
<1>3. TallyInv
  BY DEF ObserverInit, TallyInv, TallySound, NotAdding, NoCounts, CountDue, ErrorDue
<1>4. DropInv
  BY DEF ObserverInit, DropInv, NotAdding
<1>5. ring = LastOf(sent)
  BY ObserverAssumption DEF ObserverInit, LastOf
<1> QED
  BY <1>1, <1>2, <1>3, <1>4, <1>5 DEF ExactInv

LEMMA RegisterExact == ASSUME ExactInv, NEW w \in CountedIds, RegisterWatch(w) PROVE ExactInv'
<1> USE DEF ExactInv
<1>1. CountTypes'
  <2>1. IsFiniteSet(watches \cup {w})
    BY FS_AddElement DEF CountTypes
  <2> QED
    BY <2>1 DEF RegisterWatch, CountTypes, CountPair, NoCounts
<1>3. counters[w] = NoCounts /\ counters' = counters
  BY DEF RegisterWatch, TallyInv, TallySound, CountTypes
<1>2. LockInv'
  BY <1>3 DEF RegisterWatch, LockInv
<1>4. TallyInv'
  BY <1>3 DEF RegisterWatch, TallyInv, TallySound, CountDue, ErrorDue
<1>5. DropInv'
  BY DEF RegisterWatch, DropInv
<1>6. (ring = LastOf(sent))'
  BY DEF RegisterWatch, LastOf
<1> QED
  BY <1>1, <1>2, <1>4, <1>5, <1>6

LEMMA EndExact ==
    ASSUME ExactInv, (\E w \in CountedIds : UnregisterWatch(w)) \/ ClearAll
    PROVE  ExactInv'
<1> USE DEF ExactInv
<1>1. /\ watches' \subseteq watches /\ UNCHANGED <<counters, statsLock, wasWatch, made, adder, tally, dropped>>
      /\ UNCHANGED <<ring, sent>> \/ (ring' = <<>> /\ sent' = <<>>)
  BY DEF UnregisterWatch, ClearAll
<1>2. CountTypes'
  <2>1. IsFiniteSet(watches')
    BY <1>1, FS_Subset DEF CountTypes
  <2>2. sent' \in Seq(Observations)
    <3>1. sent \in Seq(Observations) /\ <<>> \in Seq(Observations)
      BY DEF CountTypes
    <3> QED
      BY <1>1, <3>1
  <2> QED
    BY <1>1, <2>1, <2>2 DEF CountTypes
<1>3. LockInv' /\ TallyInv' /\ DropInv'
  BY <1>1 DEF LockInv, TallyInv, TallySound, DropInv, CountDue, ErrorDue
<1>4. (ring = LastOf(sent))'
  <2>1. LastOf(<<>>) = <<>>
    BY ObserverAssumption DEF LastOf
  <2>2. ring' = LastOf(sent')
    BY <1>1, <2>1
  <2> QED
    BY <2>2 DEF LastOf
<1> QED
  BY <1>2, <1>3, <1>4

LEMMA AskExact ==
    ASSUME ExactInv, UNCHANGED <<counts, adder, ring, tally, dropped, sent>> PROVE ExactInv'
BY DEF ExactInv, counts, CountTypes, LockInv, TallyInv, TallySound, DropInv, CountDue, ErrorDue, LastOf

LEMMA FindExact ==
    ASSUME ExactInv, NEW t \in Adders, NEW w \in CountedIds, NEW failed \in BOOLEAN,
           FindWatch(t, w, failed)
    PROVE  ExactInv'
<1> USE DEF ExactInv
<1> DEFINE rec == [at |-> IF w \in watches THEN "found" ELSE "buffer",
                   obs |-> <<w, made[w] + 1>>, failed |-> failed, read |-> 0]
<1>1. rec \in AdderStates /\ rec.at \in {"found", "buffer"} /\ rec.obs[1] = w /\ rec.obs \in Observations
      /\ (rec.at = "found" <=> w \in watches)
  BY DEF AdderStates, Observations, Counting, CountTypes
<1>2. /\ adder'[t] = rec /\ adder' \in [Adders -> AdderStates] /\ \A u \in Adders \ {t} : adder'[u] = adder[u]
      /\ statsLock = NobodyHolds /\ statsLock' = IF w \in watches THEN t ELSE NobodyHolds
      /\ adder[t].at = "idle"
      /\ UNCHANGED <<watches, counters, wasWatch, clears, ring, asker, tally, dropped, sent>>
  BY <1>1 DEF FindWatch, CountTypes, StatsLockFree
<1>3. CountTypes'
  BY <1>2 DEF CountTypes, FindWatch
<1> HIDE DEF rec
<1>4. \A u \in Adders : adder[u].at \notin Counting
  BY <1>2, ObserverAssumption DEF LockInv
<1>5. LockInv'
  BY <1>1, <1>2, <1>4, ObserverAssumption DEF LockInv, Counting, CountTypes
<1>6. \A u \in Adders, v \in CountedIds : CountDue(u, v)' = CountDue(u, v) /\ ErrorDue(u, v)' = ErrorDue(u, v)
  BY <1>1, <1>2, <1>4 DEF CountDue, ErrorDue, Counting
<1>7. TallyInv'
  BY <1>1, <1>2, <1>6 DEF TallyInv, TallySound
<1>8. DropInv'
  BY <1>1, <1>2, <1>4 DEF DropInv, Counting
<1>9. (ring = LastOf(sent))'
  BY <1>2 DEF LastOf
<1> QED
  BY <1>3, <1>5, <1>7, <1>8, <1>9

LEMMA LookUpExact == ASSUME ExactInv, NEW t \in Adders, LookUp(t) PROVE ExactInv'
<1> USE DEF ExactInv
<1> DEFINE w == adder[t].obs[1]
<1>1. /\ adder[t].at = "found" /\ statsLock = t /\ w \in wasWatch /\ w \in CountedIds
      /\ adder[t].obs \in Observations /\ adder[t] \in AdderStates /\ NobodyHolds # t
      /\ \A u \in Adders \ {t} : adder[u].at \notin Counting
      /\ UNCHANGED <<watches, counters, wasWatch, made, clears, ring, asker, sent>>
  BY ObserverAssumption DEF LookUp, LockInv, Counting, CountTypes
<1>0. (ring = LastOf(sent))'
  BY <1>1 DEF LastOf
<1>2. CASE w \in watches
  <2> DEFINE rec == [adder[t] EXCEPT !.at = "count", !.read = counters[w].count]
             more == [count |-> tally[w].count + 1,
                      errors |-> tally[w].errors + (IF adder[t].failed THEN 1 ELSE 0)]
  <2>1. /\ adder' = [adder EXCEPT ![t] = rec] /\ tally' = [tally EXCEPT ![w] = more]
        /\ UNCHANGED <<statsLock, dropped>>
    BY <1>2 DEF LookUp
  <2>2. rec \in AdderStates /\ rec.at = "count" /\ rec.obs = adder[t].obs /\ rec.failed = adder[t].failed
        /\ rec.read = counters[w].count
    BY <1>1 DEF AdderStates, Counting, CountTypes, CountPair
  <2>3. more \in CountPair /\ more.count = tally[w].count + 1
        /\ more.errors = tally[w].errors + (IF adder[t].failed THEN 1 ELSE 0)
    <3>1. tally[w] \in CountPair /\ adder[t].failed \in BOOLEAN
      BY <1>1 DEF CountTypes, AdderStates
    <3>2. (IF adder[t].failed THEN 1 ELSE 0) \in Nat
      OBVIOUS
    <3> DEFINE one == IF adder[t].failed THEN 1 ELSE 0
    <3> HIDE DEF one
    <3>3. more = [count |-> tally[w].count + 1, errors |-> tally[w].errors + one]
      BY DEF one
    <3>4. more.errors = tally[w].errors + one /\ more.count = tally[w].count + 1 /\ more \in CountPair
      BY <3>1, <3>2, <3>3 DEF CountPair, one
    <3> QED
      BY <3>4 DEF one
  <2> HIDE DEF rec, more, w
  <2>4. CountTypes'
    BY <1>1, <2>1, <2>2, <2>3 DEF CountTypes
  <2>5. adder'[t] = rec /\ \A u \in Adders \ {t} : adder'[u] = adder[u]
    BY <2>1 DEF CountTypes
  <2>6. LockInv'
    BY <1>1, <2>1, <2>2, <2>5 DEF LockInv, Counting, w
  <2>7. /\ \A v \in CountedIds : (\E u \in Adders : CountDue(u, v)') <=> v = w
        /\ \A v \in CountedIds : (\E u \in Adders : ErrorDue(u, v)') <=> v = w /\ adder[t].failed
        /\ \A v \in CountedIds : ~(\E u \in Adders : CountDue(u, v)) /\ ~(\E u \in Adders : ErrorDue(u, v))
    BY <1>1, <2>2, <2>5 DEF CountDue, ErrorDue, Counting, w
  <2>8. TallyInv'
    <3>1. \A v \in CountedIds : tally'[v] = IF v = w THEN more ELSE tally[v]
      BY <2>1 DEF CountTypes
    <3>2. \A u \in Adders : adder'[u].at # "error"
      BY <1>1, <2>2, <2>5 DEF Counting
    <3>3. adder[t].failed \in BOOLEAN /\ counters[w] \in CountPair /\ tally[w] \in CountPair
      BY <1>1 DEF AdderStates, CountTypes
    <3>4. ASSUME NEW v \in CountedIds PROVE TallySound(v)'
      <4>1. CASE v # w
        <5>1. tally'[v] = tally[v] /\ counters'[v] = counters[v] /\ wasWatch' = wasWatch
          BY <1>1, <3>1, <4>1
        <5> QED
          BY <2>7, <3>2, <4>1, <5>1 DEF TallyInv, TallySound
      <4>2. CASE v = w
        <5>1. tally'[w] = more /\ counters' = counters /\ w \in wasWatch'
          BY <1>1, <3>1
        <5>2. tally[w].count = counters[w].count /\ tally[w].errors = counters[w].errors
              /\ counters[w].errors <= counters[w].count
          BY <1>1, <2>7 DEF TallyInv, TallySound
        <5>3. more.count = counters[w].count + 1
              /\ (adder[t].failed => more.errors = counters[w].errors + 1)
              /\ (~adder[t].failed => more.errors = counters[w].errors)
          BY <2>3, <3>3, <5>2 DEF CountPair
        <5> QED
          BY <1>1, <2>7, <3>2, <3>3, <4>2, <5>1, <5>2, <5>3 DEF TallySound
      <4> QED
        BY <4>1, <4>2
    <3> QED
      BY <3>4 DEF TallyInv
  <2>9. DropInv'
    BY <1>1, <2>1, <2>2, <2>5 DEF DropInv, Counting
  <2> QED
    BY <1>0, <2>4, <2>6, <2>8, <2>9
<1>3. CASE w \notin watches
  <2>1. /\ adder' = [adder EXCEPT ![t] = NotAdding] /\ statsLock' = NobodyHolds
        /\ dropped' = dropped \cup {adder[t].obs} /\ UNCHANGED tally
    BY <1>1, <1>3 DEF LookUp, Leaves
  <2>2. NotAdding \in AdderStates /\ NotAdding.at = "idle"
    BY DEF NotAdding, AdderStates
  <2> HIDE DEF w
  <2>3. adder'[t] = NotAdding /\ \A u \in Adders \ {t} : adder'[u] = adder[u]
    BY <2>1 DEF CountTypes
  <2>4. CountTypes'
    BY <1>1, <2>1, <2>2 DEF CountTypes
  <2>5. LockInv'
    BY <1>1, <2>1, <2>2, <2>3, ObserverAssumption DEF LockInv, Counting
  <2>6. \A u \in Adders, v \in CountedIds : CountDue(u, v)' = CountDue(u, v) /\ ErrorDue(u, v)' = ErrorDue(u, v)
    BY <1>1, <2>2, <2>3 DEF CountDue, ErrorDue
  <2>7. TallyInv'
    BY <1>1, <2>1, <2>2, <2>3, <2>6 DEF TallyInv, TallySound
  <2>8. DropInv'
    BY <1>1, <1>3, <2>1, <2>2, <2>3 DEF DropInv, Counting, w
  <2> QED
    BY <1>0, <2>4, <2>5, <2>7, <2>8
<1> QED
  BY <1>2, <1>3

LEMMA CountUpExact == ASSUME ExactInv, NEW t \in Adders, CountUp(t) PROVE ExactInv'
<1> USE DEF ExactInv
<1> DEFINE w == adder[t].obs[1]
           rec == [adder[t] EXCEPT !.at = IF adder[t].failed THEN "error" ELSE "buffer"]
<1>1. /\ adder[t].at = "count" /\ statsLock = t /\ w \in wasWatch /\ w \in CountedIds
      /\ adder[t].obs \in Observations /\ adder[t] \in AdderStates /\ NobodyHolds # t
      /\ adder[t].read = counters[w].count
      /\ \A u \in Adders \ {t} : adder[u].at \notin Counting
      /\ UNCHANGED <<watches, wasWatch, made, clears, ring, tally, dropped, sent>>
  BY ObserverAssumption DEF CountUp, LockInv, Counting, CountTypes, Observations
<1>2. /\ counters' = [counters EXCEPT ![w].count = counters[w].count + 1]
      /\ adder' = [adder EXCEPT ![t] = rec]
      /\ statsLock' = IF adder[t].failed THEN t ELSE NobodyHolds
  BY <1>1 DEF CountUp, Adds, Leaves, CountTypes
<1>3. rec \in AdderStates /\ rec.at = (IF adder[t].failed THEN "error" ELSE "buffer")
      /\ rec.obs = adder[t].obs /\ rec.failed = adder[t].failed /\ adder[t].failed \in BOOLEAN
  BY <1>1 DEF AdderStates, Counting
<1> HIDE DEF rec, w
<1>4. /\ counters' \in [CountedIds -> CountPair] /\ counters'[w].count = counters[w].count + 1
      /\ counters'[w].errors = counters[w].errors /\ \A v \in CountedIds \ {w} : counters'[v] = counters[v]
  <2> DEFINE pair == [counters[w] EXCEPT !.count = counters[w].count + 1]
  <2>1. counters' = [counters EXCEPT ![w] = pair] /\ counters[w] \in CountPair
    BY <1>1, <1>2 DEF CountTypes
  <2>2. pair \in CountPair /\ pair.count = counters[w].count + 1 /\ pair.errors = counters[w].errors
    BY <2>1 DEF CountPair
  <2> HIDE DEF pair
  <2> QED
    BY <1>1, <2>1, <2>2 DEF CountTypes
<1>5. CountTypes'
  BY <1>1, <1>2, <1>3, <1>4 DEF CountTypes
<1>6. adder'[t] = rec /\ \A u \in Adders \ {t} : adder'[u] = adder[u]
  BY <1>2 DEF CountTypes
<1>7. LockInv'
  BY <1>1, <1>2, <1>3, <1>6, ObserverAssumption DEF LockInv, Counting, w
<1>8. /\ \A v \in CountedIds : (\E u \in Adders : CountDue(u, v)) <=> v = w
      /\ \A v \in CountedIds : (\E u \in Adders : ErrorDue(u, v)) <=> v = w /\ adder[t].failed
      /\ \A v \in CountedIds : ~(\E u \in Adders : CountDue(u, v)')
      /\ \A v \in CountedIds : (\E u \in Adders : ErrorDue(u, v)') <=> v = w /\ adder[t].failed
  BY <1>1, <1>3, <1>6 DEF CountDue, ErrorDue, Counting, w
<1>9. TallyInv'
  <2>1. \A u \in Adders : adder'[u].at = "error" => u = t /\ adder'[u].obs[1] = w
    BY <1>1, <1>3, <1>6 DEF Counting, w
  <2>2. adder[t].failed \in BOOLEAN /\ counters[w] \in CountPair /\ tally[w] \in CountPair
    BY <1>1 DEF AdderStates, CountTypes
  <2>3. ASSUME NEW v \in CountedIds PROVE TallySound(v)'
    <3>1. CASE v # w
      <4>1. tally'[v] = tally[v] /\ counters'[v] = counters[v] /\ wasWatch' = wasWatch
        BY <1>1, <1>4, <3>1
      <4> QED
        BY <1>8, <2>1, <3>1, <4>1 DEF TallyInv, TallySound
    <3>2. CASE v = w
      <4>1. tally'[w] = tally[w] /\ w \in wasWatch'
        BY <1>1
      <4>2. tally[w].count = counters[w].count + 1 /\ counters[w].errors <= counters[w].count
        BY <1>1, <1>8 DEF TallyInv, TallySound
      <4>3. IF adder[t].failed THEN tally[w].errors = counters[w].errors + 1
                               ELSE tally[w].errors = counters[w].errors
        BY <1>1, <1>8 DEF TallyInv, TallySound
      <4>4. counters'[w].count = tally[w].count /\ counters'[w].errors = counters[w].errors
            /\ counters'[w].errors < counters'[w].count /\ counters'[w].errors <= counters'[w].count
        BY <1>4, <2>2, <4>2 DEF CountPair
      <4>5. ~(\E u \in Adders : CountDue(u, v)') /\ ((\E u \in Adders : ErrorDue(u, v)') <=> adder[t].failed)
        BY <1>8, <3>2
      <4>6. CASE adder[t].failed
        BY <3>2, <4>1, <4>3, <4>4, <4>5, <4>6 DEF TallySound
      <4>7. CASE ~adder[t].failed
        BY <3>2, <4>1, <4>3, <4>4, <4>5, <4>7 DEF TallySound
      <4> QED
        BY <4>6, <4>7
    <3> QED
      BY <3>1, <3>2
  <2> QED
    BY <2>3 DEF TallyInv
<1>10. DropInv'
  BY <1>1, <1>3, <1>6 DEF DropInv, Counting
<1>11. (ring = LastOf(sent))'
  BY <1>1 DEF LastOf
<1> QED
  BY <1>5, <1>7, <1>9, <1>10, <1>11

LEMMA ErrorUpExact == ASSUME ExactInv, NEW t \in Adders, ErrorUp(t) PROVE ExactInv'
<1> USE DEF ExactInv
<1> DEFINE w == adder[t].obs[1]
           rec == [adder[t] EXCEPT !.at = "buffer"]
<1>1. /\ adder[t].at = "error" /\ statsLock = t /\ w \in wasWatch /\ w \in CountedIds
      /\ adder[t].obs \in Observations /\ adder[t] \in AdderStates /\ NobodyHolds # t
      /\ adder[t].failed
      /\ \A u \in Adders \ {t} : adder[u].at \notin Counting
      /\ UNCHANGED <<watches, wasWatch, made, clears, ring, tally, dropped, sent>>
  BY ObserverAssumption DEF ErrorUp, LockInv, Counting, CountTypes, Observations
<1>2. /\ counters' = [counters EXCEPT ![w].errors = counters[w].errors + 1]
      /\ adder' = [adder EXCEPT ![t] = rec]
      /\ statsLock' = NobodyHolds
  BY <1>1 DEF ErrorUp, Adds, Leaves, CountTypes
<1>3. rec \in AdderStates /\ rec.at = "buffer" /\ rec.obs = adder[t].obs
  BY <1>1 DEF AdderStates, Counting
<1> HIDE DEF rec, w
<1>4. /\ counters' \in [CountedIds -> CountPair] /\ counters'[w].count = counters[w].count
      /\ counters'[w].errors = counters[w].errors + 1 /\ \A v \in CountedIds \ {w} : counters'[v] = counters[v]
  <2> DEFINE pair == [counters[w] EXCEPT !.errors = counters[w].errors + 1]
  <2>1. counters' = [counters EXCEPT ![w] = pair] /\ counters[w] \in CountPair
    BY <1>1, <1>2 DEF CountTypes
  <2>2. pair \in CountPair /\ pair.errors = counters[w].errors + 1 /\ pair.count = counters[w].count
    BY <2>1 DEF CountPair
  <2> HIDE DEF pair
  <2> QED
    BY <1>1, <2>1, <2>2 DEF CountTypes
<1>5. CountTypes'
  BY <1>1, <1>2, <1>3, <1>4 DEF CountTypes
<1>6. adder'[t] = rec /\ \A u \in Adders \ {t} : adder'[u] = adder[u]
  BY <1>2 DEF CountTypes
<1>7. LockInv'
  BY <1>1, <1>2, <1>3, <1>6, ObserverAssumption DEF LockInv, Counting, w
<1>8. /\ \A v \in CountedIds : ~(\E u \in Adders : CountDue(u, v)) /\ ~(\E u \in Adders : CountDue(u, v)')
      /\ \A v \in CountedIds : (\E u \in Adders : ErrorDue(u, v)) <=> v = w
      /\ \A v \in CountedIds : ~(\E u \in Adders : ErrorDue(u, v)')
  BY <1>1, <1>3, <1>6 DEF CountDue, ErrorDue, Counting, w
<1>9. TallyInv'
  <2>1. \A u \in Adders : adder'[u].at # "error"
    BY <1>1, <1>3, <1>6 DEF Counting
  <2>2. counters[w].errors < counters[w].count
    BY <1>1 DEF TallyInv, TallySound, w
  <2>3. ASSUME NEW v \in CountedIds PROVE TallySound(v)'
    <3>1. /\ counters[v].count \in Nat /\ counters[v].errors \in Nat
          /\ counters'[v].count = counters[v].count
          /\ counters'[v].errors = IF v = w THEN counters[v].errors + 1 ELSE counters[v].errors
          /\ v # w => counters'[v] = counters[v]
      BY <1>4 DEF CountTypes, CountPair
    <3>2. TallySound(v) /\ tally' = tally /\ wasWatch' = wasWatch
      BY <1>1 DEF TallyInv
    <3>3. v \notin wasWatch => counters'[v] = counters[v]
      BY <1>1, <3>1
    <3>4. counters'[v].errors <= counters'[v].count
      BY <2>2, <3>1, <3>2 DEF TallySound
    <3>5. tally[v].count = counters'[v].count /\ tally[v].errors = counters'[v].errors
      BY <1>8, <3>1, <3>2 DEF TallySound
    <3> QED
      BY <1>8, <2>1, <3>2, <3>3, <3>4, <3>5 DEF TallySound
  <2> QED
    BY <2>3 DEF TallyInv
<1>10. DropInv'
  BY <1>1, <1>3, <1>6 DEF DropInv, Counting
<1>11. (ring = LastOf(sent))'
  BY <1>1 DEF LastOf
<1> QED
  BY <1>5, <1>7, <1>9, <1>10, <1>11

\* What is left of a sequence without its first k elements.
LEMMA WithoutFirst ==
    ASSUME NEW S, NEW s \in Seq(S), NEW k \in 0..Len(s)
    PROVE  /\ SubSeq(s, 1 + k, Len(s)) \in Seq(S)
           /\ Len(SubSeq(s, 1 + k, Len(s))) = Len(s) - k
           /\ \A i \in 1..Len(s) - k : SubSeq(s, 1 + k, Len(s))[i] = s[k + i]
<1> DEFINE m == 1 + k
           n == Len(s)
<1>1. k \in Nat /\ n \in Nat /\ m \in Int /\ n \in Int /\ k <= n /\ \A i \in m..n : s[i] \in S
  OBVIOUS
<1>2. /\ IF m <= n THEN n - m + 1 = n - k ELSE n - k = 0
      /\ n - m + 1 = n - k /\ \A i \in 1..n - k : m + i - 1 = k + i
  BY <1>1
<1> HIDE DEF m, n
<1>3. /\ SubSeq(s, m, n) \in Seq(S) /\ Len(SubSeq(s, m, n)) = IF m <= n THEN n - m + 1 ELSE 0
      /\ \A i \in 1..n - m + 1 : SubSeq(s, m, n)[i] = s[m + i - 1]
  BY <1>1, SubSeqProperties
<1>4. Len(SubSeq(s, m, n)) = n - k
  BY <1>2, <1>3, Zenon
<1>5. ASSUME NEW i \in 1..n - k PROVE SubSeq(s, m, n)[i] = s[k + i]
  BY <1>2, <1>3, Zenon
<1> QED
  BY <1>3, <1>4, <1>5 DEF m, n

\* The last of a sequence that is longer by one are the last of its last and the new one.
LEMMA LastOfAppended ==
    ASSUME NEW s \in Seq(Observations), NEW x \in Observations
    PROVE  LastOf(Append(LastOf(s), x)) = LastOf(Append(s, x))
<1> DEFINE n == Len(s)
           k == IF n > BufferSize THEN n - BufferSize ELSE 0
           l == SubSeq(s, 1 + k, n)
           a == Append(s, x)
           b == Append(l, x)
           j == IF Len(b) > BufferSize THEN Len(b) - BufferSize ELSE 0
           i == IF Len(a) > BufferSize THEN Len(a) - BufferSize ELSE 0
<1>1. n \in Nat /\ BufferSize \in Nat \ {0} /\ k \in 0..n /\ 1 + k \in 1..n + 1
  BY ObserverAssumption
<1>2. l \in Seq(Observations) /\ Len(l) = n - k /\ \A m \in 1..n - k : l[m] = s[k + m]
  BY <1>1, WithoutFirst
<1>3. a \in Seq(Observations) /\ Len(a) = n + 1 /\ (\A m \in 1..n : a[m] = s[m]) /\ a[n + 1] = x
  BY <1>1
<1>4. b \in Seq(Observations) /\ Len(b) = n - k + 1 /\ (\A m \in 1..n - k : b[m] = l[m]) /\ b[n - k + 1] = x
  <2> HIDE DEF l, n, k
  <2> QED
    BY <1>1, <1>2, AppendProperties
<1> HIDE DEF l, a, b, n
<1>5. i = j + k /\ i \in 0..n /\ j \in 0..n - k
  BY <1>1, <1>3, <1>4
<1> HIDE DEF i, j, k
<1> DEFINE p == SubSeq(b, 1 + j, n - k + 1)
           q == SubSeq(a, 1 + i, n + 1)
<1>6. p \in Seq(Observations) /\ Len(p) = n - k + 1 - j /\ \A m \in 1..n - k + 1 - j : p[m] = b[j + m]
  <2>1. b \in Seq(Observations) /\ Len(b) = n - k + 1 /\ j \in 0..Len(b)
    BY <1>1, <1>4, <1>5
  <2> DEFINE whole == SubSeq(b, 1 + j, Len(b))
  <2>2. /\ whole \in Seq(Observations) /\ Len(whole) = Len(b) - j
        /\ \A m \in 1..Len(b) - j : whole[m] = b[j + m]
    BY <2>1, WithoutFirst
  <2>3. p = whole
    BY <2>1
  <2> HIDE DEF whole, p
  <2>4. Len(b) - j = n - k + 1 - j
    BY <1>1, <2>1
  <2> QED
    BY <2>2, <2>3, <2>4
<1>7. q \in Seq(Observations) /\ Len(q) = n + 1 - i /\ \A m \in 1..n + 1 - i : q[m] = a[i + m]
  <2>1. a \in Seq(Observations) /\ Len(a) = n + 1 /\ i \in 0..Len(a)
    BY <1>1, <1>3, <1>5
  <2> DEFINE whole == SubSeq(a, 1 + i, Len(a))
  <2>2. /\ whole \in Seq(Observations) /\ Len(whole) = Len(a) - i
        /\ \A m \in 1..Len(a) - i : whole[m] = a[i + m]
    BY <2>1, WithoutFirst
  <2>3. q = whole
    BY <2>1
  <2> HIDE DEF whole, q
  <2>4. Len(a) - i = n + 1 - i
    BY <1>1, <2>1
  <2> QED
    BY <2>2, <2>3, <2>4
<1>8. Len(p) = Len(q)
  BY <1>1, <1>5, <1>6, <1>7
<1>9. ASSUME NEW m \in 1..Len(p) PROVE p[m] = q[m]
  <2>1. p[m] = b[j + m] /\ q[m] = a[j + k + m]
    BY <1>1, <1>5, <1>6, <1>7, <1>9
  <2>2. CASE j + m = n - k + 1
    <3>1. j + k + m = n + 1
      <4>1. n \in Nat /\ k \in Nat /\ j \in Nat /\ m \in Int
        BY <1>1, <1>5, <1>6
      <4> HIDE DEF p, q
      <4> QED
        BY <2>2, <4>1
    <3> QED
      BY <1>3, <1>4, <2>1, <2>2, <3>1
  <2>3. CASE j + m # n - k + 1
    <3>1. j + m \in 1..n - k /\ j + k + m = k + (j + m) /\ j + k + m \in 1..n
      BY <1>1, <1>5, <1>6, <2>3
    <3> QED
      BY <1>2, <1>3, <1>4, <2>1, <3>1
  <2> QED
    BY <2>2, <2>3
<1> HIDE DEF p, q
<1>10. p = q
  BY <1>6, <1>7, <1>8, <1>9, SeqEqual
<1> QED
  BY <1>3, <1>4, <1>10 DEF LastOf, l, k, n, a, b, p, q, i, j

LEMMA FillExact == ASSUME ExactInv, NEW t \in Adders, FillBuffer(t) PROVE ExactInv'
<1> USE DEF ExactInv
<1>1. /\ adder[t].at = "buffer" /\ adder[t].obs \in Observations
      /\ ring' = LastOf(Append(ring, adder[t].obs)) /\ sent' = Append(sent, adder[t].obs)
      /\ adder' = [adder EXCEPT ![t] = NotAdding]
      /\ UNCHANGED <<watches, counters, statsLock, wasWatch, made, tally, dropped>>
  BY DEF FillBuffer, LockInv, counts
<1>2. NotAdding \in AdderStates /\ NotAdding.at = "idle"
  BY DEF NotAdding, AdderStates
<1>3. CountTypes'
  BY <1>1, <1>2 DEF CountTypes
<1>4. adder'[t] = NotAdding /\ \A u \in Adders \ {t} : adder'[u] = adder[u]
  BY <1>1 DEF CountTypes
<1>5. LockInv'
  BY <1>1, <1>2, <1>4 DEF LockInv, Counting
<1>6. \A u \in Adders, v \in CountedIds : CountDue(u, v)' = CountDue(u, v) /\ ErrorDue(u, v)' = ErrorDue(u, v)
  BY <1>1, <1>2, <1>4 DEF CountDue, ErrorDue
<1>7. TallyInv'
  BY <1>1, <1>2, <1>4, <1>6 DEF TallyInv, TallySound
<1>8. DropInv'
  BY <1>1, <1>2, <1>4 DEF DropInv
<1>9. ring' = LastOf(sent')
  BY <1>1, LastOfAppended DEF CountTypes
<1>10. (ring = LastOf(sent))'
  BY <1>9 DEF LastOf
<1> QED
  BY <1>3, <1>5, <1>7, <1>8, <1>10

LEMMA ExactStep == ExactInv /\ [ObserverNext]_observerVars => ExactInv'
<1> SUFFICES ASSUME ExactInv, [ObserverNext]_observerVars PROVE ExactInv'
  OBVIOUS
<1>1. ASSUME NEW w \in CountedIds, AskOne(w) PROVE ExactInv'
  BY <1>1, AskExact DEF AskOne
<1>2. CASE AskAll \/ ReadNext
  BY <1>2, AskExact DEF AskAll, ReadNext
<1>3. CASE UNCHANGED observerVars
  BY <1>3, AskExact DEF observerVars
<1> QED
  BY <1>1, <1>2, <1>3, RegisterExact, EndExact, FindExact, LookUpExact, CountUpExact, ErrorUpExact,
     FillExact DEF ObserverNext

LEMMA ExactCounts == ExactInv => CountsExact
<1> SUFFICES ASSUME ExactInv PROVE CountsExact
  OBVIOUS
<1>1. ASSUME statsLock = NobodyHolds PROVE counters = tally
  <2>1. \A t \in Adders : adder[t].at \notin Counting
    BY <1>1, ObserverAssumption DEF ExactInv, LockInv
  <2>2. \A w \in CountedIds : counters[w].count = tally[w].count /\ counters[w].errors = tally[w].errors
    BY <2>1 DEF ExactInv, TallyInv, TallySound, CountDue, ErrorDue, Counting
  <2>3. \A w \in CountedIds : counters[w] \in CountPair /\ tally[w] \in CountPair
    BY DEF ExactInv, CountTypes
  <2>4. \A w \in CountedIds : counters[w] = tally[w]
    BY <2>2, <2>3 DEF CountPair
  <2> QED
    BY <2>4 DEF ExactInv, CountTypes
<1>2. ASSUME NEW w \in CountedIds PROVE Cardinality({o \in dropped : o[1] = w}) <= 1
  <2> DEFINE D == {o \in dropped : o[1] = w}
  <2>1. CASE D = {}
    BY <2>1, FS_EmptySet
  <2>2. CASE D # {}
    <3>1. PICK o \in D : TRUE
      BY <2>2
    <3>2. D = {o}
      BY <3>1 DEF ExactInv, DropInv
    <3>3. Cardinality({o}) = 1
      BY FS_Singleton
    <3> QED
      BY <3>2, <3>3
  <2> QED
    BY <2>1, <2>2
<1>3. ASSUME NEW w \in CountedIds, w \in watches PROVE \A o \in dropped : o[1] # w
  BY <1>3 DEF ExactInv, DropInv
<1> QED
  BY <1>1, <1>2, <1>3 DEF CountsExact, ExactInv

-----------------------------------------------------------------------------
(* Reading the counts *)

FieldAt(i) == IF i % 2 = 1 THEN "count" ELSE "errors"
AskerStates == [todo : Seq(CountedIds \X {"count", "errors"}), got : Seq(Nat), torn : BOOLEAN]

\* What is to be read after n values: of each watch in turn both, or both twice.
InTurn(todo, n) ==
    \A j \in 1..Len(todo) :
        /\ todo[j][2] = FieldAt(n + j)
        /\ j > 1 /\ (n + j) % 4 # 1 => todo[j][1] = todo[j - 1][1]

\* What was read of the watch whose turn it is is not above its counts now, and the count,
\* unless one has changed, is its count.
ReadOf(now, got, torn) ==
    LET n == Len(got) IN
    /\ n % 2 = 1 => got[n] <= now.count /\ (torn \/ got[n] = now.count)
    /\ n % 4 = 2 => got[n - 1] <= now.count /\ got[n] <= now.errors
    /\ n % 4 = 3 => got[n - 1] <= now.errors

AddsUp(got, torn) ==
    /\ \A i \in 1..Len(got) : i % 2 = 0 => got[i] <= got[i - 1] \/ torn
    /\ \A i \in 1..Len(got) : i % 4 \in {3, 0} => got[i - 2] <= got[i]

AskInv ==
    /\ asker \in AskerStates
    /\ AddsUp(asker.got, asker.torn)
    /\ Asking => /\ InTurn(asker.todo, Len(asker.got))
                 /\ ReadOf(counters[asker.todo[1][1]], asker.got, asker.torn)

LEMMA Residues ==
    ASSUME NEW n \in Nat
    PROVE  /\ n % 4 \in {0, 1, 2, 3} /\ n % 2 \in {0, 1}
           /\ n % 2 = 1 <=> n % 4 \in {1, 3}
           /\ n % 4 = 0 => (n + 1) % 4 = 1 /\ (n + 2) % 4 = 2
           /\ n % 4 = 1 => (n + 1) % 4 = 2 /\ (n + 2) % 4 = 3
           /\ n % 4 = 2 => (n + 1) % 4 = 3 /\ (n + 2) % 4 = 0
           /\ n % 4 = 3 => (n + 1) % 4 = 0 /\ (n + 2) % 4 = 1
           /\ n % 4 \in {1, 2, 3} => n > 0
           /\ n % 4 \in {2, 3} => n > 1
  OBVIOUS

LEMMA ReadNone == ASSUME NEW now, NEW torn PROVE ReadOf(now, <<>>, torn)
<1>1. Len(<<>>) = 0 /\ 0 % 2 = 0 /\ 0 % 4 = 0
  OBVIOUS
<1> QED
  BY <1>1 DEF ReadOf

LEMMA Quarters ==
    ASSUME NEW m \in Nat, (m + 1) % 4 # 0
    PROVE  (m + 1) \div 4 = m \div 4
  OBVIOUS

LEMMA BeginsToRead ==
    ASSUME NEW order \in Seq(CountedIds), NEW times \in {1, 2}, times = 1 => Len(order) = 1,
           asker' = [NotAsking EXCEPT !.todo = Reads(order, times)]
    PROVE  AskInv'
<1> DEFINE todo == Reads(order, times)
           L == Len(order) * times * 2
<1>1. Len(order) \in Nat /\ L \in Nat /\ (times = 1 => L = 2)
  <2>1. Len(order) \in Nat
    OBVIOUS
  <2>2. CASE times = 1
    <3>1. Len(order) = 1
      BY <2>2
    <3>2. L = 1 * 1 * 2
      BY <2>2, <3>1
    <3> QED
      BY <2>1, <3>2
  <2>3. CASE times = 2
    BY <2>1, <2>3
  <2> QED
    BY <2>2, <2>3
<1>2. ASSUME NEW i \in 1..L PROVE 1 + (i - 1) \div (2 * times) \in 1..Len(order)
  BY <1>1
<1>3. todo \in Seq(CountedIds \X {"count", "errors"}) /\ Len(todo) = L
      /\ \A i \in 1..L : todo[i] = <<order[1 + (i - 1) \div (2 * times)], FieldAt(i)>>
  <2>1. \A i \in 1..L : order[1 + (i - 1) \div (2 * times)] \in CountedIds
    BY <1>1, <1>2
  <2>2. todo = [i \in 1..L |-> <<order[1 + (i - 1) \div (2 * times)], FieldAt(i)>>]
    BY DEF Reads, FieldAt
  <2>3. \A i \in 1..L : FieldAt(i) \in {"count", "errors"}
    BY DEF FieldAt
  <2> HIDE DEF todo, L
  <2>4. todo \in [1..L -> CountedIds \X {"count", "errors"}]
    BY <2>1, <2>2, <2>3
  <2>5. todo \in Seq(CountedIds \X {"count", "errors"}) /\ Len(todo) = L
    BY <1>1, <2>4, SeqDef
  <2> QED
    BY <2>2, <2>5
<1>4. ASSUME NEW j \in 1..L, j > 1, j % 4 # 1 PROVE (j - 1) \div (2 * times) = (j - 2) \div (2 * times)
  <2> HIDE DEF todo, L
  <2>1. CASE times = 1
    <3>1. j = 2
      BY <1>1, <1>4, <2>1
    <3> QED
      BY <2>1, <3>1
  <2>2. CASE times = 2
    <3> DEFINE m == j - 2
    <3>1. m \in Nat /\ j = m + 2 /\ j - 1 = m + 1
      BY <1>1, <1>4
    <3>2. (m + 1) % 4 # 0
      <4> HIDE DEF m
      <4>1. (m + 2) % 4 # 1
        BY <1>4, <3>1
      <4>2. m + 1 \in Nat /\ (m + 1) + 1 = m + 2
        BY <3>1
      <4>3. (m + 1) % 4 = 0 => ((m + 1) + 1) % 4 = 1
        BY <4>2, Residues, Zenon
      <4> QED
        BY <4>1, <4>2, <4>3, Zenon
    <3>3. (m + 1) \div 4 = m \div 4
      BY <3>1, <3>2, Quarters
    <3> QED
      BY <2>2, <3>1, <3>3
  <2> QED
    BY <2>1, <2>2
<1>5. InTurn(todo, 0)
  <2> HIDE DEF todo, L
  <2> SUFFICES ASSUME NEW j \in 1..L
               PROVE  todo[j][2] = FieldAt(j) /\ (j > 1 /\ j % 4 # 1 => todo[j][1] = todo[j - 1][1])
    BY <1>1, <1>3 DEF InTurn
  <2>1. todo[j] = <<order[1 + (j - 1) \div (2 * times)], FieldAt(j)>>
    BY <1>3
  <2>2. ASSUME j > 1, j % 4 # 1 PROVE todo[j][1] = todo[j - 1][1]
    <3>1. j - 1 \in 1..L /\ (j - 1) - 1 = j - 2
      BY <1>1, <2>2
    <3>2. todo[j - 1] = <<order[1 + (j - 2) \div (2 * times)], FieldAt(j - 1)>>
      BY <1>3, <3>1
    <3>3. (j - 1) \div (2 * times) = (j - 2) \div (2 * times)
      BY <1>4, <2>2
    <3> QED
      BY <2>1, <3>2, <3>3
  <2> QED
    BY <2>1, <2>2
<1>6. asker' = [todo |-> todo, got |-> <<>>, torn |-> FALSE]
  BY DEF NotAsking
<1> HIDE DEF todo
<1>7. asker'.todo = todo /\ asker'.got = <<>> /\ asker'.torn = FALSE
  BY <1>6
<1>8. asker' \in AskerStates
  <2>1. [todo |-> todo, got |-> <<>>, torn |-> FALSE] \in AskerStates
    <3>1. todo \in Seq(CountedIds \X {"count", "errors"}) /\ <<>> \in Seq(Nat) /\ FALSE \in BOOLEAN
      BY <1>3
    <3> HIDE DEF L
    <3> QED
      BY <3>1 DEF AskerStates
  <2> QED
    BY <1>6, <2>1
<1>9. Len(<<>>) = 0 /\ 0 % 2 = 0 /\ 0 % 4 = 0 /\ 1..0 = {}
  OBVIOUS
<1>10. AddsUp(asker'.got, asker'.torn)
  BY <1>7, <1>9 DEF AddsUp
<1>11. InTurn(asker'.todo, Len(asker'.got))
  BY <1>5, <1>7, <1>9
<1>12. ReadOf(counters'[asker'.todo[1][1]], asker'.got, asker'.torn)
  BY <1>7, ReadNone
<1> QED
  BY <1>8, <1>10, <1>11, <1>12 DEF AskInv, AddsUp, InTurn

LEMMA ReadOn ==
    ASSUME NEW got \in Seq(Nat), NEW torn \in BOOLEAN, NEW now \in CountPair, now.errors <= now.count,
           AddsUp(got, torn), ReadOf(now, got, torn)
    PROVE  LET more == Append(got, now[FieldAt(Len(got) + 1)]) IN
           /\ more \in Seq(Nat) /\ Len(more) = Len(got) + 1
           /\ AddsUp(more, torn)
           /\ (Len(got) + 2) % 4 # 1 => ReadOf(now, more, torn)
           /\ (Len(got) + 2) % 4 = 1 => \A other : ReadOf(other, more, torn)
<1> DEFINE n == Len(got)
           v == now[FieldAt(n + 1)]
           more == Append(got, v)
<1>1. n \in Nat /\ now.count \in Nat /\ now.errors \in Nat
  BY DEF CountPair
<1>2. (n + 1) % 2 = 1 => v = now.count
  BY DEF FieldAt
<1>3. (n + 1) % 2 # 1 => v = now.errors
  BY DEF FieldAt
<1>4. v \in Nat
  BY <1>1, <1>2, <1>3
<1> HIDE DEF v
<1>5. more \in Seq(Nat) /\ Len(more) = n + 1 /\ more[n + 1] = v /\ \A i \in 1..n : more[i] = got[i]
  BY <1>4
<1> HIDE DEF n, more
<1>6. /\ n % 2 = 1 => n > 0 /\ got[n] <= now.count /\ (torn \/ got[n] = now.count)
      /\ n % 4 = 2 => n > 1 /\ got[n - 1] <= now.count /\ got[n] <= now.errors
      /\ n % 4 = 3 => n > 1 /\ got[n - 1] <= now.errors
  BY <1>1, Residues DEF ReadOf, n
<1>7. AddsUp(more, torn)
  <2>1. ASSUME NEW i \in 1..(n + 1), i % 2 = 0 PROVE more[i] <= more[i - 1] \/ torn
    <3>1. CASE i = n + 1
      <4>1. n % 2 = 1 /\ (n + 1) % 2 # 1
        BY <1>1, <2>1, <3>1
      <4>2. v = now.errors /\ n > 0 /\ (torn \/ got[n] = now.count) /\ i - 1 = n /\ n \in 1..n
        BY <1>1, <1>3, <1>6, <3>1, <4>1
      <4>3. more[i] = v /\ more[i - 1] = got[n]
        BY <1>5, <3>1, <4>2
      <4> QED
        BY <4>2, <4>3
    <3>2. CASE i # n + 1
      <4>1. i \in 1..n /\ i # 1
        BY <1>1, <2>1, <3>2
      <4>2. i - 1 \in 1..n
        BY <1>1, <4>1
      <4>3. got[i] <= got[i - 1] \/ torn
        BY <2>1, <4>1 DEF AddsUp, n
      <4> QED
        BY <1>5, <4>1, <4>2, <4>3
    <3> QED
      BY <3>1, <3>2
  <2>2. ASSUME NEW i \in 1..(n + 1), i % 4 \in {3, 0} PROVE more[i - 2] <= more[i]
    <3>1. CASE i = n + 1
      <4>1. n % 4 \in {2, 3} /\ (n % 4 = 2 <=> (n + 1) % 4 = 3) /\ (n % 4 = 3 <=> (n + 1) % 4 = 0)
        BY <1>1, <2>2, <3>1, Residues
      <4>2. n > 1 /\ n - 1 \in 1..n /\ i - 2 = n - 1
        BY <1>1, <1>6, <3>1, <4>1
      <4>3. more[i] = v /\ more[i - 2] = got[n - 1]
        BY <1>5, <3>1, <4>2
      <4>4. CASE n % 4 = 2
        <5>1. (n + 1) % 2 = 1
          BY <1>1, <4>4
        <5> QED
          BY <1>2, <1>6, <4>3, <4>4, <5>1
      <4>5. CASE n % 4 = 3
        <5>1. (n + 1) % 2 # 1
          BY <1>1, <4>5
        <5> QED
          BY <1>3, <1>6, <4>3, <4>5, <5>1
      <4> QED
        BY <4>1, <4>4, <4>5
    <3>2. CASE i # n + 1
      <4>1. i \in 1..n /\ i > 2
        BY <1>1, <2>2, <3>2
      <4>2. i - 2 \in 1..n
        BY <1>1, <4>1
      <4>3. got[i - 2] <= got[i]
        BY <2>2, <4>1 DEF AddsUp, n
      <4> QED
        BY <1>5, <4>1, <4>2, <4>3
    <3> QED
      BY <3>1, <3>2
  <2>3. Len(more) = n + 1
    BY <1>5
  <2> QED
    BY <2>1, <2>2, <2>3 DEF AddsUp
<1>8. ASSUME (n + 2) % 4 # 1 PROVE ReadOf(now, more, torn)
  <2>0. Len(more) = n + 1 /\ more[n + 1] = v /\ (n + 1) - 1 = n /\ n % 4 # 3
    BY <1>1, <1>5, <1>8, Residues
  <2>1. ASSUME (n + 1) % 2 = 1 PROVE v = now.count
    BY <1>2, <2>1
  <2>2. ASSUME (n + 1) % 4 = 2
        PROVE  v = now.errors /\ more[n] = got[n] /\ got[n] <= now.count
    <3>1. n % 2 = 1 /\ (n + 1) % 2 # 1
      BY <1>1, <2>2
    <3>2. n \in 1..n
      BY <1>1, <1>6, <3>1
    <3> QED
      BY <1>3, <1>5, <1>6, <3>1, <3>2
  <2>3. ASSUME (n + 1) % 4 = 3
        PROVE  more[n] = got[n] /\ got[n] <= now.errors
    <3>1. n % 4 = 2
      BY <1>1, <2>3
    <3>2. n \in 1..n
      BY <1>1, <1>6, <3>1
    <3> QED
      BY <1>5, <1>6, <3>1, <3>2
  <2> QED
    BY <1>1, <2>0, <2>1, <2>2, <2>3 DEF ReadOf
<1>9. ASSUME (n + 2) % 4 = 1, NEW other PROVE ReadOf(other, more, torn)
  <2>1. n + 1 \in Nat /\ (n + 1) + 1 = n + 2 /\ Len(more) = n + 1
    BY <1>1, <1>5
  <2>2. (n + 1) % 4 = 0
    <3>1. /\ (n + 1) % 4 \in {0, 1, 2, 3}
          /\ (n + 1) % 4 = 1 => ((n + 1) + 1) % 4 = 2
          /\ (n + 1) % 4 = 2 => ((n + 1) + 1) % 4 = 3
          /\ (n + 1) % 4 = 3 => ((n + 1) + 1) % 4 = 0
      BY <2>1, Residues, Zenon
    <3>2. ((n + 1) + 1) % 4 = 1
      BY <1>9, <2>1, Zenon
    <3> QED
      BY <3>1, <3>2
  <2>3. (n + 1) % 2 = 0
    BY <1>1, <2>2
  <2> QED
    BY <2>1, <2>2, <2>3 DEF ReadOf
<1> QED
  BY <1>5, <1>7, <1>8, <1>9 DEF n, more, v

LEMMA ReadStill ==
    ASSUME NEW got \in Seq(Nat), NEW torn \in BOOLEAN, NEW now \in CountPair, NEW later \in CountPair,
           now.count <= later.count, now.errors <= later.errors, ReadOf(now, got, torn)
    PROVE  ReadOf(later, got, TRUE)
<1> DEFINE n == Len(got)
<1>1. n \in Nat /\ now.count \in Nat /\ now.errors \in Nat /\ later.count \in Nat /\ later.errors \in Nat
  BY DEF CountPair
<1>2. \A i \in 1..n : got[i] \in Nat
  OBVIOUS
<1> HIDE DEF n
<1>3. n % 2 = 1 => n \in 1..n
  BY <1>1
<1>4. n % 4 \in {2, 3} => n \in 1..n /\ n - 1 \in 1..n
  BY <1>1
<1>5. /\ n % 2 = 1 => got[n] <= now.count
      /\ n % 4 = 2 => got[n - 1] <= now.count /\ got[n] <= now.errors
      /\ n % 4 = 3 => got[n - 1] <= now.errors
  BY DEF ReadOf, n
<1>6. /\ n % 2 = 1 => got[n] <= later.count
      /\ n % 4 = 2 => got[n - 1] <= later.count /\ got[n] <= later.errors
      /\ n % 4 = 3 => got[n - 1] <= later.errors
  <2>1. ASSUME n % 2 = 1 PROVE got[n] <= later.count
    BY <1>1, <1>2, <1>3, <1>5, <2>1
  <2>2. ASSUME n % 4 = 2 PROVE got[n - 1] <= later.count
    BY <1>1, <1>2, <1>4, <1>5, <2>2, SMTT(20)
  <2>3. ASSUME n % 4 = 2 PROVE got[n] <= later.errors
    BY <1>1, <1>2, <1>4, <1>5, <2>3
  <2>4. ASSUME n % 4 = 3 PROVE got[n - 1] <= later.errors
    BY <1>1, <1>2, <1>4, <1>5, <2>4
  <2> QED
    BY <2>1, <2>2, <2>3, <2>4
<1> QED
  BY <1>6 DEF ReadOf, n

LEMMA ReadKeeps == ASSUME ExactInv, AskInv, ReadNext PROVE AskInv'
<1> DEFINE todo == asker.todo
           got == asker.got
           w == todo[1][1]
           n == Len(got)
           more == Append(got, counters[w][FieldAt(n + 1)])
<1>1. todo \in Seq(CountedIds \X {"count", "errors"}) /\ got \in Seq(Nat) /\ asker.torn \in BOOLEAN
      /\ asker = [todo |-> todo, got |-> got, torn |-> asker.torn]
  BY DEF AskInv, AskerStates
<1>2. todo # <<>> /\ InTurn(todo, n) /\ AddsUp(got, asker.torn) /\ ReadOf(counters[w], got, asker.torn)
  BY DEF AskInv, ReadNext, Asking
<1>3. Len(todo) > 0 /\ 1 \in 1..Len(todo) /\ Head(todo) = todo[1] /\ w \in CountedIds /\ n \in Nat
      /\ todo[1] \in CountedIds \X {"count", "errors"}
  <2>1. Len(todo) > 0
    BY <1>1, <1>2
  <2>2. todo[1] \in CountedIds \X {"count", "errors"}
    BY <1>1, <2>1
  <2> QED
    BY <1>1, <2>1, <2>2
<1>4. todo[1][2] = FieldAt(n + 1)
  BY <1>2, <1>3 DEF InTurn
<1>5. counters[w] \in CountPair /\ counters[w].errors <= counters[w].count
  BY <1>3 DEF ExactInv, CountTypes, TallyInv, TallySound
<1>6. asker' = [asker EXCEPT !.todo = Tail(@), !.got = Append(@, counters[Head(asker.todo)[1]][Head(asker.todo)[2]])]
      /\ UNCHANGED counters
  BY DEF ReadNext, counts
<1>7. asker' = [todo |-> Tail(todo), got |-> more, torn |-> asker.torn]
  BY <1>1, <1>3, <1>4, <1>6
<1>8. Tail(todo) \in Seq(CountedIds \X {"count", "errors"}) /\ Len(Tail(todo)) = Len(todo) - 1
      /\ \A j \in 1..Len(todo) - 1 : Tail(todo)[j] = todo[j + 1]
  BY <1>1, <1>3
<1> HIDE DEF todo, got, w, n
<1>9. /\ more \in Seq(Nat) /\ Len(more) = n + 1 /\ AddsUp(more, asker.torn)
      /\ (n + 2) % 4 # 1 => ReadOf(counters[w], more, asker.torn)
      /\ (n + 2) % 4 = 1 => \A other : ReadOf(other, more, asker.torn)
  BY <1>1, <1>2, <1>5, ReadOn DEF n
<1> HIDE DEF more
<1>10. asker'.todo = Tail(todo) /\ asker'.got = more /\ asker'.torn = asker.torn /\ asker' \in AskerStates
  BY <1>1, <1>7, <1>8, <1>9 DEF AskerStates
<1>11. ASSUME Tail(todo) # <<>>
       PROVE  InTurn(Tail(todo), n + 1) /\ ReadOf(counters[Tail(todo)[1][1]], more, asker.torn)
  <2>1. Len(todo) - 1 > 0
    BY <1>8, <1>11
  <2>2. ASSUME NEW j \in 1..Len(todo) - 1
        PROVE  /\ Tail(todo)[j][2] = FieldAt((n + 1) + j)
               /\ j > 1 /\ ((n + 1) + j) % 4 # 1 => Tail(todo)[j][1] = Tail(todo)[j - 1][1]
    <3>0. Len(todo) \in Nat
      BY <1>1
    <3>1. j + 1 \in 1..Len(todo) /\ j + 1 > 1 /\ n + (j + 1) = (n + 1) + j /\ (j + 1) - 1 = j
          /\ Tail(todo)[j] = todo[j + 1]
      <4>1. j \in Nat /\ j + 1 \in 1..Len(todo) /\ j + 1 > 1 /\ (j + 1) - 1 = j
        BY <3>0
      <4>2. n + (j + 1) = (n + 1) + j
        BY <1>3, <4>1
      <4> QED
        BY <1>8, <4>1, <4>2
    <3>2. todo[j + 1][2] = FieldAt((n + 1) + j) /\ (((n + 1) + j) % 4 # 1 => todo[j + 1][1] = todo[j][1])
      BY <1>2, <3>1 DEF InTurn
    <3>3. j > 1 => j - 1 \in 1..Len(todo) - 1 /\ (j - 1) + 1 = j
      BY <1>1, <2>2
    <3>4. j > 1 => Tail(todo)[j - 1] = todo[j]
      BY <1>8, <3>3
    <3> QED
      BY <3>1, <3>2, <3>4
  <2>3. InTurn(Tail(todo), n + 1)
    BY <1>8, <2>2 DEF InTurn
  <2>4. Tail(todo)[1] = todo[2] /\ 2 \in 1..Len(todo)
    BY <1>1, <1>8, <2>1
  <2>5. (n + 2) % 4 # 1 => todo[2][1] = w
    BY <1>2, <2>4 DEF InTurn, w
  <2> QED
    BY <1>9, <2>3, <2>4, <2>5
<1> QED
  BY <1>6, <1>9, <1>10, <1>11 DEF AskInv, Asking

LEMMA CountKeepsAsker ==
    ASSUME ExactInv, AskInv, NEW w \in CountedIds, Torn(w), counters' \in [CountedIds -> CountPair],
           \A v \in CountedIds \ {w} : counters'[v] = counters[v],
           counters[w].count <= counters'[w].count, counters[w].errors <= counters'[w].errors
    PROVE  AskInv'
<1> DEFINE met == Asking /\ \E i \in DOMAIN asker.todo : asker.todo[i][1] = w
<1>1. asker \in AskerStates /\ counters \in [CountedIds -> CountPair]
  BY DEF AskInv, ExactInv, CountTypes
<1>2. CASE ~Asking
  BY <1>2 DEF AskInv, Torn, Asking
<1>3. CASE Asking
  <2> DEFINE u == asker.todo[1][1]
  <2>1. 1 \in DOMAIN asker.todo /\ u \in CountedIds
    <3>1. asker.todo \in Seq(CountedIds \X {"count", "errors"}) /\ asker.todo # <<>>
      BY <1>1, <1>3 DEF AskerStates, Asking
    <3>2. 1 \in 1..Len(asker.todo) /\ DOMAIN asker.todo = 1..Len(asker.todo)
      BY <3>1
    <3>3. asker.todo[1] \in CountedIds \X {"count", "errors"}
      BY <3>1, <3>2
    <3> QED
      BY <3>2, <3>3
  <2>2. asker'.todo = asker.todo /\ asker'.got = asker.got /\ asker' \in AskerStates
        /\ asker'.torn = (met \/ asker.torn)
    <3>1. CASE met
      <4>1. asker' = [asker EXCEPT !.torn = TRUE]
        BY <3>1 DEF Torn
      <4> QED
        BY <1>1, <3>1, <4>1 DEF AskerStates
    <3>2. CASE ~met
      <4>1. asker' = asker
        BY <3>2 DEF Torn
      <4>2. asker.torn \in BOOLEAN
        BY <1>1 DEF AskerStates
      <4> QED
        BY <1>1, <3>2, <4>1, <4>2
    <3> QED
      BY <3>1, <3>2
  <2>3. AddsUp(asker.got, asker'.torn)
    BY <2>2 DEF AskInv, AddsUp
  <2>4. ReadOf(counters[u], asker.got, asker.torn) /\ InTurn(asker.todo, Len(asker.got))
    BY <1>3 DEF AskInv
  <2>5. asker.got \in Seq(Nat) /\ asker.torn \in BOOLEAN
    BY <1>1 DEF AskerStates
  <2>6. ReadOf(counters'[u], asker.got, asker'.torn)
    <3>1. CASE met
      <4>1. counters[u] \in CountPair /\ counters'[u] \in CountPair
            /\ counters[u].count <= counters'[u].count /\ counters[u].errors <= counters'[u].errors
        <5>1. CASE u = w
          BY <1>1, <2>1, <5>1
        <5>2. CASE u # w
          <6>1. counters'[u] = counters[u] /\ counters[u] \in CountPair
            BY <1>1, <2>1, <5>2
          <6> QED
            BY <6>1 DEF CountPair
        <5> QED
          BY <5>1, <5>2
      <4>2. ReadOf(counters'[u], asker.got, TRUE)
        <5> HIDE DEF u
        <5> QED
          BY <2>4, <2>5, <4>1, ReadStill
      <4>3. asker'.torn = TRUE
        BY <2>2, <3>1
      <4> QED
        BY <4>2, <4>3
    <3>2. CASE ~met
      <4>1. u # w
        BY <1>3, <2>1, <3>2
      <4>2. counters'[u] = counters[u]
        BY <2>1, <4>1
      <4>3. asker'.torn = asker.torn
        BY <2>2, <2>5, <3>2
      <4> QED
        BY <2>4, <4>2, <4>3
    <3> QED
      BY <3>1, <3>2
  <2> HIDE DEF met
  <2> QED
    BY <1>3, <2>2, <2>3, <2>4, <2>6 DEF AskInv, Asking
<1> QED
  BY <1>2, <1>3

LEMMA AskInit == ObserverInit => AskInv
<1> SUFFICES ASSUME ObserverInit PROVE AskInv
  OBVIOUS
<1>1. asker.todo = <<>> /\ asker.got = <<>> /\ asker \in AskerStates
  BY DEF ObserverInit, NotAsking, AskerStates
<1>2. Len(<<>>) = 0
  OBVIOUS
<1> QED
  BY <1>1, <1>2 DEF AskInv, AddsUp, Asking

LEMMA AskStep == ExactInv /\ AskInv /\ [ObserverNext]_observerVars => AskInv'
<1> SUFFICES ASSUME ExactInv, AskInv, [ObserverNext]_observerVars PROVE AskInv'
  OBVIOUS
<1>1. ASSUME UNCHANGED asker, ~Asking \/ UNCHANGED counters PROVE AskInv'
  BY <1>1 DEF AskInv, Asking
<1>2. ASSUME NEW w \in CountedIds, RegisterWatch(w) \/ UnregisterWatch(w) \/ AskOne(w) PROVE AskInv'
  <2>1. CASE AskOne(w)
    <3>1. <<w>> \in Seq(CountedIds) /\ Len(<<w>>) = 1
      OBVIOUS
    <3> QED
      BY <2>1, <3>1, BeginsToRead DEF AskOne
  <2> QED
    BY <1>1, <1>2, <2>1 DEF RegisterWatch, UnregisterWatch
<1>3. CASE ClearAll
  BY <1>1, <1>3 DEF ClearAll
<1>4. CASE AskAll
  <2>1. PICK order \in SetToSeqs(watches) : asker' = [NotAsking EXCEPT !.todo = Reads(order, 2)]
    BY <1>4 DEF AskAll
  <2>2. order \in Seq(CountedIds)
    <3>1. order \in [1..Cardinality(watches) -> watches] /\ Cardinality(watches) \in Nat
      BY <2>1, FS_CardinalityType DEF SetToSeqs, ExactInv, CountTypes
    <3>2. watches \subseteq CountedIds
      BY DEF ExactInv, CountTypes
    <3>3. order \in [1..Cardinality(watches) -> CountedIds]
      BY <3>1, <3>2
    <3> QED
      BY <3>1, <3>3, SeqDef
  <2>3. 2 \in {1, 2} /\ ~(2 = 1)
    OBVIOUS
  <2> QED
    BY <2>1, <2>2, <2>3, BeginsToRead, Zenon
<1>5. CASE ReadNext
  BY <1>5, ReadKeeps
<1>6. ASSUME NEW t \in Adders, CountUp(t) \/ ErrorUp(t) PROVE AskInv'
  <2> DEFINE w == adder[t].obs[1]
  <2>1. w \in CountedIds /\ counters \in [CountedIds -> CountPair] /\ counters[w] \in CountPair
        /\ counters[w].count \in Nat /\ counters[w].errors \in Nat
        /\ adder[t].at \in Counting
    <3>1. adder[t].at \in {"count", "error"}
      BY <1>6 DEF CountUp, ErrorUp
    <3>2. adder[t].obs \in Observations
      BY <3>1 DEF ExactInv, LockInv
    <3> QED
      BY <3>1, <3>2 DEF ExactInv, CountTypes, Observations, CountPair, Counting
  <2>2. Torn(w) /\ \E pair \in CountPair : /\ counters' = [counters EXCEPT ![w] = pair]
                                         /\ counters[w].count <= pair.count
                                         /\ counters[w].errors <= pair.errors
    <3>1. CASE CountUp(t)
      <4> DEFINE pair == [counters[w] EXCEPT !.count = adder[t].read + 1]
      <4>1. Torn(w) /\ counters' = [counters EXCEPT ![w].count = adder[t].read + 1] /\ adder[t].at = "count"
        BY <3>1 DEF CountUp
      <4>2. adder[t].read = counters[w].count
        BY <4>1 DEF ExactInv, LockInv
      <4>3. pair \in CountPair /\ pair.count = counters[w].count + 1 /\ pair.errors = counters[w].errors
        BY <2>1, <4>2 DEF CountPair
      <4>4. counters' = [counters EXCEPT ![w] = pair]
        BY <4>1
      <4> HIDE DEF pair, w
      <4>5. counters[w].count <= pair.count /\ counters[w].errors <= pair.errors
        BY <2>1, <4>3
      <4> QED
        BY <4>1, <4>3, <4>4, <4>5 DEF w
    <3>2. CASE ErrorUp(t)
      <4> DEFINE pair == [counters[w] EXCEPT !.errors = @ + 1]
      <4>1. Torn(w) /\ counters' = [counters EXCEPT ![w].errors = @ + 1]
        BY <3>2 DEF ErrorUp
      <4>3. pair \in CountPair /\ pair.count = counters[w].count /\ pair.errors = counters[w].errors + 1
        BY <2>1 DEF CountPair
      <4>4. counters' = [counters EXCEPT ![w] = pair]
        BY <4>1
      <4> HIDE DEF pair, w
      <4>5. counters[w].count <= pair.count /\ counters[w].errors <= pair.errors
        BY <2>1, <4>3
      <4> QED
        BY <4>1, <4>3, <4>4, <4>5 DEF w
    <3> QED
      BY <1>6, <3>1, <3>2
  <2> HIDE DEF w
  <2>3. PICK pair \in CountPair : /\ counters' = [counters EXCEPT ![w] = pair]
                                 /\ counters[w].count <= pair.count
                                 /\ counters[w].errors <= pair.errors
    BY <2>2
  <2>4. /\ counters' \in [CountedIds -> CountPair] /\ counters'[w] = pair
        /\ \A v \in CountedIds \ {w} : counters'[v] = counters[v]
    BY <2>1, <2>3
  <2> QED
    BY <2>1, <2>2, <2>3, <2>4, CountKeepsAsker
<1>7. ASSUME NEW t \in Adders, LookUp(t) \/ FillBuffer(t) \/ \E w \in CountedIds, failed \in BOOLEAN : FindWatch(t, w, failed)
      PROVE  AskInv'
  BY <1>1, <1>7 DEF LookUp, FillBuffer, FindWatch, counts
<1>8. CASE UNCHANGED observerVars
  BY <1>1, <1>8 DEF observerVars, counts
<1> QED
  BY <1>2, <1>3, <1>4, <1>5, <1>6, <1>7, <1>8 DEF ObserverNext

LEMMA AskAddsUp == AskInv => StatsAddUp
<1> SUFFICES ASSUME AskInv PROVE StatsAddUp
  OBVIOUS
<1>1. DOMAIN asker.got = 1..Len(asker.got)
  BY DEF AskInv, AskerStates
<1> QED
  BY <1>1 DEF AskInv, AddsUp, StatsAddUp

\* Whatever watches come and go and however threads and commands interleave, the counts
\* are exact when nobody counts, and an answer that met no count adds up.
THEOREM CountsAreSound == ObserverSpec => []ObserverSound
<1>1. ObserverInit => ExactInv /\ AskInv
  BY ExactInit, AskInit
<1>2. ExactInv /\ AskInv /\ [ObserverNext]_observerVars => (ExactInv /\ AskInv)'
  BY ExactStep, AskStep
<1>3. ExactInv /\ AskInv => ObserverSound
  BY ExactCounts, AskAddsUp DEF ObserverSound
<1> QED
  BY <1>1, <1>2, <1>3, PTL DEF ObserverSpec

-----------------------------------------------------------------------------
(* Together *)

\* What is recorded of probe runs and handed on is what happened: with any publishers,
\* consumers, handlers, clean-ups and counting threads, the consumers' records, the
\* registries' records and the counts add up.
THEOREM RecordsAreSound == RecordsSpec => []RecordsSound
<1> QED
  BY ConsumersAreSound, RegistriesAreSound, CountsAreSound, PTL DEF RecordsSpec, RecordsSound
=============================================================================
