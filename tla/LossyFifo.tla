----------------------------- MODULE LossyFifo -----------------------------
(***************************************************************************)
(* What a stream client may rely on: the observations its connection has    *)
(* accepted wait in order; each is delivered from the front or lost; none   *)
(* is delivered twice, overtakes another, or comes back once it is lost.    *)
(***************************************************************************)
EXTENDS Naturals, Sequences

CONSTANTS Conns, Items

VARIABLES pending,   \* accepted and neither delivered nor lost, oldest first
          accepted,  \* all that were ever accepted
          got        \* the observation delivered last; 0 before the first

Init ==
    /\ pending = [c \in Conns |-> <<>>]
    /\ accepted = [c \in Conns |-> {}]
    /\ got = [c \in Conns |-> 0]

\* The places in s of what is left of it, in their order.
Places(t, s) == {h \in [DOMAIN t -> DOMAIN s] : \A i, j \in DOMAIN t : i < j => h[i] < h[j]}
Remains(t, s) == \E h \in Places(t, s) : \A i \in DOMAIN t : t[i] = s[h[i]]

\* Only the observations of c change.
Only(c) == \A d \in Conns : d # c => pending'[d] = pending[d]

\* An observation is accepted once.  It may push others out.
Accept(c, x) ==
    /\ x \notin accepted[c]
    /\ accepted' = [accepted EXCEPT ![c] = @ \cup {x}]
    /\ Remains(pending'[c], Append(pending[c], x))
    /\ pending'[c] # <<>> /\ pending'[c][Len(pending'[c])] = x
    /\ Only(c) /\ UNCHANGED got

\* Everything up to an observation arrives; some of what follows may be lost.
Deliver(c, k) ==
    /\ got' = [got EXCEPT ![c] = pending[c][k]]
    /\ Remains(pending'[c], SubSeq(pending[c], k + 1, Len(pending[c])))
    /\ Only(c) /\ UNCHANGED accepted

Lose ==
    /\ \A c \in Conns : Remains(pending'[c], pending[c])
    /\ UNCHANGED <<accepted, got>>

Next ==
    \/ \E c \in Conns :
          \/ \E x \in Items : Accept(c, x)
          \/ \E k \in 1..Len(pending[c]) : Deliver(c, k)
    \/ Lose

Spec == Init /\ [][Next]_<<pending, accepted, got>>
=============================================================================
