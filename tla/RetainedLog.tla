----------------------------- MODULE RetainedLog -----------------------------
(***************************************************************************)
(* What a result consumer promises its reader: an append-only log of which  *)
(* the last Size entries stay readable.  A reader goes through the log in    *)
(* order and misses an entry only when Size later ones pushed it out first,  *)
(* or when it is the first one and the reader had come too early for it.     *)
(***************************************************************************)
EXTENDS Naturals, Sequences

CONSTANTS Ids, SizeOf

VARIABLES log,    \* everything each consumer accepted, in order
          cursor, \* the last entry each reader has read
          read    \* the entries each reader has read

Oldest(c) == IF Len(log[c]) > SizeOf[c] THEN Len(log[c]) - SizeOf[c] + 1 ELSE 1

Init == /\ log = [c \in Ids |-> <<>>]
        /\ cursor = [c \in Ids |-> 0]
        /\ read = [c \in Ids |-> {}]

Accept(c) == /\ Len(log'[c]) = Len(log[c]) + 1
             /\ log' = [log EXCEPT ![c] = Append(@, log'[c][Len(log[c]) + 1])]
             /\ UNCHANGED <<cursor, read>>

\* The next entries that are still there, from the first one on.
Read(c) == \E n \in 1..Len(log[c]) :
    LET from == IF cursor[c] + 1 > Oldest(c) THEN cursor[c] + 1 ELSE Oldest(c)
    IN /\ from <= n
       /\ cursor' = [cursor EXCEPT ![c] = n]
       /\ read' = [read EXCEPT ![c] = @ \cup from..n]
       /\ UNCHANGED log

\* A reader that finds the log empty is sent on past its first entry.
ReadEmpty(c) == /\ log[c] = <<>> /\ cursor[c] = 0
                /\ cursor' = [cursor EXCEPT ![c] = 1]
                /\ UNCHANGED <<log, read>>

Next == \E c \in Ids : Accept(c) \/ Read(c) \/ ReadEmpty(c)

Spec == Init /\ [][Next]_<<log, cursor, read>>
=============================================================================
