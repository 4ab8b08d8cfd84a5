--------------------------- MODULE ProbeObservers ---------------------------
(***************************************************************************)
(* What the injector promises its users, without wrappers: every name of   *)
(* the instrumented function has a set of probes that see the calls made   *)
(* through it.  Starting a probe adds that probe, somewhere, and stopping  *)
(* probes takes those away everywhere; neither changes what another probe  *)
(* sees.  A name the application binds later is seen by the probes of the  *)
(* name it was copied from.                                                *)
(***************************************************************************)
CONSTANTS Probes, Places

VARIABLE observers      \* observers[pl]: the registered probes that see pl

Init == observers = [pl \in Places |-> {}]

Start(p, names) ==
    /\ \A pl \in Places : p \notin observers[pl]
    /\ observers' = [pl \in Places |->
                        IF pl \in names THEN observers[pl] \cup {p} ELSE observers[pl]]

Stop(S) == observers' = [pl \in Places |-> observers[pl] \ S]

Copy(y, pl) ==
    /\ observers[y] = {}
    /\ observers' = [observers EXCEPT ![y] = observers[pl]]

Next ==
    \/ \E p \in Probes, names \in SUBSET Places : Start(p, names)
    \/ \E S \in SUBSET Probes : Stop(S)
    \/ \E y, pl \in Places : Copy(y, pl)

Spec == Init /\ [][Next]_observers
=============================================================================
