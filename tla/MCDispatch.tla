----------------------------- MODULE MCDispatch -----------------------------
(* Instances of Dispatch: which commands each connection sends. *)
EXTENDS Dispatch

CONSTANTS t1, t2, c1

\* One connection per session; concurrent snapshots come without a session.
OwnSession ==
    {t1} \X {"start", "reset"} \X {c1}
    \cup {t2} \X {"stop", "reset", "concurrent"} \X {NoClient}

\* The same connection also sends concurrent snapshots in its session.
MixedSession == {t1} \X {"start", "concurrent"} \X {c1}
=============================================================================
