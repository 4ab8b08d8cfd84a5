------------------------------- MODULE TopView -------------------------------
(***************************************************************************)
(* The TUI's view of the sampling profiler (peeka/tui/views/top.py).  Its      *)
(* handlers run in the UI thread and send their command from there, so the UI  *)
(* waits for the answer; a refresher, a worker thread, fetches a snapshot every *)
(* second over the same connection, which one of them uses at a time, and has    *)
(* the UI thread show it.  There is one profiler in the agent (TopProfiler):    *)
(* here it is the number of what runs.  Others start and stop it, too.          *)
(*                                                                         *)
(* The view's connection and the screen's, which takes its place when that one *)
(* cannot be made, are one here.                                            *)
(***************************************************************************)
EXTENDS Naturals, Sequences

CONSTANTS Refreshers,   \* worker threads, one for each start
          MaxPresses,   \* bound: buttons pressed
          MaxMeddling,  \* bound: starts and stops by others
          NoRefresher

ASSUME TopViewAssumption ==
    MaxPresses \in Nat /\ MaxMeddling \in Nat /\ NoRefresher \notin Refreshers

VARIABLES topMounted, isProfiling, refreshWorker, header,
          pressed,      \* Button.Pressed messages the view has still to handle
          presses,
          waitsFor,     \* the handler that waits for its answer, or "idle"
          refresher,    \* of each worker: none, asleep, ready, asking, post, done
          cancelled,
          topSendLock,  \* _send_lock of the client: the worker that waits for an answer
          link,         \* the connection
          profile,      \* the profile that runs in the agent; 0: none
          profiles,     \* profiles so far
          meddled,
          ours,         \* history: profiles the view started
          lateSnapshot  \* history: a snapshot was shown when the view no longer profiled

display == <<topMounted, isProfiling, refreshWorker, header>>
input == <<pressed, presses, waitsFor>>
refresherVars == <<refresher, cancelled, topSendLock>>
profilerVars == <<profile, profiles, meddled, ours>>
topViewVars == <<display, input, refresherVars, profilerVars, link, lateSnapshot>>

TopViewInit ==
    /\ topMounted = TRUE /\ isProfiling = FALSE /\ refreshWorker = NoRefresher
    /\ header = "stopped" /\ pressed = <<>> /\ presses = 0 /\ waitsFor = "idle"
    /\ refresher = [w \in Refreshers |-> "none"] /\ cancelled = {} /\ topSendLock = NoRefresher
    /\ link = "up" /\ profile = 0 /\ profiles = 0 /\ meddled = 0 /\ ours = {}
    /\ lateSnapshot = FALSE

Polling == {w \in Refreshers : refresher[w] \notin {"none", "done"} /\ w \notin cancelled}

-----------------------------------------------------------------------------
(* The UI thread *)

\* Buttons are enabled as _update_button_states left them; the key for a reset always is.
Press(button) ==
    /\ topMounted /\ presses < MaxPresses /\ waitsFor = "idle"
    /\ button = "start" => ~isProfiling
    /\ button = "stop" => isProfiling
    /\ presses' = presses + 1 /\ pressed' = Append(pressed, button)
    /\ UNCHANGED <<display, refresherVars, profilerVars, waitsFor, link, lateSnapshot>>

Cancelled1 == {refreshWorker} \ {NoRefresher}

\* A handler up to its command.  stop cancels the refresher first.
HandlePress ==
    /\ waitsFor = "idle" /\ pressed # <<>>
    /\ pressed' = Tail(pressed)
    /\ LET button == Head(pressed) IN
       /\ waitsFor' = IF button = "reset" /\ ~isProfiling THEN "idle" ELSE button
       /\ IF button = "stop"
          THEN cancelled' = cancelled \cup Cancelled1 /\ refreshWorker' = NoRefresher
          ELSE UNCHANGED <<cancelled, refreshWorker>>
    /\ UNCHANGED <<profilerVars, topMounted, isProfiling, header, presses, refresher,
                   topSendLock, link, lateSnapshot>>

\* on_unmount: what is still to be handled is not.
UnmountTop ==
    /\ waitsFor = "idle" /\ topMounted /\ topMounted' = FALSE /\ pressed' = <<>>
    /\ cancelled' = cancelled \cup Cancelled1
    /\ waitsFor' = IF isProfiling THEN "leave" ELSE "idle"
    /\ UNCHANGED <<profilerVars, isProfiling, refreshWorker, header, presses, refresher,
                   topSendLock, link, lateSnapshot>>

\* The agent starts a profile, or goes on with the one that runs, whoever started it;
\* a new refresher, exclusive, takes the place of those there are.
TopStartAnswered ==
    /\ waitsFor = "start" /\ topSendLock = NoRefresher /\ waitsFor' = "idle"
    /\ IF link = "up"
       THEN /\ profile' = IF profile = 0 THEN profiles + 1 ELSE profile
            /\ profiles' = IF profile = 0 THEN profiles + 1 ELSE profiles
            /\ ours' = IF profile = 0 THEN ours \cup {profiles + 1} ELSE ours
            /\ isProfiling' = TRUE /\ header' = "profiling" /\ lateSnapshot' = FALSE
            /\ \E w \in Refreshers :
                  /\ refresher[w] = "none" /\ refresher' = [refresher EXCEPT ![w] = "asleep"]
                  /\ refreshWorker' = w /\ cancelled' = cancelled \cup (Refreshers \ {w})
       ELSE header' = "error" /\ UNCHANGED <<profile, profiles, ours, isProfiling,
                                             lateSnapshot, refresher, refreshWorker,
                                             cancelled>>
    /\ UNCHANGED <<topMounted, pressed, presses, topSendLock, meddled, link>>

\* A stop of nothing is refused, and the view goes on believing that it profiles.
TopStopAnswered ==
    /\ waitsFor = "stop" /\ topSendLock = NoRefresher /\ waitsFor' = "idle"
    /\ IF link = "up" /\ profile # 0
       THEN profile' = 0 /\ isProfiling' = FALSE /\ header' = "stopped"
       ELSE UNCHANGED <<profile, isProfiling, header>>
    /\ UNCHANGED <<refresherVars, topMounted, refreshWorker, pressed, presses, profiles,
                   meddled, ours, link, lateSnapshot>>

ResetAnswered ==
    /\ waitsFor = "reset" /\ topSendLock = NoRefresher /\ waitsFor' = "idle"
    /\ header' = IF link = "up" THEN "profiling" ELSE header
    /\ UNCHANGED <<refresherVars, profilerVars, topMounted, isProfiling, refreshWorker,
                   pressed, presses, link, lateSnapshot>>

LeaveAnswered ==
    /\ waitsFor = "leave" /\ topSendLock = NoRefresher /\ waitsFor' = "idle"
    /\ isProfiling' = FALSE
    /\ profile' = IF link = "up" THEN 0 ELSE profile
    /\ UNCHANGED <<refresherVars, topMounted, refreshWorker, header, pressed, presses,
                   profiles, meddled, ours, link, lateSnapshot>>

-----------------------------------------------------------------------------
(* _periodic_refresh *)

RefresherMoves(w, from, to) == refresher[w] = from /\ refresher' = [refresher EXCEPT ![w] = to]

WakeUp(w) ==
    /\ IF w \in cancelled THEN RefresherMoves(w, "asleep", "done")
                          ELSE isProfiling /\ RefresherMoves(w, "asleep", "ready")
    /\ UNCHANGED <<display, input, profilerVars, cancelled, topSendLock, link, lateSnapshot>>

AskSnapshot(w) ==
    /\ RefresherMoves(w, "ready", "asking") /\ topSendLock = NoRefresher /\ topSendLock' = w
    /\ UNCHANGED <<display, input, profilerVars, cancelled, link, lateSnapshot>>

\* The agent answers with a snapshot whether it profiles or not.
SnapshotAnswered(w) ==
    /\ RefresherMoves(w, "asking", IF link = "up" THEN "post" ELSE "asleep")
    /\ topSendLock' = NoRefresher
    /\ UNCHANGED <<display, input, profilerVars, cancelled, link, lateSnapshot>>

\* _update_table, by call_from_thread: the worker waits for the UI thread.
UpdateTable(w) ==
    /\ waitsFor = "idle" /\ RefresherMoves(w, "post", "asleep")
    /\ header' = IF topMounted THEN "profiling" ELSE header
    /\ lateSnapshot' = (lateSnapshot \/ ~isProfiling)
    /\ UNCHANGED <<input, profilerVars, topMounted, isProfiling, refreshWorker, cancelled,
                   topSendLock, link>>

-----------------------------------------------------------------------------
(* Others *)

OtherStarts ==
    /\ meddled < MaxMeddling /\ meddled' = meddled + 1 /\ profile = 0
    /\ profile' = profiles + 1 /\ profiles' = profiles + 1
    /\ UNCHANGED <<display, input, refresherVars, ours, link, lateSnapshot>>

OtherStops ==
    /\ meddled < MaxMeddling /\ meddled' = meddled + 1 /\ profile # 0 /\ profile' = 0
    /\ UNCHANGED <<display, input, refresherVars, profiles, ours, link, lateSnapshot>>

LinkLost ==
    /\ link = "up" /\ link' = "lost"
    /\ UNCHANGED <<display, input, refresherVars, profilerVars, lateSnapshot>>

TopViewNext ==
    \/ \E b \in {"start", "stop", "reset"} : Press(b)
    \/ HandlePress \/ UnmountTop \/ TopStartAnswered \/ TopStopAnswered
    \/ ResetAnswered \/ LeaveAnswered
    \/ \E w \in Refreshers : WakeUp(w) \/ AskSnapshot(w) \/ SnapshotAnswered(w) \/ UpdateTable(w)
    \/ OtherStarts \/ OtherStops \/ LinkLost

TopViewSpec == TopViewInit /\ [][TopViewNext]_topViewVars

-----------------------------------------------------------------------------
(* Properties *)

TopViewTypeOK ==
    /\ topMounted \in BOOLEAN /\ isProfiling \in BOOLEAN
    /\ header \in {"stopped", "profiling", "error"}
    /\ waitsFor \in {"idle", "start", "stop", "reset", "leave"}
    /\ refreshWorker \in Refreshers \cup {NoRefresher}
    /\ refresher \in [Refreshers -> {"none", "asleep", "ready", "asking", "post", "done"}]
    /\ profile \in 0..profiles /\ ours \subseteq 1..profiles

\* What the view started does not outlive it while its connection lasts: neither a
\* profile in the agent nor a refresher that goes on; and there is never more than
\* one refresher, none once the view knows that it does not profile.
TopViewGone ==
    /\ ~topMounted /\ waitsFor = "idle" /\ link = "up" => profile \notin ours
    /\ Polling \subseteq {refreshWorker}
    /\ ~isProfiling \/ ~topMounted => Polling = {}

\* While the connection lasts and nobody else meddles, the view profiles when it says so;
\* and a header that says it does when it does not shows a snapshot, or an answer to a
\* reset, that was on its way when the view stopped.
TopViewTells ==
    /\ topMounted /\ waitsFor = "idle" /\ link = "up" /\ meddled = 0 =>
          (isProfiling <=> profile \in ours)
    /\ header = "profiling" => isProfiling \/ lateSnapshot \/ ~topMounted
    /\ header = "stopped" => ~isProfiling

\* The UI thread never waits for a worker that waits for the UI thread.
NoMutualWait ==
    waitsFor # "idle" /\ topSendLock # NoRefresher => refresher[topSendLock] # "post"

TopViewSound == TopViewGone /\ TopViewTells /\ NoMutualWait
=============================================================================
