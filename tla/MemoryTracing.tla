---------------------------- MODULE MemoryTracing ----------------------------
(***************************************************************************)
(* The memory command (peeka/commands/memory.py) and the TUI view that uses  *)
(* it (tui/views/memory*.py).  tracemalloc is one switch of the process that *)
(* the application may use, too; the command remembers whether it turned it  *)
(* on.  It may run in several jobs at once and has no lock: what it reads,    *)
(* the switch and the flag about it, and the list of its two snapshots, can   *)
(* change between its steps; and it is served after a detach as before.       *)
(*                                                                         *)
(* A snapshot is the number it was taken as.  overview, top, dump, gc and the *)
(* reference trees only read.                                               *)
(***************************************************************************)
EXTENDS Naturals, Sequences, SequencesExt

CONSTANTS MemoryClients, \* who issues commands, one at a time each
          ViewClient,    \* the one that is the TUI's view
          MaxSnapshots   \* bound: snapshots taken

ASSUME MemoryAssumption ==
    /\ ViewClient \in MemoryClients
    /\ MaxSnapshots \in Nat

VARIABLES tracing,      \* tracemalloc.is_tracing()
          startedBy,    \* history: who turned it on: nobody, app, peeka
          flag,         \* _started_by_peeka
          snaps,        \* _snapshots
          taken,        \* snapshots taken so far
          job,          \* of each client: where its command is
          detaching,    \* the detach: no, stop, flag, clear (what is next), cleared
          viewCount,    \* the view's _snapshot_count
          confused,     \* history: the application started what is on behind the flag
          raced,        \* history: a start was in progress at the detach, or came later
          unmarked,     \* history: a stop, one start too late, took the flag away
          together      \* history: two commands were at the snapshots at once

tracer == <<tracing, startedBy, flag>>
memoryHistory == <<confused, raced, unmarked, together>>
memoryVars == <<tracer, snaps, taken, job, detaching, viewCount, memoryHistory>>

NoCommand == [at |-> "idle", snap |-> 0]

MemoryInit ==
    /\ tracing = FALSE /\ startedBy = "nobody" /\ flag = FALSE
    /\ snaps = <<>> /\ taken = 0 /\ job = [c \in MemoryClients |-> NoCommand]
    /\ detaching = "no" /\ viewCount = 0
    /\ confused = FALSE /\ raced = FALSE /\ unmarked = FALSE
    /\ together = FALSE

Go(c, at) == job' = [job EXCEPT ![c].at = at]
OnSnapshots(c) == job[c].at \in {"take", "append", "trim", "pop", "count", "new", "old"}

-----------------------------------------------------------------------------
(* Tracing *)

Starting == \E c \in MemoryClients : job[c].at \in {"start", "started"}

\* memory start, up to its test; it does nothing when tracing is on.
AskStart(c) ==
    /\ job[c].at = "idle" /\ ~tracing
    /\ Go(c, "start")
    /\ raced' = (raced \/ detaching # "no")
    /\ UNCHANGED <<tracer, snaps, taken, detaching, viewCount,
                   confused, unmarked, together>>

\* tracemalloc.start does nothing either when it is on by now ...
StartTracing(c) ==
    /\ job[c].at = "start" /\ Go(c, "started")
    /\ tracing' = TRUE
    /\ startedBy' = IF tracing THEN startedBy ELSE "peeka"
    /\ unmarked' = (unmarked /\ tracing)
    /\ UNCHANGED <<flag, snaps, taken, detaching, viewCount,
                   confused, raced, together>>

\* ... and the flag is set in any case.
MarkStarted(c) ==
    /\ job[c].at = "started" /\ Go(c, "idle")
    /\ flag' = TRUE /\ unmarked' = FALSE
    /\ UNCHANGED <<tracing, startedBy, snaps, taken, detaching, viewCount,
                   confused, raced, together>>

AskStop(c) ==
    /\ job[c].at = "idle" /\ tracing
    /\ Go(c, "stop")
    /\ UNCHANGED <<tracer, snaps, taken, detaching, viewCount, memoryHistory>>

\* memory stop: whoever turned it on ...
StopTracing(c) ==
    /\ job[c].at = "stop" /\ Go(c, "stopped")
    /\ tracing' = FALSE /\ startedBy' = "nobody" /\ confused' = FALSE /\ unmarked' = FALSE
    /\ UNCHANGED <<flag, snaps, taken, detaching, viewCount, raced, together>>

\* ... and the flag, whoever has turned it on again by now.
MarkStopped(c) ==
    /\ job[c].at = "stopped" /\ Go(c, "idle")
    /\ flag' = FALSE /\ unmarked' = (startedBy = "peeka")
    /\ UNCHANGED <<tracing, startedBy, snaps, taken, detaching, viewCount,
                   confused, raced, together>>

AppStarts ==
    /\ ~tracing /\ tracing' = TRUE /\ startedBy' = "app"
    /\ confused' = (flag \/ Starting \/ detaching = "stop")
    /\ UNCHANGED <<flag, snaps, taken, job, detaching, viewCount, raced, unmarked, together>>

AppStops ==
    /\ tracing /\ tracing' = FALSE /\ startedBy' = "nobody" /\ confused' = FALSE /\ unmarked' = FALSE
    /\ UNCHANGED <<flag, snaps, taken, job, detaching, viewCount, raced, together>>

\* Mutated form: tracing is stopped whenever it is on.
StopsAny == tracing

StopsOwn == flag

\* stop_active_resources, on detach only: whether the flag is set ...
AskDetach ==
    /\ detaching = "no" /\ detaching' = IF StopsOwn THEN "stop" ELSE "clear"
    /\ raced' = Starting
    /\ UNCHANGED <<tracer, snaps, taken, job, viewCount,
                   confused, unmarked, together>>

\* ... then tracing is stopped, ...
DetachTracing ==
    /\ detaching = "stop" /\ detaching' = "flag"
    /\ tracing' = FALSE /\ startedBy' = "nobody" /\ confused' = FALSE /\ unmarked' = FALSE
    /\ UNCHANGED <<flag, snaps, taken, job, viewCount, raced, together>>

\* ... the flag cleared ...
DetachFlag ==
    /\ detaching = "flag" /\ detaching' = "clear" /\ flag' = FALSE
    /\ UNCHANGED <<tracing, startedBy, snaps, taken, job, viewCount, memoryHistory>>

\* ... and in any case the snapshots.
DetachSnapshots ==
    /\ detaching = "clear" /\ detaching' = "cleared" /\ snaps' = <<>>
    /\ UNCHANGED <<tracer, taken, job, viewCount, memoryHistory>>

-----------------------------------------------------------------------------
(* Snapshots *)

Together(c) == together' = (together \/ \E d \in MemoryClients \ {c} : OnSnapshots(d))

\* Bound: none is asked, nor a difference, after two commands were here together.
AskSnapshot(c) ==
    /\ job[c].at = "idle" /\ tracing /\ taken < MaxSnapshots /\ ~together
    /\ Go(c, "take") /\ Together(c)
    /\ UNCHANGED <<tracer, snaps, taken, detaching, viewCount,
                   confused, raced, unmarked>>

\* take_snapshot raises when tracing was stopped meanwhile: an error answer.
TakeSnapshot(c) ==
    /\ job[c].at = "take" /\ (tracing => taken < MaxSnapshots)
    /\ IF tracing
       THEN taken' = taken + 1 /\ job' = [job EXCEPT ![c] = [at |-> "append", snap |-> taken']]
       ELSE UNCHANGED taken /\ job' = [job EXCEPT ![c] = NoCommand]
    /\ UNCHANGED <<tracer, snaps, detaching, viewCount, memoryHistory>>

AppendSnapshot(c) ==
    /\ job[c].at = "append" /\ job' = [job EXCEPT ![c] = [at |-> "trim", snap |-> 0]]
    /\ snaps' = Append(snaps, job[c].snap)
    /\ UNCHANGED <<tracer, taken, detaching, viewCount, memoryHistory>>

\* More than two?
CheckLength(c) ==
    /\ job[c].at = "trim" /\ Go(c, IF Len(snaps) > 2 THEN "pop" ELSE "count")
    /\ UNCHANGED <<tracer, snaps, taken, detaching, viewCount, memoryHistory>>

DropFirst == IF snaps = <<>> THEN snaps ELSE Tail(snaps)

PopSnapshot(c) ==
    /\ job[c].at = "pop" /\ Go(c, "count") /\ snaps' = DropFirst
    /\ UNCHANGED <<tracer, taken, detaching, viewCount, memoryHistory>>

\* The answer tells how many there are.  The view shows that, and with two it
\* asks for the difference by itself.
SnapshotAnswered(c) ==
    /\ job[c].at = "count"
    /\ IF c = ViewClient /\ Len(snaps) >= 2 THEN Go(c, "new") ELSE job' = [job EXCEPT ![c] = NoCommand]
    /\ viewCount' = IF c = ViewClient THEN Len(snaps) ELSE viewCount
    /\ UNCHANGED <<tracer, snaps, taken, detaching, memoryHistory>>

\* memory diff; the view's button is enabled with two snapshots counted.
AskDiff(c) ==
    /\ job[c].at = "idle" /\ Len(snaps) >= 2 /\ ~together
    /\ c = ViewClient => viewCount >= 2
    /\ Go(c, "new") /\ Together(c)
    /\ UNCHANGED <<tracer, snaps, taken, detaching, viewCount,
                   confused, raced, unmarked>>

\* _snapshots[-1], and in another step _snapshots[-2]; an index that is not
\* there any more is an error answer.
ReadNew(c) ==
    /\ job[c].at = "new"
    /\ job' = [job EXCEPT ![c] = IF Len(snaps) < 2 THEN NoCommand ELSE [at |-> "old", snap |-> Last(snaps)]]
    /\ UNCHANGED <<tracer, snaps, taken, detaching, viewCount, memoryHistory>>

ReadOld(c) ==
    /\ job[c].at = "old" /\ job' = [job EXCEPT ![c] = NoCommand]
    /\ UNCHANGED <<tracer, snaps, taken, detaching, viewCount, memoryHistory>>

\* The view's reset: the count is the view's; the agent is not asked.
ResetDiff ==
    /\ viewCount > 0 /\ viewCount' = 0 /\ job[ViewClient].at = "idle"
    /\ UNCHANGED <<tracer, snaps, taken, job, detaching, memoryHistory>>

MemoryNext ==
    \/ \E c \in MemoryClients :
          \/ AskStart(c) \/ StartTracing(c) \/ MarkStarted(c)
          \/ AskStop(c) \/ StopTracing(c) \/ MarkStopped(c)
          \/ AskSnapshot(c) \/ TakeSnapshot(c) \/ AppendSnapshot(c) \/ CheckLength(c)
          \/ PopSnapshot(c) \/ SnapshotAnswered(c) \/ AskDiff(c) \/ ReadNew(c) \/ ReadOld(c)
    \/ AppStarts \/ AppStops \/ ResetDiff
    \/ AskDetach \/ DetachTracing \/ DetachFlag \/ DetachSnapshots

MemorySpec == MemoryInit /\ [][MemoryNext]_memoryVars

-----------------------------------------------------------------------------
(* Properties *)

MemoryTypeOK ==
    /\ startedBy \in {"nobody", "app", "peeka"} /\ (tracing <=> startedBy # "nobody")
    /\ Len(snaps) <= MaxSnapshots /\ taken \in 0..MaxSnapshots
    /\ detaching \in {"no", "stop", "flag", "clear", "cleared"} /\ viewCount \in 0..MaxSnapshots

\* A detach leaves tracing as the application has it.  It is not about to stop what the
\* application turned on, unless the application did so behind the flag: while it was
\* set, was about to be, or had just been read by the detach.  And it leaves nothing on
\* that Peeka turned on, unless a start was in progress when it read the flag, or came
\* later, or the flag was gone because a stop cleared it only after the next start had
\* set it.
TracingGivenBack ==
    /\ (detaching = "stop" /\ startedBy = "app") => confused
    /\ (detaching \in {"flag", "clear", "cleared"} /\ startedBy = "peeka") => raced \/ unmarked

\* What a diff is about to compare.
Compares(c) == job[c].at = "old" /\ Len(snaps) >= 2
OldOne == snaps[Len(snaps) - 1]

\* As long as no two commands were at the snapshots together, a comparison is of
\* the last two that were taken, the later with the earlier.
DiffLastTwo ==
    \A c \in MemoryClients : (Compares(c) /\ ~together) => job[c].snap = taken /\ OldOne = taken - 1

\* Tracing and snapshots are what the user asked for: the two properties above.
MemorySound == TracingGivenBack /\ DiffLastTwo
=============================================================================
