---------------------------- MODULE RunHandshake ----------------------------
(***************************************************************************)
(* peeka-cli run (peeka/cli/handlers/run.py) and the child it starts         *)
(* (core/bootstrap.py).  Parent and child meet in two files, import-ready    *)
(* and go; the parent attaches in between.  Both wait 30 s at most.          *)
(*                                                                         *)
(* parent is the stack of the parent's main thread: the program and, above   *)
(* it, the signal handlers.  Attaching is AttachSessions' concern, and the   *)
(* observations are ClientStream's: here they come or do not.                *)
(***************************************************************************)
EXTENDS Naturals, Sequences, SequencesExt

CONSTANTS RunSignals,  \* bound: signals sent to the parent
          StubbornScript \* TRUE: the script may go on when it is sent a signal

ASSUME RunAssumption == RunSignals \in Nat /\ StubbornScript \in BOOLEAN

VARIABLES parent,   \* steps of the frames of its main thread, innermost last
          code,     \* its exit code, "none" while it runs
          handlers, \* the signal handlers are installed
          childAt,  \* none, importing, waiting, script, exited, reaped
          childCode, \* how the child exited
          marks,    \* the files import-ready and go
          agentIn,  \* the agent in the child: none, up, stopped
          observer, \* the observation started for the run: none, on, off
          limited,  \* limit_hit
          sawExit,  \* the parent knows how the child exited
          sent,     \* signals sent so far
          atStart,  \* history: observer when the script began
          unwaited  \* history: the parent was ended by a signal it did not handle

runVars == <<parent, code, handlers, childAt, childCode, marks, agentIn, observer,
             limited, sawExit, sent, atStart, unwaited>>
childState == <<childAt, childCode, agentIn>>
runHistory == <<atStart, unwaited>>

RunInit ==
    /\ parent = <<"import">> /\ code = "none" /\ handlers = FALSE
    /\ childAt = "importing" /\ childCode = "none" /\ marks = {} /\ agentIn = "none"
    /\ observer = "none" /\ limited = FALSE /\ sawExit = FALSE /\ sent = 0
    /\ atStart = "none" /\ unwaited = FALSE

ParentAt(step) == parent # <<>> /\ Last(parent) = step
Proceed(step) == parent' = [parent EXCEPT ![Len(parent)] = step]

ChildLive  == childAt \in {"importing", "waiting", "script"}
Reachable == ChildLive /\ agentIn = "up"

-----------------------------------------------------------------------------
(* The child *)

\* When the child exits its agent stops, and closes the connections; killed, it
\* takes them along.
ChildEnds(how) ==
    /\ childAt' = "exited" /\ childCode' = how
    /\ agentIn' = IF agentIn = "up" THEN "stopped" ELSE agentIn

Imported ==
    /\ childAt = "importing" /\ childAt' = "waiting" /\ marks' = marks \cup {"import-ready"}
    /\ UNCHANGED <<parent, code, handlers, childCode, agentIn, observer, limited, sawExit,
                   sent, runHistory>>

ImportFails ==
    /\ childAt = "importing" /\ ChildEnds("error")
    /\ UNCHANGED <<parent, code, handlers, marks, observer, limited, sawExit, sent, runHistory>>

GoSeen ==
    /\ childAt = "waiting" /\ "go" \in marks
    /\ childAt' = "script" /\ atStart' = observer
    /\ UNCHANGED <<parent, code, handlers, childCode, marks, agentIn, observer, limited,
                   sawExit, sent, unwaited>>

\* 30 s without go: exit status 1.  atexit removes the files.
GoTimesOut ==
    /\ childAt = "waiting" /\ ChildEnds("error") /\ marks' = {}
    /\ UNCHANGED <<parent, code, handlers, observer, limited, sawExit, sent, runHistory>>

ScriptEnds(how) ==
    /\ childAt = "script" /\ ChildEnds(how) /\ marks' = {}
    /\ UNCHANGED <<parent, code, handlers, observer, limited, sawExit, sent, runHistory>>

-----------------------------------------------------------------------------
(* The parent up to the stream *)

RunEnds(how) == parent' = <<>> /\ code' = how /\ marks' = {}   \* _cleanup_run_files

\* SIGKILL and waitpid.
KillChild ==
    /\ childAt' = "reaped"
    /\ childCode' = IF childAt = "exited" THEN childCode ELSE "killed"
    /\ agentIn' = IF agentIn = "up" THEN "stopped" ELSE agentIn

\* Mutated form: the parent goes away and leaves the child to its time limit.
LeaveChild == UNCHANGED childState

EndChild == KillChild

SeeImport ==
    /\ ParentAt("import") /\ "import-ready" \in marks /\ Proceed("attach")
    /\ UNCHANGED <<code, handlers, childState, marks, observer, limited, sawExit, sent, runHistory>>

\* Mutated form: as long as nothing is ready, the parent goes on waiting.
NeverOverdue == FALSE

\* It does not look whether the child is still there.
Overdue == "import-ready" \notin marks

ImportTimesOut ==
    /\ ParentAt("import") /\ Overdue
    /\ EndChild /\ RunEnds("one")
    /\ UNCHANGED <<handlers, observer, limited, sawExit, sent, runHistory>>

\* Attached while the child waits or runs: its handlers follow.
AttachChild ==
    /\ ParentAt("attach") /\ ChildLive
    /\ agentIn' = "up" /\ handlers' = TRUE /\ Proceed("start")
    /\ UNCHANGED <<code, childAt, childCode, marks, observer, limited, sawExit, sent, runHistory>>

AttachFails ==
    /\ ParentAt("attach") /\ EndChild /\ RunEnds("one")
    /\ UNCHANGED <<handlers, observer, limited, sawExit, sent, runHistory>>

\* The stream is connected and the command succeeds.
StartObserver ==
    /\ ParentAt("start") /\ Reachable
    /\ observer' = "on" /\ Proceed("go")
    /\ UNCHANGED <<code, handlers, childState, marks, limited, sawExit, sent, runHistory>>

\* No connection, an unknown command, an error or no answer: clean up, return 1.
StartFails ==
    /\ ParentAt("start") /\ Proceed("abort")
    /\ UNCHANGED <<code, handlers, childState, marks, observer, limited, sawExit, sent, runHistory>>

\* The command is set up: the child is let go.
WriteGo ==
    /\ ParentAt("go")
    /\ marks' = marks \cup {"go"} /\ Proceed("stream")
    /\ UNCHANGED <<code, handlers, childState, observer, limited, sawExit, sent, runHistory>>

-----------------------------------------------------------------------------
(* The stream and the ends of it *)

\* An observation is printed and the child polled, when it may have exited.
PollChild ==
    /\ ParentAt("stream") /\ childAt \in {"exited", "reaped"}
    /\ childAt' = "reaped" /\ sawExit' = TRUE /\ Proceed("clean")
    /\ UNCHANGED <<code, handlers, childCode, marks, agentIn, observer, limited, sent, runHistory>>

\* The limit is reached: stop, on another connection.
LimitHit ==
    /\ ParentAt("stream") /\ observer = "on" /\ atStart = "on"
    /\ limited' = TRUE /\ Proceed("limit")
    /\ observer' = IF Reachable THEN "off" ELSE observer
    /\ UNCHANGED <<code, handlers, childState, marks, sawExit, sent, runHistory>>

\* The connection ends with the agent: cleanup_and_exit, of whatever is left.
StreamCloses ==
    /\ ParentAt("stream") /\ ~Reachable /\ Proceed("clean")
    /\ UNCHANGED <<code, handlers, childState, marks, observer, limited, sawExit, sent, runHistory>>

\* cleanup_and_exit, before waitpid: detach.  In a handler the signal is passed
\* on first, at which the script ends, or not.
Detach(step, then) ==
    /\ ParentAt(step) /\ Proceed(then)
    /\ IF ChildLive /\ step = "signalled"
       THEN \/ ChildEnds("signal")
            \/ /\ StubbornScript \/ childAt # "script"
               /\ agentIn' = IF agentIn = "up" THEN "stopped" ELSE agentIn
               /\ UNCHANGED <<childAt, childCode>>
       ELSE /\ agentIn' = IF agentIn = "up" THEN "stopped" ELSE agentIn
            /\ UNCHANGED <<childAt, childCode>>
    /\ observer' = IF observer = "on" THEN "off" ELSE observer
    /\ UNCHANGED <<code, handlers, marks, limited, sawExit, sent, runHistory>>

CleanUpRun == Detach("clean", "wait") \/ Detach("abort", "wait and fail")
                                   \/ Detach("signalled", "wait and exit")

\* waitpid without a limit.  What it returned is used only by the handler, and at
\* the limit; the outer exit_code stays 0.
WaitForChild ==
    /\ parent # <<>> /\ Last(parent) \in {"limit", "wait", "wait and fail", "wait and exit"}
    /\ childAt \in {"exited", "reaped"}
    /\ childAt' = "reaped"
    /\ RunEnds(CASE ParentAt("wait and fail")                 -> "one"
              [] ParentAt("wait")                          -> IF sawExit THEN childCode ELSE "zero"
              [] ~ParentAt("wait") /\ childAt = "exited"         -> childCode
              [] OTHER                               -> "zero")
    /\ UNCHANGED <<handlers, childCode, agentIn, observer, limited, sawExit, sent, runHistory>>

SignalParent ==
    /\ parent # <<>> /\ sent < RunSignals /\ sent' = sent + 1
    /\ IF handlers THEN parent' = Append(parent, "signalled") /\ UNCHANGED <<code, marks, unwaited>>
       ELSE /\ parent' = <<>> /\ code' = "signal" /\ unwaited' = TRUE
            /\ marks' \in {marks, {}}      \* SIGTERM leaves the files, SIGINT does not
    /\ UNCHANGED <<handlers, childState, observer, limited, sawExit, atStart>>

\* Any exception: the child is killed.  While the stream is read, cleanup_and_exit
\* comes first, which waits for the child.
ParentBreaks ==
    /\ \/ (ParentAt("start") \/ ParentAt("go")) /\ EndChild /\ RunEnds("one")
       \/ ParentAt("stream") /\ Proceed("abort") /\ UNCHANGED <<code, marks, childState>>
    /\ UNCHANGED <<handlers, observer, limited, sawExit, sent, runHistory>>

ParentSteps ==
    \/ SeeImport \/ ImportTimesOut \/ AttachChild \/ AttachFails \/ StartObserver \/ StartFails
    \/ WriteGo \/ PollChild \/ StreamCloses \/ CleanUpRun \/ WaitForChild

ChildSteps == Imported \/ ImportFails \/ GoSeen \/ GoTimesOut

RunNext ==
    \/ ParentSteps \/ LimitHit \/ ParentBreaks \/ SignalParent \/ ChildSteps
    \/ \E how \in {"zero", "error"} : ScriptEnds(how)

\* Everything but the script's end is timed, or does not wait.
RunSpec == /\ RunInit /\ [][RunNext]_runVars
           /\ WF_runVars(ParentSteps) /\ WF_runVars(ChildSteps)

-----------------------------------------------------------------------------
(* Properties *)

RunTypeOK ==
    /\ Len(parent) <= RunSignals + 1
    /\ code \in {"none", "zero", "one", "error", "signal", "killed"}
    /\ childAt \in {"importing", "waiting", "script", "exited", "reaped"}
    /\ childCode \in {"none", "zero", "error", "signal", "killed"}
    /\ marks \subseteq {"import-ready", "go"} /\ sent <= RunSignals

\* The script of a run does not begin before its observation is set up, as the
\* steps at the head of bootstrap.py say; if it was stopped since, so be it.
\* No child is left behind, either: when the parent has ended it has waited for
\* the child, unless a signal ended it before it had handlers.
ChildLookedAfter ==
    /\ childAt = "script" => atStart # "none"
    /\ (parent = <<>> /\ ~unwaited) => childAt = "reaped"

\* The run ends if its child does, whichever of them failed, at whatever step.
RunFollows == childAt = "exited" ~> parent = <<>>
=============================================================================
