--------------------------- MODULE AttachInjection ---------------------------
(***************************************************************************)
(* One attach command from its capability check to its answer (ProcessAttacher *)
(* in peeka/core/attach.py, attach_workflow/), with the thread that hands the *)
(* agent's code over, the injector's thread in the target (_inject.c) and the *)
(* agent that announces itself.  With a debugger they meet on one port: the   *)
(* injector connects to fetch the code, the agent to say READY, and the       *)
(* thread and the command itself both accept whatever comes first.  PEP 768   *)
(* has no port: the target runs the script file when it pleases.              *)
(*                                                                         *)
(* What AttachSessions says, which sessions there are and whose files they    *)
(* remove, is left out here; so are the sub-processes that find out about a   *)
(* Python version: a check passes or fails.                                   *)
(***************************************************************************)
EXTENDS Naturals, Sequences

CONSTANTS Methods,     \* of injection: pep768, gdb, lldb
          MaxWaits     \* MAX_ATTEMPTS

ASSUME InjectionAssumption ==
    Methods \subseteq {"pep768", "gdb", "lldb"} /\ MaxWaits \in Nat \ {0}

Phases == {"detect", "prepare", "inject", "wait", "hello", "attached"}

VARIABLES method,
          command,   \* where the attach command is, its waits so far, what it returned
          phaseOf,   \* the last progress event of each phase
          port,      \* the notify server: none, open, closed
          backlog,   \* connections nobody has accepted yet
          server,    \* _serve_agent_code: none, accepting, serving, listening, done
          injector,  \* the thread in the target: none, spawned, receiving, running, gone
          taken,     \* the command accepted the injector's connection
          remote,    \* the agent: none, starting, bound, announced, running, failed
          script,    \* the agent script is on disk
          readyFile,
          target     \* the target process lives

hostState == <<method, command, phaseOf, port, server, script>>
targetState == <<injector, remote, readyFile, target>>
injectionVars == <<hostState, targetState, backlog, taken>>

InjectionInit ==
    /\ method \in Methods
    /\ command = [at |-> "detect", waits |-> 0, told |-> FALSE, result |-> "none"]
    /\ phaseOf = [p \in Phases |-> IF p = "detect" THEN "running" ELSE "none"]
    /\ port = "none" /\ backlog = <<>> /\ server = "none" /\ injector = "none" /\ taken = FALSE
    /\ remote = "none" /\ script = FALSE /\ readyFile = FALSE /\ target = TRUE

ByDebugger == method # "pep768"

\* _is_agent_responsive: connected, asked, answered within a second.
Responsive == remote \in {"bound", "announced", "running"} /\ target

Emit(p, s) == phaseOf' = [phaseOf EXCEPT ![p] = s]
Goto(at) == command' = [command EXCEPT !.at = at]

\* The end of _attach_internal, with the finally clause of the debugger methods if
\* it is in force: the script goes, the port is closed and who is in its queue is
\* turned away.  PEP 768 leaves the script: the target may not have read it yet.
CommandEnds(result, p, s, finally) ==
    /\ command' = [command EXCEPT !.at = "ended", !.result = result]
    /\ phaseOf' = [phaseOf EXCEPT !["attached"] = IF result = "ok" THEN "done" ELSE "failed",
                                  ![p] = s]
    /\ IF finally /\ ByDebugger
       THEN port' = "closed" /\ script' = FALSE /\ backlog' = <<>>
       ELSE UNCHANGED <<port, script, backlog>>

-----------------------------------------------------------------------------
(* The attach command up to the injection *)

\* Another Python version than the target's cannot be injected into it.
VersionDiffers ==
    /\ command.at = "detect" /\ CommandEnds("failed", "detect", "failed", FALSE)
    /\ UNCHANGED <<method, server, targetState, taken>>

CapabilityKnown ==
    /\ command.at = "detect" /\ Goto("prepare")
    /\ phaseOf' = [phaseOf EXCEPT !["detect"] = "done", !["prepare"] = "running"]
    /\ UNCHANGED <<method, port, backlog, server, script, targetState, taken>>

\* No debugger, no permission to trace, no injector: found before or after the port
\* was opened and the script written, and nothing undoes that.
PreparationFails ==
    /\ command.at = "prepare"
    /\ \E written \in BOOLEAN :
          /\ script' = written /\ port' = IF written /\ ByDebugger THEN "open" ELSE "none"
          /\ written => ByDebugger
    /\ command' = [command EXCEPT !.at = "ended", !.result = "unprepared"]
    /\ phaseOf' = [phaseOf EXCEPT !["attached"] = "failed", !["prepare"] = "failed"]
    /\ UNCHANGED <<method, server, backlog, targetState, taken>>

Prepare ==
    /\ command.at = "prepare" /\ Goto("inject")
    /\ phaseOf' = [phaseOf EXCEPT !["prepare"] = "done", !["inject"] = "running"]
    /\ script' = TRUE
    /\ IF ByDebugger THEN port' = "open" /\ server' = "accepting" ELSE UNCHANGED <<port, server>>
    /\ UNCHANGED <<method, backlog, targetState, taken>>

\* The debugger's script has called peeka_spawn_agent; the process is still stopped.
DebuggerSpawns ==
    /\ command.at = "inject" /\ ByDebugger /\ injector = "none" /\ target
    /\ injector' = "spawned"
    /\ UNCHANGED <<hostState, backlog, taken, remote, readyFile, target>>

\* The debugger exits and its output tells of no failure, or remote_exec returns.
Injected ==
    /\ command.at = "inject" /\ (ByDebugger => injector # "none")
    /\ Goto("wait")
    /\ phaseOf' = [phaseOf EXCEPT !["inject"] = "done", !["wait"] = "running"]
    /\ IF ByDebugger THEN UNCHANGED remote ELSE remote' = "starting"
    /\ UNCHANGED <<method, port, backlog, server, script, injector, readyFile, target, taken>>

\* It could not be run, timed out, or its output tells of a failure: of the phase in
\* the first cases only.  What it had spawned by then goes on.
InjectionFailed ==
    /\ command.at = "inject"
    /\ \E s \in IF ByDebugger THEN {"failed", "done"} ELSE {"failed"} :
          CommandEnds("failed", "inject", s, TRUE)
    /\ UNCHANGED <<method, server, targetState, taken>>

-----------------------------------------------------------------------------
(* _wait_for_agent_ready *)

Announced == Head(backlog) = "ready"

\* The first connection in the queue: the agent's, which says READY, or the
\* injector's, which waits for the code and says nothing: recv has no time limit.
AcceptOne ==
    /\ command.at = "wait" /\ port = "open" /\ backlog # <<>>
    /\ backlog' = Tail(backlog)
    /\ IF Announced
       THEN /\ command' = [command EXCEPT !.at = "hello", !.told = TRUE]
            /\ phaseOf' = [phaseOf EXCEPT !["wait"] = "done", !["hello"] = "running"]
            /\ UNCHANGED taken
       ELSE Goto("silence") /\ taken' = TRUE /\ UNCHANGED phaseOf
    /\ UNCHANGED <<method, port, server, script, targetState>>

\* The injector is gone with its process: an empty answer.
SilenceEnds ==
    /\ command.at = "silence" /\ injector = "gone" /\ Goto("poll")
    /\ UNCHANGED <<method, phaseOf, port, backlog, server, script, targetState, taken>>

\* No port, or nobody in time.
AcceptNone ==
    /\ command.at = "wait" /\ Goto("poll")
    /\ UNCHANGED <<method, phaseOf, port, backlog, server, script, targetState, taken>>

\* The agent answers: attached, and the pid file is written.
HelloAnswered ==
    /\ command.at \in {"hello", "probe"} /\ Responsive
    /\ CommandEnds("ok", "hello", "done", TRUE)
    /\ UNCHANGED <<method, server, targetState, taken>>

\* After READY the agent is asked once, then looked for as without a port.
HelloUnanswered ==
    /\ command.at = "hello" /\ Goto("poll")
    /\ UNCHANGED <<method, phaseOf, port, backlog, server, script, targetState, taken>>

ReadyFileFound ==
    /\ command.at = "poll" /\ readyFile /\ Goto("probe")
    /\ phaseOf' = [phaseOf EXCEPT !["wait"] = "done", !["hello"] = "running"]
    /\ UNCHANGED <<method, port, backlog, server, script, targetState, taken>>

\* Time is up: another attempt from the start, or the end.  Only what has not been
\* reported done is reported failed.
Unheard == IF command.at = "probe" THEN <<"hello", "failed">>
           ELSE IF command.told THEN <<"wait", "done">> ELSE <<"wait", "failed">>

WaitOver ==
    /\ command.at \in {"poll", "probe"}
    /\ IF command.waits + 1 < MaxWaits
       THEN /\ command' = [command EXCEPT !.at = "wait", !.waits = @ + 1, !.told = FALSE]
            /\ phaseOf' = [phaseOf EXCEPT ![Unheard[1]] = Unheard[2], !["wait"] = "running"]
            /\ UNCHANGED <<port, script, backlog>>
       ELSE CommandEnds("failed", Unheard[1], Unheard[2], TRUE)
    /\ UNCHANGED <<method, server, targetState, taken>>

-----------------------------------------------------------------------------
(* The thread that hands the code over *)

ServeOne ==
    /\ server = "accepting" /\ port = "open" /\ backlog # <<>>
    /\ server' = "serving" /\ backlog' = Tail(backlog)
    /\ UNCHANGED <<method, command, phaseOf, port, script, targetState, taken>>

\* All of it, and the end of the stream; then whatever the injector reports.
CodeServed ==
    /\ server = "serving" /\ server' = "listening"
    /\ UNCHANGED <<method, command, phaseOf, port, script, targetState, backlog, taken>>

ServerEnds ==
    /\ \/ server = "listening" /\ injector = "gone"
       \/ server = "accepting"               \* nobody in 30 s, or the port is closed
    /\ server' = "done"
    /\ UNCHANGED <<method, command, phaseOf, port, script, targetState, backlog, taken>>

-----------------------------------------------------------------------------
(* The target *)

InjectorConnects ==
    /\ injector = "spawned" /\ target
    /\ IF port = "open" THEN injector' = "receiving" /\ backlog' = Append(backlog, "code")
                        ELSE injector' = "gone" /\ UNCHANGED backlog
    /\ UNCHANGED <<hostState, remote, readyFile, target, taken>>

\* recvall ends with the stream: served, or reset while nobody had accepted it.
InjectorRuns ==
    /\ injector = "receiving" /\ target
    /\ IF server = "listening" THEN injector' = "running" /\ remote' = "starting"
       ELSE server # "serving" /\ port # "open" /\ ~taken /\ injector' = "gone" /\ UNCHANGED remote
    /\ UNCHANGED <<hostState, backlog, readyFile, target, taken>>

\* The script has run, or failed to: the injector says so and closes.
InjectorDone ==
    /\ injector = "running" /\ remote \in {"running", "failed"}
    /\ injector' = "gone"
    /\ UNCHANGED <<hostState, backlog, remote, readyFile, target, taken>>

RemoteStep(from, to) ==
    /\ target /\ remote = from /\ remote' = to
    /\ readyFile' = (readyFile \/ to = "running")
    /\ UNCHANGED <<hostState, injector, target, taken>>

\* start: the socket, the announcement if there is a port, the ready file.
RemoteBinds == RemoteStep("starting", "bound") /\ UNCHANGED backlog

RemoteAnnounces ==
    /\ RemoteStep("bound", "announced")
    /\ backlog' = IF ByDebugger /\ port = "open" THEN Append(backlog, "ready") ELSE backlog

RemoteReady == RemoteStep("announced", "running") /\ UNCHANGED backlog

RemoteFails ==
    /\ \E s \in {"starting", "bound", "announced"} : RemoteStep(s, "failed")
    /\ UNCHANGED backlog

TargetEnds ==
    /\ target /\ target' = FALSE
    /\ injector' = (IF injector = "none" THEN "none" ELSE "gone")
    /\ UNCHANGED <<hostState, backlog, remote, readyFile, taken>>

CommandSteps ==
    \/ VersionDiffers \/ CapabilityKnown \/ PreparationFails \/ Prepare
    \/ Injected \/ InjectionFailed
    \/ AcceptOne \/ SilenceEnds \/ AcceptNone \/ HelloAnswered \/ HelloUnanswered
    \/ ReadyFileFound \/ WaitOver

InjectionNext ==
    \/ CommandSteps \/ DebuggerSpawns
    \/ ServeOne \/ CodeServed \/ ServerEnds
    \/ InjectorConnects \/ InjectorRuns \/ InjectorDone
    \/ RemoteBinds \/ RemoteAnnounces \/ RemoteReady \/ RemoteFails \/ TargetEnds

\* Every wait of the command has a time limit, but the one for what an accepted
\* connection says: its steps are taken.
InjectionSpec ==
    InjectionInit /\ [][InjectionNext]_injectionVars /\ WF_injectionVars(CommandSteps)

-----------------------------------------------------------------------------
(* Properties *)

InjectionTypeOK ==
    /\ method \in Methods /\ phaseOf \in [Phases -> {"none", "running", "done", "failed"}]
    /\ command.at \in {"detect", "prepare", "inject", "wait", "silence", "hello", "poll",
                       "probe", "ended"}
    /\ command.waits < MaxWaits /\ command.result \in {"none", "ok", "failed", "unprepared"}
    /\ port \in {"none", "open", "closed"} /\ Len(backlog) <= 2
    /\ server \in {"none", "accepting", "serving", "listening", "done"}
    /\ injector \in {"none", "spawned", "receiving", "running", "gone"}
    /\ remote \in {"none", "starting", "bound", "announced", "running", "failed"}

\* What an attach command leaves and reports is true.  It has attached only if there
\* is an agent; by a debugger it leaves neither script nor port, unless it failed
\* while it prepared them; and of its phases none is still shown as running, but
\* that of an agent that said READY, did not answer and never left its ready file.
AttachReports ==
    command.at = "ended" =>
       /\ command.result = "ok" => remote \notin {"none", "starting"} \/ ~target
       /\ ByDebugger /\ command.result # "unprepared" => ~script /\ port # "open"
       /\ \A p \in Phases : phaseOf[p] = "running" => p = "hello" /\ ByDebugger

\* An attach command comes to an end, whatever the target does: unless the command
\* itself accepted the connection of the injector, which then waits for its code
\* from a command that waits for its READY, both without a time limit.
AttachReturns == <>[](command.at = "ended" \/ (taken /\ target))
=============================================================================
