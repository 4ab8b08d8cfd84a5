---------------------------- MODULE StreamCommand ----------------------------
(***************************************************************************)
(* peeka-cli watch, trace, stack, monitor and top: run_streaming_command     *)
(* (peeka/cli/streaming.py, with _client_helper.py and handlers/observe.py). *)
(* The program opens a client session on a connection of its own, starts the *)
(* probe, prints observations to the limit, and cleans up.  SIGINT and       *)
(* SIGTERM run the same clean-up, on top of whatever the main thread is      *)
(* doing, and then exit, which unwinds what is below.                        *)
(*                                                                         *)
(* main is the stack of the main thread: the program, and above it the       *)
(* signal handlers.  A round trip on the streaming connection holds its      *)
(* _send_lock, which is not reentrant.  What comes back is ClientStream's.   *)
(***************************************************************************)
EXTENDS Naturals, Sequences, SequencesExt, FiniteSets

CONSTANTS MaxSignals,  \* bound: signals sent to the command
          StreamLimit, \* the observations asked for
          SlowAgent    \* TRUE: a round trip may time out after its 30 s

ASSUME CommandAssumption ==
    MaxSignals \in Nat /\ StreamLimit \in Nat /\ SlowAgent \in BOOLEAN

VARIABLES main,      \* steps of the frames of the main thread, innermost last
          streaming, \* the streaming connection: none, open, closed
          sendLock,  \* depth of the frame that holds its _send_lock; 0: nobody
          streamId,  \* stream_id is known
          sessionId, \* the client session is known
          requests,  \* requests the agent has not handled
          answered,  \* requests it has handled, with the outcome
          agentProbe, agentSession,  \* what exists in the agent
          shown,     \* observations printed
          signals,   \* signals sent so far
          exitCode,
          blind      \* history: a round trip was given up, or cut by a signal, or
                     \* the connection was lost

client == <<streaming, sendLock, streamId, sessionId>>
agent == <<requests, answered, agentProbe, agentSession>>
commandVars == <<main, client, agent, shown, signals, exitCode, blind>>

Running0 == 99   \* no exit code yet

CommandInit ==
    /\ main = <<"connect">> /\ streaming = "none" /\ sendLock = 0
    /\ streamId = FALSE /\ sessionId = FALSE
    /\ requests = {} /\ answered = {} /\ agentProbe = "none" /\ agentSession = "none"
    /\ shown = 0 /\ signals = 0 /\ exitCode = Running0 /\ blind = FALSE

Depth == Len(main)
Step == Last(main)
Steps(next) == main' = [main EXCEPT ![Depth] = next]

\* The process ends; what the sockets held is handled by the agent all the same.
Exits(code) ==
    /\ main' = <<>> /\ exitCode' = code /\ streaming' = "closed" /\ sendLock' = 0

-----------------------------------------------------------------------------
(* The agent *)

\* stop and close find what they name, or do nothing.
Handle(r) ==
    /\ r \in requests /\ requests' = requests \ {r}
    /\ \/ /\ r = "start" /\ agentProbe' = "running" /\ answered' = answered \cup {"start"}
          /\ UNCHANGED agentSession
       \/ /\ r = "start" /\ answered' = answered \cup {"refused"}
          /\ UNCHANGED <<agentProbe, agentSession>>
       \/ /\ r = "stop" /\ agentProbe' = "stopped" /\ answered' = answered \cup {"stop"}
          /\ UNCHANGED agentSession
       \/ /\ r = "create" /\ agentSession' = "open" /\ answered' = answered \cup {"create"}
          /\ UNCHANGED agentProbe
       \/ /\ r = "close" /\ agentSession' = "closed" /\ answered' = answered \cup {"close"}
          /\ UNCHANGED agentProbe
    /\ UNCHANGED <<main, client, shown, signals, exitCode, blind>>

-----------------------------------------------------------------------------
(* Round trips.  create and close go over the session's own connection, whose
   lock no handler asks for. *)

\* Mutated form: the lock is not given back.
KeepLock == UNCHANGED sendLock

Unlock == sendLock' = 0

Send(r, wait) ==
    /\ requests' = requests \cup {r} /\ Steps(wait)
    /\ UNCHANGED <<answered, agentProbe, agentSession>>

Connect ==
    /\ main = <<"connect">>
    /\ \/ streaming' = "open" /\ Steps("open") /\ UNCHANGED exitCode
       \/ main' = <<>> /\ exitCode' = 1 /\ UNCHANGED streaming
    /\ UNCHANGED <<sendLock, streamId, sessionId, agent, shown, signals, blind>>

OpenSession ==
    /\ Step = "open" /\ Send("create", "opening")
    /\ UNCHANGED <<client, shown, signals, exitCode, blind>>

SessionOpened ==
    /\ Step = "opening" /\ "create" \in answered
    /\ sessionId' = TRUE /\ Steps("start")
    /\ UNCHANGED <<streaming, sendLock, streamId, agent, shown, signals, exitCode, blind>>

StartProbe ==
    /\ Step = "start" /\ streaming = "open"
    /\ sendLock' = Depth /\ Send("start", "starting")
    /\ UNCHANGED <<streaming, streamId, sessionId, shown, signals, exitCode, blind>>

ProbeStarted ==
    /\ Step = "starting" /\ "start" \in answered
    /\ Unlock /\ streamId' = TRUE /\ Steps("stream")
    /\ UNCHANGED <<streaming, sessionId, agent, shown, signals, exitCode, blind>>

\* The start fails: disconnect, return 1; the session is closed on the way out.
StartRefused ==
    /\ Step = "starting" /\ "refused" \in answered
    /\ sendLock' = 0 /\ streaming' = "closed" /\ exitCode' = 1 /\ Steps("close")
    /\ UNCHANGED <<streamId, sessionId, agent, shown, signals, blind>>

Observe ==
    /\ Step = "stream" /\ agentProbe = "running" /\ shown < StreamLimit
    /\ shown' = shown + 1
    /\ UNCHANGED <<main, client, agent, signals, exitCode, blind>>

\* Mutated form: what remains to be done is left to the agent.
StreamDone == Steps("close")

\* The limit is reached: finally, cleanup().
StreamEnded == Steps("cleanup")

LimitReached ==
    /\ Step = "stream" /\ shown = StreamLimit
    /\ StreamEnded
    /\ UNCHANGED <<client, agent, shown, signals, exitCode, blind>>

-----------------------------------------------------------------------------
(* _cleanup_stream: in the program, and in a signal handler *)

\* send_command returns at once when there is no socket.
StopIsSent == streamId /\ streaming = "open"

SendStop ==
    /\ Step = "cleanup" /\ StopIsSent
    /\ sendLock = 0 /\ sendLock' = Depth
    /\ Send("stop", "stopping")
    /\ UNCHANGED <<streaming, streamId, sessionId, shown, signals, exitCode, blind>>

NoStop ==
    /\ Step = "cleanup" /\ ~StopIsSent /\ Steps("disconnect")
    /\ UNCHANGED <<client, agent, shown, signals, exitCode, blind>>

Stopped ==
    /\ Step = "stopping" /\ "stop" \in answered
    /\ Unlock /\ Steps("disconnect")
    /\ UNCHANGED <<streaming, streamId, sessionId, agent, shown, signals, exitCode, blind>>

\* Where the program is when SystemExit has passed: its session is closed on the
\* way out, unless it is not known or the clause that closes it was cut short.
Unwound == CASE ~sessionId \/ main[1] = "closing" -> {"leave"}
             [] main[1] = "close"                  -> {"close", "leave"}
             [] OTHER                              -> {"close"}

\* disconnect; then the program closes its session, while a handler raises
\* SystemExit: the frames below end.
DisconnectStream ==
    /\ Step = "disconnect" /\ streaming' = "closed"
    /\ IF Depth = 1 THEN Steps("close") /\ UNCHANGED <<sendLock, exitCode, blind>>
       ELSE /\ sendLock' = 0 /\ exitCode' = 130
            /\ \E next \in Unwound : main' = <<next>>
            /\ blind' = (blind \/ \E i \in 1..(Depth - 1) :
                           main[i] \in {"opening", "starting", "stopping", "close", "closing"})
    /\ UNCHANGED <<streamId, sessionId, agent, shown, signals>>

CloseSession ==
    /\ Step = "close" /\ Send("close", "closing")
    /\ UNCHANGED <<client, shown, signals, exitCode, blind>>

SessionClosed ==
    /\ Step = "closing" /\ "close" \in answered /\ Depth = 1
    /\ Exits(IF exitCode = Running0 THEN 0 ELSE exitCode)
    /\ UNCHANGED <<streamId, sessionId, agent, shown, signals, blind>>

Leave ==
    /\ Step = "leave" /\ Exits(exitCode)
    /\ UNCHANGED <<streamId, sessionId, agent, shown, signals, blind>>

-----------------------------------------------------------------------------
(* Failures and signals *)

\* A round trip ends without its answer: error, clean-up, exit status 1.
TimedOut ==
    /\ SlowAgent /\ Step \in {"opening", "starting", "stopping", "closing"}
    /\ blind' = TRUE /\ sendLock' = IF sendLock = Depth THEN 0 ELSE sendLock
    /\ CASE Step = "opening"  -> Steps("leave") /\ exitCode' = 1 /\ streaming' = "closed"
         [] Step = "starting" -> Steps("close") /\ exitCode' = 1 /\ streaming' = "closed"
         [] Step = "stopping" -> Steps("disconnect") /\ UNCHANGED <<exitCode, streaming>>
         [] Step = "closing"  -> Steps("leave") /\ UNCHANGED streaming
                                 /\ exitCode' = IF exitCode = Running0 THEN 0 ELSE exitCode
    /\ UNCHANGED <<streamId, sessionId, agent, shown, signals>>

\* The agent ends, or closes the connection: the stream ends like at its limit.
PeerCloses ==
    /\ Step = "stream" /\ blind' = TRUE
    /\ StreamEnded
    /\ UNCHANGED <<client, agent, shown, signals, exitCode>>

\* The handlers are set before the streaming connection is made.
Signal ==
    /\ main # <<>> /\ signals < MaxSignals
    /\ signals' = signals + 1 /\ main' = Append(main, IF streaming = "none" THEN "disconnect" ELSE "cleanup")
    /\ UNCHANGED <<client, agent, shown, exitCode, blind>>

MainSteps ==
    \/ Connect \/ OpenSession \/ SessionOpened \/ StartProbe \/ ProbeStarted
    \/ StartRefused \/ LimitReached \/ SendStop \/ NoStop \/ Stopped \/ DisconnectStream
    \/ CloseSession \/ SessionClosed \/ Leave

CommandNext ==
    \/ main # <<>> /\ (MainSteps \/ Observe \/ TimedOut \/ PeerCloses \/ Signal)
    \/ \E r \in {"create", "start", "stop", "close"} : Handle(r)

CommandSpec ==
    /\ CommandInit /\ [][CommandNext]_commandVars
    /\ WF_commandVars(main # <<>> /\ MainSteps)
    /\ WF_commandVars(\E r \in {"create", "start", "stop", "close"} : Handle(r))

-----------------------------------------------------------------------------
(* Properties *)

CommandTypeOK ==
    /\ Len(main) <= MaxSignals + 1 /\ sendLock \in 0..MaxSignals + 1
    /\ streaming \in {"none", "open", "closed"} /\ exitCode \in {0, 1, 130, Running0}
    /\ requests \subseteq {"create", "start", "stop", "close"} /\ shown <= StreamLimit

\* When the command has ended and no round trip of it was given up or cut short,
\* nothing of it goes on in the agent, once that has read what it was sent:
\* the probe was stopped and the session closed, however the command ended.
NothingRunsOn ==
    (main = <<>> /\ requests = {} /\ ~blind) => agentProbe # "running" /\ agentSession # "open"

\* A signal that comes while no round trip is being waited for on the streaming
\* connection with a known stream ends the command.  (One that comes while the
\* clean-up waits for the answer to its stop needs the lock its own thread holds.)
SelfLocked ==
    /\ Step = "cleanup" /\ StopIsSent
    /\ sendLock \in 1..(Depth - 1) /\ main[sendLock] = "stopping"

SignalEnds == (signals > 0 /\ main # <<>>) ~> (main = <<>> \/ (main # <<>> /\ SelfLocked))
=============================================================================
