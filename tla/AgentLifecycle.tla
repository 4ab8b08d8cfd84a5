--------------------------- MODULE AgentLifecycle ---------------------------
(***************************************************************************)
(* The life of agents in the target (peeka/core/agent.py: _init_agent, stop, *)
(* the exit hooks, the signal handlers; agent_control/lifecycle.py).  The    *)
(* injected script, the handlers of signals and the pending calls all run on *)
(* the main thread, between any two bytecodes of it: that thread is a stack  *)
(* of what has interrupted what.  A detach runs stop on a client's thread.   *)
(*                                                                         *)
(* One signal is followed (SIGTERM, and SIGHUP which is handled alike), and  *)
(* one function that each agent may wrap.  exception hooks and atexit are    *)
(* left out, and so is the flush of the observation queues.                  *)
(***************************************************************************)
EXTENDS Naturals, Sequences

CONSTANTS MaxAgents,    \* bound: agents attached
          Dispositions, \* what the application may do of the signal
          MaxDepth      \* bound: frames of the main thread

ASSUME AgentAssumption ==
    /\ MaxAgents \in Nat /\ MaxDepth \in Nat
    /\ Dispositions \subseteq {"default", "ignored", "called"}

Agents == 1..MaxAgents

VARIABLES created,     \* agents constructed, numbered in order
          stopped,     \* _stopped of each
          agents,      \* sys._peeka_agents
          disposition, \* what the application asked for, last
          handler,     \* getsignal: an agent, or the application's own
          previous,    \* _prev_sigterm_handler of each
          restores,    \* agents whose hooks a pending call will restore
          main,        \* the frames of the main thread, the innermost first
          client,      \* where the detach of each agent is
          holder,      \* agents whose injector lock the main thread holds
          wrapped,     \* agents that have a wrapper in place
          signal,      \* what became of the signal sent
          takenOver,   \* history: an agent found the hooks of one being stopped
          lateStarts   \* history: agents that injected after their stop began

registry == <<created, stopped, agents>>
hooks == <<disposition, handler, previous, restores>>
targets == <<holder, wrapped>>
histories == <<takenOver, lateStarts>>
agentVars == <<registry, hooks, main, client, targets, signal, histories>>

AgentInit ==
    /\ created = 0 /\ stopped = {} /\ agents = {}
    /\ disposition \in Dispositions \X {1} /\ handler = disposition
    /\ previous = [a \in Agents |-> disposition] /\ restores = <<>>
    /\ main = <<>> /\ client = [a \in Agents |-> "serving"]
    /\ holder = {} /\ wrapped = {} /\ signal = "unsent"
    /\ takenOver = FALSE /\ lateStarts = {}

\* What a signal may be set to: <<what it does, which>>.
Handler(a) == <<"agent", a>>
IsAgent(h) == h[1] = "agent"

\* Frames: what a call on the main thread is doing, and for which agent.
Frame(does, a) == [does |-> does, agent |-> a]
Top == Head(main)
MainIs(does) == main # <<>> /\ Top.does = does
Becomes(does) == main' = <<Frame(does, Top.agent)>> \o Tail(main)
Returns == main' = Tail(main)

-----------------------------------------------------------------------------
(* stop *)

\* The test of _stopped that takes no lock: a call that passes it goes on to "stop",
\* where it waits for _stop_lock, and with it to "mark".
StopFrame(a) == IF a \in stopped THEN <<>> ELSE <<Frame("stop", a)>>

\* Nobody is in the section of a's _stop_lock; a thread that is waits for itself.
StopLockFree(a) == client[a] # "mark" /\ \A i \in DOMAIN main : main[i] # Frame("mark", a)

MainLocks ==
    /\ MainIs("stop") /\ StopLockFree(Top.agent)
    /\ Becomes("mark")
    /\ UNCHANGED <<registry, hooks, client, targets, signal, histories>>

\* Whoever comes second returns.
MainMarks ==
    /\ MainIs("mark")
    /\ stopped' = stopped \cup {Top.agent}
    /\ IF Top.agent \in stopped THEN Returns ELSE Becomes("uninject")
    /\ UNCHANGED <<created, agents, hooks, client, targets, signal, histories>>

\* shutdown_agent_resources, whose uninject_all takes the injector lock.
Uninjected(a) == wrapped \ {a}

MainUninjects ==
    /\ MainIs("uninject") /\ Top.agent \notin holder
    /\ wrapped' = Uninjected(Top.agent)
    /\ Becomes("unhook")
    /\ UNCHANGED <<registry, hooks, client, holder, signal, histories>>

\* Mutated form: what was there before is put back, whoever is there now.
AnyHandler(a) == TRUE

\* _restore_signal_handler_if_current
OwnHandler(a) == handler = Handler(a)

Restored(a) == IF OwnHandler(a) THEN previous[a] ELSE handler

\* The agent leaves the registry; on the main thread the hooks are restored ...
MainUnhooks ==
    /\ MainIs("unhook")
    /\ agents' = agents \ {Top.agent}
    /\ handler' = Restored(Top.agent)
    /\ Returns
    /\ UNCHANGED <<created, stopped, disposition, previous, restores, client, targets,
                   signal, histories>>

\* ... and on a client's thread they are left to a pending call.
Detach(a) ==
    /\ a \in agents /\ a \notin stopped /\ client[a] = "serving"
    /\ client' = [client EXCEPT ![a] = "stop"]
    /\ UNCHANGED <<registry, hooks, main, targets, signal, histories>>

ClientLocks(a) ==
    /\ client[a] = "stop" /\ StopLockFree(a)
    /\ client' = [client EXCEPT ![a] = "mark"]
    /\ UNCHANGED <<registry, hooks, main, targets, signal, histories>>

ClientMarks(a) ==
    /\ client[a] = "mark"
    /\ stopped' = stopped \cup {a}
    /\ client' = [client EXCEPT ![a] = IF a \in stopped THEN "serving" ELSE "uninject"]
    /\ UNCHANGED <<created, agents, hooks, main, targets, signal, histories>>

ClientUninjects(a) ==
    /\ client[a] = "uninject" /\ a \notin holder
    /\ wrapped' = Uninjected(a)
    /\ client' = [client EXCEPT ![a] = "unhook"]
    /\ UNCHANGED <<registry, hooks, main, holder, signal, histories>>

ClientUnhooks(a) ==
    /\ client[a] = "unhook"
    /\ agents' = agents \ {a}
    /\ restores' = Append(restores, a)
    /\ client' = [client EXCEPT ![a] = "serving"]
    /\ UNCHANGED <<created, stopped, disposition, handler, previous, main, targets, signal,
                   histories>>

PendingRestore ==
    /\ restores # <<>>
    /\ handler' = Restored(Head(restores))
    /\ restores' = Tail(restores)
    /\ UNCHANGED <<registry, disposition, previous, main, client, targets, signal, histories>>

\* A connection goes on being served after the detach it sent.
StartWatch(a) ==
    /\ a \in 1..created /\ client[a] = "serving" /\ a \notin holder \cup wrapped
    /\ wrapped' = wrapped \cup {a}
    /\ lateStarts' = IF a \in stopped THEN lateStarts \cup {a} ELSE lateStarts
    /\ UNCHANGED <<registry, hooks, main, client, holder, signal, takenOver>>

-----------------------------------------------------------------------------
(* Attaching *)

\* The script runs between two bytecodes of whatever the main thread is at.
Inject ==
    /\ created < MaxAgents /\ Len(main) < MaxDepth
    /\ \A i \in DOMAIN main : main[i].does \notin {"attach", "start"}
    /\ main' = <<Frame("attach", created + 1)>> \o main
    /\ UNCHANGED <<registry, hooks, client, targets, signal, histories>>

\* Every agent that is registered is stopped, one after the other.
StopPrevious(a) ==
    /\ MainIs("attach") /\ a \in agents \ stopped
    /\ main' = StopFrame(a) \o main
    /\ UNCHANGED <<registry, hooks, client, targets, signal, histories>>

\* The new one installs its hooks as it is constructed.
Construct ==
    /\ MainIs("attach") /\ agents \subseteq stopped
    /\ created' = Top.agent /\ agents' = {}
    /\ previous' = [previous EXCEPT ![Top.agent] = handler] /\ handler' = Handler(Top.agent)
    /\ takenOver' = (takenOver \/ (IsAgent(handler) /\ handler[2] \in stopped))
    /\ Becomes("start")
    /\ UNCHANGED <<stopped, disposition, restores, client, targets, signal, lateStarts>>

\* One whose start fails is not registered; its hooks stay.
StartAgent ==
    /\ MainIs("start")
    /\ agents' \in {agents, agents \cup {Top.agent}}
    /\ Returns
    /\ UNCHANGED <<created, stopped, hooks, client, targets, signal, histories>>

-----------------------------------------------------------------------------
(* Signals, and the application *)

SendSignal ==
    /\ signal = "unsent" /\ signal' = "pending"
    /\ UNCHANGED <<registry, hooks, main, client, targets, histories>>

\* What the application's disposition makes of a signal.
Outcome(d) == [default |-> "killed", ignored |-> "ignored", called |-> "called"][d[1]]

\* The application's own disposition takes effect at once.
DeliverSignal ==
    /\ signal = "pending" /\ ~IsAgent(handler)
    /\ signal' = Outcome(handler)
    /\ UNCHANGED <<registry, hooks, main, client, targets, histories>>

\* _handle_sigterm of an agent: what was there before is put back first, whether
\* or not it is this handler that is installed, then the agent is stopped.
HandlerCalled(a) ==
    /\ handler' = previous[a]
    /\ signal' = "handling"
    /\ UNCHANGED <<registry, disposition, previous, restores, client, targets, histories>>

EnterHandler ==
    /\ signal = "pending" /\ IsAgent(handler)
    /\ HandlerCalled(handler[2])
    /\ main' = StopFrame(handler[2]) \o <<Frame("pass", handler[2])>> \o main

\* An older agent's handler is a callable like another.
PassToAgent ==
    /\ MainIs("pass") /\ IsAgent(previous[Top.agent])
    /\ LET older == previous[Top.agent][2] IN
       /\ HandlerCalled(older)
       /\ main' = StopFrame(older) \o <<Frame("pass", older)>> \o Tail(main)


\* A default disposition has the process signal itself again.
PassedOn(d) == IF d[1] = "default" THEN "pending" ELSE Outcome(d)

PassToApplication ==
    /\ MainIs("pass") /\ ~IsAgent(previous[Top.agent])
    /\ signal' = PassedOn(previous[Top.agent])
    /\ Returns
    /\ UNCHANGED <<registry, hooks, client, targets, histories>>

\* The application sets a handler of its own while an agent is attached.
SetHandler ==
    /\ main = <<>> /\ disposition[2] = 1
    /\ disposition' = <<"called", 2>> /\ handler' = disposition'
    /\ UNCHANGED <<registry, previous, restores, main, client, targets, signal, histories>>

\* A wrapper is in a section of the injector lock: the test of a limit, or a
\* traced call that is passed through.
EnterSection(a) ==
    /\ main = <<>> /\ a \in wrapped \ holder
    /\ holder' = holder \cup {a} /\ main' = <<Frame("section", a)>>
    /\ UNCHANGED <<registry, hooks, client, wrapped, signal, histories>>

LeaveSection ==
    /\ MainIs("section")
    /\ holder' = holder \ {Top.agent} /\ Returns
    /\ UNCHANGED <<registry, hooks, client, wrapped, signal, histories>>

MainGoesOn ==
    \/ MainLocks \/ MainMarks \/ MainUninjects \/ MainUnhooks
    \/ (\E a \in Agents : StopPrevious(a)) \/ Construct \/ StartAgent
    \/ DeliverSignal \/ EnterHandler \/ PassToAgent \/ PassToApplication \/ LeaveSection

AgentNext ==
    /\ signal # "killed"
    /\ \/ MainGoesOn \/ PendingRestore
       \/ Inject \/ SendSignal \/ SetHandler
       \/ \E a \in Agents : \/ Detach(a) \/ ClientLocks(a) \/ ClientMarks(a)
                            \/ ClientUninjects(a) \/ ClientUnhooks(a)
                            \/ StartWatch(a) \/ EnterSection(a)

\* A process that runs goes on running its main thread, which looks for signals
\* between its bytecodes, and so it does a client's thread that is in the section.
AgentSpec ==
    /\ AgentInit /\ [][AgentNext]_agentVars
    /\ WF_agentVars(signal # "killed" /\ MainGoesOn)
    /\ WF_agentVars(DeliverSignal \/ EnterHandler)
    /\ \A a \in Agents : WF_agentVars(signal # "killed" /\ ClientMarks(a))

-----------------------------------------------------------------------------
(* Properties *)

AgentTypeOK ==
    /\ created \in 0..MaxAgents /\ stopped \cup agents \cup wrapped \cup holder \subseteq Agents
    /\ \A i \in DOMAIN main :
          main[i].does \in {"attach", "start", "stop", "mark", "uninject", "unhook", "pass", "section"}
    /\ \A a \in Agents : client[a] \in {"serving", "stop", "mark", "uninject", "unhook"}
    /\ signal \in {"unsent", "pending", "handling", "killed", "ignored", "called"}

Quiet == main = <<>> /\ restores = <<>> /\ \A a \in Agents : client[a] = "serving"

\* When every agent ever made has stopped and the threads have come to rest, the
\* signal does what the application asked for last, also when it asked while an
\* agent was attached; unless an agent installed its hooks over those of one
\* whose stop had not given them back.
\* And what a stopped agent wrapped before it began to stop is unwrapped.
StopUndoes ==
    Quiet => /\ (1..created \subseteq stopped /\ ~takenOver) => handler = disposition
             /\ wrapped \cap stopped \subseteq lateStarts

\* The main thread waits in a stop for a lock that it took in a frame further out: the
\* injector's, in a wrapper, or _stop_lock, in a stop of the same agent.
SelfBlocked ==
    \/ MainIs("uninject") /\ Top.agent \in holder
    \/ MainIs("stop") /\ \E i \in DOMAIN main : main[i] = Frame("mark", Top.agent)

=============================================================================
