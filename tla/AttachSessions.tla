--------------------------- MODULE AttachSessions ---------------------------
(***************************************************************************)
(* Attaching to processes: attach commands (peeka/core/attach.py and         *)
(* attach_workflow/), the agents they inject (agent.py _init_agent, start,   *)
(* stop), and target cleanup and detach (core/targets.py).  They meet in the *)
(* files of a session, a socket, a ready and a pid file in /tmp, which       *)
(* nothing locks: the pid file is written last, by the attach command.       *)
(*                                                                         *)
(* A session is named by the attach command that made it.  How the agent is  *)
(* injected matters in one thing: a debugger leaves a port on which the      *)
(* agent announces itself before its ready file is there.  A process that    *)
(* belongs to somebody else is left out: its files cannot be removed either. *)
(***************************************************************************)
EXTENDS Naturals, FiniteSets

CONSTANTS Attaches,   \* attach commands, and their sessions
          Processes,
          Targetings, \* which process each command attaches to: the cases tried
          Debugger,   \* the commands that inject with a debugger
          Cleaners,   \* target cleanup commands
          MaxAttempts \* MAX_ATTEMPTS

ASSUME AttachAssumption ==
    Targetings \subseteq [Attaches -> Processes] /\ Debugger \subseteq Attaches /\ MaxAttempts \in Nat \ {0}

NoSession == "none"
FileKinds == {"sock", "ready", "pid"}

VARIABLES pidOf,     \* the process of each session
          process,   \* alive or dead
          files,     \* <<session, suffix>>
          injected,  \* the agent of each session: none, injected, alone, bound,
                     \* running, stopped, failed
          notified,  \* sessions whose agent has announced itself on the port
          host,      \* where each attach command is
          cleaner,   \* the sessions each cleanup command has found stale
          missed,    \* history: a live agent did not answer hello in time
          overlapped, \* history: attach commands were at work at the same time
          abandoned   \* history: a command gave up an agent it had injected

commandState == <<host, cleaner>>
attachHistory == <<missed, overlapped, abandoned>>
attachVars == <<pidOf, process, files, injected, notified, commandState, attachHistory>>

AttachInit ==
    /\ pidOf \in Targetings
    /\ process = [p \in Processes |-> "alive"] /\ files = {} /\ notified = {}
    /\ injected = [a \in Attaches |-> "none"]
    /\ host = [a \in Attaches |-> [at |-> "new", todo |-> {}, look |-> NoSession, tries |-> 0]]
    /\ cleaner = [k \in Cleaners |-> [at |-> "new", stale |-> {}]]
    /\ missed = FALSE /\ overlapped = FALSE /\ abandoned = FALSE

FilesOf(s) == {s} \X FileKinds
Serving(s) == injected[s] \in {"bound", "running"}    \* its accept loop runs
Alive(s)   == process[pidOf[s]] = "alive"
Sockets    == {s \in Attaches : <<s, "sock">> \in files}

\* hello: the agent that bound the socket answers, in a second.
Answers(s) == <<s, "sock">> \in files /\ Serving(s) /\ Alive(s)

AtWork(a) == host[a].at \notin {"new", "attached", "refused", "failed"}

-----------------------------------------------------------------------------
(* _check_existing_attachment *)

BeginScan(a) ==
    /\ host[a].at = "new"
    /\ host' = [host EXCEPT ![a] = [@ EXCEPT !.at = "scan", !.todo = Sockets]]
    /\ overlapped' = (overlapped \/ \E b \in Attaches : AtWork(b))
    /\ UNCHANGED <<pidOf, process, files, injected, notified, cleaner, missed, abandoned>>

Goes(a, at, s) == host' = [host EXCEPT ![a] = [@ EXCEPT !.at = at, !.look = s,
                                                 !.todo = @ \ {s}]]

\* Without a pid file a session counts as stale, like one whose process is gone.
NoOwner(s) == <<s, "pid">> \notin files \/ ~Alive(s)

\* Mutated form: only an attachment of the same process counts.
Tolerated(a, s) == FALSE

\* "Already attached to process ...  Please detach first."
Refused(a, s) == Answers(s) /\ pidOf[s] # pidOf[a]

LookAt(a, s) ==
    /\ host[a].at = "scan" /\ s \in host[a].todo
    /\ \/ <<s, "sock">> \notin files /\ Goes(a, "scan", s) /\ UNCHANGED missed
       \/ /\ <<s, "sock">> \in files /\ NoOwner(s)
          /\ Goes(a, "clean", s) /\ UNCHANGED missed
       \/ /\ <<s, "sock">> \in files /\ ~NoOwner(s)
          /\ IF Answers(s) /\ pidOf[s] = pidOf[a] THEN Goes(a, "attached", s)
             ELSE IF Refused(a, s) THEN Goes(a, "refused", s) ELSE Goes(a, "clean", s)
          /\ UNCHANGED missed
       \/ /\ Answers(s) /\ ~NoOwner(s)      \* but it takes longer
          /\ Goes(a, "clean", s) /\ missed' = TRUE
    /\ UNCHANGED <<pidOf, process, files, injected, notified, cleaner, overlapped, abandoned>>

\* _cleanup_stale_files, of what was found some time ago.
CleanStale(a) ==
    /\ host[a].at = "clean"
    /\ files' = files \ FilesOf(host[a].look)
    /\ Goes(a, "scan", NoSession)
    /\ UNCHANGED <<pidOf, process, injected, notified, cleaner, attachHistory>>

-----------------------------------------------------------------------------
(* Injection, and waiting for the agent *)

Inject(a) ==
    /\ host[a].at = "scan" /\ host[a].todo = {}
    /\ IF Alive(a)
       THEN Goes(a, "wait", NoSession) /\ injected' = [injected EXCEPT ![a] = "injected"]
       ELSE Goes(a, "failed", NoSession) /\ UNCHANGED injected
    /\ UNCHANGED <<pidOf, process, files, notified, cleaner, attachHistory>>

\* No permission, no symbols; or the debugger fails after it spawned the injector, and
\* the agent comes up all the same.
InjectionFails(a) ==
    /\ host[a].at = "scan" /\ host[a].todo = {} /\ Goes(a, "failed", NoSession)
    /\ \/ UNCHANGED <<injected, abandoned>>
       \/ /\ a \in Debugger /\ Alive(a) /\ abandoned' = TRUE
          /\ injected' = [injected EXCEPT ![a] = "injected"]
    /\ UNCHANGED <<pidOf, process, files, notified, cleaner, missed, overlapped>>

\* The agent has announced itself or left its ready file, and answers.
AgentReady(a) ==
    /\ host[a].at = "wait" /\ (a \in notified \/ <<a, "ready">> \in files) /\ Answers(a)
    /\ Goes(a, "save", NoSession)
    /\ UNCHANGED <<pidOf, process, files, injected, notified, cleaner, attachHistory>>

\* Mutated form: one attempt too many.
AfterLast(a) == host[a].tries = MaxAttempts

LastTry(a) == host[a].tries + 1 = MaxAttempts

WaitTimesOut(a) ==
    /\ host[a].at = "wait"
    /\ host' = [host EXCEPT ![a] = [@ EXCEPT !.tries = @ + 1,
                   !.at = IF LastTry(a) THEN "failed" ELSE "wait"]]
    /\ abandoned' = (abandoned \/ LastTry(a))
    /\ UNCHANGED <<pidOf, process, files, injected, notified, cleaner, missed, overlapped>>

SaveState(a) ==
    /\ host[a].at = "save"
    /\ files' = files \cup {<<a, "pid">>}
    /\ Goes(a, "attached", NoSession)
    /\ UNCHANGED <<pidOf, process, injected, notified, cleaner, attachHistory>>

-----------------------------------------------------------------------------
(* The agent in the process *)

\* _init_agent stops every agent that is registered in the process.
Previous(a) == {b \in Attaches : pidOf[b] = pidOf[a] /\ injected[b] = "running"}

StopPrevious(a) ==
    /\ injected[a] = "injected" /\ Alive(a)
    /\ injected' = [b \in Attaches |-> IF b = a THEN "alone"
                                       ELSE IF b \in Previous(a) THEN "stopped"
                                       ELSE injected[b]]
    /\ files' = files \ UNION {FilesOf(b) : b \in Previous(a)}
    /\ UNCHANGED <<pidOf, process, notified, commandState, attachHistory>>

BindAgent(a) ==
    /\ injected[a] = "alone" /\ Alive(a)
    /\ injected' = [injected EXCEPT ![a] = "bound"]
    /\ files' = files \cup {<<a, "sock">>}
    /\ UNCHANGED <<pidOf, process, notified, commandState, attachHistory>>

Announce(a) ==
    /\ injected[a] = "bound" /\ Alive(a) /\ a \in Debugger \ notified
    /\ notified' = notified \cup {a}
    /\ UNCHANGED <<pidOf, process, files, injected, commandState, attachHistory>>

AgentRuns(a) ==
    /\ injected[a] = "bound" /\ Alive(a) /\ (a \in Debugger => a \in notified)
    /\ injected' = [injected EXCEPT ![a] = "running"]
    /\ files' = files \cup {<<a, "ready">>}
    /\ UNCHANGED <<pidOf, process, notified, commandState, attachHistory>>

AgentFails(a) ==
    /\ injected[a] \in {"alone", "bound"} /\ Alive(a)
    /\ injected' = [injected EXCEPT ![a] = "failed"] /\ files' = files \ FilesOf(a)
    /\ UNCHANGED <<pidOf, process, notified, commandState, attachHistory>>

\* detach, from whichever command; the commands unlink the files once more.
AgentDetaches(a) ==
    /\ injected[a] = "running" /\ Alive(a) /\ <<a, "sock">> \in files
    /\ injected' = [injected EXCEPT ![a] = "stopped"] /\ files' = files \ FilesOf(a)
    /\ UNCHANGED <<pidOf, process, notified, commandState, attachHistory>>

\* Killed, the process leaves the files; when it exits, its agents stop.
Ends(p, killed) ==
    /\ process[p] = "alive" /\ process' = [process EXCEPT ![p] = "dead"]
    /\ files' = IF killed THEN files
                ELSE files \ UNION {FilesOf(a) : a \in {b \in Attaches :
                                      pidOf[b] = p /\ injected[b] = "running"}}
    /\ UNCHANGED <<pidOf, injected, notified, commandState, attachHistory>>

-----------------------------------------------------------------------------
(* cleanup_stale_targets *)

\* A target is stale if it has a pid file and its agent does not answer (asked three times,
\* within 0.2 s); without a pid file it is unknown, and left alone.
Discover(k) ==
    /\ cleaner[k].at = "new"
    /\ \E slow \in SUBSET {s \in Sockets : Answers(s)} :
          cleaner' = [cleaner EXCEPT ![k] = [at |-> "clean", stale |->
             {s \in Sockets : <<s, "pid">> \in files /\ (~Answers(s) \/ s \in slow)}]]
    /\ UNCHANGED <<pidOf, process, files, injected, notified, host, attachHistory>>

\* race_alive: the process is looked for once more.
NotRevived(s) == ~Alive(s)

RemoveTarget(k, s) ==
    /\ cleaner[k].at = "clean" /\ s \in cleaner[k].stale
    /\ files' = IF NotRevived(s) THEN files \ FilesOf(s) ELSE files
    /\ cleaner' = [cleaner EXCEPT ![k] = [@ EXCEPT !.stale = @ \ {s}]]
    /\ UNCHANGED <<pidOf, process, injected, notified, host, attachHistory>>

AttachNext ==
    \/ \E a \in Attaches :
          \/ BeginScan(a) \/ CleanStale(a) \/ Inject(a) \/ InjectionFails(a)
          \/ AgentReady(a) \/ WaitTimesOut(a) \/ SaveState(a)
          \/ StopPrevious(a) \/ BindAgent(a) \/ Announce(a) \/ AgentRuns(a)
          \/ AgentFails(a) \/ AgentDetaches(a)
          \/ \E s \in Attaches : LookAt(a, s)
    \/ \E p \in Processes, killed \in BOOLEAN : Ends(p, killed)
    \/ \E k \in Cleaners : Discover(k) \/ \E s \in Attaches : RemoveTarget(k, s)

AttachSpec == AttachInit /\ [][AttachNext]_attachVars

-----------------------------------------------------------------------------
(* Properties *)

AttachTypeOK ==
    /\ pidOf \in [Attaches -> Processes]
    /\ process \in [Processes -> {"alive", "dead"}] /\ files \subseteq Attaches \X FileKinds
    /\ injected \in [Attaches -> {"none", "injected", "alone", "bound", "running",
                                  "stopped", "failed"}]
    /\ \A a \in Attaches : /\ host[a].at \in {"new", "scan", "clean", "wait", "save",
                                              "attached", "refused", "failed"}
                           /\ host[a].tries <= MaxAttempts
    /\ \A k \in Cleaners : cleaner[k].stale \subseteq Attaches

\* One process is attached at a time, and has one agent: there are two only after
\* attach commands overlapped, or one gave up an agent that came after all, or a
\* live agent took longer than a second to answer.
\* And an agent whose attach command succeeded can be found as long as it runs: no
\* other command removes its files, unless the attach commands overlapped or it
\* took too long to answer an attach command.  That cleanup found it slow is no
\* such excuse.
OneAgentFound ==
    ~(overlapped \/ missed) =>
       /\ ~abandoned => Cardinality({a \in Attaches : Serving(a) /\ Alive(a)}) <= 1
       /\ \A a \in Attaches :
             (host[a].at = "attached" /\ host[a].look = NoSession /\ Serving(a) /\ Alive(a))
             => <<a, "sock">> \in files /\ <<a, "pid">> \in files
=============================================================================
