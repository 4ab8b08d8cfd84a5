---------------------------- MODULE ClientProofs ----------------------------
(***************************************************************************)
(* Proofs about the client's side: the run of a script (RunHandshake), a     *)
(* streaming command (StreamCommand) and one connection (ClientStream).      *)
(***************************************************************************)
EXTENDS ClientStream, StreamCommand, RunHandshake, SequenceTheorems, TLAPS

-----------------------------------------------------------------------------
(* RunHandshake: the child of a run *)

\* The step that lets the child go is reached with the observation set up, so
\* the mark is only made then, and the script only starts then.  And the stack of
\* the parent's thread is emptied by the steps that have reaped the child, or by
\* a signal it does not handle.
RunSteps == {"import", "attach", "start", "go", "stream", "limit", "clean", "abort",
             "signalled", "wait", "wait and fail", "wait and exit"}

RunInv ==
    /\ parent \in Seq(RunSteps)
    /\ \A i \in DOMAIN parent : parent[i] = "go" => observer # "none"
    /\ "go" \in marks => observer # "none"
    /\ ChildLookedAfter

LEMMA LastIsThere ==
    ASSUME NEW S, NEW p \in Seq(S), p # <<>> PROVE Len(p) \in DOMAIN p
OBVIOUS

LEMMA EmptyStack ==
    ASSUME NEW p, p = <<>> PROVE p \in Seq(RunSteps) /\ DOMAIN p = {}
OBVIOUS

LEMMA ProceedKeeps ==
    ASSUME parent \in Seq(RunSteps), NEW step \in RunSteps, parent # <<>>, Proceed(step),
           \A i \in DOMAIN parent : parent[i] = "go" => observer # "none",
           step = "go" => observer' # "none",
           observer # "none" => observer' # "none"
    PROVE  /\ parent' \in Seq(RunSteps) /\ parent' # <<>>
           /\ \A i \in DOMAIN parent' : parent'[i] = "go" => observer' # "none"
BY DEF Proceed

LEMMA SignalKeeps ==
    ASSUME NEW p \in Seq(RunSteps), NEW q, q = Append(p, "signalled"), "signalled" \in RunSteps
    PROVE  /\ q \in Seq(RunSteps) /\ q # <<>>
           /\ \A i \in DOMAIN q : q[i] = "go" => i \in DOMAIN p /\ p[i] = "go"
OBVIOUS

LEMMA RunOver ==
    ASSUME NEW how, RunEnds(how)
    PROVE  /\ parent' \in Seq(RunSteps) /\ (\A i \in DOMAIN parent' : parent'[i] # "go")
           /\ "go" \notin marks'
BY DEF RunEnds

LEMMA RunStep == RunInv /\ [RunNext]_runVars => RunInv'
<1> SUFFICES ASSUME RunInv, [RunNext]_runVars PROVE RunInv'
  OBVIOUS
<1> USE DEF RunInv, RunSteps, ChildLookedAfter, childState, runHistory
<1>1. CASE SeeImport
  BY <1>1, ProceedKeeps DEF SeeImport, ParentAt
<1>2. CASE ImportTimesOut
  BY <1>2, RunOver DEF ImportTimesOut, EndChild, KillChild
<1>3. CASE AttachChild
  BY <1>3, ProceedKeeps DEF AttachChild, ParentAt
<1>4. CASE AttachFails
  BY <1>4, RunOver DEF AttachFails, EndChild, KillChild
<1>5. CASE StartObserver
  BY <1>5, ProceedKeeps DEF StartObserver, ParentAt
<1>6. CASE StartFails
  BY <1>6, ProceedKeeps DEF StartFails, ParentAt
<1>7. CASE WriteGo
  <2>1. observer # "none"
    <3>1. parent # <<>> /\ parent[Len(parent)] = "go"
      BY <1>7 DEF WriteGo, ParentAt, Last
    <3>2. Len(parent) \in DOMAIN parent
      BY <3>1, LastIsThere
    <3> QED
      BY <3>1, <3>2
  <2> QED
    BY <1>7, <2>1, ProceedKeeps DEF WriteGo, ParentAt
<1>8. CASE PollChild
  BY <1>8, ProceedKeeps DEF PollChild, ParentAt
<1>9. CASE LimitHit
  BY <1>9, ProceedKeeps DEF LimitHit, ParentAt
<1>10. CASE StreamCloses
  BY <1>10, ProceedKeeps DEF StreamCloses, ParentAt
<1>11. ASSUME NEW step \in RunSteps, NEW then \in RunSteps, Detach(step, then), then # "go"
       PROVE  RunInv'
  BY <1>11, ProceedKeeps DEF Detach, ParentAt, ChildEnds, ChildLive
<1>12. CASE CleanUpRun
  BY <1>11, <1>12 DEF CleanUpRun
<1>13. CASE WaitForChild
  <2>1. PICK how : RunEnds(how)
    BY <1>13 DEF WaitForChild
  <2>2. childAt' = "reaped" /\ UNCHANGED observer
    BY <1>13 DEF WaitForChild
  <2> QED
    BY <2>1, <2>2, RunOver
<1>14. CASE ParentBreaks
  <2>1. CASE (ParentAt("start") \/ ParentAt("go")) /\ EndChild /\ RunEnds("one")
    BY <1>14, <2>1, RunOver DEF ParentBreaks, EndChild, KillChild
  <2>2. CASE ParentAt("stream") /\ Proceed("abort") /\ UNCHANGED <<code, marks, childState>>
    BY <1>14, <2>2, ProceedKeeps DEF ParentBreaks, ParentAt
  <2> QED
    BY <1>14, <2>1, <2>2 DEF ParentBreaks
<1>15. CASE SignalParent
  <2>1. CASE handlers
    <3>1. /\ parent' = Append(parent, "signalled")
          /\ UNCHANGED <<marks, childAt, observer, atStart>>
      BY <1>15, <2>1 DEF SignalParent
    <3> QED
      BY <3>1, SignalKeeps
  <2>2. CASE ~handlers
    <3>1. /\ parent' = <<>> /\ unwaited' /\ marks' \subseteq marks
          /\ UNCHANGED <<childAt, observer, atStart>>
      BY <1>15, <2>2 DEF SignalParent
    <3>2. parent' \in Seq(RunSteps) /\ DOMAIN parent' = {}
      BY <3>1, EmptyStack
    <3> QED
      BY <3>1, <3>2
  <2> QED
    BY <2>1, <2>2
<1>16. CASE ChildSteps
  BY <1>16 DEF ChildSteps, Imported, ImportFails, GoSeen, GoTimesOut, ChildEnds
<1>17. CASE \E how \in {"zero", "error"} : ScriptEnds(how)
  <2>1. /\ childAt' = "exited" /\ marks' = {} /\ childAt = "script"
        /\ UNCHANGED <<parent, observer, unwaited>>
    BY <1>17 DEF ScriptEnds, ChildEnds
  <2> QED
    BY <2>1
<1>18. CASE UNCHANGED runVars
  BY <1>18 DEF runVars
<1> QED
  BY <1>1, <1>2, <1>3, <1>4, <1>5, <1>6, <1>7, <1>8, <1>9, <1>10, <1>12, <1>13, <1>14,
     <1>15, <1>16, <1>17, <1>18 DEF RunNext, ParentSteps

\* No script of a run begins before its observation is set up, and no parent ends
\* without its child having been waited for (unless a signal ends it before it
\* has handlers): whatever fails, times out or is interrupted, however often.
THEOREM ChildIsLookedAfter == RunSpec => []ChildLookedAfter
<1>1. RunInit => RunInv
  BY DEF RunInit, RunInv, RunSteps, ChildLookedAfter
<1>2. RunInv => ChildLookedAfter
  BY DEF RunInv
<1> QED
  BY <1>1, <1>2, RunStep, PTL DEF RunSpec

-----------------------------------------------------------------------------
(* StreamCommand: what a command leaves behind *)

HandlerSteps == {"cleanup", "stopping", "disconnect"}
FrameSteps == HandlerSteps \cup
    {"connect", "open", "opening", "start", "starting", "stream", "close", "closing", "leave"}

\* Where the program is, below its signal handlers.
Program == IF main = <<>> THEN "ended" ELSE main[1]

BeforeStart == {"connect", "open", "opening", "start", "leave"}
Observing == {"stream", "cleanup", "stopping"}

FramesTyped ==
    /\ main \in Seq(FrameSteps)
    /\ \A i \in 2..Len(main) : main[i] \in HandlerSteps
    /\ blind \in BOOLEAN

\* The session: it is only created while the program waits for that, and known
\* from then on until it is closed.
SessionInv ==
    /\ "create" \in requests => Program = "opening" /\ "create" \notin answered
    /\ "create" \in answered => Program \notin {"connect", "open"}
    /\ Program \in {"connect", "open", "leave"} => ~sessionId /\ agentSession = "none"
    /\ Program \in {"start", "starting", "stream", "cleanup", "stopping", "disconnect", "close",
                    "closing"} => sessionId
    /\ "close" \in requests \cup answered => Program \in {"closing", "ended"}
    /\ "close" \in answered => agentSession = "closed"
    /\ Program = "ended" => agentSession # "open"

\* The probe: it only starts while the program waits for that.  Whatever moves
\* the program out of the steps in which the probe may run has the answer to a
\* stop, in the program's frame or in a handler's.
ProbeInv ==
    /\ "start" \in requests => /\ Program = "starting" /\ agentProbe = "none"
                               /\ "start" \notin answered /\ "refused" \notin answered
    /\ "refused" \in answered => agentProbe = "none"
    /\ Program \in BeforeStart => /\ agentProbe = "none" /\ ~streamId
                                  /\ "start" \notin answered /\ "refused" \notin answered
    /\ Program = "starting" => ~streamId /\ streaming = "open"
    /\ "start" \in answered => "refused" \notin answered
    /\ "stop" \in requests \cup answered => streamId
    /\ streamId => "refused" \notin answered
    /\ "stop" \in answered => agentProbe = "stopped"
    /\ Program \in Observing => streamId /\ streaming = "open"
    /\ Program \in {"disconnect", "close", "closing", "ended"} => agentProbe # "running"
    /\ \A i \in 2..Len(main) :
          main[i] = "disconnect" /\ Program \in Observing => "stop" \in answered

CommandInv == FramesTyped /\ (~blind => SessionInv /\ ProbeInv)

LEMMA TopFrame ==
    ASSUME FramesTyped, main # <<>>
    PROVE  /\ Len(main) \in Nat \ {0} /\ Step = main[Len(main)] /\ Step \in FrameSteps
           /\ Len(main) = 1 => Program = Step
           /\ Len(main) # 1 => Len(main) \in 2..Len(main) /\ Step \in HandlerSteps
<1>1. main \in Seq(FrameSteps) /\ Step = main[Len(main)]
  BY DEF FramesTyped, Step, Last
<1>2. Len(main) \in Nat \ {0}
  BY <1>1
<1>3. Len(main) \in DOMAIN main
  BY <1>1, LastIsThere
<1>4. Step \in FrameSteps
  BY <1>1, <1>3
<1>5. Len(main) # 1 => Len(main) \in 2..Len(main)
  <2>1. ASSUME NEW n \in Nat \ {0}, n # 1 PROVE n \in 2..n
    BY <2>1
  <2> QED
    BY <1>2, <2>1
<1> QED
  BY <1>1, <1>2, <1>4, <1>5 DEF FramesTyped, Program

LEMMA StepsMove ==
    ASSUME FramesTyped, main # <<>>, NEW next \in FrameSteps, Steps(next)
    PROVE  /\ main' \in Seq(FrameSteps) /\ main' # <<>> /\ Len(main') = Len(main)
           /\ Len(main) = 1 => Program' = next
           /\ Len(main) # 1 => Program' = Program
           /\ \A i \in 2..Len(main') : main'[i] = IF i = Len(main) THEN next ELSE main[i]
<1>1. /\ main' \in Seq(FrameSteps) /\ Len(main') = Len(main) /\ Len(main) \in Nat \ {0}
      /\ \A i \in 1..Len(main) : main'[i] = IF i = Len(main) THEN next ELSE main[i]
  BY DEF FramesTyped, Steps, Depth
<1>2. main' # <<>>
  BY <1>1
<1> QED
  BY <1>1, <1>2 DEF Program

\* A step of one frame: the program moves if it is its own, and only then.
LEMMA FramesMove ==
    ASSUME FramesTyped, main # <<>>, NEW next \in FrameSteps, Steps(next), blind' \in BOOLEAN,
           Len(main) # 1 => next \in HandlerSteps
    PROVE  FramesTyped'
BY StepsMove, TopFrame DEF FramesTyped

LEMMA OwnStep ==
    ASSUME FramesTyped, main # <<>>, Step \notin HandlerSteps
    PROVE  Len(main) = 1 /\ Program = Step
BY TopFrame


LEMMA CommandStep == CommandInv /\ [CommandNext]_commandVars => CommandInv'
<1> SUFFICES ASSUME CommandInv, [CommandNext]_commandVars PROVE CommandInv'
  OBVIOUS
<1> USE DEF client, agent
<1>t. FramesTyped
  BY DEF CommandInv
<1>s. ~blind => SessionInv
  BY DEF CommandInv
<1>p. ~blind => ProbeInv
  BY DEF CommandInv
<1>1. ASSUME NEW next \in FrameSteps, Steps(next), main # <<>>, blind' \in BOOLEAN, blind => blind',
             Step \notin HandlerSteps
      PROVE  /\ FramesTyped' /\ Program' = next /\ Program = Step
             /\ \A i \in 2..Len(main') : FALSE
  <2>1. Len(main) = 1 /\ Program = Step
    BY <1>1, <1>t, OwnStep
  <2>2. Program' = next /\ FramesTyped' /\ Len(main') = 1
    BY <1>1, <1>t, <2>1, StepsMove, FramesMove
  <2> QED
    BY <2>1, <2>2
<1>2. CASE main # <<>> /\ Connect
  <2>1. main = <<"connect">> /\ "connect" \in FrameSteps /\ "open" \in FrameSteps
    BY <1>2 DEF Connect, FrameSteps
  <2>2. Step = "connect" /\ Step \notin HandlerSteps
    BY <2>1 DEF Step, Last, HandlerSteps
  <2>3. CASE streaming' = "open" /\ Steps("open") /\ UNCHANGED exitCode
    <3>1. FramesTyped' /\ Program' = "open" /\ Program = "connect" /\ \A i \in 2..Len(main') : FALSE
      BY <1>1, <1>2, <1>t, <2>1, <2>2, <2>3 DEF Connect, FramesTyped
    <3> QED
      BY <1>2, <1>s, <1>p, <3>1 DEF Connect, CommandInv, SessionInv, ProbeInv, BeforeStart, Observing
  <2>4. CASE main' = <<>>
    <3>1. FramesTyped' /\ Program' = "ended" /\ Program = "connect" /\ \A i \in 2..Len(main') : FALSE
      BY <1>t, <1>2, <2>1, <2>2, <2>4, OwnStep DEF Connect, FramesTyped, Program
    <3> QED
      BY <1>2, <1>s, <1>p, <3>1 DEF Connect, CommandInv, SessionInv, ProbeInv, BeforeStart, Observing
  <2> QED
    BY <1>2, <2>3, <2>4 DEF Connect
<1>3. CASE main # <<>> /\ OpenSession
  <2>1. /\ Step = "open" /\ Steps("opening") /\ Step \notin HandlerSteps
        /\ "opening" \in FrameSteps /\ UNCHANGED blind
    BY <1>3 DEF OpenSession, Send, HandlerSteps, FrameSteps
  <2>2. FramesTyped' /\ Program' = "opening" /\ Program = "open" /\ \A i \in 2..Len(main') : FALSE
    BY <1>1, <1>3, <1>t, <2>1 DEF FramesTyped
  <2> QED
    BY <1>3, <1>s, <1>p, <2>2 DEF OpenSession, Send, CommandInv, SessionInv, ProbeInv, BeforeStart, Observing
<1>4. CASE main # <<>> /\ SessionOpened
  <2>1. /\ Step = "opening" /\ Steps("start") /\ Step \notin HandlerSteps
        /\ "start" \in FrameSteps /\ UNCHANGED blind
    BY <1>4 DEF SessionOpened, HandlerSteps, FrameSteps
  <2>2. FramesTyped' /\ Program' = "start" /\ Program = "opening" /\ \A i \in 2..Len(main') : FALSE
    BY <1>1, <1>4, <1>t, <2>1 DEF FramesTyped
  <2> QED
    BY <1>4, <1>s, <1>p, <2>2 DEF SessionOpened, CommandInv, SessionInv, ProbeInv, BeforeStart, Observing
<1>5. CASE main # <<>> /\ StartProbe
  <2>1. /\ Step = "start" /\ Steps("starting") /\ Step \notin HandlerSteps
        /\ "starting" \in FrameSteps /\ UNCHANGED blind
    BY <1>5 DEF StartProbe, Send, HandlerSteps, FrameSteps
  <2>2. FramesTyped' /\ Program' = "starting" /\ Program = "start" /\ \A i \in 2..Len(main') : FALSE
    BY <1>1, <1>5, <1>t, <2>1 DEF FramesTyped
  <2> QED
    BY <1>5, <1>s, <1>p, <2>2 DEF StartProbe, Send, CommandInv, SessionInv, ProbeInv, BeforeStart, Observing
<1>6. CASE main # <<>> /\ ProbeStarted
  <2>1. /\ Step = "starting" /\ Steps("stream") /\ Step \notin HandlerSteps
        /\ "stream" \in FrameSteps /\ UNCHANGED blind
    BY <1>6 DEF ProbeStarted, HandlerSteps, FrameSteps
  <2>2. FramesTyped' /\ Program' = "stream" /\ Program = "starting" /\ \A i \in 2..Len(main') : FALSE
    BY <1>1, <1>6, <1>t, <2>1 DEF FramesTyped
  <2> QED
    BY <1>6, <1>s, <1>p, <2>2 DEF ProbeStarted, CommandInv, SessionInv, ProbeInv, BeforeStart, Observing
<1>7. CASE main # <<>> /\ StartRefused
  <2>1. /\ Step = "starting" /\ Steps("close") /\ Step \notin HandlerSteps
        /\ "close" \in FrameSteps /\ UNCHANGED blind
    BY <1>7 DEF StartRefused, HandlerSteps, FrameSteps
  <2>2. FramesTyped' /\ Program' = "close" /\ Program = "starting" /\ \A i \in 2..Len(main') : FALSE
    BY <1>1, <1>7, <1>t, <2>1 DEF FramesTyped
  <2> QED
    BY <1>7, <1>s, <1>p, <2>2 DEF StartRefused, CommandInv, SessionInv, ProbeInv, BeforeStart, Observing
<1>8. CASE main # <<>> /\ LimitReached
  <2>1. /\ Step = "stream" /\ Steps("cleanup") /\ Step \notin HandlerSteps
        /\ "cleanup" \in FrameSteps /\ UNCHANGED blind
    BY <1>8 DEF LimitReached, StreamEnded, HandlerSteps, FrameSteps
  <2>2. FramesTyped' /\ Program' = "cleanup" /\ Program = "stream" /\ \A i \in 2..Len(main') : FALSE
    BY <1>1, <1>8, <1>t, <2>1 DEF FramesTyped
  <2> QED
    BY <1>8, <1>s, <1>p, <2>2 DEF LimitReached, StreamEnded, CommandInv, SessionInv, ProbeInv, BeforeStart, Observing
<1>9. CASE main # <<>> /\ CloseSession
  <2>1. /\ Step = "close" /\ Steps("closing") /\ Step \notin HandlerSteps
        /\ "closing" \in FrameSteps /\ UNCHANGED blind
    BY <1>9 DEF CloseSession, Send, HandlerSteps, FrameSteps
  <2>2. FramesTyped' /\ Program' = "closing" /\ Program = "close" /\ \A i \in 2..Len(main') : FALSE
    BY <1>1, <1>9, <1>t, <2>1 DEF FramesTyped
  <2> QED
    BY <1>9, <1>s, <1>p, <2>2 DEF CloseSession, Send, CommandInv, SessionInv, ProbeInv, BeforeStart, Observing
<1>10. ASSUME NEW act, main # <<>>, Steps(act), act \in HandlerSteps, UNCHANGED blind,
              Step \in HandlerSteps
       PROVE  /\ FramesTyped' /\ Len(main') = Len(main)
              /\ Len(main) = 1 => Program' = act /\ Program = Step
              /\ Len(main) # 1 => Program' = Program
              /\ \A i \in 2..Len(main') : main'[i] = IF i = Len(main) THEN act ELSE main[i]
  <2>1. act \in FrameSteps /\ blind' \in BOOLEAN
    BY <1>10, <1>t DEF FrameSteps, FramesTyped
  <2> QED
    BY <1>10, <1>t, <2>1, StepsMove, FramesMove, TopFrame
<1>11. CASE main # <<>> /\ SendStop
  <2>1. /\ Step = "cleanup" /\ Steps("stopping") /\ "stopping" \in HandlerSteps
        /\ "cleanup" \in HandlerSteps /\ UNCHANGED blind
    BY <1>11 DEF SendStop, Send, HandlerSteps
  <2>2. /\ FramesTyped' /\ Len(main') = Len(main)
        /\ Len(main) = 1 => Program' = "stopping" /\ Program = "cleanup"
        /\ Len(main) # 1 => Program' = Program
        /\ \A i \in 2..Len(main') : main'[i] = IF i = Len(main) THEN "stopping" ELSE main[i]
    BY <1>10, <1>11, <2>1
  <2> QED
    BY <1>11, <1>s, <1>p, <2>2 DEF SendStop, Send, StopIsSent, CommandInv, SessionInv, ProbeInv,
       BeforeStart, Observing
<1>12. CASE main # <<>> /\ NoStop
  <2>1. /\ Step = "cleanup" /\ Steps("disconnect") /\ "disconnect" \in HandlerSteps
        /\ "cleanup" \in HandlerSteps /\ UNCHANGED blind
    BY <1>12 DEF NoStop, HandlerSteps
  <2>2. /\ FramesTyped' /\ Len(main') = Len(main)
        /\ Len(main) = 1 => Program' = "disconnect" /\ Program = "cleanup"
        /\ Len(main) # 1 => Program' = Program
        /\ \A i \in 2..Len(main') : main'[i] = IF i = Len(main) THEN "disconnect" ELSE main[i]
    BY <1>10, <1>12, <2>1
  <2> QED
    BY <1>12, <1>s, <1>p, <2>2 DEF NoStop, StopIsSent, CommandInv, SessionInv, ProbeInv,
       BeforeStart, Observing
<1>13. CASE main # <<>> /\ Stopped
  <2>1. /\ Step = "stopping" /\ Steps("disconnect") /\ "disconnect" \in HandlerSteps
        /\ "stopping" \in HandlerSteps /\ UNCHANGED blind
    BY <1>13 DEF Stopped, HandlerSteps
  <2>2. /\ FramesTyped' /\ Len(main') = Len(main)
        /\ Len(main) = 1 => Program' = "disconnect" /\ Program = "stopping"
        /\ Len(main) # 1 => Program' = Program
        /\ \A i \in 2..Len(main') : main'[i] = IF i = Len(main) THEN "disconnect" ELSE main[i]
    BY <1>10, <1>13, <2>1
  <2> QED
    BY <1>13, <1>s, <1>p, <2>2 DEF Stopped, CommandInv, SessionInv, ProbeInv,
       BeforeStart, Observing
<1>14. CASE main # <<>> /\ DisconnectStream
  <2>1. Step = "disconnect" /\ "disconnect" \in HandlerSteps
    BY <1>14 DEF DisconnectStream, HandlerSteps
  <2>2. CASE Len(main) = 1
    <3>1. Steps("close") /\ UNCHANGED blind /\ Program = "disconnect" /\ "close" \in FrameSteps
      BY <1>14, <1>t, <2>1, <2>2, TopFrame DEF DisconnectStream, Depth, FrameSteps
    <3>2. /\ FramesTyped' /\ Program' = "close" /\ \A i \in 2..Len(main') : FALSE
      <4>1. Len(main') = 1 /\ Program' = "close"
        BY <1>14, <1>t, <2>2, <3>1, StepsMove
      <4>2. FramesTyped'
        BY <1>14, <1>t, <2>2, <3>1, FramesMove DEF FramesTyped
      <4> QED
        BY <4>1, <4>2
    <3> QED
      BY <1>14, <1>s, <1>p, <3>1, <3>2 DEF DisconnectStream, CommandInv, SessionInv, ProbeInv,
         BeforeStart, Observing
  <2>3. CASE Len(main) # 1
    <3>1. PICK next \in Unwound : main' = <<next>>
      BY <1>14, <2>3 DEF DisconnectStream, Depth
    <3>2. next \in {"close", "leave"} /\ next \in FrameSteps
      BY <3>1 DEF Unwound, FrameSteps
    <3>3. Len(main') = 1 /\ Program' = next /\ main' \in Seq(FrameSteps)
      BY <3>1, <3>2 DEF Program
    <3>4. Len(main) \in 2..Len(main) /\ main[Len(main)] = "disconnect" /\ 1 \in 1..(Len(main) - 1)
          /\ Program = main[1]
      BY <1>14, <1>t, <2>1, <2>3, TopFrame DEF Program
    <3>5. blind' \in BOOLEAN /\ (~blind' => ~blind)
      BY <1>14, <1>t, <2>3 DEF DisconnectStream, Depth, FramesTyped
    <3>6. ~blind' => Program \notin {"opening", "starting", "stopping", "close", "closing"}
      BY <1>14, <2>3, <3>4 DEF DisconnectStream, Depth
    <3>7. FramesTyped'
      BY <3>3, <3>5 DEF FramesTyped
    <3>8. Program \in FrameSteps
      BY <1>t, <2>3, <3>4 DEF FramesTyped
    <3>9. ~blind' => next = IF sessionId THEN "close" ELSE "leave"
      BY <3>1, <3>4, <3>6 DEF Unwound
    <3>10. ~blind' => Program \in {"connect", "open", "leave"} \/ Program \in {"start", "stream", "cleanup", "disconnect"}
      BY <3>6, <3>8 DEF FrameSteps, HandlerSteps
    <3>11. /\ \A i \in 2..Len(main') : FALSE
           /\ UNCHANGED <<streamId, sessionId, requests, answered, agentProbe, agentSession>>
      BY <1>14, <3>3 DEF DisconnectStream
    <3>12. ~blind' => SessionInv'
      BY <1>s, <3>3, <3>5, <3>9, <3>10, <3>11 DEF SessionInv
    <3>13. ~blind' => ProbeInv'
      <4>1. ~blind' => (Program \in Observing => "stop" \in answered)
        BY <1>p, <3>4, <3>5 DEF ProbeInv
      <4> QED
        BY <1>p, <1>s, <3>3, <3>5, <3>9, <3>10, <3>11, <4>1 DEF ProbeInv, SessionInv, Observing, BeforeStart
    <3> QED
      BY <3>7, <3>12, <3>13 DEF CommandInv
  <2> QED
    BY <2>2, <2>3
<1>15. CASE main # <<>> /\ (SessionClosed \/ Leave)
  <2>1. main' = <<>> /\ Step \in {"closing", "leave"} /\ Step \notin HandlerSteps /\ UNCHANGED blind
    BY <1>15 DEF SessionClosed, Leave, Exits, HandlerSteps
  <2>2. FramesTyped' /\ Program' = "ended" /\ Program = Step /\ \A i \in 2..Len(main') : FALSE
    BY <1>15, <1>t, <2>1, OwnStep DEF FramesTyped, Program
  <2> QED
    BY <1>15, <1>s, <1>p, <2>1, <2>2 DEF SessionClosed, Leave, Exits, CommandInv, SessionInv, ProbeInv,
       BeforeStart, Observing
<1>16. CASE main # <<>> /\ Observe
  BY <1>16 DEF Observe, CommandInv, FramesTyped, SessionInv, ProbeInv, Program
<1>17. CASE main # <<>> /\ TimedOut
  <2>1. blind' /\ blind' \in BOOLEAN
    BY <1>17 DEF TimedOut
  <2>2. \E next \in {"leave", "close", "disconnect"} :
           Steps(next) /\ (next # "disconnect" => Step \notin HandlerSteps)
    <3>1. CASE Step = "opening"
      BY <1>17, <3>1 DEF TimedOut, HandlerSteps
    <3>2. CASE Step = "starting"
      BY <1>17, <3>2 DEF TimedOut, HandlerSteps
    <3>3. CASE Step = "stopping"
      BY <1>17, <3>3 DEF TimedOut, HandlerSteps
    <3>4. CASE Step = "closing"
      BY <1>17, <3>4 DEF TimedOut, HandlerSteps
    <3> QED
      BY <1>17, <3>1, <3>2, <3>3, <3>4 DEF TimedOut
  <2>3. PICK next \in {"leave", "close", "disconnect"} :
           Steps(next) /\ (next # "disconnect" => Step \notin HandlerSteps)
    BY <2>2
  <2>4. next \in FrameSteps /\ (Len(main) # 1 => next \in HandlerSteps)
    BY <1>17, <1>t, <2>3, TopFrame DEF FrameSteps, HandlerSteps
  <2> QED
    BY <1>17, <1>t, <2>1, <2>3, <2>4, FramesMove DEF CommandInv
<1>18. CASE main # <<>> /\ PeerCloses
  <2>1. /\ Step = "stream" /\ Step \notin HandlerSteps /\ Steps("cleanup") /\ blind' /\ blind' \in BOOLEAN
        /\ "cleanup" \in FrameSteps
    BY <1>18 DEF PeerCloses, StreamEnded, HandlerSteps, FrameSteps
  <2> QED
    BY <1>1, <1>18, <2>1 DEF CommandInv
<1>19. CASE Signal
  <2> DEFINE act == IF streaming = "none" THEN "disconnect" ELSE "cleanup"
  <2>1. act \in HandlerSteps /\ act \in FrameSteps /\ main' = Append(main, act) /\ main # <<>>
        /\ UNCHANGED <<client, agent, blind>>
    BY <1>19 DEF Signal, HandlerSteps, FrameSteps
  <2>2. act = "disconnect" => streaming = "none"
    OBVIOUS
  <2> HIDE DEF act
  <2>3. /\ main' \in Seq(FrameSteps) /\ main' # <<>> /\ main'[1] = main[1] /\ Len(main') = Len(main) + 1
        /\ \A i \in 2..Len(main') : main'[i] = IF i = Len(main) + 1 THEN act ELSE main[i]
    BY <1>t, <2>1 DEF FramesTyped
  <2>4. /\ \A i \in 2..Len(main') : i # Len(main) + 1 => i \in 2..Len(main)
    BY <2>3, <1>t, TopFrame, <2>1
  <2>5. Program' = Program
    BY <2>1, <2>3 DEF Program
  <2>6. FramesTyped'
    BY <1>t, <2>1, <2>3, <2>4 DEF FramesTyped
  <2>7. ~blind' => SessionInv'
    BY <1>s, <2>1, <2>5 DEF SessionInv
  <2>8. ~blind' => ProbeInv'
    <3>1. ~blind => \A i \in 2..Len(main') : main'[i] = "disconnect" /\ Program \in Observing
                                                => "stop" \in answered
      BY <1>p, <2>2, <2>3, <2>4 DEF ProbeInv
    <3> QED
      BY <1>p, <2>1, <2>5, <3>1 DEF ProbeInv
  <2> QED
    BY <2>6, <2>7, <2>8 DEF CommandInv
<1>20. ASSUME NEW r \in {"create", "start", "stop", "close"}, Handle(r) PROVE CommandInv'
  <2>1. /\ FramesTyped' /\ Program' = Program
        /\ UNCHANGED <<main, blind, streaming, streamId, sessionId>>
        /\ r \in requests /\ requests' = requests \ {r}
    BY <1>20, <1>t DEF Handle, FramesTyped, Program
  <2>2. CASE r = "start"
    <3>1. CASE UNCHANGED agentSession /\ agentProbe' = "running" /\ answered' = answered \cup {"start"}
      BY <1>s, <1>p, <2>1, <2>2, <3>1 DEF CommandInv, SessionInv, ProbeInv, BeforeStart, Observing
    <3>2. CASE /\ agentSession' = agentSession /\ agentProbe' = agentProbe
               /\ answered' = answered \cup {"refused"}
      BY <1>s, <1>p, <2>1, <2>2, <3>2 DEF CommandInv, SessionInv, ProbeInv, BeforeStart, Observing
    <3> QED
      BY <1>20, <2>2, <3>1, <3>2 DEF Handle
  <2>3. CASE r = "stop"
    <3>1. UNCHANGED agentSession /\ agentProbe' = "stopped" /\ answered' = answered \cup {"stop"}
      BY <1>20, <2>3 DEF Handle
    <3> QED
      BY <1>s, <1>p, <2>1, <2>3, <3>1 DEF CommandInv, SessionInv, ProbeInv, BeforeStart, Observing
  <2>4. CASE r = "create"
    <3>1. UNCHANGED agentProbe /\ agentSession' = "open" /\ answered' = answered \cup {"create"}
      BY <1>20, <2>4 DEF Handle
    <3> QED
      BY <1>s, <1>p, <2>1, <2>4, <3>1 DEF CommandInv, SessionInv, ProbeInv, BeforeStart, Observing
  <2>5. CASE r = "close"
    <3>1. UNCHANGED agentProbe /\ agentSession' = "closed" /\ answered' = answered \cup {"close"}
      BY <1>20, <2>5 DEF Handle
    <3> QED
      BY <1>s, <1>p, <2>1, <2>5, <3>1 DEF CommandInv, SessionInv, ProbeInv, BeforeStart, Observing
  <2> QED
    BY <1>20, <2>2, <2>3, <2>4, <2>5
<1>21. CASE UNCHANGED commandVars
  BY <1>21 DEF commandVars, CommandInv, FramesTyped, SessionInv, ProbeInv, Program
<1> QED
  BY <1>2, <1>3, <1>4, <1>5, <1>6, <1>7, <1>8, <1>9, <1>11, <1>12, <1>13, <1>14, <1>15, <1>16,
     <1>17, <1>18, <1>19, <1>20, <1>21 DEF CommandNext, MainSteps

\* A streaming command that has ended with none of its round trips given up or
\* cut short has left nothing behind in the agent: its probe was stopped and its
\* session closed, whichever signals came and wherever they found it.
THEOREM NothingIsLeftBehind == CommandSpec => []NothingRunsOn
<1>1. CommandInit => CommandInv
  <2> SUFFICES ASSUME CommandInit PROVE CommandInv
    OBVIOUS
  <2>1. main = <<"connect">> /\ "connect" \in FrameSteps
    BY DEF CommandInit, FrameSteps
  <2>2. main \in Seq(FrameSteps) /\ Len(main) = 1 /\ main # <<>> /\ main[1] = "connect"
    BY <2>1
  <2>3. FramesTyped /\ Program = "connect" /\ \A i \in 2..Len(main) : FALSE
    <3>1. \A i \in 2..Len(main) : FALSE
      BY <2>2
    <3>2. blind \in BOOLEAN
      BY DEF CommandInit
    <3> QED
      BY <2>2, <3>1, <3>2 DEF FramesTyped, Program
  <2> QED
    BY <2>3 DEF CommandInit, CommandInv, SessionInv, ProbeInv, BeforeStart, Observing
<1>2. CommandInv => NothingRunsOn
  BY DEF CommandInv, SessionInv, ProbeInv, NothingRunsOn, Program
<1> QED
  BY <1>1, <1>2, CommandStep, PTL DEF CommandSpec

-----------------------------------------------------------------------------
(* ClientStream: what is on the way to a client *)

Tokens == [what : FramePrefixes \cup {"length", "payload", "size", "body"}, of : Nat]

\* Where a frame or a response may begin.
Starts == FramePrefixes \cup {"size"}

Awaiting == {"drain", "head", "skip length", "skip payload"}
Between  == {"idle", "streaming", "append", "extract", "yielded", "drain", "head"}
Skips    == {"skip length", "skip payload"}

IsFrame(w, i) == w[i].what \in FramePrefixes
IsSize(w, i)  == w[i].what = "size"

\* Frames and responses one after the other, the first of them perhaps begun.
Grammar(w) ==
    \A i \in 1..Len(w) :
       /\ IsFrame(w, i) => /\ i + 2 \in 1..Len(w) /\ w[i + 1] = Token("length", w[i].of)
                           /\ w[i + 2] = Token("payload", w[i].of)
       /\ w[i].what = "length" => i + 1 \in 1..Len(w) /\ w[i + 1] = Token("payload", w[i].of)
       /\ IsSize(w, i) => i + 1 \in 1..Len(w) /\ w[i + 1] = Token("body", w[i].of)
       /\ w[i].what \in {"payload", "body"} /\ i + 1 \in 1..Len(w) => w[i + 1].what \in Starts

\* The frames in w are those after the a-th, up to the b-th, in their order.
Numbered(w, a, b) ==
    /\ \A i \in 1..Len(w) : IsFrame(w, i) => w[i].of \in (a + 1)..b
    /\ \A i, j \in 1..Len(w) : IsFrame(w, i) /\ IsFrame(w, j) /\ i < j => w[i].of < w[j].of
    /\ \A n \in (a + 1)..b : \E i \in 1..Len(w) : IsFrame(w, i) /\ w[i].of = n

\* The one response in w is for the command its caller waits for.
Answers(w, m, in) ==
    /\ in = <<>> \/ (in = <<m.cmd>> /\ m.at \in Awaiting)
    /\ \A i \in 1..Len(w) : IsSize(w, i) => w[i].of = m.cmd /\ m.at \in Awaiting /\ in = <<>>
    /\ \A i, j \in 1..Len(w) : IsSize(w, i) /\ IsSize(w, j) => i = j

\* What w begins with is what the caller is about to read.
Fits(w, m, a) ==
    /\ m.at = "skip length"  => m.of = a /\ w # <<>> /\ w[1] = Token("length", a)
    /\ m.at = "skip payload" => m.of = a /\ w # <<>> /\ w[1] = Token("payload", a)
    /\ m.at = "body"         => w # <<>> /\ w[1] = Token("body", m.cmd)
    /\ m.at \in Between      => w = <<>> \/ w[1].what \in Starts
    /\ m.at # "garbled"

OnTheWay(w, m, in, a, b) ==
    Grammar(w) /\ Numbered(w, a, b) /\ Answers(w, m, in) /\ Fits(w, m, a)

\* v is w without its first n tokens.
Without(w, v, n) ==
    /\ w \in Seq(Tokens) /\ v \in Seq(Tokens) /\ n \in Nat /\ Len(w) = Len(v) + n
    /\ \A i \in 1..Len(v) : v[i] = w[i + n]

LEMMA GrammarOfRest ==
    ASSUME NEW w, NEW v, NEW n, Without(w, v, n), Grammar(w)
    PROVE  Grammar(v)
<1> DEFINE l == Len(v)
<1>1. l \in Nat /\ Len(w) = l + n /\ n \in Nat
  BY DEF Without
<1>2. \A i \in 1..l : v[i] = w[i + n]
  BY DEF Without
<1> HIDE DEF l
<1> SUFFICES ASSUME NEW i \in 1..l
             PROVE  /\ IsFrame(v, i) => /\ i + 2 \in 1..l /\ v[i + 1] = Token("length", v[i].of)
                                        /\ v[i + 2] = Token("payload", v[i].of)
                    /\ v[i].what = "length" => i + 1 \in 1..l /\ v[i + 1] = Token("payload", v[i].of)
                    /\ IsSize(v, i) => i + 1 \in 1..l /\ v[i + 1] = Token("body", v[i].of)
                    /\ v[i].what \in {"payload", "body"} /\ i + 1 \in 1..l => v[i + 1].what \in Starts
  BY DEF Grammar, l
<1> DEFINE k == i + n
<1>3. k \in 1..Len(w) /\ v[i] = w[k]
  BY <1>1, <1>2
<1>4. k + 1 \in 1..Len(w) <=> i + 1 \in 1..l
  BY <1>1
<1>5. k + 2 \in 1..Len(w) <=> i + 2 \in 1..l
  BY <1>1
<1>6. i + 1 \in 1..l => v[i + 1] = w[k + 1]
  <2>1. i + 1 \in 1..l => v[i + 1] = w[(i + 1) + n]
    BY <1>2
  <2>2. (i + 1) + n = k + 1
    BY <1>1
  <2> QED
    BY <2>1, <2>2
<1>7. i + 2 \in 1..l => v[i + 2] = w[k + 2]
  <2>1. i + 2 \in 1..l => v[i + 2] = w[(i + 2) + n]
    BY <1>2
  <2>2. (i + 2) + n = k + 2
    BY <1>1
  <2> QED
    BY <2>1, <2>2
<1> HIDE DEF k
<1>8. /\ IsFrame(w, k) => /\ k + 2 \in 1..Len(w) /\ w[k + 1] = Token("length", w[k].of)
                          /\ w[k + 2] = Token("payload", w[k].of)
      /\ w[k].what = "length" => k + 1 \in 1..Len(w) /\ w[k + 1] = Token("payload", w[k].of)
      /\ IsSize(w, k) => k + 1 \in 1..Len(w) /\ w[k + 1] = Token("body", w[k].of)
      /\ w[k].what \in {"payload", "body"} /\ k + 1 \in 1..Len(w) => w[k + 1].what \in Starts
  BY <1>3 DEF Grammar
<1>9. k + 2 \in 1..Len(w) => i + 1 \in 1..l
  BY <1>1, <1>5
<1> QED
  BY <1>3, <1>4, <1>5, <1>6, <1>7, <1>8, <1>9 DEF IsFrame, IsSize

LEMMA FrontOfRest ==
    ASSUME NEW w, NEW v, NEW n, Without(w, v, n), v # <<>>
    PROVE  n + 1 \in 1..Len(w) /\ v[1] = w[n + 1]
<1>1. Len(v) \in Nat \ {0}
  BY DEF Without
<1>2. 1 \in 1..Len(v)
  BY <1>1
<1>3. v[1] = w[1 + n]
  BY <1>2 DEF Without
<1>4. Len(w) = Len(v) + n /\ n \in Nat
  BY DEF Without
<1> QED
  BY <1>1, <1>3, <1>4

LEMMA NumberedRest ==
    ASSUME NEW w, NEW v, NEW n, Without(w, v, n), NEW a \in Nat, NEW b \in Nat, NEW c \in Nat, a <= c,
           Numbered(w, a, b),
           \A i \in 1..Len(w) : IsFrame(w, i) => (i > n <=> w[i].of > c)
    PROVE  Numbered(v, c, b)
<1>1. Len(v) \in Nat /\ n \in Nat /\ Len(w) = Len(v) + n
  BY DEF Without
<1>2. \A i \in 1..Len(v) : i + n \in 1..Len(w) /\ i + n > n /\ v[i] = w[i + n]
  BY <1>1 DEF Without
<1>3. \A i \in 1..Len(v) : IsFrame(v, i) => v[i].of \in (c + 1)..b
  BY <1>1, <1>2 DEF Numbered, IsFrame
<1>4. ASSUME NEW i \in 1..Len(v), NEW j \in 1..Len(v), IsFrame(v, i), IsFrame(v, j), i < j
      PROVE  v[i].of < v[j].of
  <2>1. i + n < j + n /\ i + n \in 1..Len(w) /\ j + n \in 1..Len(w)
    BY <1>1, <1>2, <1>4
  <2>2. IsFrame(w, i + n) /\ IsFrame(w, j + n)
    BY <1>2, <1>4 DEF IsFrame
  <2> QED
    BY <1>2, <2>1, <2>2 DEF Numbered
<1>5. ASSUME NEW x \in (c + 1)..b PROVE \E i \in 1..Len(v) : IsFrame(v, i) /\ v[i].of = x
  <2>1. x \in (a + 1)..b /\ x > c
    OBVIOUS
  <2>2. PICK k \in 1..Len(w) : IsFrame(w, k) /\ w[k].of = x
    BY <2>1 DEF Numbered
  <2>3. k > n
    BY <2>1, <2>2
  <2>4. k - n \in 1..Len(v) /\ (k - n) + n = k
    BY <1>1, <2>3
  <2>5. v[k - n] = w[k]
    BY <1>2, <2>4
  <2> QED
    BY <2>2, <2>4, <2>5 DEF IsFrame
<1> QED
  BY <1>3, <1>4, <1>5 DEF Numbered

LEMMA AnswersOfRest ==
    ASSUME NEW w, NEW v, NEW n, Without(w, v, n), NEW m, NEW in, Answers(w, m, in)
    PROVE  Answers(v, m, in)
<1>1. Len(v) \in Nat /\ n \in Nat /\ Len(w) = Len(v) + n
  BY DEF Without
<1>2. \A i \in 1..Len(v) : i + n \in 1..Len(w) /\ v[i] = w[i + n]
  BY <1>1 DEF Without
<1>3. \A i \in 1..Len(v) : IsSize(v, i) => v[i].of = m.cmd /\ m.at \in Awaiting /\ in = <<>>
  BY <1>2 DEF Answers, IsSize
<1>4. ASSUME NEW i \in 1..Len(v), NEW j \in 1..Len(v), IsSize(v, i), IsSize(v, j) PROVE i = j
  <2>1. i + n = j + n
    BY <1>2, <1>4 DEF Answers, IsSize
  <2> QED
    BY <1>1, <2>1
<1> QED
  BY <1>3, <1>4 DEF Answers

LEMMA AnswersMoved ==
    ASSUME NEW w, NEW m, NEW n, NEW in, Answers(w, m, in), n.cmd = m.cmd,
           m.at \in Awaiting <=> n.at \in Awaiting
    PROVE  Answers(w, n, in)
<1>1. in = <<>> \/ (in = <<n.cmd>> /\ n.at \in Awaiting)
  BY DEF Answers
<1> QED
  BY <1>1 DEF Answers

\* A frame at the front is the next one.
LEMMA NextFrame ==
    ASSUME NEW w \in Seq(Tokens), w # <<>>, NEW a \in Nat, NEW b \in Nat, Numbered(w, a, b), IsFrame(w, 1)
    PROVE  /\ w[1].of = a + 1 /\ a + 1 \in 0..b
           /\ \A i \in 1..Len(w) : IsFrame(w, i) => (i > 1 <=> w[i].of > a + 1)
<1>1. 1 \in 1..Len(w) /\ Len(w) \in Nat
  OBVIOUS
<1>2. w[1].of \in (a + 1)..b
  BY <1>1 DEF Numbered
<1>3. a + 1 \in (a + 1)..b
  BY <1>2
<1>4. PICK k \in 1..Len(w) : IsFrame(w, k) /\ w[k].of = a + 1
  BY <1>3 DEF Numbered
<1>5. k = 1
  <2>1. k > 1 => w[1].of < w[k].of
    BY <1>1, <1>4 DEF Numbered
  <2>2. ~(k > 1)
    BY <1>2, <1>4, <2>1
  <2> QED
    BY <1>1, <2>2
<1>6. w[1].of = a + 1
  BY <1>4, <1>5
<1>7. ASSUME NEW i \in 1..Len(w), IsFrame(w, i) PROVE i > 1 <=> w[i].of > a + 1
  <2>1. i > 1 => w[1].of < w[i].of
    BY <1>1, <1>7 DEF Numbered
  <2>2. i > 1 \/ i = 1
    BY <1>1
  <2> QED
    BY <1>6, <2>1, <2>2
<1> QED
  BY <1>3, <1>6, <1>7

LEMMA FrameSet ==
    ASSUME NEW w, NEW a \in Nat, NEW b \in Nat, Numbered(w, a, b)
    PROVE  {w[i].of : i \in {i \in 1..Len(w) : IsFrame(w, i)}} = (a + 1)..b
BY DEF Numbered

\* The caller reads the prefix of a frame, or the length of its response.
LEMMA HeadTaken ==
    ASSUME NEW w, NEW v, Without(w, v, 1), w # <<>>, NEW a \in Nat, NEW b \in Nat,
           NEW m, NEW n, NEW in, OnTheWay(w, m, in, a, b), m.at = "head",
           n.at = AfterHead(w[1]), n.cmd = m.cmd, n.of = w[1].of
    PROVE  \/ n.at = "skip length" /\ a + 1 \in 0..b /\ OnTheWay(v, n, in, a + 1, b)
           \/ n.at = "body" /\ OnTheWay(v, n, in, a, b)
<1>1. /\ Grammar(w) /\ Numbered(w, a, b) /\ Answers(w, m, in) /\ w \in Seq(Tokens)
      /\ v \in Seq(Tokens) /\ w[1].what \in Starts /\ 1 \in 1..Len(w) /\ Len(w) \in Nat /\ Len(v) \in Nat
      /\ Len(w) = Len(v) + 1
  BY DEF OnTheWay, Without, Fits, Between
<1>2. Grammar(v) /\ Answers(v, m, in)
  BY <1>1, GrammarOfRest, AnswersOfRest
<1>3. v # <<>> => v[1] = w[2]
  BY FrontOfRest
<1>4. CASE IsFrame(w, 1)
  <2>1. /\ w[1].of = a + 1 /\ a + 1 \in 0..b
        /\ \A i \in 1..Len(w) : IsFrame(w, i) => (i > 1 <=> w[i].of > a + 1)
    BY <1>1, <1>4, NextFrame
  <2>2. Numbered(v, a + 1, b)
    BY <1>1, <2>1, NumberedRest
  <2>3. n.at = "skip length" /\ n.of = a + 1
    BY <1>4, <2>1 DEF IsFrame, AfterHead, IsPrefix4
  <2>4. 1 + 2 \in 1..Len(w) /\ w[1 + 1] = Token("length", a + 1)
    BY <1>1, <1>4, <2>1 DEF Grammar
  <2>5. v # <<>> /\ v[1] = Token("length", a + 1)
    BY <1>1, <1>3, <2>4
  <2>6. Answers(v, n, in)
    <3>1. m.at \in Awaiting /\ n.at \in Awaiting
      BY <2>3 DEF Awaiting
    <3> QED
      BY <1>2, <3>1, AnswersMoved
  <2>7. Fits(v, n, a + 1)
    BY <2>3, <2>5 DEF Fits, Between
  <2> QED
    BY <1>2, <2>1, <2>2, <2>3, <2>6, <2>7 DEF OnTheWay
<1>5. CASE ~IsFrame(w, 1)
  <2>1. w[1].what = "size" /\ IsSize(w, 1)
    BY <1>1, <1>5 DEF Starts, IsFrame, IsSize
  <2>2. n.at = "body"
    BY <1>5, <2>1 DEF AfterHead, IsPrefix4, IsFrame
  <2>3. w[1].of = m.cmd /\ in = <<>> /\ 1 + 1 \in 1..Len(w) /\ w[1 + 1] = Token("body", m.cmd)
    BY <1>1, <2>1 DEF Grammar, Answers
  <2>4. v # <<>> /\ v[1] = Token("body", n.cmd)
    BY <1>1, <1>3, <2>3
  <2>5. \A i \in 1..Len(w) : IsFrame(w, i) => (i > 1 <=> w[i].of > a)
    BY <1>1, <1>5 DEF Numbered
  <2>6. Numbered(v, a, b)
    BY <1>1, <2>5, NumberedRest
  <2>7. \A i \in 1..Len(v) : ~IsSize(v, i)
    <3> SUFFICES ASSUME NEW i \in 1..Len(v), IsSize(v, i) PROVE FALSE
      OBVIOUS
    <3>1. i + 1 \in 1..Len(w) /\ v[i] = w[i + 1] /\ i + 1 # 1
      BY <1>1 DEF Without
    <3>2. IsSize(w, i + 1)
      BY <3>1 DEF IsSize
    <3> QED
      BY <1>1, <2>1, <3>1, <3>2 DEF Answers
  <2>8. Answers(v, n, in)
    BY <2>3, <2>7 DEF Answers
  <2>9. Fits(v, n, a)
    BY <2>2, <2>4 DEF Fits, Between
  <2> QED
    BY <1>2, <2>2, <2>6, <2>8, <2>9 DEF OnTheWay
<1> QED
  BY <1>4, <1>5

\* A whole frame is taken from the front.
LEMMA FrameTaken ==
    ASSUME NEW w, NEW v, Without(w, v, 3), w # <<>>, NEW a \in Nat, NEW b \in Nat,
           NEW m, NEW in, OnTheWay(w, m, in, a, b), m.at \in Between, IsFrame(w, 1)
    PROVE  w[1].of = a + 1 /\ a + 1 \in 0..b /\ OnTheWay(v, m, in, a + 1, b)
<1>1. /\ Grammar(w) /\ Numbered(w, a, b) /\ Answers(w, m, in) /\ w \in Seq(Tokens)
      /\ v \in Seq(Tokens) /\ 1 \in 1..Len(w) /\ Len(w) \in Nat /\ Len(v) \in Nat
      /\ Len(w) = Len(v) + 3
  BY DEF OnTheWay, Without
<1>2. Grammar(v) /\ Answers(v, m, in)
  BY <1>1, GrammarOfRest, AnswersOfRest
<1>3. /\ w[1].of = a + 1 /\ a + 1 \in 0..b
      /\ \A i \in 1..Len(w) : IsFrame(w, i) => (i > 1 <=> w[i].of > a + 1)
  BY <1>1, NextFrame
<1>4. /\ w[2].what = "length" /\ w[3].what = "payload" /\ 3 \in 1..Len(w)
  <2>1. /\ 1 + 2 \in 1..Len(w) /\ w[1 + 1] = Token("length", a + 1)
        /\ w[1 + 2] = Token("payload", a + 1)
    BY <1>1, <1>3 DEF Grammar
  <2> QED
    BY <2>1 DEF Token
<1>5. \A i \in 1..Len(w) : IsFrame(w, i) => (i > 3 <=> w[i].of > a + 1)
  <2>1. ~IsFrame(w, 2) /\ ~IsFrame(w, 3)
    BY <1>4 DEF IsFrame, FramePrefixes
  <2>2. \A i \in 1..Len(w) : i > 3 \/ i = 1 \/ i = 2 \/ i = 3
    BY <1>1
  <2> QED
    BY <1>1, <1>3, <2>1, <2>2
<1>6. Numbered(v, a + 1, b)
  BY <1>1, <1>5, NumberedRest
<1>7. v # <<>> => v[1].what \in Starts
  <2> SUFFICES ASSUME v # <<>> PROVE v[1].what \in Starts
    OBVIOUS
  <2>1. 3 + 1 \in 1..Len(w) /\ v[1] = w[3 + 1]
    BY FrontOfRest
  <2> QED
    BY <1>1, <1>4, <2>1 DEF Grammar
<1>8. Fits(v, m, a + 1)
  BY <1>7 DEF OnTheWay, Fits, Between
<1> QED
  BY <1>2, <1>3, <1>6, <1>8 DEF OnTheWay

ReadsOn(m, n) ==
    /\ n.cmd = m.cmd /\ n.of = m.of
    /\ \/ m.at = "skip length" /\ n.at = "skip payload"
       \/ m.at = "skip payload" /\ n.at = "drain"
       \/ m.at = "body" /\ n.at = "idle"

\* What is left of a frame whose prefix was read, or the body of the response.
LEMMA RestTaken ==
    ASSUME NEW w, NEW v, Without(w, v, 1), w # <<>>, NEW a \in Nat, NEW b \in Nat,
           NEW m, NEW n, NEW in, OnTheWay(w, m, in, a, b), ReadsOn(m, n)
    PROVE  OnTheWay(v, n, in, a, b)
<1>1. /\ Grammar(w) /\ Numbered(w, a, b) /\ Answers(w, m, in) /\ w \in Seq(Tokens) /\ Fits(w, m, a)
      /\ v \in Seq(Tokens) /\ 1 \in 1..Len(w) /\ Len(w) \in Nat /\ Len(v) \in Nat
      /\ Len(w) = Len(v) + 1
  BY DEF OnTheWay, Without
<1>2. Grammar(v) /\ Answers(v, m, in)
  BY <1>1, GrammarOfRest, AnswersOfRest
<1>3. v # <<>> => 1 + 1 \in 1..Len(w) /\ v[1] = w[1 + 1]
  BY FrontOfRest
<1>4. /\ m.at = "skip length" => m.of = a /\ w[1].what = "length" /\ w[1].of = a
      /\ m.at # "skip length" => w[1].what \in {"payload", "body"}
  <2>1. m.at = "skip length" => m.of = a /\ w[1].what = "length" /\ w[1].of = a
    <3>1. m.at = "skip length" => m.of = a /\ w[1] = Token("length", a)
      BY <1>1 DEF Fits
    <3>2. Token("length", a).what = "length" /\ Token("length", a).of = a
      BY DEF Token
    <3> QED
      BY <3>1, <3>2
  <2>2. m.at = "skip payload" => w[1].what = "payload"
    <3>1. m.at = "skip payload" => w[1] = Token("payload", a)
      BY <1>1 DEF Fits
    <3>2. Token("payload", a).what = "payload"
      BY DEF Token
    <3> QED
      BY <3>1, <3>2
  <2>3. m.at = "body" => w[1].what = "body"
    BY <1>1 DEF Fits, Token
  <2> QED
    BY <2>1, <2>2, <2>3 DEF ReadsOn
<1>5. ~IsFrame(w, 1)
  BY <1>4 DEF IsFrame, FramePrefixes, ReadsOn
<1>6. \A i \in 1..Len(w) : IsFrame(w, i) => (i > 1 <=> w[i].of > a)
  BY <1>1, <1>5 DEF Numbered
<1>7. Numbered(v, a, b)
  BY <1>1, <1>6, NumberedRest
<1>8. Answers(v, n, in)
  BY <1>2, AnswersMoved DEF Awaiting, ReadsOn
<1>9. Fits(v, n, a)
  <2>1. CASE m.at = "skip length"
    <3>2. 1 + 1 \in 1..Len(w) /\ w[1 + 1] = Token("payload", a)
      BY <1>1, <1>4, <2>1 DEF Grammar
    <3>3. v # <<>> /\ v[1] = Token("payload", a)
      BY <1>1, <1>3, <3>2
    <3> QED
      BY <1>4, <2>1, <3>3 DEF Fits, Between, ReadsOn
  <2>2. CASE m.at # "skip length"
    <3>1. w[1].what \in {"payload", "body"}
      BY <1>4, <2>2
    <3>2. v # <<>> => v[1].what \in Starts
      BY <1>1, <1>3, <3>1 DEF Grammar
    <3> QED
      BY <2>2, <3>2 DEF Fits, Between, ReadsOn
  <2> QED
    BY <2>1, <2>2
<1> QED
  BY <1>2, <1>7, <1>8, <1>9 DEF OnTheWay

-----------------------------------------------------------------------------
(* What the agent appends *)

\* v is w with the tokens s at its end.
Longer(w, v, s) ==
    /\ w \in Seq(Tokens) /\ v \in Seq(Tokens) /\ Len(v) = Len(w) + Len(s)
    /\ \A i \in 1..Len(w) : v[i] = w[i]
    /\ \A i \in 1..Len(s) : v[Len(w) + i] = s[i]

\* The grammar does not depend on what comes after a complete frame or response.
LEMMA GrammarGrows ==
    ASSUME NEW w, NEW v, NEW l \in Nat, w \in Seq(Tokens), v \in Seq(Tokens), Grammar(w), l = Len(w), l <= Len(v),
           \A i \in 1..l : v[i] = w[i],
           l + 1 \in 1..Len(v) => v[l + 1].what \in Starts,
           NEW i \in 1..l
    PROVE  /\ IsFrame(v, i) => /\ i + 2 \in 1..Len(v) /\ v[i + 1] = Token("length", v[i].of)
                               /\ v[i + 2] = Token("payload", v[i].of)
           /\ v[i].what = "length" => i + 1 \in 1..Len(v) /\ v[i + 1] = Token("payload", v[i].of)
           /\ IsSize(v, i) => i + 1 \in 1..Len(v) /\ v[i + 1] = Token("body", v[i].of)
           /\ v[i].what \in {"payload", "body"} /\ i + 1 \in 1..Len(v) => v[i + 1].what \in Starts
<1>1. /\ IsFrame(w, i) => /\ i + 2 \in 1..l /\ w[i + 1] = Token("length", w[i].of)
                          /\ w[i + 2] = Token("payload", w[i].of)
      /\ w[i].what = "length" => i + 1 \in 1..l /\ w[i + 1] = Token("payload", w[i].of)
      /\ IsSize(w, i) => i + 1 \in 1..l /\ w[i + 1] = Token("body", w[i].of)
      /\ w[i].what \in {"payload", "body"} /\ i + 1 \in 1..l => w[i + 1].what \in Starts
  BY DEF Grammar
<1>2. v[i] = w[i] /\ (i + 1 \in 1..l => v[i + 1] = w[i + 1]) /\ (i + 2 \in 1..l => v[i + 2] = w[i + 2])
  OBVIOUS
<1>3. Len(v) \in Nat /\ (i + 1 \in 1..l \/ i + 1 = l + 1)
  OBVIOUS
<1>4. i + 1 \in 1..l => i + 1 \in 1..Len(v)
  BY <1>3
<1>5. i + 2 \in 1..l => i + 1 \in 1..l /\ i + 2 \in 1..Len(v)
  BY <1>3
<1> QED
  BY <1>1, <1>2, <1>3, <1>4, <1>5 DEF IsFrame, IsSize

LEMMA FrameSent ==
    ASSUME NEW w, NEW v, NEW a \in Nat, NEW b \in Nat, a <= b, NEW m, NEW in, OnTheWay(w, m, in, a, b),
           NEW p \in FramePrefixes, NEW s,
           s = <<Token(p, b + 1), Token("length", b + 1), Token("payload", b + 1)>>, Longer(w, v, s)
    PROVE  OnTheWay(v, m, in, a, b + 1)
<1> DEFINE l == Len(w)
<1>1. /\ Grammar(w) /\ Numbered(w, a, b) /\ Answers(w, m, in) /\ w \in Seq(Tokens) /\ Fits(w, m, a)
      /\ v \in Seq(Tokens) /\ l \in Nat /\ Len(v) = l + 3
      /\ \A i \in 1..l : v[i] = w[i]
  BY DEF OnTheWay, Longer
<1>2. v[l + 1] = Token(p, b + 1) /\ v[l + 2] = Token("length", b + 1) /\ v[l + 3] = Token("payload", b + 1)
  BY DEF Longer
<1>l. l = Len(w)
  OBVIOUS
<1> HIDE DEF l
<1>3. /\ v[l + 1].what = p /\ v[l + 1].of = b + 1
      /\ v[l + 2].what = "length" /\ v[l + 2].of = b + 1
      /\ v[l + 3].what = "payload" /\ v[l + 3].of = b + 1
  BY <1>2 DEF Token
<1>4. \A i \in 1..Len(v) : i \in 1..l \/ i = l + 1 \/ i = l + 2 \/ i = l + 3
  BY <1>1
<1>5. IsFrame(v, l + 1) /\ ~IsFrame(v, l + 2) /\ ~IsFrame(v, l + 3)
  BY <1>3 DEF IsFrame, FramePrefixes
<1>6. \A i \in 1..l : IsFrame(v, i) <=> IsFrame(w, i)
  BY <1>1 DEF IsFrame
<1>7. Grammar(v)
  <2> SUFFICES ASSUME NEW i \in 1..Len(v)
               PROVE  /\ IsFrame(v, i) => /\ i + 2 \in 1..Len(v) /\ v[i + 1] = Token("length", v[i].of)
                                          /\ v[i + 2] = Token("payload", v[i].of)
                      /\ v[i].what = "length" => i + 1 \in 1..Len(v) /\ v[i + 1] = Token("payload", v[i].of)
                      /\ IsSize(v, i) => i + 1 \in 1..Len(v) /\ v[i + 1] = Token("body", v[i].of)
                      /\ v[i].what \in {"payload", "body"} /\ i + 1 \in 1..Len(v) => v[i + 1].what \in Starts
    BY DEF Grammar
  <2>1. CASE i \in 1..l
    <3>1. l <= Len(v) /\ v[l + 1].what \in Starts
      BY <1>1, <1>3 DEF Starts
    <3> QED
      BY <1>1, <1>l, <2>1, <3>1, GrammarGrows
  <2>2. CASE i = l + 1
    <3>1. i + 1 = l + 2 /\ i + 2 = l + 3 /\ l + 2 \in 1..Len(v) /\ l + 3 \in 1..Len(v)
      BY <1>1, <2>2
    <3> QED
      BY <1>2, <1>3, <2>2, <3>1 DEF IsSize, FramePrefixes
  <2>3. CASE i = l + 2
    <3>1. i + 1 = l + 3 /\ l + 3 \in 1..Len(v)
      BY <1>1, <2>3
    <3> QED
      BY <1>2, <1>3, <1>5, <2>3, <3>1 DEF IsSize
  <2>4. CASE i = l + 3
    <3>1. i + 1 \notin 1..Len(v)
      BY <1>1, <2>4
    <3> QED
      BY <1>3, <1>5, <2>4, <3>1 DEF IsSize
  <2> QED
    BY <1>4, <2>1, <2>2, <2>3, <2>4
<1>8. Numbered(v, a, b + 1)
  <2>1. \A i \in 1..Len(v) : IsFrame(v, i) => v[i].of \in (a + 1)..(b + 1)
    <3> SUFFICES ASSUME NEW i \in 1..Len(v), IsFrame(v, i) PROVE v[i].of \in (a + 1)..(b + 1)
      OBVIOUS
    <3>1. CASE i \in 1..l
      <4>1. w[i].of \in (a + 1)..b /\ v[i] = w[i]
        BY <1>1, <1>6, <1>l, <3>1 DEF Numbered
      <4> QED
        BY <4>1
    <3>2. CASE i = l + 1
      BY <1>3, <3>2
    <3> QED
      BY <1>4, <1>5, <3>1, <3>2
  <2>2. ASSUME NEW i \in 1..Len(v), NEW j \in 1..Len(v), IsFrame(v, i), IsFrame(v, j), i < j
        PROVE  v[i].of < v[j].of
    <3>1. i \in 1..l
      <4>1. j \in 1..l \/ j = l + 1
        BY <1>4, <1>5, <2>2
      <4>2. i \in Nat /\ 1 <= i /\ i < l + 1
        BY <1>1, <2>2, <4>1
      <4> QED
        BY <1>1, <4>2
    <3>2. CASE j \in 1..l
      BY <1>1, <1>6, <1>l, <2>2, <3>1, <3>2 DEF Numbered
    <3>3. CASE j = l + 1
      <4>1. w[i].of \in (a + 1)..b
        BY <1>1, <1>6, <1>l, <2>2, <3>1 DEF Numbered
      <4> QED
        BY <1>1, <1>3, <3>1, <3>3, <4>1, SMTT(20)
    <3> QED
      BY <1>4, <1>5, <2>2, <3>2, <3>3
  <2>3. ASSUME NEW n \in (a + 1)..(b + 1) PROVE \E i \in 1..Len(v) : IsFrame(v, i) /\ v[i].of = n
    <3>1. CASE n = b + 1
      BY <1>1, <1>3, <1>5, <3>1
    <3>2. CASE n \in (a + 1)..b
      <4>1. PICK i \in 1..l : IsFrame(w, i) /\ w[i].of = n
        BY <1>1, <1>l, <3>2 DEF Numbered
      <4>2. i \in 1..Len(v)
        BY <1>1
      <4> QED
        BY <1>1, <1>6, <4>1, <4>2
    <3> QED
      BY <3>1, <3>2
  <2> QED
    BY <2>1, <2>2, <2>3 DEF Numbered
<1>9. Answers(v, m, in)
  <2>1. \A i \in 1..Len(v) : IsSize(v, i) => i \in 1..l /\ IsSize(w, i) /\ v[i] = w[i]
    BY <1>1, <1>3, <1>4 DEF IsSize, FramePrefixes
  <2> QED
    BY <1>1, <1>l, <2>1 DEF Answers
<1>10. Fits(v, m, a)
  <2>1. w # <<>> => v # <<>> /\ v[1] = w[1]
    BY <1>1, <1>l
  <2>2. w = <<>> => v # <<>> /\ v[1] = Token(p, b + 1)
    BY <1>1, <1>2, <1>l
  <2>3. v[1].what \in Starts \/ w # <<>>
    BY <2>2 DEF Token, Starts
  <2> QED
    BY <1>1, <2>1, <2>3 DEF Fits
<1> QED
  BY <1>7, <1>8, <1>9, <1>10 DEF OnTheWay

LEMMA ResponseSent ==
    ASSUME NEW w, NEW v, NEW a \in Nat, NEW b \in Nat, NEW m, NEW in, OnTheWay(w, m, in, a, b),
           in # <<>>, NEW s, s = <<Token("size", Head(in)), Token("body", Head(in))>>, Longer(w, v, s)
    PROVE  OnTheWay(v, m, <<>>, a, b)
<1> DEFINE l == Len(w)
           c == m.cmd
<1>1. /\ Grammar(w) /\ Numbered(w, a, b) /\ Answers(w, m, in) /\ w \in Seq(Tokens) /\ Fits(w, m, a)
      /\ v \in Seq(Tokens) /\ l \in Nat
      /\ \A i \in 1..l : v[i] = w[i]
  BY DEF OnTheWay, Longer
<1>2. in = <<c>> /\ m.at \in Awaiting /\ Head(in) = c
  BY <1>1 DEF Answers
<1>3. Len(v) = l + 2 /\ v[l + 1] = Token("size", c) /\ v[l + 2] = Token("body", c)
  BY <1>2 DEF Longer
<1>l. l = Len(w) /\ c = m.cmd
  OBVIOUS
<1> HIDE DEF l, c
<1>4. /\ v[l + 1].what = "size" /\ v[l + 1].of = c
      /\ v[l + 2].what = "body" /\ v[l + 2].of = c
  BY <1>3 DEF Token
<1>5. \A i \in 1..Len(v) : i \in 1..l \/ i = l + 1 \/ i = l + 2
  BY <1>1, <1>3
<1>6. \A i \in 1..l : IsFrame(v, i) <=> IsFrame(w, i)
  BY <1>1 DEF IsFrame
<1>7. ~IsFrame(v, l + 1) /\ ~IsFrame(v, l + 2) /\ ~IsSize(v, l + 2)
  BY <1>4 DEF IsFrame, FramePrefixes, IsSize
<1>8. Grammar(v)
  <2> SUFFICES ASSUME NEW i \in 1..Len(v)
               PROVE  /\ IsFrame(v, i) => /\ i + 2 \in 1..Len(v) /\ v[i + 1] = Token("length", v[i].of)
                                          /\ v[i + 2] = Token("payload", v[i].of)
                      /\ v[i].what = "length" => i + 1 \in 1..Len(v) /\ v[i + 1] = Token("payload", v[i].of)
                      /\ IsSize(v, i) => i + 1 \in 1..Len(v) /\ v[i + 1] = Token("body", v[i].of)
                      /\ v[i].what \in {"payload", "body"} /\ i + 1 \in 1..Len(v) => v[i + 1].what \in Starts
    BY DEF Grammar
  <2>1. CASE i \in 1..l
    <3>1. l <= Len(v) /\ v[l + 1].what \in Starts
      BY <1>1, <1>3, <1>4 DEF Starts
    <3> QED
      BY <1>1, <1>l, <2>1, <3>1, GrammarGrows
  <2>2. CASE i = l + 1
    <3>1. i + 1 = l + 2 /\ l + 2 \in 1..Len(v)
      BY <1>1, <1>3, <2>2
    <3> QED
      BY <1>3, <1>4, <1>7, <2>2, <3>1
  <2>3. CASE i = l + 2
    <3>1. i + 1 \notin 1..Len(v)
      BY <1>1, <1>3, <2>3
    <3> QED
      BY <1>4, <1>7, <2>3, <3>1
  <2> QED
    BY <1>5, <2>1, <2>2, <2>3
<1>9. Numbered(v, a, b)
  <2>1. \A i \in 1..Len(v) : IsFrame(v, i) => i \in 1..l /\ IsFrame(w, i) /\ v[i] = w[i]
    BY <1>1, <1>5, <1>6, <1>7
  <2>2. ASSUME NEW n \in (a + 1)..b PROVE \E i \in 1..Len(v) : IsFrame(v, i) /\ v[i].of = n
    <3>1. PICK i \in 1..l : IsFrame(w, i) /\ w[i].of = n
      BY <1>1, <1>l DEF Numbered
    <3>2. i \in 1..Len(v)
      BY <1>1, <1>3
    <3> QED
      BY <1>1, <1>6, <3>1, <3>2
  <2> QED
    BY <1>1, <1>l, <2>1, <2>2 DEF Numbered
<1>10. Answers(v, m, <<>>)
  <2>1. \A i \in 1..l : ~IsSize(v, i)
    BY <1>1, <1>l DEF Answers, IsSize
  <2>2. \A i \in 1..Len(v) : IsSize(v, i) => i = l + 1
    BY <1>5, <1>7, <2>1
  <2> QED
    BY <1>2, <1>4, <1>l, <2>2 DEF Answers
<1>11. Fits(v, m, a)
  <2>1. w # <<>> => v # <<>> /\ v[1] = w[1]
    BY <1>1, <1>3, <1>l
  <2>2. w = <<>> => v # <<>> /\ v[1] = Token("size", c)
    <3>1. w = <<>> => l = 0 /\ l + 1 = 1
      BY <1>l
    <3>2. v # <<>>
      BY <1>1, <1>3
    <3> QED
      BY <1>3, <3>1, <3>2
  <2>3. v[1].what \in Starts \/ w # <<>>
    BY <2>2 DEF Token, Starts
  <2> QED
    BY <1>1, <2>1, <2>3 DEF Fits
<1> QED
  BY <1>8, <1>9, <1>10, <1>11 DEF OnTheWay

-----------------------------------------------------------------------------
(* What the client has received and what is on the way *)

LEMMA FirstTaken ==
    ASSUME NEW b \in Seq(Tokens), NEW s \in Seq(Tokens), b # <<>>
    PROVE  /\ Without(b \o s, Tail(b) \o s, 1) /\ b \o s # <<>> /\ (b \o s)[1] = Head(b)
           /\ Head(b) \in Tokens /\ Tail(b) \in Seq(Tokens) /\ Head(b) = b[1]
<1>1. /\ Tail(b) \in Seq(Tokens) /\ Len(Tail(b)) = Len(b) - 1 /\ Len(b) \in Nat \ {0} /\ Len(s) \in Nat
      /\ \A i \in 1..Len(Tail(b)) : Tail(b)[i] = b[i + 1]
  OBVIOUS
<1>2. /\ b \o s \in Seq(Tokens) /\ Tail(b) \o s \in Seq(Tokens)
      /\ Len(b \o s) = Len(b) + Len(s) /\ Len(Tail(b) \o s) = Len(Tail(b)) + Len(s)
  BY <1>1
<1>3. ASSUME NEW i \in 1..Len(Tail(b) \o s) PROVE (Tail(b) \o s)[i] = (b \o s)[i + 1]
  <2>1. CASE i \in 1..Len(Tail(b))
    <3>1. (Tail(b) \o s)[i] = b[i + 1] /\ i + 1 \in 1..Len(b)
      BY <1>1, <2>1
    <3> QED
      BY <3>1
  <2>2. CASE i \notin 1..Len(Tail(b))
    <3>1. i > Len(Tail(b)) /\ i + 1 > Len(b) /\ (i + 1) - Len(b) = i - Len(Tail(b)) /\ i + 1 \in 1..Len(b \o s)
      BY <1>1, <1>2, <2>2
    <3>2. (Tail(b) \o s)[i] = s[i - Len(Tail(b))]
      BY <1>1, <1>2, <3>1
    <3>3. (b \o s)[i + 1] = s[(i + 1) - Len(b)]
      BY <1>1, <1>2, <3>1
    <3> QED
      BY <3>1, <3>2, <3>3
  <2> QED
    BY <2>1, <2>2
<1>4. b \o s # <<>> /\ (b \o s)[1] = b[1] /\ Head(b) = b[1] /\ Head(b) \in Tokens
  BY <1>1
<1>5. Len(b \o s) = Len(Tail(b) \o s) + 1
  BY <1>1, <1>2
<1> QED
  BY <1>1, <1>2, <1>3, <1>4, <1>5 DEF Without

LEMMA ThreeTaken ==
    ASSUME NEW b \in Seq(Tokens), NEW s \in Seq(Tokens), Len(b) >= 3
    PROVE  /\ Without(b \o s, SubSeq(b, 4, Len(b)) \o s, 3) /\ b \o s # <<>> /\ (b \o s)[1] = b[1]
           /\ b[1] \in Tokens /\ SubSeq(b, 4, Len(b)) \in Seq(Tokens)
<1> DEFINE t == SubSeq(b, 4, Len(b))
<1>1. /\ t \in Seq(Tokens) /\ Len(t) = Len(b) - 3 /\ Len(b) \in Nat /\ Len(s) \in Nat
      /\ \A i \in 1..Len(t) : t[i] = b[i + 3]
  <2>1. t \in Seq(Tokens) /\ Len(b) \in Nat /\ Len(s) \in Nat
    OBVIOUS
  <2>2. Len(t) = Len(b) - 3
    <3>1. Len(t) = IF 4 <= Len(b) THEN Len(b) - 4 + 1 ELSE 0
      BY SubSeqProperties
    <3>2. ASSUME NEW x \in Nat, x >= 3, NEW y, y = IF 4 <= x THEN x - 4 + 1 ELSE 0 PROVE y = x - 3
      BY <3>2
    <3> QED
      BY <2>1, <3>1, <3>2
  <2>3. ASSUME NEW i \in 1..Len(t) PROVE t[i] = b[i + 3]
    <3>1. t[i] = b[4 + i - 1]
      BY <2>1, <2>2
    <3>2. 4 + i - 1 = i + 3
      OBVIOUS
    <3> QED
      BY <3>1, <3>2
  <2> QED
    BY <2>1, <2>2, <2>3
<1>2. /\ b \o s \in Seq(Tokens) /\ t \o s \in Seq(Tokens)
      /\ Len(b \o s) = Len(b) + Len(s) /\ Len(t \o s) = Len(t) + Len(s)
  BY <1>1
<1> HIDE DEF t
<1>3. ASSUME NEW i \in 1..Len(t \o s) PROVE (t \o s)[i] = (b \o s)[i + 3]
  <2>1. CASE i \in 1..Len(t)
    <3>1. (t \o s)[i] = b[i + 3] /\ i + 3 \in 1..Len(b)
      BY <1>1, <2>1
    <3> QED
      BY <3>1
  <2>2. CASE i \notin 1..Len(t)
    <3>1. i > Len(t) /\ i + 3 > Len(b) /\ (i + 3) - Len(b) = i - Len(t) /\ i + 3 \in 1..Len(b \o s)
      BY <1>1, <1>2, <2>2
    <3>2. (t \o s)[i] = s[i - Len(t)]
      BY <1>1, <1>2, <3>1
    <3>3. (b \o s)[i + 3] = s[(i + 3) - Len(b)]
      BY <1>1, <1>2, <3>1
    <3> QED
      BY <3>1, <3>2, <3>3
  <2> QED
    BY <2>1, <2>2
<1>4. b \o s # <<>> /\ (b \o s)[1] = b[1] /\ b[1] \in Tokens
  BY <1>1
<1>5. Len(b \o s) = Len(t \o s) + 3
  BY <1>1, <1>2
<1> QED
  BY <1>1, <1>2, <1>3, <1>4, <1>5 DEF Without, t

LEMMA Associated ==
    ASSUME NEW x \in Seq(Tokens), NEW y \in Seq(Tokens), NEW z \in Seq(Tokens)
    PROVE  (x \o y) \o z = x \o (y \o z)
BY ConcatAssociative

LEMMA SubSeqParts ==
    ASSUME NEW s \in Seq(Tokens), NEW n \in 1..Len(s)
    PROVE  /\ SubSeq(s, 1, n) \o SubSeq(s, n + 1, Len(s)) = s
           /\ SubSeq(s, 1, n) \in Seq(Tokens) /\ SubSeq(s, n + 1, Len(s)) \in Seq(Tokens)
<1>1. SubSeq(s, 1, n) \in Seq(Tokens) /\ SubSeq(s, n + 1, Len(s)) \in Seq(Tokens)
  OBVIOUS
<1>2. SubSeq(s, 1, n) \o SubSeq(s, n + 1, Len(s)) = s
  <2>1. n \in 1..(Len(s) + 1) /\ Len(s) \in Nat /\ n \in 0..Len(s)
    OBVIOUS
  <2>2. SubSeq(s, 1, n) \o SubSeq(s, n + 1, Len(s)) = SubSeq(s, 1, Len(s))
    BY <2>1, ConcatAdjacentSubSeq
  <2>3. SubSeq(s, 1, Len(s)) = s
    BY SubSeqFull
  <2> QED
    BY <2>2, <2>3
<1> QED
  BY <1>1, <1>2

LEMMA Received ==
    ASSUME NEW b \in Seq(Tokens), NEW s \in Seq(Tokens), NEW n \in 1..Len(s)
    PROVE  /\ (b \o SubSeq(s, 1, n)) \o SubSeq(s, n + 1, Len(s)) = b \o s
           /\ b \o SubSeq(s, 1, n) \in Seq(Tokens) /\ SubSeq(s, n + 1, Len(s)) \in Seq(Tokens)
<1>1. SubSeq(s, 1, n) \in Seq(Tokens) /\ SubSeq(s, n + 1, Len(s)) \in Seq(Tokens)
  BY SubSeqParts
<1>2. SubSeq(s, 1, n) \o SubSeq(s, n + 1, Len(s)) = s
  BY SubSeqParts
<1> DEFINE u == SubSeq(s, 1, n)
           v == SubSeq(s, n + 1, Len(s))
<1> HIDE DEF u, v
<1>3. (b \o u) \o v = b \o (u \o v) /\ b \o u \in Seq(Tokens)
  <2>1. u \in Seq(Tokens) /\ v \in Seq(Tokens)
    BY <1>1 DEF u, v
  <2>2. b \o u \in Seq(Tokens)
    BY <2>1
  <2>3. (b \o u) \o v = b \o (u \o v)
    BY <2>1, Associated
  <2> QED
    BY <2>2, <2>3
<1>4. u \o v = s
  BY <1>2 DEF u, v
<1>5. (b \o u) \o v = b \o s
  BY <1>3, <1>4
<1> QED
  BY <1>1, <1>3, <1>5 DEF u, v

LEMMA Sends ==
    ASSUME NEW b \in Seq(Tokens), NEW s \in Seq(Tokens), NEW t \in Seq(Tokens)
    PROVE  s \o t \in Seq(Tokens) /\ Longer(b \o s, b \o (s \o t), t)
<1> DEFINE w == b \o s
<1>1. w \in Seq(Tokens) /\ s \o t \in Seq(Tokens) /\ b \o (s \o t) = w \o t
  BY ConcatAssociative, SMTT(20)
<1> HIDE DEF w
<1>2. /\ w \o t \in Seq(Tokens) /\ Len(w \o t) = Len(w) + Len(t)
      /\ \A i \in 1..Len(w) : (w \o t)[i] = w[i]
  BY <1>1
<1>3. \A i \in 1..Len(t) : (w \o t)[Len(w) + i] = t[i]
  <2> SUFFICES ASSUME NEW i \in 1..Len(t) PROVE (w \o t)[Len(w) + i] = t[i]
    OBVIOUS
  <2>1. Len(w) \in Nat /\ Len(w) + i > Len(w) /\ Len(w) + i \in 1..Len(w \o t) /\ (Len(w) + i) - Len(w) = i
    BY <1>1, <1>2
  <2> QED
    BY <1>1, <2>1
<1> QED
  BY <1>1, <1>2, <1>3 DEF Longer, w

-----------------------------------------------------------------------------
(* ClientStream: threads that command and read, one at a time *)

BusyAt == RoundTrip \cup InRead
CallerSteps == BusyAt \cup {"idle", "streaming", "yielded"}
CallerStates == [at : CallerSteps, cmd : Nat, of : Nat, chunk : Seq(Tokens)]

\* What the thread that reads is about, and what is on its way to it.
Current(c) == IF \E t \in Callers : c[t].at \in BusyAt
              THEN c[CHOOSE t \in Callers : c[t].at \in BusyAt] ELSE Idle
Me == Current(caller)
Coming == Me.chunk \o stream
Sent == buffered \o Coming
Ordered(s) == \A i, j \in DOMAIN s : i < j => s[i] < s[j]

\* One thread reads at a time; a round trip is its thread's that has the lock.
Threads(c, holder) ==
    /\ c \in [Callers -> CallerStates]
    /\ \A t, u \in Callers : c[t].at \in BusyAt /\ c[u].at \in BusyAt => t = u
    /\ \A t \in Callers : /\ c[t].at \in RoundTrip => holder = t
                          /\ c[t].at # "append" => c[t].chunk = <<>>

ClientTypes ==
    /\ Threads(caller, sending)
    /\ buffered \in Seq(Tokens) /\ stream \in Seq(Tokens)
    /\ broadcasts \in Nat /\ issued \in Nat /\ yielded \in Seq(Nat)

\* The first a frames were yielded or thrown away, or the caller is about to.
Consumed(m, a, y, s) ==
    /\ \A i \in DOMAIN y : y[i] <= a
    /\ Range(y) \cup s = IF m.at \in Skips THEN 1..(a - 1) ELSE 1..a
    /\ m.at \in Skips => a # 0

Intact(a) == /\ a \in 0..broadcasts /\ OnTheWay(Sent, Me, inbox, a, broadcasts)
             /\ Consumed(Me, a, yielded, skipped)

StreamInv ==
    /\ ClientTypes
    /\ \A r \in replies : r[1] = r[2]
    /\ Ordered(yielded)
    /\ Me.at # "garbled"
    /\ connection = "closed" => buffered = <<>> /\ Me.at # "append"
    /\ connection # "closed" => \E a \in Nat : Intact(a)

Steady == ~gaveUp /\ ~crowded
ClientInv == Steady => StreamInv

LEMMA IdleState ==
    /\ Idle \in CallerStates /\ Idle.at = "idle" /\ Idle.cmd = 0 /\ Idle.of = 0 /\ Idle.chunk = <<>>
    /\ "idle" \notin BusyAt /\ "idle" \in Between /\ "idle" \notin Awaiting /\ "idle" \notin Skips
    /\ Idle.at \notin BusyAt
BY DEF Idle, CallerStates, CallerSteps, BusyAt, RoundTrip, InRead, Between, Awaiting, Skips

LEMMA CurrentIs ==
    ASSUME NEW c, NEW t \in Callers, \A u \in Callers : c[u].at \in BusyAt => u = t
    PROVE  Current(c) = IF c[t].at \in BusyAt THEN c[t] ELSE Idle
<1>1. CASE c[t].at \in BusyAt
  <2>1. (CHOOSE u \in Callers : c[u].at \in BusyAt) = t
    BY <1>1
  <2> QED
    BY <1>1, <2>1 DEF Current
<1>2. CASE c[t].at \notin BusyAt
  BY <1>2 DEF Current
<1> QED
  BY <1>1, <1>2

\* A thread takes a step while no other reads.
LEMMA Turn ==
    ASSUME NEW c, NEW h, Threads(c, h), NEW t \in Callers, NEW x \in CallerStates, NEW g,
           NEW d, d \in [Callers -> CallerStates], d[t] = x, \A u \in Callers \ {t} : d[u] = c[u],
           \A u \in Callers \ {t} : c[u].at \notin BusyAt,
           x.at \in RoundTrip => g = t, x.at # "append" => x.chunk = <<>>
    PROVE  /\ Threads(d, g)
           /\ Current(c) = IF c[t].at \in BusyAt THEN c[t] ELSE Idle
           /\ Current(d) = IF x.at \in BusyAt THEN x ELSE Idle
<1>1. c \in [Callers -> CallerStates] /\ d \in [Callers -> CallerStates] /\ d[t] = x
  BY DEF Threads
<1>2. \A u \in Callers \ {t} : d[u] = c[u] /\ d[u].at \notin BusyAt
  BY <1>1
<1>3. /\ \A u \in Callers : c[u].at \in BusyAt => u = t
      /\ \A u \in Callers : d[u].at \in BusyAt => u = t
  BY <1>2
<1>4. /\ Current(c) = IF c[t].at \in BusyAt THEN c[t] ELSE Idle
      /\ Current(d) = IF x.at \in BusyAt THEN x ELSE Idle
  BY <1>1, <1>3, CurrentIs
<1>5. Threads(d, g)
  <2>1. \A u \in Callers : /\ d[u].at \in RoundTrip => g = u
                           /\ d[u].at # "append" => d[u].chunk = <<>>
    <3> SUFFICES ASSUME NEW u \in Callers
                 PROVE  /\ d[u].at \in RoundTrip => g = u
                        /\ d[u].at # "append" => d[u].chunk = <<>>
      OBVIOUS
    <3>1. CASE u = t
      BY <1>1, <3>1
    <3>2. CASE u # t
      <4>1. d[u] = c[u] /\ d[u].at \notin RoundTrip
        BY <1>2, <3>2 DEF BusyAt
      <4> QED
        BY <4>1 DEF Threads
    <3> QED
      BY <3>1, <3>2
  <2> QED
    BY <1>1, <1>3, <2>1 DEF Threads
<1> QED
  BY <1>4, <1>5

\* A thread that does not read takes a step, and still does not.
LEMMA Aside ==
    ASSUME NEW c, NEW h, Threads(c, h), NEW t \in Callers, NEW x \in CallerStates,
           NEW d, d \in [Callers -> CallerStates], d[t] = x, \A u \in Callers \ {t} : d[u] = c[u],
           c[t].at \notin BusyAt, x.at \notin BusyAt, x.chunk = <<>>
    PROVE  Threads(d, h) /\ Current(d) = Current(c)
<1>1. /\ c \in [Callers -> CallerStates] /\ d \in [Callers -> CallerStates] /\ d[t] = x
      /\ \A u \in Callers \ {t} : d[u] = c[u]
  BY DEF Threads
<1>2. \A u \in Callers : d[u].at \in BusyAt <=> c[u].at \in BusyAt
  BY <1>1
<1>3. Threads(d, h)
  <2>1. \A u \in Callers : /\ d[u].at \in RoundTrip => h = u
                           /\ d[u].at # "append" => d[u].chunk = <<>>
    <3> SUFFICES ASSUME NEW u \in Callers
                 PROVE  /\ d[u].at \in RoundTrip => h = u
                        /\ d[u].at # "append" => d[u].chunk = <<>>
      OBVIOUS
    <3>1. CASE u = t
      BY <1>1, <3>1 DEF BusyAt
    <3>2. CASE u # t
      BY <1>1, <3>2 DEF Threads
    <3> QED
      BY <3>1, <3>2
  <2> QED
    BY <1>1, <1>2, <2>1 DEF Threads
<1>4. CASE \E u \in Callers : c[u].at \in BusyAt
  <2>1. PICK u \in Callers : c[u].at \in BusyAt
    BY <1>4
  <2>2. d[u] = c[u]
    BY <1>1, <2>1
  <2>3. /\ \A v \in Callers : c[v].at \in BusyAt => v = u
        /\ \A v \in Callers : d[v].at \in BusyAt => v = u
    BY <1>2, <2>1 DEF Threads
  <2>4. Current(c) = c[u] /\ Current(d) = d[u]
    BY <2>1, <2>2, <2>3, CurrentIs
  <2> QED
    BY <1>3, <2>2, <2>4
<1>5. CASE ~(\E u \in Callers : c[u].at \in BusyAt)
  BY <1>2, <1>3, <1>5 DEF Current
<1> QED
  BY <1>4, <1>5

LEMMA MeTyped ==
    ASSUME ClientTypes
    PROVE  /\ Me \in CallerStates /\ Me.at \in CallerSteps /\ Me.cmd \in Nat /\ Me.of \in Nat
           /\ Me.chunk \in Seq(Tokens) /\ Coming \in Seq(Tokens) /\ Sent \in Seq(Tokens)
           /\ Me.at # "append" => Me.chunk = <<>> /\ Coming = stream /\ Sent = buffered \o stream
<1>1. Me \in CallerStates /\ (Me.at # "append" => Me.chunk = <<>>)
  <2>1. CASE \E t \in Callers : caller[t].at \in BusyAt
    <3>1. PICK t \in Callers : Me = caller[t]
      <4> DEFINE u == CHOOSE t \in Callers : caller[t].at \in BusyAt
      <4>1. Me = caller[u] /\ u \in Callers
        BY <2>1 DEF Me, Current
      <4> QED
        BY <4>1
    <3> QED
      BY <3>1 DEF ClientTypes, Threads
  <2>2. CASE ~(\E t \in Callers : caller[t].at \in BusyAt)
    BY <2>2, IdleState DEF Me, Current
  <2> QED
    BY <2>1, <2>2
<1>2. Me.at \in CallerSteps /\ Me.cmd \in Nat /\ Me.of \in Nat /\ Me.chunk \in Seq(Tokens)
  BY <1>1 DEF CallerStates
<1>3. stream \in Seq(Tokens) /\ buffered \in Seq(Tokens)
  BY DEF ClientTypes
<1>4. Coming \in Seq(Tokens) /\ Sent \in Seq(Tokens)
  BY <1>2, <1>3 DEF Coming, Sent
<1>5. <<>> \o stream = stream
  BY <1>3
<1> QED
  BY <1>1, <1>2, <1>4, <1>5 DEF Coming, Sent

\* What reads is the thread that takes a step of a read.
LEMMA Mine ==
    ASSUME ClientTypes, NEW t \in Callers, caller[t].at \in BusyAt
    PROVE  /\ Me = caller[t] /\ \A u \in Callers \ {t} : caller[u].at \notin BusyAt
           /\ caller[t] \in CallerStates
<1>1. \A u \in Callers : caller[u].at \in BusyAt => u = t
  BY DEF ClientTypes, Threads
<1> QED
  BY <1>1, CurrentIs DEF Me, ClientTypes, Threads

\* It goes on to another step, with nothing received but not added.
LEMMA Goes ==
    ASSUME ClientTypes, NEW t \in Callers, caller[t].at \in BusyAt, caller[t].at # "append",
           NEW at \in CallerSteps, at # "append", GoTo(t, at), sending' = sending,
           at \in RoundTrip => caller[t].at \in RoundTrip
    PROVE  /\ Threads(caller', sending') /\ Me'.chunk = <<>>
           /\ at \in BusyAt => Me'.at = at /\ Me'.cmd = Me.cmd /\ Me'.of = Me.of
           /\ at \notin BusyAt => Me' = Idle
<1> DEFINE x == [caller[t] EXCEPT !.at = at]
<1>1. Me = caller[t] /\ \A u \in Callers \ {t} : caller[u].at \notin BusyAt
  BY Mine
<1>2. caller[t] \in CallerStates /\ caller[t].chunk = <<>> /\ (at \in RoundTrip => sending' = t)
  BY DEF ClientTypes, Threads
<1>3. x \in CallerStates /\ x.at = at /\ x.chunk = <<>> /\ x.cmd = Me.cmd /\ x.of = Me.of
  BY <1>1, <1>2 DEF CallerStates
<1>4. /\ caller' \in [Callers -> CallerStates] /\ caller'[t] = x
      /\ \A u \in Callers \ {t} : caller'[u] = caller[u]
  BY <1>3 DEF GoTo, ClientTypes, Threads
<1> HIDE DEF x
<1>5. Threads(caller', sending') /\ Me' = IF at \in BusyAt THEN x ELSE Idle
  <2>1. Threads(caller, sending) /\ (x.at \in RoundTrip => sending' = t) /\ (x.at # "append" => x.chunk = <<>>)
    BY <1>2, <1>3 DEF ClientTypes
  <2>2. Threads(caller', sending') /\ Current(caller') = IF x.at \in BusyAt THEN x ELSE Idle
    BY <1>1, <1>3, <1>4, <2>1, Turn
  <2> QED
    BY <1>3, <2>2 DEF Me
<1> QED
  BY <1>3, <1>5, IdleState

LEMMA WhereItBegins ==
    ASSUME NEW w, NEW m, NEW n, NEW a, Fits(w, m, a), m.at \in Between, n.at \in Between
    PROVE  Fits(w, n, a)
<1>1. n.at \notin Skips /\ n.at # "body" /\ n.at # "garbled"
  BY DEF Between, Skips
<1>2. w = <<>> \/ w[1].what \in Starts
  BY DEF Fits
<1> QED
  BY <1>1, <1>2 DEF Fits, Skips

\* Nothing received or on the way has changed, nor what is expected of it.
LEMMA Elsewhere ==
    ASSUME NEW w, NEW m, NEW n, NEW in, NEW a, NEW b, OnTheWay(w, m, in, a, b),
           n.cmd = m.cmd, n.of = m.of, m.at \in Between, n.at \in Between,
           m.at \in Awaiting <=> n.at \in Awaiting
    PROVE  OnTheWay(w, n, in, a, b)
<1>1. Answers(w, n, in)
  BY AnswersMoved DEF OnTheWay
<1>2. Fits(w, n, a)
  BY WhereItBegins DEF OnTheWay
<1> QED
  BY <1>1, <1>2 DEF OnTheWay

\* Nor has it between two reads, whoever did the one and does the other.
LEMMA NobodyWaits ==
    ASSUME NEW w, NEW m, NEW n, NEW in, NEW a, NEW b, OnTheWay(w, m, in, a, b),
           m.at \in Between, n.at \in Between, m.at \notin Awaiting, n.at \notin Awaiting
    PROVE  OnTheWay(w, n, in, a, b)
<1>1. Answers(w, n, in)
  BY DEF OnTheWay, Answers
<1>2. Fits(w, n, a)
  BY WhereItBegins DEF OnTheWay
<1> QED
  BY <1>1, <1>2 DEF OnTheWay

LEMMA StillIntact ==
    ASSUME NEW a, Intact(a), Sent' = Sent, UNCHANGED <<inbox, broadcasts, yielded, skipped>>,
           OnTheWay(Sent, Me', inbox, a, broadcasts), Me.at \notin Skips, Me'.at \notin Skips
    PROVE  Intact(a)'
BY DEF Intact, Consumed

LEMMA ClientInit0 == ClientInit => ClientInv
<1> SUFFICES ASSUME ClientInit PROVE StreamInv
  BY DEF ClientInv
<1>1. Threads(caller, sending) /\ Me = Idle
  <2>1. caller \in [Callers -> CallerStates] /\ \A t \in Callers : caller[t] = Idle
    BY IdleState DEF ClientInit
  <2>2. \A t \in Callers : caller[t].at \notin BusyAt /\ caller[t].at \notin RoundTrip
    BY <2>1, IdleState DEF BusyAt
  <2> QED
    BY <2>1, <2>2, IdleState DEF Me, Current, Threads
<1>2. ClientTypes /\ Sent \in Seq(Tokens) /\ Len(Sent) = 0 /\ Sent = <<>>
  BY <1>1, IdleState DEF ClientInit, ClientTypes, Sent, Coming
<1>3. Grammar(Sent)
  BY <1>2 DEF Grammar
<1>4. Numbered(Sent, 0, broadcasts)
  BY <1>2 DEF Numbered, ClientInit
<1>5. Answers(Sent, Me, inbox)
  BY <1>2 DEF Answers, ClientInit
<1>6. Fits(Sent, Me, 0)
  BY <1>1, <1>2, IdleState DEF Fits
<1>7. Consumed(Me, 0, yielded, skipped)
  BY <1>1, IdleState DEF ClientInit, Consumed, Range
<1>8. Intact(0)
  BY <1>3, <1>4, <1>5, <1>6, <1>7 DEF Intact, OnTheWay, ClientInit
<1> QED
  BY <1>1, <1>2, <1>8, IdleState DEF StreamInv, ClientInit, Ordered

LEMMA NextInterval ==
    ASSUME NEW a \in Nat PROVE 1..(a + 1) = 1..a \cup {a + 1} /\ 1..(a + 1 - 1) = 1..a
OBVIOUS

LEMMA Skipped ==
    ASSUME NEW y \in Seq(Nat), NEW s, NEW t, NEW a \in Nat, NEW m, NEW n, Consumed(m, a, y, s),
           m.at \notin Skips, n.at \notin Skips, t = s \cup {a + 1}
    PROVE  Consumed(n, a + 1, y, t)
<1>1. \A i \in DOMAIN y : y[i] <= a + 1
  BY DEF Consumed
<1>2. Range(y) \cup t = 1..(a + 1)
  BY NextInterval DEF Consumed
<1> QED
  BY <1>1, <1>2 DEF Consumed

LEMMA SkipBegun ==
    ASSUME NEW y \in Seq(Nat), NEW s, NEW a \in Nat, NEW m, NEW n, Consumed(m, a, y, s),
           m.at \notin Skips, n.at \in Skips
    PROVE  Consumed(n, a + 1, y, s)
<1>1. \A i \in DOMAIN y : y[i] <= a + 1
  BY DEF Consumed
<1>2. Range(y) \cup s = 1..(a + 1 - 1)
  BY NextInterval DEF Consumed
<1>3. a + 1 # 0
  OBVIOUS
<1> QED
  BY <1>1, <1>2, <1>3 DEF Consumed

LEMMA SkipEnded ==
    ASSUME NEW y \in Seq(Nat), NEW s, NEW t, NEW a \in Nat, NEW m, NEW n, Consumed(m, a, y, s),
           m.at \in Skips, n.at \notin Skips, t = s \cup {a}
    PROVE  Consumed(n, a, y, t)
<1>1. a # 0 /\ a - 1 \in Nat /\ (a - 1) + 1 = a
  BY DEF Consumed
<1>2. 1..a = 1..(a - 1) \cup {a}
  BY <1>1, NextInterval
<1>3. Range(y) \cup t = 1..a
  BY <1>2 DEF Consumed
<1> QED
  BY <1>3 DEF Consumed

LEMMA Yielded ==
    ASSUME NEW y \in Seq(Nat), NEW s, NEW a \in Nat, NEW m, NEW n, Consumed(m, a, y, s), Ordered(y),
           m.at \notin Skips, n.at \notin Skips, NEW z, z = Append(y, a + 1)
    PROVE  z \in Seq(Nat) /\ Ordered(z) /\ Consumed(n, a + 1, z, s)
<1> DEFINE l == Len(y)
<1>1. /\ z \in Seq(Nat) /\ l \in Nat /\ Len(z) = l + 1 /\ z[l + 1] = a + 1
      /\ \A i \in 1..l : z[i] = y[i]
  OBVIOUS
<1>2. DOMAIN y = 1..l /\ DOMAIN z = 1..(l + 1)
  BY <1>1
<1> HIDE DEF l
<1>3. 1..(l + 1) = 1..l \cup {l + 1}
  BY <1>1, NextInterval
<1>4. \A i \in 1..l : y[i] <= a
  BY <1>2 DEF Consumed
<1>5. \A i \in DOMAIN z : z[i] <= a + 1
  BY <1>1, <1>2, <1>3, <1>4
<1>6. Ordered(z)
  <2> SUFFICES ASSUME NEW i \in 1..(l + 1), NEW j \in 1..(l + 1), i < j PROVE z[i] < z[j]
    BY <1>2 DEF Ordered
  <2>1. i \in 1..l
    BY <1>1
  <2>2. CASE j = l + 1
    BY <1>1, <1>4, <2>1, <2>2
  <2>3. CASE j \in 1..l
    BY <1>1, <1>2, <2>1, <2>3 DEF Ordered
  <2> QED
    BY <1>3, <2>2, <2>3
<1>7. Range(z) = Range(y) \cup {a + 1}
  BY <1>1, <1>2, <1>3 DEF Range
<1>8. Range(z) \cup s = 1..(a + 1)
  BY <1>7, NextInterval DEF Consumed
<1> QED
  BY <1>1, <1>5, <1>6, <1>8 DEF Consumed

\* The reader finds a frame where it begins to look, or nothing.
LEMMA ReaderAtFrame ==
    ASSUME ClientTypes, NEW a \in Nat, NEW b,
           buffered = <<>> \/ OnTheWay(Sent, Me, inbox, a, b), Me.at = "extract"
    PROVE  FromPrefix = buffered /\ (buffered # <<>> => IsFrame(Sent, 1))
<1>0. buffered \in Seq(Tokens) /\ Coming \in Seq(Tokens)
  BY MeTyped DEF ClientTypes
<1>1. CASE buffered = <<>>
  BY <1>1 DEF FromPrefix
<1>2. CASE buffered # <<>>
  <2>1. Sent # <<>> /\ Sent[1] = buffered[1] /\ Sent \in Seq(Tokens)
    BY <1>0, <1>2, FirstTaken DEF Sent
  <2>2. Sent[1].what \in Starts
    BY <1>2, <2>1 DEF OnTheWay, Fits, Between
  <2>3. ~IsSize(Sent, 1)
    <3>1. 1 \in 1..Len(Sent)
      BY <2>1
    <3>2. Me.at \notin Awaiting
      BY DEF Awaiting
    <3> QED
      BY <1>2, <3>1, <3>2 DEF OnTheWay, Answers
  <2>4. IsFrame(Sent, 1)
    BY <2>2, <2>3 DEF IsFrame, IsSize, Starts
  <2> DEFINE there == {i \in DOMAIN buffered : buffered[i].what \in FramePrefixes}
             first == CHOOSE i \in there : \A j \in there : i <= j
  <2>5. 1 \in there /\ \A j \in there : 1 <= j /\ j \in Nat
    BY <1>0, <1>2, <2>1, <2>4 DEF IsFrame
  <2>6. there # {} /\ FromPrefix = SubSeq(buffered, first, Len(buffered))
    BY <2>5 DEF FromPrefix
  <2> HIDE DEF there
  <2>7. first = 1
    <3>1. \E i \in there : \A j \in there : i <= j
      BY <2>5
    <3>2. first \in there /\ \A j \in there : first <= j
      BY <3>1
    <3>3. first <= 1 /\ 1 <= first /\ first \in Nat
      BY <2>5, <3>2
    <3> QED
      BY <3>3
  <2> HIDE DEF first
  <2>8. SubSeq(buffered, 1, Len(buffered)) = buffered
    BY <1>0, SubSeqFull
  <2> QED
    BY <2>4, <2>6, <2>7, <2>8
<1> QED
  BY <1>1, <1>2

LEMMA Basis ==
    ASSUME ClientInv, Steady
    PROVE  /\ ClientTypes /\ (\A r \in replies : r[1] = r[2]) /\ Ordered(yielded) /\ Me.at # "garbled"
           /\ connection = "closed" => buffered = <<>> /\ Me.at # "append"
           /\ connection # "closed" => \E a \in Nat : Intact(a)
           /\ Threads(caller, sending) /\ caller \in [Callers -> CallerStates]
           /\ buffered \in Seq(Tokens) /\ stream \in Seq(Tokens)
           /\ broadcasts \in Nat /\ issued \in Nat /\ yielded \in Seq(Nat)
BY DEF ClientInv, StreamInv, ClientTypes, Threads

\* The agent appends to what is on the way.
LEMMA SendsOn ==
    ASSUME ClientTypes, NEW s \in Seq(Tokens), stream' = stream \o s, caller' = caller, buffered' = buffered
    PROVE  stream' \in Seq(Tokens) /\ Me' = Me /\ Longer(Sent, Sent', s)
<1>1. Me' = Me
  BY DEF Me
<1>2. buffered \in Seq(Tokens) /\ stream \in Seq(Tokens) /\ Me.chunk \in Seq(Tokens) /\ Coming \in Seq(Tokens)
  BY MeTyped DEF ClientTypes
<1>3. Coming' = Coming \o s
  BY <1>1, <1>2, Associated DEF Coming
<1>4. Longer(buffered \o Coming, buffered \o (Coming \o s), s)
  BY <1>2, Sends
<1>5. Longer(Sent, Sent', s)
  BY <1>3, <1>4 DEF Sent
<1> QED
  BY <1>1, <1>2, <1>5

LEMMA AgentStep ==
    ASSUME ClientInv, Steady', Broadcast \/ Respond \/ AgentGone \/ UNCHANGED clientVars
    PROVE  StreamInv'
<1> DEFINE b == broadcasts
<1>0. Steady
  BY DEF Steady, Broadcast, Respond, AgentGone, clientVars, outcomes
<1>1. CASE Broadcast
  <2> DEFINE p == Frames[b + 1]
             s == <<Token(p, b + 1), Token("length", b + 1), Token("payload", b + 1)>>
  <2>1. /\ connection = "open" /\ broadcasts' = b + 1 /\ b < Len(Frames) /\ stream' = stream \o s
        /\ UNCHANGED <<inbox, buffered, connection, sending, caller, issued, replies, yielded, skipped>>
    BY <1>1 DEF Broadcast, outcomes
  <2>2. b \in Nat /\ p \in FramePrefixes
    BY <1>0, <2>1, Basis, ClientAssumption DEF FramePrefixes
  <2> HIDE DEF p
  <2>3. s \in Seq(Tokens)
    BY <2>2 DEF Tokens, Token
  <2> HIDE DEF s
  <2>4. stream' \in Seq(Tokens) /\ Me' = Me /\ Longer(Sent, Sent', s)
    BY <1>0, <2>1, <2>3, Basis, SendsOn
  <2>5. PICK a \in Nat : Intact(a)
    BY <1>0, <2>1, Basis
  <2>6. OnTheWay(Sent', Me, inbox, a, b + 1)
    BY <2>2, <2>4, <2>5, FrameSent DEF Intact, s
  <2>7. Intact(a)'
    BY <2>1, <2>2, <2>4, <2>5, <2>6 DEF Intact
  <2>8. ClientTypes'
    BY <1>0, <2>1, <2>2, <2>4, Basis DEF ClientTypes
  <2> QED
    BY <1>0, <2>1, <2>4, <2>7, <2>8, Basis DEF StreamInv
<1>2. CASE Respond
  <2> DEFINE s == <<Token("size", Head(inbox)), Token("body", Head(inbox))>>
  <2>1. /\ connection = "open" /\ inbox # <<>> /\ stream' = stream \o s /\ inbox' = Tail(inbox)
        /\ UNCHANGED <<broadcasts, buffered, connection, sending, caller, issued, replies, yielded, skipped>>
    BY <1>2 DEF Respond, outcomes
  <2>2. PICK a \in Nat : Intact(a)
    BY <1>0, <2>1, Basis
  <2>3. inbox = <<Me.cmd>> /\ Head(inbox) \in Nat /\ inbox' = <<>>
    <3>1. inbox = <<Me.cmd>>
      BY <2>1, <2>2 DEF Intact, OnTheWay, Answers
    <3>2. Me.cmd \in Nat
      BY <1>0, Basis, MeTyped
    <3> QED
      BY <2>1, <3>1, <3>2
  <2>4. s \in Seq(Tokens)
    BY <2>3 DEF Tokens, Token
  <2> HIDE DEF s
  <2>5. stream' \in Seq(Tokens) /\ Me' = Me /\ Longer(Sent, Sent', s)
    BY <1>0, <2>1, <2>4, Basis, SendsOn
  <2>6. OnTheWay(Sent', Me, <<>>, a, b)
    <3>1. OnTheWay(Sent, Me, inbox, a, b) /\ b \in Nat
      BY <1>0, <2>2, Basis DEF Intact
    <3> QED
      BY <2>1, <2>5, <3>1, ResponseSent DEF s
  <2>7. Intact(a)'
    BY <2>1, <2>2, <2>3, <2>5, <2>6 DEF Intact
  <2>8. ClientTypes'
    BY <1>0, <2>1, <2>5, Basis DEF ClientTypes
  <2> QED
    BY <1>0, <2>1, <2>5, <2>7, <2>8, Basis DEF StreamInv
<1>3. CASE AgentGone \/ UNCHANGED clientVars
  <2>1. /\ connection # "closed" <=> connection' # "closed"
        /\ UNCHANGED <<stream, inbox, broadcasts, buffered, sending, caller, issued, replies, yielded, skipped>>
    BY <1>3 DEF AgentGone, agentSide, outcomes, clientVars
  <2>2. Me' = Me
    BY <2>1 DEF Me
  <2>3. Sent' = Sent
    BY <2>1, <2>2 DEF Sent, Coming
  <2>4. \A a \in Nat : Intact(a) => Intact(a)'
    BY <2>1, <2>2, <2>3 DEF Intact
  <2>5. ClientTypes'
    BY <1>0, <2>1, Basis DEF ClientTypes
  <2> QED
    BY <1>0, <2>1, <2>2, <2>4, <2>5, Basis DEF StreamInv
<1> QED
  BY <1>1, <1>2, <1>3

LEMMA DisconnectStep ==
    ASSUME ClientInv, Steady', DisconnectClient
    PROVE  StreamInv'
<1>1. /\ Steady /\ connection' = "closed" /\ buffered' = <<>>
      /\ \A t \in Callers : caller[t].at \notin InRead
      /\ UNCHANGED <<stream, inbox, broadcasts, sending, caller, issued, replies, yielded, skipped>>
  BY DEF Steady, DisconnectClient, agentSide, outcomes
<1>2. Me' = Me
  BY <1>1 DEF Me
<1>3. Me.at # "append"
  <2>1. CASE \E t \in Callers : caller[t].at \in BusyAt
    <3>1. PICK t \in Callers : caller[t].at \in BusyAt
      BY <2>1
    <3>2. Me = caller[t]
      BY <1>1, <3>1, Basis, Mine
    <3> QED
      BY <1>1, <3>2 DEF InRead
  <2>2. CASE ~(\E t \in Callers : caller[t].at \in BusyAt)
    BY <2>2, IdleState DEF Me, Current
  <2> QED
    BY <2>1, <2>2
<1>4. ClientTypes'
  BY <1>1, Basis DEF ClientTypes
<1> QED
  BY <1>1, <1>2, <1>3, <1>4, Basis DEF StreamInv

\* A command is issued while no other thread reads.
LEMMA SendStep ==
    ASSUME ClientInv, Steady', NEW t \in Callers, SendCommand(t)
    PROVE  StreamInv'
<1> DEFINE b == broadcasts
           x == [Idle EXCEPT !.at = "drain", !.cmd = issued']
<1>1. /\ Steady /\ connection = "open" /\ caller[t].at = "idle" /\ sending = NoCaller /\ sending' = t
      /\ issued' = issued + 1 /\ caller' = [caller EXCEPT ![t] = x] /\ inbox' = Append(inbox, issued')
      /\ ~Others(t, InRead)
      /\ UNCHANGED <<stream, broadcasts, buffered, connection, replies, yielded, skipped>>
  BY DEF SendCommand, Steady, outcomes
<1>2. x \in CallerStates /\ x.at = "drain" /\ x.cmd = issued' /\ x.chunk = <<>>
  <2>1. issued' \in Nat /\ "drain" \in CallerSteps
    BY <1>1, Basis DEF CallerSteps, BusyAt, RoundTrip
  <2> QED
    BY <2>1, IdleState DEF CallerStates, Idle
<1> HIDE DEF x
<1>3. \A u \in Callers \ {t} : caller[u].at \notin BusyAt
  <2> SUFFICES ASSUME NEW u \in Callers \ {t} PROVE caller[u].at \notin BusyAt
    OBVIOUS
  <2>1. caller[u].at \notin InRead
    BY <1>1 DEF Others
  <2>2. caller[u].at \in RoundTrip => sending = u
    BY <1>1, Basis DEF Threads
  <2>3. u # NoCaller
    BY ClientAssumption DEF NoCaller
  <2> QED
    BY <1>1, <2>1, <2>2, <2>3 DEF BusyAt
<1>4. Threads(caller', sending') /\ Me = Idle /\ Me' = x
  <2>1. /\ Threads(caller, sending) /\ caller' \in [Callers -> CallerStates] /\ caller'[t] = x
        /\ \A u \in Callers \ {t} : caller'[u] = caller[u]
    BY <1>1, <1>2, Basis
  <2>2. x.at \in BusyAt /\ caller[t].at \notin BusyAt
    BY <1>1, <1>2, IdleState DEF BusyAt, RoundTrip
  <2>4. (x.at \in RoundTrip => sending' = t) /\ (x.at # "append" => x.chunk = <<>>)
    BY <1>1, <1>2
  <2>5. /\ Threads(caller', sending')
        /\ Current(caller) = IF caller[t].at \in BusyAt THEN caller[t] ELSE Idle
        /\ Current(caller') = IF x.at \in BusyAt THEN x ELSE Idle
    BY <1>2, <1>3, <2>1, <2>4, Turn
  <2>3. /\ Threads(caller', sending') /\ Current(caller) = Idle /\ Current(caller') = x
    BY <2>2, <2>5
  <2> QED
    BY <2>3 DEF Me
<1>5. ClientTypes'
  BY <1>1, <1>4, Basis DEF ClientTypes
<1>6. Sent' = Sent
  BY <1>1, <1>2, <1>4, IdleState DEF Sent, Coming
<1>7. PICK a \in Nat : Intact(a)
  BY <1>1, Basis
<1>8. Grammar(Sent) /\ Numbered(Sent, a, b) /\ Answers(Sent, Me, inbox) /\ Fits(Sent, Me, a)
  BY <1>7 DEF Intact, OnTheWay
<1>9. Me.at \in Between /\ Me.at \notin Awaiting /\ Me.at \notin Skips
  BY <1>4, IdleState
<1>10. inbox = <<>> /\ \A i \in 1..Len(Sent) : ~IsSize(Sent, i)
  BY <1>8, <1>9 DEF Answers
<1>11. Answers(Sent', Me', inbox')
  <2>1. inbox' = <<Me'.cmd>>
    BY <1>1, <1>2, <1>4, <1>10
  <2>2. Me'.at \in Awaiting
    BY <1>2, <1>4 DEF Awaiting
  <2> QED
    BY <1>6, <1>10, <2>1, <2>2 DEF Answers
<1>12. Me'.at \in Between /\ Me'.at \notin Skips /\ Me'.at # "garbled" /\ Me'.at # "append"
  BY <1>2, <1>4 DEF Between, Skips
<1>13. Fits(Sent', Me', a)
  BY <1>6, <1>8, <1>9, <1>12, WhereItBegins
<1>14. Intact(a)'
  BY <1>1, <1>6, <1>7, <1>8, <1>9, <1>11, <1>12, <1>13 DEF Intact, OnTheWay, Consumed
<1> QED
  BY <1>1, <1>5, <1>12, <1>14, Basis DEF StreamInv

\* The frames at the front are thrown away before the response is read.
LEMMA DrainStep ==
    ASSUME ClientInv, Steady', NEW t \in Callers, Drain(t)
    PROVE  StreamInv'
<1> DEFINE b == broadcasts
<1>1. /\ Steady /\ caller[t].at = "drain"
      /\ UNCHANGED <<stream, inbox, broadcasts, connection, sending, issued, replies, yielded>>
  BY DEF Drain, Steady, agentSide
<1>2. caller[t].at \in BusyAt /\ Me = caller[t]
  BY <1>1, Basis, Mine DEF BusyAt, RoundTrip
<1>3. Me.at = "drain" /\ Me.at # "append" /\ Me.at \in Between /\ Me.at \notin Skips /\ b \in Nat
  BY <1>1, <1>2, Basis DEF Between, Skips
<1>4. Coming = stream /\ Sent = buffered \o stream /\ buffered \in Seq(Tokens) /\ stream \in Seq(Tokens)
  BY <1>1, <1>3, Basis, MeTyped
<1>5. CASE WholeFrame(buffered)
  <2>1. /\ buffered' = SubSeq(buffered, 4, Len(buffered)) /\ skipped' = skipped \cup {buffered[1].of}
        /\ caller' = caller /\ Len(buffered) >= 3 /\ buffered[1].what \in FramePrefixes
    BY <1>5 DEF Drain, WholeFrame
  <2>2. connection # "closed"
    <3>1. ASSUME buffered = <<>> PROVE FALSE
      BY <2>1, <3>1
    <3> QED
      BY <1>1, <3>1, Basis
  <2>3. PICK a \in Nat : Intact(a)
    BY <1>1, <2>2, Basis
  <2>4. Me' = Me /\ Sent' = buffered' \o stream
    <3>1. Me' = Me
      BY <2>1 DEF Me
    <3>2. Coming' = Coming
      BY <1>1, <3>1 DEF Coming
    <3> QED
      BY <1>4, <3>1, <3>2 DEF Sent
  <2>5. /\ Without(Sent, Sent', 3) /\ Sent # <<>> /\ Sent[1] = buffered[1] /\ buffered' \in Seq(Tokens)
    BY <1>4, <2>1, <2>4, ThreeTaken
  <2>6. OnTheWay(Sent, Me, inbox, a, b) /\ IsFrame(Sent, 1) /\ Consumed(Me, a, yielded, skipped)
    BY <2>1, <2>3, <2>5 DEF Intact, IsFrame
  <2>7. buffered[1].of = a + 1 /\ a + 1 \in 0..b /\ OnTheWay(Sent', Me, inbox, a + 1, b)
    BY <1>3, <2>5, <2>6, FrameTaken
  <2>8. Consumed(Me, a + 1, yielded, skipped')
    <3>1. yielded \in Seq(Nat) /\ skipped' = skipped \cup {a + 1}
      BY <1>1, <2>1, <2>7, Basis
    <3> QED
      BY <1>3, <2>6, <3>1, Skipped
  <2>9. Intact(a + 1)' /\ a + 1 \in Nat
    BY <1>1, <2>4, <2>7, <2>8 DEF Intact
  <2>10. ClientTypes'
    BY <1>1, <2>1, <2>5, Basis DEF ClientTypes
  <2> QED
    BY <1>1, <2>2, <2>4, <2>9, <2>10, Basis DEF StreamInv
<1>6. CASE ~WholeFrame(buffered)
  <2>1. GoTo(t, "head") /\ UNCHANGED <<buffered, skipped>>
    BY <1>6 DEF Drain
  <2>2. /\ "head" \in CallerSteps /\ "head" \in BusyAt /\ caller[t].at \in RoundTrip
        /\ "head" \in Between /\ "head" \notin Skips /\ "head" \in Awaiting /\ "drain" \in Awaiting
    BY <1>1 DEF CallerSteps, BusyAt, RoundTrip, Between, Skips, Awaiting
  <2>3. /\ Threads(caller', sending') /\ Me'.at = "head" /\ Me'.cmd = Me.cmd /\ Me'.of = Me.of
        /\ Me'.chunk = <<>>
    BY <1>1, <1>2, <2>1, <2>2, Basis, Goes
  <2>4. ClientTypes'
    BY <1>1, <2>1, <2>3, Basis DEF ClientTypes
  <2>5. Sent' = Sent
    <3>1. Coming' = stream'
      BY <2>3, <2>4, MeTyped, <1>1, <1>4 DEF Coming
    <3> QED
      BY <1>1, <1>4, <2>1, <3>1 DEF Sent
  <2>6. ASSUME NEW a \in Nat, Intact(a) PROVE Intact(a)'
    <3>1. OnTheWay(Sent, Me', inbox, a, b)
      BY <1>3, <2>2, <2>3, <2>6, Elsewhere DEF Intact
    <3> QED
      BY <1>1, <1>3, <2>1, <2>2, <2>3, <2>5, <2>6, <3>1, StillIntact
  <2> QED
    BY <1>1, <2>1, <2>3, <2>4, <2>6, Basis DEF StreamInv
<1> QED
  BY <1>5, <1>6

\* A token is taken off the front, in a round trip.
LEMMA TokenTaken ==
    ASSUME ClientInv, Steady, NEW t \in Callers, caller[t].at \in RoundTrip \ {"drain"},
           buffered # <<>>, buffered' = Tail(buffered), stream' = stream
    PROVE  /\ Me = caller[t] /\ caller[t].at \in BusyAt /\ Me.at # "append" /\ connection # "closed"
           /\ Sent = buffered \o stream /\ Sent # <<>>
           /\ Without(Sent, buffered' \o stream', 1) /\ Sent[1] = Head(buffered)
           /\ Head(buffered) \in Tokens /\ buffered' \in Seq(Tokens)
<1>1. caller[t].at \in BusyAt /\ caller[t].at # "append" /\ Me = caller[t]
  <2>1. caller[t].at \in BusyAt /\ caller[t].at # "append"
    BY DEF BusyAt, RoundTrip
  <2> QED
    BY <2>1, Basis, Mine
<1>2. Sent = buffered \o stream /\ buffered \in Seq(Tokens) /\ stream \in Seq(Tokens)
  BY <1>1, Basis, MeTyped
<1>3. /\ Without(buffered \o stream, Tail(buffered) \o stream, 1) /\ buffered \o stream # <<>>
      /\ (buffered \o stream)[1] = Head(buffered)
      /\ Head(buffered) \in Tokens /\ Tail(buffered) \in Seq(Tokens)
  BY <1>2, FirstTaken
<1> QED
  BY <1>1, <1>2, <1>3, Basis

LEMMA HeadStep ==
    ASSUME ClientInv, Steady', NEW t \in Callers, ReadHead(t)
    PROVE  StreamInv'
<1> DEFINE b == broadcasts
           x == [caller[t] EXCEPT !.at = AfterHead(Head(buffered)), !.of = Head(buffered).of]
<1>1. /\ Steady /\ caller[t].at = "head" /\ buffered # <<>> /\ buffered' = Tail(buffered)
      /\ caller' = [caller EXCEPT ![t] = x]
      /\ UNCHANGED <<stream, inbox, broadcasts, connection, sending, issued, replies, yielded, skipped>>
  BY DEF ReadHead, Steady, agentSide, outcomes
<1>2. caller[t].at \in RoundTrip \ {"drain"}
  BY <1>1 DEF RoundTrip
<1>3. /\ Me = caller[t] /\ caller[t].at \in BusyAt /\ Me.at = "head" /\ connection # "closed"
      /\ Sent = buffered \o stream /\ Sent # <<>>
      /\ Without(Sent, buffered' \o stream', 1) /\ Sent[1] = Head(buffered)
      /\ Head(buffered) \in Tokens /\ buffered' \in Seq(Tokens)
  BY <1>1, <1>2, TokenTaken
<1>4. AfterHead(Head(buffered)) \in RoundTrip /\ AfterHead(Head(buffered)) # "append"
  BY DEF AfterHead, RoundTrip
<1>5. /\ x \in CallerStates /\ x.at = AfterHead(Sent[1]) /\ x.cmd = Me.cmd /\ x.of = Sent[1].of
      /\ x.chunk = <<>> /\ x.at \in RoundTrip /\ x.at \in BusyAt /\ x.at # "append"
  <2>1. caller[t] \in CallerStates /\ caller[t].chunk = <<>>
    BY <1>1, <1>3, Basis DEF Threads
  <2>2. AfterHead(Head(buffered)) \in CallerSteps
    BY <1>4 DEF CallerSteps, BusyAt
  <2>3. Head(buffered).of \in Nat
    BY <1>3 DEF Tokens
  <2>4. x \in CallerStates /\ x.at = AfterHead(Head(buffered)) /\ x.of = Head(buffered).of
        /\ x.cmd = caller[t].cmd /\ x.chunk = <<>>
    BY <2>1, <2>2, <2>3 DEF CallerStates
  <2> QED
    BY <1>3, <1>4, <2>4 DEF BusyAt
<1> HIDE DEF x
<1>6. Threads(caller', sending') /\ Me' = x
  <2>1. /\ Threads(caller, sending) /\ caller' \in [Callers -> CallerStates] /\ caller'[t] = x
        /\ \A u \in Callers \ {t} : caller'[u] = caller[u]
    BY <1>1, <1>5, Basis
  <2>2. \A u \in Callers \ {t} : caller[u].at \notin BusyAt
    BY <1>1, <1>3, Basis, Mine
  <2>3. x.at \in RoundTrip => sending' = t
    BY <1>1, <1>2, Basis DEF Threads
  <2>4. /\ Threads(caller', sending') /\ Current(caller') = IF x.at \in BusyAt THEN x ELSE Idle
    BY <1>5, <2>1, <2>2, <2>3, Turn
  <2> QED
    BY <1>5, <2>4 DEF Me
<1>7. ClientTypes'
  BY <1>1, <1>3, <1>6, Basis DEF ClientTypes
<1>8. Sent' = buffered' \o stream'
  <2>1. Me'.chunk = <<>> /\ stream \in Seq(Tokens) /\ stream' = stream
    BY <1>1, <1>5, <1>6, Basis
  <2> QED
    BY <2>1 DEF Sent, Coming
<1>9. PICK a \in Nat : Intact(a)
  BY <1>1, <1>3, Basis
<1>10. \/ Me'.at = "skip length" /\ a + 1 \in 0..b /\ OnTheWay(Sent', Me', inbox, a + 1, b)
       \/ Me'.at = "body" /\ OnTheWay(Sent', Me', inbox, a, b)
  <2>1. OnTheWay(Sent, Me, inbox, a, b) /\ b \in Nat
    BY <1>1, <1>9, Basis DEF Intact
  <2>2. Without(Sent, Sent', 1)
    BY <1>3, <1>8
  <2>3. Me'.at = AfterHead(Sent[1]) /\ Me'.cmd = Me.cmd /\ Me'.of = Sent[1].of
    BY <1>5, <1>6
  <2> QED
    BY <1>3, <2>1, <2>2, <2>3, HeadTaken
<1>11. Consumed(Me, a, yielded, skipped) /\ Me.at \notin Skips /\ yielded \in Seq(Nat)
  BY <1>1, <1>3, <1>9, Basis DEF Intact, Skips
<1>12. CASE Me'.at = "skip length" /\ a + 1 \in 0..b /\ OnTheWay(Sent', Me', inbox, a + 1, b)
  <2>1. Me'.at \in Skips /\ Me'.at # "garbled"
    BY <1>12 DEF Skips
  <2>2. Consumed(Me', a + 1, yielded, skipped)
    BY <1>11, <2>1, SkipBegun
  <2>3. a + 1 \in 0..b /\ OnTheWay(Sent', Me', inbox, a + 1, b)
    BY <1>12
  <2>4. Intact(a + 1)' /\ a + 1 \in Nat
    BY <1>1, <2>2, <2>3 DEF Intact
  <2> QED
    BY <1>1, <1>3, <1>7, <2>1, <2>4, Basis DEF StreamInv
<1>13. CASE Me'.at = "body" /\ OnTheWay(Sent', Me', inbox, a, b)
  <2>1. Me'.at \notin Skips /\ Me'.at # "garbled"
    BY <1>13 DEF Skips
  <2>2. Intact(a)'
    BY <1>1, <1>9, <1>11, <1>13, <2>1 DEF Intact, Consumed
  <2> QED
    BY <1>1, <1>3, <1>7, <2>1, <2>2, Basis DEF StreamInv
<1> QED
  BY <1>10, <1>12, <1>13

LEMMA SkipStep ==
    ASSUME ClientInv, Steady', NEW t \in Callers, SkipFrame(t)
    PROVE  StreamInv'
<1> DEFINE b == broadcasts
           to == IF caller[t].at = "skip length" THEN "skip payload" ELSE "drain"
<1>1. /\ Steady /\ caller[t].at \in Skips /\ buffered # <<>> /\ buffered' = Tail(buffered)
      /\ UNCHANGED <<stream, inbox, broadcasts, connection, sending, issued, replies, yielded>>
  BY DEF SkipFrame, Steady, agentSide, Skips
<1>2. caller[t].at \in RoundTrip \ {"drain"}
  BY <1>1 DEF RoundTrip, Skips
<1>3. /\ Me = caller[t] /\ caller[t].at \in BusyAt /\ Me.at # "append" /\ connection # "closed"
      /\ Sent = buffered \o stream /\ Sent # <<>>
      /\ Without(Sent, buffered' \o stream', 1) /\ buffered' \in Seq(Tokens)
  BY <1>1, <1>2, TokenTaken
<1>4. /\ GoTo(t, to) /\ to \in CallerSteps /\ to \in BusyAt /\ to \in RoundTrip /\ to # "append"
      /\ to # "garbled"
  BY DEF SkipFrame, CallerSteps, BusyAt, RoundTrip
<1>5. /\ caller[t].at = "skip length" => skipped' = skipped /\ to \in Skips /\ to = "skip payload"
      /\ caller[t].at = "skip payload" => /\ skipped' = skipped \cup {Me.of}
                                          /\ to \notin Skips /\ to = "drain"
  BY <1>3 DEF SkipFrame, Skips
<1> HIDE DEF to
<1>6. /\ Threads(caller', sending') /\ Me'.at = to /\ Me'.cmd = Me.cmd /\ Me'.of = Me.of /\ Me'.chunk = <<>>
  BY <1>1, <1>2, <1>3, <1>4, Basis, Goes
<1>7. ClientTypes'
  BY <1>1, <1>3, <1>6, Basis DEF ClientTypes
<1>8. Sent' = buffered' \o stream'
  BY <1>6, <1>1, Basis DEF Sent, Coming
<1>9. ReadsOn(Me, Me')
  BY <1>1, <1>3, <1>5, <1>6 DEF ReadsOn, Skips
<1>10. PICK a \in Nat : Intact(a)
  BY <1>1, <1>3, Basis
<1>11. /\ OnTheWay(Sent, Me, inbox, a, b) /\ b \in Nat /\ Consumed(Me, a, yielded, skipped) /\ a \in 0..b
       /\ yielded \in Seq(Nat)
  BY <1>1, <1>10, Basis DEF Intact
<1>12. OnTheWay(Sent', Me', inbox, a, b)
  BY <1>3, <1>8, <1>9, <1>11, RestTaken
<1>13. Consumed(Me', a, yielded, skipped')
  <2>1. CASE caller[t].at = "skip length"
    BY <1>1, <1>3, <1>5, <1>6, <1>11, <2>1 DEF Consumed
  <2>2. CASE caller[t].at = "skip payload"
    <3>1. Me.of = a
      BY <1>3, <1>11, <2>2 DEF OnTheWay, Fits
    <3> QED
      BY <1>1, <1>3, <1>5, <1>6, <1>11, <2>2, <3>1, SkipEnded
  <2> QED
    BY <1>1, <2>1, <2>2 DEF Skips
<1>14. Intact(a)'
  BY <1>1, <1>11, <1>12, <1>13 DEF Intact
<1> QED
  BY <1>1, <1>3, <1>4, <1>6, <1>7, <1>14, Basis DEF StreamInv


\* The body that is read is that of the response to the command that waits.
LEMMA BodyStep ==
    ASSUME ClientInv, Steady', NEW t \in Callers, ReadBody(t)
    PROVE  StreamInv'
<1> DEFINE b == broadcasts
           n == [Me EXCEPT !.at = "idle"]
<1>1. /\ Steady /\ caller[t].at = "body" /\ buffered # <<>> /\ buffered' = Tail(buffered)
      /\ sending' = NoCaller /\ caller' = [caller EXCEPT ![t] = Idle]
      /\ replies' = replies \cup {<<caller[t].cmd, Head(buffered).of>>}
      /\ UNCHANGED <<stream, inbox, broadcasts, connection, issued, yielded, skipped>>
  BY DEF ReadBody, RoundTripEnds, Steady, agentSide
<1>2. caller[t].at \in RoundTrip \ {"drain"}
  BY <1>1 DEF RoundTrip
<1>3. /\ Me = caller[t] /\ caller[t].at \in BusyAt /\ Me.at = "body" /\ connection # "closed"
      /\ Sent = buffered \o stream /\ Sent # <<>> /\ Sent[1] = Head(buffered)
      /\ Without(Sent, buffered' \o stream', 1) /\ buffered' \in Seq(Tokens)
  BY <1>1, <1>2, TokenTaken
<1>4. Threads(caller', sending') /\ Me' = Idle
  <2>1. /\ Threads(caller, sending) /\ caller' \in [Callers -> CallerStates] /\ caller'[t] = Idle
        /\ \A u \in Callers \ {t} : caller'[u] = caller[u]
    BY <1>1, Basis, IdleState
  <2>2. \A u \in Callers \ {t} : caller[u].at \notin BusyAt
    BY <1>1, <1>3, Basis, Mine
  <2>3. (Idle.at \in RoundTrip => sending' = t) /\ (Idle.at # "append" => Idle.chunk = <<>>)
    BY IdleState DEF BusyAt
  <2>4. /\ Threads(caller', sending')
        /\ Current(caller') = IF Idle.at \in BusyAt THEN Idle ELSE Idle
    BY <2>1, <2>2, <2>3, IdleState, Turn
  <2> QED
    BY <2>4 DEF Me
<1>5. ClientTypes'
  BY <1>1, <1>3, <1>4, Basis DEF ClientTypes
<1>6. Sent' = buffered' \o stream'
  BY <1>4, <1>1, Basis, IdleState DEF Sent, Coming
<1>7. PICK a \in Nat : Intact(a)
  BY <1>1, <1>3, Basis
<1>8. /\ OnTheWay(Sent, Me, inbox, a, b) /\ b \in Nat /\ Consumed(Me, a, yielded, skipped) /\ a \in 0..b
  BY <1>1, <1>7, Basis DEF Intact
<1>9. Head(buffered).of = Me.cmd
  <2>1. Sent[1] = Token("body", Me.cmd)
    BY <1>3, <1>8 DEF OnTheWay, Fits
  <2> QED
    BY <1>3, <2>1 DEF Token
<1>10. \A r \in replies' : r[1] = r[2]
  <2>1. \A r \in replies : r[1] = r[2]
    BY <1>1, Basis
  <2> QED
    BY <1>1, <1>3, <1>9, <2>1
<1>11. OnTheWay(Sent', Me', inbox, a, b)
  <2>1. n.at = "idle" /\ ReadsOn(Me, n)
    <3>1. Me \in CallerStates
      BY <1>1, Basis, MeTyped
    <3> QED
      BY <1>3, <3>1 DEF ReadsOn, CallerStates
  <2> HIDE DEF n
  <2>2. OnTheWay(Sent', n, inbox, a, b)
    BY <1>3, <1>6, <1>8, <2>1, RestTaken
  <2> QED
    BY <1>4, <2>1, <2>2, IdleState, NobodyWaits
<1>12. Consumed(Me', a, yielded, skipped)
  <2>1. Me.at \notin Skips /\ Me'.at \notin Skips
    BY <1>3, <1>4, IdleState DEF Skips
  <2> QED
    BY <1>8, <2>1 DEF Consumed
<1>13. Intact(a)'
  BY <1>1, <1>8, <1>11, <1>12 DEF Intact
<1> QED
  BY <1>1, <1>3, <1>4, <1>5, <1>10, <1>13, IdleState, Basis DEF StreamInv

\* A round trip receives what it lacks.
LEMMA MoreStep ==
    ASSUME ClientInv, Steady', NEW t \in Callers, NEW n \in 1..Len(stream), ReceiveMore(t, n)
    PROVE  StreamInv'
<1>1. /\ Steady /\ connection # "closed" /\ caller[t].at \in RoundTrip /\ caller[t].at # "append"
      /\ buffered' = buffered \o SubSeq(stream, 1, n) /\ stream' = SubSeq(stream, n + 1, Len(stream))
      /\ UNCHANGED <<inbox, broadcasts, connection, sending, caller, issued, replies, yielded, skipped>>
  BY DEF ReceiveMore, Lacks, Steady, agentSide, outcomes, RoundTrip
<1>2. Me' = Me /\ Me.at # "append"
  <2>1. Me = caller[t]
    BY <1>1, Basis, Mine DEF BusyAt
  <2> QED
    BY <1>1, <2>1 DEF Me
<1>3. Sent' = Sent /\ buffered' \in Seq(Tokens) /\ stream' \in Seq(Tokens)
  <2>1. ClientTypes /\ buffered \in Seq(Tokens) /\ stream \in Seq(Tokens)
    BY <1>1, Basis
  <2>2. Me.chunk = <<>> /\ Sent = buffered \o stream
    BY <1>2, <2>1, MeTyped
  <2>3. buffered' \o stream' = buffered \o stream /\ buffered' \in Seq(Tokens) /\ stream' \in Seq(Tokens)
    BY <1>1, <2>1, Received
  <2>4. Sent' = buffered' \o stream'
    BY <1>2, <2>2, <2>3 DEF Sent, Coming
  <2> QED
    BY <2>2, <2>3, <2>4
<1>4. ClientTypes'
  BY <1>1, <1>3, Basis DEF ClientTypes
<1>5. PICK a \in Nat : Intact(a)
  BY <1>1, Basis
<1>6. Intact(a)'
  BY <1>1, <1>2, <1>3, <1>5 DEF Intact
<1> QED
  BY <1>1, <1>2, <1>4, <1>6, Basis DEF StreamInv

\* A reader begins, or leaves: no read is under way in it.
LEMMA AsideStep ==
    ASSUME ClientInv, Steady', NEW t \in Callers, BeginStreaming(t) \/ LeaveStream(t)
    PROVE  StreamInv'
<1> DEFINE to == IF caller[t].at = "idle" THEN "streaming" ELSE "idle"
           x == [caller[t] EXCEPT !.at = to]
<1>1. /\ Steady /\ caller[t].at \in {"idle", "streaming", "yielded"} /\ GoTo(t, to)
      /\ UNCHANGED <<stream, inbox, broadcasts, buffered, connection, sending, issued, replies, yielded, skipped>>
  BY DEF BeginStreaming, LeaveStream, Steady, agentSide, outcomes
<1>2. /\ caller[t].at \notin BusyAt /\ caller[t].at # "append" /\ to \notin BusyAt /\ to \in CallerSteps
  BY <1>1 DEF BusyAt, RoundTrip, InRead, CallerSteps
<1>3. caller[t] \in CallerStates /\ caller[t].chunk = <<>>
  BY <1>1, <1>2, Basis DEF Threads
<1> HIDE DEF to
<1>4. x \in CallerStates /\ x.at \notin BusyAt /\ x.chunk = <<>>
  BY <1>2, <1>3 DEF CallerStates
<1>5. /\ caller' \in [Callers -> CallerStates] /\ caller'[t] = x
      /\ \A u \in Callers \ {t} : caller'[u] = caller[u]
  BY <1>1, <1>4, Basis DEF GoTo
<1> HIDE DEF x
<1>6. Threads(caller', sending') /\ Me' = Me
  <2>1. Threads(caller, sending) /\ sending' = sending
    BY <1>1, Basis
  <2> QED
    BY <1>2, <1>4, <1>5, <2>1, Aside DEF Me
<1>7. ClientTypes'
  BY <1>1, <1>6, Basis DEF ClientTypes
<1>8. Sent' = Sent
  BY <1>1, <1>6 DEF Sent, Coming
<1>9. \A a \in Nat : Intact(a) => Intact(a)'
  BY <1>1, <1>6, <1>8 DEF Intact
<1> QED
  BY <1>1, <1>6, <1>7, <1>9, Basis DEF StreamInv

\* A reader goes on, while no other thread reads.
ReaderAt == {"idle", "append", "extract"}

LEMMA ReaderMoves ==
    ASSUME ClientTypes, NEW t \in Callers, caller[t].at \notin RoundTrip,
           \A u \in Callers \ {t} : caller[u].at \notin BusyAt,
           NEW x \in CallerStates, x.at \notin RoundTrip, x.at # "append" => x.chunk = <<>>,
           caller' \in [Callers -> CallerStates], caller'[t] = x,
           \A u \in Callers \ {t} : caller'[u] = caller[u], sending' = sending
    PROVE  /\ Threads(caller', sending')
           /\ Me = IF caller[t].at \in BusyAt THEN caller[t] ELSE Idle
           /\ Me' = IF x.at \in BusyAt THEN x ELSE Idle
           /\ Me.at \in ReaderAt /\ Me'.at \in ReaderAt
<1>1. Threads(caller, sending)
  BY DEF ClientTypes
<1>2. /\ Threads(caller', sending')
      /\ Me = IF caller[t].at \in BusyAt THEN caller[t] ELSE Idle
      /\ Me' = IF x.at \in BusyAt THEN x ELSE Idle
  <2>1. /\ Threads(caller', sending')
        /\ Current(caller) = IF caller[t].at \in BusyAt THEN caller[t] ELSE Idle
        /\ Current(caller') = IF x.at \in BusyAt THEN x ELSE Idle
    <3>1. x.at \in RoundTrip => sending' = t
      OBVIOUS
    <3> QED
      BY <1>1, <3>1, Turn
  <2> QED
    BY <2>1 DEF Me
<1>3. Me.at \in ReaderAt /\ Me'.at \in ReaderAt
  BY <1>2, IdleState DEF BusyAt, InRead, ReaderAt
<1> QED
  BY <1>2, <1>3

LEMMA ReaderIntact ==
    ASSUME NEW a, Intact(a), Sent' = Sent, UNCHANGED <<inbox, broadcasts, yielded, skipped>>,
           Me.at \in ReaderAt, Me'.at \in ReaderAt
    PROVE  Intact(a)'
<1>1. /\ Me.at \in Between /\ Me'.at \in Between /\ Me.at \notin Awaiting /\ Me'.at \notin Awaiting
      /\ Me.at \notin Skips /\ Me'.at \notin Skips
  BY DEF ReaderAt, Between, Awaiting, Skips
<1>2. OnTheWay(Sent, Me', inbox, a, broadcasts)
  BY <1>1, NobodyWaits DEF Intact
<1> QED
  BY <1>1, <1>2, StillIntact

\* The reader's recv returns; what it brought is on its way to the buffer.
LEMMA ReceiveStep ==
    ASSUME ClientInv, Steady', NEW t \in Callers, NEW n \in 1..Len(stream), Receive(t, n)
    PROVE  StreamInv'
<1> DEFINE x == [caller[t] EXCEPT !.at = "append", !.chunk = SubSeq(stream, 1, n)]
<1>1. /\ Steady /\ connection # "closed" /\ caller[t].at = "streaming" /\ ~Others(t, RoundTrip \cup InRead)
      /\ caller' = [caller EXCEPT ![t] = x] /\ stream' = SubSeq(stream, n + 1, Len(stream))
      /\ UNCHANGED <<inbox, broadcasts, buffered, connection, sending, issued, replies, yielded, skipped>>
  BY DEF Receive, Enters, Steady, agentSide, outcomes
<1>2. caller[t].at \notin RoundTrip /\ caller[t].at \notin BusyAt /\ \A u \in Callers \ {t} : caller[u].at \notin BusyAt
  BY <1>1 DEF Others, BusyAt, RoundTrip, InRead
<1>3. /\ SubSeq(stream, 1, n) \in Seq(Tokens) /\ stream' \in Seq(Tokens) /\ stream \in Seq(Tokens)
      /\ SubSeq(stream, 1, n) \o stream' = stream
  <2>1. stream \in Seq(Tokens)
    BY <1>1, Basis
  <2> QED
    BY <1>1, <2>1, SubSeqParts
<1>4. x \in CallerStates /\ x.at = "append" /\ x.chunk = SubSeq(stream, 1, n)
  <2>1. caller[t] \in CallerStates /\ "append" \in CallerSteps
    BY <1>1, Basis DEF Threads, CallerSteps, BusyAt, InRead
  <2> QED
    BY <1>3, <2>1 DEF CallerStates
<1> HIDE DEF x
<1>5. Threads(caller', sending') /\ Me = Idle /\ Me' = x /\ Me.at \in ReaderAt /\ Me'.at \in ReaderAt
  <2>1. ClientTypes /\ x.at \notin RoundTrip /\ x.at \in BusyAt /\ sending' = sending
    BY <1>1, <1>4, Basis DEF RoundTrip, BusyAt, InRead
  <2>2. /\ caller' \in [Callers -> CallerStates] /\ caller'[t] = x
        /\ \A u \in Callers \ {t} : caller'[u] = caller[u]
    BY <1>1, <1>4, Basis
  <2> QED
    BY <1>1, <1>2, <1>4, <2>1, <2>2, ReaderMoves
<1>6. ClientTypes'
  BY <1>1, <1>3, <1>5, Basis DEF ClientTypes
<1>7. Sent' = Sent
  <2>1. Coming' = stream
    BY <1>3, <1>4, <1>5 DEF Coming
  <2>2. Coming = stream
    BY <1>3, <1>5, IdleState DEF Coming
  <2> QED
    BY <1>1, <2>1, <2>2 DEF Sent
<1>8. PICK a \in Nat : Intact(a)
  BY <1>1, Basis
<1>9. Intact(a)'
  BY <1>1, <1>5, <1>7, <1>8, ReaderIntact
<1>10. Me'.at # "garbled" /\ Me'.at \in ReaderAt
  BY <1>4, <1>5
<1> QED
  BY <1>1, <1>6, <1>9, <1>10, Basis DEF StreamInv

LEMMA AppendStep ==
    ASSUME ClientInv, Steady', NEW t \in Callers, AppendChunk(t)
    PROVE  StreamInv'
<1> DEFINE x == [caller[t] EXCEPT !.at = "extract", !.chunk = <<>>]
<1>1. /\ Steady /\ caller[t].at = "append" /\ caller' = [caller EXCEPT ![t] = x]
      /\ buffered' = buffered \o caller[t].chunk
      /\ UNCHANGED <<stream, inbox, broadcasts, connection, sending, issued, replies, yielded, skipped>>
  BY DEF AppendChunk, Steady, agentSide, outcomes
<1>2. /\ caller[t].at \notin RoundTrip /\ caller[t].at \in BusyAt
  BY <1>1 DEF RoundTrip, BusyAt, InRead
<1>3. Me = caller[t] /\ Me.at = "append" /\ \A u \in Callers \ {t} : caller[u].at \notin BusyAt
  BY <1>1, <1>2, Basis, Mine
<1>4. x \in CallerStates /\ x.at = "extract" /\ x.chunk = <<>>
  <2>1. caller[t] \in CallerStates /\ "extract" \in CallerSteps /\ <<>> \in Seq(Tokens)
    BY <1>1, Basis DEF Threads, CallerSteps, BusyAt, InRead
  <2> QED
    BY <2>1 DEF CallerStates
<1> HIDE DEF x
<1>5. Threads(caller', sending') /\ Me' = x /\ Me.at \in ReaderAt /\ Me'.at \in ReaderAt
  <2>1. ClientTypes /\ x.at \notin RoundTrip /\ x.at \in BusyAt /\ sending' = sending
    BY <1>1, <1>4, Basis DEF RoundTrip, BusyAt, InRead
  <2>2. /\ caller' \in [Callers -> CallerStates] /\ caller'[t] = x
        /\ \A u \in Callers \ {t} : caller'[u] = caller[u]
    BY <1>1, <1>4, Basis
  <2> QED
    BY <1>1, <1>2, <1>3, <1>4, <2>1, <2>2, ReaderMoves
<1>6. buffered \in Seq(Tokens) /\ stream \in Seq(Tokens) /\ Me.chunk \in Seq(Tokens) /\ buffered' \in Seq(Tokens)
  BY <1>1, <1>3, Basis, MeTyped
<1>7. ClientTypes'
  BY <1>1, <1>5, <1>6, Basis DEF ClientTypes
<1>8. Sent' = Sent
  <2>1. Coming' = stream
    BY <1>1, <1>4, <1>5, <1>6 DEF Coming
  <2>2. (buffered \o Me.chunk) \o stream = buffered \o (Me.chunk \o stream)
    BY <1>6, Associated
  <2> QED
    BY <1>1, <1>3, <2>1, <2>2 DEF Sent, Coming
<1>9. connection # "closed"
  BY <1>1, <1>3, Basis
<1>10. PICK a \in Nat : Intact(a)
  BY <1>1, <1>9, Basis
<1>11. Intact(a)'
  BY <1>1, <1>5, <1>8, <1>10, ReaderIntact
<1>12. Me'.at # "garbled"
  BY <1>4, <1>5
<1> QED
  BY <1>1, <1>7, <1>9, <1>11, <1>12, Basis DEF StreamInv

LEMMA ResumeStep ==
    ASSUME ClientInv, Steady', NEW t \in Callers, Resume(t)
    PROVE  StreamInv'
<1> DEFINE x == [caller[t] EXCEPT !.at = "extract"]
<1>1. /\ Steady /\ caller[t].at = "yielded" /\ caller' = [caller EXCEPT ![t] = x]
      /\ ~Others(t, RoundTrip \cup InRead)
      /\ UNCHANGED <<stream, inbox, broadcasts, buffered, connection, sending, issued, replies, yielded, skipped>>
  <2>1. caller' = [caller EXCEPT ![t].at = "extract"]
    BY DEF Resume, GoTo
  <2> QED
    BY <2>1 DEF Resume, Enters, Steady, agentSide, outcomes
<1>2. caller[t].at \notin RoundTrip /\ caller[t].at \notin BusyAt /\ \A u \in Callers \ {t} : caller[u].at \notin BusyAt
  BY <1>1 DEF Others, BusyAt, RoundTrip, InRead
<1>3. x \in CallerStates /\ x.at = "extract" /\ x.chunk = <<>>
  <2>1. caller[t] \in CallerStates /\ "extract" \in CallerSteps /\ caller[t].chunk = <<>>
    BY <1>1, Basis DEF Threads, CallerSteps, BusyAt, InRead
  <2> QED
    BY <2>1 DEF CallerStates
<1> HIDE DEF x
<1>4. Threads(caller', sending') /\ Me = Idle /\ Me' = x /\ Me.at \in ReaderAt /\ Me'.at \in ReaderAt
  <2>1. ClientTypes /\ x.at \notin RoundTrip /\ x.at \in BusyAt /\ sending' = sending
    BY <1>1, <1>3, Basis DEF RoundTrip, BusyAt, InRead
  <2>2. /\ caller' \in [Callers -> CallerStates] /\ caller'[t] = x
        /\ \A u \in Callers \ {t} : caller'[u] = caller[u]
    BY <1>1, <1>3, Basis
  <2> QED
    BY <1>1, <1>2, <1>3, <2>1, <2>2, ReaderMoves
<1>5. ClientTypes'
  BY <1>1, <1>4, Basis DEF ClientTypes
<1>6. Sent' = Sent
  BY <1>1, <1>3, <1>4, IdleState DEF Sent, Coming
<1>7. \A a \in Nat : Intact(a) => Intact(a)'
  BY <1>1, <1>4, <1>6, ReaderIntact
<1>8. Me'.at # "garbled" /\ Me'.at # "append"
  BY <1>3, <1>4
<1> QED
  BY <1>1, <1>5, <1>7, <1>8, Basis DEF StreamInv

\* The reader is given the frame at the front of the buffer, if it is complete.
LEMMA ExtractStep ==
    ASSUME ClientInv, Steady', NEW t \in Callers, Extract(t)
    PROVE  StreamInv'
<1> DEFINE b == broadcasts
           to == IF WholeFrame(buffered) THEN "yielded" ELSE "streaming"
<1>1. /\ Steady /\ caller[t].at = "extract"
      /\ UNCHANGED <<stream, inbox, broadcasts, connection, sending, issued, replies, skipped>>
  BY DEF Extract, Steady, agentSide
<1>2. /\ caller[t].at \in BusyAt /\ caller[t].at # "append"
  BY <1>1 DEF BusyAt, InRead
<1>3. Me = caller[t] /\ Me.at = "extract" /\ Me.at \in ReaderAt /\ Me.at \in Between /\ Me.at \notin Skips
  BY <1>1, <1>2, Basis, Mine DEF ReaderAt, Between, Skips
<1>4. /\ ClientTypes /\ Coming = stream /\ Sent = buffered \o stream /\ buffered \in Seq(Tokens)
      /\ stream \in Seq(Tokens) /\ b \in Nat
  BY <1>1, <1>3, Basis, MeTyped
<1>5. FromPrefix = buffered /\ (buffered # <<>> => IsFrame(Sent, 1))
  <2>1. CASE connection = "closed"
    BY <1>1, <1>3, <1>4, <2>1, Basis, ReaderAtFrame
  <2>2. CASE connection # "closed"
    <3>1. PICK a \in Nat : Intact(a)
      BY <1>1, <2>2, Basis
    <3>2. OnTheWay(Sent, Me, inbox, a, b)
      BY <3>1 DEF Intact
    <3> QED
      BY <1>3, <1>4, <3>2, ReaderAtFrame
  <2> QED
    BY <2>1, <2>2
<1>6. /\ to \in CallerSteps /\ to # "append" /\ to \notin RoundTrip /\ to \notin BusyAt /\ GoTo(t, to)
  BY <1>5 DEF Extract, CallerSteps, RoundTrip, BusyAt, InRead
<1> HIDE DEF to
<1>7. Threads(caller', sending') /\ Me' = Idle
  BY <1>1, <1>2, <1>4, <1>6, Goes
<1>8. Coming' = stream /\ Me'.at \in ReaderAt /\ Me'.at \notin Skips /\ Me'.at # "garbled" /\ Me'.at # "append"
  BY <1>1, <1>4, <1>7, IdleState DEF Coming, ReaderAt, Skips
<1>9. CASE WholeFrame(buffered)
  <2>1. /\ yielded' = Append(yielded, buffered[1].of) /\ buffered' = SubSeq(buffered, 4, Len(buffered))
        /\ Len(buffered) >= 3
    BY <1>5, <1>9 DEF Extract, WholeFrame
  <2>2. /\ Without(Sent, buffered' \o stream, 3) /\ Sent # <<>> /\ Sent[1] = buffered[1]
        /\ buffered' \in Seq(Tokens)
    BY <1>4, <2>1, ThreeTaken
  <2>3. Sent' = buffered' \o stream
    BY <1>8 DEF Sent
  <2>4. connection # "closed" /\ buffered # <<>>
    <3>1. ASSUME buffered = <<>> PROVE FALSE
      BY <2>1, <3>1
    <3> QED
      BY <1>1, <3>1, Basis
  <2>5. PICK a \in Nat : Intact(a)
    BY <1>1, <2>4, Basis
  <2>6. OnTheWay(Sent, Me, inbox, a, b) /\ Consumed(Me, a, yielded, skipped)
    BY <2>5 DEF Intact
  <2>7. buffered[1].of = a + 1 /\ a + 1 \in 0..b /\ OnTheWay(Sent', Me, inbox, a + 1, b)
    BY <1>3, <1>4, <1>5, <2>2, <2>3, <2>4, <2>6, FrameTaken
  <2>8. OnTheWay(Sent', Me', inbox, a + 1, b)
    <3>1. Me.at \notin Awaiting
      BY <1>3 DEF Awaiting
    <3> QED
      BY <1>3, <1>7, <2>7, <3>1, IdleState, NobodyWaits
  <2>9. yielded' \in Seq(Nat) /\ Ordered(yielded') /\ Consumed(Me', a + 1, yielded', skipped)
    <3>1. yielded \in Seq(Nat) /\ Ordered(yielded) /\ yielded' = Append(yielded, a + 1)
      BY <1>1, <2>1, <2>7, Basis
    <3> QED
      BY <1>3, <1>8, <2>6, <3>1, Yielded
  <2>10. Intact(a + 1)' /\ a + 1 \in Nat
    BY <1>1, <2>7, <2>8, <2>9 DEF Intact
  <2>11. ClientTypes'
    BY <1>1, <1>7, <2>2, <2>9, Basis DEF ClientTypes
  <2> QED
    BY <1>1, <1>8, <2>4, <2>9, <2>10, <2>11, Basis DEF StreamInv
<1>10. CASE ~WholeFrame(buffered)
  <2>1. buffered' = buffered /\ yielded' = yielded
    BY <1>5, <1>10 DEF Extract
  <2>2. Sent' = Sent
    BY <1>4, <1>8, <2>1 DEF Sent
  <2>3. ClientTypes'
    BY <1>1, <1>7, <2>1, Basis DEF ClientTypes
  <2>4. \A a \in Nat : Intact(a) => Intact(a)'
    BY <1>1, <1>3, <1>8, <2>1, <2>2, ReaderIntact
  <2> QED
    BY <1>1, <1>8, <2>1, <2>3, <2>4, Basis DEF StreamInv
<1> QED
  BY <1>9, <1>10

LEMMA ClientStep == ClientInv /\ [ClientNext]_clientVars => ClientInv'
<1> SUFFICES ASSUME ClientInv, [ClientNext]_clientVars, Steady' PROVE StreamInv'
  BY DEF ClientInv
<1>1. CASE Broadcast \/ Respond \/ AgentGone \/ UNCHANGED clientVars
  BY <1>1, AgentStep
<1>2. CASE DisconnectClient
  BY <1>2, DisconnectStep
<1>3. ASSUME NEW t \in Callers, GiveUp(t) \/ ReadTorn(t) PROVE StreamInv'
  <2>1. CASE GiveUp(t)
    BY <2>1 DEF GiveUp, RoundTripEnds, Steady
  <2>2. CASE ReadTorn(t)
    <3>1. crowded' = crowded /\ crowded
      BY <2>2 DEF ReadTorn
    <3> QED
      BY <3>1 DEF Steady
  <2> QED
    BY <1>3, <2>1, <2>2
<1>4. ASSUME NEW t \in Callers, SendCommand(t) PROVE StreamInv'
  BY <1>4, SendStep
<1>5. ASSUME NEW t \in Callers, Drain(t) PROVE StreamInv'
  BY <1>5, DrainStep
<1>6. ASSUME NEW t \in Callers, ReadHead(t) PROVE StreamInv'
  BY <1>6, HeadStep
<1>7. ASSUME NEW t \in Callers, SkipFrame(t) PROVE StreamInv'
  BY <1>7, SkipStep
<1>8. ASSUME NEW t \in Callers, ReadBody(t) PROVE StreamInv'
  BY <1>8, BodyStep
<1>9. ASSUME NEW t \in Callers, BeginStreaming(t) \/ LeaveStream(t) PROVE StreamInv'
  BY <1>9, AsideStep
<1>10. ASSUME NEW t \in Callers, AppendChunk(t) PROVE StreamInv'
  BY <1>10, AppendStep
<1>11. ASSUME NEW t \in Callers, Extract(t) PROVE StreamInv'
  BY <1>11, ExtractStep
<1>12. ASSUME NEW t \in Callers, Resume(t) PROVE StreamInv'
  BY <1>12, ResumeStep
<1>13. ASSUME NEW t \in Callers, NEW n \in 1..Len(stream), ReceiveMore(t, n) PROVE StreamInv'
  BY <1>13, MoreStep
<1>14. ASSUME NEW t \in Callers, NEW n \in 1..Len(stream), Receive(t, n) PROVE StreamInv'
  BY <1>14, ReceiveStep
<1> QED
  BY <1>1, <1>2, <1>3, <1>4, <1>5, <1>6, <1>7, <1>8, <1>9, <1>10, <1>11, <1>12, <1>13, <1>14
     DEF ClientNext

LEMMA PresentParts ==
    ASSUME NEW b \in Seq(Tokens), NEW s \in Seq(Tokens)
    PROVE  Present(b \o s) = Present(b) \cup Present(s)
<1> DEFINE w == b \o s
<1>1. Len(b) \in Nat /\ Len(s) \in Nat /\ DOMAIN b = 1..Len(b) /\ DOMAIN s = 1..Len(s)
  OBVIOUS
<1>2. DOMAIN w = 1..(Len(b) + Len(s))
  BY <1>1
<1>3. \A i \in DOMAIN b : i \in DOMAIN w /\ w[i] = b[i]
  BY <1>1, <1>2
<1>4. ASSUME NEW i \in DOMAIN s PROVE i + Len(b) \in DOMAIN w /\ w[i + Len(b)] = s[i]
  <2>1. i + Len(b) > Len(b) /\ i + Len(b) \in 1..(Len(b) + Len(s)) /\ (i + Len(b)) - Len(b) = i
    BY <1>1
  <2> QED
    BY <1>1, <1>2, <2>1
<1>5. ASSUME NEW i \in DOMAIN w
      PROVE  \/ i \in DOMAIN b /\ w[i] = b[i]
             \/ i - Len(b) \in DOMAIN s /\ w[i] = s[i - Len(b)]
  <2>1. CASE i <= Len(b)
    BY <1>1, <1>2, <2>1
  <2>2. CASE ~(i <= Len(b))
    <3>1. i - Len(b) \in 1..Len(s) /\ i > Len(b)
      BY <1>1, <1>2, <2>2
    <3> QED
      BY <1>1, <1>2, <3>1
  <2> QED
    BY <2>1, <2>2
<1> HIDE DEF w
<1>6. Present(w) \subseteq Present(b) \cup Present(s)
  BY <1>5 DEF Present
<1>7. Present(b) \cup Present(s) \subseteq Present(w)
  <2>1. Present(b) \subseteq Present(w)
    BY <1>3 DEF Present
  <2>2. Present(s) \subseteq Present(w)
    BY <1>4 DEF Present
  <2> QED
    BY <2>1, <2>2
<1> QED
  BY <1>6, <1>7 DEF w

LEMMA Demultiplexed == ClientInv => StreamDemultiplexed
<1> SUFFICES ASSUME ClientInv, Steady
             PROVE  /\ \A r \in replies : r[1] = r[2]
                    /\ (connection # "closed" /\ ~Skipping) =>
                          1..broadcasts = Range(yielded) \cup skipped \cup Present(buffered)
                                            \cup Chunks \cup Present(stream)
                    /\ Ordered(yielded)
  BY DEF StreamDemultiplexed, Ordered, Steady
<1>1. Chunks = Present(Me.chunk)
  <2>1. Present(<<>>) = {}
    BY DEF Present
  <2>2. CASE \E t \in Callers : caller[t].at \in BusyAt
    <3>1. PICK t \in Callers : caller[t].at \in BusyAt
      BY <2>2
    <3>2. Me = caller[t] /\ \A u \in Callers \ {t} : caller[u].at \notin BusyAt
      BY <3>1, Basis, Mine
    <3>3. \A u \in Callers \ {t} : Present(caller[u].chunk) = {}
      <4>1. \A u \in Callers \ {t} : caller[u].chunk = <<>>
        BY <3>2, Basis DEF Threads, BusyAt, InRead
      <4> QED
        BY <2>1, <4>1
    <3> QED
      BY <3>2, <3>3 DEF Chunks
  <2>3. CASE ~(\E t \in Callers : caller[t].at \in BusyAt)
    <3>1. \A u \in Callers : caller[u].chunk = <<>>
      BY <2>3, Basis DEF Threads, BusyAt, InRead
    <3>2. Me.chunk = <<>>
      BY <2>3, IdleState DEF Me, Current
    <3>3. Chunks = {}
      BY <2>1, <3>1 DEF Chunks
    <3> QED
      BY <2>1, <3>2, <3>3
  <2> QED
    BY <2>2, <2>3
<1>2. ASSUME connection # "closed", ~Skipping
      PROVE  1..broadcasts = Range(yielded) \cup skipped \cup Present(buffered) \cup Chunks \cup Present(stream)
  <2>1. PICK a \in Nat : Intact(a)
    BY <1>2, Basis
  <2>2. Me.at \notin Skips
    <3>1. CASE \E t \in Callers : caller[t].at \in BusyAt
      <4>1. PICK t \in Callers : caller[t].at \in BusyAt
        BY <3>1
      <4>2. Me = caller[t]
        BY <4>1, Basis, Mine
      <4> QED
        BY <1>2, <4>2 DEF Skipping, Skips
    <3>2. CASE ~(\E t \in Callers : caller[t].at \in BusyAt)
      BY <3>2, IdleState DEF Me, Current
    <3> QED
      BY <3>1, <3>2
  <2>3. Range(yielded) \cup skipped = 1..a /\ a \in 0..broadcasts /\ broadcasts \in Nat
    BY <2>1, <2>2, Basis DEF Intact, Consumed
  <2>4. Present(Sent) = Present(buffered) \cup Present(Me.chunk) \cup Present(stream) /\ Sent \in Seq(Tokens)
    <3>1. /\ buffered \in Seq(Tokens) /\ stream \in Seq(Tokens) /\ Me.chunk \in Seq(Tokens)
          /\ Coming \in Seq(Tokens) /\ Sent \in Seq(Tokens)
      BY Basis, MeTyped
    <3>2. Present(Sent) = Present(buffered) \cup Present(Coming)
      BY <3>1, PresentParts DEF Sent
    <3>3. Present(Coming) = Present(Me.chunk) \cup Present(stream)
      BY <3>1, PresentParts DEF Coming
    <3> QED
      BY <3>1, <3>2, <3>3
  <2>5. Present(Sent) = (a + 1)..broadcasts
    <3>1. Numbered(Sent, a, broadcasts) /\ DOMAIN Sent = 1..Len(Sent)
      BY <2>1, <2>4 DEF Intact, OnTheWay
    <3>2. Present(Sent) = {Sent[i].of : i \in {i \in 1..Len(Sent) : IsFrame(Sent, i)}}
      BY <3>1 DEF Present, IsFrame
    <3> QED
      BY <2>3, <3>1, <3>2, FrameSet
  <2>6. 1..broadcasts = 1..a \cup (a + 1)..broadcasts
    BY <2>3
  <2> QED
    BY <1>1, <2>3, <2>4, <2>5, <2>6
<1> QED
  BY <1>2, Basis

\* Any number of threads that command and read on one client, each in its turn, get, until
\* a round trip is given up or one gets into another's read, the response to each of their
\* commands and no other, and every frame broadcast is yielded in order to one of them,
\* thrown away by a round trip, or still on the way: for any number of frames and
\* commands, and wherever recv cuts the stream.
THEOREM SharedClientDemultiplexes == ClientSpec => []StreamDemultiplexed
<1>1. ClientInit => ClientInv
  BY ClientInit0
<1>2. ClientInv /\ [ClientNext]_clientVars => ClientInv'
  BY ClientStep
<1>3. ClientInv => StreamDemultiplexed
  BY Demultiplexed
<1> QED
  BY <1>1, <1>2, <1>3, PTL DEF ClientSpec
=============================================================================
