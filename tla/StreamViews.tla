----------------------------- MODULE StreamViews -----------------------------
(***************************************************************************)
(* The TUI's streaming views (peeka/tui/views: watch, trace, stack, monitor) *)
(* on their screen (tui/screens/main.py).  Handlers of the views run in one  *)
(* UI thread and interleave where they await a command, which worker threads *)
(* send over the screen's client.  Every probe a view starts gets a worker    *)
(* thread that reads the view's own stream client: one connection for all the*)
(* view's workers, and the agent broadcasts every observation to it.  When    *)
(* that client cannot connect the worker reads the screen's, over which the   *)
(* commands go.                                                              *)
(*                                                                         *)
(* A frame is the name of the probe that made it.  How it is cut out of the  *)
(* byte stream is ClientStream's subject, and so is that reads of two threads *)
(* tear what one client has received: here a frame may then be lost or read   *)
(* again, and an answer be taken.  What detach does in the agent is           *)
(* AgentLifecycle's: here it ends whatever runs.                             *)
(***************************************************************************)
EXTENDS Naturals, Sequences, SequencesExt

CONSTANTS ViewOrder,   \* the views, as _cleanup_all_views goes through them
          Requests,    \* probes the user asks the views for
          Layouts,     \* which view each is asked of: the functions considered
          PatternOf,
          Resets,      \* what each view resets after a stop: own, all, none
          FrameLimit   \* bound: observations of one probe

Views == Range(ViewOrder)

ASSUME ViewAssumption ==
    /\ Layouts \subseteq [Requests -> Views] /\ Resets \in [Views -> {"own", "all", "none"}]
    /\ FrameLimit \in Nat

VARIABLES viewOf,    \* the layout
          screen,    \* the number of views cleaned up for exit, from 1; 0: open
          phase,     \* of each request: new, asked, answered, refused, listed
          listed,    \* _active_watches, _active_traces, _workers
          stopping,  \* snapshot a stop-all still has to go through
          current,   \* the command it awaits: <<request, "stop" or "reset">>
          worker,    \* of each request: none, begin, reading, cancelled
                     \* (unbegun: before it began to read), done
          streamOf,  \* each view's stream client: none, connecting, open, broken, closed
          connector, \* the worker that connects it: it holds _stream_client_lock
          fallback,  \* the workers that were left to read the screen's client
          queue,     \* frames received by it
          running,   \* the probes that run in the agent
          attached,  \* the agent is there
          made, displayed, due,  \* frames made, displayed, and sent to the view, by request
          mixed,     \* history: probes that ran beside another worker of their view
          torn,      \* history: views of whose client reads may have overlapped
          untold     \* history: starts that a stop-all of their view overtook, or
                     \* whose answer somebody else took

ui == <<viewOf, screen, phase, listed, stopping, current>>
clients == <<streamOf, connector, fallback>>
threadsOf == <<worker, queue, clients>>
probesOf == <<running, attached, made>>
counts == <<displayed, due>>
histories == <<mixed, torn, untold>>
viewVars == <<ui, threadsOf, probesOf, counts, histories>>

Nobody == <<>>

ViewInit ==
    /\ viewOf \in Layouts
    /\ screen = 0 /\ phase = [r \in Requests |-> "new"]
    /\ listed = [v \in Views |-> {}] /\ stopping = listed
    /\ current = [v \in Views |-> Nobody]
    /\ worker = [r \in Requests |-> "none"]
    /\ streamOf = [v \in Views |-> "none"] /\ connector = listed /\ fallback = {}
    /\ queue = [v \in Views |-> <<>>]
    /\ running = {} /\ attached = TRUE
    /\ made = [r \in Requests |-> 0] /\ displayed = made /\ due = made
    /\ mixed = {} /\ torn = {} /\ untold = {}

StopsAll(v) == stopping[v] # {} \/ current[v] # Nobody
OfView(v) == {r \in Requests : viewOf[r] = v}
AliveIn(v) == {r \in OfView(v) : worker[r] \notin {"none", "done"}}

-----------------------------------------------------------------------------
(* Starting *)

\* _start_watch, _start_trace, ... up to the await.
StartRequest(r) ==
    /\ screen = 0 /\ phase[r] = "new"
    /\ phase' = [phase EXCEPT ![r] = "asked"]
    /\ untold' = IF StopsAll(viewOf[r]) THEN untold \cup {r} ELSE untold
    /\ UNCHANGED <<viewOf, screen, listed, stopping, current, threadsOf, probesOf, counts, mixed, torn>>

\* The agent handles the start: it runs, or is refused.
StartAnswered(r, ok) ==
    /\ attached /\ phase[r] = "asked"
    /\ phase' = [phase EXCEPT ![r] = IF ok THEN "answered" ELSE "refused"]
    /\ running' = IF ok THEN running \cup {r} ELSE running
    /\ mixed' = IF AliveIn(viewOf[r]) # {} THEN mixed \cup {r} ELSE mixed
    /\ UNCHANGED <<viewOf, screen, listed, stopping, current, threadsOf, attached, made, counts,
                   torn, untold>>

\* It runs, but a worker that has read the screen's client took the answer, or left
\* behind what garbles it.  Bound: another command's answer counts as none.
AnswerTaken(r) ==
    /\ attached /\ phase[r] = "asked" /\ fallback # {}
    /\ phase' = [phase EXCEPT ![r] = "refused"]
    /\ running' = running \cup {r} /\ untold' = untold \cup {r}
    /\ UNCHANGED <<viewOf, screen, listed, stopping, current, threadsOf, attached, made, counts,
                   mixed, torn>>

\* The handler goes on: the probe is listed and gets its worker.
ListRequest(r) ==
    /\ screen = 0 /\ phase[r] = "answered"
    /\ phase' = [phase EXCEPT ![r] = "listed"]
    /\ listed' = [listed EXCEPT ![viewOf[r]] = @ \cup {r}]
    /\ worker' = [worker EXCEPT ![r] = "begin"]
    /\ mixed' = mixed \cup {k \in OfView(viewOf[r]) \ {r} : phase[k] \in {"answered", "listed"}}
                \cup (IF AliveIn(viewOf[r]) # {} THEN {r} ELSE {})
    /\ UNCHANGED <<viewOf, screen, stopping, current, clients, queue, probesOf, counts, torn, untold>>

-----------------------------------------------------------------------------
(* Streaming *)

Beginning == {"begin", "unbegun"}
Begun(k) == IF worker[k] = "begin" THEN "reading" ELSE "cancelled"

\* Those that read a view's own client.
ReadersOf(v) == {k \in OfView(v) \ fallback : worker[k] \in {"reading", "cancelled"}}

\* _ensure_stream_client, in the worker: the first of the view makes the client and
\* connects, which sends a greeting whose answer comes after the frames it skips.
ConnectStream(r) ==
    LET v == viewOf[r] IN
    /\ worker[r] \in Beginning /\ streamOf[v] \in {"none", "closed"} /\ connector[v] = {}
    /\ streamOf' = [streamOf EXCEPT ![v] = "connecting"]
    /\ connector' = [connector EXCEPT ![v] = {r}]
    /\ queue' = [queue EXCEPT ![v] = <<>>]
    /\ UNCHANGED <<ui, worker, fallback, probesOf, counts, histories>>

\* The greeting is answered; or it is not, or the screen was left meanwhile: then the
\* client is forgotten, who reads it is done, and this worker reads the screen's.
EnsureStream(r, ok) ==
    LET v == viewOf[r]  mine == ok /\ streamOf[v] = "connecting" IN
    /\ r \in connector[v] /\ connector' = [connector EXCEPT ![v] = {}]
    /\ streamOf' = [streamOf EXCEPT ![v] = IF mine THEN "open"
                                           ELSE IF @ = "connecting" THEN "none" ELSE @]
    /\ fallback' = IF mine THEN fallback ELSE fallback \cup {r}
    /\ worker' = [k \in Requests |-> IF k = r THEN Begun(k)
                                     ELSE IF k \in ReadersOf(v) /\ ~mine THEN "done" ELSE worker[k]]
    /\ UNCHANGED <<ui, queue, probesOf, counts, histories>>

\* The others find a client there, if need be one that is not connected yet: then the
\* generator ends at once, or reads what the greeting should.
JoinStream(r) ==
    LET v == viewOf[r] IN
    /\ worker[r] \in Beginning /\ r \notin connector[v]
    /\ streamOf[v] \in {"connecting", "open", "broken"}
    /\ \E at \in {Begun(r)} \cup (IF streamOf[v] = "connecting" THEN {"done"} ELSE {}) :
          worker' = [worker EXCEPT ![r] = at]
    /\ torn' = IF ReadersOf(v) # {} \/ streamOf[v] = "connecting" THEN torn \cup {v} ELSE torn
    /\ UNCHANGED <<ui, clients, queue, probesOf, counts, mixed, untold>>

\* Bound: FrameLimit frames of a probe, not counting what nobody is there to be sent.
Produce(r) ==
    /\ r \in running /\ made[r] < FrameLimit
    /\ fallback # {} \/ \E v \in Views : streamOf[v] = "open"
    /\ made' = [made EXCEPT ![r] = @ + 1]
    /\ queue' = [v \in Views |-> IF streamOf[v] = "open" THEN Append(queue[v], r) ELSE queue[v]]
    /\ due' = IF streamOf[viewOf[r]] = "open" THEN [due EXCEPT ![r] = @ + 1] ELSE due
    /\ UNCHANGED <<ui, worker, clients, running, attached, displayed, histories>>

Its(r, frame) == frame = r

\* _stream_observations: whoever is given a frame shows it if it is its own, and throws
\* it away if not; in a synchronous clean-up nothing is displayed.  Only with the next
\* frame does a worker see that it was cancelled.
Given(r, frame) ==
    /\ displayed' = IF worker[r] = "reading" /\ Its(r, frame) /\ screen = 0
                    THEN [displayed EXCEPT ![r] = @ + 1] ELSE displayed
    /\ worker' = IF worker[r] = "cancelled" THEN [worker EXCEPT ![r] = "done"] ELSE worker

TakeFrame(r) ==
    LET v == viewOf[r] IN
    /\ r \in ReadersOf(v) /\ queue[v] # <<>>
    /\ Given(r, Head(queue[v])) /\ queue' = [queue EXCEPT ![v] = Tail(@)]
    /\ UNCHANGED <<ui, clients, probesOf, due, histories>>

\* Reads of the client overlapped: a frame is lost, or another worker is given it too,
\* or its bytes are put back.  Bound: of a probe at most
\* FrameLimit frames are displayed.
Displayable(r) == worker[r] = "reading" => displayed[r] < FrameLimit

TornRead(r) ==
    LET v == viewOf[r] IN
    /\ r \in ReadersOf(v) /\ v \in torn /\ queue[v] # <<>>
    /\ \/ Given(r, Head(queue[v])) /\ Displayable(r) /\ UNCHANGED queue
       \/ queue' = [queue EXCEPT ![v] = Tail(@)] /\ UNCHANGED <<displayed, worker>>
    /\ UNCHANGED <<ui, clients, probesOf, due, histories>>

\* A frame comes over the screen's client, unless a command's round trip throws it away
\* or tears it.  Bound: likewise.
FallbackFrame(r, frame) ==
    /\ r \in fallback /\ worker[r] \in {"reading", "cancelled"} /\ attached
    /\ made[frame] > 0 /\ Displayable(r)
    /\ Given(r, frame)
    /\ UNCHANGED <<ui, queue, clients, probesOf, due, histories>>

\* The connection is lost, or was closed: the generator ends.
StreamBreaks(v) ==
    /\ streamOf[v] = "open" /\ streamOf' = [streamOf EXCEPT ![v] = "broken"]
    /\ UNCHANGED <<ui, worker, queue, connector, fallback, probesOf, counts, histories>>

StreamEnds(r) ==
    /\ worker[r] \in {"reading", "cancelled"}
    /\ IF r \in fallback THEN ~attached ELSE streamOf[viewOf[r]] \in {"broken", "closed"}
    /\ worker' = [worker EXCEPT ![r] = "done"]
    /\ UNCHANGED <<ui, clients, queue, probesOf, counts, histories>>

-----------------------------------------------------------------------------
(* Stopping *)

\* Mutated form: what has no reader any more is not stopped.
StillRead(v) == {r \in listed[v] : worker[r] # "done"}

ToStop(v) == listed[v]

\* _stop_all_watches takes a snapshot of the list ...
StopAll(v) ==
    /\ screen = 0 /\ listed[v] # {} /\ ~StopsAll(v)
    /\ stopping' = [stopping EXCEPT ![v] = ToStop(v)]
    /\ listed' = IF ToStop(v) = {} THEN [listed EXCEPT ![v] = {}] ELSE listed
    /\ untold' = untold \cup {r \in OfView(v) : phase[r] \in {"asked", "answered"}}
    /\ UNCHANGED <<viewOf, screen, phase, current, threadsOf, probesOf, counts, mixed, torn>>

Cancelled(rs) == [r \in Requests |-> CASE r \in rs /\ worker[r] = "begin"   -> "unbegun"
                                       [] r \in rs /\ worker[r] = "reading" -> "cancelled"
                                       [] OTHER -> worker[r]]

\* ... cancels the worker of each, and awaits its stop ...
StopNext(v, r) ==
    /\ screen = 0 /\ r \in stopping[v] /\ current[v] = Nobody
    /\ current' = [current EXCEPT ![v] = <<r, "stop">>]
    /\ stopping' = [stopping EXCEPT ![v] = @ \ {r}]
    /\ worker' = Cancelled({r})
    /\ UNCHANGED <<viewOf, screen, phase, listed, clients, queue, probesOf, counts, histories>>

\* What a reset ends: every probe on the pattern, whichever view started it.
ResetBy(v, r) == CASE Resets[v] = "own" -> {k \in Requests : PatternOf[k] = PatternOf[r]}
                   [] Resets[v] = "all" -> Requests
                   [] OTHER -> {}

\* ... and then a reset, whatever it is told; after the last one the list is cleared: of
\* all that is in it.
StopAnswered(v) ==
    /\ attached /\ current[v] # Nobody
    /\ LET r == current[v][1]  last == current[v][2] = "reset" \/ Resets[v] = "none"
       IN  /\ running' = running \ IF current[v][2] = "stop" THEN {r} ELSE ResetBy(v, r)
           /\ current' = [current EXCEPT ![v] = IF last THEN Nobody ELSE <<r, "reset">>]
           /\ listed' = IF last /\ stopping[v] = {} /\ screen = 0
                        THEN [listed EXCEPT ![v] = {}] ELSE listed
    /\ UNCHANGED <<viewOf, screen, phase, stopping, threadsOf, attached, made, counts, histories>>

-----------------------------------------------------------------------------
(* Leaving the screen, in one go of the UI thread: the views one by one, detach *)

\* cleanup_for_exit of the next view.
CleanUpView ==
    /\ screen < Len(ViewOrder)
    /\ LET v == ViewOrder[screen + 1]
           reset == IF Resets[v] = "all" THEN Requests
                    ELSE UNION {ResetBy(v, r) : r \in listed[v]}
       IN  /\ running' = running \ (listed[v] \cup reset)
           /\ worker' = Cancelled(listed[v])
           /\ listed' = [listed EXCEPT ![v] = {}]
           /\ streamOf' = [streamOf EXCEPT ![v] = IF @ = "none" THEN @ ELSE "closed"]
    /\ screen' = screen + 1
    /\ UNCHANGED <<viewOf, phase, stopping, current, queue, connector, fallback, attached, made,
                   counts, histories>>

\* The end of _cleanup_all_views: detach and disconnect.
LeaveScreen ==
    /\ screen = Len(ViewOrder) /\ attached
    /\ running' = {} /\ attached' = FALSE
    /\ UNCHANGED <<ui, threadsOf, made, counts, histories>>

ViewNext ==
    \/ \E r \in Requests :
          \/ StartRequest(r) \/ (\E ok \in BOOLEAN : StartAnswered(r, ok)) \/ AnswerTaken(r)
          \/ ListRequest(r) \/ ConnectStream(r) \/ (\E ok \in BOOLEAN : EnsureStream(r, ok))
          \/ JoinStream(r) \/ Produce(r) \/ TakeFrame(r) \/ TornRead(r) \/ StreamEnds(r)
          \/ \E f \in Requests : FallbackFrame(r, f)
    \/ \E v \in Views :
          \/ StreamBreaks(v) \/ StopAll(v) \/ StopAnswered(v)
          \/ \E r \in OfView(v) : StopNext(v, r)
    \/ CleanUpView \/ LeaveScreen

ViewSpec == ViewInit /\ [][ViewNext]_viewVars

-----------------------------------------------------------------------------
(* Properties *)

ViewTypeOK ==
    /\ screen \in 0..Len(ViewOrder) /\ running \subseteq Requests
    /\ phase \in [Requests -> {"new", "asked", "answered", "refused", "listed"}]
    /\ worker \in [Requests -> {"none", "begin", "unbegun", "reading", "cancelled", "done"}]
    /\ streamOf \in [Views -> {"none", "connecting", "open", "broken", "closed"}]
    /\ \A v \in Views : listed[v] \subseteq OfView(v) /\ stopping[v] \subseteq OfView(v)

\* What runs in the agent for a view is known to it, so that the user can stop
\* it, unless a stop-all overtook its start or a worker that reads the screen's
\* client took the answer; and when the screen is left nothing runs, not even
\* what a view does not know.
NoneForgotten ==
    \A r \in running :
       /\ attached
       /\ \/ phase[r] = "answered" \/ r \in listed[viewOf[r]] \/ r \in untold
          \/ screen > 0 \/ StopsAll(viewOf[r])

\* While the worker of a listed probe has its view's stream client to itself, every
\* frame of the probe that was sent to it is displayed or still queued; other probes'
\* frames do not disturb it.  (A cancelled worker that waits for one more frame
\* counts as company: that frame may belong to the next probe, and is lost.  Of a
\* client that two workers have read at once nothing can be said, nor of a worker
\* that reads the screen's.)
ShownWhenAlone ==
    \A r \in Requests :
       LET v == viewOf[r] IN
       (r \in listed[v] /\ worker[r] \in {"reading", "done"} /\ r \notin mixed \cup fallback
          /\ v \notin torn /\ streamOf[v] = "open" /\ screen = 0 /\ ~StopsAll(v))
       => displayed[r] + Len(SelectSeq(queue[v], LAMBDA f : f = r)) = due[r]

\* A view knows what runs for it and shows what it made: the two properties above.
ViewsSound == NoneForgotten /\ ShownWhenAlone
=============================================================================
