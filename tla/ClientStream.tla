---------------------------- MODULE ClientStream ----------------------------
(***************************************************************************)
(* The client's end of a connection: StreamingAgentClient                    *)
(* (peeka/core/client.py).  Commands and observations come back on one byte  *)
(* stream, and the client keeps what it received and has not used in one     *)
(* buffer.  Threads issue commands, one round trip at a time under           *)
(* _send_lock; any of them also reads observations, without that lock: the   *)
(* TUI's workers share a view's client, or the one its commands go over.     *)
(* Nothing but _send_lock guards the buffer, and every operation on it reads *)
(* it and writes it back.  A read is a section: a round trip from its request *)
(* on, a reader's from recv's return, or its resumption, to the next frame it *)
(* yields or to its next recv.  When sections of two threads overlap what the *)
(* buffer holds is open, and from then on a read may bring anything.         *)
(*                                                                         *)
(* The stream is cut into tokens, the pieces the client reads by themselves: *)
(* a frame is its prefix, its length and its payload, a response its length  *)
(* and its body.  recv delivers any number of tokens, so a buffer may end    *)
(* anywhere in a frame.  What a token holds is the number of the frame or    *)
(* of the command it answers.                                               *)
(***************************************************************************)
EXTENDS Naturals, Sequences, SequencesExt

CONSTANTS Callers,     \* threads that issue commands and read observations
          MaxCommands, \* bound: commands issued
          Frames       \* bound: the frames broadcast, each by its prefix

ASSUME ClientAssumption ==
    /\ 0 \notin Callers /\ MaxCommands \in Nat /\ Frames \in Seq({"OBS", "LOG"})

NoCaller == 0
FramePrefixes == {"OBS", "LOG"}

VARIABLES stream,     \* tokens sent by the agent and not received
          inbox,      \* commands the agent has not answered, in order
          broadcasts, \* frames broadcast so far
          buffered,   \* _buffer
          connection, \* open, broken, closed
          sending,    \* holder of _send_lock
          caller,     \* each thread: where it is, the command it issued, the number it
                      \* read last, what it received and has not added to the buffer
          issued,     \* commands issued so far
          replies,    \* what the round trips returned: <<command, answer>>
          yielded,    \* frames the readers were given, in order
          skipped,    \* frames that a round trip threw away
          gaveUp,     \* history: a round trip timed out, or lost its connection
          crowded     \* history: reads of two threads overlapped

clientVars == <<stream, inbox, broadcasts, buffered, connection, sending, caller,
                issued, replies, yielded, skipped, gaveUp, crowded>>

agentSide == <<inbox, broadcasts>>
outcomes == <<replies, yielded, skipped, gaveUp>>

Token(what, of) == [what |-> what, of |-> of]

Idle == [at |-> "idle", cmd |-> 0, of |-> 0, chunk |-> <<>>]

ClientInit ==
    /\ stream = <<>> /\ inbox = <<>> /\ broadcasts = 0 /\ buffered = <<>>
    /\ connection = "open" /\ sending = NoCaller
    /\ caller = [t \in Callers |-> Idle]
    /\ issued = 0 /\ replies = {} /\ yielded = <<>> /\ skipped = {}
    /\ gaveUp = FALSE /\ crowded = FALSE

-----------------------------------------------------------------------------
(* The agent: it answers the commands of a connection in order, and broadcasts
   observations and log records to every connection meanwhile. *)

\* Bound: none once a round trip has given up.
Broadcast ==
    /\ ~crowded /\ ~gaveUp /\ connection = "open" /\ broadcasts < Len(Frames)
    /\ broadcasts' = broadcasts + 1
    /\ stream' = stream \o <<Token(Frames[broadcasts'], broadcasts'),
                             Token("length", broadcasts'), Token("payload", broadcasts')>>
    /\ UNCHANGED <<inbox, buffered, connection, sending, caller, issued, outcomes, crowded>>

Respond ==
    /\ ~crowded /\ inbox # <<>> /\ connection = "open"
    /\ stream' = stream \o <<Token("size", Head(inbox)), Token("body", Head(inbox))>>
    /\ inbox' = Tail(inbox)
    /\ UNCHANGED <<broadcasts, buffered, connection, sending, caller, issued, outcomes, crowded>>

AgentGone ==
    /\ ~crowded /\ connection = "open" /\ connection' = "broken"
    /\ UNCHANGED <<stream, agentSide, buffered, sending, caller, issued, outcomes, crowded>>

-----------------------------------------------------------------------------
(* send_command *)

RoundTrip == {"drain", "head", "skip length", "skip payload", "body", "garbled"}
InRead == {"append", "extract"}
Others(t, where) == \E u \in Callers \ {t} : caller[u].at \in where

GoTo(t, at) == caller' = [caller EXCEPT ![t].at = at]

SendCommand(t) ==
    /\ ~crowded /\ caller[t].at = "idle" /\ sending = NoCaller
    /\ connection = "open" /\ issued < MaxCommands
    /\ sending' = t /\ issued' = issued + 1
    /\ caller' = [caller EXCEPT ![t] = [Idle EXCEPT !.at = "drain", !.cmd = issued']]
    /\ inbox' = Append(inbox, issued')
    /\ crowded' = Others(t, InRead)
    /\ UNCHANGED <<stream, broadcasts, buffered, connection, outcomes>>

\* A round trip ends: with the body read, or with an error.
RoundTripEnds(t, answer) ==
    /\ sending' = NoCaller /\ caller' = [caller EXCEPT ![t] = Idle]
    /\ replies' = replies \cup {<<caller[t].cmd, answer>>}
    /\ gaveUp' = (gaveUp \/ answer = 0)

\* The token a round trip is about to read is not in the buffer; of a garbled length it
\* never has enough.
Lacks(t) == /\ caller[t].at \in RoundTrip \ {"drain"} /\ caller[t].chunk = <<>>
            /\ buffered = <<>> \/ caller[t].at = "garbled"

\* The socket's timeout, or its end: recv brings nothing, the token asked for is
\* not there, and what was read before it is gone from the buffer.
GiveUp(t) ==
    /\ ~crowded /\ Lacks(t) /\ RoundTripEnds(t, 0)
    /\ UNCHANGED <<stream, agentSide, buffered, connection, issued, yielded, skipped, crowded>>

WholeFrame(b) == Len(b) >= 3 /\ b[1].what \in FramePrefixes

\* _drain_obs_frames: the complete frames at the front, those already received.
Drain(t) ==
    /\ ~crowded /\ caller[t].at = "drain"
    /\ IF WholeFrame(buffered)
       THEN /\ buffered' = SubSeq(buffered, 4, Len(buffered))
            /\ skipped' = skipped \cup {buffered[1].of}
            /\ UNCHANGED caller
       ELSE GoTo(t, "head") /\ UNCHANGED <<buffered, skipped>>
    /\ UNCHANGED <<stream, agentSide, connection, sending, issued, replies, yielded, gaveUp, crowded>>

\* Mutated form: only an observation is told from a response.
IsObservation(token) == token.what = "OBS"

IsPrefix4(token) == token.what \in FramePrefixes

\* Four bytes of anything but a prefix are a length; the first ones of a body or
\* a payload are a huge one.
AfterHead(head) == IF IsPrefix4(head) THEN "skip length"
                   ELSE IF head.what = "size" THEN "body" ELSE "garbled"

\* _recv_exact(4) where a response should begin.
ReadHead(t) ==
    /\ ~crowded /\ caller[t].at = "head" /\ buffered # <<>>
    /\ LET head == Head(buffered) IN
          caller' = [caller EXCEPT ![t].at = AfterHead(head), ![t].of = head.of]
    /\ buffered' = Tail(buffered)
    /\ UNCHANGED <<stream, agentSide, connection, sending, issued, outcomes, crowded>>

\* The rest of a frame whose prefix was read; then the drain again.
SkipFrame(t) ==
    /\ ~crowded /\ caller[t].at \in {"skip length", "skip payload"} /\ buffered # <<>>
    /\ buffered' = Tail(buffered)
    /\ IF caller[t].at = "skip length"
       THEN GoTo(t, "skip payload") /\ UNCHANGED skipped
       ELSE GoTo(t, "drain") /\ skipped' = skipped \cup {caller[t].of}
    /\ UNCHANGED <<stream, agentSide, connection, sending, issued, replies, yielded, gaveUp, crowded>>

ReadBody(t) ==
    /\ ~crowded /\ caller[t].at = "body" /\ buffered # <<>>
    /\ RoundTripEnds(t, Head(buffered).of) /\ buffered' = Tail(buffered)
    /\ UNCHANGED <<stream, agentSide, connection, issued, yielded, skipped, crowded>>

-----------------------------------------------------------------------------
(* Receiving, and the readers of observations *)

\* The thread begins to read: recv has returned, or the generator goes on.
Enters(t) == crowded' = Others(t, RoundTrip \cup InRead)

\* recv in a round trip that lacks a token, and `_buffer += chunk`.  Bound: once a round
\* trip has given up any recv brings all there is.
ReceiveMore(t, n) ==
    /\ ~crowded /\ connection # "closed" /\ n <= Len(stream) /\ (gaveUp => n = Len(stream)) /\ Lacks(t)
    /\ buffered' = buffered \o SubSeq(stream, 1, n)
    /\ stream' = SubSeq(stream, n + 1, Len(stream))
    /\ UNCHANGED <<agentSide, connection, sending, caller, issued, outcomes, crowded>>

BeginStreaming(t) ==
    /\ ~crowded /\ caller[t].at = "idle" /\ issued > 0 /\ connection = "open"
    /\ GoTo(t, "streaming")
    /\ UNCHANGED <<stream, agentSide, buffered, connection, sending, issued, outcomes, crowded>>

\* A reader always receives before it looks at the buffer.  Bound: likewise.
Receive(t, n) ==
    /\ ~crowded /\ connection # "closed" /\ n <= Len(stream) /\ (gaveUp => n = Len(stream))
    /\ caller[t].at = "streaming"
    /\ caller' = [caller EXCEPT ![t].at = "append", ![t].chunk = SubSeq(stream, 1, n)]
    /\ stream' = SubSeq(stream, n + 1, Len(stream))
    /\ Enters(t)
    /\ UNCHANGED <<agentSide, buffered, connection, sending, issued, outcomes>>

AppendChunk(t) ==
    /\ ~crowded /\ caller[t].at = "append"
    /\ buffered' = buffered \o caller[t].chunk
    /\ caller' = [caller EXCEPT ![t].at = "extract", ![t].chunk = <<>>]
    /\ UNCHANGED <<stream, agentSide, connection, sending, issued, outcomes, crowded>>

FromPrefix == LET there == {i \in DOMAIN buffered : buffered[i].what \in FramePrefixes}
              IN  IF there = {} THEN buffered
                  ELSE SubSeq(buffered, CHOOSE i \in there : \A j \in there : i <= j,
                              Len(buffered))

\* _extract_observation: from the first prefix on, if the frame is complete.
Extract(t) ==
    /\ ~crowded /\ caller[t].at = "extract"
    /\ LET b == FromPrefix IN
          IF WholeFrame(b)
          THEN /\ yielded' = Append(yielded, b[1].of)
               /\ buffered' = SubSeq(b, 4, Len(b))
               /\ GoTo(t, "yielded")
          ELSE buffered' = b /\ GoTo(t, "streaming") /\ UNCHANGED yielded
    /\ UNCHANGED <<stream, agentSide, connection, sending, issued, replies, skipped, gaveUp, crowded>>

\* The generator goes on after a frame it yielded.
Resume(t) ==
    /\ ~crowded /\ caller[t].at = "yielded" /\ GoTo(t, "extract") /\ Enters(t)
    /\ UNCHANGED <<stream, agentSide, buffered, connection, sending, issued, outcomes>>

\* The generator is left between two frames it yields: the rest stays buffered.
LeaveStream(t) ==
    /\ ~crowded /\ caller[t].at \in {"streaming", "yielded"}
    /\ GoTo(t, "idle")
    /\ UNCHANGED <<stream, agentSide, buffered, connection, sending, issued, outcomes, crowded>>

\* After reads that overlapped each thread's read ends with anything: a round trip with
\* the response to any command or with an error, a reader with a frame that others may
\* have been given too, or with none.  Bound: what is in the buffer and on the way is not
\* followed further, and no read is begun.
ReadTorn(t) ==
    /\ crowded
    /\ \/ /\ caller[t].at \in RoundTrip
          /\ \E answer \in 0..issued : RoundTripEnds(t, answer)
          /\ UNCHANGED yielded
       \/ /\ caller[t].at \in InRead \cup {"streaming", "yielded"}
          /\ caller' = [caller EXCEPT ![t] = Idle]
          /\ \/ UNCHANGED yielded
             \/ \E f \in 1..broadcasts : yielded' = Append(yielded, f)
          /\ UNCHANGED <<sending, replies, gaveUp>>
    /\ stream' = <<>> /\ buffered' = <<>> /\ inbox' = <<>> /\ skipped' = {}
    /\ UNCHANGED <<broadcasts, connection, issued, crowded>>

DisconnectClient ==
    /\ ~crowded /\ connection # "closed" /\ connection' = "closed"
    /\ buffered' = <<>>
    /\ crowded' = \E t \in Callers : caller[t].at \in InRead
    /\ UNCHANGED <<stream, agentSide, sending, caller, issued, outcomes>>

ClientNext ==
    \/ Broadcast \/ Respond \/ AgentGone \/ DisconnectClient
    \/ \E t \in Callers :
          \/ SendCommand(t) \/ GiveUp(t) \/ Drain(t) \/ ReadHead(t) \/ SkipFrame(t)
          \/ ReadBody(t) \/ BeginStreaming(t) \/ AppendChunk(t) \/ Extract(t)
          \/ Resume(t) \/ LeaveStream(t) \/ ReadTorn(t)
          \/ \E n \in 1..Len(stream) : ReceiveMore(t, n) \/ Receive(t, n)

ClientSpec == ClientInit /\ [][ClientNext]_clientVars

-----------------------------------------------------------------------------
(* Properties *)

ClientTypeOK ==
    /\ connection \in {"open", "broken", "closed"} /\ sending \in Callers \cup {NoCaller}
    /\ broadcasts \in 0..Len(Frames) /\ issued \in 0..MaxCommands
    /\ \A t \in Callers : caller[t].at \in
          RoundTrip \cup InRead \cup {"idle", "streaming", "yielded"}

Present(s) == {s[i].of : i \in {i \in DOMAIN s : s[i].what \in FramePrefixes}}

\* Frames on their way to the buffer, and a frame a round trip is about to throw away.
Chunks == UNION {Present(caller[t].chunk) : t \in Callers}
Skipping == \E t \in Callers : caller[t].at \in {"skip length", "skip payload"}

\* Until a round trip has given up or a thread has got into another's read (after that
\* what a thread reads may be of any command, cut anywhere, or be there twice), a command
\* is answered by its own response, however many frames came first and wherever the
\* buffer ended in one of them, though other threads command and read on the same
\* client; and on an intact connection no frame is lost: it is still on the way, or
\* was yielded to one of the readers, in order, or was thrown away by a command that
\* waited for its response.
StreamDemultiplexed ==
    ~gaveUp /\ ~crowded =>
       /\ \A r \in replies : r[1] = r[2]
       /\ (connection # "closed" /\ ~Skipping) =>
             1..broadcasts = Range(yielded) \cup skipped \cup Present(buffered)
                               \cup Chunks \cup Present(stream)
       /\ \A i, j \in DOMAIN yielded : i < j => yielded[i] < yielded[j]
=============================================================================
