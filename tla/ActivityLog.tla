----------------------------- MODULE ActivityLog -----------------------------
(***************************************************************************)
(* The dashboard's activity log (peeka/tui/views/dashboard_activity.py) and  *)
(* the buffer of the application it is filled from (tui/app.py).  Any thread  *)
(* reports: it numbers its entry under the buffer's lock and then hands it to *)
(* the listeners, a worker by way of the UI thread.  The dashboard replays    *)
(* the buffer when it is opened and when it is shown again, and skips what is *)
(* not newer than what it has.  The agent's lines come from its log file,     *)
(* once, and after that from the stream.                                     *)
(***************************************************************************)
EXTENDS Naturals, Sequences, SequencesExt

CONSTANTS Reporters,    \* worker threads that report
          MaxEntries,   \* bound: entries reported
          ActivityLimit, \* entries the buffer keeps
          MaxLines,     \* bound: lines the agent logs
          LateFile      \* TRUE: the log file may not be there yet when asked for

ASSUME ActivityAssumption ==
    /\ MaxEntries \in Nat /\ ActivityLimit \in Nat \ {0} /\ MaxLines \in Nat
    /\ LateFile \in BOOLEAN

VARIABLES entries,   \* _activity_entries: the numbers of those kept
          seq,       \* _activity_seq
          dashPhase,     \* the dashboard: closed, replayed, open, gone
          visible,   \* _active
          lastSeq,   \* _last_client_activity_seq
          clientLog, \* entries of the application in the log
          handed,    \* the entry a reporter waits for the UI thread to take; 0: none
          contended, \* history: entries reported while another was under way, or
                     \* between the replay and the registration, or dropped
          lines,     \* lines in the agent's log file
          feed,    \* lines on their way to the dashboard
          joined,    \* there is a stream
          loaded,    \* _agent_history_loaded
          agentLog,  \* lines in the log
          again      \* history: the file was first there after lines had been streamed

buffer == <<entries, seq, handed, contended>>
clientSide == <<lastSeq, clientLog>>
agentLines == <<lines, feed, joined, loaded, agentLog, again>>
activityVars == <<buffer, dashPhase, visible, clientSide, agentLines>>

NoEntry == 0

ActivityInit ==
    /\ entries = <<>> /\ seq = 0 /\ handed = [t \in Reporters |-> NoEntry] /\ contended = {}
    /\ dashPhase = "closed" /\ visible = TRUE /\ lastSeq = 0 /\ clientLog = <<>>
    /\ lines = 0 /\ feed = <<>> /\ joined = FALSE /\ loaded = FALSE
    /\ agentLog = <<>> /\ again = FALSE

-----------------------------------------------------------------------------
(* Reporting *)

Listening == dashPhase = "open"
Kept(s) == SubSeq(s, 1 + (IF Len(s) > ActivityLimit THEN Len(s) - ActivityLimit ELSE 0), Len(s))

\* What a further entry makes uncertain: what is under way, itself when something
\* is, what falls out of the buffer unseen, and what is not listened to yet.
Contention == LET underWay == {handed[t] : t \in Reporters} \ {NoEntry}
                  dropped == {n \in Range(entries) : n \notin Range(Kept(Append(entries, seq + 1)))}
              IN  underWay \cup dropped
                  \cup (IF underWay # {} \/ dashPhase = "replayed" THEN {seq + 1} ELSE {})

\* record_client_activity up to the listeners: numbered, kept, the oldest dropped.
Number ==
    /\ seq < MaxEntries
    /\ seq' = seq + 1 /\ entries' = Kept(Append(entries, seq + 1))
    /\ contended' = contended \cup Contention

\* Mutated form: a number that is not larger is taken all the same.
Anyway(n) == n > 0

\* _ingest_client_activity_entry.
Newer(n) == n > lastSeq

Ingest(n) ==
    /\ lastSeq' = IF Newer(n) THEN n ELSE lastSeq
    /\ clientLog' = IF Newer(n) /\ dashPhase # "gone" THEN Append(clientLog, n) ELSE clientLog

\* The UI thread reports, and the listener runs at once.
ReportFromUI ==
    /\ Number
    /\ IF Listening THEN Ingest(seq + 1) ELSE UNCHANGED clientSide
    /\ UNCHANGED <<handed, dashPhase, visible, agentLines>>

ReportFromWorker(t) ==
    /\ handed[t] = NoEntry /\ Number
    /\ handed' = IF Listening THEN [handed EXCEPT ![t] = seq + 1] ELSE handed
    /\ UNCHANGED <<dashPhase, visible, clientSide, agentLines>>

\* call_from_thread: the UI thread takes the entry, also for a view that is gone.
Take(t) ==
    /\ handed[t] # NoEntry
    /\ Ingest(handed[t])
    /\ handed' = [handed EXCEPT ![t] = NoEntry]
    /\ UNCHANGED <<entries, seq, contended, dashPhase, visible, agentLines>>

-----------------------------------------------------------------------------
(* The dashboard opens, is hidden, shown and left *)

\* _load_client_activity_history: what is newer, in the order of the buffer.
Replay == LET new == SelectSeq(entries, Newer)
          IN  /\ lastSeq' = IF new = <<>> THEN lastSeq ELSE Last(new)
              /\ clientLog' = clientLog \o new

FirstLines == [n \in 1..lines |-> n]

\* _load_persisted_activity_history, if the file is there.
LoadFile(there) ==
    IF loaded \/ ~there THEN UNCHANGED <<loaded, agentLog, again>>
    ELSE /\ loaded' = TRUE
         /\ agentLog' = agentLog \o FirstLines
         /\ again' = (agentLog # <<>> \/ feed # <<>>)

There(there) == there \/ LateFile

\* set_client, up to the registration of the listener.
OpenDashboard ==
    /\ dashPhase = "closed" /\ dashPhase' = "replayed"
    /\ Replay
    /\ UNCHANGED <<buffer, visible, agentLines>>

\* The registration, the file, the stream.
Register(there, connected) ==
    /\ dashPhase = "replayed" /\ There(there) /\ dashPhase' = "open"
    /\ LoadFile(there)
    /\ joined' = connected
    /\ UNCHANGED <<buffer, visible, clientSide, lines, feed>>

HideDashboard ==
    /\ dashPhase = "open" /\ visible /\ visible' = FALSE
    /\ joined' = FALSE /\ feed' = <<>>
    /\ UNCHANGED <<buffer, dashPhase, clientSide, lines, loaded, agentLog, again>>

\* The file first, then the entries; then the stream again.
ShowDashboard(there, connected) ==
    /\ dashPhase = "open" /\ ~visible /\ visible' = TRUE /\ There(there)
    /\ Replay /\ LoadFile(there)
    /\ joined' = connected
    /\ UNCHANGED <<buffer, dashPhase, lines, feed>>

LeaveDashboard ==
    /\ dashPhase = "open" /\ dashPhase' = "gone"
    /\ joined' = FALSE /\ feed' = <<>>
    /\ UNCHANGED <<buffer, visible, clientSide, lines, loaded, agentLog, again>>

-----------------------------------------------------------------------------
(* The agent's lines *)

AgentLogs ==
    /\ lines < MaxLines /\ lines' = lines + 1
    /\ feed' = IF joined THEN Append(feed, lines + 1) ELSE feed
    /\ UNCHANGED <<buffer, dashPhase, visible, clientSide, joined, loaded, agentLog, again>>

\* _stream_activity_log_messages.
TakeLine ==
    /\ feed # <<>>
    /\ agentLog' = Append(agentLog, Head(feed)) /\ feed' = Tail(feed)
    /\ UNCHANGED <<buffer, dashPhase, visible, clientSide, lines, joined, loaded, again>>

ActivityNext ==
    \/ ReportFromUI
    \/ \E t \in Reporters : ReportFromWorker(t) \/ Take(t)
    \/ OpenDashboard \/ HideDashboard \/ LeaveDashboard
    \/ \E there, connected \in BOOLEAN : Register(there, connected) \/ ShowDashboard(there, connected)
    \/ AgentLogs \/ TakeLine

ActivitySpec == ActivityInit /\ [][ActivityNext]_activityVars

-----------------------------------------------------------------------------
(* Properties *)

ActivityTypeOK ==
    /\ seq \in 0..MaxEntries /\ lastSeq \in 0..seq /\ Len(entries) <= ActivityLimit
    /\ dashPhase \in {"closed", "replayed", "open", "gone"}
    /\ handed \in [Reporters -> 0..MaxEntries]
    /\ lines \in 0..MaxLines /\ Range(feed) \cup Range(agentLog) \subseteq 1..lines

Rising(s) == \A k \in 1..Len(s) - 1 : s[k] < s[k + 1]

\* The log shows nothing twice and keeps the order of each source, replays
\* included: the agent's lines unless the file turned up after the stream had
\* begun; and an entry is passed over only if it was reported while another was on
\* its way, or before the dashboard listened.
LogFaithful ==
    /\ Rising(clientLog) /\ (~again => Rising(agentLog))
    /\ dashPhase = "open" => \A n \in (1..lastSeq) \ contended : n \in Range(clientLog)
=============================================================================
