------------------------------ MODULE Dashboard ------------------------------
(***************************************************************************)
(* The TUI's dashboard (peeka/tui/views/dashboard.py): two connections of    *)
(* its own, one for data and one for the agent's log, which it gives up      *)
(* while its tab is hidden.  Every refresh is a worker thread that sends a    *)
(* few commands and, when the connection fails, makes a new one and tries     *)
(* once more; a log worker reads the second connection.  _own_client_lock     *)
(* is taken by the workers and by the UI thread; a connection that is made or *)
(* closed is reported to the activity log, and a worker that reports waits    *)
(* for the UI thread to take the entry (call_from_thread).                   *)
(***************************************************************************)
EXTENDS Naturals, FiniteSets

CONSTANTS Fetchers,  \* refresh workers
          LogWorkers,
          MaxConns,  \* bound: connections made
          MaxHides   \* bound: times the tab is hidden

ASSUME DashAssumption == MaxConns \in Nat /\ MaxHides \in Nat

Conns == 1..MaxConns
None == 0   \* no connection of its own: _own_client or _client is the latter
NoWorker == "nobody"
TheUI == "ui"

VARIABLES clientSet,  \* set_client has been called
          tabShown, mounted, lost,  \* _active, the view is there, connection lost
          own, logs,  \* _own_client, _stream_client
          conn,       \* connections: new, open, broken (by the agent), closed
          agentUp,
          lock,       \* who holds _own_client_lock
          uiThread,   \* free, or what it wants the lock for
          fetch,      \* workers: where they are, the client they use
          reader,     \* log workers: likewise, and whether they were cancelled
          logWorker,  \* _log_worker
          hides, late \* history: a worker reconnected after the tab was hidden

view == <<clientSet, tabShown, mounted, lost, hides>>
conns == <<own, logs, conn, agentUp>>
dashVars == <<view, conns, lock, uiThread, fetch, reader, logWorker, late>>

DashInit ==
    /\ clientSet = FALSE /\ tabShown = TRUE /\ mounted = TRUE /\ lost = FALSE /\ hides = 0
    /\ own = None /\ logs = None /\ conn = [c \in Conns |-> "new"] /\ agentUp = TRUE
    /\ lock = NoWorker /\ uiThread = "free"
    /\ fetch = [f \in Fetchers |-> [at |-> "idle", on |-> None]]
    /\ reader = [w \in LogWorkers |-> [at |-> "none", on |-> None, cancelled |-> FALSE]]
    /\ logWorker = NoWorker /\ late = FALSE

Works(c) == IF c = None THEN agentUp ELSE conn[c] = "open"
Closed(cs) == [c \in Conns |-> IF c \in cs /\ conn[c] # "new" THEN "closed" ELSE conn[c]]
NextConn(table, n) == /\ n \in Conns /\ table[n] = "new"
                      /\ \A c \in Conns : c < n => table[c] # "new"

\* connect(): a new connection, or a failure.
Connected(table, n, after) ==
    \/ agentUp /\ NextConn(table, n) /\ after = [table EXCEPT ![n] = "open"]
    \/ n = None /\ after = table

-----------------------------------------------------------------------------
(* Workers started and cancelled by the UI thread *)

\* _start_log_worker, with the stream client s.
StartLog(s) ==
    IF tabShown' /\ ~lost /\ s # None /\ logWorker = NoWorker
    THEN /\ \E w \in LogWorkers : reader[w].at = "none" /\ logWorker' = w
         /\ reader' = [reader EXCEPT ![logWorker'] =
                          [at |-> "begun", on |-> None, cancelled |-> FALSE]]
    ELSE UNCHANGED <<reader, logWorker>>

StopLog ==
    /\ reader' = IF logWorker = NoWorker THEN reader
                 ELSE [reader EXCEPT ![logWorker].cancelled = TRUE]
    /\ logWorker' = NoWorker

\* set_client: nobody else is there to contend for the lock.
SetClient(n, s) ==
    /\ ~clientSet /\ clientSet' = TRUE
    /\ \E middle \in [Conns -> {"new", "open"}] :
          Connected(conn, n, middle) /\ Connected(middle, s, conn')
    /\ own' = n /\ logs' = s /\ UNCHANGED <<tabShown, mounted, lost, hides>> /\ StartLog(s)
    /\ UNCHANGED <<agentUp, lock, uiThread, fetch, late>>

\* _refresh_dashboard_sync, by hand, from the periodic worker or when shown.
Refresh(f) ==
    /\ uiThread = "free" /\ clientSet /\ tabShown /\ ~lost /\ mounted
    /\ fetch[f].at = "idle"
    /\ fetch' = [fetch EXCEPT ![f] = [at |-> "sending", on |-> own]]
    /\ UNCHANGED <<view, conns, lock, uiThread, reader, logWorker, late>>

\* set_active(False).
Hide ==
    /\ uiThread = "free" /\ tabShown /\ mounted /\ clientSet /\ hides < MaxHides
    /\ tabShown' = FALSE /\ hides' = hides + 1 /\ uiThread' = "closing"
    /\ StopLog
    /\ UNCHANGED <<clientSet, mounted, lost, conns, lock, fetch, late>>

Unmount ==
    /\ uiThread = "free" /\ mounted /\ clientSet
    /\ uiThread' = "leaving"
    /\ StopLog
    /\ UNCHANGED <<view, conns, lock, fetch, late>>

\* _disconnect_dedicated_clients; on_unmount goes on to unregister its listener.
Disconnect ==
    /\ uiThread \in {"closing", "leaving"} /\ lock = NoWorker
    /\ conn' = Closed({own, logs}) /\ own' = None /\ logs' = None
    /\ mounted' = (uiThread # "leaving") /\ uiThread' = "free"
    /\ UNCHANGED <<clientSet, tabShown, lost, hides, agentUp, lock, fetch, reader, logWorker, late>>

\* set_active(True): what is missing is connected, under the lock if it is own.
Show(n, s) ==
    /\ uiThread = "free" /\ ~tabShown /\ mounted /\ (own = None => lock = NoWorker)
    /\ tabShown' = TRUE /\ UNCHANGED <<clientSet, mounted, lost, hides>>
    /\ \E middle \in [Conns -> {"new", "open", "broken", "closed"}] :
          /\ IF own = None THEN Connected(conn, n, middle) ELSE n = own /\ middle = conn
          /\ IF logs = None THEN Connected(middle, s, conn') ELSE s = logs /\ conn' = middle
    /\ own' = n /\ logs' = s
    /\ IF logs = None THEN StartLog(s) ELSE UNCHANGED <<reader, logWorker>>
    /\ UNCHANGED <<agentUp, lock, uiThread, fetch, late>>

-----------------------------------------------------------------------------
(* A refresh worker *)

FetcherAt(f, here, there) == fetch[f].at = here /\ fetch' = [fetch EXCEPT ![f].at = there]

\* On to the next command, or done.
GoesOn(f) == \E on \in {own, None}, at \in {"idle", "sending"} :
    /\ at = "idle" => on = None
    /\ at = "sending" => on = own
    /\ fetch' = [fetch EXCEPT ![f] = [at |-> at, on |-> on]]

\* One command is answered, or fails; there are several in a refresh.
Answered(f) ==
    /\ fetch[f].at = "sending"
    /\ IF Works(fetch[f].on)
       THEN GoesOn(f)
       ELSE fetch' = [fetch EXCEPT ![f] = [at |-> IF lost THEN "losing" ELSE "waiting", on |-> None]]
    /\ UNCHANGED <<view, conns, lock, uiThread, reader, logWorker, late>>

\* Mutated form: the old connection is only forgotten.
NothingSuperseded == {}

\* _connect_own_client: what disconnect() is called on.
Superseded == {own}

\* _connect_own_client: the lock, and the connection there is now is closed.
TakeLock(f) ==
    /\ FetcherAt(f, "waiting", "closing") /\ lock = NoWorker /\ lock' = f
    /\ conn' = Closed(Superseded)
    /\ late' = (late \/ ~tabShown \/ ~mounted)
    /\ UNCHANGED <<view, own, logs, agentUp, uiThread, reader, logWorker>>

\* A report is taken by the UI thread, as long as the view listens.
Reported == mounted => uiThread = "free"

Reconnect(f, n) ==
    /\ FetcherAt(f, "closing", "connecting") /\ (own # None => Reported)
    /\ Connected(conn, n, conn')
    /\ own' = n
    /\ UNCHANGED <<view, logs, agentUp, lock, uiThread, reader, logWorker, late>>

ReleaseLock(f) ==
    /\ FetcherAt(f, "connecting", "chosen") /\ Reported
    /\ lock' = NoWorker
    /\ UNCHANGED <<view, conns, uiThread, reader, logWorker, late>>

\* The client for the second try is looked up without the lock.
Retry(f) ==
    /\ fetch[f].at = "chosen"
    /\ fetch' = [fetch EXCEPT ![f] = IF own = None THEN [at |-> "losing", on |-> None]
                                     ELSE [at |-> "retrying", on |-> own]]
    /\ UNCHANGED <<view, conns, lock, uiThread, reader, logWorker, late>>

RetryAnswered(f) ==
    /\ fetch[f].at = "retrying"
    /\ IF Works(fetch[f].on)
       THEN GoesOn(f)
       ELSE fetch' = [fetch EXCEPT ![f] = [at |-> "losing", on |-> None]]
    /\ UNCHANGED <<view, conns, lock, uiThread, reader, logWorker, late>>

\* _handle_dashboard_connection_lost, in the UI thread: the first call closes
\* everything.
Lose ==
    /\ uiThread = "free" /\ lost' = TRUE
    /\ IF lost THEN UNCHANGED <<uiThread, reader, logWorker>> ELSE uiThread' = "closing" /\ StopLog
    /\ UNCHANGED <<clientSet, tabShown, mounted, hides, conns, lock, late>>

FetcherLoses(f) ==
    /\ fetch[f].at = "losing" /\ fetch' = [fetch EXCEPT ![f] = [at |-> "idle", on |-> None]]
    /\ Lose

-----------------------------------------------------------------------------
(* The log worker *)

\* Which client it reads is decided when it begins: the shared one if the tab was
\* hidden meanwhile.
BeginReading(w) ==
    /\ reader[w].at = "begun"
    /\ reader' = [reader EXCEPT ![w].at = "reading", ![w].on = logs]
    /\ UNCHANGED <<view, conns, lock, uiThread, fetch, logWorker, late>>

Read == [at |-> "none", on |-> None, cancelled |-> FALSE]

\* The connection ends, or one more frame comes to a worker that was cancelled.
EndReading(w) ==
    /\ reader[w].at = "reading" /\ (reader[w].cancelled \/ ~Works(reader[w].on))
    /\ reader' = [reader EXCEPT ![w] = IF @.cancelled \/ ~tabShown THEN Read
                                       ELSE [Read EXCEPT !.at = "losing"]]
    /\ UNCHANGED <<view, conns, lock, uiThread, fetch, logWorker, late>>

ReaderLoses(w) ==
    /\ reader[w].at = "losing"
    /\ uiThread = "free" /\ lost' = TRUE
    /\ IF lost THEN reader' = [reader EXCEPT ![w] = Read] /\ UNCHANGED <<uiThread, logWorker>>
       ELSE /\ uiThread' = "closing" /\ logWorker' = NoWorker
            /\ reader' = [v \in LogWorkers |->
                  IF v = w THEN Read ELSE [reader[v] EXCEPT !.cancelled = @ \/ v = logWorker]]
    /\ UNCHANGED <<clientSet, tabShown, mounted, hides, conns, lock, fetch, late>>

-----------------------------------------------------------------------------
(* The agent drops a connection, or goes *)

AgentDrops(c) ==
    /\ conn[c] = "open" /\ conn' = [conn EXCEPT ![c] = "broken"]
    /\ UNCHANGED <<view, own, logs, agentUp, lock, uiThread, fetch, reader, logWorker, late>>

AgentGoes ==
    /\ agentUp /\ agentUp' = FALSE
    /\ conn' = [c \in Conns |-> IF conn[c] = "open" THEN "broken" ELSE conn[c]]
    /\ UNCHANGED <<view, own, logs, lock, uiThread, fetch, reader, logWorker, late>>

FetchSteps(f) ==
    \/ Answered(f) \/ TakeLock(f) \/ (\E n \in Conns \cup {None} : Reconnect(f, n))
    \/ ReleaseLock(f) \/ Retry(f) \/ RetryAnswered(f) \/ FetcherLoses(f)

DashNext ==
    \/ \E n, s \in Conns \cup {None} : SetClient(n, s) \/ Show(n, s)
    \/ Hide \/ Unmount \/ Disconnect
    \/ \E f \in Fetchers : Refresh(f) \/ FetchSteps(f)
    \/ \E w \in LogWorkers : BeginReading(w) \/ EndReading(w) \/ ReaderLoses(w)
    \/ \E c \in Conns : AgentDrops(c)
    \/ AgentGoes

DashSpec == DashInit /\ [][DashNext]_dashVars

-----------------------------------------------------------------------------
(* Properties *)

DashTypeOK ==
    /\ {own, logs} \subseteq 0..MaxConns /\ uiThread \in {"free", "closing", "leaving"}
    /\ conn \in [Conns -> {"new", "open", "broken", "closed"}]
    /\ lock \in Fetchers \cup {NoWorker} /\ logWorker \in LogWorkers \cup {NoWorker}
    /\ \A f \in Fetchers : fetch[f].on \in 0..MaxConns
    /\ \A w \in LogWorkers : reader[w].on \in 0..MaxConns

\* However refreshes, tab switches and the loss of connections interleave: no
\* connection stays open that the dashboard no longer knows; while it is hidden or
\* gone it has none, once the refreshes under way are done, unless one of them
\* reconnected afterwards, as it does when its connection is closed under it.
ConnectionsKnown ==
    /\ \A c \in Conns : conn[c] = "open" => c \in {own, logs}
    /\ (~tabShown \/ ~mounted) /\ uiThread = "free"
          /\ (\A f \in Fetchers : fetch[f].at = "idle")
          /\ ~late => logs = None /\ own = None
=============================================================================
