----------------------------- MODULE ViewTables -----------------------------
(***************************************************************************)
(* What the TUI's streaming views show (peeka/tui/views: watch, trace, stack, *)
(* monitor): the table of probes with their status, the table of observations *)
(* whose newest row the cursor follows, the detail or tree of the row that is  *)
(* highlighted.  A move of the cursor is reported by a message, which is       *)
(* handled later: rows may have been added since.  A handler started by a key  *)
(* and one started by a button interleave where they await a command.          *)
(*                                                                         *)
(* Which worker gets which frame is the subject of StreamViews; here a worker   *)
(* hands over the observations of its own probe, and commands succeed.          *)
(***************************************************************************)
EXTENDS Naturals, FiniteSets, Sequences, SequencesExt

CONSTANTS Tables,       \* the views considered: watch, trace, stack, monitor
          Starts,       \* what the user starts
          Patternings,  \* the pattern of each: the functions considered
          MaxRows,      \* MAX_OBSERVATIONS, and 100 for the observations of a pattern
          MaxShown      \* bound: observations handed over

ASSUME TablesAssumption ==
    Tables \subseteq {"watch", "trace", "stack", "monitor"} /\ MaxRows \in Nat \ {0} /\ MaxShown \in Nat

VARIABLES table, patternFor,
          startAt,    \* of each start: new, asked, started (by the agent), listed
          actives,    \* _active_watches, _active_traces, _workers
          toHalt,     \* a stop-all still has to go through these
          halting,    \* what it awaits: <<start, command, answered>>; idle, or ending
          workers,    \* not cancelled
          inHand,     \* workers inside call_from_thread
          inAgent,    \* the probes that run
          shownCount, \* _obs_counter, _capture_seq
          kept,       \* _observations, _stack_cache
          rows,       \* the table of observations: its row keys
          cursor, follow,
          detail,     \* the observation the detail panel shows; 0: none
          notices,    \* RowHighlighted messages: row, index, by whom
          status,     \* the table of probes: none, Running, Stopped, by its row keys
          byPattern,  \* _observations_by_pattern, newest first
          selected, tree,
          away,       \* history: the user has selected a row
          overrun,    \* history: a row had moved, or was not the last any more, when the
                      \* message about it was handled
          crossed     \* history: starts under way at the same time as a stop-all

askedState == <<startAt, actives, toHalt, halting, workers, inAgent, crossed>>
rowState == <<shownCount, kept, rows, cursor, follow, detail, away, overrun>>
traceState == <<byPattern, selected, tree>>
tableVars == <<table, patternFor, askedState, inHand, rowState, notices, status, traceState>>

NotHalting == <<"idle">>
Ending == <<"ending">>
NoPattern == "none"
AllPatterns == UNION {{f[s] : s \in Starts} : f \in Patternings}
NoTree == [of |-> NoPattern, list |-> <<>>]

TablesInit ==
    /\ table \in Tables /\ patternFor \in Patternings
    /\ startAt = [s \in Starts |-> "new"]
    /\ actives = {} /\ toHalt = {} /\ halting = NotHalting /\ workers = {} /\ inHand = {} /\ inAgent = {}
    /\ shownCount = 0 /\ kept = <<>> /\ rows = <<>> /\ cursor = 0 /\ follow = TRUE /\ detail = 0
    /\ notices = <<>> /\ status = [k \in Starts \cup AllPatterns |-> "none"]
    /\ byPattern = [p \in AllPatterns |-> <<>>] /\ selected = NoPattern /\ tree = NoTree
    /\ away = FALSE /\ overrun = FALSE /\ crossed = {}

\* The trace view keeps one row per pattern, the others one per probe.
RowKey(s) == IF table = "trace" THEN patternFor[s] ELSE s
Same(s) == {k \in Starts : patternFor[k] = patternFor[s]}
UnderWay == {s \in Starts : startAt[s] \in {"asked", "started"}}
Newest(n, q) == SubSeq(q, IF Len(q) > n THEN Len(q) - n + 1 ELSE 1, Len(q))

-----------------------------------------------------------------------------
(* Starting *)

Ask(s) ==
    /\ startAt[s] = "new" /\ startAt' = [startAt EXCEPT ![s] = "asked"]
    /\ crossed' = IF halting = NotHalting THEN crossed ELSE crossed \cup {s}
    /\ UNCHANGED <<table, patternFor, actives, toHalt, halting, workers, inAgent, inHand, rowState,
                   notices, status, traceState>>

AgentStarts(s) ==
    /\ startAt[s] = "asked" /\ startAt' = [startAt EXCEPT ![s] = "started"]
    /\ inAgent' = inAgent \cup {s}
    /\ UNCHANGED <<table, patternFor, actives, toHalt, halting, workers, inHand, rowState, notices,
                   status, traceState, crossed>>

\* The watch view removes the rows of stopped watches of the pattern, the trace view
\* takes the pattern's row again; its first pattern is selected, and reported.
Listed(s) ==
    /\ startAt[s] = "started" /\ startAt' = [startAt EXCEPT ![s] = "listed"]
    /\ actives' = actives \cup {s} /\ workers' = workers \cup {s}
    /\ status' = IF table = "stack" THEN status
                 ELSE [k \in DOMAIN status |->
                         IF k = RowKey(s) THEN "Running"
                         ELSE IF table = "watch" /\ k \in Same(s) /\ status[k] = "Stopped" THEN "none"
                         ELSE status[k]]
    /\ IF table = "trace" /\ selected = NoPattern
       THEN /\ selected' = patternFor[s]
            /\ notices' = Append(notices, [row |-> patternFor[s], index |-> 1, by |-> "view"])
       ELSE UNCHANGED <<selected, notices>>
    /\ UNCHANGED <<table, patternFor, toHalt, halting, inAgent, inHand, rowState, byPattern, tree, crossed>>

-----------------------------------------------------------------------------
(* Observations *)

\* The worker has tested whether it was cancelled, and waits for the UI thread.
HandOver(s) ==
    /\ s \in (workers \cap inAgent) \ inHand /\ inHand' = inHand \cup {s}
    /\ shownCount + Cardinality(inHand) < MaxShown
    /\ UNCHANGED <<table, patternFor, askedState, rowState, notices, status, traceState>>

Taken(s) == s \in inHand /\ inHand' = inHand \ {s} /\ shownCount' = shownCount + 1

\* A full table loses its first row; the cursor, if it was on the last one, may be
\* moved up and reported for it.
RowsLeft == IF Len(rows) < MaxRows THEN rows ELSE Tail(rows)

\* _add_observation of the watch view.
AddObservation(s) ==
    /\ table = "watch" /\ Taken(s)
    /\ kept' = Newest(MaxRows, Append(kept, shownCount'))
    /\ \E up \in BOOLEAN :
          LET room == RowsLeft
              moved == IF up THEN <<[row |-> Last(room), index |-> Len(room), by |-> "view"]>> ELSE <<>>
          IN /\ up => Len(room) < Len(rows) /\ cursor = Len(rows) /\ room # <<>>
             /\ rows' = Append(room, shownCount')
             /\ notices' = notices \o moved \o
                           (IF follow /\ (up \/ cursor # Len(rows'))
                            THEN <<[row |-> shownCount', index |-> Len(rows'), by |-> "view"]>> ELSE <<>>)
    /\ cursor' = IF follow THEN Len(rows') ELSE cursor
    /\ detail' = IF follow THEN shownCount' ELSE detail
    /\ UNCHANGED <<table, patternFor, askedState, follow, away, overrun, status, traceState>>

\* The detail panel shows an observation the view still has.
Detail(row) == IF Contains(kept, row) THEN row ELSE detail

\* The call tree: the pattern's observations, with their callees, summed up and one by one.
TreeOf(p) == [of |-> p, list |-> byPattern[p]]

\* _update_stack_ui: nothing is ever removed.
AddCapture(s) ==
    /\ table = "stack" /\ Taken(s)
    /\ kept' = Append(kept, shownCount') /\ rows' = Append(rows, shownCount')
    /\ IF follow
       THEN /\ cursor' = Len(rows')
            /\ notices' = Append(notices, [row |-> shownCount', index |-> Len(rows'), by |-> "view"])
       ELSE UNCHANGED <<cursor, notices>>
    /\ UNCHANGED <<table, patternFor, askedState, follow, detail, away, overrun, status, traceState>>

\* _add_trace_observation: under its pattern, while its trace is listed.
AddTrace(s) ==
    LET p == patternFor[s]
        list == SubSeq(<<shownCount'>> \o byPattern[p], 1,
                       IF Len(byPattern[p]) < MaxRows THEN Len(byPattern[p]) + 1 ELSE MaxRows)
    IN /\ table = "trace" /\ Taken(s)
       /\ IF s \in actives
          THEN /\ byPattern' = [byPattern EXCEPT ![p] = list]
               /\ tree' = IF selected = p THEN [of |-> p, list |-> byPattern'[p]] ELSE tree
          ELSE UNCHANGED <<byPattern, tree>>
       /\ UNCHANGED <<table, patternFor, askedState, kept, rows, cursor, follow, detail, away,
                      overrun, notices, status, selected>>

\* _update_stats_ui: the cells of a row that may be gone.
UpdateStats(s) ==
    /\ table = "monitor" /\ Taken(s)
    /\ UNCHANGED <<table, patternFor, askedState, kept, rows, cursor, follow, detail, away,
                   overrun, notices, status, traceState>>

-----------------------------------------------------------------------------
(* The cursor *)

UserSelects(i) ==
    /\ table \in {"watch", "stack"} /\ ~away /\ i \in 1..Len(rows) /\ i # cursor
    /\ cursor' = i /\ away' = TRUE
    /\ notices' = Append(notices, [row |-> rows[i], index |-> i, by |-> "user"])
    /\ UNCHANGED <<table, patternFor, askedState, inHand, shownCount, kept, rows, follow, detail,
                   overrun, status, traceState>>

UserSelectsPattern(p) ==
    /\ table = "trace" /\ ~away /\ status[p] # "none" /\ away' = TRUE
    /\ notices' = Append(notices, [row |-> p, index |-> 0, by |-> "user"])
    /\ UNCHANGED <<table, patternFor, askedState, inHand, shownCount, kept, rows, cursor, follow,
                   detail, overrun, status, traceState>>

IsLast(n) == n.index = Len(rows)

\* on_data_table_row_highlighted
RowHighlighted ==
    /\ notices # <<>> /\ notices' = Tail(notices)
    /\ LET n == Head(notices) IN
       IF table = "trace"
       THEN /\ selected' = n.row /\ tree' = TreeOf(n.row)
            /\ UNCHANGED <<follow, overrun, detail>>
       ELSE /\ follow' = IsLast(n)
            /\ overrun' = (overrun \/ rows[n.index] # n.row \/ (n.by = "view" /\ n.index < Len(rows)))
            /\ detail' = Detail(n.row)
            /\ UNCHANGED <<selected, tree>>
    /\ UNCHANGED <<table, patternFor, askedState, inHand, shownCount, kept, rows, cursor, away,
                   status, byPattern>>

-----------------------------------------------------------------------------
(* Stopping *)

\* A stop-all goes through a snapshot of the list.
HaltAll ==
    /\ halting = NotHalting /\ actives # {} /\ toHalt' = actives /\ halting' = Ending
    /\ crossed' = crossed \cup UnderWay
    /\ UNCHANGED <<table, patternFor, startAt, actives, workers, inAgent, inHand, rowState, notices,
                   status, traceState>>

HaltNext(s) ==
    /\ halting = Ending /\ s \in toHalt /\ toHalt' = toHalt \ {s}
    /\ workers' = workers \ {s} /\ halting' = <<s, "stop", FALSE>>
    /\ UNCHANGED <<table, patternFor, startAt, actives, inAgent, inHand, rowState, notices, status,
                   traceState, crossed>>

\* The agent handles the stop, or the reset: of the pattern, or of everything.
AgentHalts ==
    /\ halting \notin {NotHalting, Ending} /\ ~halting[3] /\ halting' = [halting EXCEPT ![3] = TRUE]
    /\ inAgent' = inAgent \ (IF halting[2] = "stop" THEN {halting[1]}
                             ELSE IF table = "stack" THEN Starts ELSE Same(halting[1]))
    /\ UNCHANGED <<table, patternFor, startAt, actives, toHalt, workers, inHand, rowState, notices,
                   status, traceState, crossed>>

\* A monitor is only stopped, the others are reset too; a trace's row says so then.
Halted ==
    /\ halting \notin {NotHalting, Ending} /\ halting[3]
    /\ halting' = IF halting[2] = "stop" /\ table # "monitor"
                  THEN <<halting[1], "reset", FALSE>> ELSE Ending
    /\ status' = IF halting[2] = "reset" /\ table = "trace" /\ status[RowKey(halting[1])] # "none"
                 THEN [status EXCEPT ![RowKey(halting[1])] = "Stopped"] ELSE status
    /\ UNCHANGED <<table, patternFor, startAt, actives, toHalt, workers, inAgent, inHand, rowState,
                   notices, traceState, crossed>>

\* The end: a watch's row says it has stopped, a monitor's goes.
Marked(k) ==
    IF table = "watch" /\ k \in actives /\ status[k] # "none" THEN "Stopped"
    ELSE IF table = "monitor" THEN "none" ELSE status[k]

HaltEnds ==
    /\ halting = Ending /\ toHalt = {} /\ halting' = NotHalting /\ actives' = {}
    /\ status' = [k \in DOMAIN status |-> Marked(k)]
    /\ UNCHANGED <<table, patternFor, startAt, toHalt, workers, inAgent, inHand, rowState, notices,
                   traceState, crossed>>

\* action_clear_tree, when nothing is to be stopped (any more).
ClearTree ==
    /\ table = "trace" /\ halting = NotHalting /\ actives = {}
    /\ tree' = NoTree /\ selected' = NoPattern
    /\ byPattern' = [p \in AllPatterns |-> <<>>]
    /\ status' = [k \in DOMAIN status |-> "none"]
    /\ UNCHANGED <<table, patternFor, askedState, inHand, rowState, notices>>

TablesNext ==
    \/ \E s \in Starts : Ask(s) \/ AgentStarts(s) \/ Listed(s) \/ HandOver(s)
    \/ \E s \in Starts : AddObservation(s) \/ AddCapture(s) \/ AddTrace(s) \/ UpdateStats(s)
    \/ \E i \in 1..MaxShown : UserSelects(i)
    \/ \E p \in AllPatterns : UserSelectsPattern(p)
    \/ RowHighlighted
    \/ \E s \in Starts : HaltNext(s)
    \/ HaltAll \/ AgentHalts \/ Halted \/ HaltEnds \/ ClearTree

TablesSpec == TablesInit /\ [][TablesNext]_tableVars

-----------------------------------------------------------------------------
(* Properties *)

TablesTypeOK ==
    /\ table \in Tables /\ patternFor \in Patternings
    /\ startAt \in [Starts -> {"new", "asked", "started", "listed"}]
    /\ actives \cup workers \cup inHand \cup inAgent \cup toHalt \subseteq Starts
    /\ shownCount <= MaxShown /\ cursor <= Len(rows) /\ detail <= shownCount
    /\ \A k \in DOMAIN status : status[k] \in {"none", "Running", "Stopped"}
    /\ selected \in AllPatterns \cup {NoPattern} /\ tree.of \in AllPatterns \cup {NoPattern}

\* Of every row the view still has the observation, in the table's order, and of a
\* pattern it keeps the newest ones, newest first.
RowsBacked ==
    /\ rows = kept /\ (table = "watch" => Len(rows) <= MaxRows)
    /\ \A p \in AllPatterns :
          /\ Len(byPattern[p]) <= MaxRows
          /\ \A i \in 1..Len(byPattern[p]) - 1 : byPattern[p][i] > byPattern[p][i + 1]

\* With all messages handled, a view that follows shows the newest observation, one
\* that does not was told so by the user (the comments at watch.py:430 and
\* stack.py:152), unless messages were overrun by observations; and the call tree
\* is that of the selected pattern with all its observations.
ShownIsCurrent ==
    notices = <<>> =>
       /\ follow /\ kept # <<>> => detail = Last(kept) \/ overrun
       /\ follow \/ away \/ overrun
       /\ selected # NoPattern => tree = TreeOf(selected)

\* While nothing is being stopped, what is said to run does, and what runs is said to,
\* but for starts that were under way during a stop-all.
StatusTrue ==
    halting = NotHalting /\ table # "stack" =>
       \A s \in Starts : startAt[s] = "listed" /\ Same(s) \cap crossed = {} =>
          (s \in inAgent => status[RowKey(s)] = "Running" /\ s \in actives)
          /\ (s \notin inAgent => status[RowKey(s)] # "Running"
                                  \/ \E k \in Same(s) \cap inAgent : RowKey(k) = RowKey(s))

TablesSound == RowsBacked /\ ShownIsCurrent /\ StatusTrue
=============================================================================
