---------------------------- MODULE TraceBackends ----------------------------
(***************************************************************************)
(* How a trace finds the direct callees of one traced call                  *)
(* (peeka/core/instrumentation/trace_backends.py).  The sys.monitoring      *)
(* backend and the sys.settrace backend follow the same execution side by   *)
(* side here, each by the events it gets: a process uses one of them.       *)
(* wrapper_only lists nothing.                                              *)
(*                                                                         *)
(* "Long" is lasting min_duration: who has a long callee is long himself.   *)
(* feature says what the execution may contain besides plain nested calls.  *)
(***************************************************************************)
EXTENDS Naturals, Sequences

CONSTANTS Root,      \* the code object of the traced function
          UserCodes, StdCodes, \* callees; skip_builtin leaves the latter out
          Wrapper,   \* the one code of all trace wrappers: what is called where
                     \* the callee is traced itself
          Features,  \* the values of feature: sets of "recursion", "generators",
                     \* "threads", "nested"
          DepthLimit, EventLimit \* bounds of the execution

ASSUME TraceAssumption ==
    /\ Root \notin UserCodes \cup StdCodes /\ UserCodes \cap StdCodes = {}
    /\ Wrapper \notin UserCodes \cup StdCodes \cup {Root}
    /\ \A f \in Features : f \subseteq {"recursion", "generators", "threads", "nested"}
    /\ DepthLimit \in Nat /\ EventLimit \in Nat

Codes == UserCodes \cup StdCodes \cup {Wrapper}

VARIABLES feature,
          running,   \* frames of the thread that traces, the traced call first
          paused,    \* generator frames that wait to be resumed
          elsewhere, \* calls of another thread in progress
          events,    \* how many there were
          ended,     \* how the traced call ended: "no", "return", "unwind"
          callStack, \* monitoring: call_stack
          completed, \* monitoring: completed_calls, or rather their children
          depth,     \* settrace: current_depth
          calleeStack, \* settrace: direct_callee_stack
          callees,   \* settrace: completed_direct_callees
          tracing,   \* settrace: the thread's trace function is this one
          returned,  \* history: direct callees that returned, by code ...
          raised,    \* ... that raised ...
          heard      \* ... and that did either while the trace function was set

monitoring == <<callStack, completed>>
settrace == <<depth, calleeStack, callees, tracing>>
history == <<returned, raised, heard>>
traceVars == <<feature, running, paused, elsewhere, events, ended,
               monitoring, settrace, history>>

None == [c \in Codes \cup {Root} |-> 0]
More(count, c) == [count EXCEPT ![c] = @ + 1]

TraceInit ==
    /\ feature \in Features
    /\ running = <<>> /\ paused = {} /\ elsewhere = <<>> /\ events = 0 /\ ended = "no"
    /\ callStack = <<>> /\ completed = <<>>
    /\ depth = 0 /\ calleeStack = <<>> /\ callees = None /\ tracing = TRUE
    /\ returned = None /\ raised = None /\ heard = None

Front(s) == SubSeq(s, 1, Len(s) - 1)
Last(s) == s[Len(s)]

-----------------------------------------------------------------------------
(* The events as sys.monitoring delivers them, of every thread. *)

\* Mutated form: one level deeper is recorded, too.
DepthThree == 3

\* The traced function and its direct callees have entries.
Recorded == 2

MonitorCall(c) ==
    callStack' = IF Len(callStack) >= Recorded THEN callStack
                 ELSE Append(callStack, [code |-> c, skipped |-> c \in StdCodes, children |-> None])

\* An entry goes to its parent's children, or is the traced call's own.  A return
\* that does not fit the entry on top is one whose call was not recorded.
MonitorReturn(c, how, long) ==
    IF callStack = <<>> THEN UNCHANGED monitoring
    ELSE LET entry == Last(callStack)
             rest == Front(callStack)
             kept == entry.code = c /\ ~entry.skipped /\ how = "return" /\ long
         IN  /\ callStack' = CASE entry.code # c -> callStack
                               [] kept /\ rest # <<>> ->
                                    [rest EXCEPT ![Len(rest)].children = More(@, c)]
                               [] OTHER -> rest
             /\ completed' = IF kept /\ rest = <<>> THEN Append(completed, entry.children)
                             ELSE completed

\* direct_callees of the observation.
MonitoringCallees == IF completed = <<>> THEN None ELSE completed[1]

-----------------------------------------------------------------------------
(* The events as local_trace gets them, of its own thread. *)

TraceCall(c) ==
    /\ depth' = IF tracing THEN depth + 1 ELSE depth
    /\ calleeStack' = IF tracing /\ depth = 1 /\ c \notin StdCodes
                      THEN Append(calleeStack, c) ELSE calleeStack
    /\ UNCHANGED <<callees, tracing>>

\* Mutated form: the depth is not decremented when a callee below is left.
DepthKept(d) == IF d > 2 THEN d ELSE d - 1

DepthAfter(d) == d - 1

TraceReturn(long) ==
    LET direct == tracing /\ depth = 2 /\ calleeStack # <<>>
    IN  /\ calleeStack' = IF direct THEN Front(calleeStack) ELSE calleeStack
        /\ callees' = IF direct /\ long THEN More(callees, Last(calleeStack)) ELSE callees
        /\ depth' = IF tracing THEN DepthAfter(depth) ELSE depth
        /\ UNCHANGED tracing

-----------------------------------------------------------------------------
(* The execution *)

Frame(c) == [code |-> c, long |-> FALSE]
Running == {running[i].code : i \in DOMAIN running} \cup {g.code : g \in paused}

Tick == events < EventLimit /\ events' = events + 1

StartTraced ==
    /\ running = <<>> /\ ended = "no"
    /\ running' = <<Frame(Root)>>
    /\ MonitorCall(Root) /\ TraceCall(Root)
    /\ UNCHANGED <<feature, paused, elsewhere, events, ended, completed, history>>

\* What may be called: another traced function only in an execution that has some.
Callable == IF "nested" \in feature THEN Codes ELSE Codes \ {Wrapper}

CallCode(c) ==
    /\ running # <<>> /\ Len(running) < DepthLimit /\ Tick
    /\ c \in Running => "recursion" \in feature
    /\ running' = Append(running, Frame(c))
    /\ MonitorCall(c) /\ TraceCall(c)
    /\ UNCHANGED <<feature, paused, elsewhere, ended, completed, history>>

\* Of the frame on top; what it tells of a direct callee goes into the history.
ReturnFrom(how, long) ==
    /\ running # <<>> /\ (Last(running).long => long)
    /\ LET c == Last(running).code
           rest == Front(running)
           listed == Len(rest) = 1 /\ long /\ c \notin StdCodes
       IN  /\ running' = IF rest = <<>> THEN rest
                         ELSE [rest EXCEPT ![Len(rest)].long = @ \/ long]
           /\ MonitorReturn(c, how, long) /\ TraceReturn(long)
           /\ returned' = IF listed /\ how = "return" THEN More(returned, c) ELSE returned
           /\ raised' = IF listed /\ how = "unwind" THEN More(raised, c) ELSE raised
           /\ heard' = IF listed /\ tracing THEN More(heard, c) ELSE heard
           /\ ended' = IF rest = <<>> THEN how ELSE ended
    /\ UNCHANGED <<feature, paused, elsewhere, events>>

\* A direct callee yields: to settrace a return, to monitoring no event at all.
Yield(long) ==
    /\ "generators" \in feature /\ Len(running) = 2 /\ (Last(running).long => long)
    /\ paused' = paused \cup {[Last(running) EXCEPT !.long = long]}
    /\ running' = <<[running[1] EXCEPT !.long = @ \/ long]>>
    /\ TraceReturn(long)
    /\ UNCHANGED <<feature, elsewhere, events, ended, monitoring, history>>

Resume(g) ==
    /\ g \in paused /\ Len(running) = 1 /\ Tick
    /\ paused' = paused \ {g}
    /\ running' = Append(running, g)
    /\ TraceCall(g.code)
    /\ UNCHANGED <<feature, elsewhere, ended, monitoring, history>>

\* A wrapper on top traces its function, if it is neither removed nor at its limit:
\* the settrace backend calls on, puts its own trace function in the place of this
\* one and, at the end, leaves the thread without any.  Each tool of sys.monitoring
\* has its own callbacks.
NestedTrace ==
    /\ running # <<>> /\ Len(running) < DepthLimit /\ Last(running).code = Wrapper
    /\ tracing
    /\ tracing' = FALSE
    /\ depth' = depth + 1
    /\ UNCHANGED <<feature, running, paused, elsewhere, events, ended, monitoring,
                   calleeStack, callees, history>>

\* Another thread calls and returns: the events are global.
OtherCall(c) ==
    /\ "threads" \in feature /\ elsewhere = <<>> /\ ended = "no" /\ Tick
    /\ elsewhere' = <<c>>
    /\ MonitorCall(c)
    /\ UNCHANGED <<feature, running, paused, ended, completed, settrace, history>>

OtherReturn(long) ==
    /\ elsewhere # <<>> /\ ended = "no"
    /\ elsewhere' = <<>>
    /\ MonitorReturn(elsewhere[1], "return", long)
    /\ UNCHANGED <<feature, running, paused, events, ended, settrace, history>>

TraceNext ==
    \/ StartTraced
    \/ \E c \in Callable : CallCode(c) \/ OtherCall(c)
    \/ \E how \in {"return", "unwind"}, long \in BOOLEAN : ReturnFrom(how, long)
    \/ \E long \in BOOLEAN : Yield(long) \/ OtherReturn(long)
    \/ \E g \in paused : Resume(g)
    \/ NestedTrace

TraceSpec == TraceInit /\ [][TraceNext]_traceVars

-----------------------------------------------------------------------------
(* Properties *)

TraceTypeOK ==
    /\ Len(running) <= DepthLimit /\ Len(callStack) <= 2 /\ Len(calleeStack) <= 1
    /\ depth \in 0..DepthLimit /\ ended \in {"no", "return", "unwind"}
    /\ \A c \in Codes : returned[c] <= EventLimit /\ callees[c] <= EventLimit
    /\ "nested" \notin feature => tracing

\* The settrace backend lists the direct callees that lasted, those that raised
\* included, until a traced callee has switched tracing off: the traced callee and all
\* later ones are not listed, the earlier ones stay, and without one none is missing.
\* Recursion and other threads do not confuse it.  The monitoring backend lists those
\* that returned, wrappers of traced callees by their one code, and nothing when the
\* traced call raises: filters, exceptions and traced callees do not confuse it.
\* (A traced callee that calls traced functions is recursion of that one code.)
DirectCalleesListed ==
    ended # "no" =>
       /\ "generators" \notin feature =>
             \A c \in Codes :
                /\ callees[c] = heard[c]
                /\ tracing => heard[c] = returned[c] + raised[c]
       /\ {"recursion", "generators", "threads"} \cap feature = {} =>
             MonitoringCallees = IF ended = "return" THEN returned ELSE None
=============================================================================
