------------------------------ MODULE AsyncCalls ------------------------------
(***************************************************************************)
(* Watch wrappers around coroutine functions and async generators            *)
(* (peeka/core/instrumentation/watch.py): stacked, while tasks of one event  *)
(* loop call the function, are cancelled and closed, share a generator, and  *)
(* probes are removed.  A wrapper of a coroutine is around it until it ends; *)
(* one of a generator has observed the call by the time the generator is     *)
(* made, and leaves a proxy in front of it.  Both print an execution profile. *)
(*                                                                         *)
(* Limits and conditions are as for plain functions (WrapperCalls); a         *)
(* condition may hold or not, so whether an observation is sent is open.      *)
(***************************************************************************)
EXTENDS Naturals, Sequences, FiniteSets

CONSTANTS AsyncTasks,
          Layers,      \* wrappers of the function; 1 is on top
          Failing,     \* wrappers whose observations may raise
          MaxValues,   \* bound: values the generator yields
          MaxOps       \* bound: operations on the generator, of each task

ASSUME AsyncAssumption ==
    {Layers, MaxValues, MaxOps} \subseteq Nat /\ Failing \subseteq 1..Layers /\ "all" \notin AsyncTasks

VARIABLES form,     \* "coroutine" or "generator": create() has looked
          hooked,   \* wrappers whose probes are registered
          await,    \* calls of the coroutine, by task
          profiles, \* profiles printed: by task and wrapper, or by wrapper
          gen,      \* the generator: none, new, suspended, running, finished
          proxies,  \* wrappers with a proxy in front of it
          ops,      \* what each task does with it
          values,   \* values delivered
          counted,  \* yield_count of each proxy
          mixed     \* history: operations overlapped, or a close was ignored

coroutineSide == <<await>>
generatorSide == <<gen, proxies, ops, values, counted, mixed>>
asyncVars == <<form, hooked, profiles, coroutineSide, generatorSide>>

NoCall == [at |-> "idle", n |-> 0, seen |-> {}, out |-> "none", want |-> "none", cancel |-> FALSE]
NoOp == [at |-> "idle", kind |-> "none", made |-> 0, cancel |-> FALSE]

AsyncInit ==
    /\ form \in {"coroutine", "generator"} /\ hooked = 1..Layers
    /\ await = [t \in AsyncTasks |-> NoCall]
    /\ profiles = [x \in (AsyncTasks \cup {"all"}) \X (1..Layers) |-> <<>>]
    /\ gen = "none" /\ proxies = {} /\ ops = [t \in AsyncTasks |-> NoOp]
    /\ values = 0 /\ counted = [n \in 1..Layers |-> 0] /\ mixed = FALSE

\* Mutated form: ExecutionProfile.emit without its flag.
PrintedAgain(printed, what) == Append(printed, what)

\* ExecutionProfile.emit.
Printed(printed, what) == IF printed = <<>> THEN <<what>> ELSE printed

-----------------------------------------------------------------------------
(* A call of the coroutine *)

Goes(t, c) == await' = [await EXCEPT ![t] = c]

CallCoroutine(t) ==
    /\ form = "coroutine" /\ await[t].at = "idle"
    /\ Goes(t, [NoCall EXCEPT !.at = "down", !.n = 1])
    /\ UNCHANGED <<form, hooked, profiles, generatorSide>>

\* _prepare_call and the observation before the call, which may replace it.
Enter(t) ==
    /\ await[t].at = "down" /\ await[t].n <= Layers
    /\ LET c == await[t] IN
       \/ c.n \notin hooked /\ Goes(t, [c EXCEPT !.n = @ + 1])
       \/ c.n \in hooked /\ Goes(t, [c EXCEPT !.n = @ + 1, !.seen = @ \cup {c.n}])
       \/ c.n \in hooked \cap Failing /\ Goes(t, [c EXCEPT !.at = "up", !.n = @ - 1, !.out = "raised"])
    /\ UNCHANGED <<form, hooked, profiles, generatorSide>>

Cancel(t) ==
    /\ await[t].at = "down" /\ await[t].n > Layers /\ ~await[t].cancel
    /\ Goes(t, [await[t] EXCEPT !.cancel = TRUE])
    /\ UNCHANGED <<form, hooked, profiles, generatorSide>>

\* The awaited coroutine ends: also by what is no Exception, or because it is closed.
CoroutineEnds(t, o) ==
    /\ await[t].at = "down" /\ await[t].n > Layers
    /\ o = "cancelled" => await[t].cancel
    /\ Goes(t, [await[t] EXCEPT !.at = "up", !.n = Layers, !.out = o, !.want = o])
    /\ UNCHANGED <<form, hooked, profiles, generatorSide>>

\* What a wrapper catches, and prints and observes.
Caught == {"returned", "raised", "cancelled"}

\* The profile, then the observation: if that one raises after a successful call it
\* is caught as the call's exception, which finds the profile printed.
PassUp(t) ==
    /\ await[t].at = "up" /\ await[t].n > 0
    /\ LET c == await[t]
           n == c.n
           prints == n \in c.seen /\ c.out \in Caught
           first == Printed(profiles[<<t, n>>], c.out)
       IN  \/ /\ profiles' = IF prints THEN [profiles EXCEPT ![<<t, n>>] = first] ELSE profiles
              /\ Goes(t, [c EXCEPT !.n = n - 1])
           \/ /\ prints /\ n \in Failing
              /\ profiles' = [profiles EXCEPT ![<<t, n>>] =
                     IF c.out = "returned" THEN Printed(first, "raised") ELSE first]
              /\ Goes(t, [c EXCEPT !.n = n - 1, !.out = "raised"])
    /\ UNCHANGED <<form, hooked, generatorSide>>

\* Another thread, or the agent's own in between.
Unhook(n) ==
    /\ n \in hooked /\ hooked' = hooked \ {n}
    /\ UNCHANGED <<form, profiles, coroutineSide, generatorSide>>

-----------------------------------------------------------------------------
(* A generator and the proxies in front of it *)

\* The wrappers observe the call and are done with it: later the generator has the
\* proxies that were made.
MakeGenerator ==
    /\ form = "generator" /\ gen = "none"
    /\ gen' = "new" /\ proxies' = hooked
    /\ UNCHANGED <<form, hooked, profiles, coroutineSide, ops, values, counted, mixed>>

\* What the proxies do with what comes through them, without an await in between:
\* a value, the end, an Exception, or what is none.
PassedUp(o) ==
    /\ values' = IF o = "value" THEN values + 1 ELSE values
    /\ counted' = [n \in 1..Layers |-> counted[n] + (IF o = "value" /\ n \in proxies THEN 1 ELSE 0)]
    /\ profiles' = [x \in DOMAIN profiles |->
          IF x[1] = "all" /\ x[2] \in proxies /\ o \in {"exhausted", "errored", "closed"}
          THEN Printed(profiles[x], [how |-> o, yields |-> counted[x[2]]])
          ELSE profiles[x]]

\* An operation on a generator that is running for another task, or is over, is
\* answered at once; so are the first ones that need not run it.
AtOnce(kind) ==
    CASE gen = "running" -> "errored"
      [] gen = "finished" /\ kind = "aclose" -> "closed"
      [] gen = "finished" /\ kind # "aclose" -> "exhausted"
      [] gen = "new" /\ kind = "aclose" -> "closed"
      [] gen = "new" /\ kind = "athrow" -> "errored"
      [] OTHER -> "later"

\* __anext__ and asend, athrow, aclose.
Ask(t, kind) ==
    /\ gen # "none" /\ ops[t].at = "idle" /\ ops[t].made < MaxOps
    /\ IF AtOnce(kind) = "later"
       THEN /\ gen' = "running" /\ UNCHANGED <<profiles, values, counted, mixed>>
            /\ ops' = [ops EXCEPT ![t] =
                   [at |-> "asked", kind |-> kind, made |-> @.made + 1, cancel |-> FALSE]]
       ELSE /\ PassedUp(AtOnce(kind))
            /\ gen' = IF gen = "new" THEN "finished" ELSE gen
            /\ mixed' = (mixed \/ gen = "running")
            /\ ops' = [ops EXCEPT ![t].made = @ + 1]
    /\ UNCHANGED <<form, hooked, coroutineSide, proxies>>

CancelAsked(t) ==
    /\ ops[t].at = "asked" /\ ~ops[t].cancel
    /\ ops' = [ops EXCEPT ![t].cancel = TRUE]
    /\ UNCHANGED <<form, hooked, profiles, coroutineSide, gen, proxies, values, counted, mixed>>

\* The generator yields, returns or raises; a close it answers with a value is an
\* error and leaves it where it is; a cancellation it lets pass goes by the proxies.
GeneratorAnswers(t, o) ==
    /\ ops[t].at = "asked"
    /\ o = "value" => values < MaxValues
    /\ o = "cancelled" => ops[t].cancel
    /\ ops' = [ops EXCEPT ![t] = [NoOp EXCEPT !.made = ops[t].made]]
    /\ gen' = IF o = "value" THEN "suspended" ELSE "finished"
    /\ mixed' = (mixed \/ (ops[t].kind = "aclose" /\ o = "value"))
    /\ PassedUp(CASE o = "ended" -> IF ops[t].kind = "aclose" THEN "closed" ELSE "exhausted"
                  [] o = "value" /\ ops[t].kind = "aclose" -> "errored"
                  [] OTHER -> o)
    /\ UNCHANGED <<form, hooked, coroutineSide, proxies>>

AsyncNext ==
    \/ \E t \in AsyncTasks :
          \/ CallCoroutine(t) \/ Enter(t) \/ Cancel(t) \/ PassUp(t) \/ CancelAsked(t)
          \/ \E o \in Caught \cup {"exit", "closed"} : CoroutineEnds(t, o)
          \/ \E kind \in {"anext", "athrow", "aclose"} : Ask(t, kind)
          \/ \E o \in {"value", "ended", "errored", "cancelled"} : GeneratorAnswers(t, o)
    \/ \E n \in 1..Layers : Unhook(n)
    \/ MakeGenerator

AsyncSpec == AsyncInit /\ [][AsyncNext]_asyncVars

-----------------------------------------------------------------------------
(* Properties *)

AsyncTypeOK ==
    /\ form \in {"coroutine", "generator"} /\ hooked \cup proxies \subseteq 1..Layers
    /\ gen \in {"none", "new", "suspended", "running", "finished"} /\ values \in 0..MaxValues
    /\ \A t \in AsyncTasks : /\ await[t].n \in 0..Layers + 1 /\ await[t].seen \subseteq 1..Layers
                             /\ ops[t].made \in 0..MaxOps

\* Whatever wrappers come and go while it is awaited: a coroutine ends for its task
\* as it ended itself, by its result, exception, cancellation or close, unless an
\* observation of it raised; and each wrapper that saw it begin has said once how it
\* ended, as it did unless an observation below failed, and nothing of what is not
\* caught.
CoroutinesAccounted ==
    \A t \in AsyncTasks : (await[t].at = "up" /\ await[t].n = 0) =>
        /\ await[t].out = await[t].want \/ (await[t].out = "raised" /\ Failing # {})
        /\ \A n \in 1..Layers : LET said == profiles[<<t, n>>] IN
              IF n \in await[t].seen /\ await[t].want \in Caught
              THEN Len(said) = 1 /\ ((\A m \in Failing : m <= n) => said = <<await[t].want>>)
              ELSE said = <<>> \/ (said = <<"raised">> /\ await[t].want = "none")

\* A proxy says once, and at the end, how its generator ended and after how many
\* values: nothing is delivered afterwards, unless tasks had used it at the same time
\* or it had answered a close with a value; and while it lasts nothing is said.
ProfileFinal ==
    \A n \in 1..Layers : LET said == profiles[<<"all", n>>] IN
        /\ Len(said) <= 1
        /\ said # <<>> /\ ~mixed => gen = "finished" /\ said[1].yields = values
        /\ n \in proxies => counted[n] = values

AsyncAccounted == CoroutinesAccounted /\ ProfileFinal
=============================================================================
