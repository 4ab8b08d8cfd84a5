----------------------------- MODULE MCServices -----------------------------
(* Model-checking instances of services of the agent: result consumers, the    *)
(* top profiler, the agent's own life, diagnostic cases, memory tracing, the   *)
(* registries of probe runs and jobs, the counts of observations.  They share   *)
(* no state; a behaviour is one of the component it begins with, the others      *)
(* stay at one of their initial states.                                         *)
EXTENDS Records, TopProfiler, AgentLifecycle, DXCases, MemoryTracing, TLC

CONSTANTS ca, cb, pb, jb, s1

VARIABLE part

otherThanConsumers == <<topVars, agentVars, caseVars, memoryVars, registriesVars, observerVars>>
otherThanTop == <<consumerVars, agentVars, caseVars, memoryVars, registriesVars, observerVars>>
otherThanAgent == <<consumerVars, topVars, caseVars, memoryVars, registriesVars, observerVars>>
otherThanCases == <<consumerVars, topVars, agentVars, memoryVars, registriesVars, observerVars>>
otherThanMemory == <<consumerVars, topVars, agentVars, caseVars, registriesVars, observerVars>>
otherThanRegistries == <<consumerVars, topVars, agentVars, caseVars, memoryVars, observerVars>>
otherThanObserver == <<consumerVars, topVars, agentVars, caseVars, memoryVars, registriesVars>>
vars == <<part, consumerVars, otherThanConsumers>>

\* A session's consumer of everything, which drops what is oldest; two consumers of
\* one probe, of which one fails and one drops what is newest.
Request(policies_, topics_, owner_) ==
    [policies |-> policies_, topics |-> topics_, owner |-> owner_]

OneOrTwo ==
    { (ca :> Request({"drop_oldest"}, {pb, jb}, s1)
         @@ cb :> Request({}, {}, NoSession)),
      (ca :> Request({"fail"}, {pb}, NoSession)
         @@ cb :> Request({"drop_newest"}, {pb}, NoSession)) }

Two == ca :> 2 @@ cb :> 1

Init ==
    /\ part \in {"consumers", "top", "agent", "cases", "memory", "registries", "observer"}
    /\ ConsumerInit /\ TopInit /\ AgentInit /\ CaseInit /\ MemoryInit
    /\ RegistriesInit /\ ObserverInit
    /\ part # "consumers" => requestOf = CHOOSE f \in Requestings : TRUE
    /\ part # "registries" => user = CHOOSE f \in [Entries -> {"new", "away"}] :
                                            Cardinality({r \in Entries : f[r] = "new"}) = 1
    /\ part # "agent" => disposition[1] = CHOOSE d \in Dispositions : TRUE

Next ==
    \/ part = "consumers" /\ ConsumerNext /\ UNCHANGED <<part, otherThanConsumers>>
    \/ part = "top" /\ TopNext /\ UNCHANGED <<part, otherThanTop>>
    \/ part = "agent" /\ AgentNext /\ UNCHANGED <<part, otherThanAgent>>
    \/ part = "cases" /\ CaseNext /\ UNCHANGED <<part, otherThanCases>>
    \/ part = "memory" /\ MemoryNext /\ UNCHANGED <<part, otherThanMemory>>
    \/ part = "registries" /\ RegistriesNext /\ UNCHANGED <<part, otherThanRegistries>>
    \/ part = "observer" /\ ObserverNext /\ UNCHANGED <<part, otherThanObserver>>

\* As AgentSpec has it, for the behaviours that are of that part.
Spec ==
    /\ Init /\ [][Next]_vars
    /\ WF_agentVars(part = "agent" /\ signal # "killed" /\ MainGoesOn)
    /\ WF_agentVars(part = "agent" /\ (DeliverSignal \/ EnterHandler))
    /\ \A a \in Agents : WF_agentVars(part = "agent" /\ signal # "killed" /\ ClientMarks(a))

\* Each in the behaviours of its part; at the initial states it holds anyway.
TypesOK ==
    CASE part = "consumers" -> ConsumerTypeOK    [] part = "top" -> TopTypeOK
      [] part = "agent" -> AgentTypeOK           [] part = "cases" -> CaseTypeOK
      [] part = "memory" -> MemoryTypeOK         [] part = "registries" -> RegistriesTypeOK
      [] part = "observer" -> ObserverTypeOK
=============================================================================
