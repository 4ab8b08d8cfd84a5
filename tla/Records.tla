------------------------------- MODULE Records -------------------------------
(* What the agent keeps of probe runs and jobs, together: the events handed to *)
(* consumers (ResultConsumers), the registries' records (RunRegistries) and    *)
(* the counts of observations (ObserverCounts).                                *)
EXTENDS ResultConsumers, RunRegistries, ObserverCounts

\* The three share no state and run side by side.
RecordsSpec == ConsumerSpec /\ RegistriesSpec /\ ObserverSpec

\* What is recorded of probe runs and handed on is what happened: consumers' records
\* (ResultConsumers), what the registries keep and answer (RunRegistries) and what is
\* counted of observations (ObserverCounts).
RecordsSound == ConsumersSound /\ RegistriesSound /\ ObserverSound
=============================================================================
