---------------------------- MODULE RunRegistries ----------------------------
(***************************************************************************)
(* The registries of probe runs and of jobs (peeka/core/probes.py, jobs.py) as *)
(* those who ask see them.  A registry changes its records while it holds its *)
(* lock, field by field; probe.inspect, job.status and the like take the lock *)
(* to find the record, and read the fields of the live object afterwards, in  *)
(* the order they are declared in.  Clean-ups remove records by age while      *)
(* contexts, wrappers and job threads still have them.                        *)
(*                                                                         *)
(* What the jobs and the runs stand for is the subject of Dispatch.  No command *)
(* pauses a run (probe.pause answers that it is not implemented).             *)
(***************************************************************************)
EXTENDS Naturals, Sequences, SequencesExt, FiniteSets

CONSTANTS RunIds,       \* probe runs
          WorkIds,      \* command jobs
          RecentLimit,  \* _RECENT_EVENT_LIMIT
          LastSeq,      \* bound: events recorded of a run
          MaxAge        \* bound: how old a record gets; clean-ups ask for less

ASSUME RegistriesAssumption ==
    /\ RunIds \cap WorkIds = {} /\ "none" \notin RunIds \cup WorkIds
    /\ RecentLimit \in Nat \ {0} /\ LastSeq \in Nat /\ MaxAge \in Nat

VARIABLES entry,    \* the object of each: its fields
          known,    \* those that are registered
          recent,   \* _recent_events: their sequence numbers
          nextSeq,  \* _event_sequences
          writing,  \* of each registry's lock: the record and the writes still to come
          user,     \* the context of a run, the thread of a job: new, made, open, closed; the
                    \* registries share nothing, and a behaviour is about one record
          age,      \* since the end, or the last change
          answer,   \* a request in progress: what it has read
          sweep     \* job.cleanup: the jobs it has chosen

registryState == <<entry, known, recent, nextSeq, writing, age>>
registriesVars == <<registryState, user, answer, sweep>>

Entries == RunIds \cup WorkIds
Terminal == {"stopped", "completed", "failed", "interrupted"}
LegalFrom(status) ==
    CASE status = "created" -> {"active", "running"}
      [] status = "active" -> {"stopped", "failed"}
      [] status = "running" -> {"streaming", "completed", "failed", "interrupted"}
      [] status = "streaming" -> {"completed", "failed", "interrupted"}
      [] OTHER -> {}

RegistryOf(r) == IF r \in RunIds THEN "probes" ELSE "jobs"
Unheld == [of |-> "none", left |-> <<>>]
Unlocked(k) == writing[k] = Unheld
NewEntry == [status |-> "created", ended |-> FALSE, count |-> 0, error |-> FALSE,
             summary |-> [count |-> 0, status |-> "none"]]
Question(r) == [of |-> r, fetched |-> FALSE, events |-> <<>>, got |-> <<>>, torn |-> FALSE]
NoAnswer == Question("none")
NoSweep == [at |-> "idle", chosen |-> {}]

RegistriesInit ==
    /\ entry = [r \in Entries |-> NewEntry] /\ known = {}
    /\ recent = [r \in RunIds |-> <<>>] /\ nextSeq = [r \in RunIds |-> 0]
    /\ writing = [k \in {"probes", "jobs"} |-> Unheld]
    /\ \E subject \in Entries : user = [r \in Entries |-> IF r = subject THEN "new" ELSE "away"]
    /\ age = [r \in Entries |-> 0] /\ answer = NoAnswer /\ sweep = NoSweep

-----------------------------------------------------------------------------
(* The registries *)

Holds(r, writes) == writing' = [writing EXCEPT ![RegistryOf(r)] = [of |-> r, left |-> writes]]

\* The fields in the order in which a change of the status assigns them.
StatusWrites(r, new) ==
    LET over == IF new \in Terminal THEN << <<"ended", TRUE>> >> ELSE <<>>
        error == IF new = "failed" THEN << <<"error", TRUE>> >> ELSE <<>>
        summary == << <<"summary", [count |-> entry[r].count, status |-> new]>> >>
    IN << <<"status", new>> >> \o over \o (IF r \in RunIds THEN error \o summary ELSE summary \o error)

\* set_status: answers no for a record that was removed or is past that.
SetStatus(r, new) ==
    /\ Unlocked(RegistryOf(r))
    /\ IF r \in known /\ new \in LegalFrom(entry[r].status)
       THEN Holds(r, StatusWrites(r, new)) ELSE UNCHANGED writing
    /\ UNCHANGED <<entry, known, recent, nextSeq, age>>

\* One assignment.
Write(k) ==
    /\ ~Unlocked(k)
    /\ LET r == writing[k].of
           w == Head(writing[k].left)
           rest == Tail(writing[k].left)
       IN /\ entry' = [entry EXCEPT ![r][w[1]] = w[2]]
          /\ age' = IF entry[r].ended THEN age ELSE [age EXCEPT ![r] = 0]
          /\ writing' = [writing EXCEPT ![k] = IF rest = <<>> THEN Unheld ELSE [of |-> r, left |-> rest]]
    /\ UNCHANGED <<known, recent, nextSeq, user, answer, sweep>>

NowKnown(r) ==
    /\ user[r] = "new" /\ Unlocked(RegistryOf(r))
    /\ known' = known \cup {r} /\ user' = [user EXCEPT ![r] = "made"]
    /\ UNCHANGED <<entry, writing, age, answer, sweep>>

\* create, of a run: without events yet; and of a job.
CreateRun(r) ==
    /\ r \in RunIds /\ NowKnown(r)
    /\ recent' = [recent EXCEPT ![r] = <<>>] /\ nextSeq' = [nextSeq EXCEPT ![r] = 0]

CreateJob(r) == r \in WorkIds /\ NowKnown(r) /\ UNCHANGED <<recent, nextSeq>>

\* record_event: of a run that is registered, whatever its status.
RecordRunEvent(r) ==
    /\ user[r] \in {"open", "closed"} /\ Unlocked("probes") /\ r \in known
    /\ nextSeq[r] < LastSeq /\ nextSeq' = [nextSeq EXCEPT ![r] = @ + 1]
    /\ LET all == Append(recent[r], nextSeq[r])
       IN recent' = [recent EXCEPT ![r] = IF Len(all) > RecentLimit THEN Tail(all) ELSE all]
    /\ Holds(r, << <<"count", entry[r].count + 1>>,
                   <<"summary", [count |-> entry[r].count + 1, status |-> entry[r].status]>> >>)
    /\ UNCHANGED <<entry, known, age, user, answer, sweep>>

Removable(r, completedOnly) ==
    /\ entry[r].status # "active"
    /\ completedOnly => entry[r].status \in Terminal

\* ProbeRegistry.cleanup, for probe.cleanup
Expired(olderThan, completedOnly) ==
    {r \in RunIds \cap known : Removable(r, completedOnly) /\ age[r] > olderThan}

CleanRuns(olderThan, completedOnly) ==
    /\ Unlocked("probes")
    /\ LET removed == Expired(olderThan, completedOnly)
       IN /\ removed # {} /\ known' = known \ removed
          /\ recent' = [r \in RunIds |-> IF r \in removed THEN <<>> ELSE recent[r]]
    /\ UNCHANGED <<entry, nextSeq, writing, age, user, answer, sweep>>

\* JobRegistry.cleanup, before every command that makes or asks for jobs.
CleanJobs(retention) ==
    /\ Unlocked("jobs")
    /\ \E r \in WorkIds \cap known : entry[r].status \in Terminal /\ age[r] > retention
    /\ known' = {r \in known : r \in RunIds \/ entry[r].status \notin Terminal \/ age[r] <= retention}
    /\ UNCHANGED <<entry, recent, nextSeq, writing, age, user, answer, sweep>>

\* job.cleanup: a snapshot, looked through without the lock, then one removal each.
ChooseJobs(olderThan, completedOnly) ==
    /\ sweep = NoSweep /\ Unlocked("jobs")
    /\ LET chosen == {r \in WorkIds \cap known : /\ entry[r].status \in Terminal
                                                 /\ completedOnly => entry[r].status = "completed"
                                                 /\ age[r] > olderThan}
       IN chosen # {} /\ sweep' = [at |-> "removing", chosen |-> chosen]
    /\ UNCHANGED <<registryState, user, answer>>

RemoveJob(r) ==
    /\ r \in sweep.chosen /\ Unlocked("jobs") /\ known' = known \ {r}
    /\ sweep' = IF sweep.chosen = {r} THEN NoSweep ELSE [sweep EXCEPT !.chosen = @ \ {r}]
    /\ UNCHANGED <<entry, recent, nextSeq, writing, age, user, answer>>

GrowOlder ==
    /\ \E r \in known : age[r] < MaxAge
    /\ age' = [r \in Entries |-> IF r \in known /\ age[r] < MaxAge THEN age[r] + 1 ELSE age[r]]
    /\ UNCHANGED <<entry, known, recent, nextSeq, writing, user, answer, sweep>>

-----------------------------------------------------------------------------
(* Those who use the records *)

\* ProbeContext.__enter__ and a job's start: what set_status answers is not looked at.
Open(r) ==
    /\ user[r] = "made" /\ user' = [user EXCEPT ![r] = "open"]
    /\ SetStatus(r, IF r \in RunIds THEN "active" ELSE "running") /\ UNCHANGED <<answer, sweep>>

\* The context's end, or the job's: the command succeeded, or it raised.
Close(r, failed) ==
    /\ user[r] = "open" /\ user' = [user EXCEPT ![r] = "closed"]
    /\ SetStatus(r, IF failed THEN "failed" ELSE IF r \in RunIds THEN "stopped" ELSE "completed")
    /\ UNCHANGED <<answer, sweep>>

\* probe.stop and job.interrupt from elsewhere; a stream goes on as streaming.
EndFromOutside(r) ==
    /\ r \in known /\ entry[r].status \notin Terminal
    /\ SetStatus(r, IF r \in RunIds THEN "stopped" ELSE "interrupted") /\ UNCHANGED <<user, answer, sweep>>

GoOnStreaming(r) ==
    /\ r \in WorkIds /\ user[r] = "open" /\ entry[r].status = "running"
    /\ SetStatus(r, "streaming") /\ UNCHANGED <<user, answer, sweep>>

-----------------------------------------------------------------------------
(* Those who ask *)

\* The fields in the order they are read in.
FieldsOf(r) == IF r \in RunIds THEN <<"status", "ended", "count", "error", "summary">>
               ELSE <<"status", "ended", "summary", "error">>
BeingWritten(r) == writing[RegistryOf(r)].of = r

Found(r) == answer = NoAnswer /\ r \in known /\ Unlocked(RegistryOf(r))

\* probe.status, and every question after a job.
AskStatus(r) ==
    /\ Found(r) /\ answer' = [Question(r) EXCEPT !.fetched = TRUE]
    /\ UNCHANGED <<registryState, user, sweep>>

\* probe.inspect fetches the events first, under the lock, with a second look-up.
AskEvents(r) ==
    /\ r \in RunIds /\ Found(r) /\ answer' = Question(r)
    /\ UNCHANGED <<registryState, user, sweep>>

ReadEvents ==
    /\ answer.of \in RunIds /\ ~answer.fetched /\ Unlocked("probes")
    /\ answer' = [answer EXCEPT !.fetched = TRUE, !.events = recent[answer.of]]
    /\ UNCHANGED <<registryState, user, sweep>>

Answered == answer.of \in Entries /\ Len(answer.got) = Len(FieldsOf(answer.of))

\* to_dict: one field of the live object.
ReadField ==
    /\ answer.fetched /\ ~Answered
    /\ LET r == answer.of
           field == FieldsOf(r)[Len(answer.got) + 1]
       IN answer' = [answer EXCEPT !.got = Append(@, entry[r][field]), !.torn = @ \/ BeingWritten(r)]
    /\ UNCHANGED <<registryState, user, sweep>>

AnswerSent == Answered /\ answer' = NoAnswer /\ UNCHANGED <<registryState, user, sweep>>

RegistriesNext ==
    \/ \E r \in Entries : \/ CreateRun(r) \/ CreateJob(r) \/ Open(r) \/ EndFromOutside(r)
                          \/ GoOnStreaming(r) \/ AskStatus(r) \/ AskEvents(r)
    \/ \E r \in Entries, failed \in BOOLEAN : Close(r, failed)
    \/ \E r \in RunIds : RecordRunEvent(r)
    \/ \E k \in {"probes", "jobs"} : Write(k)
    \/ \E a \in 0..MaxAge, only \in BOOLEAN : CleanRuns(a, only) \/ ChooseJobs(a, only)
    \/ CleanJobs(MaxAge - 1)
    \/ \E r \in WorkIds : RemoveJob(r)
    \/ GrowOlder \/ ReadEvents \/ ReadField \/ AnswerSent

RegistriesSpec == RegistriesInit /\ [][RegistriesNext]_registriesVars

-----------------------------------------------------------------------------
(* Properties *)

RegistriesTypeOK ==
    /\ known \subseteq Entries /\ DOMAIN writing = {"probes", "jobs"}
    /\ user \in [Entries -> {"away", "new", "made", "open", "closed"}]
    /\ age \in [Entries -> 0..MaxAge] /\ nextSeq \in [RunIds -> 0..LastSeq]
    /\ answer.of \in Entries \cup {"none"} /\ sweep.chosen \subseteq WorkIds

\* When nobody changes a run, its recent events are the last ones, without a gap, its
\* count is the number recorded, and its summary says the same as its fields.
RunsConsistent ==
    Unlocked("probes") =>
       \A r \in RunIds \cap known :
          /\ entry[r].count = nextSeq[r]
          /\ Len(recent[r]) = (IF nextSeq[r] < RecentLimit THEN nextSeq[r] ELSE RecentLimit)
          /\ \A i \in 1..Len(recent[r]) : recent[r][i] = nextSeq[r] - Len(recent[r]) + i - 1
          /\ entry[r].summary.status \in {entry[r].status, "none"}
          /\ entry[r].summary.count = entry[r].count

\* A clean-up removes what is over, or not begun yet, never what runs; and what its
\* context or thread has left is over or removed.
RemovedWhenOver ==
    \A r \in Entries :
       /\ user[r] \notin {"away", "new"} /\ r \notin known =>
             entry[r].status \in Terminal \cup (IF r \in RunIds THEN {"created"} ELSE {})
       /\ user[r] = "closed" /\ r \in known /\ ~BeingWritten(r) => entry[r].status \in Terminal

\* What is answered adds up although nothing protects its reading: the count covers the
\* events, the summary the count; and what is said to be over has its end and, if it
\* failed, its error, unless the reading met the change.
AnswersAddUp ==
    Answered =>
       LET got == answer.got
           status == got[1]
       IN IF answer.of \in RunIds
          THEN /\ answer.events # <<>> => got[3] > Last(answer.events)
               /\ got[5].count >= got[3] \/ answer.torn
               /\ status \in Terminal => (got[2] /\ (status = "failed" => got[4])) \/ answer.torn
               /\ ~answer.torn /\ status \in Terminal => got[5].status = status
          ELSE /\ status \in Terminal => (got[2] /\ (status = "failed" => got[4])) \/ answer.torn
               /\ status \in Terminal /\ ~answer.torn => got[3].status = status

RegistriesSound == RunsConsistent /\ RemovedWhenOver /\ AnswersAddUp
=============================================================================
