--------------------------- MODULE DispatchProofs ---------------------------
(***************************************************************************)
(* Theorems about Dispatch, for any number of threads, jobs and sessions.  *)
(***************************************************************************)
EXTENDS Dispatch, TLAPS

Pre      == {"lock", "admit"}               \* the job is not registered yet
InStart  == {"enter", "inject", "track"}

-----------------------------------------------------------------------------
(* The inductive invariants *)

\* Who holds the mutation lock.
LockInv ==
    \A t \in Threads :
        /\ InMutation(t) <=> mutex = t
        /\ th[t].at = "lock" => th[t].kind = "reset"
        /\ th[t].at = "mark" => th[t].kind # "reset"

\* A job id belongs to one command until it is registered; what names a job
\* names a registered one; a command gives its foreground slot back when its job
\* has ended.
JobInv ==
    /\ \A t \in Threads : th[t].at \in Pre =>
          /\ status[th[t].job] = "none"
          /\ \A u \in Threads \ {t} : th[u].job # th[t].job
    /\ \A t \in Threads : th[t].at \notin Pre \cup {"idle"} => status[th[t].job] # "none"
    /\ \A t \in Threads : th[t].at = "clear" => status[th[t].job] \in Ended
    /\ \A j \in Jobs : probe[j] # "none" => status[j] # "none"
    /\ \A c \in Clients : fgjob[c] # NoJob => status[fgjob[c]] # "none"

\* The foreground rule: a session's live jobs are what its pointer names, and a
\* command that passed the check still finds its session free.
ForegroundInv ==
    /\ \A t \in Threads : th[t].at \in Pre =>
          <<t, th[t].kind, th[t].client>> \in Sends
    /\ \A t \in Threads : th[t].client \in Clients => session[th[t].client] # "new"
    /\ \A j \in Jobs : owner[j] \in Clients => session[owner[j]] # "new"
    /\ \A c \in Clients : session[c] = "open" =>
          /\ \A j \in Jobs : owner[j] = c /\ status[j] \in Live => fgjob[c] = j
          /\ \A t \in Threads : th[t].at \in Pre /\ th[t].client = c =>
                \A j \in Jobs : ~(owner[j] = c /\ status[j] \in Live)

\* The hypothesis of the foreground rule: every session has one connection, and
\* concurrent snapshots are sent without a session.
OwnConnection ==
    \A r, s \in Sends : r[3] \in Clients =>
        /\ r[3] = s[3] => r[1] = s[1]
        /\ r[2] # "concurrent"

-----------------------------------------------------------------------------
(* Type correctness *)

\* What a step of a command changes in th.
LEMMA GotoShape ==
    ASSUME TypeOK, NEW t \in Threads, th[t].at # "idle",
           NEW pc \in {"admit", "exec", "enter", "inject", "track", "stop", "untrack",
                       "reset", "unwrap", "settle", "fail", "clear"},
           Goto(t, pc)
    PROVE  /\ th' \in [Threads -> Command]
           /\ th'[t].at = pc
           /\ th'[t].kind = th[t].kind
           /\ th'[t].client = th[t].client
           /\ th'[t].job = th[t].job
           /\ th'[t].probe = th[t].probe
           /\ th'[t].job \in Jobs
           /\ \A u \in Threads \ {t} : th'[u] = th[u]
<1>1. th[t] \in Command /\ th[t].job \in Jobs
  BY DEF TypeOK
<1>2. th' = [th EXCEPT ![t] = [th[t] EXCEPT !.at = pc]]
  BY DEF Goto, TypeOK
<1>3. [th[t] EXCEPT !.at = pc] \in Command
  BY <1>1 DEF Command
<1> QED
  BY <1>1, <1>2, <1>3 DEF TypeOK, Command

LEMMA ReturnShape ==
    ASSUME TypeOK, NEW t \in Threads, Return(t)
    PROVE  /\ th' \in [Threads -> Command]
           /\ th'[t] = Idle /\ th'[t].at = "idle"
           /\ \A u \in Threads \ {t} : th'[u] = th[u]
  BY DEF TypeOK, Return, Idle, Command

LEMMA EndingShape ==
    ASSUME TypeOK, NEW t \in Threads, NEW k \in {"interrupt", "probe_stop"}, NEW j \in Jobs,
           NEW found \in BOOLEAN, Ending(t, k, j, found)
    PROVE  /\ th' \in [Threads -> Command]
           /\ th'[t].at = "mark" /\ th'[t].kind = k /\ th'[t].job = j
           /\ th'[t].client = NoClient
           /\ th'[t].probe = found
           /\ \A u \in Threads \ {t} : th'[u] = th[u]
  BY DEF TypeOK, Ending, Command

\* The entry of a job in the registry after set_status.
LEMMA SetStatusShape ==
    ASSUME TypeOK, NEW j \in Jobs, NEW to \in Live \cup Ended, SetStatus(j, to)
    PROVE  /\ status' \in [Jobs -> {"none"} \cup Live \cup Ended]
           /\ \A i \in Jobs \ {j} : status'[i] = status[i]
           /\ status'[j] \in {status[j], to}
           /\ status[j] \notin Live => status'[j] = status[j]
           /\ status[j] \in Live /\ to # "streaming" => status'[j] = to
  BY DEF TypeOK, SetStatus, Live, Ended

LEMMA TypeInit == Init => TypeOK
  BY DEF Init, TypeOK, Idle, Command

LEMMA TypeStep == TypeOK /\ [Next]_vars => TypeOK'
<1> SUFFICES ASSUME TypeOK, [Next]_vars PROVE TypeOK'
  OBVIOUS
<1>1. ASSUME NEW c \in Clients, CreateClient(c) PROVE TypeOK'
  BY <1>1 DEF CreateClient, TypeOK
<1>2. ASSUME NEW c \in Clients, CloseClient(c) PROVE TypeOK'
  BY <1>2 DEF CloseClient, TypeOK
<1>3. ASSUME NEW t \in Threads, NEW k \in Kinds, NEW c \in Clients \cup {NoClient},
             NEW j \in Jobs, Request(t, k, c, j)
      PROVE  TypeOK'
  BY <1>3 DEF Request, TypeOK, Command
<1>4. ASSUME NEW t \in Threads, NEW j \in Jobs, Interrupt(t, j) \/ ProbeStop(t, j)
      PROVE  TypeOK'
  <2>1. probe' \in [Jobs -> {"none", "active"} \cup Over] /\ tracked' \subseteq Jobs /\ wrapped' \subseteq Jobs
    BY <1>4 DEF Interrupt, ProbeStop, StopResources, Release, Exited, TypeOK, Over
  <2>2. Registered(j) \in BOOLEAN
    BY DEF Registered
  <2>3. PICK k \in {"interrupt", "probe_stop"}, found \in BOOLEAN : Ending(t, k, j, found)
    BY <1>4, <2>2 DEF Interrupt, ProbeStop
  <2>4. overlap' \in {overlap, overlap \cup {j}}
    BY <1>4 DEF Interrupt, ProbeStop
  <2>5. UNCHANGED <<session, fgjob, status, kind, owner, mutex, reported>>
    BY <1>4 DEF Interrupt, ProbeStop
  <2> QED
    BY <2>1, <2>3, <2>4, <2>5, EndingShape DEF TypeOK
<1>5. ASSUME NEW t \in Threads, Lock(t) PROVE TypeOK'
  BY <1>5, GotoShape DEF Lock, TypeOK
<1>6. ASSUME NEW t \in Threads, LockTimeout(t) PROVE TypeOK'
  BY <1>6, ReturnShape DEF LockTimeout, TypeOK
<1>7. ASSUME NEW t \in Threads, Admit(t) PROVE TypeOK'
  <2>1. /\ th[t].job \in Jobs /\ th[t].client \in Clients \cup {NoClient}
        /\ th[t].kind \in Kinds
        /\ Goto(t, FirstStep(th[t].kind))
    BY <1>7 DEF Admit, TypeOK, Command
  <2>2. FirstStep(th[t].kind) \in {"enter", "stop", "reset", "exec"}
    BY DEF FirstStep
  <2>3. /\ th' \in [Threads -> Command]
        /\ \A u \in Threads :
              /\ th'[u].at # "idle" => th'[u].job \in Jobs
              /\ th'[u].at \in {"lock", "admit"} => th'[u].kind \in Kinds
    BY <1>7, <2>1, <2>2, GotoShape DEF Admit, TypeOK
  <2>4. overlap' \subseteq Jobs
    BY <1>7, <2>1 DEF Admit, TypeOK
  <2>5. /\ status' \in [Jobs -> {"none"} \cup Live \cup Ended]
        /\ kind' \in [Jobs -> Kinds \cup {"none"}]
        /\ owner' \in [Jobs -> Clients \cup {NoClient}]
        /\ fgjob' \in [Clients -> Jobs \cup {NoJob}]
    BY <1>7, <2>1 DEF Admit, TypeOK, Live
  <2>6. UNCHANGED <<session, mutex, probe, tracked, wrapped, reported>>
    BY <1>7 DEF Admit
  <2> QED
    BY <2>3, <2>4, <2>5, <2>6 DEF TypeOK
<1>8. ASSUME NEW t \in Threads, Execute(t) PROVE TypeOK'
  BY <1>8, GotoShape DEF Execute, TypeOK
<1>9. ASSUME NEW t \in Threads, Enter(t) PROVE TypeOK'
  BY <1>9, GotoShape DEF Enter, TypeOK
<1>10. ASSUME NEW t \in Threads, Inject(t) PROVE TypeOK'
  BY <1>10, GotoShape DEF Inject, TypeOK
<1>11. ASSUME NEW t \in Threads, InjectFails(t) PROVE TypeOK'
  <2>1. th[t].job \in Jobs /\ th[t].at # "idle"
    BY <1>11 DEF InjectFails, TypeOK
  <2>2. wrapped' \subseteq Jobs /\ reported' \subseteq Jobs
    BY <1>11, <2>1 DEF InjectFails, TypeOK
  <2> QED
    BY <1>11, <2>1, <2>2, GotoShape DEF InjectFails, TypeOK, Failed, Exited, Over
<1>12. ASSUME NEW t \in Threads, Track(t) PROVE TypeOK'
  BY <1>12, GotoShape DEF Track, TypeOK
<1>13. ASSUME NEW t \in Threads, NEW j \in Jobs, StopOne(t, j) PROVE TypeOK'
  <2>1. th[t].at # "idle" /\ \E pc \in {"settle", "fail"} : Goto(t, pc)
    BY <1>13 DEF StopOne
  <2>2. /\ probe' \in [Jobs -> {"none", "active"} \cup Over]
        /\ tracked' \subseteq Jobs /\ wrapped' \subseteq Jobs
    BY <1>13 DEF StopOne, Unregister, Release, Exited, Over, TypeOK
  <2> QED
    BY <1>13, <2>1, <2>2, GotoShape DEF StopOne, TypeOK
<1>21. ASSUME NEW t \in Threads, ResetFails(t) PROVE TypeOK'
  <2>1. th[t].at # "idle" /\ Goto(t, "fail")
    BY <1>21 DEF ResetFails
  <2>2. wrapped' \subseteq Jobs /\ reported' \subseteq Jobs /\ overlap' \subseteq Jobs
    BY <1>21 DEF ResetFails, Disturbed, TypeOK
  <2> QED
    BY <1>21, <2>1, <2>2, GotoShape DEF ResetFails, TypeOK
<1>14. ASSUME NEW t \in Threads, StopAll(t) PROVE TypeOK'
  BY <1>14, GotoShape DEF StopAll, DropWrappers, DropContexts, Disturbed, Exited, Over, TypeOK
<1>15. ASSUME NEW t \in Threads, Settle(t) PROVE TypeOK'
  BY <1>15, GotoShape, ReturnShape, SetStatusShape DEF Settle, TypeOK, Live, Ended, Idle
<1>16. ASSUME NEW t \in Threads, Fail(t) PROVE TypeOK'
  BY <1>16, GotoShape, SetStatusShape DEF Fail, TypeOK, Ended
<1>17. ASSUME NEW t \in Threads, Mark(t) PROVE TypeOK'
  <2> DEFINE j == th[t].job
  <2>1. j \in Jobs /\ th[t].at # "idle"
    BY <1>17 DEF Mark, TypeOK
  <2>2. probe' \in [Jobs -> {"none", "active"} \cup Over]
    BY <1>17 DEF Mark, TypeOK, Exited, Over
  <2>3. CASE SetStatus(j, IF th[t].kind = "interrupt" THEN "interrupted" ELSE "completed") /\ AfterMark(t)
    BY <1>17, <2>1, <2>2, <2>3, GotoShape, SetStatusShape, ZenonT(30) DEF Mark, AfterMark, TypeOK, Ended
  <2>4. CASE Return(t) /\ UNCHANGED status
    BY <1>17, <2>2, <2>4, ReturnShape DEF Mark, TypeOK
  <2> QED
    BY <1>17, <2>3, <2>4 DEF Mark
<1>18. ASSUME NEW t \in Threads, Clear(t) PROVE TypeOK'
  BY <1>18, ReturnShape DEF Clear, Cleared, TypeOK
<1>19. ASSUME NEW j \in Jobs, ForgetJob(j) \/ ForgetProbe(j) PROVE TypeOK'
  BY <1>19 DEF ForgetJob, ForgetProbe, TypeOK, Ended, Over
<1>20. CASE UNCHANGED vars
  BY <1>20 DEF vars, TypeOK
<1> QED
  BY <1>1, <1>2, <1>3, <1>4, <1>5, <1>6, <1>7, <1>8, <1>9, <1>10, <1>11, <1>12, <1>13,
     <1>14, <1>15, <1>16, <1>17, <1>18, <1>19, <1>20, <1>21 DEF Next, Step, IdleOut

-----------------------------------------------------------------------------
(* The mutation lock *)

LEMMA LockStep == TypeOK /\ LockInv /\ [Next]_vars => LockInv'
<1> SUFFICES ASSUME TypeOK, LockInv, [Next]_vars PROVE LockInv'
  OBVIOUS
<1> USE DEF LockInv, InMutation
<1>0. NoThread \notin Threads
  BY DispatchAssumption
\* A step inside a command neither enters nor leaves a mutation.
<1>1. ASSUME NEW t \in Threads, th[t].at \notin {"idle", "lock"}, UNCHANGED mutex,
             NEW pc \in {"exec", "enter", "inject", "track", "stop", "untrack", "reset",
                         "unwrap", "settle", "fail", "clear"},
             Goto(t, pc)
      PROVE  LockInv'
  <2>1. /\ th'[t].at = pc /\ th'[t].kind = th[t].kind
        /\ \A u \in Threads \ {t} : th'[u] = th[u]
    BY <1>1, GotoShape
  <2> QED
    BY <1>1, <2>1
\* Nor does the return of a command that is not a mutation.
<1>2. ASSUME NEW t \in Threads, ~InMutation(t), UNCHANGED mutex, Return(t)
      PROVE  LockInv'
  BY <1>2, ReturnShape DEF Idle
<1>3. ASSUME UNCHANGED <<mutex, th>> PROVE LockInv'
  BY <1>3
<1>4. ASSUME NEW t \in Threads, NEW k \in Kinds, NEW c \in Clients \cup {NoClient},
             NEW j \in Jobs, Request(t, k, c, j)
      PROVE  LockInv'
  BY <1>4 DEF Request, Idle, TypeOK
<1>5. ASSUME NEW t \in Threads, NEW j \in Jobs, Interrupt(t, j) \/ ProbeStop(t, j)
      PROVE  LockInv'
  <2>1. PICK k \in {"interrupt", "probe_stop"}, found \in BOOLEAN : Ending(t, k, j, found)
    BY <1>5 DEF Interrupt, ProbeStop, Registered
  <2>2. th[t] = Idle /\ mutex' = mutex
    BY <1>5 DEF Interrupt, ProbeStop
  <2> QED
    BY <2>1, <2>2, EndingShape DEF Idle
<1>6. ASSUME NEW t \in Threads, Lock(t) PROVE LockInv'
  BY <1>0, <1>6, GotoShape DEF Lock
<1>7. ASSUME NEW t \in Threads, LockTimeout(t) PROVE LockInv'
  BY <1>2, <1>7 DEF LockTimeout
<1>8. ASSUME NEW t \in Threads, Admit(t) PROVE LockInv'
  <2>1. FirstStep(th[t].kind) \in {"enter", "stop", "reset", "exec"}
    BY DEF FirstStep
  <2> QED
    BY <1>1, <1>8, <2>1 DEF Admit
<1>9. ASSUME NEW t \in Threads,
             \/ Execute(t) \/ Enter(t) \/ Inject(t) \/ InjectFails(t) \/ Track(t)
             \/ (\E j \in Jobs : StopOne(t, j)) \/ StopAll(t) \/ ResetFails(t) \/ Fail(t)
      PROVE  LockInv'
  BY <1>1, <1>9 DEF Execute, Enter, Inject, InjectFails, Track, StopOne, StopAll, ResetFails, Fail
<1>10. ASSUME NEW t \in Threads, Settle(t) PROVE LockInv'
  BY <1>1, <1>2, <1>10 DEF Settle
<1>11. ASSUME NEW t \in Threads, Mark(t) PROVE LockInv'
  BY <1>1, <1>2, <1>11 DEF Mark, AfterMark
<1>12. ASSUME NEW t \in Threads, Clear(t) PROVE LockInv'
  <2>1. th'[t] = Idle /\ \A u \in Threads \ {t} : th'[u] = th[u]
    BY <1>12, ReturnShape DEF Clear
  <2>2. mutex' = IF mutex = t THEN NoThread ELSE mutex
    BY <1>12 DEF Clear
  <2> QED
    BY <1>0, <2>1, <2>2 DEF Idle
<1> QED
  BY <1>3, <1>4, <1>5, <1>6, <1>7, <1>8, <1>9, <1>10, <1>11, <1>12
  DEF Next, Step, CreateClient, CloseClient, IdleOut, ForgetJob, ForgetProbe, vars

-----------------------------------------------------------------------------
(* Jobs and their commands *)

\* Releasing a context creates no probe run.
LEMMA ReleaseShape ==
    ASSUME TypeOK, NEW j \in Jobs,
           \/ Release(j) \/ Unregister(j) \/ StopResources(j)
           \/ UNCHANGED <<probe, tracked, wrapped>>
    PROVE  /\ \A i \in Jobs : probe'[i] \in {probe[i], "stopped"}
           /\ \A i \in Jobs : probe'[i] # probe[i] =>
                 i = j /\ probe[i] = "active" /\ j \in tracked
           /\ tracked' \in {tracked, tracked \ {j}}
           /\ wrapped' \in {wrapped, wrapped \ {j}}
  BY DEF TypeOK, Release, Unregister, StopResources, Exited

LEMMA JobStep == TypeOK /\ JobInv /\ [Next]_vars => JobInv'
<1> SUFFICES ASSUME TypeOK, JobInv, [Next]_vars PROVE JobInv'
  OBVIOUS
<1> USE DEF JobInv, Pre
\* A step inside a command that registers no job and creates no probe run.
<1>1. ASSUME NEW t \in Threads, th[t].at \notin Pre \cup {"idle"}, UNCHANGED <<fgjob, status>>,
             \A j \in Jobs : probe'[j] # "none" => probe[j] # "none",
             NEW pc \in {"inject", "track", "untrack", "unwrap", "settle", "fail"},
             Goto(t, pc)
      PROVE  JobInv'
  BY <1>1, GotoShape DEF TypeOK
\* A return that leaves everything else alone.
<1>2. ASSUME NEW t \in Threads, UNCHANGED <<fgjob, status>>, Return(t),
             \A j \in Jobs : probe'[j] # "none" => probe[j] # "none"
      PROVE  JobInv'
  BY <1>2, ReturnShape, DispatchAssumption DEF TypeOK, Idle
\* The job of a command ends, or its status is refused.
<1>3. ASSUME NEW t \in Threads, th[t].at \notin Pre \cup {"idle"}, UNCHANGED fgjob,
             NEW to \in {"completed", "failed", "interrupted"}, SetStatus(th[t].job, to),
             \A j \in Jobs : probe'[j] # "none" => probe[j] # "none",
             Goto(t, "clear")
      PROVE  JobInv'
  <2>1. th[t].job \in Jobs /\ status[th[t].job] # "none"
    BY <1>3 DEF TypeOK
  <2>2. /\ th'[t].at = "clear" /\ th'[t].job = th[t].job
        /\ \A u \in Threads \ {t} : th'[u] = th[u]
    BY <1>3, GotoShape
  <2>3. /\ \A i \in Jobs \ {th[t].job} : status'[i] = status[i]
        /\ status'[th[t].job] \in Ended
        /\ \A i \in Jobs : status[i] \in Ended => status'[i] \in Ended
    BY <1>3, <2>1, SetStatusShape DEF TypeOK, Ended, Live
  <2>4. \A i \in Jobs : (status'[i] = "none" <=> status[i] = "none")
    BY <2>1, <2>3 DEF Ended
  <2>5. \A u \in Threads : th'[u].at \in Pre => u # t
    BY <2>2
  <2>6. \A u \in Threads : th[u].at # "idle" => th[u].job \in Jobs
    BY DEF TypeOK
  <2>7. \A c \in Clients : fgjob[c] # NoJob => fgjob[c] \in Jobs
    BY DEF TypeOK
  <2> QED
    BY <1>3, <2>1, <2>2, <2>3, <2>4, <2>5, <2>6, <2>7
<1>4. ASSUME NEW c \in Clients, CreateClient(c) \/ CloseClient(c) PROVE JobInv'
  BY <1>4 DEF CreateClient, CloseClient, TypeOK
<1>5. ASSUME NEW t \in Threads, NEW k \in Kinds, NEW c \in Clients \cup {NoClient},
             NEW j \in Jobs, Request(t, k, c, j)
      PROVE  JobInv'
  <2>1. /\ th'[t].job = j /\ th'[t].at \in Pre
        /\ \A u \in Threads \ {t} : th'[u] = th[u]
    BY <1>5 DEF Request, TypeOK
  <2>2. /\ UNCHANGED <<status, fgjob, probe>> /\ status[j] = "none"
        /\ \A u \in Threads : th[u].job # j
    BY <1>5 DEF Request
  <2> QED
    BY <2>1, <2>2
<1>6. ASSUME NEW t \in Threads, NEW j \in Jobs, Interrupt(t, j) \/ ProbeStop(t, j)
      PROVE  JobInv'
  <2>1. PICK k \in {"interrupt", "probe_stop"}, found \in BOOLEAN : Ending(t, k, j, found)
    BY <1>6 DEF Interrupt, ProbeStop, Registered
  <2>2. UNCHANGED <<status, fgjob>> /\ status[j] # "none"
    BY <1>6 DEF Interrupt, ProbeStop, Registered, Live
  <2>3. \A i \in Jobs : probe'[i] # "none" => probe[i] # "none"
    BY <1>6, ReleaseShape DEF Interrupt, ProbeStop
  <2> QED
    BY <2>1, <2>2, <2>3, EndingShape
<1>7. ASSUME NEW t \in Threads, Lock(t) PROVE JobInv'
  BY <1>7, GotoShape DEF Lock, TypeOK
<1>8. ASSUME NEW t \in Threads, LockTimeout(t) PROVE JobInv'
  BY <1>2, <1>8 DEF LockTimeout
<1>9. ASSUME NEW t \in Threads, Admit(t) PROVE JobInv'
  <2> DEFINE j == th[t].job
  <2>1. /\ j \in Jobs /\ th[t].at = "admit" /\ status' = [status EXCEPT ![j] = "running"]
        /\ Goto(t, FirstStep(th[t].kind)) /\ probe' = probe
        /\ \A c \in Clients : fgjob'[c] \in {fgjob[c], j}
    BY <1>9 DEF Admit, TypeOK
  <2>2. FirstStep(th[t].kind) \in {"enter", "stop", "reset", "exec"}
    BY DEF FirstStep
  <2>3. /\ th'[t].at \in {"enter", "stop", "reset", "exec"} /\ th'[t].job = j
        /\ \A u \in Threads \ {t} : th'[u] = th[u]
    BY <2>1, <2>2, GotoShape
  <2>4. \A i \in Jobs : i # j => status'[i] = status[i]
    BY <2>1 DEF TypeOK
  <2>5. status'[j] = "running" /\ status[j] = "none"
    BY <2>1 DEF TypeOK
  <2>6. \A u \in Threads \ {t} : th[u].job # j
    BY <2>1
  <2>7. /\ \A u \in Threads : th[u].at # "idle" => th[u].job \in Jobs
        /\ \A c \in Clients : fgjob[c] # NoJob => fgjob[c] \in Jobs
    BY DEF TypeOK
  <2> QED
    BY <2>1, <2>3, <2>4, <2>5, <2>6, <2>7
<1>10. ASSUME NEW t \in Threads, Execute(t) PROVE JobInv'
  BY <1>1, <1>10 DEF Execute
<1>11. ASSUME NEW t \in Threads, Enter(t) PROVE JobInv'
  BY <1>11, GotoShape DEF Enter, TypeOK
<1>12. ASSUME NEW t \in Threads, Inject(t) \/ InjectFails(t) \/ Track(t) PROVE JobInv'
  BY <1>1, <1>12 DEF Inject, InjectFails, Track, Failed, Exited
<1>13. ASSUME NEW t \in Threads, NEW j \in Jobs, StopOne(t, j) PROVE JobInv'
  <2>1. \A i \in Jobs : probe'[i] # "none" => probe[i] # "none"
    BY <1>13, ReleaseShape DEF StopOne
  <2> QED
    BY <1>1, <1>13, <2>1 DEF StopOne
<1>22. ASSUME NEW t \in Threads, ResetFails(t) PROVE JobInv'
  BY <1>1, <1>22 DEF ResetFails
<1>14. ASSUME NEW t \in Threads, StopAll(t) PROVE JobInv'
  <2>1. \A i \in Jobs : probe'[i] # "none" => probe[i] # "none"
    BY <1>14 DEF StopAll, DropContexts, DropWrappers, Exited
  <2> QED
    BY <1>1, <1>14, <2>1 DEF StopAll
<1>15. ASSUME NEW t \in Threads, Settle(t) PROVE JobInv'
  <2>1. CASE th[t].kind = "start"
    <3>1. th[t].job \in Jobs /\ status[th[t].job] # "none"
      BY <1>15 DEF Settle, TypeOK
    <3>2. /\ \A i \in Jobs : status'[i] = "none" <=> status[i] = "none"
          /\ \A i \in Jobs : status[i] \in Ended => status'[i] \in Ended
      BY <1>15, <2>1, <3>1, SetStatusShape DEF Settle, TypeOK, Live, Ended
    <3>3. \A u \in Threads : th'[u] = IF u = t THEN Idle ELSE th[u]
      BY <1>15, <2>1, ReturnShape DEF Settle
    <3>4. UNCHANGED <<fgjob, probe>>
      BY <1>15 DEF Settle
    <3>5. /\ \A u \in Threads : th[u].at # "idle" => th[u].job \in Jobs
          /\ \A c \in Clients : fgjob[c] # NoJob => fgjob[c] \in Jobs
      BY DEF TypeOK
    <3>6. \A u \in Threads : th'[u].at # "idle" => u # t /\ th'[u] = th[u]
      BY <3>3 DEF Idle
    <3> QED
      BY <3>2, <3>3, <3>4, <3>5, <3>6, DispatchAssumption DEF Idle
  <2>2. CASE th[t].kind # "start"
    BY <1>3, <1>15, <2>2 DEF Settle
  <2> QED
    BY <2>1, <2>2
<1>16. ASSUME NEW t \in Threads, Fail(t) PROVE JobInv'
  BY <1>3, <1>16 DEF Fail
<1>17. ASSUME NEW t \in Threads, Mark(t) PROVE JobInv'
  <2>1. \A j \in Jobs : probe'[j] # "none" => probe[j] # "none"
    BY <1>17 DEF Mark, Exited
  <2> QED
    BY <1>2, <1>3, <1>17, <2>1 DEF Mark, AfterMark
<1>18. ASSUME NEW t \in Threads, Clear(t) PROVE JobInv'
  <2>1. \A c \in Clients : fgjob'[c] \in {fgjob[c], NoJob}
    BY <1>18 DEF Clear, Cleared
  <2>2. UNCHANGED <<status, probe>>
    BY <1>18 DEF Clear
  <2>3. \A u \in Threads : th'[u].at # "idle" => th'[u] = th[u]
    BY <1>18, ReturnShape DEF Clear
  <2>4. \A u \in Threads : th'[u].job \in {th[u].job, NoJob}
    BY <1>18, ReturnShape DEF Clear, Idle
  <2>5. \A u \in Threads : th'[u].at \in Pre => th'[u].job \in Jobs
    BY <2>3 DEF TypeOK
  <2> QED
    BY <2>1, <2>2, <2>3, <2>4, <2>5, DispatchAssumption
<1>19. ASSUME NEW j \in Jobs, ForgetJob(j) PROVE JobInv'
  <2>1. /\ \A i \in Jobs : status'[i] = "none" <=> status[i] = "none"
        /\ \A i \in Jobs : status[i] \in Ended => status'[i] \in Ended
        /\ UNCHANGED <<fgjob, probe, th>>
    BY <1>19 DEF ForgetJob, TypeOK, Ended
  <2> QED
    BY <2>1 DEF TypeOK
<1>20. ASSUME NEW j \in Jobs, ForgetProbe(j) PROVE JobInv'
  BY <1>20 DEF ForgetProbe, TypeOK, Over
<1>21. CASE UNCHANGED vars
  BY <1>21 DEF vars
<1> QED
  BY <1>4, <1>5, <1>6, <1>7, <1>8, <1>9, <1>10, <1>11, <1>12, <1>13, <1>14, <1>15, <1>16,
     <1>17, <1>18, <1>19, <1>20, <1>21, <1>22
  DEF Next, Step, IdleOut

-----------------------------------------------------------------------------
(* The session's pointer *)

LEMMA PointerStep == TypeOK /\ JobInv /\ PointerLive /\ [Next]_vars => PointerLive'
<1> SUFFICES ASSUME TypeOK, JobInv, PointerLive, [Next]_vars PROVE PointerLive'
  OBVIOUS
<1> USE DEF PointerLive
<1>0. \A c \in Clients : fgjob[c] # NoJob => fgjob[c] \in Jobs /\ status[fgjob[c]] # "none"
  BY DEF TypeOK, JobInv
\* A step that keeps pointers and the registry, and takes no thread from "clear".
<1>1. ASSUME UNCHANGED <<fgjob, status, owner>>,
             \A t \in Threads : th[t].at = "clear" => th'[t] = th[t]
      PROVE  PointerLive'
  BY <1>1
\* A command goes on, its job live or ended as it was.
<1>2. ASSUME NEW t \in Threads, th[t].at \notin {"idle", "clear"}, UNCHANGED <<fgjob, status, owner>>,
             NEW pc \in {"admit", "exec", "enter", "inject", "track", "stop", "untrack",
                         "reset", "unwrap", "settle", "fail"},
             Goto(t, pc)
      PROVE  PointerLive'
  BY <1>1, <1>2, GotoShape
<1>3. ASSUME NEW t \in Threads, th[t].at # "clear", UNCHANGED <<fgjob, status, owner>>, Return(t)
      PROVE  PointerLive'
  BY <1>1, <1>3, ReturnShape
\* A job ends: its own thread is the one that clears the pointer.
<1>4. ASSUME NEW t \in Threads, th[t].at \notin Pre \cup {"idle", "clear"}, UNCHANGED <<fgjob, owner>>,
             NEW to \in {"completed", "failed", "interrupted"}, SetStatus(th[t].job, to),
             Goto(t, "clear")
      PROVE  PointerLive'
  <2>1. th[t].job \in Jobs
    BY <1>4 DEF TypeOK
  <2>2. /\ th'[t].at = "clear" /\ th'[t].job = th[t].job
        /\ \A u \in Threads \ {t} : th'[u] = th[u]
    BY <1>4, GotoShape
  <2>3. \A i \in Jobs \ {th[t].job} : status'[i] = status[i]
    BY <1>4, <2>1, SetStatusShape DEF Ended
  <2> QED
    BY <1>0, <1>4, <2>2, <2>3
<1>5. ASSUME NEW c \in Clients, CreateClient(c) \/ CloseClient(c) PROVE PointerLive'
  <2>1. \A d \in Clients : fgjob'[d] \in {fgjob[d], NoJob}
    BY <1>5 DEF CreateClient, CloseClient, TypeOK
  <2> QED
    BY <1>5, <2>1 DEF CreateClient, CloseClient
<1>6. ASSUME NEW t \in Threads, NEW k \in Kinds, NEW c \in Clients \cup {NoClient},
             NEW j \in Jobs, Request(t, k, c, j)
      PROVE  PointerLive'
  BY <1>1, <1>6 DEF Request, Idle, TypeOK
<1>7. ASSUME NEW t \in Threads, NEW j \in Jobs, Interrupt(t, j) \/ ProbeStop(t, j)
      PROVE  PointerLive'
  <2>1. PICK k \in {"interrupt", "probe_stop"}, found \in BOOLEAN : Ending(t, k, j, found)
    BY <1>7 DEF Interrupt, ProbeStop, Registered
  <2>2. th[t] = Idle /\ fgjob' = fgjob /\ status' = status /\ owner' = owner
    <3>1. CASE Interrupt(t, j)
      BY <3>1 DEF Interrupt
    <3>2. CASE ProbeStop(t, j)
      BY <3>2 DEF ProbeStop
    <3> QED
      BY <1>7, <3>1, <3>2
  <2>3. th[t].at = "idle"
    BY <2>2 DEF Idle
  <2> QED
    BY <1>1, <2>1, <2>2, <2>3, EndingShape
<1>8. ASSUME NEW t \in Threads, Admit(t) PROVE PointerLive'
  <2> DEFINE j == th[t].job
             c == th[t].client
  <2>1. /\ j \in Jobs /\ status[j] = "none" /\ Goto(t, FirstStep(th[t].kind))
    BY <1>8 DEF Admit, TypeOK, JobInv, Pre
  <2>2. FirstStep(th[t].kind) \in {"enter", "stop", "reset", "exec"}
    BY DEF FirstStep
  <2>3. \A u \in Threads : th[u].at = "clear" => th'[u] = th[u]
    BY <1>8, <2>1, <2>2, GotoShape DEF Admit
  <2>4. /\ status'[j] = "running" /\ owner'[j] = c
        /\ \A i \in Jobs \ {j} : status'[i] = status[i] /\ owner'[i] = owner[i]
    BY <1>8, <2>1 DEF Admit, TypeOK
  <2>5. \A d \in Clients : fgjob'[d] = fgjob[d] \/ (d = c /\ fgjob'[d] = j)
    BY <1>8 DEF Admit
  <2>6. \A d \in Clients : fgjob[d] # j
    BY <1>0, <2>1, DispatchAssumption
  <2>7. ASSUME NEW d \in Clients, fgjob'[d] # NoJob
        PROVE  /\ owner'[fgjob'[d]] = d
               /\ \/ status'[fgjob'[d]] \in Live
                  \/ \E u \in Threads : th'[u].at = "clear" /\ th'[u].job = fgjob'[d]
    <3>1. CASE d = c /\ fgjob'[d] = j
      BY <2>4, <3>1 DEF Live
    <3>2. CASE fgjob'[d] = fgjob[d]
      BY <1>0, <2>3, <2>4, <2>6, <2>7, <3>2
    <3> QED
      BY <2>5, <3>1, <3>2
  <2> QED
    BY <2>7
<1>9. ASSUME NEW t \in Threads, Lock(t) PROVE PointerLive'
  BY <1>2, <1>9 DEF Lock
<1>10. ASSUME NEW t \in Threads, LockTimeout(t) PROVE PointerLive'
  BY <1>3, <1>10 DEF LockTimeout
<1>11. ASSUME NEW t \in Threads,
             \/ Execute(t) \/ Enter(t) \/ Inject(t) \/ InjectFails(t) \/ Track(t)
             \/ (\E j \in Jobs : StopOne(t, j)) \/ StopAll(t) \/ ResetFails(t)
      PROVE  PointerLive'
  BY <1>2, <1>11 DEF Execute, Enter, Inject, InjectFails, Track, StopOne, StopAll, ResetFails
<1>12. ASSUME NEW t \in Threads, Settle(t) PROVE PointerLive'
  <2>1. CASE th[t].kind = "start"
    <3>1. th[t].job \in Jobs
      BY <1>12 DEF Settle, TypeOK
    <3>2. \A i \in Jobs : status[i] \in Live => status'[i] \in Live
      BY <1>12, <2>1, <3>1, SetStatusShape DEF Settle, TypeOK, Live
    <3>3. \A u \in Threads : th[u].at = "clear" => th'[u] = th[u]
      BY <1>12, <2>1, ReturnShape DEF Settle
    <3>4. UNCHANGED <<fgjob, owner>>
      BY <1>12 DEF Settle
    <3> QED
      BY <1>0, <3>2, <3>3, <3>4
  <2>2. CASE th[t].kind # "start"
    BY <1>4, <1>12, <2>2 DEF Settle, Pre
  <2> QED
    BY <2>1, <2>2
<1>13. ASSUME NEW t \in Threads, Fail(t) PROVE PointerLive'
  BY <1>4, <1>13 DEF Fail, Pre
<1>14. ASSUME NEW t \in Threads, Mark(t) PROVE PointerLive'
  BY <1>3, <1>4, <1>14 DEF Mark, AfterMark, Pre
<1>15. ASSUME NEW t \in Threads, Clear(t) PROVE PointerLive'
  <2> DEFINE j == th[t].job
  <2>1. \A u \in Threads : u # t => th'[u] = th[u]
    BY <1>15, ReturnShape DEF Clear
  <2>2. UNCHANGED <<status, owner>>
    BY <1>15 DEF Clear
  <2>3. \A d \in Clients : fgjob'[d] = IF d = owner[j] /\ fgjob[d] = j THEN NoJob ELSE fgjob[d]
    BY <1>15 DEF Clear, Cleared
  <2>4. ASSUME NEW d \in Clients, fgjob'[d] # NoJob
        PROVE  /\ fgjob'[d] = fgjob[d] /\ fgjob[d] # j
               /\ \/ status[fgjob[d]] \in Live
                  \/ \E u \in Threads : u # t /\ th[u].at = "clear" /\ th[u].job = fgjob[d]
    <3>1. fgjob'[d] = fgjob[d] /\ owner[fgjob[d]] = d
      BY <2>3, <2>4
    <3>2. fgjob[d] # j
      BY <2>3, <2>4, <3>1
    <3> QED
      BY <2>4, <3>1, <3>2
  <2> QED
    BY <2>1, <2>2, <2>4
<1>16. ASSUME NEW j \in Jobs, ForgetJob(j) PROVE PointerLive'
  <2>1. /\ UNCHANGED <<fgjob, owner, th>>
        /\ \A i \in Jobs : status[i] \in Live => status'[i] = status[i]
    BY <1>16 DEF ForgetJob, TypeOK, Live, Ended
  <2> QED
    BY <1>0, <2>1
<1>17. ASSUME NEW j \in Jobs, ForgetProbe(j) PROVE PointerLive'
  BY <1>1, <1>17 DEF ForgetProbe
<1>18. CASE UNCHANGED vars
  BY <1>1, <1>18 DEF vars
<1> QED
  BY <1>5, <1>6, <1>7, <1>8, <1>9, <1>10, <1>11, <1>12, <1>13, <1>14, <1>15, <1>16, <1>17, <1>18
  DEF Next, Step, IdleOut

-----------------------------------------------------------------------------
(* The foreground rule *)

LEMMA ForegroundStep ==
    OwnConnection /\ TypeOK /\ JobInv /\ ForegroundInv /\ [Next]_vars => ForegroundInv'
<1> SUFFICES ASSUME OwnConnection, TypeOK, JobInv, ForegroundInv, [Next]_vars
             PROVE  ForegroundInv'
  OBVIOUS
<1> USE DEF ForegroundInv, Pre
<1>0. /\ NoClient \notin Clients /\ NoJob \notin Jobs
      /\ \A c \in Clients : fgjob[c] # NoJob => fgjob[c] \in Jobs
  BY DispatchAssumption DEF TypeOK
\* A step that starts no command and no job, and takes the slot of none.
<1>1. ASSUME UNCHANGED <<session, owner>>,
             \A j \in Jobs : status'[j] \in Live => status[j] \in Live,
             \A c \in Clients : fgjob'[c] # fgjob[c] => status[fgjob[c]] \notin Live,
             \A u \in Threads :
                /\ th'[u].client \in {th[u].client, NoClient}
                /\ th'[u].at \in Pre =>
                      /\ th[u].at \in Pre
                      /\ th'[u].kind = th[u].kind /\ th'[u].client = th[u].client
      PROVE  ForegroundInv'
  <2>1. \A j \in Jobs, c \in Clients :
           session[c] = "open" /\ owner[j] = c /\ status'[j] \in Live => fgjob'[c] = j
    BY <1>1
  <2>2. \A u \in Threads, c \in Clients, j \in Jobs :
           session[c] = "open" /\ th'[u].at \in Pre /\ th'[u].client = c
              => ~(owner[j] = c /\ status'[j] \in Live)
    BY <1>1
  <2> QED
    BY <1>0, <1>1, <2>1, <2>2
\* A command goes on or returns.
<1>2. ASSUME NEW t \in Threads, UNCHANGED <<session, fgjob, owner>>, th[t].at # "idle",
             \A j \in Jobs : status'[j] \in Live => status[j] \in Live,
             \/ Return(t)
             \/ th[t].at = "lock" /\ Goto(t, "admit")
             \/ \E pc \in {"exec", "enter", "inject", "track", "stop", "untrack", "reset",
                           "unwrap", "settle", "fail", "clear"} : Goto(t, pc)
      PROVE  ForegroundInv'
  <2>1. \A u \in Threads :
           /\ th'[u].client \in {th[u].client, NoClient}
           /\ th'[u].at \in Pre =>
                 /\ th[u].at \in Pre
                 /\ th'[u].kind = th[u].kind /\ th'[u].client = th[u].client
    <3>1. CASE Return(t)
      BY <3>1, ReturnShape DEF Idle
    <3>2. CASE th[t].at = "lock" /\ Goto(t, "admit")
      BY <1>2, <3>2, GotoShape
    <3>3. ASSUME NEW pc \in {"exec", "enter", "inject", "track", "stop", "untrack", "reset",
                             "unwrap", "settle", "fail", "clear"}, Goto(t, pc)
          PROVE  th'[t].client = th[t].client /\ th'[t].at \notin Pre
                 /\ \A u \in Threads \ {t} : th'[u] = th[u]
      BY <1>2, <3>3, GotoShape
    <3> QED
      BY <1>2, <3>1, <3>2, <3>3
  <2> QED
    BY <1>1, <1>2, <2>1
\* set_status never makes a job live again.
<1>3. ASSUME NEW j \in Jobs, NEW to \in {"streaming", "completed", "failed", "interrupted"},
             SetStatus(j, to)
      PROVE  \A i \in Jobs : status'[i] \in Live => status[i] \in Live
  BY <1>3, SetStatusShape DEF TypeOK, Live, Ended
<1>4. ASSUME NEW c \in Clients, CreateClient(c) PROVE ForegroundInv'
  <2>1. /\ UNCHANGED <<fgjob, status, owner, th>>
        /\ \A d \in Clients \ {c} : session'[d] = session[d]
        /\ session[c] = "new" /\ session'[c] = "open"
    BY <1>4 DEF CreateClient, TypeOK
  <2>2. \A j \in Jobs : owner[j] # c
    BY <2>1
  <2>3. \A t \in Threads : th[t].client # c
    BY <2>1
  <2> QED
    BY <2>1, <2>2, <2>3
<1>5. ASSUME NEW c \in Clients, CloseClient(c) PROVE ForegroundInv'
  <2>1. /\ UNCHANGED <<status, owner, th>>
        /\ \A d \in Clients \ {c} : session'[d] = session[d] /\ fgjob'[d] = fgjob[d]
        /\ session'[c] = "closed"
    BY <1>5 DEF CloseClient, TypeOK
  <2> QED
    BY <2>1
<1>6. ASSUME NEW t \in Threads, NEW k \in Kinds, NEW c \in Clients \cup {NoClient},
             NEW j \in Jobs, Request(t, k, c, j)
      PROVE  ForegroundInv'
  <2>1. /\ UNCHANGED <<session, fgjob, status, owner>>
        /\ <<t, k, c>> \in Sends
        /\ c # NoClient => session[c] # "new"
        /\ c # NoClient /\ k # "concurrent" => (session[c] = "open" => ~Busy(c))
    BY <1>6 DEF Request
  <2>2. /\ th'[t].kind = k /\ th'[t].client = c
        /\ \A u \in Threads \ {t} : th'[u] = th[u]
    BY <1>6 DEF Request, TypeOK
  <2>3. c \in Clients => k # "concurrent"
    BY <2>1 DEF OwnConnection
  <2>4. \A i \in Jobs : c \in Clients /\ session[c] = "open" => ~(owner[i] = c /\ status[i] \in Live)
    BY <1>0, <2>1, <2>3 DEF Busy
  <2>5. \A u \in Threads : th'[u].at \in Pre => <<u, th'[u].kind, th'[u].client>> \in Sends
    BY <2>1, <2>2
  <2>6. \A u \in Threads : th'[u].client \in Clients => session[th'[u].client] # "new"
    BY <1>0, <2>1, <2>2
  <2>7. \A d \in Clients, u \in Threads :
           session[d] = "open" /\ th'[u].at \in Pre /\ th'[u].client = d =>
              \A i \in Jobs : ~(owner[i] = d /\ status[i] \in Live)
    BY <2>2, <2>4
  <2> QED
    BY <2>1, <2>5, <2>6, <2>7
<1>7. ASSUME NEW t \in Threads, NEW j \in Jobs, Interrupt(t, j) \/ ProbeStop(t, j)
      PROVE  ForegroundInv'
  <2>1. PICK k \in {"interrupt", "probe_stop"}, found \in BOOLEAN : Ending(t, k, j, found)
    BY <1>7 DEF Interrupt, ProbeStop, Registered
  <2>2. UNCHANGED <<session, fgjob, status, owner>>
    BY <1>7 DEF Interrupt, ProbeStop
  <2> QED
    BY <1>1, <2>1, <2>2, EndingShape
<1>8. ASSUME NEW t \in Threads, Admit(t) PROVE ForegroundInv'
  <2> DEFINE j == th[t].job
             c == th[t].client
  <2>1. /\ th[t].at = "admit" /\ j \in Jobs /\ Goto(t, FirstStep(th[t].kind))
        /\ c \in Clients \cup {NoClient} /\ session' = session
    BY <1>8 DEF Admit, TypeOK, Command
  <2>2. FirstStep(th[t].kind) \in {"enter", "stop", "reset", "exec"}
    BY DEF FirstStep
  <2>3. /\ th'[t].at \notin Pre /\ th'[t].client = c
        /\ \A u \in Threads \ {t} : th'[u] = th[u]
    BY <2>1, <2>2, GotoShape
  <2>4. /\ owner'[j] = c
        /\ \A i \in Jobs \ {j} : status'[i] = status[i] /\ owner'[i] = owner[i]
    BY <1>8, <2>1 DEF Admit, TypeOK
  <2>5. \A d \in Clients : fgjob'[d] = IF d = c /\ session[d] = "open" THEN j ELSE fgjob[d]
    BY <1>8 DEF Admit
  <2>6. \A u \in Threads \ {t} : th[u].at \in Pre /\ c \in Clients => th[u].client # c
    BY <2>1 DEF OwnConnection
  <2>7. \A i \in Jobs : c \in Clients /\ session[c] = "open" => ~(owner[i] = c /\ status[i] \in Live)
    BY <2>1
  <2>8. \A d \in Clients, i \in Jobs :
           session[d] = "open" /\ owner'[i] = d /\ status'[i] \in Live => fgjob'[d] = i
    BY <2>4, <2>5, <2>7
  <2>9. \A d \in Clients, u \in Threads, i \in Jobs :
           session[d] = "open" /\ th'[u].at \in Pre /\ th'[u].client = d
              => ~(owner'[i] = d /\ status'[i] \in Live)
    BY <2>3, <2>4, <2>6
  <2>10. \A u \in Threads : th'[u].at \in Pre => <<u, th'[u].kind, th'[u].client>> \in Sends
    BY <2>3
  <2>11. \A u \in Threads : th'[u].client \in Clients => session[th'[u].client] # "new"
    BY <2>3
  <2>12. \A i \in Jobs : owner'[i] \in Clients => session[owner'[i]] # "new"
    BY <2>4
  <2> QED
    BY <2>1, <2>8, <2>9, <2>10, <2>11, <2>12
<1>9. ASSUME NEW t \in Threads, Lock(t) PROVE ForegroundInv'
  BY <1>2, <1>9 DEF Lock
<1>10. ASSUME NEW t \in Threads, LockTimeout(t) PROVE ForegroundInv'
  BY <1>2, <1>10 DEF LockTimeout
<1>11. ASSUME NEW t \in Threads,
             \/ Execute(t) \/ Enter(t) \/ Inject(t) \/ InjectFails(t) \/ Track(t)
             \/ (\E j \in Jobs : StopOne(t, j)) \/ StopAll(t) \/ ResetFails(t)
      PROVE  ForegroundInv'
  BY <1>2, <1>11 DEF Execute, Enter, Inject, InjectFails, Track, StopOne, StopAll, ResetFails
<1>12. ASSUME NEW t \in Threads, Settle(t) \/ Fail(t) PROVE ForegroundInv'
  <2>1. th[t].at # "idle" /\ th[t].job \in Jobs
    BY <1>12 DEF Settle, Fail, TypeOK
  <2> QED
    BY <1>2, <1>3, <1>12, <2>1 DEF Settle, Fail
<1>13. ASSUME NEW t \in Threads, Mark(t) PROVE ForegroundInv'
  <2>1. th[t].at # "idle" /\ th[t].job \in Jobs /\ UNCHANGED <<session, fgjob, owner>>
    BY <1>13 DEF Mark, TypeOK
  <2>2. \A i \in Jobs : status'[i] \in Live => status[i] \in Live
    BY <1>3, <1>13, <2>1 DEF Mark
  <2>3. Goto(t, "clear") \/ Return(t)
    BY <1>13 DEF Mark, AfterMark
  <2> QED
    BY <1>2, <2>1, <2>2, <2>3
<1>14. ASSUME NEW t \in Threads, Clear(t) PROVE ForegroundInv'
  <2>1. /\ UNCHANGED <<session, status, owner>> /\ Return(t)
        /\ status[th[t].job] \notin Live
    BY <1>14 DEF Clear, JobInv, Live, Ended
  <2>2. \A c \in Clients : fgjob'[c] # fgjob[c] => status[fgjob[c]] \notin Live
    BY <1>14, <2>1 DEF Clear, Cleared
  <2>3. th'[t] = Idle /\ \A u \in Threads \ {t} : th'[u] = th[u]
    BY <2>1, ReturnShape
  <2> QED
    BY <1>1, <2>1, <2>2, <2>3 DEF Idle
<1>15. ASSUME NEW j \in Jobs, ForgetJob(j) \/ ForgetProbe(j) PROVE ForegroundInv'
  <2>1. UNCHANGED <<session, fgjob, owner, th>>
    BY <1>15 DEF ForgetJob, ForgetProbe
  <2>2. \A i \in Jobs : status'[i] \in Live => status[i] \in Live
    BY <1>15 DEF ForgetJob, ForgetProbe, TypeOK, Live, Ended
  <2> QED
    BY <1>1, <2>1, <2>2
<1>16. CASE UNCHANGED vars
  BY <1>1, <1>16 DEF vars
<1> QED
  BY <1>4, <1>5, <1>6, <1>7, <1>8, <1>9, <1>10, <1>11, <1>12, <1>13, <1>14, <1>15, <1>16
  DEF Next, Step, IdleOut

-----------------------------------------------------------------------------
(* The theorems *)

LEMMA DispatchInits == Init => LockInv /\ JobInv /\ PointerLive /\ ForegroundInv
<1> SUFFICES ASSUME Init PROVE LockInv /\ JobInv /\ PointerLive /\ ForegroundInv
  OBVIOUS
<1>1. \A t \in Threads : th[t].at = "idle" /\ th[t].kind = "none" /\ th[t].client = NoClient
  BY DEF Init, Idle
<1>2. /\ mutex = NoThread
      /\ \A j \in Jobs : status[j] = "none" /\ probe[j] = "none" /\ owner[j] = NoClient
      /\ \A c \in Clients : fgjob[c] = NoJob
  BY DEF Init
<1> QED
  BY <1>1, <1>2, DispatchAssumption
  DEF LockInv, InMutation, JobInv, PointerLive, ForegroundInv, Pre, Live

\* The registries, the sessions and the threads keep their types.
THEOREM DispatchTypes == Spec => []TypeOK
  BY TypeInit, TypeStep, PTL DEF Spec

\* At most one mutation between its lock and its release, however commands of
\* the connections interleave: a reset holds the lock in all of its steps.
THEOREM MutationsSerial == Spec => []MutationsSerialized
<1>1. Init => TypeOK /\ LockInv
  BY TypeInit, DispatchInits
<1>2. TypeOK /\ LockInv /\ [Next]_vars => (TypeOK /\ LockInv)'
  BY TypeStep, LockStep
<1>3. TypeOK /\ LockInv => MutationsSerialized
  BY DEF LockInv, MutationsSerialized, InMutation
<1> QED
  BY <1>1, <1>2, <1>3, PTL DEF Spec

\* A session's pointer names a live job of that session, or the thread that
\* ended the job is about to clear it.
THEOREM PointerFollowsJob == Spec => []PointerLive
<1>1. Init => TypeOK /\ JobInv /\ PointerLive
  BY TypeInit, DispatchInits
<1>2. TypeOK /\ JobInv /\ PointerLive /\ [Next]_vars => (TypeOK /\ JobInv /\ PointerLive)'
  BY TypeStep, JobStep, PointerStep
<1> QED
  BY <1>1, <1>2, PTL DEF Spec

\* The foreground rule holds when a session's commands come over one connection
\* and its concurrent snapshots are sent without the session.
THEOREM ForegroundRule == ASSUME OwnConnection PROVE Spec => []OneForeground
<1> DEFINE Inv == TypeOK /\ JobInv /\ ForegroundInv
<1>1. Init => Inv
  BY TypeInit, DispatchInits
<1>2. Inv /\ [Next]_vars => Inv'
  BY OwnConnection, TypeStep, JobStep, ForegroundStep
<1>3. Inv => OneForeground
  BY DEF ForegroundInv, OneForeground, Occupies
<1> QED
  BY <1>1, <1>2, <1>3, PTL DEF Spec


-----------------------------------------------------------------------------
(* Probe runs, contexts and wrappers agree *)

Acting == InStart \cup {"exec", "stop", "untrack", "reset", "unwrap", "settle", "fail"}

-----------------------------------------------------------------------------
(* The inductive invariant *)

\* The kind recorded with a job is that of the command that acts for it, and only
\* starts have probe runs.
KindInv ==
    /\ \A t \in Threads : th[t].at \in Acting => kind[th[t].job] = th[t].kind
    /\ \A t \in Threads : th[t].at \in InStart => th[t].kind = "start"
    /\ \A t \in Threads : th[t].at \in {"exec", "stop", "untrack", "reset", "unwrap"} =>
          th[t].kind # "start"
    /\ \A j \in Jobs : probe[j] # "none" => kind[j] = "start"

\* One thread starts a job, from nothing.
OnceInv ==
    /\ \A t, u \in Threads : th[t].at \in InStart /\ th[u].at \in InStart
                                /\ th[t].job = th[u].job => t = u
    /\ \A t \in Threads : th[t].at = "enter" => probe[th[t].job] = "none"
    /\ \A j \in Jobs : status[j] = "none" =>
          j \notin wrapped /\ j \notin tracked /\ j \notin reported

\* What a start has done at each of its steps.
StartInv ==
    \A t \in Threads : th[t].at \in InStart /\ th[t].job \notin overlap =>
        /\ status[th[t].job] \in Live
        /\ th[t].job \notin tracked /\ th[t].job \notin reported
        /\ th[t].job \in wrapped <=> th[t].at = "track"
        /\ th[t].at # "enter" => probe[th[t].job] = "active"

\* What a bulk stop in progress has taken away; no start runs beside it.
BulkInv ==
    \A t \in Threads : BulkStop(t) => \A j \in Jobs : j \notin overlap =>
        /\ ~Starting(j)
        /\ th[t].at = "untrack" => j \notin wrapped
        /\ th[t].at = "unwrap" => j \notin tracked

\* Apart from starts in progress: contexts are those of active runs, and differ
\* from the wrappers only by what a bulk stop in progress is about to take and by
\* what a failed command has left.
RestInv ==
    \A j \in Jobs : j \notin overlap /\ ~Starting(j) =>
        /\ probe[j] = "active" <=> j \in tracked
        /\ j \in tracked => j \in wrapped \/ \E t \in Threads : th[t].at = "untrack"
        /\ j \in wrapped => \/ j \in tracked \/ j \in reported
                            \/ \E t \in Threads : th[t].at = "unwrap"
        /\ j \in reported => j \notin tracked
        /\ probe[j] = "none" => status[j] = "none" \/ kind[j] # "start"

\* A thread that is about to end a start's job has ended its probe run.
EndInv ==
    \A t \in Threads : th[t].at \in {"fail", "mark"} =>
        (th[t].job \notin overlap /\ kind[th[t].job] = "start" =>
            probe[th[t].job] \notin {"active", "none"})

ProbeInv == KindInv /\ OnceInv /\ StartInv /\ BulkInv /\ RestInv /\ EndInv /\ EndedJobHasNoProbe

-----------------------------------------------------------------------------
(* Steps that move a thread and leave the probe runs alone *)

\* The jobs being started, when no thread enters or leaves a start.
LEMMA StartingStays ==
    ASSUME \A u \in Threads : /\ th'[u].at \in InStart <=> th[u].at \in InStart
                              /\ th[u].at \in InStart => th'[u].job = th[u].job
    PROVE  \A j : Starting(j)' <=> Starting(j)
  BY DEF Starting, InStart

\* A step of a thread that is neither in a start nor in a bulk stop, and does not
\* go there; jobs may change as long as none ends that runs a probe, and probe runs
\* as long as none starts or stops but one that a stop overlapped.
LEMMA QuietStep ==
    ASSUME TypeOK, ProbeInv,
           UNCHANGED <<kind, tracked, wrapped, overlap, reported>>,
           \A j \in Jobs : probe'[j] = "none" <=> probe[j] = "none",
           \A j \in Jobs \ overlap : probe'[j] = "active" <=> probe[j] = "active",
           \A j \in Jobs : status'[j] = "none" <=> status[j] = "none",
           \A j \in Jobs : status[j] \in Live /\ status'[j] \notin Live =>
               (kind[j] = "start" /\ j \notin overlap => probe[j] \notin {"active", "none"}),
           \A j \in Jobs : status'[j] \in Ended /\ status[j] \notin Ended => status[j] \in Live,
           \A u \in Threads :
               \/ th'[u] = th[u]
               \/ /\ th[u].at \notin InStart \cup {"untrack", "unwrap"}
                  /\ th'[u].at \notin InStart \cup {"untrack", "unwrap", "mark"}
                  /\ th'[u].at \in Acting =>
                        th[u].at \in Acting /\ th'[u].kind = th[u].kind /\ th'[u].job = th[u].job
                  /\ th'[u].at \in {"exec", "stop", "reset"} => th[u].at = th'[u].at
                  /\ th'[u].at = "fail" => th'[u].kind # "start"
    PROVE  ProbeInv'
<1>1. /\ \A u \in Threads : th'[u].at \in InStart <=> th[u].at \in InStart
      /\ \A u \in Threads : th'[u].at \in InStart \cup {"untrack", "unwrap", "mark"} => th'[u] = th[u]
      /\ \A u \in Threads : BulkStop(u)' <=> BulkStop(u)
      /\ \A u \in Threads : th[u].at \in {"untrack", "unwrap"} => th'[u] = th[u]
  BY DEF BulkStop, InStart
<1>2. \A j : Starting(j)' <=> Starting(j)
  BY <1>1, StartingStays
<1>3. KindInv'
  BY <1>1 DEF ProbeInv, KindInv, Acting
<1>4. OnceInv'
  BY <1>1 DEF ProbeInv, OnceInv, InStart, TypeOK
<1>5. StartInv'
  <2>1. ASSUME NEW t \in Threads, th'[t].at \in InStart, th'[t].job \notin overlap
        PROVE  /\ th'[t] = th[t] /\ th[t].job \in Jobs /\ status[th[t].job] \in Live
               /\ kind[th[t].job] = "start" /\ probe[th[t].job] \in {"active", "none"}
    BY <1>1, <2>1 DEF ProbeInv, StartInv, KindInv, OnceInv, TypeOK, InStart, Acting
  <2> QED
    BY <2>1 DEF ProbeInv, StartInv, InStart
<1>6. BulkInv'
  BY <1>1, <1>2 DEF ProbeInv, BulkInv
<1>7. RestInv'
  BY <1>1, <1>2 DEF ProbeInv, RestInv
<1>8. EndInv'
  <2>1. ASSUME NEW t \in Threads, th'[t].at \in {"fail", "mark"}, th'[t] # th[t]
        PROVE  kind[th'[t].job] # "start"
    BY <1>1, <1>3, <2>1 DEF KindInv, Acting
  <2>2. \A u \in Threads : th[u].at \in {"fail", "mark"} => th[u].job \in Jobs
    BY DEF TypeOK
  <2> QED
    BY <2>1, <2>2 DEF ProbeInv, EndInv
<1>9. EndedJobHasNoProbe'
  BY DEF ProbeInv, EndedJobHasNoProbe, Live, Ended
<1> QED
  BY <1>3, <1>4, <1>5, <1>6, <1>7, <1>8, <1>9 DEF ProbeInv

-----------------------------------------------------------------------------
(* Admission, settling and the end of a command *)

LEMMA QuietActions ==
    ASSUME TypeOK, JobInv, ProbeInv,
           \/ \E c \in Clients : CreateClient(c) \/ CloseClient(c)
           \/ \E t \in Threads :
                 \/ \E k \in Kinds, c \in Clients \cup {NoClient}, j \in Jobs : Request(t, k, c, j)
                 \/ Lock(t) \/ LockTimeout(t) \/ Execute(t) \/ Settle(t) \/ Fail(t) \/ Clear(t)
           \/ \E j \in Jobs : ForgetJob(j)
    PROVE  ProbeInv'
<1>1. ASSUME NEW c \in Clients, CreateClient(c) \/ CloseClient(c) PROVE ProbeInv'
  BY <1>1, QuietStep DEF CreateClient, CloseClient
<1>2. ASSUME NEW t \in Threads, NEW k \in Kinds, NEW c \in Clients \cup {NoClient},
             NEW j \in Jobs, Request(t, k, c, j)
      PROVE  ProbeInv'
  <2>1. /\ th[t].at = "idle" /\ th'[t].at \in {"lock", "admit"}
        /\ \A u \in Threads \ {t} : th'[u] = th[u]
    BY <1>2 DEF Request, TypeOK, Idle
  <2>2. UNCHANGED <<kind, probe, tracked, wrapped, overlap, reported, status>>
    BY <1>2 DEF Request
  <2> QED
    BY <2>1, <2>2, QuietStep DEF Acting, InStart
<1>3. ASSUME NEW t \in Threads, Lock(t) PROVE ProbeInv'
  <2>1. /\ th[t].at = "lock" /\ th'[t].at = "admit"
        /\ \A u \in Threads \ {t} : th'[u] = th[u]
    BY <1>3, GotoShape DEF Lock
  <2>2. UNCHANGED <<kind, probe, tracked, wrapped, overlap, reported, status>>
    BY <1>3 DEF Lock
  <2> QED
    BY <2>1, <2>2, QuietStep DEF Acting, InStart
<1>4. ASSUME NEW t \in Threads, LockTimeout(t) \/ Clear(t) PROVE ProbeInv'
  <2>1. /\ th[t].at \in {"lock", "clear"} /\ th'[t].at = "idle"
        /\ \A u \in Threads \ {t} : th'[u] = th[u]
    BY <1>4, ReturnShape DEF LockTimeout, Clear
  <2>2. UNCHANGED <<kind, probe, tracked, wrapped, overlap, reported, status>>
    BY <1>4 DEF LockTimeout, Clear
  <2> QED
    BY <2>1, <2>2, QuietStep DEF Acting, InStart
<1>5. ASSUME NEW t \in Threads, Execute(t) PROVE ProbeInv'
  <2>1. PICK pc \in {"settle", "fail"} : th[t].at = "exec" /\ Goto(t, pc)
    BY <1>5 DEF Execute
  <2>2. /\ th'[t].at = pc /\ th'[t].kind = th[t].kind /\ th'[t].job = th[t].job
        /\ \A u \in Threads \ {t} : th'[u] = th[u]
    BY <2>1, GotoShape
  <2>3. UNCHANGED <<kind, probe, tracked, wrapped, overlap, reported, status>>
    BY <1>5 DEF Execute
  <2>4. th[t].kind # "start"
    BY <2>1 DEF ProbeInv, KindInv
  <2> QED
    BY <2>1, <2>2, <2>3, <2>4, QuietStep DEF Acting, InStart
<1>6. ASSUME NEW t \in Threads, NEW to \in {"streaming", "completed", "failed"},
             th[t].at \in {"settle", "fail"}, SetStatus(th[t].job, to),
             to = "streaming" \/ kind[th[t].job] # "start"
                \/ th[t].job \in overlap \/ probe[th[t].job] \notin {"active", "none"},
             th'[t].at \in {"idle", "clear"}, \A u \in Threads \ {t} : th'[u] = th[u],
             UNCHANGED <<kind, probe, tracked, wrapped, overlap, reported>>
      PROVE  ProbeInv'
  <2>1. th[t].job \in Jobs /\ status[th[t].job] # "none"
    BY <1>6 DEF TypeOK, JobInv, Pre
  <2>2. /\ \A i \in Jobs \ {th[t].job} : status'[i] = status[i]
        /\ status'[th[t].job] \in {status[th[t].job], to}
        /\ status[th[t].job] \notin Live => status'[th[t].job] = status[th[t].job]
    BY <1>6, <2>1, SetStatusShape DEF Live, Ended
  <2>3. /\ \A j \in Jobs : status'[j] = "none" <=> status[j] = "none"
        /\ \A j \in Jobs : status'[j] \in Ended /\ status[j] \notin Ended => status[j] \in Live
        /\ \A j \in Jobs : status[j] \in Live /\ status'[j] \notin Live =>
              j = th[t].job /\ to # "streaming"
    BY <1>6, <2>1, <2>2 DEF Live, Ended
  <2> QED
    BY <1>6, <2>3, QuietStep DEF Acting, InStart
<1>7. ASSUME NEW t \in Threads, Settle(t) PROVE ProbeInv'
  <2>1. th[t].kind = kind[th[t].job]
    BY <1>7 DEF Settle, ProbeInv, KindInv, Acting
  <2>2. CASE th[t].kind = "start"
    <3>1. th'[t].at = "idle" /\ \A u \in Threads \ {t} : th'[u] = th[u]
      BY <1>7, <2>2, ReturnShape DEF Settle
    <3> QED
      BY <1>6, <1>7, <2>2, <3>1 DEF Settle
  <2>3. CASE th[t].kind # "start"
    <3>1. th'[t].at = "clear" /\ \A u \in Threads \ {t} : th'[u] = th[u]
      BY <1>7, <2>3, GotoShape DEF Settle
    <3> QED
      BY <1>6, <1>7, <2>1, <2>3, <3>1 DEF Settle
  <2> QED
    BY <2>2, <2>3
<1>8. ASSUME NEW t \in Threads, Fail(t) PROVE ProbeInv'
  <2>1. th'[t].at = "clear" /\ \A u \in Threads \ {t} : th'[u] = th[u]
    BY <1>8, GotoShape DEF Fail
  <2>2. \/ kind[th[t].job] # "start" \/ th[t].job \in overlap
        \/ probe[th[t].job] \notin {"active", "none"}
    BY <1>8 DEF Fail, ProbeInv, EndInv
  <2> QED
    BY <1>6, <1>8, <2>1, <2>2 DEF Fail
<1>9. ASSUME NEW j \in Jobs, ForgetJob(j) PROVE ProbeInv'
  <2>1. /\ \A i \in Jobs : status'[i] = "none" <=> status[i] = "none"
        /\ \A i \in Jobs : status'[i] \in Ended <=> status[i] \in Ended
        /\ \A i \in Jobs : status[i] \in Live => status'[i] \in Live
        /\ UNCHANGED <<kind, probe, tracked, wrapped, overlap, reported, th>>
    BY <1>9 DEF ForgetJob, TypeOK, Ended, Live
  <2> QED
    BY <2>1, QuietStep
<1> QED
  BY <1>1, <1>2, <1>3, <1>4, <1>5, <1>7, <1>8, <1>9

\* A command is admitted: a start, if no bulk stop is half done or as one that
\* overlaps it.
LEMMA AdmitProbe ==
    ASSUME TypeOK, JobInv, ProbeInv, NEW t \in Threads, Admit(t)
    PROVE  ProbeInv'
<1> DEFINE j == th[t].job
<1>1. /\ j \in Jobs /\ th[t].at = "admit" /\ th[t].kind \in Kinds
      /\ status[j] = "none" /\ \A u \in Threads \ {t} : th[u].job # j
  BY DEF Admit, TypeOK, JobInv, Pre
<1>2. /\ \A i \in Jobs : status'[i] = IF i = j THEN "running" ELSE status[i]
      /\ \A i \in Jobs : kind'[i] = IF i = j THEN th[t].kind ELSE kind[i]
      /\ UNCHANGED <<probe, tracked, wrapped, reported>>
      /\ overlap \subseteq overlap' /\ overlap' \subseteq overlap \cup {j}
      /\ (th[t].kind = "start" /\ \E u \in Threads : BulkStop(u)) => j \in overlap'
  BY DEF Admit, TypeOK
<1>3. /\ FirstStep(th[t].kind) \in {"enter", "stop", "reset", "exec"}
      /\ FirstStep(th[t].kind) = "enter" <=> th[t].kind = "start"
  BY DEF FirstStep
<1>4. /\ th'[t].at = FirstStep(th[t].kind) /\ th'[t].kind = th[t].kind /\ th'[t].job = j
      /\ \A u \in Threads \ {t} : th'[u] = th[u]
  BY <1>1, <1>3, GotoShape DEF Admit
<1>5. /\ probe[j] = "none" /\ j \notin wrapped /\ j \notin tracked /\ j \notin reported
      /\ \A u \in Threads : th[u].at \in Acting \cup {"mark", "clear"} => th[u].job \in Jobs \ {j}
  BY <1>1 DEF JobInv, Pre, ProbeInv, OnceInv, Acting, InStart, TypeOK
<1>6. KindInv'
  BY <1>1, <1>2, <1>3, <1>4, <1>5 DEF ProbeInv, KindInv, Acting, InStart
<1>7. OnceInv'
  BY <1>1, <1>2, <1>3, <1>4, <1>5 DEF ProbeInv, OnceInv, Acting, InStart
<1>8. StartInv'
  BY <1>1, <1>2, <1>3, <1>4, <1>5 DEF ProbeInv, StartInv, Acting, InStart, Live
<1>9. /\ \A u \in Threads : BulkStop(u)' <=> BulkStop(u)
      /\ \A u \in Threads : th'[u].at \in {"untrack", "unwrap"} => th'[u] = th[u]
      /\ \A u \in Threads : th[u].at \in {"untrack", "unwrap"} => th'[u] = th[u]
      /\ \A i : Starting(i)' <=> Starting(i) \/ (i = j /\ th[t].kind = "start")
  BY <1>1, <1>3, <1>4 DEF BulkStop, Starting
<1>10. BulkInv'
  BY <1>2, <1>5, <1>9 DEF ProbeInv, BulkInv, BulkStop
<1>11. RestInv'
  BY <1>2, <1>5, <1>9 DEF ProbeInv, RestInv
<1>12. EndInv'
  BY <1>2, <1>3, <1>4, <1>5 DEF ProbeInv, EndInv, Acting, InStart
<1>13. EndedJobHasNoProbe'
  BY <1>2 DEF ProbeInv, EndedJobHasNoProbe, Ended
<1> QED
  BY <1>6, <1>7, <1>8, <1>10, <1>11, <1>12, <1>13 DEF ProbeInv

-----------------------------------------------------------------------------
(* The steps of a start *)

\* Enter, Inject, Track and InjectFails, for the thread t and its job.
LEMMA StartStep ==
    ASSUME TypeOK, JobInv, ProbeInv, NEW t \in Threads,
           Enter(t) \/ Inject(t) \/ Track(t) \/ InjectFails(t)
    PROVE  ProbeInv'
<1> DEFINE j == th[t].job
<1>1. /\ j \in Jobs /\ th[t].at \in InStart /\ kind[j] = "start" /\ th[t].kind = "start"
      /\ status[j] # "none"
      /\ \A u \in Threads \ {t} : th[u].at \in InStart => th[u].job # j
  BY DEF Enter, Inject, Track, InjectFails, TypeOK, JobInv, Pre, ProbeInv, KindInv, OnceInv,
         Acting, InStart
<1>2. j \notin overlap => status[j] \in Live /\ j \notin tracked /\ j \notin reported
  BY <1>1 DEF ProbeInv, StartInv
<1>3. UNCHANGED <<status, kind, overlap>>
  BY DEF Enter, Inject, Track, InjectFails
<1>4. \/ th[t].at = "enter" /\ th'[t].at = "inject"
      \/ th[t].at = "inject" /\ th'[t].at = "track"
      \/ th[t].at = "inject" /\ th'[t].at = "fail"
      \/ th[t].at = "track" /\ th'[t].at = "settle"
  BY GotoShape DEF Enter, Inject, Track, InjectFails
<1>5. /\ th'[t].kind = "start" /\ th'[t].job = j
      /\ \A u \in Threads \ {t} : th'[u] = th[u]
  BY <1>1, GotoShape DEF Enter, Inject, Track, InjectFails
<1>6. /\ \A i \in Jobs \ {j} : probe'[i] = probe[i]
      /\ th'[t].at = "inject" =>
            probe'[j] = "active" /\ wrapped' = wrapped /\ tracked' = tracked
      /\ th'[t].at = "track" =>
            probe' = probe /\ wrapped' = wrapped \cup {j} /\ tracked' = tracked
      /\ th'[t].at = "settle" =>
            probe' = probe /\ wrapped' = wrapped /\ tracked' = tracked \cup {j}
      /\ th'[t].at = "fail" =>
            /\ probe'[j] = IF probe[j] = "active" THEN "failed" ELSE probe[j]
            /\ tracked' = tracked
      /\ th'[t].at # "fail" => reported' = reported
      /\ th'[t].at = "fail" => \/ wrapped' = wrapped /\ reported' = reported
                               \/ /\ wrapped' = wrapped \cup {j}
                                  /\ reported' = reported \cup {j}
  <2>1. CASE Enter(t)
    BY <1>1, <2>1, GotoShape DEF Enter, TypeOK
  <2>2. CASE Inject(t)
    BY <1>1, <2>2, GotoShape DEF Inject
  <2>3. CASE Track(t)
    BY <1>1, <2>3, GotoShape DEF Track
  <2>4. CASE InjectFails(t)
    BY <1>1, <2>4, GotoShape DEF InjectFails, Failed, Exited
  <2> QED
    BY <2>1, <2>2, <2>3, <2>4
<1>7. KindInv'
  BY <1>1, <1>3, <1>4, <1>5, <1>6 DEF ProbeInv, KindInv, Acting, InStart
<1>8. OnceInv'
  BY <1>1, <1>3, <1>4, <1>5, <1>6 DEF ProbeInv, OnceInv, InStart, TypeOK
<1>9. StartInv'
  <2>1. \A u \in Threads \ {t} : th[u].at \in InStart => th[u].job \in Jobs \ {j}
    BY <1>1 DEF InStart, TypeOK
  <2>2. ASSUME NEW u \in Threads \ {t}, th'[u].at \in InStart, th'[u].job \notin overlap'
        PROVE  /\ status'[th'[u].job] \in Live
               /\ th'[u].job \notin tracked' /\ th'[u].job \notin reported'
               /\ th'[u].job \in wrapped' <=> th'[u].at = "track"
               /\ th'[u].at # "enter" => probe'[th'[u].job] = "active"
    BY <1>3, <1>4, <1>5, <1>6, <2>1, <2>2 DEF ProbeInv, StartInv
  <2>3. ASSUME th'[t].at \in InStart, j \notin overlap
        PROVE  /\ status'[j] \in Live
               /\ j \notin tracked' /\ j \notin reported'
               /\ j \in wrapped' <=> th'[t].at = "track"
               /\ probe'[j] = "active"
    BY <1>1, <1>2, <1>3, <1>4, <1>5, <1>6, <2>3 DEF ProbeInv, StartInv, InStart
  <2> QED
    BY <1>3, <1>5, <2>2, <2>3 DEF StartInv
<1>10. /\ \A i : Starting(i)' <=> Starting(i) /\ (i = j => th'[t].at \in InStart)
       /\ th'[t].at \notin InStart => th'[t].at \in {"settle", "fail"}
  BY <1>1, <1>4, <1>5 DEF Starting, InStart
<1>11. /\ \A u \in Threads : BulkStop(u)' <=> BulkStop(u)
       /\ \A u \in Threads : th[u].at \in {"untrack", "unwrap"} <=> th'[u].at \in {"untrack", "unwrap"}
       /\ \A u \in Threads : th[u].at \in {"untrack", "unwrap"} => th'[u] = th[u]
  BY <1>4, <1>5 DEF BulkStop
<1>12. BulkInv'
  BY <1>3, <1>4, <1>6, <1>10, <1>11 DEF ProbeInv, BulkInv, BulkStop, Starting, InStart
<1>13. RestInv'
  <2>1. ASSUME NEW i \in Jobs \ {j}, i \notin overlap, ~Starting(i)'
        PROVE  /\ probe'[i] = "active" <=> i \in tracked'
               /\ i \in tracked' => i \in wrapped' \/ \E u \in Threads : th'[u].at = "untrack"
               /\ i \in wrapped' => \/ i \in tracked' \/ i \in reported'
                                    \/ \E u \in Threads : th'[u].at = "unwrap"
               /\ i \in reported' => i \notin tracked'
               /\ probe'[i] = "none" => status'[i] = "none" \/ kind'[i] # "start"
    BY <1>3, <1>4, <1>6, <1>10, <1>11, <2>1 DEF ProbeInv, RestInv
  <2>2. ASSUME j \notin overlap, th'[t].at \in {"settle", "fail"}
        PROVE  /\ probe'[j] = "active" <=> j \in tracked'
               /\ j \in tracked' => j \in wrapped'
               /\ j \in wrapped' => j \in tracked' \/ j \in reported'
               /\ j \in reported' => j \notin tracked'
               /\ probe'[j] # "none"
    BY <1>1, <1>2, <1>4, <1>6, <2>2 DEF ProbeInv, StartInv, InStart
  <2>3. ASSUME ~Starting(j) PROVE FALSE
    BY <1>1, <2>3 DEF Starting, InStart
  <2> QED
    BY <1>3, <1>10, <2>1, <2>2, <2>3 DEF RestInv
<1>14. EndInv'
  <2>1. ASSUME NEW u \in Threads \ {t}, th[u].at \in {"fail", "mark"}, th[u].job = j,
               j \notin overlap
        PROVE  FALSE
    <3>1. probe[j] \in {"active", "none"}
      BY <1>1, <2>1 DEF ProbeInv, StartInv, OnceInv
    <3> QED
      BY <1>1, <2>1, <3>1 DEF ProbeInv, EndInv
  <2>2. \A u \in Threads : th[u].at \in {"fail", "mark"} => th[u].job \in Jobs
    BY DEF TypeOK
  <2>3. th'[t].at = "fail" /\ j \notin overlap => probe'[j] = "failed"
    BY <1>1, <1>4, <1>6 DEF ProbeInv, StartInv, InStart
  <2> QED
    BY <1>1, <1>3, <1>4, <1>5, <1>6, <2>1, <2>2, <2>3 DEF ProbeInv, EndInv, InStart
<1>15. EndedJobHasNoProbe'
  BY <1>2, <1>3, <1>4, <1>6 DEF ProbeInv, EndedJobHasNoProbe, Live, Ended
<1> QED
  BY <1>7, <1>8, <1>9, <1>12, <1>13, <1>14, <1>15 DEF ProbeInv

-----------------------------------------------------------------------------
(* The steps that stop probes *)

\* A step that releases at most the job x and, if x is starting, marks it as
\* overlapped; its thread is outside starts and bulk stops before and after it.
LEMMA ReleaseStep ==
    ASSUME TypeOK, JobInv, ProbeInv, NEW x \in Jobs, NEW t \in Threads,
           UNCHANGED <<status, kind, reported>>,
           \/ Release(x) \/ UNCHANGED <<probe, tracked, wrapped>>
           \/ Unregister(x) /\ x \in reported,
           overlap' = IF Starting(x) THEN overlap \cup {x} ELSE overlap,
           th[t].at \in {"idle", "stop"}, th'[t].at \in {"settle", "fail", "mark"},
           \A u \in Threads \ {t} : th'[u] = th[u],
           th'[t].at \in Acting => th[t].at = "stop" /\ th'[t].kind = th[t].kind /\ th'[t].job = th[t].job,
           th'[t].at = "mark" /\ kind[th'[t].job] = "start" /\ th'[t].job \notin overlap' =>
               probe'[th'[t].job] \notin {"active", "none"}
    PROVE  ProbeInv'
<1>1. /\ \A u \in Threads : th'[u].at \in InStart <=> th[u].at \in InStart
      /\ \A u \in Threads : th[u].at \in InStart => th'[u] = th[u] /\ u # t
      /\ \A u \in Threads : BulkStop(u)' <=> BulkStop(u)
      /\ \A u \in Threads : th[u].at \in {"untrack", "unwrap"} => th'[u] = th[u]
      /\ \A u \in Threads : th'[u].at \in {"untrack", "unwrap"} => th'[u] = th[u]
  BY DEF BulkStop, InStart
<1>2. \A i : Starting(i)' <=> Starting(i)
  BY <1>1, StartingStays
<1>3. /\ \A i \in Jobs : probe'[i] \in {probe[i], "stopped"}
      /\ \A i \in Jobs : probe'[i] # probe[i] => i = x /\ probe[i] = "active" /\ x \in tracked
      /\ \/ UNCHANGED <<probe, tracked, wrapped>>
         \/ /\ tracked' = tracked \ {x} /\ wrapped' = wrapped \ {x}
            /\ x \in tracked => probe'[x] # "active"
         \/ /\ probe' = probe /\ tracked' = tracked /\ wrapped' = wrapped \ {x}
            /\ x \in reported
  BY ReleaseShape DEF Release, Unregister, Exited, TypeOK
<1>4. /\ overlap \subseteq overlap'
      /\ \A i \in Jobs : i \notin overlap' /\ Starting(i) => i # x
  BY DEF Starting
<1>5. KindInv'
  BY <1>1, <1>3 DEF ProbeInv, KindInv, Acting, InStart
<1>6. OnceInv'
  BY <1>1, <1>3 DEF ProbeInv, OnceInv, TypeOK, InStart
<1>7. StartInv'
  <2>1. ASSUME NEW u \in Threads, th'[u].at \in InStart, th'[u].job \notin overlap'
        PROVE  /\ th'[u] = th[u] /\ th[u].job \in Jobs \ {x} /\ th[u].job \notin overlap
               /\ th[u].at \in InStart
    BY <1>1, <1>4, <2>1 DEF Starting, InStart, TypeOK
  <2>2. \A i \in Jobs \ {x} : /\ probe'[i] = probe[i]
                              /\ i \in tracked' <=> i \in tracked
                              /\ i \in wrapped' <=> i \in wrapped
    BY <1>3
  <2> QED
    BY <2>1, <2>2 DEF ProbeInv, StartInv
<1>8. BulkInv'
  <2>1. tracked' \subseteq tracked /\ wrapped' \subseteq wrapped
    BY <1>3
  <2> QED
    BY <1>1, <1>2, <1>4, <2>1 DEF ProbeInv, BulkInv
<1>9. RestInv'
  <2>1. ASSUME NEW i \in Jobs, i \notin overlap', ~Starting(i)
        PROVE  /\ probe'[i] = "active" <=> i \in tracked'
               /\ i \in tracked' => i \in wrapped' \/ \E u \in Threads : th[u].at = "untrack"
               /\ i \in wrapped' => \/ i \in tracked' \/ i \in reported
                                    \/ \E u \in Threads : th[u].at = "unwrap"
               /\ i \in reported => i \notin tracked'
               /\ probe'[i] = "none" => status[i] = "none" \/ kind[i] # "start"
    <3>1. /\ probe[i] = "active" <=> i \in tracked
          /\ i \in tracked => i \in wrapped \/ \E u \in Threads : th[u].at = "untrack"
          /\ i \in wrapped => \/ i \in tracked \/ i \in reported
                              \/ \E u \in Threads : th[u].at = "unwrap"
          /\ i \in reported => i \notin tracked
          /\ probe[i] = "none" => status[i] = "none" \/ kind[i] # "start"
      BY <1>4, <2>1 DEF ProbeInv, RestInv
    <3>2. CASE i = x
      <4>1. CASE UNCHANGED <<probe, tracked, wrapped>>
        BY <3>1, <4>1
      <4>2. CASE x \notin tracked' /\ x \notin wrapped' /\ (x \in tracked => probe'[x] # "active")
        BY <1>3, <3>1, <3>2, <4>2
      <4>3. CASE x \in reported /\ probe' = probe /\ tracked' = tracked /\ wrapped' = wrapped \ {x}
        BY <3>1, <3>2, <4>3
      <4> QED
        BY <1>3, <4>1, <4>2, <4>3
    <3>3. CASE i # x
      BY <1>3, <3>1, <3>3
    <3> QED
      BY <3>2, <3>3
  <2> QED
    BY <1>1, <1>2, <2>1 DEF RestInv
<1>10. EndInv'
  <2>1. ASSUME NEW u \in Threads \ {t}, th[u].at \in {"fail", "mark"},
               th[u].job \notin overlap', kind[th[u].job] = "start"
        PROVE  probe'[th[u].job] \notin {"active", "none"}
    <3>1. th[u].job \in Jobs /\ probe[th[u].job] \notin {"active", "none"}
      BY <1>4, <2>1 DEF ProbeInv, EndInv, TypeOK
    <3> QED
      BY <1>3, <3>1
  <2>2. th'[t].at = "fail" => kind[th'[t].job] # "start"
    BY DEF ProbeInv, KindInv, Acting
  <2> QED
    BY <2>1, <2>2 DEF EndInv
<1>11. EndedJobHasNoProbe'
  BY <1>3, <1>4 DEF ProbeInv, EndedJobHasNoProbe
<1> QED
  BY <1>5, <1>6, <1>7, <1>8, <1>9, <1>10, <1>11 DEF ProbeInv

LEMMA StopOneProbe ==
    ASSUME TypeOK, JobInv, ProbeInv, NEW t \in Threads, NEW x \in Jobs, StopOne(t, x)
    PROVE  ProbeInv'
<1>1. PICK pc \in {"settle", "fail"} : Goto(t, pc)
  BY DEF StopOne
<1>2. /\ th[t].at = "stop"
      /\ UNCHANGED <<status, kind, reported>>
      /\ \/ Release(x) \/ UNCHANGED <<probe, tracked, wrapped>>
         \/ Unregister(x) /\ x \in reported
      /\ overlap' = IF Starting(x) THEN overlap \cup {x} ELSE overlap
  BY DEF StopOne
<1>3. /\ th'[t].at = pc /\ th'[t].kind = th[t].kind /\ th'[t].job = th[t].job
      /\ \A u \in Threads \ {t} : th'[u] = th[u]
  BY <1>1, <1>2, GotoShape
<1> QED
  BY <1>2, <1>3, ReleaseStep

\* The probe run an interrupt or a probe.stop finds is stopped, or is over, unless
\* the start is still in progress.
LEMMA EndProbe ==
    ASSUME TypeOK, JobInv, ProbeInv, NEW t \in Threads, NEW x \in Jobs,
           Interrupt(t, x) \/ ProbeStop(t, x)
    PROVE  ProbeInv'
<1>1. PICK k \in {"interrupt", "probe_stop"}, found \in BOOLEAN : Ending(t, k, x, found)
  BY DEF Interrupt, ProbeStop, Registered
<1>2. /\ th[t].at = "idle"
      /\ UNCHANGED <<status, kind, reported>>
      /\ Release(x) \/ UNCHANGED <<probe, tracked, wrapped>>
      /\ overlap' = IF Starting(x) THEN overlap \cup {x} ELSE overlap
  <2>1. /\ th[t] = Idle
        /\ UNCHANGED <<status, kind, reported>>
        /\ overlap' = IF Starting(x) THEN overlap \cup {x} ELSE overlap
    BY DEF Interrupt, ProbeStop
  <2>2. StopResources(x) \/ UNCHANGED <<probe, tracked, wrapped>>
    BY DEF Interrupt, ProbeStop
  <2>3. Release(x) \/ UNCHANGED <<probe, tracked, wrapped>>
    BY <2>2 DEF StopResources
  <2> QED
    BY <2>1, <2>3 DEF Idle
<1>3. /\ th'[t].at = "mark" /\ th'[t].job = x
      /\ \A u \in Threads \ {t} : th'[u] = th[u]
  BY <1>1, EndingShape
<1>4. x \notin overlap' /\ kind[x] = "start" => probe'[x] \notin {"active", "none"}
  <2> SUFFICES ASSUME x \notin overlap', kind[x] = "start"
               PROVE  probe'[x] \notin {"active", "none"}
    OBVIOUS
  <2>1. x \notin overlap /\ ~Starting(x)
    BY <1>2
  <2>2. status[x] # "none"
    BY DEF Interrupt, ProbeStop, Registered, JobInv, Live
  <2>3. probe[x] # "none" /\ (probe[x] = "active" <=> x \in tracked)
    BY <2>1, <2>2 DEF ProbeInv, RestInv
  <2>4. CASE probe[x] = "active"
    <3>1. StopResources(x)
      BY <2>3, <2>4 DEF Interrupt, ProbeStop, Registered
    <3> QED
      BY <2>3, <2>4, <3>1 DEF StopResources, Release, Exited, TypeOK
  <2>5. CASE probe[x] # "active"
    BY <2>3, <2>5, <1>2, ReleaseShape
  <2> QED
    BY <2>4, <2>5
<1> QED
  BY <1>2, <1>3, <1>4, ReleaseStep DEF Acting, InStart

\* A bulk stop takes the wrappers or the contexts of every job; the start of each
\* job that it might miss is marked as overlapped.  A reset that fails reports what
\* it has left.
LEMMA StopAllProbe ==
    ASSUME TypeOK, JobInv, ProbeInv, NEW t \in Threads, StopAll(t) \/ ResetFails(t)
    PROVE  ProbeInv'
<1> DEFINE KeepsSome == /\ UNCHANGED <<probe, tracked>>
                        /\ wrapped' \subseteq wrapped /\ wrapped' \subseteq reported'
<1>1. /\ \/ th[t].at = "stop" /\ th'[t].at = "untrack" /\ DropWrappers
         \/ th[t].at = "untrack" /\ th'[t].at = "settle" /\ DropContexts
         \/ th[t].at = "reset" /\ th'[t].at = "unwrap" /\ DropContexts
         \/ th[t].at = "unwrap" /\ th'[t].at = "settle" /\ DropWrappers
         \/ th[t].at = "reset" /\ th'[t].at = "fail" /\ UNCHANGED <<probe, tracked, wrapped>>
         \/ th[t].at = "unwrap" /\ th'[t].at = "fail" /\ KeepsSome
      /\ th'[t].kind = th[t].kind /\ th'[t].job = th[t].job
      /\ \A u \in Threads \ {t} : th'[u] = th[u]
  BY GotoShape DEF StopAll, ResetFails
<1>2. /\ UNCHANGED <<status, kind>>
      /\ reported \subseteq reported' /\ reported' \subseteq reported \cup wrapped
      /\ reported' # reported => th[t].at = "unwrap"
      /\ overlap \subseteq overlap'
      /\ \A i \in Jobs : i \notin overlap' => i \notin overlap /\ ~Starting(i)
  BY DEF StopAll, ResetFails, Disturbed
<1>3. /\ \A i \in Jobs : probe'[i] = "none" <=> probe[i] = "none"
      /\ \A i \in Jobs : probe'[i] = "active" => probe[i] = "active"
      /\ tracked' \subseteq tracked /\ wrapped' \subseteq wrapped
  BY <1>1 DEF DropWrappers, DropContexts, Exited, TypeOK
<1>4. /\ DropWrappers => wrapped' = {} /\ tracked' = tracked /\ probe' = probe
      /\ DropContexts => /\ tracked' = {} /\ wrapped' = wrapped
                         /\ \A i \in tracked : probe'[i] # "active"
  BY DEF DropWrappers, DropContexts, Exited, TypeOK
<1>5. /\ \A u \in Threads : th'[u].at \in InStart <=> th[u].at \in InStart
      /\ \A u \in Threads : th[u].at \in InStart => th'[u] = th[u]
  BY <1>1 DEF InStart
<1>6. \A i : Starting(i)' <=> Starting(i)
  BY <1>5, StartingStays
<1>7. KindInv'
  BY <1>1, <1>2, <1>3 DEF ProbeInv, KindInv, Acting, InStart
<1>8. OnceInv'
  BY <1>2, <1>3, <1>5 DEF ProbeInv, OnceInv, TypeOK, InStart
<1>9. StartInv'
  BY <1>2, <1>5 DEF StartInv, Starting, InStart, TypeOK
<1>10. BulkInv'
  <2>1. ASSUME NEW u \in Threads, NEW i \in Jobs, i \notin overlap', BulkStop(u)'
        PROVE  /\ th'[u].at = "untrack" => i \notin wrapped'
               /\ th'[u].at = "unwrap" => i \notin tracked'
    <3>1. CASE u = t
      BY <1>1, <1>4, <3>1
    <3>2. CASE u # t
      BY <1>1, <1>2, <1>3, <2>1, <3>2 DEF ProbeInv, BulkInv, BulkStop
    <3> QED
      BY <3>1, <3>2
  <2> QED
    BY <1>2, <1>6, <2>1 DEF BulkInv
<1>11. RestInv'
  <2>1. ASSUME NEW i \in Jobs, i \notin overlap'
        PROVE  /\ probe'[i] = "active" <=> i \in tracked'
               /\ i \in tracked' => i \in wrapped' \/ \E u \in Threads : th'[u].at = "untrack"
               /\ i \in wrapped' => \/ i \in tracked' \/ i \in reported'
                                    \/ \E u \in Threads : th'[u].at = "unwrap"
               /\ i \in reported' => i \notin tracked'
               /\ probe'[i] = "none" => status[i] = "none" \/ kind[i] # "start"
    <3>1. /\ probe[i] = "active" <=> i \in tracked
          /\ i \in tracked => i \in wrapped \/ \E u \in Threads : th[u].at = "untrack"
          /\ i \in wrapped => \/ i \in tracked \/ i \in reported
                              \/ \E u \in Threads : th[u].at = "unwrap"
          /\ i \in reported => i \notin tracked
          /\ probe[i] = "none" => status[i] = "none" \/ kind[i] # "start"
      BY <1>2, <2>1 DEF ProbeInv, RestInv
    <3>2. /\ th[t].at = "untrack" => i \notin wrapped
          /\ th[t].at = "unwrap" => i \notin tracked
      BY <1>2, <2>1 DEF ProbeInv, BulkInv, BulkStop
    <3>3. i \in reported' => i \notin tracked'
      BY <1>2, <1>3, <3>1, <3>2
    <3>4. CASE th'[t].at # "fail"
      BY <1>1, <1>2, <1>3, <1>4, <3>1, <3>2, <3>3, <3>4
    <3>5. CASE th'[t].at = "fail"
      <4>1. CASE th[t].at = "reset" /\ UNCHANGED <<probe, tracked, wrapped>>
        BY <1>1, <1>2, <3>1, <3>3, <4>1
      <4>2. CASE th[t].at = "unwrap" /\ KeepsSome
        BY <1>1, <3>1, <3>2, <3>3, <4>2
      <4> QED
        BY <1>1, <3>5, <4>1, <4>2
    <3> QED
      BY <3>4, <3>5
  <2> QED
    BY <1>2, <2>1 DEF RestInv
<1>12. EndInv'
  <2>1. th'[t].at = "fail" => kind[th'[t].job] # "start"
    BY <1>1 DEF ProbeInv, KindInv, Acting
  <2>2. th'[t].at # "mark" /\ \A u \in Threads : th[u].at # "idle" => th[u].job \in Jobs
    BY <1>1 DEF TypeOK
  <2>3. ASSUME NEW u \in Threads \ {t}, th'[u].at \in {"fail", "mark"}
        PROVE  th'[u] = th[u] /\ th[u].job \in Jobs
    BY <1>1, <2>2, <2>3
  <2> QED
    BY <1>2, <1>3, <2>1, <2>2, <2>3 DEF ProbeInv, EndInv
<1>13. EndedJobHasNoProbe'
  BY <1>2, <1>3 DEF ProbeInv, EndedJobHasNoProbe
<1> QED
  BY <1>7, <1>8, <1>9, <1>10, <1>11, <1>12, <1>13 DEF ProbeInv

\* The job that is marked has no probe run left to stop, unless its start was
\* overlapped.
LEMMA MarkProbe ==
    ASSUME TypeOK, JobInv, ProbeInv, NEW t \in Threads, Mark(t)
    PROVE  ProbeInv'
<1> DEFINE x == th[t].job
<1>1. /\ x \in Jobs /\ th[t].at = "mark" /\ status[x] # "none"
      /\ UNCHANGED <<kind, tracked, wrapped, overlap, reported>>
  BY DEF Mark, TypeOK, JobInv, Pre
<1>2. probe[x] # "none" => kind[x] = "start"
  BY <1>1 DEF ProbeInv, KindInv
<1>3. x \notin overlap /\ kind[x] = "start" => probe[x] \notin {"active", "none"}
  BY <1>1 DEF ProbeInv, EndInv
<1>4. /\ \A i \in Jobs : probe'[i] = "none" <=> probe[i] = "none"
      /\ \A i \in Jobs \ overlap : probe'[i] = "active" <=> probe[i] = "active"
  BY <1>1, <1>2, <1>3 DEF Mark, Exited, TypeOK
<1>5. \/ /\ \E to \in {"completed", "interrupted"} : SetStatus(x, to)
         /\ Goto(t, "clear")
      \/ Return(t) /\ UNCHANGED status
  BY DEF Mark, AfterMark
<1>6. /\ th'[t].at \in {"idle", "clear"}
      /\ \A u \in Threads \ {t} : th'[u] = th[u]
  BY <1>1, <1>5, GotoShape, ReturnShape
<1>7. /\ \A i \in Jobs : status'[i] = "none" <=> status[i] = "none"
      /\ \A i \in Jobs : status'[i] \in Ended /\ status[i] \notin Ended => status[i] \in Live
      /\ \A i \in Jobs : status[i] \in Live /\ status'[i] \notin Live => i = x
  <2>1. CASE UNCHANGED status
    BY <2>1
  <2>2. ASSUME NEW to \in {"completed", "interrupted"}, SetStatus(x, to)
        PROVE  /\ \A i \in Jobs \ {x} : status'[i] = status[i]
               /\ status'[x] \in {status[x], to}
               /\ status[x] \notin Live => status'[x] = status[x]
    BY <1>1, <2>2, SetStatusShape DEF Ended
  <2> QED
    BY <1>1, <1>5, <2>1, <2>2 DEF Live, Ended
<1> QED
  BY <1>1, <1>3, <1>4, <1>6, <1>7, QuietStep DEF Acting, InStart

-----------------------------------------------------------------------------
(* The theorems *)

LEMMA ProbeInit == Init => ProbeInv
<1> SUFFICES ASSUME Init PROVE ProbeInv
  OBVIOUS
<1>1. /\ \A t \in Threads : th[t].at = "idle"
      /\ \A j \in Jobs : status[j] = "none" /\ probe[j] = "none" /\ kind[j] = "none"
      /\ wrapped = {} /\ tracked = {} /\ overlap = {} /\ reported = {}
  BY DEF Init, Idle
<1> QED
  BY <1>1 DEF ProbeInv, KindInv, OnceInv, StartInv, BulkInv, RestInv, EndInv,
              EndedJobHasNoProbe, Acting, InStart, BulkStop, Ended

LEMMA ProbeStep == TypeOK /\ JobInv /\ ProbeInv /\ [Next]_vars => ProbeInv'
<1> SUFFICES ASSUME TypeOK, JobInv, ProbeInv, [Next]_vars PROVE ProbeInv'
  OBVIOUS
<1>1. ASSUME NEW j \in Jobs, ForgetProbe(j) PROVE ProbeInv'
  <2>1. /\ \A i \in Jobs : probe'[i] = "none" <=> probe[i] = "none"
        /\ \A i \in Jobs : probe'[i] = "active" <=> probe[i] = "active"
        /\ UNCHANGED <<status, kind, tracked, wrapped, overlap, reported, th>>
    BY <1>1 DEF ForgetProbe, TypeOK, Over
  <2> QED
    BY <2>1, QuietStep
<1>2. CASE UNCHANGED vars
  BY <1>2, QuietStep DEF vars
<1>3. ASSUME NEW t \in Threads, Step(t) PROVE ProbeInv'
  BY <1>3, QuietActions, AdmitProbe, StartStep, StopOneProbe, StopAllProbe, MarkProbe DEF Step
<1>4. ASSUME NEW t \in Threads, NEW j \in Jobs, Interrupt(t, j) \/ ProbeStop(t, j)
      PROVE  ProbeInv'
  BY <1>4, EndProbe
<1>5. ASSUME NEW c \in Clients, CreateClient(c) \/ CloseClient(c) \/ IdleOut(c) PROVE ProbeInv'
  BY <1>5, QuietActions DEF IdleOut
<1>6. ASSUME NEW t \in Threads, NEW k \in Kinds, NEW c \in Clients \cup {NoClient},
             NEW j \in Jobs, Request(t, k, c, j)
      PROVE  ProbeInv'
  BY <1>6, QuietActions
<1>7. ASSUME NEW j \in Jobs, ForgetJob(j) PROVE ProbeInv'
  BY <1>7, QuietActions
<1> QED
  BY <1>1, <1>2, <1>3, <1>4, <1>5, <1>6, <1>7 DEF Next

LEMMA ProbeInvariant == Spec => [](TypeOK /\ ProbeInv)
<1>1. Init => TypeOK /\ JobInv /\ ProbeInv
  BY TypeInit, DispatchInits, ProbeInit
<1>2. TypeOK /\ JobInv /\ ProbeInv /\ [Next]_vars => (TypeOK /\ JobInv /\ ProbeInv)'
  BY TypeStep, JobStep, ProbeStep
<1> QED
  BY <1>1, <1>2, PTL DEF Spec

\* Whenever a start's job is at rest -- it is not starting, and no stop of
\* everything is between its two halves -- its probe run is active exactly when
\* its context can be found to stop it, an active one has its wrapper in the target,
\* and of one that is over nothing is left registered but what a failed command has
\* reported, unless a stop came in while it was starting.
THEOREM ProbeAgreement == Spec => []ProbeMatchesWrapper
<1>1. TypeOK /\ ProbeInv => ProbeMatchesWrapper
  BY DEF ProbeInv, RestInv, ProbeMatchesWrapper, AtRest, BulkStop
<1> QED
  BY <1>1, ProbeInvariant, PTL

\* However the job of a start ends -- its injection failed, it was interrupted, or
\* its probe was stopped -- its probe run does not outlive it, unless the end came
\* in while it was starting.
THEOREM NoProbeOutlivesItsJob == Spec => []EndedJobHasNoProbe
<1>1. TypeOK /\ ProbeInv => EndedJobHasNoProbe
  BY DEF ProbeInv
<1> QED
  BY <1>1, ProbeInvariant, PTL

=============================================================================
