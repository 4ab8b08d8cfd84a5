----------------------------- MODULE ServiceProofs -----------------------------
(***************************************************************************)
(* Theorems about services of the agent: diagnostic cases (DXCases), the top *)
(* profiler (TopProfiler), memory tracing (MemoryTracing) and the life of    *)
(* agents (AgentLifecycle).                                                  *)
(***************************************************************************)
EXTENDS DXCases, TopProfiler, MemoryTracing, AgentLifecycle,
        SequenceTheorems, FiniteSetTheorems, TLAPS

-----------------------------------------------------------------------------
(* Diagnostic cases *)

Files == [path : Paths, case : CaseIds, read : Nat]

\* A file holds case c, and nothing the case does not have.
Holds(f, c, path) == f.path = path /\ f.case = c /\ f.read <= sections[c]

CaseTypes ==
    /\ sections \in [CaseIds -> Nat] /\ exports \in [CaseIds -> SUBSET Paths]
    /\ status \in [CaseIds -> {"none", "open", "closed", "exported"}]
    /\ files \subseteq Files
    /\ export \in [Connections ->
          [case : CaseIds \cup {"none"}, at : {"idle", "found", "built", "written"},
           path : Paths \cup {"none"}, read : Nat, missing : BOOLEAN]]

\* An export under way knows its case; it has read sections that are there, and its
\* file stays until it is recorded.
ExportInv ==
    \A k \in Connections :
        /\ export[k].at # "idle" => export[k].case \in CaseIds /\ export[k].path \in Paths
        /\ export[k].at = "built" => export[k].read <= sections[export[k].case]
        /\ export[k].at = "written" =>
              \E f \in files : Holds(f, export[k].case, export[k].path)

CaseInv == CaseTypes /\ ExportInv /\ ExportsKept

LEMMA CaseStep == CaseInv /\ [CaseNext]_caseVars => CaseInv'
<1> SUFFICES ASSUME CaseInv, [CaseNext]_caseVars PROVE CaseInv'
  OBVIOUS
<1> USE DEF CaseInv, CaseTypes
<1>1. ASSUME files \subseteq files', \A c \in CaseIds : sections[c] <= sections'[c],
             sections' \in [CaseIds -> Nat],
             NEW c \in CaseIds, NEW path, \E f \in files : Holds(f, c, path)
      PROVE  \E f \in files' : Holds(f, c, path)'
  BY <1>1 DEF Holds, Files
<1>2. CASE UNCHANGED <<sections, exports, files, export>> /\ status' \in [CaseIds -> {"none", "open", "closed", "exported"}]
  BY <1>2 DEF ExportInv, ExportsKept, Holds
<1>3. ASSUME NEW c \in CaseIds, CreateCase(c) \/ CloseCase(c) PROVE CaseInv'
  BY <1>2, <1>3 DEF CreateCase, CloseCase
<1>4. ASSUME NEW c \in CaseIds, AddSection(c) PROVE CaseInv'
  <2>1. /\ sections' \in [CaseIds -> Nat] /\ \A d \in CaseIds : sections[d] <= sections'[d]
        /\ UNCHANGED <<status, exports, files, export>>
    BY <1>4 DEF AddSection, Added
  <2>2. ExportInv'
    BY <1>1, <2>1 DEF ExportInv
  <2>3. ExportsKept'
    BY <1>1, <2>1 DEF ExportsKept, Holds
  <2> QED
    BY <2>1, <2>2, <2>3
<1>5. ASSUME NEW k \in Connections, UNCHANGED <<status, sections, exports, files>>,
             NEW e, export' = [export EXCEPT ![k] = e],
             e \in [case : CaseIds \cup {"none"}, at : {"idle", "found", "built", "written"},
                    path : Paths \cup {"none"}, read : Nat, missing : BOOLEAN],
             e.at # "idle" => e.case \in CaseIds /\ e.path \in Paths,
             e.at = "built" => e.read <= sections[e.case], e.at # "written"
      PROVE  CaseInv'
  <2>1. ExportInv'
    BY <1>5 DEF ExportInv, Holds
  <2>2. ExportsKept'
    BY <1>5 DEF ExportsKept
  <2> QED
    BY <1>5, <2>1, <2>2
<1>6. ASSUME NEW k \in Connections, NEW c \in CaseIds, NEW path \in Paths, ExportBegins(k, c, path)
      PROVE  CaseInv'
  <2>1. PICK missing \in {FALSE, sections[c] < MaxSections} : export' = [export EXCEPT ![k] =
          [case |-> c, at |-> "found", path |-> path, read |-> 0, missing |-> missing]]
    BY <1>6 DEF ExportBegins
  <2>2. missing \in BOOLEAN
    <3>1. (sections[c] < MaxSections) \in BOOLEAN
      OBVIOUS
    <3>2. missing = FALSE \/ missing = (sections[c] < MaxSections)
      BY <2>1
    <3> QED
      BY <3>1, <3>2, Zenon
  <2> DEFINE e == [case |-> c, at |-> "found", path |-> path, read |-> 0, missing |-> missing]
  <2>3. /\ e \in [case : CaseIds \cup {"none"}, at : {"idle", "found", "built", "written"},
                  path : Paths \cup {"none"}, read : Nat, missing : BOOLEAN]
        /\ e.at = "found" /\ e.case = c /\ e.path = path
    BY <2>2
  <2> HIDE DEF e
  <2>4. export' = [export EXCEPT ![k] = e] /\ UNCHANGED <<status, sections, exports, files>>
    BY <1>6, <2>1 DEF ExportBegins, e
  <2> QED
    BY <1>5, <2>3, <2>4
<1>7. ASSUME NEW k \in Connections, ExportNotesMissing(k) PROVE CaseInv'
  <2>1. /\ sections' \in [CaseIds -> Nat] /\ \A d \in CaseIds : sections[d] <= sections'[d]
        /\ UNCHANGED <<status, exports, files>>
    BY <1>7 DEF ExportNotesMissing, Added, ExportInv
  <2>2. /\ export' = [export EXCEPT ![k] = [@ EXCEPT !.missing = FALSE]]
        /\ export[k].at = "found"
    BY <1>7 DEF ExportNotesMissing
  <2>3. /\ \A j \in Connections : /\ export'[j].at = export[j].at /\ export'[j].case = export[j].case
                                  /\ export'[j].path = export[j].path
                                  /\ export'[j].read = export[j].read
    BY <2>2
  <2>4. CaseTypes'
    <3>1. export' \in [Connections ->
             [case : CaseIds \cup {"none"}, at : {"idle", "found", "built", "written"},
              path : Paths \cup {"none"}, read : Nat, missing : BOOLEAN]]
      BY <2>2, ZenonT(30)
    <3> QED
      BY <2>1, <3>1
  <2>5. ExportInv'
    BY <1>1, <2>1, <2>3 DEF ExportInv
  <2>6. ExportsKept'
    <3>1. \A d \in CaseIds : \A path \in exports[d] : \E f \in files : Holds(f, d, path)
      BY DEF ExportsKept, Holds
    <3>2. \A d \in CaseIds : \A path \in exports[d] : \E f \in files' : Holds(f, d, path)'
      BY <1>1, <2>1, <3>1
    <3> QED
      BY <2>1, <3>2 DEF ExportsKept, Holds
  <2> QED
    BY <2>4, <2>5, <2>6
<1>8. ASSUME NEW k \in Connections, ExportBuilds(k) PROVE CaseInv'
  <2> DEFINE e == [export[k] EXCEPT !.at = "built", !.read = sections[export[k].case]]
  <2>1. export[k].case \in CaseIds /\ export[k].path \in Paths
    BY <1>8 DEF ExportBuilds, ExportInv
  <2>2. sections[export[k].case] \in Nat /\ sections[export[k].case] <= sections[export[k].case]
    BY <2>1
  <2>3. /\ e \in [case : CaseIds \cup {"none"}, at : {"idle", "found", "built", "written"},
                  path : Paths \cup {"none"}, read : Nat, missing : BOOLEAN]
        /\ e.at = "built" /\ e.case = export[k].case /\ e.path = export[k].path
        /\ e.read = sections[export[k].case]
    BY <2>2
  <2> HIDE DEF e
  <2>4. export' = [export EXCEPT ![k] = e] /\ UNCHANGED <<status, sections, exports, files>>
    BY <1>8 DEF ExportBuilds, e
  <2> QED
    BY <1>5, <2>1, <2>2, <2>3, <2>4
<1>9. ASSUME NEW k \in Connections, ExportWrites(k) PROVE CaseInv'
  <2>1. export[k].case \in CaseIds /\ export[k].path \in Paths
        /\ export[k].read <= sections[export[k].case] /\ export[k].read \in Nat
    BY <1>9 DEF ExportWrites, ExportInv
  <2>2. /\ Written(k) \in Files
        /\ Holds(Written(k), export[k].case, export[k].path)
    BY <2>1 DEF Written, Files, Holds
  <2>3. files' = files \cup {Written(k)}
    BY <1>9 DEF ExportWrites, Creatable
  <2>4. /\ UNCHANGED <<status, sections, exports>>
        /\ export' = [export EXCEPT ![k] = [export[k] EXCEPT !.at = "written"]]
    BY <1>9 DEF ExportWrites, At
  <2>5. ExportsKept'
    BY <2>3, <2>4 DEF ExportsKept
  <2>6. ASSUME NEW j \in Connections, j # k
        PROVE  export'[j] = export[j]
    BY <2>4, <2>6
  <2>7. /\ export' \in [Connections ->
            [case : CaseIds \cup {"none"}, at : {"idle", "found", "built", "written"},
             path : Paths \cup {"none"}, read : Nat, missing : BOOLEAN]]
        /\ export'[k].at = "written" /\ export'[k].case = export[k].case
        /\ export'[k].path = export[k].path
    BY <2>4
  <2>8. ASSUME NEW j \in Connections, export'[j].at = "written"
        PROVE  \E f \in files' : Holds(f, export[j].case, export[j].path)'
    <3>1. CASE j = k
      BY <2>2, <2>3, <2>4, <2>7, <3>1 DEF Holds
    <3>2. CASE j # k
      <4>1. PICK f \in files : Holds(f, export[j].case, export[j].path)
        BY <2>6, <2>8, <3>2 DEF ExportInv
      <4> QED
        BY <2>3, <2>4, <2>6, <3>2, <4>1 DEF Holds
    <3> QED
      BY <3>1, <3>2
  <2>9. ASSUME NEW j \in Connections
        PROVE  /\ export'[j].at # "idle" => export'[j].case \in CaseIds /\ export'[j].path \in Paths
               /\ export'[j].at = "built" => export'[j].read <= sections'[export'[j].case]
    BY <2>1, <2>4, <2>6, <2>7 DEF ExportInv
  <2>10. ExportInv'
    BY <2>8, <2>9 DEF ExportInv
  <2> QED
    BY <2>2, <2>3, <2>4, <2>5, <2>7, <2>10
<1>10. ASSUME NEW k \in Connections, ExportFails(k) PROVE CaseInv'
  <2>1. /\ NoCase \in [case : CaseIds \cup {"none"}, at : {"idle", "found", "built", "written"},
                       path : Paths \cup {"none"}, read : Nat, missing : BOOLEAN]
        /\ NoCase.at = "idle"
    BY DEF NoCase
  <2> QED
    BY <1>5, <1>10, <2>1 DEF ExportFails
<1>11. ASSUME NEW k \in Connections, ExportRecords(k) PROVE CaseInv'
  <2>1. /\ export[k].case \in CaseIds /\ export[k].path \in Paths
        /\ \E f \in files : Holds(f, export[k].case, export[k].path)
    BY <1>11 DEF ExportRecords, ExportInv
  <2>2. /\ exports' = [exports EXCEPT ![export[k].case] = @ \cup {export[k].path}]
        /\ status' \in [CaseIds -> {"none", "open", "closed", "exported"}]
        /\ export' = [export EXCEPT ![k] = NoCase] /\ UNCHANGED <<sections, files>>
    BY <1>11 DEF ExportRecords
  <2>3. ExportsKept'
    BY <2>1, <2>2 DEF ExportsKept, Holds
  <2>4. ExportInv'
    BY <2>2 DEF ExportInv, Holds, NoCase
  <2> QED
    BY <2>1, <2>2, <2>3, <2>4 DEF NoCase
<1>12. CASE UNCHANGED caseVars
  BY <1>2, <1>12 DEF caseVars
<1> QED
  BY <1>3, <1>4, <1>6, <1>7, <1>8, <1>9, <1>10, <1>11, <1>12 DEF CaseNext

\* However exports of cases interleave and whatever paths they are asked to write to,
\* an export record_export has noted keeps its file (ExportsKept): write_export_json
\* creates files exclusively, and sections are never taken away.
THEOREM ExportsStay == CaseSpec => []ExportsKept
<1>1. CaseInit => CaseInv
  BY DEF CaseInit, CaseInv, CaseTypes, ExportInv, ExportsKept, NoCase, Files
<1>2. CaseInv => ExportsKept
  BY DEF CaseInv
<1> QED
  BY <1>1, <1>2, CaseStep, PTL DEF CaseSpec

-----------------------------------------------------------------------------
(* The top profiler *)

TopTypes ==
    /\ {sampling, observing, topId} \subseteq 0..MaxTops
    /\ samplers \in [Tops -> {"none", "ready", "walking", "done"}]
    /\ observers \in [Tops -> {"none", "new", "looping", "done"}]
    /\ contexts \subseteq Tops
    /\ command \in [TopCommands -> [at : {"idle", "signalled", "sampler", "observer", "clean"},
                                    for : 0..MaxTops]]

\* The threads that run are those of the run the fields name, ...
Known ==
    \A n \in Tops :
        /\ Alive(n) => sampling = n
        /\ ObserverAlive(n) => observing = n /\ topId = n /\ sampling = n
        /\ n \in contexts => ObserverAlive(n)

\* ... which goes on as long as nobody stops it, ...
GoesOn == (Stopping = {} /\ sampling # NoTop) => Alive(sampling) /\ ~stopEvent

\* ... and what a stop has waited for is over.
Waited ==
    \A k \in TopCommands : \A n \in Tops :
        /\ command[k].at = "sampler" => (Alive(n) => command[k].for = n)
        /\ command[k].at \in {"observer", "clean"} => ~Alive(n)
        /\ command[k].at = "observer" => (ObserverAlive(n) => command[k].for = n)
        /\ command[k].at = "clean" => ~ObserverAlive(n)

TopInv == TopTypes /\ (overlapped \/ (Known /\ GoesOn /\ Waited))

LEMMA TopTypesStep == TopTypes /\ [TopNext]_topVars => TopTypes'
<1> SUFFICES ASSUME TopTypes, [TopNext]_topVars PROVE TopTypes'
  OBVIOUS
<1> USE TopAssumption DEF TopTypes, Tops, NoTop
<1>1. ASSUME NEW k \in TopCommands, NEW n \in Tops, NEW stream \in BOOLEAN, StartTop(k, n, stream)
      PROVE  TopTypes'
  BY <1>1 DEF StartTop
<1>2. ASSUME NEW k \in TopCommands, NEW cleanup \in BOOLEAN, SignalStop(k, cleanup)
      PROVE  TopTypes'
  BY <1>2 DEF SignalStop, threads
<1>3. ASSUME NEW k \in TopCommands, StopSteps(k) PROVE TopTypes'
  <2>1. CASE JoinSampler(k)
    BY <2>1 DEF JoinSampler, Goto, fields, threads
  <2>2. CASE JoinObserver(k)
    BY <2>2 DEF JoinObserver, Goto, fields, threads
  <2>3. CASE JoinedBoth(k)
    BY <2>3 DEF JoinedBoth, Goto, fields, threads
  <2>4. CASE CleanUp(k)
    BY <2>4 DEF CleanUp, Goto, threads
  <2> QED
    BY <1>3, <2>1, <2>2, <2>3, <2>4 DEF StopSteps
<1>4. CASE ResetStatistics
  BY <1>4 DEF ResetStatistics, fields, threads
<1>5. ASSUME NEW n \in Tops, SamplerEnds(n) \/ BeginSample(n) \/ CountFrame(n) \/ EndSample(n)
      PROVE  TopTypes'
  BY <1>5 DEF SamplerEnds, BeginSample, CountFrame, EndSample, fields, threads
<1>6. ASSUME NEW n \in Tops, ObserverBegins(n) PROVE TopTypes'
  <2>1. /\ UNCHANGED <<stopEvent, sampling, observing, topId, samplers, command>>
        /\ contexts' = contexts \cup ({topId} \ {0})
    BY <1>6 DEF ObserverBegins, fields
  <2>3. \A t \in 0..MaxTops : t # 0 => t \in Tops
    OBVIOUS
  <2>4. topId \in 0..MaxTops
    OBVIOUS
  <2>5. contexts' \subseteq Tops
    BY <2>1, <2>3, <2>4
  <2>2. observers' \in [Tops -> {"none", "new", "looping", "done"}]
    BY <1>6 DEF ObserverBegins
  <2> QED
    BY <2>1, <2>2, <2>5
<1>7. ASSUME NEW n \in Tops, ObserverEnds(n) PROVE TopTypes'
  BY <1>7 DEF ObserverEnds, Untracked, fields
<1>8. CASE UNCHANGED topVars
  BY <1>8 DEF topVars, fields, threads
<1> QED
  BY <1>1, <1>2, <1>3, <1>4, <1>5, <1>6, <1>7, <1>8 DEF TopNext, ThreadSteps

LEMMA TopStep == TopInv /\ [TopNext]_topVars => TopInv'
<1> SUFFICES ASSUME TopInv, [TopNext]_topVars, ~overlapped' PROVE (Known /\ GoesOn /\ Waited)'
  BY TopTypesStep DEF TopInv
<1> USE TopAssumption DEF Tops, NoTop
<1>1. overlapped => overlapped'
  BY DEF TopNext, topVars, StartTop, SignalStop, StopSteps, JoinSampler, JoinObserver, JoinedBoth,
         CleanUp, ResetStatistics, ThreadSteps, SamplerEnds, BeginSample, CountFrame, EndSample,
         ObserverBegins, ObserverEnds
<1>2. TopTypes /\ Known /\ GoesOn /\ Waited
  BY <1>1 DEF TopInv
<1>3. ASSUME NEW k \in TopCommands, NEW n \in Tops, NEW stream \in BOOLEAN, StartTop(k, n, stream)
      PROVE  (Known /\ GoesOn /\ Waited)'
  <2>1. /\ Stopping = {} /\ ~Alive(sampling) /\ command' = command /\ contexts' = contexts
        /\ topId' = n /\ sampling' = n /\ ~stopEvent'
        /\ samplers' = [samplers EXCEPT ![n] = "ready"]
        /\ observing' = IF stream THEN n ELSE observing
        /\ observers' = IF stream THEN [observers EXCEPT ![n] = "new"] ELSE observers
    BY <1>3 DEF StartTop, AlreadyRunning
  <2>2. /\ sampling = 0 /\ contexts = {}
        /\ \A m \in Tops : ~Alive(m) /\ ~ObserverAlive(m)
    BY <1>2, <2>1 DEF Known, GoesOn, TopTypes
  <2>3. /\ Alive(n)' /\ \A m \in Tops \ {n} : ~Alive(m)'
        /\ \A m \in Tops \ {n} : ~ObserverAlive(m)'
        /\ stream => ObserverAlive(n)' /\ observing' = n
        /\ ~stream => ~ObserverAlive(n)'
    BY <1>2, <2>1, <2>2 DEF Alive, ObserverAlive, TopTypes
  <2>4. Known'
    BY <2>1, <2>2, <2>3 DEF Known
  <2>5. \A j \in TopCommands : command'[j].at = "idle"
    BY <2>1 DEF Stopping
  <2> QED
    BY <2>1, <2>3, <2>4, <2>5 DEF GoesOn, Waited
<1>4. ASSUME NEW k \in TopCommands, NEW cleanup \in BOOLEAN, SignalStop(k, cleanup)
      PROVE  (Known /\ GoesOn /\ Waited)'
  BY <1>2, <1>4 DEF SignalStop, threads, Known, GoesOn, Waited, Stopping, TopTypes, Alive, ObserverAlive
<1>5. ASSUME NEW k \in TopCommands, JoinSampler(k) PROVE (Known /\ GoesOn /\ Waited)'
  BY <1>2, <1>5 DEF JoinSampler, Goto, fields, threads, Known, GoesOn, Waited, Stopping, TopTypes, Alive, ObserverAlive
<1>6. ASSUME NEW k \in TopCommands, JoinObserver(k) PROVE (Known /\ GoesOn /\ Waited)'
  BY <1>2, <1>6 DEF JoinObserver, Goto, fields, threads, Known, GoesOn, Waited, Stopping, TopTypes, Alive, ObserverAlive
<1>7. ASSUME NEW k \in TopCommands, JoinedBoth(k) PROVE (Known /\ GoesOn /\ Waited)'
  BY <1>2, <1>7 DEF JoinedBoth, Goto, fields, threads, Known, GoesOn, Waited, Stopping, TopTypes, Alive, ObserverAlive
<1>8. ASSUME NEW k \in TopCommands, CleanUp(k) PROVE (Known /\ GoesOn /\ Waited)'
  BY <1>2, <1>8 DEF CleanUp, Goto, threads, Known, GoesOn, Waited, Stopping, TopTypes, Alive, ObserverAlive
<1>9. CASE ResetStatistics \/ UNCHANGED topVars
  BY <1>2, <1>9 DEF ResetStatistics, topVars, fields, threads, Known, GoesOn, Waited, Stopping, Alive, ObserverAlive
<1>10. ASSUME NEW n \in Tops, SamplerEnds(n) PROVE (Known /\ GoesOn /\ Waited)'
  BY <1>2, <1>10 DEF SamplerEnds, fields, Known, GoesOn, Waited, Stopping, TopTypes, Alive, ObserverAlive
<1>11. ASSUME NEW n \in Tops, BeginSample(n) PROVE (Known /\ GoesOn /\ Waited)'
  BY <1>2, <1>11 DEF BeginSample, fields, Known, GoesOn, Waited, Stopping, TopTypes, Alive, ObserverAlive
<1>12. ASSUME NEW n \in Tops, CountFrame(n) \/ EndSample(n) PROVE (Known /\ GoesOn /\ Waited)'
  BY <1>2, <1>12, SMTT(20) DEF CountFrame, EndSample, fields, threads, Known, GoesOn, Waited, Stopping, TopTypes, Alive, ObserverAlive
<1>13. ASSUME NEW n \in Tops, ObserverBegins(n) PROVE (Known /\ GoesOn /\ Waited)'
  BY <1>2, <1>13 DEF ObserverBegins, fields, Known, GoesOn, Waited, Stopping, TopTypes, Alive, ObserverAlive
<1>14. ASSUME NEW n \in Tops, ObserverEnds(n) PROVE (Known /\ GoesOn /\ Waited)'
  BY <1>2, <1>14 DEF ObserverEnds, Untracked, fields, Known, GoesOn, Waited, Stopping, TopTypes, Alive, ObserverAlive
<1> QED
  BY <1>3, <1>4, <1>5, <1>6, <1>7, <1>8, <1>9, <1>10, <1>11, <1>12, <1>13, <1>14
     DEF TopNext, StopSteps, ThreadSteps

\* Whatever the connections start and stop and however slow the threads are, every
\* sampling or observation thread that runs, and every tracked context, is one that
\* the next stop or detach finds (TopStoppable), unless a start overtook a stop:
\* a run goes on until a stop has waited for both of its threads.
THEOREM TopStaysStoppable == TopSpec => []TopStoppable
<1>1. TopInit => TopInv
  BY TopAssumption DEF TopInit, TopInv, TopTypes, Known, GoesOn, Waited, Tops, NoTop, Alive,
                       ObserverAlive
<1>2. TopInv => TopStoppable
  BY DEF TopInv, TopStoppable, Known
<1> QED
  BY <1>1, <1>2, TopStep, PTL DEF TopSpec

-----------------------------------------------------------------------------
(* Memory tracing *)

JobSteps == {"idle", "start", "started", "stop", "stopped",
             "take", "append", "trim", "pop", "count", "new", "old"}

MemoryTypes ==
    /\ tracing \in BOOLEAN /\ startedBy \in {"nobody", "app", "peeka"}
    /\ tracing <=> startedBy # "nobody"
    /\ flag \in BOOLEAN /\ detaching \in {"no", "stop", "flag", "clear", "cleared"}
    /\ snaps \in Seq(Nat) /\ taken \in Nat
    /\ job \in [MemoryClients -> [at : JobSteps, snap : Nat]]

Marking == \E c \in MemoryClients : job[c].at = "started"

\* What the flag says of who turned tracing on, and what a detach left behind.
TracerInv ==
    /\ startedBy = "peeka" => flag \/ Marking \/ unmarked \/ raced
    /\ (startedBy = "app" /\ (flag \/ Starting \/ detaching = "stop")) => confused
    /\ IF detaching = "no" THEN ~raced ELSE Starting => raced
    /\ TracingGivenBack

\* The snapshots kept are the last ones of t.
LastOf(s, t) == \A i \in 1..Len(s) : s[i] + Len(s) = t + i

\* One command at a time has a step on the snapshots ahead of it; they are the last
\* ones, the one it is about to append excepted.
SnapsInv ==
    /\ \A c, d \in MemoryClients : (OnSnapshots(c) /\ OnSnapshots(d)) => c = d
    /\ (\A c \in MemoryClients : job[c].at # "append") => LastOf(snaps, taken)
    /\ \A c \in MemoryClients :
          /\ job[c].at = "append" => /\ job[c].snap = taken
                                     /\ \E t \in Nat : taken = t + 1 /\ LastOf(snaps, t)
          /\ job[c].at = "old" => job[c].snap = taken

MemoryInv == MemoryTypes /\ TracerInv /\ (together \/ SnapsInv)

LEMMA LastOfNone == \A t : LastOf(<<>>, t)
<1> QED
  BY DEF LastOf

LEMMA LastOfAppend ==
    ASSUME NEW s \in Seq(Nat), NEW t \in Nat, LastOf(s, t)
    PROVE  LastOf(Append(s, t + 1), t + 1)
<1> SUFFICES ASSUME NEW i \in 1..Len(Append(s, t + 1))
             PROVE  Append(s, t + 1)[i] + Len(Append(s, t + 1)) = t + 1 + i
  BY DEF LastOf
<1>1. Len(Append(s, t + 1)) = Len(s) + 1 /\ Len(s) \in Nat
  OBVIOUS
<1>2. CASE i = Len(s) + 1
  BY <1>1, <1>2
<1>3. CASE i \in 1..Len(s)
  <2>1. Append(s, t + 1)[i] = s[i] /\ s[i] \in Nat
    BY <1>3
  <2> QED
    BY <1>1, <1>3, <2>1 DEF LastOf
<1> QED
  BY <1>1, <1>2, <1>3

LEMMA LastOfTail ==
    ASSUME NEW s \in Seq(Nat), NEW t \in Nat, LastOf(s, t), s # <<>>
    PROVE  Tail(s) \in Seq(Nat) /\ LastOf(Tail(s), t)
<1>1. Tail(s) \in Seq(Nat) /\ Len(Tail(s)) = Len(s) - 1 /\ Len(s) \in Nat \ {0}
  OBVIOUS
<1>2. ASSUME NEW i \in 1..Len(Tail(s)) PROVE Tail(s)[i] + Len(Tail(s)) = t + i
  <2>1. Tail(s)[i] = s[i + 1] /\ i + 1 \in 1..Len(s) /\ s[i + 1] \in Nat
    BY <1>1, <1>2
  <2> QED
    BY <1>1, <1>2, <2>1 DEF LastOf
<1> QED
  BY <1>1, <1>2 DEF LastOf

LEMMA LastOfEnd ==
    ASSUME NEW s \in Seq(Nat), NEW t \in Nat, LastOf(s, t), Len(s) >= 2
    PROVE  Last(s) = t /\ s[Len(s) - 1] = t - 1
<1>1. /\ Len(s) \in 1..Len(s) /\ Len(s) - 1 \in 1..Len(s)
      /\ s[Len(s)] \in Nat /\ s[Len(s) - 1] \in Nat
  OBVIOUS
<1>2. s[Len(s)] + Len(s) = t + Len(s)
  BY <1>1 DEF LastOf
<1>3. s[Len(s) - 1] + Len(s) = t + (Len(s) - 1)
  BY <1>1 DEF LastOf
<1>4. Len(s) \in Nat
  OBVIOUS
<1> DEFINE n == Len(s)  last == s[Len(s)]  old == s[Len(s) - 1]
<1>5. n \in Nat /\ last \in Nat /\ old \in Nat /\ last + n = t + n /\ old + n = t + (n - 1)
  BY <1>1, <1>2, <1>3, <1>4
<1> HIDE DEF n, last, old
<1>6. last = t /\ old = t - 1
  BY <1>5
<1> QED
  BY <1>6 DEF last, old, Last

LEMMA MemoryTypesStep == MemoryTypes /\ [MemoryNext]_memoryVars => MemoryTypes'
<1> SUFFICES ASSUME MemoryTypes, [MemoryNext]_memoryVars PROVE MemoryTypes'
  OBVIOUS
<1> USE DEF MemoryTypes
<1>1. ASSUME NEW c \in MemoryClients, NEW e, job' = [job EXCEPT ![c] = e], e \in [at : JobSteps, snap : Nat]
      PROVE  job' \in [MemoryClients -> [at : JobSteps, snap : Nat]]
  BY <1>1
<1>2. ASSUME NEW c \in MemoryClients, NEW at \in JobSteps, Go(c, at)
      PROVE  job' \in [MemoryClients -> [at : JobSteps, snap : Nat]]
  BY <1>2 DEF Go
<1>3. NoCommand \in [at : JobSteps, snap : Nat]
  BY DEF NoCommand, JobSteps
<1>4. ASSUME NEW c \in MemoryClients,
             \/ AskStart(c) \/ StartTracing(c) \/ MarkStarted(c)
             \/ AskStop(c) \/ StopTracing(c) \/ MarkStopped(c)
      PROVE  MemoryTypes'
  <2>1. job' \in [MemoryClients -> [at : JobSteps, snap : Nat]]
    BY <1>2, <1>4 DEF AskStart, StartTracing, MarkStarted, AskStop, StopTracing, MarkStopped, JobSteps
  <2>2. CASE AskStart(c) \/ AskStop(c)
    BY <2>1, <2>2 DEF AskStart, AskStop, tracer
  <2>3. CASE StartTracing(c) \/ StopTracing(c)
    BY <2>1, <2>3 DEF StartTracing, StopTracing
  <2>4. CASE MarkStarted(c) \/ MarkStopped(c)
    <3>1. UNCHANGED <<tracing, startedBy, snaps, taken, detaching>> /\ (flag' = TRUE \/ flag' = FALSE)
      BY <2>4, Zenon DEF MarkStarted, MarkStopped
    <3> QED
      BY <2>1, <3>1
  <2> QED
    BY <1>4, <2>2, <2>3, <2>4
<1>5. ASSUME NEW c \in MemoryClients, AskSnapshot(c) \/ AskDiff(c) PROVE MemoryTypes'
  BY <1>2, <1>5 DEF AskSnapshot, AskDiff, tracer, JobSteps
<1>6. ASSUME NEW c \in MemoryClients, TakeSnapshot(c) PROVE MemoryTypes'
  <2>1. taken' \in Nat /\ UNCHANGED <<tracing, startedBy, flag, snaps, detaching>>
    BY <1>6 DEF TakeSnapshot, tracer
  <2>2. [at |-> "append", snap |-> taken'] \in [at : JobSteps, snap : Nat]
    BY <2>1 DEF JobSteps
  <2>3. job' = [job EXCEPT ![c] = [at |-> "append", snap |-> taken']]
        \/ job' = [job EXCEPT ![c] = NoCommand]
    BY <1>6 DEF TakeSnapshot
  <2>4. job' \in [MemoryClients -> [at : JobSteps, snap : Nat]]
    BY <1>1, <1>3, <2>2, <2>3
  <2> QED
    BY <2>1, <2>4
<1>7. ASSUME NEW c \in MemoryClients, AppendSnapshot(c) PROVE MemoryTypes'
  <2>1. job[c].snap \in Nat
    OBVIOUS
  <2>2. Append(snaps, job[c].snap) \in Seq(Nat)
    BY <2>1
  <2>3. job' \in [MemoryClients -> [at : JobSteps, snap : Nat]]
    BY <1>1, <1>7 DEF AppendSnapshot, JobSteps
  <2> QED
    BY <1>7, <2>2, <2>3 DEF AppendSnapshot, tracer
<1>8. ASSUME NEW c \in MemoryClients, CheckLength(c) PROVE MemoryTypes'
  <2>1. job' \in [MemoryClients -> [at : JobSteps, snap : Nat]]
    BY <1>2, <1>8 DEF CheckLength, JobSteps
  <2> QED
    BY <1>8, <2>1 DEF CheckLength, tracer
<1>9. ASSUME NEW c \in MemoryClients, PopSnapshot(c) PROVE MemoryTypes'
  <2>1. DropFirst \in Seq(Nat)
    BY DEF DropFirst
  <2>2. job' \in [MemoryClients -> [at : JobSteps, snap : Nat]]
    BY <1>2, <1>9 DEF PopSnapshot, JobSteps
  <2> QED
    BY <1>9, <2>1, <2>2 DEF PopSnapshot, tracer
<1>10. ASSUME NEW c \in MemoryClients, SnapshotAnswered(c) \/ ReadOld(c) PROVE MemoryTypes'
  <2>1. job' \in [MemoryClients -> [at : JobSteps, snap : Nat]]
    BY <1>1, <1>2, <1>3, <1>10 DEF SnapshotAnswered, ReadOld, JobSteps
  <2> QED
    BY <1>10, <2>1 DEF SnapshotAnswered, ReadOld, tracer
<1>11. ASSUME NEW c \in MemoryClients, ReadNew(c) PROVE MemoryTypes'
  <2> DEFINE e == IF Len(snaps) < 2 THEN NoCommand ELSE [at |-> "old", snap |-> Last(snaps)]
  <2>1. e \in [at : JobSteps, snap : Nat]
    BY <1>3 DEF Last, JobSteps
  <2>2. job' = [job EXCEPT ![c] = e]
    BY <1>11 DEF ReadNew
  <2> HIDE DEF e
  <2> QED
    BY <1>1, <1>11, <2>1, <2>2 DEF ReadNew, tracer
<1>12. CASE AppStarts \/ AppStops \/ AskDetach \/ DetachTracing \/ DetachFlag \/ DetachSnapshots \/ ResetDiff
  <2>1. <<>> \in Seq(Nat)
    OBVIOUS
  <2>2. CASE AppStarts \/ AppStops
    BY <2>2 DEF AppStarts, AppStops
  <2>3. CASE AskDetach \/ DetachFlag
    <3>1. UNCHANGED <<tracing, startedBy, snaps, taken, job>> /\ (flag' = flag \/ flag' = FALSE)
      BY <2>3, Zenon DEF AskDetach, DetachFlag, tracer
    <3>2. detaching' \in {"stop", "clear"}
      BY <2>3, Zenon DEF AskDetach, DetachFlag
    <3> QED
      BY <3>1, <3>2
  <2>6. CASE DetachTracing
    BY <2>6 DEF DetachTracing
  <2>4. CASE DetachSnapshots
    BY <2>1, <2>4 DEF DetachSnapshots, tracer
  <2>5. CASE ResetDiff
    BY <2>5 DEF ResetDiff, tracer
  <2> QED
    BY <1>12, <2>2, <2>3, <2>4, <2>5, <2>6
<1>13. CASE UNCHANGED memoryVars
  BY <1>13 DEF memoryVars, tracer
<1> QED
  BY <1>4, <1>5, <1>6, <1>7, <1>8, <1>9, <1>10, <1>11, <1>12, <1>13 DEF MemoryNext

LEMMA TracerStep == MemoryTypes /\ TracerInv /\ [MemoryNext]_memoryVars => TracerInv'
<1> SUFFICES ASSUME MemoryTypes, TracerInv, [MemoryNext]_memoryVars PROVE TracerInv'
  OBVIOUS
<1> USE DEF TracerInv, TracingGivenBack
<1> DEFINE steps == {"start", "started"}
<1>1. ASSUME UNCHANGED <<tracer, detaching, confused, raced, unmarked>>,
             Starting' => Starting, Marking => Marking'
      PROVE  TracerInv'
  BY <1>1 DEF tracer
<1>2. ASSUME NEW c \in MemoryClients, NEW e, job' = [job EXCEPT ![c] = e],
             e.at \notin steps, job[c].at # "started"
      PROVE  (Starting' => Starting) /\ (Marking => Marking')
  BY <1>2 DEF Starting, Marking, MemoryTypes
<1>3. ASSUME NEW c \in MemoryClients, NEW at, at \notin steps, Go(c, at)
      PROVE  (Starting' => Starting) /\ (job[c].at # "started" => (Marking => Marking'))
  BY <1>3 DEF Starting, Marking, MemoryTypes, Go
<1>4. ASSUME NEW c \in MemoryClients, AskStart(c) PROVE TracerInv'
  <2>1. startedBy = "nobody" /\ UNCHANGED <<startedBy, detaching, confused>>
    BY <1>4 DEF AskStart, tracer, MemoryTypes
  <2>2. raced' = (raced \/ detaching # "no")
    BY <1>4 DEF AskStart
  <2> QED
    BY <2>1, <2>2
<1>5. ASSUME NEW c \in MemoryClients, StartTracing(c) PROVE TracerInv'
  <2>1. Starting /\ Marking'
    BY <1>5 DEF StartTracing, Starting, Marking, Go, MemoryTypes
  <2>2. /\ startedBy' = IF tracing THEN startedBy ELSE "peeka"
        /\ UNCHANGED <<flag, detaching, confused, raced>>
        /\ unmarked' = (unmarked /\ tracing)
    BY <1>5 DEF StartTracing
  <2> QED
    BY <2>1, <2>2 DEF MemoryTypes
<1>6. ASSUME NEW c \in MemoryClients, MarkStarted(c) PROVE TracerInv'
  <2>1. Starting /\ (Starting' => Starting)
    BY <1>3, <1>6 DEF MarkStarted, Starting
  <2> QED
    BY <1>6, <2>1 DEF MarkStarted
<1>7. ASSUME NEW c \in MemoryClients, AskStop(c) PROVE TracerInv'
  BY <1>1, <1>3, <1>7 DEF AskStop, memoryHistory
<1>8. ASSUME NEW c \in MemoryClients, StopTracing(c) PROVE TracerInv'
  <2>1. Starting' => Starting
    BY <1>3, <1>8 DEF StopTracing
  <2> QED
    BY <1>8, <2>1 DEF StopTracing
<1>9. ASSUME NEW c \in MemoryClients, MarkStopped(c) PROVE TracerInv'
  <2>1. Starting' => Starting
    BY <1>3, <1>9 DEF MarkStopped
  <2> QED
    BY <1>9, <2>1 DEF MarkStopped
<1>10. ASSUME NEW c \in MemoryClients, AskSnapshot(c) \/ AskDiff(c) PROVE TracerInv'
  BY <1>1, <1>3, <1>10 DEF AskSnapshot, AskDiff
<1>11. ASSUME NEW c \in MemoryClients,
              \/ TakeSnapshot(c) \/ AppendSnapshot(c) \/ SnapshotAnswered(c)
              \/ ReadNew(c) \/ ReadOld(c)
       PROVE  TracerInv'
  BY <1>1, <1>2, <1>3, <1>11
     DEF TakeSnapshot, AppendSnapshot, SnapshotAnswered, ReadNew, ReadOld, NoCommand, memoryHistory
<1>12. ASSUME NEW c \in MemoryClients, CheckLength(c) \/ PopSnapshot(c) PROVE TracerInv'
  BY <1>1, <1>3, <1>12 DEF CheckLength, PopSnapshot, memoryHistory
<1>13. CASE AppStarts
  <2>1. startedBy' = "app" /\ confused' = (flag \/ Starting \/ detaching = "stop")
        /\ UNCHANGED <<flag, job, detaching, raced>>
    BY <1>13 DEF AppStarts
  <2>2. Starting' <=> Starting
    BY <2>1 DEF Starting
  <2>3. startedBy' # "peeka" /\ (flag \/ Starting \/ detaching = "stop" => confused')
    <3>1. startedBy' # "peeka"
      BY <2>1
    <3>2. ASSUME flag \/ Starting \/ detaching = "stop" PROVE confused'
      BY <2>1, <3>2, Zenon
    <3> QED
      BY <3>1, <3>2, Zenon
  <2>4. (startedBy' = "app" /\ (flag' \/ Starting' \/ detaching' = "stop")) => confused'
    <3>1. (flag \/ Starting \/ detaching = "stop") => confused'
      BY <2>3
    <3>2. (flag' <=> flag) /\ (Starting' <=> Starting) /\ detaching' = detaching
      BY <2>1, <2>2
    <3> QED
      BY <3>1, <3>2, Zenon
  <2>5. IF detaching' = "no" THEN ~raced' ELSE Starting' => raced'
    BY <2>1, <2>2
  <2>6. TracingGivenBack'
    BY <2>1, <2>3
  <2> QED
    BY <2>3, <2>4, <2>5, <2>6
<1>14. CASE AppStops
  BY <1>14 DEF AppStops, Starting
<1>15. CASE AskDetach
  <2>1. UNCHANGED <<tracing, startedBy, flag, job, confused, unmarked>>
        /\ raced' = Starting /\ detaching' = IF flag THEN "stop" ELSE "clear"
    BY <1>15 DEF AskDetach, StopsOwn, tracer
  <2>2. (Starting' <=> Starting) /\ (Marking' <=> Marking) /\ (Marking => Starting)
    BY <2>1 DEF Starting, Marking
  <2>3. detaching = "no" /\ ~raced
    BY <1>15 DEF AskDetach
  <2> QED
    BY <2>1, <2>2, <2>3
<1>16. CASE DetachTracing
  BY <1>16 DEF DetachTracing, Starting
<1>17. CASE DetachFlag
  BY <1>17 DEF DetachFlag, memoryHistory, Starting
<1>18. CASE DetachSnapshots
  BY <1>18 DEF DetachSnapshots, tracer, memoryHistory, Starting, Marking
<1>19. CASE ResetDiff \/ UNCHANGED memoryVars
  BY <1>19 DEF ResetDiff, memoryVars, tracer, memoryHistory, Starting, Marking
<1> QED
  BY <1>4, <1>5, <1>6, <1>7, <1>8, <1>9, <1>10, <1>11, <1>12, <1>13, <1>14, <1>15, <1>16,
     <1>17, <1>18, <1>19 DEF MemoryNext

LEMMA SnapsStep ==
    (MemoryTypes /\ (together \/ SnapsInv) /\ [MemoryNext]_memoryVars) => (together' \/ SnapsInv')
<1> SUFFICES ASSUME MemoryTypes, together \/ SnapsInv, [MemoryNext]_memoryVars, ~together'
             PROVE  SnapsInv'
  OBVIOUS
<1>1. together => together'
  BY DEF MemoryNext, memoryVars, memoryHistory, AskStart, StartTracing, MarkStarted, AskStop,
         StopTracing, MarkStopped, AskSnapshot, TakeSnapshot, AppendSnapshot, CheckLength,
         PopSnapshot, SnapshotAnswered, AskDiff, ReadNew, ReadOld, AppStarts, AppStops, AskDetach,
         DetachTracing, DetachFlag, DetachSnapshots, ResetDiff, Together
<1>2. SnapsInv /\ MemoryTypes
  BY <1>1
<1>3. ASSUME snaps' = snaps, taken' = taken,
             \A d \in MemoryClients :
                /\ OnSnapshots(d)' => OnSnapshots(d)
                /\ (job'[d].at = "append") <=> (job[d].at = "append")
                /\ job'[d].at \in {"append", "old"} => job'[d] = job[d]
      PROVE  SnapsInv'
  BY <1>2, <1>3 DEF SnapsInv
<1>4. ASSUME NEW c \in MemoryClients, NEW e, job' = [job EXCEPT ![c] = e],
             e.at \notin {"append", "old"}, job[c].at # "append",
             e.at \in {"take", "trim", "pop", "count", "new"} => OnSnapshots(c),
             snaps' = snaps, taken' = taken
      PROVE  SnapsInv'
  BY <1>2, <1>3, <1>4 DEF OnSnapshots, MemoryTypes
<1>5. ASSUME NEW c \in MemoryClients, NEW at, Go(c, at),
             at \notin {"append", "old"}, job[c].at # "append",
             at \in {"take", "trim", "pop", "count", "new"} => OnSnapshots(c),
             snaps' = snaps, taken' = taken
      PROVE  SnapsInv'
  <2>1. /\ \A d \in MemoryClients \ {c} : job'[d] = job[d]
        /\ job'[c].at = at
    BY <1>5 DEF Go, MemoryTypes
  <2> QED
    BY <1>2, <1>3, <1>5, <2>1 DEF OnSnapshots
<1>6. ASSUME NEW c \in MemoryClients,
             \/ AskStart(c) \/ StartTracing(c) \/ MarkStarted(c)
             \/ AskStop(c) \/ StopTracing(c) \/ MarkStopped(c)
      PROVE  SnapsInv'
  BY <1>5, <1>6 DEF AskStart, StartTracing, MarkStarted, AskStop, StopTracing, MarkStopped
<1>7. ASSUME NEW c \in MemoryClients, AskSnapshot(c) \/ AskDiff(c) PROVE SnapsInv'
  <2>1. PICK at \in {"take", "new"} : Go(c, at)
    BY <1>7 DEF AskSnapshot, AskDiff
  <2>2. /\ \A d \in MemoryClients \ {c} : job'[d] = job[d] /\ ~OnSnapshots(d)
        /\ job'[c].at = at /\ job[c].at = "idle" /\ snaps' = snaps /\ taken' = taken
    BY <1>7, <2>1 DEF AskSnapshot, AskDiff, Together, Go, MemoryTypes
  <2> QED
    BY <1>2, <2>2 DEF SnapsInv, OnSnapshots
<1>8. ASSUME NEW c \in MemoryClients, TakeSnapshot(c) PROVE SnapsInv'
  <2>1. CASE ~tracing
    BY <1>4, <1>8, <2>1 DEF TakeSnapshot, NoCommand
  <2>2. CASE tracing
    <3>1. /\ job[c].at = "take" /\ taken' = taken + 1 /\ snaps' = snaps
          /\ job' = [job EXCEPT ![c] = [at |-> "append", snap |-> taken']]
      BY <1>8, <2>2 DEF TakeSnapshot
    <3>2. /\ \A d \in MemoryClients \ {c} : job'[d] = job[d] /\ ~OnSnapshots(d)
          /\ job'[c].at = "append" /\ job'[c].snap = taken'
      BY <1>2, <3>1 DEF MemoryTypes, SnapsInv, OnSnapshots
    <3>3. LastOf(snaps, taken) /\ taken \in Nat
      BY <1>2, <3>1, <3>2 DEF SnapsInv, OnSnapshots, MemoryTypes
    <3>4. \E t \in Nat : taken' = t + 1 /\ LastOf(snaps', t)
      BY <3>1, <3>3
    <3> QED
      BY <3>2, <3>4 DEF SnapsInv, OnSnapshots
  <2> QED
    BY <2>1, <2>2
<1>9. ASSUME NEW c \in MemoryClients, AppendSnapshot(c) PROVE SnapsInv'
  <2>1. /\ job[c].at = "append" /\ snaps' = Append(snaps, job[c].snap) /\ taken' = taken
        /\ job' = [job EXCEPT ![c] = [at |-> "trim", snap |-> 0]]
    BY <1>9 DEF AppendSnapshot
  <2>2. /\ \A d \in MemoryClients \ {c} : job'[d] = job[d] /\ ~OnSnapshots(d)
        /\ job'[c].at = "trim"
    BY <1>2, <2>1 DEF MemoryTypes, SnapsInv, OnSnapshots
  <2>3. PICK t \in Nat : taken = t + 1 /\ LastOf(snaps, t) /\ job[c].snap = t + 1
    BY <1>2, <2>1 DEF SnapsInv
  <2>4. LastOf(Append(snaps, t + 1), t + 1)
    BY <1>2, <2>3, LastOfAppend DEF MemoryTypes
  <2>5. LastOf(snaps', taken')
    BY <2>1, <2>3, <2>4
  <2> QED
    BY <2>2, <2>5 DEF SnapsInv, OnSnapshots
<1>10. ASSUME NEW c \in MemoryClients, CheckLength(c) PROVE SnapsInv'
  BY <1>5, <1>10 DEF CheckLength, OnSnapshots
<1>11. ASSUME NEW c \in MemoryClients, PopSnapshot(c) PROVE SnapsInv'
  <2>1. /\ job[c].at = "pop" /\ snaps' = DropFirst /\ taken' = taken /\ Go(c, "count")
    BY <1>11 DEF PopSnapshot
  <2>2. /\ \A d \in MemoryClients \ {c} : job'[d] = job[d] /\ ~OnSnapshots(d)
        /\ job'[c].at = "count"
    BY <1>2, <2>1 DEF MemoryTypes, SnapsInv, OnSnapshots, Go
  <2>3. LastOf(snaps, taken)
    BY <1>2, <2>1, <2>2 DEF SnapsInv, OnSnapshots
  <2>4. LastOf(snaps', taken')
    <3>1. CASE snaps = <<>>
      BY <2>1, <2>3, <3>1 DEF DropFirst
    <3>2. CASE snaps # <<>>
      BY <1>2, <2>1, <2>3, <3>2, LastOfTail DEF DropFirst, MemoryTypes
    <3> QED
      BY <3>1, <3>2
  <2> QED
    BY <2>2, <2>4 DEF SnapsInv, OnSnapshots
<1>12. ASSUME NEW c \in MemoryClients, SnapshotAnswered(c) PROVE SnapsInv'
  BY <1>4, <1>5, <1>12 DEF SnapshotAnswered, OnSnapshots, NoCommand
<1>13. ASSUME NEW c \in MemoryClients, ReadNew(c) PROVE SnapsInv'
  <2>1. CASE Len(snaps) < 2
    BY <1>4, <1>13, <2>1 DEF ReadNew, NoCommand
  <2>2. CASE ~(Len(snaps) < 2)
    <3>1. /\ job[c].at = "new" /\ taken' = taken /\ snaps' = snaps
          /\ job' = [job EXCEPT ![c] = [at |-> "old", snap |-> Last(snaps)]]
      BY <1>13, <2>2 DEF ReadNew
    <3>2. /\ \A d \in MemoryClients \ {c} : job'[d] = job[d] /\ ~OnSnapshots(d)
          /\ job'[c].at = "old" /\ job'[c].snap = Last(snaps)
      BY <1>2, <3>1 DEF MemoryTypes, SnapsInv, OnSnapshots
    <3>3. LastOf(snaps, taken) /\ taken \in Nat /\ snaps \in Seq(Nat) /\ Len(snaps) >= 2
      BY <1>2, <2>2, <3>1, <3>2 DEF SnapsInv, OnSnapshots, MemoryTypes
    <3>4. Last(snaps) = taken
      BY <3>3, LastOfEnd
    <3> QED
      BY <3>1, <3>2, <3>3, <3>4 DEF SnapsInv, OnSnapshots
  <2> QED
    BY <2>1, <2>2
<1>14. ASSUME NEW c \in MemoryClients, ReadOld(c) PROVE SnapsInv'
  BY <1>4, <1>14 DEF ReadOld, NoCommand
<1>15. CASE AppStarts \/ AppStops \/ AskDetach \/ DetachTracing \/ DetachFlag \/ ResetDiff
            \/ UNCHANGED memoryVars
  <2>1. UNCHANGED <<snaps, taken, job>>
    BY <1>15 DEF AppStarts, AppStops, AskDetach, DetachTracing, DetachFlag, ResetDiff, memoryVars
  <2> QED
    BY <1>3, <2>1 DEF OnSnapshots
<1>16. CASE DetachSnapshots
  <2>1. snaps' = <<>> /\ UNCHANGED <<taken, job>>
    BY <1>16 DEF DetachSnapshots
  <2> QED
    BY <1>2, <2>1, LastOfNone DEF SnapsInv, OnSnapshots
<1> QED
  BY <1>6, <1>7, <1>8, <1>9, <1>10, <1>11, <1>12, <1>13, <1>14, <1>15, <1>16 DEF MemoryNext

\* Memory tracing is given back as it was, and a diff is of the last two snapshots
\* (MemorySound), however the commands of the clients, the application's own use of
\* tracemalloc and the steps of a detach interleave: the flag says who turned tracing
\* on, outside the moments the property names, and as long as commands are not at the
\* snapshots together these are the last ones taken.
THEOREM MemoryStaysSound == MemorySpec => []MemorySound
<1>1. MemoryInit => MemoryInv
  <2> SUFFICES ASSUME MemoryInit PROVE MemoryInv
    OBVIOUS
  <2>1. \A c \in MemoryClients : job[c].at = "idle" /\ ~OnSnapshots(c)
    BY DEF MemoryInit, NoCommand, OnSnapshots
  <2>2. SnapsInv
    BY <2>1, LastOfNone DEF SnapsInv, MemoryInit
  <2>3. <<>> \in Seq(Nat) /\ NoCommand \in [at : JobSteps, snap : Nat]
    BY DEF NoCommand, JobSteps
  <2>4. MemoryTypes
    BY <2>3 DEF MemoryTypes, MemoryInit
  <2> QED
    BY <2>1, <2>2, <2>4 DEF MemoryInv, TracerInv, TracingGivenBack, MemoryInit, Marking, Starting
<1>2. MemoryInv /\ [MemoryNext]_memoryVars => MemoryInv'
  BY MemoryTypesStep, TracerStep, SnapsStep DEF MemoryInv
<1>3. MemoryInv => MemorySound
  <2> SUFFICES ASSUME MemoryInv PROVE MemorySound
    OBVIOUS
  <2>1. TracingGivenBack
    BY DEF MemoryInv, TracerInv
  <2>2. ASSUME NEW c \in MemoryClients, Compares(c), ~together
        PROVE  job[c].snap = taken /\ OldOne = taken - 1
    <3>1. SnapsInv /\ MemoryTypes /\ job[c].at = "old" /\ Len(snaps) >= 2
      BY <2>2 DEF MemoryInv, Compares
    <3>2. \A d \in MemoryClients : job[d].at # "append"
      BY <3>1 DEF SnapsInv, OnSnapshots
    <3>3. LastOf(snaps, taken) /\ job[c].snap = taken
      BY <3>1, <3>2 DEF SnapsInv
    <3> QED
      BY <3>1, <3>3, LastOfEnd DEF OldOne, MemoryTypes
  <2> QED
    BY <2>1, <2>2 DEF MemorySound, DiffLastTwo
<1> QED
  BY <1>1, <1>2, <1>3, PTL DEF MemorySpec

-----------------------------------------------------------------------------
(* The life of agents *)

FrameSet == [does : {"attach", "start", "stop", "mark", "uninject", "unhook", "pass", "section"}, agent : Agents]

FramesOf(m) == {m[i] : i \in 1..Len(m)}

AtMostOne(m, kinds) ==
    \A i, j \in 1..Len(m) : (m[i].does \in kinds /\ m[j].does \in kinds) => i = j

LEMMA Pushed ==
    ASSUME NEW m \in Seq(FrameSet), NEW f \in FrameSet
    PROVE  /\ <<f>> \o m \in Seq(FrameSet) /\ <<f>> \o m # <<>>
           /\ FramesOf(<<f>> \o m) = {f} \cup FramesOf(m)
           /\ \A kinds : AtMostOne(<<f>> \o m, kinds) <=>
                 /\ AtMostOne(m, kinds)
                 /\ f.does \in kinds => \A g \in FramesOf(m) : g.does \notin kinds
<1> DEFINE s == <<f>> \o m  n == Len(m)
<1>1. s \in Seq(FrameSet) /\ Len(s) = n + 1 /\ n \in Nat /\ s[1] = f
      /\ \A i \in 1..n : s[i + 1] = m[i]
  <2>1. <<f>> \in Seq(FrameSet) /\ Len(<<f>>) = 1 /\ <<f>>[1] = f
    OBVIOUS
  <2>2. /\ s \in Seq(FrameSet) /\ Len(s) = Len(<<f>>) + Len(m)
        /\ \A i \in 1..Len(<<f>>) + Len(m) :
              s[i] = IF i <= Len(<<f>>) THEN <<f>>[i] ELSE m[i - Len(<<f>>)]
    BY <2>1, ConcatProperties
  <2>3. n \in Nat
    OBVIOUS
  <2>4. Len(s) = n + 1 /\ \A i \in 1..n + 1 : s[i] = IF i <= 1 THEN f ELSE m[i - 1]
    BY <2>1, <2>2, <2>3
  <2> HIDE DEF s, n
  <2>5. s[1] = f /\ \A i \in 1..n : s[i + 1] = m[i]
    <3>1. 1 \in 1..n + 1 /\ \A i \in 1..n : i + 1 \in 1..n + 1 /\ ~(i + 1 <= 1) /\ i + 1 - 1 = i
      BY <2>3
    <3> QED
      BY <2>4, <3>1
  <2> QED
    BY <2>2, <2>3, <2>4, <2>5
<1> HIDE DEF s
<1>2. \A j \in 1..Len(s) : j = 1 \/ \E i \in 1..n : j = i + 1
  <2> SUFFICES ASSUME NEW j \in 1..Len(s), j # 1 PROVE \E i \in 1..n : j = i + 1
    OBVIOUS
  <2> HIDE DEF n
  <2>1. j - 1 \in 1..n /\ j = (j - 1) + 1
    BY <1>1
  <2> QED
    BY <2>1
<1>3. 1 \in 1..Len(s) /\ \A i \in 1..n : i + 1 \in 1..Len(s) /\ i + 1 # 1
  <2> HIDE DEF n
  <2> QED
    BY <1>1
<1>4. \A i, j \in 1..n : i + 1 = j + 1 => i = j
  OBVIOUS
<1>5. FramesOf(s) = {f} \cup FramesOf(m)
  <2>1. ASSUME NEW g \in FramesOf(s) PROVE g = f \/ g \in FramesOf(m)
    <3>1. PICK j \in 1..Len(s) : g = s[j]
      BY <2>1 DEF FramesOf
    <3>2. CASE j = 1
      BY <1>1, <3>1, <3>2
    <3>3. CASE \E i \in 1..n : j = i + 1
      <4>1. PICK i \in 1..n : g = m[i]
        BY <1>1, <3>1, <3>3
      <4> QED
        BY <4>1 DEF FramesOf
    <3> QED
      BY <1>2, <3>2, <3>3
  <2>2. ASSUME NEW g, g = f \/ g \in FramesOf(m) PROVE g \in FramesOf(s)
    <3>1. CASE g = f
      <4>1. 1 \in 1..Len(s) /\ s[1] = g
        BY <1>1, <1>3, <3>1
      <4> QED
        BY <4>1 DEF FramesOf
    <3>2. CASE g \in FramesOf(m)
      <4>1. PICK i \in 1..n : g = m[i]
        BY <3>2 DEF FramesOf
      <4>2. i + 1 \in 1..Len(s) /\ s[i + 1] = g
        BY <1>1, <1>3, <4>1
      <4> QED
        BY <4>2 DEF FramesOf
    <3> QED
      BY <2>2, <3>1, <3>2
  <2> QED
    BY <2>1, <2>2
<1>6. ASSUME NEW kinds
      PROVE  AtMostOne(s, kinds) <=> /\ AtMostOne(m, kinds)
                                     /\ f.does \in kinds => \A g \in FramesOf(m) : g.does \notin kinds
  <2>1. ASSUME AtMostOne(s, kinds), NEW i \in 1..n, NEW j \in 1..n,
               m[i].does \in kinds, m[j].does \in kinds
        PROVE  i = j
    <3>1. i + 1 \in 1..Len(s) /\ j + 1 \in 1..Len(s) /\ s[i + 1] = m[i] /\ s[j + 1] = m[j]
      BY <1>1, <1>3
    <3>2. i + 1 = j + 1
      BY <2>1, <3>1 DEF AtMostOne
    <3> QED
      BY <1>4, <3>2
  <2>2. ASSUME AtMostOne(s, kinds), f.does \in kinds, NEW i \in 1..n PROVE m[i].does \notin kinds
    BY <1>1, <1>3, <2>2 DEF AtMostOne
  <2>3. ASSUME AtMostOne(m, kinds), f.does \in kinds => \A i \in 1..n : m[i].does \notin kinds,
               NEW i \in 1..Len(s), NEW j \in 1..Len(s), s[i].does \in kinds, s[j].does \in kinds
        PROVE  i = j
    <3>1. CASE i = 1 /\ j = 1
      BY <3>1
    <3>2. ASSUME NEW a \in 1..n, NEW b \in 1..Len(s), b = 1, s[a + 1].does \in kinds, s[b].does \in kinds
          PROVE  FALSE
      <4>1. s[a + 1] = m[a] /\ s[b] = f
        BY <1>1, <3>2
      <4> QED
        BY <2>3, <3>2, <4>1
    <3>3. ASSUME NEW a \in 1..n, NEW b \in 1..n, i = a + 1, j = b + 1 PROVE i = j
      <4>1. m[a].does \in kinds /\ m[b].does \in kinds
        BY <1>1, <2>3, <3>3
      <4>2. a = b
        BY <2>3, <4>1 DEF AtMostOne
      <4> QED
        BY <3>3, <4>2
    <3>4. CASE i = 1 /\ j # 1
      <4>1. PICK b \in 1..n : j = b + 1
        BY <1>2, <3>4
      <4> QED
        BY <2>3, <3>2, <3>4, <4>1
    <3>5. CASE i # 1 /\ j = 1
      <4>1. PICK a \in 1..n : i = a + 1
        BY <1>2, <3>5
      <4> QED
        BY <2>3, <3>2, <3>5, <4>1
    <3>6. CASE i # 1 /\ j # 1
      <4>1. PICK a \in 1..n : i = a + 1
        BY <1>2, <3>6
      <4>2. PICK b \in 1..n : j = b + 1
        BY <1>2, <3>6
      <4> QED
        BY <3>3, <4>1, <4>2
    <3> QED
      BY <3>1, <3>4, <3>5, <3>6
  <2> QED
    BY <2>1, <2>2, <2>3 DEF AtMostOne, FramesOf
<1>7. s # <<>>
  BY <1>1
<1> QED
  BY <1>1, <1>5, <1>6, <1>7 DEF s

LEMMA Popped ==
    ASSUME NEW m \in Seq(FrameSet), m # <<>>
    PROVE  /\ Head(m) \in FrameSet /\ Tail(m) \in Seq(FrameSet)
           /\ FramesOf(m) = {Head(m)} \cup FramesOf(Tail(m))
           /\ \A kinds : AtMostOne(m, kinds) <=>
                 /\ AtMostOne(Tail(m), kinds)
                 /\ Head(m).does \in kinds => \A g \in FramesOf(Tail(m)) : g.does \notin kinds
<1>1. Head(m) \in FrameSet /\ Tail(m) \in Seq(FrameSet) /\ m = <<Head(m)>> \o Tail(m)
  BY HeadTailProperties
<1> DEFINE h == Head(m)  t == Tail(m)
<1>2. h \in FrameSet /\ t \in Seq(FrameSet) /\ m = <<h>> \o t
  BY <1>1
<1> HIDE DEF h, t
<1>3. /\ FramesOf(<<h>> \o t) = {h} \cup FramesOf(t)
      /\ \A kinds : AtMostOne(<<h>> \o t, kinds) <=>
            /\ AtMostOne(t, kinds)
            /\ h.does \in kinds => \A g \in FramesOf(t) : g.does \notin kinds
  BY <1>2, Pushed
<1>4. /\ FramesOf(m) = {h} \cup FramesOf(t)
      /\ \A kinds : AtMostOne(m, kinds) <=>
            /\ AtMostOne(t, kinds)
            /\ h.does \in kinds => \A g \in FramesOf(t) : g.does \notin kinds
  BY <1>2, <1>3, Zenon
<1> QED
  BY <1>1, <1>4 DEF h, t

\* What a signal may be set to.
Apps == {"default", "ignored", "called"} \X {1, 2}
Handlers == Apps \cup {Handler(a) : a \in Agents}

LifeTypes ==
    /\ created \in 0..MaxAgents /\ stopped \subseteq 1..created /\ agents \subseteq 1..created
    /\ disposition \in Apps /\ handler \in Handlers /\ previous \in [Agents -> Handlers]
    /\ restores \in Seq(Agents) /\ main \in Seq(FrameSet) /\ wrapped \subseteq 1..created
    /\ client \in [Agents -> {"serving", "stop", "mark", "uninject", "unhook"}]

\* One agent is being attached, as the next of them or the last, and one signal passed on.
FrameInv ==
    /\ \A f \in FramesOf(main) :
          /\ f.does = "attach" => f.agent = created + 1
          /\ f.does = "start" => f.agent = created
          /\ f.does # "attach" => f.agent \in 1..created
          /\ f.does = "pass" => signal = "handling"
    /\ AtMostOne(main, {"attach", "start"}) /\ AtMostOne(main, {"pass"})

\* Nothing is undone but of an agent that is marked as stopped.
MarkInv ==
    /\ \A f \in FramesOf(main) : f.does \in {"uninject", "unhook"} => f.agent \in stopped
    /\ \A a \in Agents : /\ client[a] \in {"uninject", "unhook"} => a \in stopped
                         /\ client[a] \in {"stop", "mark"} => a \in 1..created

\* The agents that are stopped, or are going to be by a call that passed the first test.
Asked ==
    stopped \cup {a \in Agents : \/ client[a] \in {"stop", "mark"}
                                \/ \E f \in FramesOf(main) : f.does \in {"stop", "mark"} /\ f.agent = a}

\* The agents whose stop has still to give back their hooks.
Unhooks(a) ==
    \/ client[a] \in {"uninject", "unhook"} \/ \E i \in 1..Len(restores) : restores[i] = a
    \/ \E f \in FramesOf(main) : f.does \in {"uninject", "unhook"} /\ f.agent = a

\* What an agent wrapped is unwrapped by its stop, before the hooks are given back.
WrapInv ==
    \A a \in wrapped \cap stopped :
        \/ a \in lateStarts \/ client[a] = "uninject"
        \/ \E f \in FramesOf(main) : f.does = "uninject" /\ f.agent = a

\* Agents put their handlers over those of older ones.
OlderInv == \A a \in 1..created : \A b \in Agents : previous[a] = Handler(b) => b \in 1..a - 1

\* Since the application set the handler last, when agent e was the latest, there is its
\* own handler, or that of a later agent; and so there was before each of these.
Since(e) ==
    /\ handler = disposition \/ \E b \in e + 1..created : handler = Handler(b)
    /\ \A a \in e + 1..created : previous[a] = disposition \/ \E b \in e + 1..created : previous[a] = Handler(b)
    /\ \A f \in FramesOf(main) : f.does = "pass" => f.agent > e

\* The agents of B, which have lost their handler to a later one before they were stopped,
\* are not stopped but by a signal that is passed to them.  One that has its handler and is
\* being stopped is still registered, or will give it back.
Buried(B) ==
    /\ B \subseteq 1..created /\ B \cap Asked = {} /\ B \cap agents = {}
    /\ \A x \in B, y \in Agents : previous[x] = Handler(y) => y \in B
    /\ \A x \in Agents : handler = Handler(x) =>
          /\ x \in stopped => Unhooks(x)
          /\ x \in Asked \ stopped => x \in agents
          /\ \A y \in Agents : previous[x] = Handler(y) => y \in B
    /\ \A f \in FramesOf(main) :
          /\ f.does = "pass" => \A y \in Agents : previous[f.agent] = Handler(y) => y \in B
          /\ f.does = "start" => created \notin B

HandlerInv ==
    /\ OlderInv /\ \A b \in Agents : handler = Handler(b) => b \in 1..created
    /\ \E e \in 0..created : Since(e)
    /\ takenOver \/ \E B \in SUBSET Agents : Buried(B)

LifeInv == LifeTypes /\ FrameInv /\ MarkInv /\ WrapInv /\ HandlerInv

LEMMA HandlerFacts ==
    /\ \A a, b \in Agents : Handler(a) = Handler(b) => a = b
    /\ \A a \in Agents : Handler(a) \in Handlers /\ IsAgent(Handler(a)) /\ Handler(a)[2] = a
    /\ \A d \in Apps : d \in Handlers /\ ~IsAgent(d) /\ \A a \in Agents : d # Handler(a)
    /\ \A h \in Handlers : \/ ~IsAgent(h) /\ h \in Apps
                           \/ h[2] \in Agents /\ h = Handler(h[2]) /\ IsAgent(h)
<1>1. \A a, b \in Agents : Handler(a) = Handler(b) => a = b
  BY DEF Handler
<1>2. \A a \in Agents : Handler(a) \in Handlers /\ IsAgent(Handler(a)) /\ Handler(a)[2] = a
  BY DEF Handler, IsAgent, Handlers
<1>3. \A d \in Apps : d \in Handlers /\ ~IsAgent(d)
  BY DEF Apps, IsAgent, Handlers
<1>4. \A d \in Apps : \A a \in Agents : d # Handler(a)
  BY <1>2, <1>3
<1>5. \A h \in Handlers : \/ ~IsAgent(h) /\ h \in Apps
                          \/ h[2] \in Agents /\ h = Handler(h[2]) /\ IsAgent(h)
  <2> SUFFICES ASSUME NEW h \in Handlers
               PROVE  \/ ~IsAgent(h) /\ h \in Apps
                      \/ h[2] \in Agents /\ h = Handler(h[2]) /\ IsAgent(h)
    OBVIOUS
  <2>1. h \in Apps \/ \E a \in Agents : h = Handler(a)
    BY DEF Handlers
  <2> QED
    BY <1>2, <1>3, <2>1
<1> QED
  BY <1>1, <1>2, <1>3, <1>4, <1>5

\* Frames as the steps make them.
LEMMA FrameFacts ==
    /\ \A a \in Agents : /\ \A d \in {"attach", "start", "stop", "mark", "uninject", "unhook", "pass", "section"} :
                               Frame(d, a) \in FrameSet /\ Frame(d, a).does = d /\ Frame(d, a).agent = a
    /\ FramesOf(<<>>) = {} /\ \A kinds : AtMostOne(<<>>, kinds)
    /\ \A m \in Seq(FrameSet) : <<>> \o m = m
<1>1. \A a \in Agents : \A d \in {"attach", "start", "stop", "mark", "uninject", "unhook", "pass", "section"} :
          Frame(d, a) \in FrameSet /\ Frame(d, a).does = d /\ Frame(d, a).agent = a
  BY DEF Frame, FrameSet
<1>2. FramesOf(<<>>) = {} /\ \A kinds : AtMostOne(<<>>, kinds)
  BY DEF FramesOf, AtMostOne
<1> QED
  BY <1>1, <1>2

\* A step that leaves the handlers alone; who begins to stop is registered.
LEMMA HandlersKept ==
    ASSUME LifeTypes, HandlerInv, UNCHANGED <<created, disposition, handler, previous, takenOver>>,
           stopped \subseteq stopped', Asked' \subseteq Asked \cup agents, agents \subseteq agents' \cup stopped',
           \A a \in agents' : a \in agents \/ (a = created /\ \E f \in FramesOf(main) : f.does = "start"),
           \A x \in stopped' : (x \in stopped => Unhooks(x)) => Unhooks(x)',
           \A f \in FramesOf(main') : f.does \in {"pass", "start"} => f \in FramesOf(main)
    PROVE  HandlerInv'
<1>1. OlderInv' /\ \A b \in Agents : handler' = Handler(b) => b \in 1..created'
  BY DEF HandlerInv, OlderInv, Handler
<1>2. \E e \in 0..created' : Since(e)'
  <2>1. PICK e \in 0..created : Since(e)
    BY DEF HandlerInv
  <2>2. Since(e)'
    BY <2>1 DEF Since, Handler
  <2> QED
    BY <2>1, <2>2
<1>3. ASSUME NEW B \in SUBSET Agents, Buried(B) PROVE Buried(B)'
  <2>1. /\ B \subseteq 1..created' /\ B \cap Asked' = {} /\ B \cap agents' = {}
    BY <1>3 DEF Buried
  <2>2. /\ \A x \in B, y \in Agents : previous'[x] = Handler(y) => y \in B
        /\ \A x \in Agents : handler' = Handler(x) =>
              \A y \in Agents : previous'[x] = Handler(y) => y \in B
    BY <1>3 DEF Buried
  <2>3. \A x \in Agents : (handler' = Handler(x) /\ x \in stopped') => Unhooks(x)'
    BY <1>3 DEF Buried
  <2>4. ASSUME NEW x \in Agents, handler' = Handler(x), x \in Asked' \ stopped' PROVE x \in agents'
    <3>1. x \in agents
      <4>1. CASE x \in Asked
        <5>1. x \in Asked \ stopped
          BY <2>4, <4>1
        <5> QED
          BY <1>3, <2>4, <5>1 DEF Buried
      <4>2. CASE x \notin Asked
        BY <2>4, <4>2
      <4> QED
        BY <4>1, <4>2
    <3> QED
      BY <2>4, <3>1
  <2>5. \A f \in FramesOf(main') :
          /\ f.does = "pass" => \A y \in Agents : previous'[f.agent] = Handler(y) => y \in B
          /\ f.does = "start" => created' \notin B
    BY <1>3 DEF Buried
  <2> QED
    BY <2>1, <2>2, <2>3, <2>4, <2>5 DEF Buried, Handler
<1> QED
  BY <1>1, <1>2, <1>3 DEF HandlerInv

\* The application's handler is nobody's; the agents since are agents.
LEMMA SinceFacts ==
    ASSUME LifeTypes
    PROVE  /\ \A a \in Agents : disposition # Handler(a)
           /\ \A e \in 0..created : \A b \in e + 1..created : b \in Agents
           /\ \A e \in 0..created, a \in Agents :
                 (\E b \in e + 1..created : Handler(a) = Handler(b)) => a \in e + 1..created
<1>1. \A a \in Agents : disposition # Handler(a)
  BY HandlerFacts DEF LifeTypes
<1>2. \A e \in 0..created : \A b \in e + 1..created : b \in Agents
  BY AgentAssumption DEF LifeTypes, Agents
<1>3. \A e \in 0..created, a \in Agents :
          (\E b \in e + 1..created : Handler(a) = Handler(b)) => a \in e + 1..created
  BY <1>2, HandlerFacts
<1> QED
  BY <1>1, <1>2, <1>3

\* A step that gives back the hooks of a.
LEMMA HandlerRestored ==
    ASSUME LifeTypes, HandlerInv, NEW a \in Agents, handler' = Restored(a),
           UNCHANGED <<created, disposition, previous, takenOver, stopped>>, agents' \subseteq agents,
           agents \subseteq agents' \cup stopped, Asked' \subseteq Asked,
           \A x \in Agents \ {a} : Unhooks(x) => Unhooks(x)',
           \A f \in FramesOf(main') : f.does \in {"pass", "start"} => f \in FramesOf(main)
    PROVE  HandlerInv'
<1>1. \/ handler = Handler(a) /\ handler' = previous[a]
      \/ handler # Handler(a) /\ handler' = handler
  BY DEF Restored, OwnHandler
<1>2. handler = Handler(a) => a \in 1..created
  BY DEF HandlerInv
<1>3. OlderInv' /\ \A b \in Agents : handler' = Handler(b) => b \in 1..created'
  <2>1. OlderInv'
    BY DEF HandlerInv, OlderInv, Handler
  <2>2. \A b \in Agents : handler' = Handler(b) => b \in 1..created'
    BY <1>1, <1>2 DEF HandlerInv, OlderInv, LifeTypes, Agents
  <2> QED
    BY <2>1, <2>2
<1>4. \E e \in 0..created' : Since(e)'
  <2>1. PICK e \in 0..created : Since(e)
    BY DEF HandlerInv
  <2>2. handler = Handler(a) => a \in e + 1..created
    <3> SUFFICES ASSUME handler = Handler(a) PROVE a \in e + 1..created
      OBVIOUS
    <3>1. \E b \in e + 1..created : Handler(a) = Handler(b)
      BY <2>1, SinceFacts DEF Since
    <3> QED
      BY <3>1, SinceFacts
  <2>3. handler' = disposition' \/ \E b \in e + 1..created' : handler' = Handler(b)
    BY <1>1, <2>1, <2>2 DEF Since
  <2>4. Since(e)'
    BY <2>1, <2>3 DEF Since, Handler
  <2> QED
    BY <2>1, <2>4
<1>5. ASSUME NEW B \in SUBSET Agents, Buried(B) PROVE Buried(B)'
  <2>1. /\ B \subseteq 1..created' /\ B \cap Asked' = {} /\ B \cap agents' = {}
    BY <1>5 DEF Buried
  <2>2. \A x \in B, y \in Agents : previous'[x] = Handler(y) => y \in B
    BY <1>5 DEF Buried
  <2>3. \A x \in Agents : handler' = Handler(x) =>
              \A y \in Agents : previous'[x] = Handler(y) => y \in B
    BY <1>1, <1>5 DEF Buried
  <2>4. ASSUME NEW x \in Agents, handler' = Handler(x), x \in stopped' PROVE Unhooks(x)'
    <3>1. CASE handler = Handler(a) /\ handler' = previous[a]
      <4>1. x \in B /\ B \cap Asked = {}
        BY <1>5, <2>4, <3>1 DEF Buried
      <4> QED
        BY <2>4, <4>1 DEF Asked
    <3>2. CASE handler # Handler(a) /\ handler' = handler
      BY <1>5, <2>4, <3>2 DEF Buried
    <3> QED
      BY <1>1, <3>1, <3>2
  <2>5. ASSUME NEW x \in Agents, handler' = Handler(x), x \in Asked' \ stopped' PROVE x \in agents'
    <3>0. x \in Asked \ stopped
      BY <2>5
    <3>1. CASE handler = Handler(a) /\ handler' = previous[a]
      BY <1>5, <2>5, <3>0, <3>1 DEF Buried
    <3>2. CASE handler # Handler(a) /\ handler' = handler
      BY <1>5, <2>5, <3>0, <3>2 DEF Buried
    <3> QED
      BY <1>1, <3>1, <3>2
  <2>6. \A f \in FramesOf(main') :
          /\ f.does = "pass" => \A y \in Agents : previous'[f.agent] = Handler(y) => y \in B
          /\ f.does = "start" => created' \notin B
    BY <1>5 DEF Buried
  <2> QED
    BY <2>1, <2>2, <2>3, <2>4, <2>5, <2>6 DEF Buried, Handler
<1> QED
  BY <1>3, <1>4, <1>5 DEF HandlerInv

\* A step with which a signal comes to a: from the system, or passed on by a later agent.
LEMMA HandlerRun ==
    ASSUME LifeTypes, FrameInv, HandlerInv, NEW a \in Agents,
           \/ handler = Handler(a)
           \/ \E f \in FramesOf(main) : f.does = "pass" /\ previous[f.agent] = Handler(a),
           handler' = previous[a], Asked' \subseteq Asked \cup {a},
           UNCHANGED <<created, disposition, previous, takenOver, agents, stopped>>,
           \A f \in FramesOf(main') : /\ f.does = "pass" => f.agent = a
                                      /\ f.does = "start" => f \in FramesOf(main)
    PROVE  HandlerInv' /\ a \in 1..created
<1>1. a \in 1..created
  <2>1. CASE handler = Handler(a)
    BY <2>1 DEF HandlerInv
  <2>2. ASSUME NEW f \in FramesOf(main), f.does = "pass", previous[f.agent] = Handler(a)
        PROVE  a \in 1..created
    <3>1. f.agent \in 1..created
      BY <2>2 DEF FrameInv
    <3>2. a \in 1..f.agent - 1
      BY <2>2, <3>1 DEF HandlerInv, OlderInv
    <3> QED
      BY <3>1, <3>2 DEF LifeTypes
  <2> QED
    BY <2>1, <2>2
<1>2. \A y \in Agents : previous[a] = Handler(y) => y \in 1..a - 1
  BY <1>1 DEF HandlerInv, OlderInv
<1>3. OlderInv' /\ \A b \in Agents : handler' = Handler(b) => b \in 1..created'
  <2>1. OlderInv'
    BY DEF HandlerInv, OlderInv, Handler
  <2> QED
    BY <1>1, <1>2, <2>1 DEF LifeTypes
<1>4. \E e \in 0..created' : Since(e)'
  <2>1. PICK e \in 0..created : Since(e)
    BY DEF HandlerInv
  <2>2. a \in e + 1..created
    <3>1. CASE handler = Handler(a)
      <4>1. \E b \in e + 1..created : Handler(a) = Handler(b)
        BY <2>1, <3>1, SinceFacts DEF Since
      <4> QED
        BY <4>1, SinceFacts
    <3>2. ASSUME NEW f \in FramesOf(main), f.does = "pass", previous[f.agent] = Handler(a)
          PROVE  a \in e + 1..created
      <4>1. f.agent \in e + 1..created
        BY <2>1, <3>2 DEF FrameInv, Since, LifeTypes
      <4>2. \E b \in e + 1..created : Handler(a) = Handler(b)
        BY <2>1, <3>2, <4>1, SinceFacts DEF Since
      <4> QED
        BY <4>2, SinceFacts
    <3> QED
      BY <3>1, <3>2
  <2>3. handler' = disposition' \/ \E b \in e + 1..created' : handler' = Handler(b)
    BY <2>1, <2>2 DEF Since
  <2>4. \A f \in FramesOf(main') : f.does = "pass" => f.agent > e
    BY <2>1, <2>2
  <2>5. Since(e)'
    BY <2>1, <2>3, <2>4 DEF Since, Handler
  <2> QED
    BY <2>1, <2>5
<1>5. ASSUME NEW B \in SUBSET Agents, Buried(B) PROVE \E C \in SUBSET Agents : Buried(C)'
  <2> DEFINE C == {x \in B : x < a}
  <2>1. \A y \in Agents : previous[a] = Handler(y) => y \in B
    <3>1. CASE handler = Handler(a)
      BY <1>5, <3>1 DEF Buried
    <3>2. ASSUME NEW f \in FramesOf(main), f.does = "pass", previous[f.agent] = Handler(a)
          PROVE  a \in B
      BY <1>5, <3>2 DEF Buried
    <3> QED
      BY <1>5, <3>1, <3>2 DEF Buried
  <2>2. \A y \in Agents : previous[a] = Handler(y) => y \in C
    BY <1>1, <1>2, <2>1
  <2>3. /\ C \subseteq 1..created' /\ C \cap Asked' = {} /\ C \cap agents' = {}
    <3>1. a \notin C
      BY <1>1
    <3>2. C \subseteq B
      OBVIOUS
    <3> HIDE DEF C
    <3>3. B \subseteq 1..created /\ B \cap Asked = {} /\ B \cap agents = {}
      BY <1>5 DEF Buried
    <3>4. Asked' \subseteq Asked \cup {a}
      OBVIOUS
    <3> QED
      BY <3>1, <3>2, <3>3, <3>4
  <2>4. ASSUME NEW x \in C, NEW y \in Agents, previous'[x] = Handler(y) PROVE y \in C
    <3>1. x \in B /\ x < a /\ y \in B /\ x \in 1..created
      BY <1>5, <2>4 DEF Buried
    <3>2. y \in 1..x - 1
      BY <2>4, <3>1 DEF HandlerInv, OlderInv
    <3>3. y < a
      BY <1>1, <3>1, <3>2
    <3> QED
      BY <3>1, <3>3
  <2>5. ASSUME NEW x \in Agents, handler' = Handler(x)
        PROVE  x \notin Asked' /\ x \notin stopped' /\ \A y \in Agents : previous'[x] = Handler(y) => y \in C
    <3>1. x \in C
      BY <2>2, <2>5
    <3> QED
      BY <2>3, <2>4, <3>1 DEF Asked
  <2>6. \A f \in FramesOf(main') :
          /\ f.does = "pass" => \A y \in Agents : previous'[f.agent] = Handler(y) => y \in C
          /\ f.does = "start" => created' \notin C
    BY <1>5, <2>2 DEF Buried
  <2> HIDE DEF C
  <2>7. Buried(C)'
    BY <2>3, <2>4, <2>5, <2>6 DEF Buried, Handler
  <2>8. C \in SUBSET Agents
    BY DEF C
  <2> QED
    BY <2>7, <2>8
<1> QED
  BY <1>1, <1>3, <1>4, <1>5 DEF HandlerInv

\* A new agent takes the handler over, and buries the agent that had it.
LEMMA HandlerTaken ==
    ASSUME LifeTypes, FrameInv, MarkInv, HandlerInv, created + 1 \in Agents,
           created' = created + 1, agents' = {}, previous' = [previous EXCEPT ![created + 1] = handler],
           handler' = Handler(created + 1),
           takenOver' = (takenOver \/ (IsAgent(handler) /\ handler[2] \in stopped)),
           UNCHANGED <<stopped, disposition>>, Asked' \subseteq Asked, agents \subseteq stopped,
           \A f \in FramesOf(main') : f.does = "pass" => f \in FramesOf(main)
    PROVE  HandlerInv'
<1> DEFINE new == created + 1
<1>1. new \in Nat /\ new \in 1..new /\ 1..new = 1..created \cup {new} /\ new \notin 1..created
      /\ created \in Nat
  BY DEF LifeTypes
<1>2. /\ \A x \in Agents : x # new => previous'[x] = previous[x]
      /\ previous'[new] = handler
  BY DEF LifeTypes
<1>7. handler' = Handler(new) /\ created' = new /\ new \in Agents
  OBVIOUS
<1>6. \A a \in 1..created : a \in Agents /\ a # new
  BY AgentAssumption DEF LifeTypes, Agents
<1> HIDE DEF new
<1>3. OlderInv' /\ \A b \in Agents : handler' = Handler(b) => b \in 1..created'
  <2>1. ASSUME NEW a \in 1..created, NEW b \in Agents, previous'[a] = Handler(b) PROVE b \in 1..a - 1
    <3>1. a \in Agents /\ a # new
      BY <1>6
    <3> QED
      BY <1>2, <2>1, <3>1 DEF HandlerInv, OlderInv
  <2>2. ASSUME NEW b \in Agents, previous'[new] = Handler(b) PROVE b \in 1..new - 1
    <3>1. b \in 1..created
      BY <1>2, <2>2 DEF HandlerInv
    <3> QED
      BY <1>1, <3>1
  <2>3. \A b \in Agents : handler' = Handler(b) => b = new
    BY <1>7, HandlerFacts
  <2> QED
    BY <1>1, <1>7, <2>1, <2>2, <2>3 DEF OlderInv
<1>4. \E e \in 0..created' : Since(e)'
  <2>1. PICK e \in 0..created : Since(e)
    BY DEF HandlerInv
  <2>2. /\ e \in 0..created' /\ \A b \in e + 1..created : b \in e + 1..created'
        /\ new \in e + 1..created'
        /\ \A b \in e + 1..created' : b = new \/ b \in e + 1..created
    BY <1>1, <1>7 DEF new
  <2>3. ASSUME NEW a \in e + 1..created'
        PROVE  previous'[a] = disposition' \/ \E b \in e + 1..created' : previous'[a] = Handler(b)
    <3>1. CASE a = new
      BY <1>2, <2>1, <2>2, <3>1 DEF Since
    <3>2. CASE a # new
      <4>1. a \in e + 1..created
        BY <2>2, <3>2, Zenon
      <4>2. a \in Agents
        BY <4>1, SinceFacts
      <4> QED
        BY <1>2, <2>1, <2>2, <3>2, <4>1, <4>2 DEF Since
    <3> QED
      BY <3>1, <3>2
  <2>5. \E b \in e + 1..created' : handler' = Handler(b)
    BY <1>7, <2>2, Zenon
  <2>6. \A f \in FramesOf(main') : f.does = "pass" => f.agent > e
    BY <2>1 DEF Since
  <2>4. Since(e)'
    BY <2>3, <2>5, <2>6 DEF Since, Handler
  <2> QED
    BY <2>2, <2>4
<1>5. ASSUME NEW B \in SUBSET Agents, Buried(B), ~takenOver' PROVE \E C \in SUBSET Agents : Buried(C)'
  <2>9. PICK C \in SUBSET Agents : C = B \cup {b \in Agents : handler = Handler(b)}
    BY <1>5
  <2>1. ASSUME NEW b \in Agents, handler = Handler(b) PROVE b \notin Asked /\ b \in 1..created
    <3>1. b \notin stopped /\ b \in 1..created
      BY <1>5, <2>1, HandlerFacts DEF HandlerInv
    <3>2. b \in Asked \ stopped => b \in agents
      BY <1>5, <2>1 DEF Buried
    <3> QED
      BY <3>1, <3>2
  <2>2. C \subseteq 1..created /\ C \cap Asked' = {} /\ C \cap agents' = {}
    BY <1>5, <2>1, <2>9 DEF Buried
  <2>3. ASSUME NEW x \in C, NEW y \in Agents, previous'[x] = Handler(y) PROVE y \in C
    <3>1. x # new /\ x \in Agents
      BY <1>6, <2>2
    <3> QED
      BY <1>2, <1>5, <2>3, <2>9, <3>1 DEF Buried
  <2>4. ASSUME NEW x \in Agents, handler' = Handler(x)
        PROVE  x \notin Asked' /\ x \notin stopped' /\ \A y \in Agents : previous'[x] = Handler(y) => y \in C
    <3>1. x = new
      BY <1>7, <2>4, HandlerFacts
    <3>2. x \notin Asked
      BY <1>1, <3>1 DEF LifeTypes, FrameInv, MarkInv, Asked
    <3> QED
      BY <1>2, <2>9, <3>1, <3>2 DEF Asked
  <2>5. ASSUME NEW f \in FramesOf(main'), f.does = "pass", NEW y \in Agents, previous'[f.agent] = Handler(y)
        PROVE  y \in C
    <3>1. f \in FramesOf(main) /\ f.agent \in 1..created
      BY <2>5 DEF FrameInv
    <3>2. f.agent \in Agents /\ f.agent # new
      BY <1>6, <3>1
    <3> QED
      BY <1>2, <1>5, <2>5, <2>9, <3>1, <3>2 DEF Buried
  <2>6. created' \notin C
    BY <1>1, <1>7, <2>2
  <2>7. C \subseteq 1..created'
    BY <1>1, <1>7, <2>2
  <2>8. Buried(C)'
    BY <2>2, <2>3, <2>4, <2>5, <2>6, <2>7 DEF Buried, Handler
  <2> QED
    BY <2>8
<1> QED
  BY <1>3, <1>4, <1>5 DEF HandlerInv

\* The application's handler: nothing of the agents' is left.
LEMMA HandlerOwned ==
    ASSUME LifeTypes, HandlerInv, disposition' \in Apps, handler' = disposition', FramesOf(main') = {},
           UNCHANGED <<created, previous, stopped, agents, takenOver>>, Asked' \subseteq Asked
    PROVE  HandlerInv'
<1>1. \A b \in Agents : handler' # Handler(b)
  BY HandlerFacts
<1>2. OlderInv'
  BY DEF HandlerInv, OlderInv, Handler
<1>3. created \in 0..created /\ created + 1..created = {}
  BY DEF LifeTypes
<1>4. Since(created)'
  BY <1>3 DEF Since
<1>5. ASSUME NEW B \in SUBSET Agents, Buried(B) PROVE Buried(B)'
  BY <1>1, <1>5 DEF Buried, Handler
<1> QED
  BY <1>1, <1>2, <1>3, <1>4, <1>5 DEF HandlerInv, Handler

LEMMA FramesPopped ==
    ASSUME main \in Seq(FrameSet), main # <<>>
    PROVE  /\ Top \in FrameSet /\ Top.agent \in Agents /\ Tail(main) \in Seq(FrameSet)
           /\ FramesOf(main) = {Top} \cup FramesOf(Tail(main))
           /\ \A kinds : AtMostOne(main, kinds) <=>
                 /\ AtMostOne(Tail(main), kinds)
                 /\ Top.does \in kinds => \A g \in FramesOf(Tail(main)) : g.does \notin kinds
<1>1. /\ Top \in FrameSet /\ Tail(main) \in Seq(FrameSet)
      /\ FramesOf(main) = {Top} \cup FramesOf(Tail(main))
      /\ \A kinds : AtMostOne(main, kinds) <=>
            /\ AtMostOne(Tail(main), kinds)
            /\ Top.does \in kinds => \A g \in FramesOf(Tail(main)) : g.does \notin kinds
  BY Popped, Zenon DEF Top
<1>2. \A f \in FrameSet : f.agent \in Agents
  BY DEF FrameSet
<1> QED
  BY <1>1, <1>2

\* The frame on top becomes another one.
LEMMA FramesReplaced ==
    ASSUME main \in Seq(FrameSet), main # <<>>,
           NEW d \in {"attach", "start", "stop", "mark", "uninject", "unhook", "pass", "section"}, Becomes(d)
    PROVE  /\ main' \in Seq(FrameSet)
           /\ FramesOf(main') = {Frame(d, Top.agent)} \cup FramesOf(Tail(main))
           /\ \A kinds : AtMostOne(main', kinds) <=>
                 /\ AtMostOne(Tail(main), kinds)
                 /\ d \in kinds => \A g \in FramesOf(Tail(main)) : g.does \notin kinds
<1>1. main' = <<Frame(d, Top.agent)>> \o Tail(main)
  BY DEF Becomes
<1>2. Frame(d, Top.agent) \in FrameSet /\ Frame(d, Top.agent).does = d /\ Tail(main) \in Seq(FrameSet)
  BY FramesPopped, FrameFacts
<1> DEFINE f == Frame(d, Top.agent)  r == Tail(main)
<1>3. main' = <<f>> \o r /\ f \in FrameSet /\ r \in Seq(FrameSet) /\ f.does = d
  BY <1>1, <1>2
<1> HIDE DEF f, r
<1>4. /\ <<f>> \o r \in Seq(FrameSet) /\ FramesOf(<<f>> \o r) = {f} \cup FramesOf(r)
      /\ \A kinds : AtMostOne(<<f>> \o r, kinds) <=>
            /\ AtMostOne(r, kinds)
            /\ f.does \in kinds => \A g \in FramesOf(r) : g.does \notin kinds
  BY <1>3, Pushed
<1>5. /\ main' \in Seq(FrameSet) /\ FramesOf(main') = {f} \cup FramesOf(r)
      /\ \A kinds : AtMostOne(main', kinds) <=>
            /\ AtMostOne(r, kinds)
            /\ d \in kinds => \A g \in FramesOf(r) : g.does \notin kinds
  BY <1>3, <1>4, Zenon
<1> QED
  BY <1>5, Zenon DEF f, r

LEMMA LifeInit == AgentInit => LifeInv
<1> SUFFICES ASSUME AgentInit PROVE LifeInv
  OBVIOUS
<1> USE DEF AgentInit
<1>1. disposition \in Apps /\ handler = disposition
  BY AgentAssumption DEF Apps
<1>2. LifeTypes
  <2>1. disposition \in Handlers
    BY <1>1, HandlerFacts
  <2>2. <<>> \in Seq(Agents) /\ <<>> \in Seq(FrameSet)
    OBVIOUS
  <2> QED
    BY <1>1, <2>1, <2>2, AgentAssumption DEF LifeTypes
<1>3. FrameInv
  BY FrameFacts DEF FrameInv
<1>4. MarkInv
  BY FrameFacts DEF MarkInv
<1>5. HandlerInv
  <2>1. \A b \in Agents : handler # Handler(b)
    BY <1>1, HandlerFacts
  <2>2. OlderInv /\ Since(0)
    BY <1>1, FrameFacts DEF OlderInv, Since
  <2>3. Buried({})
    BY <2>1, FrameFacts DEF Buried
  <2>4. 0 \in 0..created /\ {} \in SUBSET Agents
    OBVIOUS
  <2> QED
    BY <2>1, <2>2, <2>3, <2>4 DEF HandlerInv
<1> QED
  BY <1>2, <1>3, <1>4, <1>5 DEF LifeInv, WrapInv

\* The steps on the main thread that are a part of a stop.
LEMMA MainStops == LifeInv /\ (MainLocks \/ MainMarks \/ MainUninjects \/ MainUnhooks) => LifeInv'
<1> SUFFICES ASSUME LifeInv, MainLocks \/ MainMarks \/ MainUninjects \/ MainUnhooks PROVE LifeInv'
  OBVIOUS
<1> USE DEF LifeInv
<1>1. CASE MainUninjects
  <2>1. /\ main # <<>> /\ Top.does = "uninject" /\ Becomes("unhook") /\ wrapped' = wrapped \ {Top.agent}
        /\ UNCHANGED <<created, stopped, agents, disposition, handler, previous, restores, client,
                       signal, takenOver, lateStarts>>
    BY <1>1 DEF MainUninjects, MainIs, Uninjected, registry, hooks, histories
  <2>2. /\ Top.agent \in Agents /\ FramesOf(main) = {Top} \cup FramesOf(Tail(main))
        /\ main' \in Seq(FrameSet) /\ FramesOf(main') = {Frame("unhook", Top.agent)} \cup FramesOf(Tail(main))
    BY <2>1, FramesPopped, FramesReplaced DEF LifeTypes
  <2>3. Frame("unhook", Top.agent).does = "unhook" /\ Frame("unhook", Top.agent).agent = Top.agent
    BY <2>2, FrameFacts
  <2>4. \A kinds \in {{"attach", "start"}, {"pass"}} : AtMostOne(main, kinds) => AtMostOne(main', kinds)
    BY <2>1, FramesPopped, FramesReplaced DEF LifeTypes
  <2> DEFINE h == Top  g == Frame("unhook", Top.agent)  R == FramesOf(Tail(main))
  <2>5. /\ FramesOf(main) = {h} \cup R /\ FramesOf(main') = {g} \cup R
        /\ h.does = "uninject" /\ g.does = "unhook" /\ g.agent = h.agent
    BY <2>1, <2>2, <2>3
  <2> HIDE DEF h, g, R
  <2>6. LifeTypes'
    BY <2>1, <2>2 DEF LifeTypes
  <2>7. FrameInv'
    BY <2>1, <2>4, <2>5 DEF FrameInv
  <2>8. WrapInv'
    <3>1. wrapped' = wrapped \ {h.agent}
      BY <2>1 DEF h
    <3> QED
      BY <2>1, <2>5, <3>1 DEF WrapInv
  <2>9. \A x : Unhooks(x) => Unhooks(x)'
    BY <2>1, <2>5 DEF Unhooks
  <2>10. MarkInv' /\ Asked' \subseteq Asked
    BY <2>1, <2>5 DEF MarkInv, Asked
  <2>11. HandlerInv'
    BY <2>1, <2>5, <2>9, <2>10, HandlersKept
  <2> QED
    BY <2>6, <2>7, <2>8, <2>10, <2>11
<1>2. CASE MainUnhooks
  <2>1. /\ main # <<>> /\ Top.does = "unhook" /\ main' = Tail(main) /\ handler' = Restored(Top.agent)
        /\ agents' = agents \ {Top.agent}
        /\ UNCHANGED <<created, stopped, disposition, previous, restores, client, wrapped,
                       signal, takenOver, lateStarts>>
    BY <1>2 DEF MainUnhooks, MainIs, Returns, targets, histories
  <2> DEFINE h == Top  R == FramesOf(Tail(main))
  <2>2. /\ h.agent \in Agents /\ FramesOf(main) = {h} \cup R /\ FramesOf(main') = R
        /\ main' \in Seq(FrameSet) /\ h.does = "unhook"
    BY <2>1, FramesPopped DEF LifeTypes
  <2>3. \A kinds : AtMostOne(main, kinds) => AtMostOne(main', kinds)
    BY <2>1, FramesPopped DEF LifeTypes
  <2>4. handler' = Restored(h.agent) /\ agents' = agents \ {h.agent}
    BY <2>1
  <2> HIDE DEF h, R
  <2>5. handler' \in Handlers
    BY <2>2, <2>4 DEF LifeTypes, Restored
  <2>6. LifeTypes'
    BY <2>1, <2>2, <2>4, <2>5 DEF LifeTypes
  <2>7. FrameInv'
    BY <2>1, <2>2, <2>3 DEF FrameInv
  <2>8. WrapInv'
    BY <2>1, <2>2 DEF WrapInv
  <2>9. \A x \in Agents \ {h.agent} : Unhooks(x) => Unhooks(x)'
    BY <2>1, <2>2 DEF Unhooks
  <2>10. MarkInv' /\ Asked' \subseteq Asked /\ h.agent \in stopped
    BY <2>1, <2>2 DEF MarkInv, Asked
  <2>11. HandlerInv'
    BY <2>1, <2>2, <2>4, <2>9, <2>10, HandlerRestored
  <2> QED
    BY <2>6, <2>7, <2>8, <2>10, <2>11
<1>3. CASE MainLocks
  <2> DEFINE h == Top  g == Frame("mark", Top.agent)  R == FramesOf(Tail(main))
  <2>1. /\ main # <<>> /\ Top.does = "stop" /\ Becomes("mark")
        /\ UNCHANGED <<created, stopped, agents, disposition, handler, previous, restores, client, wrapped,
                       signal, takenOver, lateStarts>>
    BY <1>3 DEF MainLocks, MainIs, registry, hooks, targets, histories
  <2>2. /\ FramesOf(main) = {h} \cup R /\ FramesOf(main') = {g} \cup R /\ main' \in Seq(FrameSet)
        /\ h.does = "stop" /\ g.does = "mark" /\ g.agent = h.agent
    BY <2>1, FramesPopped, FramesReplaced, FrameFacts DEF LifeTypes
  <2>3. \A kinds \in {{"attach", "start"}, {"pass"}} : AtMostOne(main, kinds) => AtMostOne(main', kinds)
    BY <2>1, FramesPopped, FramesReplaced DEF LifeTypes
  <2> HIDE DEF h, g, R
  <2>4. LifeTypes'
    BY <2>1, <2>2 DEF LifeTypes
  <2>5. FrameInv'
    BY <2>1, <2>2, <2>3 DEF FrameInv
  <2>6. MarkInv' /\ Asked' \subseteq Asked
    BY <2>1, <2>2 DEF MarkInv, Asked
  <2>7. WrapInv' /\ \A x : Unhooks(x) => Unhooks(x)'
    BY <2>1, <2>2 DEF WrapInv, Unhooks
  <2>8. HandlerInv'
    BY <2>1, <2>2, <2>6, <2>7, HandlersKept
  <2> QED
    BY <2>4, <2>5, <2>6, <2>7, <2>8
<1>4. CASE MainMarks
  <2> DEFINE h == Top  g == Frame("uninject", Top.agent)  R == FramesOf(Tail(main))
  <2>1. /\ main # <<>> /\ Top.does = "mark" /\ stopped' = stopped \cup {Top.agent}
        /\ IF Top.agent \in stopped THEN main' = Tail(main) ELSE Becomes("uninject")
        /\ UNCHANGED <<created, agents, disposition, handler, previous, restores, client, wrapped,
                       signal, takenOver, lateStarts>>
    BY <1>4 DEF MainMarks, MainIs, Returns, hooks, targets, histories
  <2>2. /\ FramesOf(main) = {h} \cup R /\ main' \in Seq(FrameSet) /\ h.does = "mark" /\ h.agent \in Agents
        /\ \/ h.agent \in stopped /\ FramesOf(main') = R
           \/ FramesOf(main') = {g} \cup R
        /\ g.does = "uninject" /\ g.agent = h.agent
    <3>1. /\ FramesOf(main) = {h} \cup R /\ Tail(main) \in Seq(FrameSet) /\ h.agent \in Agents
          /\ g.does = "uninject" /\ g.agent = h.agent
      BY <2>1, FramesPopped, FrameFacts DEF LifeTypes
    <3>2. CASE Becomes("uninject")
      BY <2>1, <3>1, <3>2, FramesReplaced DEF LifeTypes
    <3>3. CASE Top.agent \in stopped /\ main' = Tail(main)
      BY <2>1, <3>1, <3>3
    <3> QED
      BY <2>1, <3>2, <3>3
  <2>3. \A kinds \in {{"attach", "start"}, {"pass"}} : AtMostOne(main, kinds) => AtMostOne(main', kinds)
    <3>1. CASE Becomes("uninject")
      BY <2>1, <3>1, FramesPopped, FramesReplaced DEF LifeTypes
    <3>2. CASE main' = Tail(main)
      <4>1. \A kinds : AtMostOne(main, kinds) => AtMostOne(Tail(main), kinds)
        BY <2>1, FramesPopped DEF LifeTypes
      <4> QED
        BY <3>2, <4>1
    <3> QED
      BY <2>1, <3>1, <3>2
  <2>4. stopped' = stopped \cup {h.agent}
    BY <2>1
  <2> HIDE DEF h, g, R
  <2>5. h.agent \in 1..created
    BY <2>2 DEF FrameInv
  <2>6. LifeTypes'
    BY <2>1, <2>2, <2>4, <2>5 DEF LifeTypes
  <2>7. FrameInv'
    BY <2>1, <2>2, <2>3 DEF FrameInv
  <2>8. MarkInv' /\ Asked' \subseteq Asked
    BY <2>1, <2>2, <2>4 DEF MarkInv, Asked
  <2>9. \A f \in FramesOf(main) : f = h \/ f \in FramesOf(main')
    BY <2>2
  <2>10. h.agent \in stopped \/ \E f \in FramesOf(main') : f.does = "uninject" /\ f.agent = h.agent
    BY <2>2
  <2>11. WrapInv' /\ \A x : Unhooks(x) => Unhooks(x)'
    <3>1. WrapInv'
      BY <2>1, <2>2, <2>4, <2>9, <2>10 DEF WrapInv
    <3>2. \A x : Unhooks(x) => Unhooks(x)'
      BY <2>1, <2>2, <2>9 DEF Unhooks
    <3> QED
      BY <3>1, <3>2
  <2>12. \A x \in stopped' : (x \in stopped => Unhooks(x)) => Unhooks(x)'
    <3>1. \A x : x = h.agent /\ x \notin stopped => Unhooks(x)'
      BY <2>10 DEF Unhooks
    <3> QED
      BY <2>4, <2>11, <3>1
  <2>13. HandlerInv'
    BY <2>1, <2>2, <2>4, <2>8, <2>12, HandlersKept
  <2> QED
    BY <2>6, <2>7, <2>8, <2>11, <2>13
<1> QED
  BY <1>1, <1>2, <1>3, <1>4

\* The other ends of a stop: on a client's thread, and the call that is left pending.
LEMMA ClientStops ==
    ASSUME LifeInv,
           PendingRestore \/ \E a \in Agents : \/ Detach(a) \/ ClientLocks(a) \/ ClientMarks(a)
                                          \/ ClientUninjects(a) \/ ClientUnhooks(a)
    PROVE  LifeInv'
<1> USE DEF LifeInv
<1>1. ASSUME UNCHANGED <<created, main, signal>> PROVE FrameInv'
  BY <1>1 DEF FrameInv
<1>2. CASE PendingRestore
  <2> DEFINE a == Head(restores)
  <2>1. /\ restores # <<>> /\ handler' = Restored(a) /\ restores' = Tail(restores)
        /\ UNCHANGED <<created, stopped, agents, disposition, previous, main, client, wrapped,
                       signal, takenOver, lateStarts>>
    BY <1>2 DEF PendingRestore, registry, targets, histories
  <2>2. /\ a \in Agents /\ restores' \in Seq(Agents)
        /\ \A i \in 1..Len(restores) : restores[i] # a => \E j \in 1..Len(restores') : restores'[j] = restores[i]
    <3>1. /\ a \in Agents /\ Tail(restores) \in Seq(Agents) /\ Len(Tail(restores)) = Len(restores) - 1
          /\ \A i \in 1..Len(Tail(restores)) : Tail(restores)[i] = restores[i + 1]
          /\ a = restores[1] /\ Len(restores) \in Nat
      BY <2>1 DEF LifeTypes
    <3>2. ASSUME NEW i \in 1..Len(restores), restores[i] # a
          PROVE  \E j \in 1..Len(restores') : restores'[j] = restores[i]
      <4>1. i - 1 \in 1..Len(Tail(restores)) /\ (i - 1) + 1 = i
        BY <3>1, <3>2
      <4> QED
        BY <2>1, <3>1, <4>1
    <3> QED
      BY <2>1, <3>1, <3>2
  <2> HIDE DEF a
  <2>3. handler' \in Handlers
    BY <2>1, <2>2 DEF LifeTypes, Restored
  <2>4. LifeTypes' /\ WrapInv'
    BY <2>1, <2>2, <2>3 DEF LifeTypes, WrapInv
  <2>5. \A x \in Agents \ {a} : Unhooks(x) => Unhooks(x)'
    BY <2>1, <2>2 DEF Unhooks
  <2>6. MarkInv' /\ Asked' \subseteq Asked
    BY <2>1 DEF MarkInv, Asked
  <2>7. HandlerInv'
    BY <2>1, <2>2, <2>5, <2>6, HandlerRestored
  <2> QED
    BY <1>1, <2>1, <2>4, <2>6, <2>7
<1>3. ASSUME NEW a \in Agents, Detach(a) \/ ClientLocks(a) PROVE LifeInv'
  <2>1. /\ \/ a \in agents /\ client[a] = "serving" /\ client' = [client EXCEPT ![a] = "stop"]
           \/ client[a] = "stop" /\ client' = [client EXCEPT ![a] = "mark"]
        /\ UNCHANGED <<created, stopped, agents, disposition, handler, previous, restores, main, wrapped,
                       signal, takenOver, lateStarts>>
    BY <1>3 DEF Detach, ClientLocks, registry, hooks, targets, histories
  <2>2. /\ client'[a] \in {"stop", "mark"} /\ client[a] \in {"serving", "stop"}
        /\ \A x \in Agents \ {a} : client'[x] = client[x]
    BY <2>1 DEF LifeTypes
  <2>3. LifeTypes'
    BY <2>1 DEF LifeTypes
  <2>4. WrapInv' /\ \A x \in Agents : Unhooks(x) => Unhooks(x)'
    <3>1. \A x \in wrapped : x \in Agents
      BY AgentAssumption DEF LifeTypes, Agents
    <3>2. \A x \in Agents : client[x] \in {"uninject", "unhook"} => client'[x] = client[x]
      BY <2>2
    <3>3. WrapInv'
      BY <2>1, <3>1, <3>2 DEF WrapInv
    <3>4. \A x \in Agents : Unhooks(x) => Unhooks(x)'
      BY <2>1, <3>2 DEF Unhooks
    <3> QED
      BY <3>3, <3>4
  <2>5. MarkInv' /\ Asked' \subseteq Asked \cup agents
    BY <2>1, <2>2 DEF MarkInv, Asked, LifeTypes
  <2>6. \A x \in stopped' : x \in Agents
    BY <2>3, AgentAssumption DEF LifeTypes, Agents
  <2>7. HandlerInv'
    BY <2>1, <2>4, <2>5, <2>6, HandlersKept
  <2> QED
    BY <1>1, <2>1, <2>3, <2>4, <2>5, <2>7
<1>4. ASSUME NEW a \in Agents, ClientMarks(a) PROVE LifeInv'
  <2>1. /\ client[a] = "mark" /\ stopped' = stopped \cup {a}
        /\ client' = [client EXCEPT ![a] = IF a \in stopped THEN "serving" ELSE "uninject"]
        /\ UNCHANGED <<created, agents, disposition, handler, previous, restores, main, wrapped,
                       signal, takenOver, lateStarts>>
    BY <1>4 DEF ClientMarks, hooks, targets, histories
  <2>2. /\ client'[a] = "uninject" \/ a \in stopped
        /\ client'[a] \in {"serving", "uninject"}
        /\ \A x \in Agents \ {a} : client'[x] = client[x]
    BY <2>1 DEF LifeTypes
  <2>3. LifeTypes'
    BY <2>1 DEF LifeTypes, MarkInv
  <2>4. WrapInv'
    BY <2>1, <2>2 DEF WrapInv, LifeTypes
  <2>5. \A x \in stopped' : (x \in stopped => Unhooks(x)) => Unhooks(x)'
    <3>1. \A x \in stopped' : x \in Agents
      BY <2>3, AgentAssumption DEF LifeTypes, Agents
    <3> QED
      BY <2>1, <2>2, <3>1 DEF Unhooks
  <2>6. MarkInv' /\ Asked' \subseteq Asked
    BY <2>1, <2>2 DEF MarkInv, Asked
  <2>7. HandlerInv'
    BY <2>1, <2>5, <2>6, HandlersKept
  <2> QED
    BY <1>1, <2>1, <2>3, <2>4, <2>6, <2>7
<1>5. ASSUME NEW a \in Agents, ClientUninjects(a) PROVE LifeInv'
  <2>1. /\ client[a] = "uninject" /\ wrapped' = wrapped \ {a} /\ client' = [client EXCEPT ![a] = "unhook"]
        /\ UNCHANGED <<created, stopped, agents, disposition, handler, previous, restores, main,
                       signal, takenOver, lateStarts>>
    BY <1>5 DEF ClientUninjects, Uninjected, registry, hooks, histories
  <2>2. client'[a] = "unhook" /\ \A x \in Agents \ {a} : client'[x] = client[x]
    BY <2>1 DEF LifeTypes
  <2>3. LifeTypes'
    BY <2>1 DEF LifeTypes
  <2>4. WrapInv'
    BY <2>1, <2>2 DEF WrapInv, LifeTypes
  <2>5. \A x \in stopped' : (x \in stopped => Unhooks(x)) => Unhooks(x)'
    <3>1. \A x \in stopped' : x \in Agents
      BY <2>3, AgentAssumption DEF LifeTypes, Agents
    <3> QED
      BY <2>1, <2>2, <3>1 DEF Unhooks
  <2>6. MarkInv' /\ Asked' \subseteq Asked
    BY <2>1, <2>2 DEF MarkInv, Asked
  <2>7. HandlerInv'
    BY <2>1, <2>5, <2>6, HandlersKept
  <2> QED
    BY <1>1, <2>1, <2>3, <2>4, <2>6, <2>7
<1>6. ASSUME NEW a \in Agents, ClientUnhooks(a) PROVE LifeInv'
  <2>1. /\ client[a] = "unhook" /\ restores' = Append(restores, a) /\ agents' = agents \ {a}
        /\ client' = [client EXCEPT ![a] = "serving"]
        /\ UNCHANGED <<created, stopped, disposition, handler, previous, main, wrapped,
                       signal, takenOver, lateStarts>>
    BY <1>6 DEF ClientUnhooks, targets, histories
  <2>2. client'[a] = "serving" /\ \A x \in Agents \ {a} : client'[x] = client[x]
    BY <2>1 DEF LifeTypes
  <2>3. /\ restores' \in Seq(Agents)
        /\ \E j \in 1..Len(restores') : restores'[j] = a
        /\ \A i \in 1..Len(restores) : \E j \in 1..Len(restores') : restores'[j] = restores[i]
    <3>1. /\ restores' \in Seq(Agents) /\ Len(restores') = Len(restores) + 1
          /\ restores'[Len(restores) + 1] = a /\ \A i \in 1..Len(restores) : restores'[i] = restores[i]
          /\ Len(restores) \in Nat
      BY <2>1 DEF LifeTypes
    <3>2. Len(restores) + 1 \in 1..Len(restores') /\ \A i \in 1..Len(restores) : i \in 1..Len(restores')
      BY <3>1
    <3> QED
      BY <3>1, <3>2
  <2>4. LifeTypes'
    BY <2>1, <2>3 DEF LifeTypes
  <2>5. WrapInv'
    BY <2>1, <2>2 DEF WrapInv, LifeTypes
  <2>6. \A x \in stopped' : (x \in stopped => Unhooks(x)) => Unhooks(x)'
    <3>1. \A x \in stopped' : x \in Agents
      BY <2>4, AgentAssumption DEF LifeTypes, Agents
    <3> QED
      BY <2>1, <2>2, <2>3, <3>1 DEF Unhooks
  <2>7. MarkInv' /\ Asked' \subseteq Asked /\ a \in stopped
    BY <2>1, <2>2 DEF MarkInv, Asked
  <2>8. HandlerInv'
    BY <2>1, <2>6, <2>7, HandlersKept
  <2> QED
    BY <1>1, <2>1, <2>4, <2>5, <2>7, <2>8
<1> QED
  BY <1>2, <1>3, <1>4, <1>5, <1>6

\* What leaves handlers, stops and the frames alone.
LEMMA OthersKeep ==
    ASSUME LifeInv, SendSignal \/ DeliverSignal \/ (\E a \in Agents : StartWatch(a)) \/ UNCHANGED agentVars
    PROVE  LifeInv'
<1> USE DEF LifeInv
<1>1. /\ UNCHANGED <<created, stopped, agents, disposition, handler, previous, restores, main, client,
                     takenOver>>
  BY DEF SendSignal, DeliverSignal, StartWatch, agentVars, registry, hooks, targets, histories
<1>2. \/ UNCHANGED <<signal, wrapped, lateStarts>>
      \/ signal \in {"unsent", "pending"} /\ UNCHANGED <<wrapped, lateStarts>>
      \/ \E a \in 1..created : /\ wrapped' = wrapped \cup {a} /\ UNCHANGED signal
                              /\ lateStarts' = IF a \in stopped THEN lateStarts \cup {a} ELSE lateStarts
  BY DEF SendSignal, DeliverSignal, StartWatch, agentVars, registry, hooks, targets, histories
<1>3. LifeTypes'
  BY <1>1, <1>2 DEF LifeTypes
<1>4. FrameInv'
  BY <1>1, <1>2 DEF FrameInv
<1>5. WrapInv'
  BY <1>1, <1>2 DEF WrapInv
<1>6. HandlerInv'
  BY <1>1, HandlersKept DEF Unhooks, Asked
<1>7. MarkInv'
  BY <1>1 DEF MarkInv
<1> QED
  BY <1>3, <1>4, <1>5, <1>6, <1>7


\* Calling stop, on the main thread.
LEMMA StopFrames ==
    ASSUME NEW m \in Seq(FrameSet), NEW a \in Agents
    PROVE  /\ StopFrame(a) \o m \in Seq(FrameSet)
           /\ FramesOf(m) \subseteq FramesOf(StopFrame(a) \o m)
           /\ \A f \in FramesOf(StopFrame(a) \o m) : f \in FramesOf(m) \/ (f.does = "stop" /\ f.agent = a)
           /\ a \in stopped \/ \E f \in FramesOf(StopFrame(a) \o m) : f.does = "stop" /\ f.agent = a
           /\ \A kinds : "stop" \notin kinds =>
                 (AtMostOne(m, kinds) => AtMostOne(StopFrame(a) \o m, kinds))
<1>1. CASE a \in stopped
  <2>1. StopFrame(a) \o m = m
    BY <1>1, FrameFacts DEF StopFrame
  <2> DEFINE s == StopFrame(a) \o m
  <2>2. s = m
    BY <2>1
  <2> HIDE DEF s
  <2>3. /\ s \in Seq(FrameSet) /\ FramesOf(m) \subseteq FramesOf(s)
        /\ \A f \in FramesOf(s) : f \in FramesOf(m)
        /\ \A kinds : AtMostOne(m, kinds) => AtMostOne(s, kinds)
    BY <2>2, Zenon
  <2> QED
    BY <1>1, <2>3 DEF s
<1>2. CASE a \notin stopped
  <2> DEFINE f == Frame("stop", a)
  <2>1. StopFrame(a) \o m = <<f>> \o m /\ f \in FrameSet /\ f.does = "stop" /\ f.agent = a
    BY <1>2, FrameFacts DEF StopFrame
  <2> HIDE DEF f
  <2>2. /\ <<f>> \o m \in Seq(FrameSet) /\ FramesOf(<<f>> \o m) = {f} \cup FramesOf(m)
        /\ \A kinds : AtMostOne(<<f>> \o m, kinds) <=>
              /\ AtMostOne(m, kinds)
              /\ f.does \in kinds => \A g \in FramesOf(m) : g.does \notin kinds
    BY <2>1, Pushed
  <2> DEFINE s == StopFrame(a) \o m  t == <<f>> \o m
  <2>3. /\ s = t /\ t \in Seq(FrameSet) /\ FramesOf(t) = {f} \cup FramesOf(m)
        /\ \A kinds : AtMostOne(t, kinds) <=>
              /\ AtMostOne(m, kinds)
              /\ f.does \in kinds => \A g \in FramesOf(m) : g.does \notin kinds
    BY <2>1, <2>2
  <2> HIDE DEF s, t
  <2>4. /\ s \in Seq(FrameSet) /\ FramesOf(s) = {f} \cup FramesOf(m)
        /\ \A kinds : "stop" \notin kinds => (AtMostOne(m, kinds) => AtMostOne(s, kinds))
    BY <2>1, <2>3, Zenon
  <2> QED
    BY <2>1, <2>4 DEF s
<1> QED
  BY <1>1, <1>2

\* A signal comes to a, whose handler stops it and is then to pass the signal on.
LEMMA HandlerFrames ==
    ASSUME NEW m \in Seq(FrameSet), NEW a \in Agents,
           \A g \in FramesOf(m) : g.does # "pass",
           main' = StopFrame(a) \o <<Frame("pass", a)>> \o m
    PROVE  /\ main' \in Seq(FrameSet) /\ FramesOf(m) \subseteq FramesOf(main')
           /\ \A f \in FramesOf(main') : \/ f \in FramesOf(m)
                                         \/ f.does \in {"stop", "pass"} /\ f.agent = a
           /\ a \in stopped \/ \E f \in FramesOf(main') : f.does = "stop" /\ f.agent = a
           /\ AtMostOne(main', {"pass"})
           /\ AtMostOne(m, {"attach", "start"}) => AtMostOne(main', {"attach", "start"})
<1> DEFINE p == Frame("pass", a)  n == <<p>> \o m
<1>1. p \in FrameSet /\ p.does = "pass" /\ p.agent = a
  BY FrameFacts
<1> HIDE DEF p
<1>2. /\ n \in Seq(FrameSet) /\ FramesOf(n) = {p} \cup FramesOf(m)
      /\ \A kinds : AtMostOne(n, kinds) <=>
            /\ AtMostOne(m, kinds)
            /\ p.does \in kinds => \A g \in FramesOf(m) : g.does \notin kinds
  BY <1>1, Pushed
<1>3. main' = StopFrame(a) \o n
  <2>1. StopFrame(a) \in Seq(FrameSet) /\ <<p>> \in Seq(FrameSet)
    BY <1>1, FrameFacts DEF StopFrame
  <2>2. (StopFrame(a) \o <<p>>) \o m = StopFrame(a) \o (<<p>> \o m)
    BY <2>1, ConcatAssociative
  <2> QED
    BY <2>2 DEF p
<1> HIDE DEF n
<1>4. AtMostOne(m, {"attach", "start"}) => AtMostOne(n, {"attach", "start"})
  BY <1>1, <1>2
<1>5. AtMostOne(n, {"pass"})
  <2>1. AtMostOne(m, {"pass"})
    BY DEF AtMostOne, FramesOf
  <2> QED
    BY <1>1, <1>2, <2>1
<1> DEFINE s == StopFrame(a) \o n
<1>6. /\ s \in Seq(FrameSet) /\ FramesOf(n) \subseteq FramesOf(s)
      /\ \A f \in FramesOf(s) : f \in FramesOf(n) \/ (f.does = "stop" /\ f.agent = a)
      /\ a \in stopped \/ \E f \in FramesOf(s) : f.does = "stop" /\ f.agent = a
      /\ \A kinds : "stop" \notin kinds => (AtMostOne(n, kinds) => AtMostOne(s, kinds))
  BY <1>2, StopFrames
<1>7. main' = s
  BY <1>3
<1> HIDE DEF s
<1>8. /\ AtMostOne(s, {"pass"})
      /\ AtMostOne(m, {"attach", "start"}) => AtMostOne(s, {"attach", "start"})
  BY <1>4, <1>5, <1>6
<1> QED
  BY <1>1, <1>2, <1>6, <1>7, <1>8

\* The steps of an attach.
LEMMA Attaches ==
    ASSUME LifeInv, Inject \/ (\E a \in Agents : StopPrevious(a)) \/ Construct \/ StartAgent
    PROVE  LifeInv'
<1> USE DEF LifeInv
<1>1. CASE Inject
  <2>1. /\ created < MaxAgents /\ main' = <<Frame("attach", created + 1)>> \o main
        /\ \A i \in DOMAIN main : main[i].does \notin {"attach", "start"}
        /\ UNCHANGED <<created, stopped, agents, disposition, handler, previous, restores, client, wrapped,
                       signal, takenOver, lateStarts>>
    BY <1>1 DEF Inject, registry, hooks, targets, histories
  <2>2. created + 1 \in Agents
    BY <2>1, AgentAssumption DEF LifeTypes, Agents
  <2> DEFINE f == Frame("attach", created + 1)
  <2>3. f \in FrameSet /\ f.does = "attach" /\ f.agent = created + 1 /\ main' = <<f>> \o main
    BY <2>1, <2>2, FrameFacts
  <2> HIDE DEF f
  <2>4. \A g \in FramesOf(main) : g.does \notin {"attach", "start"}
    BY <2>1 DEF FramesOf, LifeTypes
  <2>5. /\ main' \in Seq(FrameSet) /\ FramesOf(main') = {f} \cup FramesOf(main)
        /\ \A kinds : AtMostOne(<<f>> \o main, kinds) <=>
              /\ AtMostOne(main, kinds)
              /\ f.does \in kinds => \A g \in FramesOf(main) : g.does \notin kinds
    BY <2>3, Pushed DEF LifeTypes
  <2>6. AtMostOne(<<f>> \o main, {"attach", "start"}) /\ AtMostOne(<<f>> \o main, {"pass"})
    BY <2>3, <2>4, <2>5 DEF FrameInv
  <2>7. AtMostOne(main', {"attach", "start"}) /\ AtMostOne(main', {"pass"})
    BY <2>3, <2>6, Zenon
  <2>8. LifeTypes'
    BY <2>1, <2>5 DEF LifeTypes
  <2>9. FrameInv'
    BY <2>1, <2>3, <2>5, <2>7 DEF FrameInv
  <2>10. WrapInv' /\ \A x : Unhooks(x) => Unhooks(x)'
    BY <2>1, <2>5 DEF WrapInv, Unhooks
  <2>11. MarkInv' /\ Asked' \subseteq Asked
    BY <2>1, <2>3, <2>5 DEF MarkInv, Asked
  <2>12. HandlerInv'
    BY <2>1, <2>3, <2>5, <2>10, <2>11, HandlersKept
  <2> QED
    BY <2>8, <2>9, <2>10, <2>11, <2>12
<1>2. ASSUME NEW a \in Agents, StopPrevious(a) PROVE LifeInv'
  <2>1. /\ a \in agents /\ main' = StopFrame(a) \o main
        /\ UNCHANGED <<created, stopped, agents, disposition, handler, previous, restores, client, wrapped,
                       signal, takenOver, lateStarts>>
    BY <1>2 DEF StopPrevious, registry, hooks, targets, histories
  <2>2. /\ main' \in Seq(FrameSet) /\ FramesOf(main) \subseteq FramesOf(main')
        /\ \A f \in FramesOf(main') : f \in FramesOf(main) \/ (f.does = "stop" /\ f.agent = a)
    BY <2>1, StopFrames DEF LifeTypes
  <2>3. \A kinds \in {{"attach", "start"}, {"pass"}} : AtMostOne(main, kinds) => AtMostOne(main', kinds)
    BY <2>1, StopFrames DEF LifeTypes
  <2>4. LifeTypes'
    BY <2>1, <2>2 DEF LifeTypes
  <2>5. FrameInv'
    BY <2>1, <2>2, <2>3 DEF FrameInv, LifeTypes
  <2>6. MarkInv' /\ Asked' \subseteq Asked \cup agents
    BY <2>1, <2>2 DEF MarkInv, Asked
  <2>7. WrapInv' /\ \A x : Unhooks(x) => Unhooks(x)'
    BY <2>1, <2>2 DEF WrapInv, Unhooks
  <2>8. HandlerInv'
    BY <2>1, <2>2, <2>6, <2>7, HandlersKept
  <2> QED
    BY <2>4, <2>5, <2>6, <2>7, <2>8
<1>3. CASE Construct
  <2> DEFINE h == Top  g == Frame("start", Top.agent)  R == FramesOf(Tail(main))
  <2>1. /\ main # <<>> /\ Top.does = "attach" /\ agents \subseteq stopped /\ Becomes("start") /\ created' = Top.agent /\ agents' = {}
        /\ previous' = [previous EXCEPT ![Top.agent] = handler] /\ handler' = Handler(Top.agent)
        /\ UNCHANGED <<stopped, disposition, restores, client, wrapped, signal, lateStarts>>
    BY <1>3 DEF Construct, MainIs, targets
  <2>2. takenOver' = (takenOver \/ (IsAgent(handler) /\ handler[2] \in stopped))
    BY <1>3 DEF Construct
  <2>3. /\ h \in FrameSet /\ h.agent \in Agents /\ FramesOf(main) = {h} \cup R
        /\ main' \in Seq(FrameSet) /\ FramesOf(main') = {g} \cup R
        /\ g.does = "start" /\ g.agent = h.agent /\ h.does = "attach"
    BY <2>1, FramesPopped, FramesReplaced, FrameFacts DEF LifeTypes
  <2>4. AtMostOne(main', {"attach", "start"}) /\ AtMostOne(main', {"pass"})
        /\ \A f \in R : f.does \notin {"attach", "start"}
    <3>1. /\ AtMostOne(Tail(main), {"attach", "start"}) /\ AtMostOne(Tail(main), {"pass"})
          /\ \A f \in FramesOf(Tail(main)) : f.does \notin {"attach", "start"}
      BY <2>1, FramesPopped DEF LifeTypes, FrameInv
    <3> QED
      BY <2>1, <3>1, FramesReplaced DEF LifeTypes
  <2>5. h.agent = created + 1
    BY <2>3 DEF FrameInv
  <2>6. /\ created' = h.agent /\ previous' = [previous EXCEPT ![h.agent] = handler]
        /\ handler' = Handler(h.agent)
    BY <2>1
  <2> HIDE DEF h, g, R
  <2>7. LifeTypes'
    <3>1. handler' \in Handlers /\ previous' \in [Agents -> Handlers]
      BY <2>3, <2>6, HandlerFacts DEF LifeTypes
    <3>2. created' \in 0..MaxAgents /\ 1..created \subseteq 1..created'
      BY <2>3, <2>5, <2>6, AgentAssumption DEF LifeTypes, Agents
    <3> QED
      BY <2>1, <2>3, <3>1, <3>2 DEF LifeTypes
  <2>8. FrameInv'
    <3>1. h.agent \in 1..created' /\ 1..created \subseteq 1..created'
      BY <2>5, <2>6 DEF LifeTypes
    <3> QED
      BY <2>1, <2>3, <2>4, <2>6, <3>1 DEF FrameInv
  <2>9. WrapInv'
    BY <2>1, <2>3 DEF WrapInv
  <2>10. MarkInv' /\ Asked' \subseteq Asked
    <3>1. 1..created \subseteq 1..created'
      BY <2>5, <2>6 DEF LifeTypes
    <3> QED
      BY <2>1, <2>3, <3>1 DEF MarkInv, Asked
  <2>11. HandlerInv'
    BY <2>1, <2>2, <2>3, <2>5, <2>6, <2>10, HandlerTaken
  <2> QED
    BY <2>7, <2>8, <2>9, <2>10, <2>11
<1>4. CASE StartAgent
  <2> DEFINE h == Top  R == FramesOf(Tail(main))
  <2>1. /\ main # <<>> /\ Top.does = "start" /\ main' = Tail(main)
        /\ agents' \in {agents, agents \cup {Top.agent}}
        /\ UNCHANGED <<created, stopped, disposition, handler, previous, restores, client, wrapped,
                       signal, takenOver, lateStarts>>
    BY <1>4 DEF StartAgent, MainIs, Returns, hooks, targets, histories
  <2>2. /\ h \in FrameSet /\ FramesOf(main) = {h} \cup R /\ FramesOf(main') = R
        /\ main' \in Seq(FrameSet) /\ h.does = "start" /\ agents' \in {agents, agents \cup {h.agent}}
    BY <2>1, FramesPopped DEF LifeTypes
  <2>3. \A kinds : AtMostOne(main, kinds) => AtMostOne(main', kinds)
    BY <2>1, FramesPopped DEF LifeTypes
  <2> HIDE DEF h, R
  <2>4. h.agent = created /\ h.agent \in 1..created
    BY <2>2 DEF FrameInv
  <2>5. LifeTypes'
    BY <2>1, <2>2, <2>4 DEF LifeTypes
  <2>6. FrameInv'
    BY <2>1, <2>2, <2>3 DEF FrameInv
  <2>7. WrapInv' /\ \A x : Unhooks(x) => Unhooks(x)'
    BY <2>1, <2>2 DEF WrapInv, Unhooks
  <2>8. MarkInv' /\ Asked' \subseteq Asked
    BY <2>1, <2>2 DEF MarkInv, Asked
  <2>9. HandlerInv'
    BY <2>1, <2>2, <2>4, <2>7, <2>8, HandlersKept
  <2> QED
    BY <2>5, <2>6, <2>7, <2>8, <2>9
<1> QED
  BY <1>1, <1>2, <1>3, <1>4


\* The steps of an agent's handler, and of the handler that it passes the signal to.
LEMMA SignalHandled ==
    ASSUME LifeInv, EnterHandler \/ PassToAgent \/ PassToApplication
    PROVE  LifeInv'
<1> USE DEF LifeInv
<1>1. ASSUME NEW a \in Agents, NEW m \in Seq(FrameSet),
             FramesOf(m) \subseteq FramesOf(main), \A g \in FramesOf(m) : g.does # "pass",
             \A f \in FramesOf(main) : f.does # "pass" => f \in FramesOf(m),
             AtMostOne(m, {"attach", "start"}),
             \/ handler = Handler(a)
             \/ \E f \in FramesOf(main) : f.does = "pass" /\ previous[f.agent] = Handler(a),
             HandlerCalled(a), main' = StopFrame(a) \o <<Frame("pass", a)>> \o m
      PROVE  LifeInv'
  <2>1. /\ handler' = previous[a] /\ signal' = "handling"
        /\ UNCHANGED <<created, stopped, agents, disposition, previous, restores, client, wrapped, takenOver, lateStarts>>
    BY <1>1 DEF HandlerCalled, registry, targets, histories
  <2>2. /\ main' \in Seq(FrameSet) /\ FramesOf(m) \subseteq FramesOf(main')
        /\ \A f \in FramesOf(main') : \/ f \in FramesOf(m)
                                      \/ f.does \in {"stop", "pass"} /\ f.agent = a
        /\ AtMostOne(main', {"pass"}) /\ AtMostOne(main', {"attach", "start"})
    <3>1. \A g \in FramesOf(m) : g.does # "pass"
      BY <1>1
    <3>2. main' = StopFrame(a) \o <<Frame("pass", a)>> \o m /\ AtMostOne(m, {"attach", "start"})
      BY <1>1
    <3> QED
      BY <3>1, <3>2, HandlerFrames, SMTT(30)
  <2>3. \A f \in FramesOf(main') : /\ f.does = "pass" => f.agent = a
                                   /\ f.does = "start" => f \in FramesOf(main)
    BY <1>1, <2>2
  <2>4. MarkInv' /\ Asked' \subseteq Asked \cup {a}
    BY <1>1, <2>1, <2>2 DEF MarkInv, Asked
  <2>5. HandlerInv' /\ a \in 1..created
    BY <1>1, <2>1, <2>3, <2>4, HandlerRun
  <2>6. LifeTypes'
    BY <2>1, <2>2, <2>5 DEF LifeTypes
  <2>7. FrameInv'
    BY <1>1, <2>1, <2>2, <2>5 DEF FrameInv
  <2>8. WrapInv'
    BY <1>1, <2>1, <2>2 DEF WrapInv
  <2> QED
    BY <2>4, <2>5, <2>6, <2>7, <2>8
<1>2. CASE EnterHandler
  <2> DEFINE a == handler[2]
  <2>1. /\ signal = "pending" /\ IsAgent(handler) /\ HandlerCalled(a)
        /\ main' = StopFrame(a) \o <<Frame("pass", a)>> \o main
    BY <1>2 DEF EnterHandler
  <2>2. a \in Agents /\ handler = Handler(a)
    BY <2>1, HandlerFacts DEF LifeTypes
  <2> HIDE DEF a
  <2>3. \A g \in FramesOf(main) : g.does # "pass"
    BY <2>1 DEF FrameInv
  <2>4. main \in Seq(FrameSet) /\ AtMostOne(main, {"attach", "start"})
    BY DEF LifeTypes, FrameInv
  <2> QED
    BY <1>1, <2>1, <2>2, <2>3, <2>4
<1>3. ASSUME MainIs("pass")
      PROVE  /\ main # <<>> /\ Top \in FrameSet /\ Top.does = "pass" /\ Top.agent \in Agents
             /\ Tail(main) \in Seq(FrameSet) /\ FramesOf(main) = {Top} \cup FramesOf(Tail(main))
             /\ AtMostOne(Tail(main), {"attach", "start"}) /\ AtMostOne(Tail(main), {"pass"})
             /\ \A g \in FramesOf(Tail(main)) : g.does # "pass"
  BY <1>3, FramesPopped DEF MainIs, LifeTypes, FrameInv
<1>4. CASE PassToAgent
  <2> DEFINE h == Top  a == previous[Top.agent][2]  m == Tail(main)
  <2>1. /\ MainIs("pass") /\ IsAgent(previous[h.agent]) /\ HandlerCalled(a)
        /\ main' = StopFrame(a) \o <<Frame("pass", a)>> \o m
    BY <1>4 DEF PassToAgent
  <2>2. /\ h.does = "pass" /\ h.agent \in Agents /\ m \in Seq(FrameSet)
        /\ FramesOf(main) = {h} \cup FramesOf(m) /\ AtMostOne(m, {"attach", "start"})
        /\ \A g \in FramesOf(m) : g.does # "pass"
    BY <1>3, <2>1
  <2>3. a \in Agents /\ previous[h.agent] = Handler(a)
    BY <2>1, <2>2, HandlerFacts DEF LifeTypes
  <2> HIDE DEF h, a, m
  <2> QED
    BY <1>1, <2>1, <2>2, <2>3
<1>5. CASE PassToApplication
  <2> DEFINE h == Top  R == FramesOf(Tail(main))
  <2>1. /\ MainIs("pass") /\ main' = Tail(main)
        /\ UNCHANGED <<created, stopped, agents, disposition, handler, previous, restores, client, wrapped,
                       takenOver, lateStarts>>
    BY <1>5 DEF PassToApplication, Returns, registry, hooks, targets, histories
  <2>2. /\ h.does = "pass" /\ main' \in Seq(FrameSet) /\ FramesOf(main) = {h} \cup R /\ FramesOf(main') = R
        /\ AtMostOne(main', {"attach", "start"}) /\ AtMostOne(main', {"pass"})
        /\ \A g \in R : g.does # "pass"
    BY <1>3, <2>1
  <2> HIDE DEF h, R
  <2>3. LifeTypes'
    BY <2>1, <2>2 DEF LifeTypes
  <2>4. FrameInv'
    BY <2>1, <2>2 DEF FrameInv
  <2>5. WrapInv' /\ \A x : Unhooks(x) => Unhooks(x)'
    BY <2>1, <2>2 DEF WrapInv, Unhooks
  <2>6. MarkInv' /\ Asked' \subseteq Asked
    BY <2>1, <2>2 DEF MarkInv, Asked
  <2>7. HandlerInv'
    BY <2>1, <2>2, <2>5, <2>6, HandlersKept
  <2> QED
    BY <2>3, <2>4, <2>5, <2>6, <2>7
<1> QED
  BY <1>2, <1>4, <1>5

\* What the application does between the calls.
LEMMA ApplicationRuns ==
    ASSUME LifeInv, SetHandler \/ LeaveSection \/ \E a \in Agents : EnterSection(a)
    PROVE  LifeInv'
<1> USE DEF LifeInv
<1>1. CASE SetHandler
  <2>1. /\ main = <<>> /\ main' = main /\ disposition' = <<"called", 2>> /\ handler' = disposition'
        /\ UNCHANGED <<created, stopped, agents, previous, restores, client, wrapped, signal,
                       takenOver, lateStarts>>
    BY <1>1 DEF SetHandler, registry, targets, histories
  <2>2. disposition' \in Apps /\ handler' \in Handlers /\ FramesOf(main') = {}
    BY <2>1, FrameFacts, HandlerFacts DEF Apps
  <2>3. LifeTypes'
    BY <2>1, <2>2 DEF LifeTypes
  <2>4. FrameInv' /\ MarkInv' /\ WrapInv' /\ Asked' \subseteq Asked
    BY <2>1 DEF FrameInv, MarkInv, WrapInv, Asked
  <2>5. HandlerInv'
    BY <2>1, <2>2, <2>4, HandlerOwned
  <2> QED
    BY <2>3, <2>4, <2>5
<1>2. CASE LeaveSection
  <2> DEFINE h == Top  R == FramesOf(Tail(main))
  <2>1. /\ main # <<>> /\ Top.does = "section" /\ main' = Tail(main)
        /\ UNCHANGED <<created, stopped, agents, disposition, handler, previous, restores, client, wrapped,
                       signal, takenOver, lateStarts>>
    BY <1>2 DEF LeaveSection, MainIs, Returns, registry, hooks, histories
  <2>2. /\ h.does = "section" /\ FramesOf(main) = {h} \cup R /\ FramesOf(main') = R
        /\ main' \in Seq(FrameSet)
    BY <2>1, FramesPopped DEF LifeTypes
  <2>3. \A kinds : AtMostOne(main, kinds) => AtMostOne(main', kinds)
    BY <2>1, FramesPopped DEF LifeTypes
  <2> HIDE DEF h, R
  <2>4. LifeTypes'
    BY <2>1, <2>2 DEF LifeTypes
  <2>5. FrameInv'
    BY <2>1, <2>2, <2>3 DEF FrameInv
  <2>6. WrapInv' /\ \A x : Unhooks(x) => Unhooks(x)'
    BY <2>1, <2>2 DEF WrapInv, Unhooks
  <2>7. MarkInv' /\ Asked' \subseteq Asked
    BY <2>1, <2>2 DEF MarkInv, Asked
  <2>8. HandlerInv'
    BY <2>1, <2>2, <2>6, <2>7, HandlersKept
  <2> QED
    BY <2>4, <2>5, <2>6, <2>7, <2>8
<1>3. ASSUME NEW a \in Agents, EnterSection(a) PROVE LifeInv'
  <2> DEFINE f == Frame("section", a)
  <2>1. /\ main = <<>> /\ main' = <<f>> /\ a \in wrapped
        /\ UNCHANGED <<created, stopped, agents, disposition, handler, previous, restores, client, wrapped,
                       signal, takenOver, lateStarts>>
    BY <1>3 DEF EnterSection, registry, hooks, histories
  <2>2. f \in FrameSet /\ f.does = "section" /\ f.agent = a /\ a \in 1..created
    BY <2>1, FrameFacts DEF LifeTypes
  <2> HIDE DEF f
  <2>3. main' \in Seq(FrameSet) /\ FramesOf(main') = {f} /\ \A kinds : AtMostOne(main', kinds)
    <3>1. Len(<<f>>) = 1 /\ <<f>>[1] = f /\ <<f>> \in Seq(FrameSet)
      BY <2>2
    <3>2. \A i \in 1..1 : i = 1
      OBVIOUS
    <3> QED
      BY <2>1, <3>1, <3>2 DEF FramesOf, AtMostOne
  <2>4. LifeTypes'
    BY <2>1, <2>3 DEF LifeTypes
  <2>5. FrameInv'
    BY <2>1, <2>2, <2>3 DEF FrameInv
  <2>6. FramesOf(main) = {}
    BY <2>1, FrameFacts
  <2>7. WrapInv' /\ \A x : Unhooks(x) => Unhooks(x)'
    BY <2>1, <2>6 DEF WrapInv, Unhooks
  <2>8. MarkInv' /\ Asked' \subseteq Asked
    BY <2>1, <2>2, <2>3 DEF MarkInv, Asked
  <2>9. HandlerInv'
    BY <2>1, <2>2, <2>3, <2>7, <2>8, HandlersKept
  <2> QED
    BY <2>4, <2>5, <2>7, <2>8, <2>9
<1> QED
  BY <1>1, <1>2, <1>3

\* When every agent has stopped and nothing is left to do, no agent's handler is there:
\* its stop would have given it back, and one before it would be of an agent not stopped.
LEMMA LifeSound == LifeInv => StopUndoes
<1> SUFFICES ASSUME LifeInv, Quiet
             PROVE  /\ (1..created \subseteq stopped /\ ~takenOver) => handler = disposition
                    /\ wrapped \cap stopped \subseteq lateStarts
  BY DEF StopUndoes
<1>1. main = <<>> /\ restores = <<>> /\ \A a \in Agents : client[a] = "serving"
  BY DEF Quiet
<1>2. FramesOf(main) = {}
  BY <1>1, FrameFacts
<1>3. ASSUME NEW a \in wrapped \cap stopped PROVE a \in lateStarts
  <2>1. a \in Agents
    BY AgentAssumption DEF LifeInv, LifeTypes, Agents
  <2> QED
    BY <1>1, <1>2, <2>1 DEF LifeInv, WrapInv
<1>4. \A x \in Agents : ~Unhooks(x)
  BY <1>1, <1>2 DEF Unhooks
<1>5. ASSUME 1..created \subseteq stopped, ~takenOver PROVE handler = disposition
  <2>1. PICK e \in 0..created : Since(e)
    BY DEF LifeInv, HandlerInv
  <2>2. PICK B \in SUBSET Agents : Buried(B)
    BY <1>5 DEF LifeInv, HandlerInv
  <2>3. ASSUME NEW b \in e + 1..created, handler = Handler(b) PROVE FALSE
    <3>1. b \in Agents
      BY <2>3, SinceFacts DEF LifeInv
    <3> QED
      BY <1>4, <1>5, <2>2, <2>3, <3>1 DEF Buried
  <2> QED
    BY <2>1, <2>3 DEF Since
<1> QED
  BY <1>3, <1>5

LEMMA LifeStep == LifeInv /\ [AgentNext]_agentVars => LifeInv'
<1> SUFFICES ASSUME LifeInv, [AgentNext]_agentVars PROVE LifeInv'
  OBVIOUS
<1>1. \/ MainLocks \/ MainMarks \/ MainUninjects \/ MainUnhooks
      \/ PendingRestore \/ (\E a \in Agents : \/ Detach(a) \/ ClientLocks(a) \/ ClientMarks(a)
                                               \/ ClientUninjects(a) \/ ClientUnhooks(a))
      \/ SendSignal \/ DeliverSignal \/ (\E a \in Agents : StartWatch(a)) \/ UNCHANGED agentVars
      \/ Inject \/ (\E a \in Agents : StopPrevious(a)) \/ Construct \/ StartAgent
      \/ EnterHandler \/ PassToAgent \/ PassToApplication
      \/ SetHandler \/ LeaveSection \/ (\E a \in Agents : EnterSection(a))
  BY Zenon DEF AgentNext, MainGoesOn
<1> QED
  BY <1>1, MainStops, ClientStops, OthersKeep, Attaches, SignalHandled, ApplicationRuns

\* A stop gives back what its agent took: the signal's handler, however agents were put
\* over one another and wherever the signal came (_restore_signal_handler_if_current), and
\* what the agent had wrapped.
THEOREM StopsUndo == AgentSpec => []StopUndoes
<1>1. AgentSpec => []LifeInv
  BY LifeInit, LifeStep, PTL DEF AgentSpec
<1> QED
  BY <1>1, LifeSound, PTL
=============================================================================
