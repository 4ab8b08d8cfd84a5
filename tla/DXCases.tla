------------------------------ MODULE DXCases ------------------------------
(***************************************************************************)
(* Diagnostic cases (peeka/core/dx_cases.py, agent_control/dx.py).  The      *)
(* registry holds its lock for one operation at a time, while an export is   *)
(* several of them with a file written in between, and it works on the case  *)
(* itself, not on a copy.  Connections send the commands.                    *)
(*                                                                         *)
(* Sections are counted: their payloads and the redaction of them, snapshots *)
(* and summaries, which nothing is decided from, are left out.               *)
(***************************************************************************)
EXTENDS Naturals, FiniteSets

CONSTANTS CaseIds, Paths,     \* the export paths that requests name or default to
          Connections,
          MaxSections         \* bound: sections of a case

ASSUME CaseAssumption == MaxSections \in Nat

NoCase == [case |-> "none", at |-> "idle", path |-> "none", read |-> 0, missing |-> FALSE]

VARIABLES status,   \* of each case; "none" before it is created
          sections, \* how many sections it has
          exports,  \* export_paths
          files,    \* what each path holds: the case that wrote it, and how much
          export    \* where the export of each connection is

caseVars == <<status, sections, exports, files, export>>

CaseInit ==
    /\ status = [c \in CaseIds |-> "none"]
    /\ sections = [c \in CaseIds |-> 0]
    /\ exports = [c \in CaseIds |-> {}] /\ files = {}
    /\ export = [k \in Connections |-> NoCase]

Exists(c) == status[c] # "none"

CreateCase(c) ==
    /\ status[c] = "none" /\ status' = [status EXCEPT ![c] = "open"]
    /\ UNCHANGED <<sections, exports, files, export>>

\* add_section: the case is as it may be changed, and the new section comes last.
Accepting(c) == status[c] \in {"open", "exported"}

Added(c) == sections' = [sections EXCEPT ![c] = @ + 1]

AddSection(c) ==
    /\ Accepting(c) /\ sections[c] < MaxSections
    /\ Added(c)
    /\ UNCHANGED <<status, exports, files, export>>

CloseCase(c) ==
    /\ Exists(c) /\ status' = [status EXCEPT ![c] = "closed"]
    /\ UNCHANGED <<sections, exports, files, export>>

-----------------------------------------------------------------------------
(* dx.export *)

At(k, where) == [export[k] EXCEPT !.at = where]

\* What the case refers to is looked up: some of it may be gone (tried while the
\* bound leaves room for the sections that say so).
ExportBegins(k, c, path) ==
    /\ export[k].at = "idle" /\ Exists(c)
    /\ \E missing \in {FALSE, sections[c] < MaxSections} : export' = [export EXCEPT ![k] =
          [case |-> c, at |-> "found", path |-> path, read |-> 0, missing |-> missing]]
    /\ UNCHANGED <<status, sections, exports, files>>

\* For what is missing an error section is added, if the case takes one.
ExportNotesMissing(k) ==
    /\ export[k].at = "found" /\ export[k].missing
    /\ export' = [export EXCEPT ![k] = [@ EXCEPT !.missing = FALSE]]
    /\ IF Accepting(export[k].case) THEN Added(export[k].case)
       ELSE UNCHANGED sections
    /\ UNCHANGED <<status, exports, files>>

\* build_export_document reads the sections, without the lock.
ExportBuilds(k) ==
    /\ export[k].at = "found" /\ ~export[k].missing
    /\ export' = [export EXCEPT ![k] =
          [@ EXCEPT !.at = "built", !.read = sections[export[k].case]]]
    /\ UNCHANGED <<status, sections, exports, files>>

Written(k) == [path |-> export[k].path, case |-> export[k].case, read |-> export[k].read]

\* Mutated form: a file that exists is written over.
Overwritable(path) == TRUE

\* write_export_json creates the file exclusively.
Creatable(path) == \A f \in files : f.path # path

ExportWrites(k) ==
    /\ export[k].at = "built" /\ Creatable(export[k].path)
    /\ files' = {f \in files : f.path # export[k].path} \cup {Written(k)}
    /\ export' = [export EXCEPT ![k] = At(k, "written")]
    /\ UNCHANGED <<status, sections, exports>>

\* The path is taken, or the write fails: the command ends with an error.
ExportFails(k) ==
    /\ export[k].at = "built" /\ export' = [export EXCEPT ![k] = NoCase]
    /\ UNCHANGED <<status, sections, exports, files>>

\* record_export looks at nothing but that the case exists.
ExportRecords(k) ==
    /\ export[k].at = "written"
    /\ exports' = [exports EXCEPT ![export[k].case] = @ \cup {export[k].path}]
    /\ status' = [status EXCEPT ![export[k].case] = "exported"]
    /\ export' = [export EXCEPT ![k] = NoCase]
    /\ UNCHANGED <<sections, files>>

CaseNext ==
    \/ \E c \in CaseIds : CreateCase(c) \/ AddSection(c) \/ CloseCase(c)
    \/ \E k \in Connections :
          \/ \E c \in CaseIds, path \in Paths : ExportBegins(k, c, path)
          \/ ExportNotesMissing(k) \/ ExportBuilds(k) \/ ExportWrites(k)
          \/ ExportFails(k) \/ ExportRecords(k)

CaseSpec == CaseInit /\ [][CaseNext]_caseVars

-----------------------------------------------------------------------------
(* Properties *)

CaseTypeOK ==
    /\ status \in [CaseIds -> {"none", "open", "closed", "exported"}]
    /\ \A c \in CaseIds : exports[c] \subseteq Paths /\ sections[c] <= MaxSections + Cardinality(Connections)
    /\ \A k \in Connections : export[k].at \in {"idle", "found", "built", "written"}

\* An export that was recorded is still there: its file holds that case, with no
\* section the case does not have, whatever other exports were asked to write to
\* the same place meanwhile.
ExportsKept ==
    \A c \in CaseIds : \A path \in exports[c] :
        \E f \in files : f.path = path /\ f.case = c /\ f.read <= sections[c]
=============================================================================
