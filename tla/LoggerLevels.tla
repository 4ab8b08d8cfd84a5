---------------------------- MODULE LoggerLevels ----------------------------
(***************************************************************************)
(* The logger command (peeka/commands/logger.py): a level that a client sets  *)
(* is given back when the agent is detached.  The levels are the process's:   *)
(* the application sets them, too, and tells nobody.  The command notes the   *)
(* level it finds, under its lock, before its first change of a logger, and   *)
(* changes it after the lock is released.                                    *)
(*                                                                         *)
(* list and get only read.                                                  *)
(***************************************************************************)
EXTENDS FiniteSets

CONSTANTS Loggers,      \* names of loggers
          Levels,
          LevelClients  \* who sends logger set, once each

ASSUME LevelsAssumption == Levels # {} /\ "unnoted" \notin Levels

VARIABLES level,      \* of each logger
          originals,  \* _original_levels
          setter,     \* where the command of each client is
          restorer,   \* stop_active_resources: where it is, what it has to restore
          wanted,     \* what the application asked for, last
          behind,     \* history: loggers the application set while they were noted
          crossing    \* history: loggers of which a set met the detach, or came later

levelHistory == <<wanted, behind, crossing>>
levelVars == <<level, originals, setter, restorer, levelHistory>>

Unnoted == "unnoted"
Noted(n) == originals[n] # Unnoted
AtWorkOn(n) == {c \in LevelClients : setter[c].at \in {"asked", "noted"} /\ setter[c].name = n}

LevelInit ==
    /\ level \in [Loggers -> Levels] /\ wanted = level
    /\ originals = [n \in Loggers |-> Unnoted]
    /\ setter = [c \in LevelClients |-> [at |-> "new"]]
    /\ restorer = [at |-> "no", todo |-> {}, now |-> "none", levels |-> originals]
    /\ behind = {} /\ crossing = {}

\* _set_logger_level, with a level that exists; the logger is made if it is not there.
AskLevel(c, n, new) ==
    /\ setter[c].at = "new"
    /\ setter' = [setter EXCEPT ![c] = [at |-> "asked", name |-> n, new |-> new]]
    /\ crossing' = IF restorer.at = "no" THEN crossing ELSE crossing \cup {n}
    /\ UNCHANGED <<level, originals, restorer, wanted, behind>>

\* The first level found is kept.
FirstLevel(n) == IF Noted(n) THEN originals[n] ELSE level[n]

NoteLevel(c) ==
    /\ setter[c].at = "asked"
    /\ LET n == setter[c].name IN originals' = [originals EXCEPT ![n] = FirstLevel(n)]
    /\ setter' = [setter EXCEPT ![c].at = "noted"]
    /\ UNCHANGED <<level, restorer, levelHistory>>

ApplyLevel(c) ==
    /\ setter[c].at = "noted"
    /\ level' = [level EXCEPT ![setter[c].name] = setter[c].new]
    /\ setter' = [setter EXCEPT ![c].at = "done"]
    /\ UNCHANGED <<originals, restorer, levelHistory>>

\* stop_active_resources, for a detach: without a pattern.
ChooseLevels ==
    /\ restorer.at = "no"
    /\ restorer' = [restorer EXCEPT !.at = "set", !.levels = originals,
                              !.todo = {n \in Loggers : Noted(n)}]
    /\ crossing' = crossing \cup {n \in Loggers : AtWorkOn(n) # {}}
    /\ UNCHANGED <<level, originals, setter, wanted, behind>>

RestoreLevel(n) ==
    /\ restorer.at = "set" /\ n \in restorer.todo
    /\ level' = [level EXCEPT ![n] = restorer.levels[n]]
    /\ restorer' = [restorer EXCEPT !.at = "forget", !.todo = @ \ {n}, !.now = n]
    /\ UNCHANGED <<originals, setter, levelHistory>>

ForgetLevel ==
    /\ restorer.at = "forget"
    /\ originals' = [originals EXCEPT ![restorer.now] = Unnoted]
    /\ restorer' = [restorer EXCEPT !.at = "set"]
    /\ UNCHANGED <<level, setter, levelHistory>>

LevelsRestored == restorer.at = "set" /\ restorer.todo = {}

ApplicationSets(n, new) ==
    /\ new # level[n] /\ level' = [level EXCEPT ![n] = new]
    /\ wanted' = [wanted EXCEPT ![n] = new]
    /\ behind' = IF Noted(n) THEN behind \cup {n} ELSE behind
    /\ UNCHANGED <<originals, setter, restorer, crossing>>

LevelNext ==
    \/ \E c \in LevelClients : \/ \E n \in Loggers, new \in Levels : AskLevel(c, n, new)
                               \/ NoteLevel(c) \/ ApplyLevel(c)
    \/ ChooseLevels \/ (\E n \in Loggers : RestoreLevel(n)) \/ ForgetLevel
    \/ \E n \in Loggers, new \in Levels : ApplicationSets(n, new)

LevelSpec == LevelInit /\ [][LevelNext]_levelVars

-----------------------------------------------------------------------------
(* Properties *)

LevelTypeOK ==
    /\ level \in [Loggers -> Levels] /\ wanted \in [Loggers -> Levels]
    /\ originals \in [Loggers -> Levels \cup {Unnoted}]
    /\ \A c \in LevelClients : setter[c].at \in {"new", "asked", "noted", "done"}
    /\ restorer.at \in {"no", "set", "forget"} /\ restorer.todo \subseteq Loggers
    /\ behind \cup crossing \subseteq Loggers

\* However many commands set a logger, and however they overlap, what is noted is the
\* application's level, never one that a command has set; a logger of which nothing is
\* noted has the application's level; and so has every logger after the detach.  Except:
\* the application set the level meanwhile, and the detach puts an older one in its place;
\* or a command that set it met the detach, or was sent after it.
LevelsGivenBack ==
    \A n \in Loggers \ (behind \cup crossing) :
       /\ originals[n] \in {wanted[n], Unnoted}
       /\ (~Noted(n) \/ LevelsRestored) => level[n] = wanted[n]
=============================================================================
