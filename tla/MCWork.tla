------------------------------- MODULE MCWork -------------------------------
(***************************************************************************)
(* What is worked with besides a terminal, each part on a small instance:  *)
(* saved targets (one, of each tool in turn, and two commands at once),    *)
(* transfers (two, a place of the user's and one of a drag), archives (two *)
(* operations, two candidates for each name), the tunnels of the panel     *)
(* (two, on two ports, and two commands) and OpenTofu's plans (two runs,   *)
(* two projects).  A behaviour runs one part; the others stay as they      *)
(* begin.                                                                  *)
(***************************************************************************)
EXTENDS TofuRuns, TLC

CONSTANTS
    Target, Command, Setting, Gone,
    Transfer, Place, DragPlace, Pieces, MaxFiles, Removed, Hole,
    Op, Name, Archive, Candidates, User,
    Tunnel, Port, Caller

VARIABLES
    part,
    tool, on, clearing, locked, loaded, memory, vault, rules, vaultRules, live, log,
    command, wanted, together, halved, late,
    task, disk, drag, dropping,
    op, file, busy,
    settings, flag, running, listens, ending, connected, call, overlapped

targetsVars ==
    <<tool, on, clearing, locked, loaded, memory, vault, rules, vaultRules, live, log,
      command, wanted, together, halved, late>>
transfersVars == <<task, disk, drag, dropping>>
archivesVars == <<op, file, busy>>
tunnelsVars ==
    <<settings, flag, running, listens, ending, connected, call, overlapped>>

T == INSTANCE Targets
F == INSTANCE Transfers
A == INSTANCE Archives
N == INSTANCE Tunnels

ASSUME WorkAssumption ==
    /\ T!TargetsAssumption
    /\ F!TransfersAssumption
    /\ A!ArchivesAssumption
    /\ N!TunnelsAssumption

MCCandidates ==
    [create |-> <<"data.zip", "data-1.zip">>, extract |-> <<"data", "data-1">>]

\* Of the parts that do not run, one initial state is enough.
MCInit ==
    /\ part \in {"targets", "transfers", "archives", "tunnels", "tofu"}
    /\ Init /\ T!Init /\ F!Init /\ A!Init /\ N!Init
    /\ part # "targets" => tool = [x \in Target |-> "containers"]
    /\ part # "transfers" => disk = [p \in Place |-> None]
    /\ part # "archives" => file = [n \in Name |-> None]
    /\ part # "tofu" => saved = [p \in Project |-> None]

MCNext ==
    /\ UNCHANGED part
    /\ \/ /\ part = "targets" /\ T!Next
          /\ UNCHANGED <<vars, transfersVars, archivesVars, tunnelsVars>>
       \/ /\ part = "transfers" /\ F!Next
          /\ UNCHANGED <<vars, targetsVars, archivesVars, tunnelsVars>>
       \/ /\ part = "archives" /\ A!Next
          /\ UNCHANGED <<vars, targetsVars, transfersVars, tunnelsVars>>
       \/ /\ part = "tunnels" /\ N!Next
          /\ UNCHANGED <<vars, targetsVars, transfersVars, archivesVars>>
       \/ /\ part = "tofu" /\ Next
          /\ UNCHANGED <<targetsVars, transfersVars, archivesVars, tunnelsVars>>

MCSpec ==
    /\ MCInit
    /\ [][MCNext]_<<part, vars, targetsVars, transfersVars, archivesVars, tunnelsVars>>

Interchangeable == Permutations(Command) \cup Permutations(Setting)

SettingsKept == T!SettingsKept
OffMeansOff == T!OffMeansOff
WholeOrNothing == F!WholeOrNothing
OthersSpared == A!OthersSpared
CancelUndoes == A!CancelUndoes
TunnelsStand == N!TunnelsStand

TypesHold == TypeOK /\ T!TypeOK /\ F!TypeOK /\ A!TypeOK /\ N!TypeOK
=============================================================================
