------------------------------- MODULE Projects -------------------------------
(***************************************************************************)
(* projects.Manager: a project is a row and a workspace directory, created *)
(* and deleted in two steps each, with sessions working in the directory.  *)
(*                                                                         *)
(* Deleting the row cascades to the rows of its sessions; the agents that  *)
(* work for them are not told.                                             *)
(***************************************************************************)
EXTENDS Naturals

CONSTANTS
  ProjectIds,    \* random, never used again
  Connections,
  NoProject,
  MaxCrashes     \* bound: restarts

VARIABLES
  project,     \* the projects row: "never", "listed", "gone"
  dir,         \* the workspace: "none", "whole", "partial"
  sessionRows, \* the projects with a row of an active session
  agents,      \* the projects an agent process works in
  call,        \* each connection's handler
  left,        \* history: directories left on purpose, or by a crash
  crashes

projectVars == <<project, dir, sessionRows, agents, call, left, crashes>>

Waiting == [at |-> "idle", id |-> NoProject, wipe |-> FALSE]
Goes(c, at, p, wipe) == call' = [call EXCEPT ![c] = [at |-> at, id |-> p, wipe |-> wipe]]
Answers(c) == call' = [call EXCEPT ![c] = Waiting]
Working(p) == \E c \in Connections : call[c].id = p

-----------------------------------------------------------------------------
(* CreateEmpty, ImportWithEnv *)

\* mkdir and git init, or git clone.
MakeWorkspace(c, p) ==
  /\ call[c].at = "idle" /\ project[p] = "never" /\ dir[p] = "none" /\ ~Working(p)
  /\ dir' = [dir EXCEPT ![p] = "partial"]
  /\ Goes(c, "making", p, FALSE)
  /\ UNCHANGED <<project, sessionRows, agents, left, crashes>>

\* git fails: the directory goes again.
MakeFails(c) ==
  /\ call[c].at = "making"
  /\ dir' = [dir EXCEPT ![call[c].id] = "none"]
  /\ Answers(c)
  /\ UNCHANGED <<project, sessionRows, agents, left, crashes>>

MakeEnds(c) ==
  /\ call[c].at = "making"
  /\ dir' = [dir EXCEPT ![call[c].id] = "whole"]
  /\ Goes(c, "inserting", call[c].id, FALSE)
  /\ UNCHANGED <<project, sessionRows, agents, left, crashes>>

InsertProject(c) ==
  /\ call[c].at = "inserting"
  /\ \/ project' = [project EXCEPT ![call[c].id] = "listed"] /\ UNCHANGED dir
     \/ dir' = [dir EXCEPT ![call[c].id] = "none"] /\ UNCHANGED project
  /\ Answers(c)
  /\ UNCHANGED <<sessionRows, agents, left, crashes>>

-----------------------------------------------------------------------------
(* Delete *)

\* Mutant: the flag is not looked at, and the workspace stays.
AfterLookupRow(wipe) == "unlisting"

AfterLookup(wipe) == IF wipe THEN "wiping" ELSE "unlisting"

DeleteLooksUp(c, p, wipe) ==
  /\ call[c].at = "idle" /\ project[p] = "listed"
  /\ Goes(c, AfterLookup(wipe), p, wipe)
  /\ UNCHANGED <<project, dir, sessionRows, agents, left, crashes>>

\* os.RemoveAll stops at what it cannot remove, and the row stays.
WipeFails(c) ==
  /\ call[c].at = "wiping" /\ dir[call[c].id] # "none"
  /\ dir' = [dir EXCEPT ![call[c].id] = "partial"]
  /\ Answers(c)
  /\ UNCHANGED <<project, sessionRows, agents, left, crashes>>

WipeEnds(c) ==
  /\ call[c].at = "wiping"
  /\ dir' = [dir EXCEPT ![call[c].id] = "none"]
  /\ Goes(c, "unlisting", call[c].id, TRUE)
  /\ UNCHANGED <<project, sessionRows, agents, left, crashes>>

\* DeleteProject, with the foreign keys' cascade; no row, no error.
DeleteRow(c) ==
  LET p == call[c].id IN
  /\ call[c].at = "unlisting"
  /\ project' = [project EXCEPT ![p] = "gone"]
  /\ sessionRows' = sessionRows \ {p}
  /\ left' = IF call[c].wipe THEN left ELSE left \cup {p}
  /\ Answers(c)
  /\ UNCHANGED <<dir, agents, crashes>>

-----------------------------------------------------------------------------
(* Sessions in a project *)

\* sessions.Start: the project is looked up, then the row inserted, which the
\* foreign key refuses once the project is gone ...
StartLooksUp(c, p) ==
  /\ call[c].at = "idle" /\ project[p] = "listed"
  /\ Goes(c, "starting", p, FALSE)
  /\ UNCHANGED <<project, dir, sessionRows, agents, left, crashes>>

StartInserts(c) ==
  LET p == call[c].id IN
  /\ call[c].at = "starting"
  /\ IF project[p] = "listed"
     THEN sessionRows' = sessionRows \cup {p} /\ Goes(c, "spawning", p, FALSE)
     ELSE Answers(c) /\ UNCHANGED sessionRows
  /\ UNCHANGED <<project, dir, agents, left, crashes>>

\* ... and the agent is spawned in the workspace, if that is there.
StartSpawns(c) ==
  LET p == call[c].id IN
  /\ call[c].at = "spawning"
  /\ IF dir[p] # "none"
     THEN agents' = agents \cup {p} /\ UNCHANGED sessionRows
     ELSE sessionRows' = sessionRows \ {p} /\ UNCHANGED agents
  /\ Answers(c)
  /\ UNCHANGED <<project, dir, left, crashes>>

SessionEnds(p) ==
  /\ p \in agents
  /\ agents' = agents \ {p} /\ sessionRows' = sessionRows \ {p}
  /\ UNCHANGED <<project, dir, call, left, crashes>>

\* An agent writes a file by its full path: the directory is there again.
AgentWrites(p) ==
  /\ p \in agents /\ dir[p] = "none"
  /\ dir' = [dir EXCEPT ![p] = "partial"]
  /\ left' = left \cup {p}
  /\ UNCHANGED <<project, sessionRows, agents, call, crashes>>

\* The agent program stops; what was being made is left as it is.
Crash ==
  /\ crashes < MaxCrashes
  /\ crashes' = crashes + 1
  /\ left' = left \cup {p \in ProjectIds : \E c \in Connections : call[c].id = p /\ call[c].at \in {"making", "inserting"}}
  /\ call' = [c \in Connections |-> Waiting]
  /\ UNCHANGED <<project, dir, sessionRows, agents>>

ProjectsInit ==
  /\ project = [p \in ProjectIds |-> "never"] /\ dir = [p \in ProjectIds |-> "none"]
  /\ sessionRows = {} /\ agents = {} /\ left = {}
  /\ call = [c \in Connections |-> Waiting]
  /\ crashes = 0

ProjectsNext ==
  \/ \E c \in Connections :
       \/ MakeFails(c) \/ MakeEnds(c) \/ InsertProject(c) \/ WipeFails(c) \/ WipeEnds(c) \/ DeleteRow(c)
       \/ StartInserts(c) \/ StartSpawns(c)
       \/ \E p \in ProjectIds :
            \/ MakeWorkspace(c, p) \/ StartLooksUp(c, p)
            \/ \E wipe \in BOOLEAN : DeleteLooksUp(c, p, wipe)
  \/ \E p \in ProjectIds : SessionEnds(p) \/ AgentWrites(p)
  \/ Crash

ProjectsSpec == ProjectsInit /\ [][ProjectsNext]_projectVars

-----------------------------------------------------------------------------
\* A call that makes a project, or does something to one that was made.
Makes == {"making", "inserting"}
Uses == {"wiping", "unlisting", "starting", "spawning"}

ProjectsTypeOK ==
  /\ project \in [ProjectIds -> {"never", "listed", "gone"}]
  /\ dir \in [ProjectIds -> {"none", "whole", "partial"}]
  /\ sessionRows \subseteq ProjectIds /\ agents \subseteq ProjectIds /\ left \subseteq ProjectIds
  /\ call \in [Connections -> [at : Makes \cup Uses \cup {"idle"}, id : ProjectIds \cup {NoProject}, wipe : BOOLEAN]]

\* "A failed wipe leaves the project still listable and the user can retry
\* instead of being stuck with an orphan workspace dir": a directory nobody
\* is at work on has a row, unless it was left on purpose, by a crash while it
\* was being made, or brought back by an agent.
WipeCanBeRetried ==
  \A p \in ProjectIds : dir[p] # "none" /\ ~Working(p) => project[p] = "listed" \/ p \in left

\* The inductive invariant: one call makes a project, the others wait for it to
\* be listed, and what a wipe took is gone before the row is.
ProjectsInv ==
  /\ ProjectsTypeOK
  /\ \A p \in ProjectIds : dir[p] # "none" /\ p \notin left =>
       /\ project[p] # "gone"
       /\ project[p] = "never" => \E c \in Connections : call[c].at \in Makes /\ call[c].id = p
  /\ \A c \in Connections :
       /\ call[c].at # "idle" => call[c].id \in ProjectIds
       /\ call[c].at \in Makes =>
            /\ project[call[c].id] = "never"
            /\ \A d \in Connections \ {c} : call[d].at # "idle" => call[d].id # call[c].id
       /\ call[c].at \in Uses => project[call[c].id] # "never"
       /\ call[c].at = "unlisting" /\ call[c].wipe => dir[call[c].id] = "none" \/ call[c].id \in left

\* Every agent has the row of its session.  Not so: the row goes with its
\* project's, and nothing stops the agent.
AgentsHaveRows == agents \subseteq sessionRows
=============================================================================
