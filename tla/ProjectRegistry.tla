---------------------------- MODULE ProjectRegistry ----------------------------
(***************************************************************************)
(* The projects of the workspace (projects/discovery.py, registry.py) and  *)
(* how they are found by id or alias.  The folders of the workspace are    *)
(* numbered in the order of their names; a manifest is its project_id and  *)
(* its aliases.  refresh builds two tables and then replaces the old ones, *)
(* one after the other; get reads them one after the other.                *)
(***************************************************************************)
EXTENDS Naturals, FiniteSets, Workspace

CONSTANTS
  Folders,     \* the folders of the workspace, in the order of their names
  Ids,         \* project ids and aliases
  NameOf       \* the name of a folder, its project's id by default

ASSUME FoldersAreNumbers == Folders \subseteq Nat
ASSUME FoldersHaveNames == NameOf \in [Folders -> Ids]

VARIABLES
  disk,      \* what is in each folder
  projects,  \* _projects: the folder of a project id
  aliases,   \* _aliases: the project id of an alias
  at,        \* where a client is in its call
  job,       \* the call
  built,     \* the tables its refresh has built
  alias      \* the project id that get() found for its key

Manifests == [id : Ids \cup {None}, aliases : SUBSET Ids]
Contents == [git : BOOLEAN, manifest : Manifests \cup {None, Bad}, docs : BOOLEAN]
ASSUME NothingIsNoValue ==
  /\ None \notin Folders \cup Ids \cup Manifests \cup Contents
  /\ Bad \notin Manifests


\* is_project_root: a folder with a manifest or a repository.
Discovered(d) == {f \in Folders : d[f] # None /\ (d[f].git \/ d[f].manifest # None)}

HasManifest(d, f) == d[f].manifest \notin {None, Bad}
IdOf(d, f) == IF HasManifest(d, f) /\ d[f].manifest.id # None THEN d[f].manifest.id ELSE NameOf[f]

\* An alias that is the project's own id is skipped.
AliasesOf(d, f) == IF HasManifest(d, f) THEN d[f].manifest.aliases \ {IdOf(d, f)} ELSE {}

\* refresh raises: a manifest that does not parse, an id that is taken, an
\* alias that is the id of an earlier project, or an alias of another one.
Conflict(d) ==
  \E f \in Discovered(d) :
    \/ d[f].manifest = Bad
    \/ \E e \in Discovered(d) :
         /\ e < f
         /\ IdOf(d, e) \in {IdOf(d, f)} \cup AliasesOf(d, f) \/ AliasesOf(d, e) \cap AliasesOf(d, f) # {}

ProjectTable(d) ==
  [i \in {IdOf(d, f) : f \in Discovered(d)} |-> CHOOSE f \in Discovered(d) : IdOf(d, f) = i]
AliasTable(d) ==
  [a \in UNION {AliasesOf(d, f) : f \in Discovered(d)} |->
     IdOf(d, CHOOSE f \in Discovered(d) : a \in AliasesOf(d, f))]

\* Mutant: only the table of the projects is asked.
GetById(ps, as, key) == IF key \in DOMAIN ps THEN ps[key] ELSE None

Get(ps, as, key) ==
  LET id == IF key \in DOMAIN as THEN as[key] ELSE key
  IN  IF id \in DOMAIN ps THEN ps[id] ELSE None

Goes(c, here, there) == at[c] = here /\ at' = [at EXCEPT ![c] = there]

\* discover_project_roots and the registration of what it found.  The folders
\* are read at once.  A conflict leaves the old tables in place.
Builds(c) == built' = [built EXCEPT ![c] = [ps |-> ProjectTable(disk), as |-> AliasTable(disk)]]

SwapsProjects(c) ==
  /\ projects' = built[c].ps
  /\ UNCHANGED <<disk, aliases, job, built, alias>>

SwapsAliases(c) ==
  /\ aliases' = built[c].as
  /\ built' = [built EXCEPT ![c] = None]
  /\ UNCHANGED <<disk, projects, job, alias>>

\* Mutant: an id that is no alias is not looked up.
ReadsAliasOnly(c, key) ==
  /\ alias' = [alias EXCEPT ![c] = IF key \in DOMAIN aliases THEN aliases[key] ELSE None]
  /\ UNCHANGED <<disk, projects, aliases, job, built>>

\* The first half of get().
ReadsAlias(c, key) ==
  /\ alias' = [alias EXCEPT ![c] = IF key \in DOMAIN aliases THEN aliases[key] ELSE key]
  /\ UNCHANGED <<disk, projects, aliases, job, built>>

\* Mutant: the id is returned in place of its project.
FoundId(c) == alias[c]

\* The second half.
Found(c) == IF alias[c] \in DOMAIN projects THEN projects[alias[c]] ELSE None
================================================================================
