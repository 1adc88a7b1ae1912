---------------------------- MODULE ProjectBootstrap ----------------------------
(***************************************************************************)
(* bootstrap_project (projects/bootstrap.py): create, clone and import a   *)
(* project while other calls resolve ids and people edit the workspace.    *)
(* Every command and every file written is a step, and any of them may     *)
(* fail or be the last thing the process does.                             *)
(*                                                                         *)
(* The default documents and .gitignore are one file, `docs`.  `was`,      *)
(* `touched`, `removed` and `mixed` are history.                           *)
(***************************************************************************)
EXTENDS ProjectRegistry

CONSTANTS
  Repositories,  \* the manifests in the repositories that can be cloned
  Drafts,        \* what a person may put in a folder
  Budgets        \* bounds of a behaviour: [boots, resolves, edits, mishaps]

\* A call of a client.
Jobs == [op : {"resolve", "create", "clone", "import"}, folder : Folders \cup {None}, id : Ids,
         brings : Manifests \cup {None, Bad}, done : BOOLEAN]

ASSUME RepositoriesAreManifests == Repositories \subseteq Manifests \cup {None, Bad}
ASSUME NothingIsNoJob == None \notin Jobs
ASSUME DraftsAreContents == Drafts \subseteq Contents \cup {None}
ASSUME BudgetsAreBounds == Budgets \subseteq [boots : Nat, resolves : Nat, edits : Nat, mishaps : Nat]

VARIABLES
  answer,   \* the outcome of a client's last call
  was,      \* the folder of a call as it was when the call began
  left,     \* what is left of the budget
  touched,  \* the ids and aliases that a folder had before or after a change
  removed,  \* the folders that somebody has removed
  mixed     \* calls and edits have overlapped

tables == <<projects, aliases, alias>>
callers == <<at, job, built, answer, was>>
bootVars == <<disk, tables, callers, left, touched, removed, mixed>>

Spends(what) == left[what] > 0 /\ left' = [left EXCEPT ![what] = @ - 1]
Busy == {c \in Clients : at[c] # "idle"}
KeysOf(d, f) == IF f \in Discovered(d) THEN {IdOf(d, f)} \cup AliasesOf(d, f) ELSE {}

\* Folder f becomes `new`.
Puts(f, new) ==
  /\ disk' = [disk EXCEPT ![f] = new]
  /\ touched' = touched \cup KeysOf(disk, f) \cup KeysOf(disk', f)
  /\ removed' = IF new = None THEN removed \cup {f} ELSE removed

BootInit ==
  /\ disk \in [Folders -> Drafts] /\ ~Conflict(disk)
  /\ projects = ProjectTable(disk) /\ aliases = AliasTable(disk)
  /\ at = [c \in Clients |-> "idle"]
  /\ job = [c \in Clients |-> None] /\ built = [c \in Clients |-> None]
  /\ alias = [c \in Clients |-> None] /\ answer = [c \in Clients |-> None]
  /\ was = [c \in Clients |-> None]
  /\ left \in Budgets /\ touched = {} /\ removed = {} /\ mixed = FALSE

------------------------------------------------------------------------------
\* The beginning and the end of a call

Job(op, folder, id, brings) == [op |-> op, folder |-> folder, id |-> id, brings |-> brings, done |-> FALSE]

Starts(c, what, call) ==
  /\ Spends(what)
  /\ Goes(c, "idle", "build")
  /\ job' = [job EXCEPT ![c] = call]
  /\ was' = [was EXCEPT ![c] = IF call.folder = None THEN None ELSE disk[call.folder]]
  /\ answer' = [answer EXCEPT ![c] = None]
  /\ mixed' = (mixed \/ Busy # {})
  /\ UNCHANGED <<disk, tables, built, touched, removed>>

Resolves(c) == \E key \in Ids : Starts(c, "resolves", Job("resolve", None, key, None))

\* create names a new folder; clone takes its name from the repository; import
\* names a folder that is there.
BootsProject(c) ==
  \E f \in Folders, i \in Ids \cup {None} :
    LET id == IF i = None THEN NameOf[f] ELSE i IN
    \/ Starts(c, "boots", Job("create", f, id, None))
    \/ \E r \in Repositories : Starts(c, "boots", Job("clone", f, id, r))
    \/ Starts(c, "boots", Job("import", f, id, None))

\* A call ends: with an exception, or with the folder it answers about; require()
\* raises where that is None.
Answer(c, failed, folder) == [job |-> job[c], failed |-> failed, folder |-> folder]
Returns(c, failed, folder) ==
  /\ at' = [at EXCEPT ![c] = "idle"]
  /\ answer' = [answer EXCEPT ![c] = Answer(c, failed, folder)]
  /\ job' = [job EXCEPT ![c] = None] /\ built' = [built EXCEPT ![c] = None]
  /\ UNCHANGED <<projects, aliases, left, mixed>>
Stays == UNCHANGED <<disk, touched, removed>>

\* The exception leaves bootstrap_project; clone removes the folder first once
\* there is a repository in it.
FailsLeaving(c) == Returns(c, TRUE, None) /\ alias' = [alias EXCEPT ![c] = None] /\ UNCHANGED was
Fails(c) == FailsLeaving(c) /\ Stays
FailsRemoving(c) ==
  /\ FailsLeaving(c)
  /\ IF job[c].op = "clone" THEN Puts(job[c].folder, None) ELSE Stays

\* The process dies.
Dies(c) ==
  /\ at[c] # "idle" /\ left.mishaps > 0 /\ left' = [left EXCEPT !.mishaps = @ - 1]
  /\ at' = [at EXCEPT ![c] = "idle"]
  /\ job' = [job EXCEPT ![c] = None] /\ built' = [built EXCEPT ![c] = None]
  /\ alias' = [alias EXCEPT ![c] = None]
  /\ UNCHANGED <<disk, projects, aliases, answer, was, touched, removed, mixed>>

------------------------------------------------------------------------------
\* refresh and get

Refreshes(c) ==
  \/ /\ at[c] = "build"
     /\ IF Conflict(disk) THEN Fails(c)
        ELSE /\ Goes(c, "build", "swap projects")
             /\ Builds(c)
             /\ UNCHANGED <<disk, tables, job, answer, was, left, touched, removed, mixed>>
  \/ /\ Goes(c, "swap projects", "swap aliases")
     /\ SwapsProjects(c)
     /\ UNCHANGED <<answer, was, left, touched, removed, mixed>>
  \/ /\ Goes(c, "swap aliases",
             IF job[c].op = "resolve" \/ job[c].done THEN "alias"
             ELSE IF job[c].op = "import" THEN "candidate" ELSE "available")
     /\ SwapsAliases(c)
     /\ UNCHANGED <<answer, was, left, touched, removed, mixed>>

\* require(): the end of every call.
Requires(c) ==
  \/ /\ Goes(c, "alias", "project")
     /\ ReadsAlias(c, job[c].id)
     /\ UNCHANGED <<answer, was, left, touched, removed, mixed>>
  \/ /\ at[c] = "project"
     /\ Returns(c, FALSE, Found(c))
     /\ alias' = [alias EXCEPT ![c] = None]
     /\ Stays /\ UNCHANGED was

------------------------------------------------------------------------------
\* bootstrap_project between its two refreshes

Available(id, f) == Get(projects, aliases, id) \in {None, f}

\* _ensure_project_id_available and project_root.exists().
ChecksTarget(c) ==
  /\ at[c] = "available"
  /\ IF ~Available(job[c].id, job[c].folder) \/ disk[job[c].folder] # None THEN Fails(c)
     ELSE /\ at' = [at EXCEPT ![c] = IF job[c].op = "create" THEN "mkdir" ELSE "clone"]
          /\ UNCHANGED <<disk, tables, job, built, answer, was, left, touched, removed, mixed>>

Empty == [git |-> FALSE, manifest |-> None, docs |-> FALSE]

\* Writing a file makes the folders it is in.
Folder(f) == IF disk[f] = None THEN Empty ELSE disk[f]

\* mkdir refuses a folder that has appeared meanwhile.
MakesFolder(c) ==
  /\ at[c] = "mkdir"
  /\ IF disk[job[c].folder] # None THEN Fails(c)
     ELSE /\ Puts(job[c].folder, Empty)
          /\ at' = [at EXCEPT ![c] = "init"]
          /\ UNCHANGED <<tables, job, built, answer, was, left, mixed>>

\* git init, when it is asked for.
InitsGit(c) ==
  /\ at[c] = "init"
  /\ \/ disk[job[c].folder] # None /\ Puts(job[c].folder, [disk[job[c].folder] EXCEPT !.git = TRUE])
     \/ Stays
  /\ at' = [at EXCEPT ![c] = "manifest"]
  /\ UNCHANGED <<tables, job, built, answer, was, left, mixed>>

\* git clone, which refuses a folder that is not empty.
Clones(c) ==
  /\ at[c] = "clone"
  /\ IF disk[job[c].folder] \notin {None, Empty} THEN Fails(c)
     ELSE /\ Puts(job[c].folder, [git |-> TRUE, manifest |-> job[c].brings, docs |-> FALSE])
          /\ at' = [at EXCEPT ![c] = "candidate"]
          /\ UNCHANGED <<tables, job, built, answer, was, left, mixed>>

\* The id the project will have: that of its manifest if it has one.
ManifestOf(f) == IF disk[f] = None THEN None ELSE disk[f].manifest
IdIn(manifest, default) == IF manifest # None /\ manifest.id # None THEN manifest.id ELSE default

Decides(c, refused, giveUp) ==
  /\ at[c] = "candidate"
  /\ IF refused THEN giveUp
     ELSE /\ at' = [at EXCEPT ![c] = "manifest"]
          /\ UNCHANGED <<disk, tables, job, built, answer, was, left, touched, removed, mixed>>
Unusable(c) ==
  LET f == job[c].folder IN
  \/ job[c].op = "import" /\ disk[f] = None
  \/ ManifestOf(f) = Bad
  \/ ~Available(IdIn(ManifestOf(f), job[c].id), f)

\* Mutant: the clone of a repository with an id that is taken stays in the
\* workspace.
LeavesClone(c) == Decides(c, Unusable(c), Fails(c))

\* _candidate_project_id, and whether that id is available.
ChecksCandidate(c) == Decides(c, Unusable(c), FailsRemoving(c))

\* _scaffold_project: the manifest gets the id unless it has one.
WritesManifest(c) ==
  /\ at[c] = "manifest"
  /\ LET manifest == ManifestOf(job[c].folder)
         merged == IF manifest = None THEN [id |-> job[c].id, aliases |-> {}]
                   ELSE [manifest EXCEPT !.id = IdIn(manifest, job[c].id)]
     IN  IF manifest = Bad THEN FailsRemoving(c)
         ELSE /\ IF merged = manifest THEN Stays
                 ELSE Puts(job[c].folder, [Folder(job[c].folder) EXCEPT !.manifest = merged])
              /\ at' = [at EXCEPT ![c] = "documents"]
              /\ UNCHANGED <<tables, job, built, answer, was, left, mixed>>

\* The documents that are missing, .gitignore, and the id in the manifest now,
\* which is the one the second refresh is asked for.
WritesDocuments(c) ==
  /\ at[c] = "documents"
  /\ LET manifest == ManifestOf(job[c].folder) IN
     IF manifest = Bad THEN FailsRemoving(c)
     ELSE /\ Puts(job[c].folder, [Folder(job[c].folder) EXCEPT !.docs = TRUE])
          /\ job' = [job EXCEPT ![c].id = IdIn(manifest, NameOf[job[c].folder]), ![c].done = TRUE]
          /\ at' = [at EXCEPT ![c] = "build"]
          /\ UNCHANGED <<tables, built, answer, was, left, mixed>>

\* git fails, or a file cannot be written.
StepFails(c) ==
  /\ at[c] \in {"mkdir", "init", "clone", "manifest", "documents"}
  /\ left.mishaps > 0
  /\ at' = [at EXCEPT ![c] = "idle"]
  /\ answer' = [answer EXCEPT ![c] = Answer(c, TRUE, None)]
  /\ job' = [job EXCEPT ![c] = None]
  /\ left' = [left EXCEPT !.mishaps = @ - 1]
  /\ IF job[c].op = "clone" /\ at[c] # "clone" THEN Puts(job[c].folder, None) ELSE Stays
  /\ UNCHANGED <<tables, built, was, mixed>>

\* A person changes what is in a folder.
Edits ==
  /\ Spends("edits")
  /\ \E f \in Folders, new \in Drafts : new # disk[f] /\ Puts(f, new)
  /\ mixed' = (mixed \/ Busy # {})
  /\ UNCHANGED <<tables, callers>>

BootStep(c) ==
  \/ Resolves(c) \/ BootsProject(c) \/ Refreshes(c) \/ Requires(c) \/ ChecksTarget(c) \/ MakesFolder(c)
  \/ InitsGit(c) \/ Clones(c) \/ ChecksCandidate(c) \/ WritesManifest(c) \/ WritesDocuments(c)
  \/ StepFails(c) \/ Dies(c)

BootNext == (\E c \in Clients : BootStep(c)) \/ Edits

BootSpec == BootInit /\ [][BootNext]_bootVars
------------------------------------------------------------------------------
\* Properties

\* Every variable keeps its type (registry.py:17-18, bootstrap.py:38-59).
BootTypeOK ==
  /\ disk \in [Folders -> Contents \cup {None}]
  /\ \A i \in DOMAIN projects : i \in Ids /\ projects[i] \in Folders
  /\ \A a \in DOMAIN aliases : a \in Ids /\ aliases[a] \in Ids
  /\ \A c \in Clients :
       /\ job[c] \in Jobs \cup {None} /\ (at[c] = "idle") = (job[c] = None)
       /\ answer[c] # None => answer[c].job \in Jobs /\ answer[c].folder \in Folders \cup {None}

\* registry.py:20-30, 61-63: while tables are replaced and read in two halves,
\* an id or alias that no change touched still leads to its project.
UntouchedIsFound ==
  LET as == AliasTable(disk)
      untouched(key) == key \notin touched /\ (key \in DOMAIN as => as[key] \notin touched)
  IN  \A c \in Clients :
        (answer[c] # None /\ answer[c].job.op = "resolve" /\ ~answer[c].failed
          /\ untouched(answer[c].job.id))
        => answer[c].folder = Get(ProjectTable(disk), as, answer[c].job.id)

\* bootstrap.py:48-52: the answer is about the folder the call was made for,
\* never about another project with that id or alias.
BootstrapAnswersItsFolder ==
  \A c \in Clients :
    (~mixed /\ answer[c] # None /\ answer[c].job.op # "resolve" /\ ~answer[c].failed)
      => answer[c].folder = answer[c].job.folder

\* bootstrap.py:68-76: of two calls that create the same folder one is refused,
\* also when both saw that it was not there yet.  A person may remove the folder
\* in between; so may a clone that fails and went into it while it was empty.
FolderIsCreatedOnce ==
  \A c, e \in Clients :
    (c # e /\ answer[c] # None /\ answer[e] # None /\ answer[c].job.op = "create" /\ answer[e].job.op = "create"
      /\ answer[c].job.folder = answer[e].job.folder /\ answer[c].job.folder \notin removed)
    => answer[c].failed \/ answer[e].failed

\* A bootstrap that succeeds has its folder, and nobody else does.
BootstrapOwnsItsFolder == BootstrapAnswersItsFolder /\ FolderIsCreatedOnce

\* bootstrap.py:152-154 and tests/test_project_bootstrap.py:301-365: a call that
\* is refused has changed nothing, and a clone that fails at any step neither.
\* The aliases of a manifest it cloned are only checked by the second refresh,
\* and where an alias hides a project's id, that project's is not taken.
RefusedLeavesNothing ==
  [][\A c \in Clients :
       (/\ job[c] # None /\ answer'[c] # answer[c] /\ answer'[c].failed /\ ~mixed
        /\ job[c].op = "clone" \/ (job[c].op # "resolve" /\ left.mishaps = left'.mishaps)
        /\ job[c].brings \notin {None, Bad} => job[c].brings.aliases = {}
        /\ \A i \in DOMAIN projects : Get(projects, aliases, i) = projects[i])
       => disk'[job[c].folder] = was[c]]_bootVars

\* docs/implementation-plan.md:289, "project_id and aliases both resolve": when
\* no refresh is under way, every project is found under its own id.
ProjectIdsResolve ==
  (\A c \in Clients : built[c] = None) =>
    \A i \in DOMAIN projects : Get(projects, aliases, i) = projects[i]
=================================================================================
