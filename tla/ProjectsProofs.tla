----------------------------- MODULE ProjectsProofs -----------------------------
(***************************************************************************)
(* What the registry, bootstrap_project and configure_connection keep, for *)
(* any number of clients, folders, ids, names and calls.  Of               *)
(* ProjectBootstrap: ids that nobody touched lead to their projects, a     *)
(* folder is created once, and a call that nobody disturbs is about its    *)
(* own folder and leaves nothing behind when it is refused.  Of            *)
(* ConnectionConfig: older connections survive, stored values stay out of  *)
(* git, and the files of a project change together (the module implements  *)
(* ConnectionContract).                                                    *)
(***************************************************************************)
EXTENDS MCProjects, SequenceTheorems, TLAPS

------------------------------------------------------------------------------
\* The registry and bootstrap

Points ==
  {"idle", "build", "swap projects", "swap aliases", "available", "mkdir", "init", "clone",
   "candidate", "manifest", "documents", "alias", "project"}
Calls == {j \in Jobs : (j.op = "resolve") = (j.folder = None)}
Answers == [job : Calls, failed : BOOLEAN, folder : Folders \cup {None}]

IsProjectTable(ps) == \A i \in DOMAIN ps : i \in Ids /\ ps[i] \in Folders
IsAliasTable(as) == \A a \in DOMAIN as : a \in Ids /\ as[a] \in Ids

\* Where the kinds of call can be.
Scaffolding == {"available", "mkdir", "init", "clone", "candidate", "manifest", "documents"}
OnItsWay(c) ==
  /\ (at[c] = "idle") = (job[c] = None)
  /\ at[c] # "idle" => (job[c].op = "resolve") = (job[c].folder = None)
  /\ at[c] \in Scaffolding => job[c].op # "resolve" /\ ~job[c].done
  /\ at[c] = "available" => job[c].op \in {"create", "clone"}
  /\ at[c] \in {"mkdir", "init"} => job[c].op = "create"
  /\ at[c] = "clone" => job[c].op = "clone"
  /\ at[c] = "candidate" => job[c].op # "create"
  /\ at[c] \in {"alias", "project"} => job[c].op = "resolve" \/ job[c].done
  /\ at[c] # "idle" /\ job[c].op = "resolve" => ~job[c].done
  /\ at[c] \in {"swap projects", "swap aliases"} =>
       IsProjectTable(built[c].ps) /\ IsAliasTable(built[c].as)
  /\ at[c] = "project" => alias[c] \in Ids

Types ==
  /\ disk \in [Folders -> Contents \cup {None}]
  /\ IsProjectTable(projects) /\ IsAliasTable(aliases)
  /\ at \in [Clients -> Points] /\ job \in [Clients -> Jobs \cup {None}]
  /\ built = [c \in Clients |-> built[c]] /\ alias = [c \in Clients |-> alias[c]]
  /\ answer \in [Clients -> Answers \cup {None}] /\ was = [c \in Clients |-> was[c]]
  /\ mixed \in BOOLEAN /\ left \in [boots : Nat, resolves : Nat, edits : Nat, mishaps : Nat]
  /\ \A c \in Clients : OnItsWay(c)

------------------------------------------------------------------------------
\* What the steps do, with the lookups in the variables done.

\* What a step leaves alone: the other clients.
Others(c) ==
  /\ at' = [at EXCEPT ![c] = at'[c]] /\ job' = [job EXCEPT ![c] = job'[c]]
  /\ built' = [built EXCEPT ![c] = built'[c]] /\ alias' = [alias EXCEPT ![c] = alias'[c]]
  /\ answer' = [answer EXCEPT ![c] = answer'[c]] /\ was' = [was EXCEPT ![c] = was'[c]]

Tables == UNCHANGED <<projects, aliases>>
Frame(c) == job'[c] = job[c] /\ answer'[c] = answer[c] /\ was'[c] = was[c] /\ mixed' = mixed
Quiet(c) == Frame(c) /\ Stays /\ built'[c] = built[c] /\ alias'[c] = alias[c]

Begins(c) ==
  /\ at[c] = "idle" /\ at'[c] = "build"
  /\ job'[c] \in Jobs /\ ~job'[c].done /\ (job'[c].op = "resolve") = (job'[c].folder = None)
  /\ was'[c] = IF job'[c].folder = None THEN None ELSE disk[job'[c].folder]
  /\ answer'[c] = None /\ mixed' = (mixed \/ Busy # {})
  /\ Stays /\ Tables /\ built'[c] = built[c] /\ alias'[c] = alias[c]
Gathers(c) ==
  /\ at[c] = "build" /\ at'[c] = "swap projects" /\ ~Conflict(disk)
  /\ built'[c] = [ps |-> ProjectTable(disk), as |-> AliasTable(disk)]
  /\ Frame(c) /\ Stays /\ Tables /\ alias'[c] = alias[c]
Publishes(c) ==
  /\ at[c] = "swap projects" /\ at'[c] = "swap aliases"
  /\ projects' = built[c].ps /\ aliases' = aliases /\ Quiet(c)
PublishesAliases(c) ==
  /\ at[c] = "swap aliases"
  /\ at'[c] = IF job[c].op = "resolve" \/ job[c].done THEN "alias"
              ELSE IF job[c].op = "import" THEN "candidate" ELSE "available"
  /\ aliases' = built[c].as /\ projects' = projects
  /\ Frame(c) /\ Stays /\ built'[c] = None /\ alias'[c] = alias[c]
Looks(c) ==
  /\ at[c] = "alias" /\ at'[c] = "project"
  /\ alias'[c] = IF job[c].id \in DOMAIN aliases THEN aliases[job[c].id] ELSE job[c].id
  /\ Frame(c) /\ Stays /\ Tables /\ built'[c] = built[c]
Finishes(c) ==
  /\ at[c] = "project" /\ at'[c] = "idle" /\ job'[c] = None
  /\ answer'[c] = Answer(c, FALSE, Found(c))
  /\ Stays /\ Tables /\ was'[c] = was[c] /\ mixed' = mixed
Passes(c) ==
  /\ \/ /\ at[c] = "available" /\ at'[c] = IF job[c].op = "create" THEN "mkdir" ELSE "clone"
        /\ Available(job[c].id, job[c].folder) /\ disk[job[c].folder] = None
     \/ at[c] = "candidate" /\ at'[c] = "manifest" /\ ~Unusable(c)
  /\ Quiet(c) /\ Tables
Fills(c, new) ==
  /\ \/ at[c] = "mkdir" /\ at'[c] = "init" /\ disk[job[c].folder] = None /\ new = Empty
     \/ /\ at[c] = "init" /\ at'[c] = "manifest" /\ disk[job[c].folder] # None
        /\ new = [disk[job[c].folder] EXCEPT !.git = TRUE]
     \/ /\ at[c] = "clone" /\ at'[c] = "candidate" /\ disk[job[c].folder] \in {None, Empty}
        /\ new = [git |-> TRUE, manifest |-> job[c].brings, docs |-> FALSE]
     \/ /\ at[c] = "manifest" /\ at'[c] = "documents" /\ ManifestOf(job[c].folder) # Bad
        /\ new = [Folder(job[c].folder) EXCEPT !.manifest =
                    IF ManifestOf(job[c].folder) = None THEN [id |-> job[c].id, aliases |-> {}]
                    ELSE [ManifestOf(job[c].folder) EXCEPT !.id = IdIn(ManifestOf(job[c].folder), job[c].id)]]
  /\ Puts(job[c].folder, new)
  /\ Frame(c) /\ Tables /\ built'[c] = built[c] /\ alias'[c] = alias[c]
\* git init is not asked for, or the manifest has its id.
Skips(c) ==
  /\ \/ at[c] = "init" /\ at'[c] = "manifest"
     \/ /\ at[c] = "manifest" /\ at'[c] = "documents" /\ ManifestOf(job[c].folder) \notin {None, Bad}
        /\ ManifestOf(job[c].folder)
             = [ManifestOf(job[c].folder) EXCEPT !.id = IdIn(ManifestOf(job[c].folder), job[c].id)]
  /\ Quiet(c) /\ Tables
Documents(c) ==
  /\ at[c] = "documents" /\ at'[c] = "build" /\ ManifestOf(job[c].folder) # Bad
  /\ Puts(job[c].folder, [Folder(job[c].folder) EXCEPT !.docs = TRUE])
  /\ job'[c] = [job[c] EXCEPT !.id = IdIn(ManifestOf(job[c].folder), NameOf[job[c].folder]), !.done = TRUE]
  /\ answer'[c] = answer[c] /\ was'[c] = was[c] /\ mixed' = mixed
  /\ Tables /\ built'[c] = built[c] /\ alias'[c] = alias[c]
Removes(c) == IF job[c].op = "clone" THEN Puts(job[c].folder, None) ELSE Stays
Refused(c) ==
  /\ at[c] # "idle" /\ at'[c] = "idle" /\ job'[c] = None
  /\ answer'[c] = Answer(c, TRUE, None)
  /\ \/ at[c] = "build" /\ Conflict(disk) /\ Stays
     \/ /\ at[c] = "available" /\ Stays
        /\ ~Available(job[c].id, job[c].folder) \/ disk[job[c].folder] # None
     \/ at[c] = "mkdir" /\ disk[job[c].folder] # None /\ Stays
     \/ at[c] = "clone" /\ disk[job[c].folder] \notin {None, Empty} /\ Stays
     \/ at[c] = "candidate" /\ Unusable(c) /\ Removes(c)
     \/ at[c] \in {"manifest", "documents"} /\ ManifestOf(job[c].folder) = Bad /\ Removes(c)
     \/ /\ at[c] \in {"mkdir", "init", "clone", "manifest", "documents"}
        /\ left'.mishaps # left.mishaps
        /\ IF job[c].op = "clone" /\ at[c] # "clone" THEN Puts(job[c].folder, None) ELSE Stays
  /\ Tables /\ was'[c] = was[c] /\ mixed' = mixed
Stops(c) ==
  /\ at[c] # "idle" /\ at'[c] = "idle" /\ job'[c] = None
  /\ answer'[c] = answer[c] /\ was'[c] = was[c] /\ mixed' = mixed /\ Stays /\ Tables
StepOf(c) ==
  \/ Begins(c) \/ Gathers(c) \/ Publishes(c) \/ PublishesAliases(c) \/ Looks(c) \/ Finishes(c)
  \/ Passes(c) \/ Skips(c) \/ Documents(c) \/ Refused(c) \/ Stops(c)
  \/ \E new : Fills(c, new)

\* Every step of a client is one of these.
LEMMA StepsOfClients ==
  ASSUME Types, NEW c \in Clients, BootStep(c)
  PROVE  StepOf(c) /\ Others(c)
<1> USE DEF Types
<1>1. CASE Resolves(c) \/ BootsProject(c)
  <2>1. PICK what \in {"boots", "resolves"}, call \in Jobs :
          /\ Starts(c, what, call) /\ ~call.done
          /\ (call.op = "resolve") = (call.folder = None)
    <3>0. \A op \in {"resolve", "create", "clone", "import"}, f \in Folders \cup {None}, i \in Ids,
             r \in Manifests \cup {None, Bad} :
            /\ Job(op, f, i, r) \in Jobs /\ ~Job(op, f, i, r).done
            /\ Job(op, f, i, r).op = op /\ Job(op, f, i, r).folder = f
      BY DEF Job, Jobs
    <3>1. CASE Resolves(c)
      <4>1. PICK key \in Ids : Starts(c, "resolves", Job("resolve", None, key, None))
        BY <3>1 DEF Resolves
      <4>2. /\ Job("resolve", None, key, None) \in Jobs /\ ~Job("resolve", None, key, None).done
            /\ Job("resolve", None, key, None).op = "resolve"
            /\ Job("resolve", None, key, None).folder = None
        BY <4>1 DEF Job, Jobs
      <4> QED
        BY <4>1, <4>2
    <3>2. CASE BootsProject(c)
      <4>1. PICK f \in Folders, i \in Ids \cup {None} :
              LET id == IF i = None THEN NameOf[f] ELSE i IN
              \/ Starts(c, "boots", Job("create", f, id, None))
              \/ \E r \in Repositories : Starts(c, "boots", Job("clone", f, id, r))
              \/ Starts(c, "boots", Job("import", f, id, None))
        BY <3>2 DEF BootsProject
      <4> DEFINE id == IF i = None THEN NameOf[f] ELSE i
      <4>2. id \in Ids /\ f # None
        BY FoldersHaveNames, NothingIsNoValue
      <4> HIDE DEF id
      <4>6. \A op \in {"create", "clone", "import"}, r \in Manifests \cup {None, Bad} :
              /\ Job(op, f, id, r) \in Jobs /\ ~Job(op, f, id, r).done
              /\ Job(op, f, id, r).op # "resolve" /\ Job(op, f, id, r).folder # None
        BY <3>0, <4>2
      <4>3. CASE Starts(c, "boots", Job("create", f, id, None))
        BY <4>2, <4>3, <4>6
      <4>4. CASE \E r \in Repositories : Starts(c, "boots", Job("clone", f, id, r))
        BY <4>2, <4>4, <4>6, RepositoriesAreManifests
      <4>5. CASE Starts(c, "boots", Job("import", f, id, None))
        BY <4>2, <4>5, <4>6
      <4> QED
        BY <4>1, <4>3, <4>4, <4>5 DEF id
    <3> QED
      BY <1>1, <3>1, <3>2
  <2>2. Others(c)
    BY <2>1 DEF Starts, Goes, Others, tables
  <2>3. Begins(c)
    BY <2>1 DEF Starts, Goes, Begins, Stays, Tables, tables
  <2> QED
    BY <2>2, <2>3 DEF StepOf
<1>2. CASE Refreshes(c)
  <2>1. CASE at[c] = "build" /\ Conflict(disk) /\ Fails(c)
    BY <2>1 DEF Fails, FailsLeaving, Returns, Refused, StepOf, Others, Stays, Tables
  <2>2. CASE /\ at[c] = "build" /\ ~Conflict(disk) /\ Goes(c, "build", "swap projects") /\ Builds(c)
             /\ UNCHANGED <<disk, tables, job, answer, was, left, touched, removed, mixed>>
    BY <2>2 DEF Goes, Builds, Gathers, StepOf, Others, Stays, Tables, Frame, tables
  <2>3. CASE /\ Goes(c, "swap projects", "swap aliases") /\ SwapsProjects(c)
             /\ UNCHANGED <<answer, was, left, touched, removed, mixed>>
    BY <2>3 DEF Goes, SwapsProjects, Publishes, StepOf, Others, Stays, Quiet, Frame
  <2>4. CASE /\ Goes(c, "swap aliases", IF job[c].op = "resolve" \/ job[c].done THEN "alias"
                        ELSE IF job[c].op = "import" THEN "candidate" ELSE "available")
             /\ SwapsAliases(c)
             /\ UNCHANGED <<answer, was, left, touched, removed, mixed>>
    BY <2>4 DEF Goes, SwapsAliases, PublishesAliases, StepOf, Others, Stays, Frame
  <2> QED
    BY <1>2, <2>1, <2>2, <2>3, <2>4 DEF Refreshes
<1>3. CASE Requires(c)
  <2>1. CASE /\ Goes(c, "alias", "project") /\ ReadsAlias(c, job[c].id)
             /\ UNCHANGED <<answer, was, left, touched, removed, mixed>>
    BY <2>1 DEF Goes, ReadsAlias, Looks, StepOf, Others, Stays, Tables, Frame
  <2>2. CASE /\ at[c] = "project" /\ Returns(c, FALSE, Found(c))
             /\ alias' = [alias EXCEPT ![c] = None] /\ Stays /\ UNCHANGED was
    BY <2>2 DEF Returns, Finishes, StepOf, Others, Stays, Tables
  <2> QED
    BY <1>3, <2>1, <2>2 DEF Requires
<1>4. CASE ChecksTarget(c)
  <2>1. CASE Fails(c)
    BY <1>4, <2>1 DEF ChecksTarget, Fails, FailsLeaving, Returns, Refused, StepOf, Others, Stays, Tables
  <2>2. CASE ~Fails(c)
    BY <1>4, <2>2 DEF ChecksTarget, Passes, Quiet, Frame, StepOf, Others, Stays, Tables, tables
  <2> QED
    BY <2>1, <2>2
<1>5. CASE MakesFolder(c)
  <2>1. CASE disk[job[c].folder] # None
    BY <1>5, <2>1 DEF MakesFolder, Fails, FailsLeaving, Returns, Refused, StepOf, Others, Stays, Tables
  <2>2. CASE disk[job[c].folder] = None
    BY <1>5, <2>2 DEF MakesFolder, Fills, Frame, StepOf, Others, Tables, tables
  <2> QED
    BY <2>1, <2>2
<1>6. CASE InitsGit(c)
  BY <1>6 DEF InitsGit, Fills, Skips, Quiet, Frame, StepOf, Others, Tables, tables
<1>7. CASE Clones(c)
  <2>1. CASE disk[job[c].folder] \notin {None, Empty}
    BY <1>7, <2>1 DEF Clones, Fails, FailsLeaving, Returns, Refused, StepOf, Others, Stays, Tables
  <2>2. CASE disk[job[c].folder] \in {None, Empty}
    BY <1>7, <2>2 DEF Clones, Fills, Frame, StepOf, Others, Tables, tables
  <2> QED
    BY <2>1, <2>2
<1>8. CASE ChecksCandidate(c)
  <2>1. CASE Unusable(c)
    BY <1>8, <2>1 DEF ChecksCandidate, Decides, FailsRemoving, FailsLeaving, Returns, Refused, Removes,
                      StepOf, Others, Tables
  <2>2. CASE ~Unusable(c)
    BY <1>8, <2>2 DEF ChecksCandidate, Decides, Passes, Quiet, Frame, StepOf, Others, Stays, Tables, tables
  <2> QED
    BY <2>1, <2>2
<1>9. CASE WritesManifest(c)
  <2> DEFINE manifest == ManifestOf(job[c].folder)
             merged == IF manifest = None THEN [id |-> job[c].id, aliases |-> {}]
                       ELSE [manifest EXCEPT !.id = IdIn(manifest, job[c].id)]
  <2>0. /\ at[c] = "manifest"
        /\ IF manifest = Bad THEN FailsRemoving(c)
           ELSE /\ IF merged = manifest THEN Stays
                   ELSE Puts(job[c].folder, [Folder(job[c].folder) EXCEPT !.manifest = merged])
                /\ at' = [at EXCEPT ![c] = "documents"]
                /\ UNCHANGED <<tables, job, built, answer, was, left, mixed>>
    BY <1>9 DEF WritesManifest
  <2>1. CASE manifest = Bad
    BY <2>0, <2>1 DEF FailsRemoving, FailsLeaving, Returns, Refused, Removes, StepOf, Others, Tables
  <2>2. CASE manifest # Bad /\ merged = manifest
    <3>1. manifest # None
      <4>1. manifest = None => merged \in Manifests
        BY <2>0 DEF Manifests, Jobs, OnItsWay
      <4> QED
        BY <2>2, <4>1, NothingIsNoValue
    <3>2. Skips(c)
      BY <2>0, <2>2, <3>1 DEF Skips, Quiet, Frame, Tables, tables
    <3> QED
      BY <2>0, <2>2, <3>2 DEF StepOf, Others, tables
  <2>3. CASE manifest # Bad /\ merged # manifest
    <3>1. Fills(c, [Folder(job[c].folder) EXCEPT !.manifest = merged])
      BY <2>0, <2>3 DEF Fills, Frame, Tables, tables
    <3> QED
      BY <2>0, <2>3, <3>1 DEF StepOf, Others, tables
  <2> QED
    BY <2>1, <2>2, <2>3
<1>10. CASE WritesDocuments(c)
  <2>1. CASE ManifestOf(job[c].folder) = Bad
    BY <1>10, <2>1 DEF WritesDocuments, FailsRemoving, FailsLeaving, Returns, Refused, Removes, StepOf, Others, Tables
  <2>2. CASE ManifestOf(job[c].folder) # Bad
    <3>1. job'[c] = [job[c] EXCEPT !.id = IdIn(ManifestOf(job[c].folder), NameOf[job[c].folder]), !.done = TRUE]
      BY <1>10, <2>2 DEF WritesDocuments
    <3>2. Others(c)
      BY <1>10, <2>2 DEF WritesDocuments, Others, tables
    <3> QED
      BY <1>10, <2>2, <3>1, <3>2 DEF WritesDocuments, Documents, StepOf, Tables, tables
  <2> QED
    BY <2>1, <2>2
<1>11. CASE StepFails(c)
  <2>1. left'.mishaps # left.mishaps
    BY <1>11 DEF StepFails
  <2> QED
    BY <1>11, <2>1 DEF StepFails, Refused, StepOf, Others, Tables, tables
<1>12. CASE Dies(c)
  BY <1>12 DEF Dies, Stops, StepOf, Others, Stays, Tables
<1> QED
  BY <1>1, <1>2, <1>3, <1>4, <1>5, <1>6, <1>7, <1>8, <1>9, <1>10, <1>11, <1>12 DEF BootStep

------------------------------------------------------------------------------
\* Types

\* The ids and aliases of a project.
LEMMA KeysAreIds ==
  ASSUME NEW d \in [Folders -> Contents \cup {None}], NEW f \in Discovered(d)
  PROVE  /\ f \in Folders /\ d[f] \in Contents /\ d[f].manifest \in Manifests \cup {None, Bad}
         /\ IdOf(d, f) \in Ids /\ AliasesOf(d, f) \subseteq Ids
<1>1. f \in Folders /\ d[f] \in Contents
  BY DEF Discovered
<1>2. d[f].manifest \in Manifests \cup {None, Bad}
  BY <1>1 DEF Contents
<1>3. HasManifest(d, f) => d[f].manifest.id \in Ids \cup {None} /\ d[f].manifest.aliases \subseteq Ids
  BY <1>2 DEF HasManifest, Manifests
<1> QED
  BY <1>1, <1>2, <1>3, FoldersHaveNames DEF IdOf, AliasesOf

\* The tables that refresh builds.
LEMMA BuildsTables ==
  ASSUME NEW d \in [Folders -> Contents \cup {None}]
  PROVE  IsProjectTable(ProjectTable(d)) /\ IsAliasTable(AliasTable(d))
<1>1. ASSUME NEW i \in DOMAIN ProjectTable(d)
      PROVE  i \in Ids /\ ProjectTable(d)[i] \in Folders
  <2>1. \E f \in Discovered(d) : IdOf(d, f) = i
    BY DEF ProjectTable
  <2>2. ProjectTable(d)[i] = CHOOSE f \in Discovered(d) : IdOf(d, f) = i
    BY DEF ProjectTable
  <2>3. ProjectTable(d)[i] \in Discovered(d)
    BY <2>1, <2>2
  <2> QED
    BY <2>1, <2>3, KeysAreIds
<1>2. ASSUME NEW a \in DOMAIN AliasTable(d)
      PROVE  a \in Ids /\ AliasTable(d)[a] \in Ids
  <2>1. \E f \in Discovered(d) : a \in AliasesOf(d, f)
    BY DEF AliasTable
  <2> DEFINE g == CHOOSE f \in Discovered(d) : a \in AliasesOf(d, f)
  <2>2. AliasTable(d)[a] = IdOf(d, g)
    BY DEF AliasTable
  <2>3. g \in Discovered(d) /\ a \in AliasesOf(d, g)
    BY <2>1
  <2> HIDE DEF g
  <2> QED
    BY <2>2, <2>3, KeysAreIds
<1> QED
  BY <1>1, <1>2 DEF IsProjectTable, IsAliasTable

\* Nobody calls yet.
LEMMA TypesInit == BootInit => Types
<1> SUFFICES ASSUME BootInit PROVE Types
  OBVIOUS
<1>1. disk \in [Folders -> Contents \cup {None}]
  BY DraftsAreContents DEF BootInit
<1>2. IsProjectTable(projects) /\ IsAliasTable(aliases)
  BY <1>1, BuildsTables DEF BootInit
<1>3. left \in [boots : Nat, resolves : Nat, edits : Nat, mishaps : Nat]
  BY BudgetsAreBounds DEF BootInit
<1>4. /\ at \in [Clients -> Points] /\ job \in [Clients -> Jobs \cup {None}]
      /\ built = [c \in Clients |-> built[c]] /\ alias = [c \in Clients |-> alias[c]]
      /\ answer \in [Clients -> Answers \cup {None}] /\ was = [c \in Clients |-> was[c]]
      /\ mixed \in BOOLEAN
  BY DEF BootInit, Points
<1>5. \A c \in Clients : OnItsWay(c)
  BY DEF BootInit, OnItsWay, Scaffolding
<1> QED
  BY <1>1, <1>2, <1>3, <1>4, <1>5 DEF Types

\* The budget only shrinks, as long as there is any.
LEMMA BudgetsStay ==
  ASSUME Types, BootNext
  PROVE  left' \in [boots : Nat, resolves : Nat, edits : Nat, mishaps : Nat]
<1> DEFINE Lefts == [boots : Nat, resolves : Nat, edits : Nat, mishaps : Nat]
<1>1. left \in Lefts
  BY DEF Types
<1>2. ASSUME NEW what \in {"boots", "resolves", "edits", "mishaps"}, left[what] > 0,
             left' = [left EXCEPT ![what] = @ - 1]
      PROVE  left' \in Lefts
  BY <1>1, <1>2
<1>3. ASSUME NEW c \in Clients, BootStep(c) PROVE left' \in Lefts
  <2> HIDE DEF Lefts
  <2>1. CASE Resolves(c) \/ BootsProject(c)
    <3>1. \E what \in {"boots", "resolves"} : Spends(what)
      BY <2>1 DEF Resolves, BootsProject, Starts
    <3> QED
      BY <1>2, <3>1 DEF Spends
  <2>2. CASE StepFails(c) \/ Dies(c)
    BY <1>2, <2>2 DEF StepFails, Dies
  <2>3. CASE ~(Resolves(c) \/ BootsProject(c) \/ StepFails(c) \/ Dies(c))
    <3>1. left' = left
      BY <1>3, <2>3 DEF BootStep, Refreshes, Requires, ChecksTarget, MakesFolder, InitsGit, Clones,
        ChecksCandidate, Decides, WritesManifest, WritesDocuments, Fails, FailsRemoving, FailsLeaving, Returns
    <3> QED
      BY <1>1, <3>1
  <2> QED
    BY <2>1, <2>2, <2>3
<1>4. ASSUME Edits PROVE left' \in Lefts
  <2>1. left["edits"] > 0 /\ left' = [left EXCEPT !["edits"] = @ - 1]
    BY <1>4 DEF Edits, Spends
  <2> HIDE DEF Lefts
  <2> QED
    BY <1>2, <2>1
<1> HIDE DEF Lefts
<1>5. left' \in Lefts
  BY <1>3, <1>4 DEF BootNext
<1> QED
  BY <1>5 DEF Lefts

\* A folder after a step.
LEMMA PutsFolder ==
  ASSUME disk \in [Folders -> Contents \cup {None}], NEW f \in Folders,
         NEW new \in Contents \cup {None}, Puts(f, new)
  PROVE  /\ disk' \in [Folders -> Contents \cup {None}]
         /\ \A g \in Folders : disk'[g] = IF g = f THEN new ELSE disk[g]
BY DEF Puts

\* What is written is the content of a folder.
LEMMA FillsContents ==
  ASSUME Types, NEW c \in Clients, NEW new, Fills(c, new)
  PROVE  new \in Contents /\ job[c] \in Jobs /\ job[c].folder \in Folders /\ job[c].op # "resolve" /\ ~job[c].done
<1>1. job[c] \in Jobs /\ job[c].folder \in Folders /\ job[c].op # "resolve" /\ ~job[c].done
  BY DEF Types, OnItsWay, Fills, Jobs, Scaffolding
<1>2. Empty \in Contents
  BY DEF Empty, Contents
<1>3. disk[job[c].folder] \in Contents \cup {None} /\ Folder(job[c].folder) \in Contents
  BY <1>1, <1>2 DEF Types, Folder
<1>4. job[c].brings \in Manifests \cup {None, Bad} /\ job[c].id \in Ids
  BY <1>1 DEF Jobs
<1>5. CASE new = Empty
  BY <1>1, <1>2, <1>5
<1>6. CASE disk[job[c].folder] # None /\ new = [disk[job[c].folder] EXCEPT !.git = TRUE]
  BY <1>1, <1>3, <1>6 DEF Contents
<1>7. CASE new = [git |-> TRUE, manifest |-> job[c].brings, docs |-> FALSE]
  BY <1>1, <1>4, <1>7 DEF Contents
<1>8. CASE ManifestOf(job[c].folder) # Bad
           /\ new = [Folder(job[c].folder) EXCEPT !.manifest =
                       IF ManifestOf(job[c].folder) = None THEN [id |-> job[c].id, aliases |-> {}]
                       ELSE [ManifestOf(job[c].folder) EXCEPT !.id = IdIn(ManifestOf(job[c].folder), job[c].id)]]
  <2>1. ManifestOf(job[c].folder) \in Manifests \cup {None}
    BY <1>3, <1>8 DEF ManifestOf, Contents
  <2> DEFINE old == ManifestOf(job[c].folder)
             merged == IF old = None THEN [id |-> job[c].id, aliases |-> {}]
                       ELSE [old EXCEPT !.id = IdIn(old, job[c].id)]
  <2>2. merged \in Manifests
    BY <1>4, <2>1 DEF Manifests, IdIn
  <2>3. new = [Folder(job[c].folder) EXCEPT !.manifest = merged]
    BY <1>8
  <2> HIDE DEF merged, old
  <2> QED
    BY <1>1, <1>3, <2>2, <2>3 DEF Contents
<1> QED
  BY <1>5, <1>6, <1>7, <1>8 DEF Fills

\* A step of one client, when what it changes has its type.
LEMMA TypesKept ==
  ASSUME Types, NEW c \in Clients, Others(c),
         disk' \in [Folders -> Contents \cup {None}], IsProjectTable(projects'), IsAliasTable(aliases'),
         at'[c] \in Points, job'[c] \in Jobs \cup {None}, answer'[c] \in Answers \cup {None},
         mixed' \in BOOLEAN, left' \in [boots : Nat, resolves : Nat, edits : Nat, mishaps : Nat],
         OnItsWay(c)'
  PROVE  Types'
<1>1. /\ at' \in [Clients -> Points] /\ job' \in [Clients -> Jobs \cup {None}]
      /\ built' = [d \in Clients |-> built'[d]] /\ alias' = [d \in Clients |-> alias'[d]]
      /\ answer' \in [Clients -> Answers \cup {None}] /\ was' = [d \in Clients |-> was'[d]]
  BY DEF Types, Others
<1>2. ASSUME NEW d \in Clients PROVE OnItsWay(d)'
  <2>1. CASE d = c
    BY <2>1
  <2>2. CASE d # c
    <3>1. at'[d] = at[d] /\ job'[d] = job[d] /\ built'[d] = built[d] /\ alias'[d] = alias[d]
      BY <2>2 DEF Types, Others
    <3>2. OnItsWay(d)
      BY DEF Types
    <3> QED
      BY <3>1, <3>2 DEF OnItsWay, IsProjectTable, IsAliasTable
  <2> QED
    BY <2>1, <2>2
<1> QED
  BY <1>1, <1>2 DEF Types

\* No step of a client gives a variable another type.
LEMMA TypesStep == ASSUME Types, NEW c \in Clients, BootStep(c) PROVE Types'
<1>s. StepOf(c) /\ Others(c)
  BY StepsOfClients
<1>l. left' \in [boots : Nat, resolves : Nat, edits : Nat, mishaps : Nat]
  BY BudgetsStay DEF BootNext
<1>t. /\ disk \in [Folders -> Contents \cup {None}] /\ IsProjectTable(projects) /\ IsAliasTable(aliases)
      /\ at[c] \in Points /\ job[c] \in Jobs \cup {None} /\ answer[c] \in Answers \cup {None}
      /\ mixed \in BOOLEAN /\ OnItsWay(c)
  BY DEF Types
<1>n. None \notin Jobs /\ \A j \in Jobs : j.folder \in Folders \cup {None} /\ j.id \in Ids
  BY NothingIsNoJob DEF Jobs
<1> SUFFICES /\ disk' \in [Folders -> Contents \cup {None}] /\ IsProjectTable(projects') /\ IsAliasTable(aliases')
             /\ at'[c] \in Points /\ job'[c] \in Jobs \cup {None} /\ answer'[c] \in Answers \cup {None}
             /\ mixed' \in BOOLEAN /\ OnItsWay(c)'
  BY <1>s, <1>l, TypesKept
<1> USE DEF Stays, Tables, Frame, Quiet
<1>1. CASE Begins(c)
  <2>1. OnItsWay(c)'
    BY <1>1, <1>n DEF Begins, OnItsWay, Scaffolding
  <2> QED
    BY <1>1, <1>t, <2>1 DEF Begins, Points
<1>2. CASE Gathers(c)
  <2>1. IsProjectTable(built'[c].ps) /\ IsAliasTable(built'[c].as)
    <3>1. built'[c].ps = ProjectTable(disk) /\ built'[c].as = AliasTable(disk)
      <4>1. built'[c] = [ps |-> ProjectTable(disk), as |-> AliasTable(disk)]
        BY <1>2 DEF Gathers
      <4> QED
        BY <4>1
    <3>2. IsProjectTable(ProjectTable(disk)) /\ IsAliasTable(AliasTable(disk))
      BY <1>t, BuildsTables
    <3> QED
      BY <3>1, <3>2
  <2>2. OnItsWay(c)'
    BY <1>2, <1>t, <2>1 DEF Gathers, OnItsWay, Scaffolding
  <2> QED
    BY <1>2, <1>t, <2>2 DEF Gathers, Points
<1>3. CASE Publishes(c)
  <2>1. IsProjectTable(built[c].ps) /\ IsAliasTable(built[c].as)
    BY <1>3, <1>t DEF Publishes, OnItsWay
  <2>2. OnItsWay(c)'
    BY <1>3, <1>t, <2>1 DEF Publishes, OnItsWay, Scaffolding
  <2> QED
    BY <1>3, <1>t, <2>1, <2>2 DEF Publishes, Points
<1>4. CASE PublishesAliases(c)
  <2>1. IsAliasTable(built[c].as)
    BY <1>4, <1>t DEF PublishesAliases, OnItsWay
  <2>2. OnItsWay(c)'
    BY <1>4, <1>t, <1>n DEF PublishesAliases, OnItsWay, Scaffolding, Jobs
  <2> QED
    BY <1>4, <1>t, <2>1, <2>2 DEF PublishesAliases, Points
<1>5. CASE Looks(c)
  <2>1. job[c] \in Jobs /\ job[c].id \in Ids
    BY <1>5, <1>t, <1>n DEF Looks, OnItsWay
  <2>2. alias'[c] \in Ids
    BY <1>5, <1>t, <2>1 DEF Looks, IsAliasTable
  <2>3. OnItsWay(c)'
    BY <1>5, <1>t, <2>2 DEF Looks, OnItsWay, Scaffolding
  <2> QED
    BY <1>5, <1>t, <2>3 DEF Looks, Points
<1>6. CASE Finishes(c)
  <2>1. job[c] \in Calls
    BY <1>6, <1>t DEF Finishes, OnItsWay, Calls
  <2>2. answer'[c] \in Answers
    <3>1. Found(c) \in Folders \cup {None}
      BY <1>t DEF Found, IsProjectTable
    <3> QED
      BY <1>6, <2>1, <3>1 DEF Finishes, Answer, Answers
  <2>3. OnItsWay(c)'
    BY <1>6 DEF Finishes, OnItsWay, Scaffolding
  <2> QED
    BY <1>6, <1>t, <2>2, <2>3 DEF Finishes, Points
<1>7. CASE Passes(c)
  <2>1. OnItsWay(c)'
    BY <1>7, <1>t, <1>n DEF Passes, OnItsWay, Scaffolding, Jobs
  <2> QED
    BY <1>7, <1>t, <2>1 DEF Passes, Points
<1>8. CASE Skips(c)
  <2>1. OnItsWay(c)'
    BY <1>8, <1>t DEF Skips, OnItsWay, Scaffolding
  <2> QED
    BY <1>8, <1>t, <2>1 DEF Skips, Points
<1>9. ASSUME NEW new, Fills(c, new)
      PROVE  /\ disk' \in [Folders -> Contents \cup {None}] /\ IsProjectTable(projects') /\ IsAliasTable(aliases')
             /\ at'[c] \in Points /\ job'[c] \in Jobs \cup {None} /\ answer'[c] \in Answers \cup {None}
             /\ mixed' \in BOOLEAN /\ OnItsWay(c)'
  <2>1. new \in Contents /\ job[c].folder \in Folders /\ job[c].op # "resolve" /\ ~job[c].done
    BY <1>9, FillsContents
  <2>2. disk' \in [Folders -> Contents \cup {None}]
    BY <1>9, <1>t, <2>1, PutsFolder DEF Fills
  <2>3. OnItsWay(c)'
    BY <1>9, <1>t, <2>1 DEF Fills, OnItsWay, Scaffolding
  <2>4. at'[c] \in Points
    BY <1>9 DEF Fills, Points
  <2> QED
    BY <1>9, <1>t, <2>2, <2>3, <2>4 DEF Fills
<1>10. CASE Documents(c)
  <2>1. job[c] \in Jobs /\ job[c].folder \in Folders /\ job[c].op # "resolve"
    BY <1>10, <1>t, <1>n DEF Documents, OnItsWay, Scaffolding
  <2>2. disk[job[c].folder] \in Contents \cup {None}
    BY <1>t, <2>1
  <2>3. Empty \in Contents
    BY DEF Empty, Contents
  <2>4. [Folder(job[c].folder) EXCEPT !.docs = TRUE] \in Contents
    BY <2>2, <2>3 DEF Folder, Contents
  <2>5. disk' \in [Folders -> Contents \cup {None}]
    BY <1>10, <1>t, <2>1, <2>4, PutsFolder DEF Documents
  <2>6. IdIn(ManifestOf(job[c].folder), NameOf[job[c].folder]) \in Ids
    <3>1. ManifestOf(job[c].folder) \in Manifests \cup {None}
      BY <1>10, <2>2 DEF Documents, ManifestOf, Contents
    <3> QED
      BY <2>1, <3>1, FoldersHaveNames DEF IdIn, Manifests
  <2>7. job'[c] \in Jobs /\ job'[c].done /\ job'[c].op = job[c].op /\ job'[c].folder = job[c].folder
    BY <1>10, <2>1, <2>6 DEF Documents, Jobs
  <2>8. OnItsWay(c)'
    BY <1>10, <1>t, <1>n, <2>1, <2>7 DEF Documents, OnItsWay, Scaffolding
  <2> QED
    BY <1>10, <1>t, <2>5, <2>7, <2>8 DEF Documents, Points
<1>11. CASE Refused(c)
  <2>1. job[c] \in Calls /\ job[c] \in Jobs
    BY <1>11, <1>t DEF Refused, OnItsWay, Calls
  <2>2. answer'[c] \in Answers
    BY <1>11, <2>1 DEF Refused, Answer, Answers
  <2>3. disk' \in [Folders -> Contents \cup {None}]
    <3>1. Stays \/ (Puts(job[c].folder, None) /\ job[c].op = "clone")
      BY <1>11 DEF Refused, Removes
    <3>2. job[c].op = "clone" => job[c].folder \in Folders
      BY <1>11, <1>t, <2>1 DEF Refused, OnItsWay, Jobs
    <3> QED
      BY <1>t, <3>1, <3>2, PutsFolder
  <2>4. OnItsWay(c)'
    BY <1>11 DEF Refused, OnItsWay, Scaffolding
  <2> QED
    BY <1>11, <1>t, <2>2, <2>3, <2>4 DEF Refused, Points
<1>12. CASE Stops(c)
  <2>1. OnItsWay(c)'
    BY <1>12 DEF Stops, OnItsWay, Scaffolding
  <2> QED
    BY <1>12, <1>t, <2>1 DEF Stops, Points
<1> QED
  BY <1>s, <1>1, <1>2, <1>3, <1>4, <1>5, <1>6, <1>7, <1>8, <1>9, <1>10, <1>11, <1>12 DEF StepOf

\* Nor does somebody who edits a folder.
LEMMA TypesEdits == ASSUME Types, Edits PROVE Types'
<1>1. disk' \in [Folders -> Contents \cup {None}]
  <2>1. PICK f \in Folders, new \in Drafts : Puts(f, new)
    BY DEF Edits
  <2> QED
    BY <2>1, PutsFolder, DraftsAreContents DEF Types
<1>2. left' \in [boots : Nat, resolves : Nat, edits : Nat, mishaps : Nat]
  BY BudgetsStay DEF BootNext
<1>3. UNCHANGED <<projects, aliases, at, job, built, alias, answer, was>> /\ mixed' \in BOOLEAN
  BY DEF Edits, tables, callers, Types
<1>4. \A c \in Clients : OnItsWay(c)'
  BY <1>3 DEF Types, OnItsWay, IsProjectTable, IsAliasTable
<1> QED
  BY <1>1, <1>2, <1>3, <1>4 DEF Types

------------------------------------------------------------------------------
\* Ids and aliases that nobody touched

ProjectsWith(d, key) == {f \in Discovered(d) : IdOf(d, f) = key}
AliasedTo(d, key) == {f \in Discovered(d) : key \in AliasesOf(d, f)}

\* A key has at most one meaning.
Sole(d, key) ==
  /\ \A e, f \in ProjectsWith(d, key) : e = f
  /\ \A e, f \in AliasedTo(d, key) : e = f

\* What a table says of a key is so.
Agrees(ps, d, key) ==
  IF key \in DOMAIN ps THEN ps[key] \in ProjectsWith(d, key) ELSE ProjectsWith(d, key) = {}
AgreesAlias(as, d, key) ==
  IF key \in DOMAIN as THEN \E f \in AliasedTo(d, key) : as[key] = IdOf(d, f)
  ELSE AliasedTo(d, key) = {}

\* The id that get() looks up for a key.
Leads(d, key, id) ==
  IF AliasedTo(d, key) = {} THEN id = key ELSE \E f \in AliasedTo(d, key) : id = IdOf(d, f)

Gathered(c, key) ==
  at[c] \in {"swap projects", "swap aliases"} =>
    Agrees(built[c].ps, disk, key) /\ AgreesAlias(built[c].as, disk, key)
Looked(c, key) == at[c] = "project" /\ job[c].id = key => Leads(disk, key, alias[c])
AnswersRight(c, key) ==
  answer[c] # None /\ answer[c].job.op = "resolve" /\ ~answer[c].failed /\ answer[c].job.id = key =>
    \A id \in Ids \ touched :
      Leads(disk, key, id) =>
        IF answer[c].folder = None THEN ProjectsWith(disk, id) = {}
        ELSE answer[c].folder \in ProjectsWith(disk, id)

Settled ==
  \A key \in Ids \ touched :
    /\ Sole(disk, key) /\ Agrees(projects, disk, key) /\ AgreesAlias(aliases, disk, key)
    /\ \A c \in Clients : Gathered(c, key) /\ Looked(c, key) /\ AnswersRight(c, key)

\* The tables that refresh builds say what is on the disk.
LEMMA BuildsAgree ==
  ASSUME NEW d \in [Folders -> Contents \cup {None}], NEW key
  PROVE  Agrees(ProjectTable(d), d, key) /\ AgreesAlias(AliasTable(d), d, key)
<1>1. Agrees(ProjectTable(d), d, key)
  <2>1. CASE \E f \in Discovered(d) : IdOf(d, f) = key
    <3>1. key \in DOMAIN ProjectTable(d)
      BY <2>1 DEF ProjectTable
    <3>2. ProjectTable(d)[key] = CHOOSE f \in Discovered(d) : IdOf(d, f) = key
      BY <3>1 DEF ProjectTable
    <3>3. ProjectTable(d)[key] \in Discovered(d) /\ IdOf(d, ProjectTable(d)[key]) = key
      BY <2>1, <3>2
    <3> QED
      BY <3>1, <3>3 DEF Agrees, ProjectsWith
  <2>2. CASE ~\E f \in Discovered(d) : IdOf(d, f) = key
    <3>1. key \notin DOMAIN ProjectTable(d)
      BY <2>2 DEF ProjectTable
    <3> QED
      BY <2>2, <3>1 DEF Agrees, ProjectsWith
  <2> QED
    BY <2>1, <2>2
<1>2. AgreesAlias(AliasTable(d), d, key)
  <2>1. CASE \E f \in Discovered(d) : key \in AliasesOf(d, f)
    <3> DEFINE g == CHOOSE f \in Discovered(d) : key \in AliasesOf(d, f)
    <3>1. key \in DOMAIN AliasTable(d)
      BY <2>1 DEF AliasTable
    <3>2. AliasTable(d)[key] = IdOf(d, g)
      BY <3>1 DEF AliasTable
    <3>3. g \in Discovered(d) /\ key \in AliasesOf(d, g)
      BY <2>1
    <3> HIDE DEF g
    <3> QED
      BY <3>1, <3>2, <3>3 DEF AgreesAlias, AliasedTo
  <2>2. CASE ~\E f \in Discovered(d) : key \in AliasesOf(d, f)
    <3>1. key \notin DOMAIN AliasTable(d)
      BY <2>2 DEF AliasTable
    <3> QED
      BY <2>2, <3>1 DEF AgreesAlias, AliasedTo
  <2> QED
    BY <2>1, <2>2
<1> QED
  BY <1>1, <1>2

\* Where refresh finds no conflict, every key has one meaning.
LEMMA NoConflictIsSole ==
  ASSUME NEW d \in [Folders -> Contents \cup {None}], ~Conflict(d), NEW key
  PROVE  Sole(d, key)
<1>1. \A e, f \in Discovered(d) : e < f => IdOf(d, e) # IdOf(d, f) /\ AliasesOf(d, e) \cap AliasesOf(d, f) = {}
  BY DEF Conflict
<1>2. \A e, f \in Discovered(d) : e = f \/ e < f \/ f < e
  BY FoldersAreNumbers DEF Discovered
<1>3. ASSUME NEW e \in ProjectsWith(d, key), NEW f \in ProjectsWith(d, key) PROVE e = f
  BY <1>1, <1>2 DEF ProjectsWith
<1>4. ASSUME NEW e \in AliasedTo(d, key), NEW f \in AliasedTo(d, key) PROVE e = f
  BY <1>1, <1>2 DEF AliasedTo
<1> QED
  BY <1>3, <1>4 DEF Sole

\* The disk of a step: as it was, or another folder.
DiskMoves == Stays \/ \E f \in Folders, new \in Contents \cup {None} : Puts(f, new)

\* What nobody touched means what it meant.
LEMMA MeaningsStay ==
  ASSUME Types, DiskMoves
  PROVE  /\ touched \subseteq touched'
         /\ \A key \in Ids \ touched' :
              /\ ProjectsWith(disk', key) = ProjectsWith(disk, key)
              /\ AliasedTo(disk', key) = AliasedTo(disk, key)
              /\ \A f \in AliasedTo(disk, key) : IdOf(disk', f) = IdOf(disk, f)
<1>1. CASE Stays
  BY <1>1 DEF Stays
<1>2. ASSUME NEW f \in Folders, NEW new \in Contents \cup {None}, Puts(f, new)
      PROVE  /\ touched \subseteq touched'
             /\ \A key \in Ids \ touched' :
                  /\ ProjectsWith(disk', key) = ProjectsWith(disk, key)
                  /\ AliasedTo(disk', key) = AliasedTo(disk, key)
                  /\ \A g \in AliasedTo(disk, key) : IdOf(disk', g) = IdOf(disk, g)
  <2>1. touched' = touched \cup KeysOf(disk, f) \cup KeysOf(disk', f)
    BY <1>2 DEF Puts
  <2>2. /\ DOMAIN disk = Folders /\ \A g \in Folders \ {f} : disk'[g] = disk[g]
    BY <1>2, PutsFolder DEF Types
  <2>3. \A g \in Folders \ {f} : /\ (g \in Discovered(disk') <=> g \in Discovered(disk))
                                 /\ IdOf(disk', g) = IdOf(disk, g)
                                 /\ AliasesOf(disk', g) = AliasesOf(disk, g)
    BY <2>2 DEF Discovered, IdOf, AliasesOf, HasManifest
  <2>4. \A d : Discovered(d) \subseteq Folders
    BY DEF Discovered
  <2>5. ASSUME NEW key \in Ids \ touched'
        PROVE  /\ f \notin ProjectsWith(disk, key) \cup AliasedTo(disk, key)
               /\ f \notin ProjectsWith(disk', key) \cup AliasedTo(disk', key)
    BY <2>1 DEF KeysOf, ProjectsWith, AliasedTo
  <2>6. ASSUME NEW key \in Ids \ touched'
        PROVE  /\ ProjectsWith(disk', key) = ProjectsWith(disk, key)
               /\ AliasedTo(disk', key) = AliasedTo(disk, key)
               /\ \A g \in AliasedTo(disk, key) : IdOf(disk', g) = IdOf(disk, g)
    <3>1. \A g \in Folders \ {f} : /\ (g \in ProjectsWith(disk', key) <=> g \in ProjectsWith(disk, key))
                                   /\ (g \in AliasedTo(disk', key) <=> g \in AliasedTo(disk, key))
      BY <2>3 DEF ProjectsWith, AliasedTo
    <3>2. \A d : ProjectsWith(d, key) \subseteq Folders /\ AliasedTo(d, key) \subseteq Folders
      BY <2>4 DEF ProjectsWith, AliasedTo
    <3>3. /\ ProjectsWith(disk', key) \subseteq Folders /\ AliasedTo(disk', key) \subseteq Folders
          /\ ProjectsWith(disk, key) \subseteq Folders /\ AliasedTo(disk, key) \subseteq Folders
      BY <3>2
    <3>4. ProjectsWith(disk', key) = ProjectsWith(disk, key) /\ AliasedTo(disk', key) = AliasedTo(disk, key)
      <4> DEFINE P == ProjectsWith(disk, key)
                 Q == ProjectsWith(disk', key)
                 A == AliasedTo(disk, key)
                 B == AliasedTo(disk', key)
      <4>1. /\ P \subseteq Folders /\ Q \subseteq Folders /\ f \notin P /\ f \notin Q
            /\ A \subseteq Folders /\ B \subseteq Folders /\ f \notin A /\ f \notin B
            /\ \A g \in Folders \ {f} : (g \in Q <=> g \in P) /\ (g \in B <=> g \in A)
        BY <2>5, <3>1, <3>3
      <4> HIDE DEF P, Q, A, B
      <4>2. P = Q /\ A = B
        BY <4>1
      <4> QED
        BY <4>2 DEF P, Q, A, B
    <3>5. \A g \in AliasedTo(disk, key) : IdOf(disk', g) = IdOf(disk, g)
      BY <2>3, <2>5, <3>3
    <3> QED
      BY <3>4, <3>5
  <2> QED
    BY <2>1, <2>6
<1> QED
  BY <1>1, <1>2 DEF DiskMoves

\* So do the tables and the answers.
LEMMA AgreementsStay ==
  ASSUME Types, DiskMoves, NEW key \in Ids \ touched'
  PROVE  /\ key \in Ids \ touched
         /\ Sole(disk, key) => Sole(disk', key)
         /\ \A ps : Agrees(ps, disk, key) => Agrees(ps, disk', key)
         /\ \A as : AgreesAlias(as, disk, key) => AgreesAlias(as, disk', key)
         /\ \A id : Leads(disk', key, id) <=> Leads(disk, key, id)
<1>1. /\ key \in Ids \ touched /\ ProjectsWith(disk', key) = ProjectsWith(disk, key)
      /\ AliasedTo(disk', key) = AliasedTo(disk, key)
      /\ \A f \in AliasedTo(disk, key) : IdOf(disk', f) = IdOf(disk, f)
  BY MeaningsStay
<1>2. Sole(disk, key) => Sole(disk', key)
  BY <1>1 DEF Sole
<1>3. \A ps : Agrees(ps, disk, key) => Agrees(ps, disk', key)
  BY <1>1 DEF Agrees
<1>4. \A as : AgreesAlias(as, disk, key) => AgreesAlias(as, disk', key)
  BY <1>1 DEF AgreesAlias
<1>5. \A id : Leads(disk', key, id) <=> Leads(disk, key, id)
  BY <1>1 DEF Leads
<1> QED
  BY <1>1, <1>2, <1>3, <1>4, <1>5

\* What a client knows of a key, when it does nothing.
LEMMA KnowledgeStays ==
  ASSUME Types, DiskMoves, NEW key \in Ids \ touched', NEW c \in Clients,
         Gathered(c, key), Looked(c, key), AnswersRight(c, key)
  PROVE  /\ at'[c] = at[c] /\ built'[c] = built[c] => Gathered(c, key)'
         /\ at'[c] = at[c] /\ job'[c] = job[c] /\ alias'[c] = alias[c] => Looked(c, key)'
         /\ answer'[c] = answer[c] => AnswersRight(c, key)'
<1>1. /\ \A ps : Agrees(ps, disk, key) => Agrees(ps, disk', key)
      /\ \A as : AgreesAlias(as, disk, key) => AgreesAlias(as, disk', key)
      /\ \A id : Leads(disk', key, id) <=> Leads(disk, key, id)
  BY AgreementsStay
<1>2. \A id \in Ids \ touched' : id \in Ids \ touched /\ ProjectsWith(disk', id) = ProjectsWith(disk, id)
  BY MeaningsStay
<1>3. at'[c] = at[c] /\ built'[c] = built[c] => Gathered(c, key)'
  BY <1>1 DEF Gathered
<1>4. at'[c] = at[c] /\ job'[c] = job[c] /\ alias'[c] = alias[c] => Looked(c, key)'
  BY <1>1 DEF Looked
<1>5. answer'[c] = answer[c] => AnswersRight(c, key)'
  BY <1>1, <1>2 DEF AnswersRight
<1> QED
  BY <1>3, <1>4, <1>5

\* Nothing was touched, and nothing conflicts.
LEMMA SettledInit == BootInit => Settled
<1> SUFFICES ASSUME BootInit, NEW key \in Ids
             PROVE  /\ Sole(disk, key) /\ Agrees(projects, disk, key) /\ AgreesAlias(aliases, disk, key)
                    /\ \A c \in Clients : Gathered(c, key) /\ Looked(c, key) /\ AnswersRight(c, key)
  BY DEF Settled
<1>1. disk \in [Folders -> Contents \cup {None}]
  BY TypesInit DEF Types
<1>2. Sole(disk, key)
  BY <1>1, NoConflictIsSole DEF BootInit
<1>3. Agrees(projects, disk, key) /\ AgreesAlias(aliases, disk, key)
  BY <1>1, BuildsAgree DEF BootInit
<1>4. \A c \in Clients : at[c] = "idle" /\ answer[c] = None
  BY DEF BootInit
<1> QED
  BY <1>2, <1>3, <1>4 DEF Gathered, Looked, AnswersRight

\* Every step of a client leaves the disk alone or writes to its own folder.
LEMMA StepsMoveTheDisk ==
  ASSUME Types, NEW c \in Clients, BootStep(c)
  PROVE  DiskMoves /\ \A f \in Folders : f # job[c].folder => disk'[f] = disk[f]
<1>s. StepOf(c)
  BY StepsOfClients
<1>t. disk \in [Folders -> Contents \cup {None}]
  BY DEF Types
<1>1. ASSUME NEW f \in Folders, NEW new \in Contents \cup {None}, Puts(f, new), f = job[c].folder
      PROVE  DiskMoves /\ \A g \in Folders : g # job[c].folder => disk'[g] = disk[g]
  BY <1>1, <1>t, PutsFolder DEF DiskMoves
<1>2. CASE Stays
  BY <1>2 DEF DiskMoves, Stays
<1>3. ASSUME NEW new, Fills(c, new) PROVE new \in Contents /\ job[c].folder \in Folders /\ Puts(job[c].folder, new)
  BY <1>3, FillsContents DEF Fills
<1>4. ASSUME ~Stays, \A new : ~Fills(c, new)
      PROVE  \E new \in Contents \cup {None} : job[c].folder \in Folders /\ Puts(job[c].folder, new)
  <2>1. CASE Documents(c)
    <3>1. job[c].folder \in Folders
      BY <2>1 DEF Documents, Types, OnItsWay, Scaffolding, Jobs
    <3>2. Folder(job[c].folder) \in Contents
      BY <1>t, <3>1 DEF Folder, Empty, Contents
    <3>3. [Folder(job[c].folder) EXCEPT !.docs = TRUE] \in Contents
      BY <3>2 DEF Contents
    <3> QED
      BY <2>1, <3>1, <3>3 DEF Documents
  <2>2. CASE Refused(c)
    <3>1. Puts(job[c].folder, None) /\ job[c].op = "clone"
      BY <1>4, <2>2 DEF Refused, Removes
    <3>2. job[c].folder \in Folders
      BY <2>2, <3>1 DEF Refused, Types, OnItsWay, Jobs
    <3> QED
      BY <3>1, <3>2
  <2> QED
    BY <1>s, <1>4, <2>1, <2>2 DEF StepOf, Begins, Gathers, Publishes, PublishesAliases, Looks, Finishes,
                                 Passes, Skips, Stops, Quiet
<1> QED
  BY <1>1, <1>2, <1>3, <1>4

\* No step of a client makes a table or an answer wrong about what nobody touched.
LEMMA SettledStep == ASSUME Types, Settled, NEW c \in Clients, BootStep(c) PROVE Settled'
<1>s. StepOf(c) /\ Others(c)
  BY StepsOfClients
<1>t. /\ disk \in [Folders -> Contents \cup {None}] /\ IsProjectTable(projects) /\ IsAliasTable(aliases)
      /\ OnItsWay(c) /\ (at[c] # "idle" => job[c] \in Jobs)
  BY DEF Types, OnItsWay
<1>m. DiskMoves
  BY StepsMoveTheDisk
<1> SUFFICES ASSUME NEW key \in Ids \ touched'
             PROVE  /\ Sole(disk', key) /\ Agrees(projects', disk', key) /\ AgreesAlias(aliases', disk', key)
                    /\ \A d \in Clients : Gathered(d, key)' /\ Looked(d, key)' /\ AnswersRight(d, key)'
  BY DEF Settled
<1>a. /\ key \in Ids \ touched /\ (Sole(disk, key) => Sole(disk', key))
      /\ \A ps : Agrees(ps, disk, key) => Agrees(ps, disk', key)
      /\ \A as : AgreesAlias(as, disk, key) => AgreesAlias(as, disk', key)
      /\ \A id : Leads(disk', key, id) <=> Leads(disk, key, id)
  BY <1>m, AgreementsStay
<1>o. /\ Sole(disk, key) /\ Agrees(projects, disk, key) /\ AgreesAlias(aliases, disk, key)
      /\ \A d \in Clients : Gathered(d, key) /\ Looked(d, key) /\ AnswersRight(d, key)
  BY <1>a DEF Settled
<1>k. ASSUME NEW d \in Clients
      PROVE  /\ at'[d] = at[d] /\ built'[d] = built[d] => Gathered(d, key)'
             /\ at'[d] = at[d] /\ job'[d] = job[d] /\ alias'[d] = alias[d] => Looked(d, key)'
             /\ answer'[d] = answer[d] => AnswersRight(d, key)'
  BY <1>m, <1>o, KnowledgeStays
<1>1. Sole(disk', key)
  BY <1>a, <1>o
<1>2. Agrees(projects', disk', key)
  <2>1. projects' = projects \/ (projects' = built[c].ps /\ at[c] = "swap projects")
    BY <1>s DEF StepOf, Begins, Gathers, Publishes, PublishesAliases, Looks, Finishes, Passes, Fills, Skips,
                Documents, Refused, Stops, Tables
  <2>2. Agrees(projects', disk, key)
    BY <1>o, <2>1 DEF Gathered
  <2> QED
    BY <1>a, <2>2
<1>3. AgreesAlias(aliases', disk', key)
  <2>1. aliases' = aliases \/ (aliases' = built[c].as /\ at[c] = "swap aliases")
    BY <1>s DEF StepOf, Begins, Gathers, Publishes, PublishesAliases, Looks, Finishes, Passes, Fills, Skips,
                Documents, Refused, Stops, Tables
  <2>2. AgreesAlias(aliases', disk, key)
    BY <1>o, <2>1 DEF Gathered
  <2> QED
    BY <1>a, <2>2
<1>4. ASSUME NEW d \in Clients \ {c} PROVE Gathered(d, key)' /\ Looked(d, key)' /\ AnswersRight(d, key)'
  <2>1. at'[d] = at[d] /\ job'[d] = job[d] /\ built'[d] = built[d] /\ alias'[d] = alias[d] /\ answer'[d] = answer[d]
    BY <1>s DEF Types, Others
  <2> QED
    BY <1>k, <2>1
<1>5. Gathered(c, key)'
  <2>1. CASE Gathers(c)
    <3>1. built'[c] = [ps |-> ProjectTable(disk), as |-> AliasTable(disk)] /\ disk' = disk
      BY <2>1 DEF Gathers, Stays
    <3>2. built'[c].ps = ProjectTable(disk) /\ built'[c].as = AliasTable(disk)
      BY <3>1
    <3>3. Agrees(ProjectTable(disk), disk, key) /\ AgreesAlias(AliasTable(disk), disk, key)
      BY <1>t, BuildsAgree
    <3> QED
      BY <3>1, <3>2, <3>3 DEF Gathered
  <2>2. CASE Publishes(c)
    <3>1. at[c] = "swap projects" /\ built'[c] = built[c]
      BY <2>2 DEF Publishes, Quiet
    <3> QED
      BY <1>a, <1>o, <3>1 DEF Gathered
  <2>3. CASE at'[c] \notin {"swap projects", "swap aliases"}
    BY <2>3 DEF Gathered
  <2>4. Gathers(c) \/ Publishes(c) \/ at'[c] \notin {"swap projects", "swap aliases"}
    BY <1>s DEF StepOf, Begins, PublishesAliases, Looks, Finishes, Passes, Fills, Skips, Documents, Refused, Stops
  <2> QED
    BY <2>1, <2>2, <2>3, <2>4
<1>6. Looked(c, key)'
  <2>1. CASE Looks(c) /\ job[c].id = key
    <3>1. alias'[c] = (IF key \in DOMAIN aliases THEN aliases[key] ELSE key)
      BY <2>1 DEF Looks
    <3>2. Leads(disk, key, alias'[c])
      BY <1>o, <3>1 DEF AgreesAlias, Leads
    <3> QED
      BY <1>a, <3>2 DEF Looked
  <2>2. CASE ~(Looks(c) /\ job[c].id = key)
    <3>1. Looks(c) \/ at'[c] # "project"
      BY <1>s DEF StepOf, Begins, Gathers, Publishes, PublishesAliases, Finishes, Passes, Fills, Skips,
                  Documents, Refused, Stops
    <3>2. Looks(c) => job'[c] = job[c]
      BY DEF Looks, Frame
    <3> QED
      BY <2>2, <3>1, <3>2 DEF Looked
  <2> QED
    BY <2>1, <2>2
<1>7. AnswersRight(c, key)'
  <2>1. CASE Finishes(c)
    <3>0. /\ at[c] = "project" /\ job[c] \in Jobs /\ disk' = disk /\ touched' = touched
          /\ answer'[c].job = job[c] /\ answer'[c].folder = Found(c)
      BY <1>t, <2>1 DEF Finishes, Answer, Stays
    <3> SUFFICES ASSUME job[c].id = key, NEW id \in Ids \ touched, Leads(disk, key, id)
                 PROVE  IF Found(c) = None THEN ProjectsWith(disk, id) = {}
                        ELSE Found(c) \in ProjectsWith(disk, id)
      BY <3>0 DEF AnswersRight
    <3>1. Leads(disk, key, alias[c])
      BY <1>o, <3>0 DEF Looked
    <3>2. alias[c] = id
      BY <1>o, <3>1 DEF Leads, Sole
    <3>3. Agrees(projects, disk, id)
      BY DEF Settled
    <3>4. \A i \in DOMAIN projects : projects[i] # None
      BY <1>t, NothingIsNoValue DEF IsProjectTable
    <3> QED
      BY <3>2, <3>3, <3>4 DEF Found, Agrees
  <2>2. CASE answer'[c] = answer[c]
    BY <1>k, <2>2
  <2>3. CASE answer'[c] = None
    BY <2>3 DEF AnswersRight
  <2>4. CASE answer'[c] = Answer(c, TRUE, None)
    BY <2>4 DEF AnswersRight, Answer
  <2>5. Finishes(c) \/ answer'[c] \in {answer[c], None, Answer(c, TRUE, None)}
    BY <1>s DEF StepOf, Begins, Gathers, Publishes, PublishesAliases, Looks, Passes, Fills, Skips,
                Documents, Refused, Stops, Frame, Quiet
  <2> QED
    BY <2>1, <2>2, <2>3, <2>4, <2>5
<1>8. ASSUME NEW d \in Clients PROVE Gathered(d, key)' /\ Looked(d, key)' /\ AnswersRight(d, key)'
  <2>1. CASE d = c
    BY <1>5, <1>6, <1>7, <2>1
  <2>2. CASE d # c
    BY <1>4, <2>2
  <2> QED
    BY <2>1, <2>2
<1> QED
  BY <1>1, <1>2, <1>3, <1>8

\* Nor does an edit.
LEMMA SettledEdits == ASSUME Types, Settled, Edits PROVE Settled'
<1>m. DiskMoves
  BY DraftsAreContents DEF Edits, DiskMoves
<1>u. UNCHANGED <<projects, aliases, at, job, built, alias, answer>>
  BY DEF Edits, tables, callers
<1> SUFFICES ASSUME NEW key \in Ids \ touched'
             PROVE  /\ Sole(disk', key) /\ Agrees(projects', disk', key) /\ AgreesAlias(aliases', disk', key)
                    /\ \A d \in Clients : Gathered(d, key)' /\ Looked(d, key)' /\ AnswersRight(d, key)'
  BY DEF Settled
<1>a. /\ key \in Ids \ touched /\ (Sole(disk, key) => Sole(disk', key))
      /\ \A ps : Agrees(ps, disk, key) => Agrees(ps, disk', key)
      /\ \A as : AgreesAlias(as, disk, key) => AgreesAlias(as, disk', key)
  BY <1>m, AgreementsStay
<1>o. /\ Sole(disk, key) /\ Agrees(projects, disk, key) /\ AgreesAlias(aliases, disk, key)
      /\ \A d \in Clients : Gathered(d, key) /\ Looked(d, key) /\ AnswersRight(d, key)
  BY <1>a DEF Settled
<1>1. \A d \in Clients : Gathered(d, key)' /\ Looked(d, key)' /\ AnswersRight(d, key)'
  BY <1>m, <1>o, <1>u, KnowledgeStays
<1> QED
  BY <1>a, <1>o, <1>u, <1>1

\* registry.py:20-30, 61-63: what nobody touched is found.
LEMMA SettledIsFound == ASSUME Types, Settled PROVE UntouchedIsFound
<1> DEFINE as == AliasTable(disk)
           untouched(key) == key \notin touched /\ (key \in DOMAIN as => as[key] \notin touched)
<1> SUFFICES ASSUME NEW c \in Clients, answer[c] # None, answer[c].job.op = "resolve", ~answer[c].failed,
                    untouched(answer[c].job.id)
             PROVE  answer[c].folder = Get(ProjectTable(disk), as, answer[c].job.id)
  BY DEF UntouchedIsFound
<1> DEFINE key == answer[c].job.id
           id == IF key \in DOMAIN as THEN as[key] ELSE key
           ps == ProjectTable(disk)
<1>1. /\ disk \in [Folders -> Contents \cup {None}] /\ key \in Ids
      /\ answer[c].folder \in Folders \cup {None}
  BY DEF Types, Answers, Calls, Jobs
<1>2. IsAliasTable(as) /\ AgreesAlias(as, disk, key)
  BY <1>1, BuildsTables, BuildsAgree
<1>3. id \in Ids \ touched /\ key \in Ids \ touched
  BY <1>1, <1>2 DEF IsAliasTable
<1>4. Leads(disk, key, id)
  BY <1>2 DEF AgreesAlias, Leads
<1>5. IF answer[c].folder = None THEN ProjectsWith(disk, id) = {} ELSE answer[c].folder \in ProjectsWith(disk, id)
  BY <1>3, <1>4 DEF Settled, AnswersRight
<1>6. Agrees(ps, disk, id) /\ Sole(disk, id)
  BY <1>1, <1>3, BuildsAgree DEF Settled
<1>7. Get(ps, as, key) = IF id \in DOMAIN ps THEN ps[id] ELSE None
  BY DEF Get
<1> HIDE DEF as, key, id, ps
<1>8. Get(ps, as, key) = answer[c].folder
  BY <1>5, <1>6, <1>7 DEF Agrees, Sole
<1> QED
  BY <1>8 DEF as, key, ps

------------------------------------------------------------------------------
\* Who created a folder

Owns(c, f) ==
  \/ /\ at[c] # "idle" /\ job[c].op = "create" /\ job[c].folder = f
     /\ at[c] \in {"init", "manifest", "documents"} \/ job[c].done
  \/ /\ answer[c] # None /\ answer[c].job.op = "create" /\ ~answer[c].failed
     /\ answer[c].job.folder = f

\* A folder that nobody removed is there, once a call has created it, and no other call has.
OwnedOnce ==
  \A f \in Folders \ removed : \A c \in Clients :
    Owns(c, f) => disk[f] # None /\ \A d \in Clients : Owns(d, f) => d = c

\* A folder that is there stays, unless it is removed.
LEMMA FoldersStay ==
  ASSUME Types, DiskMoves
  PROVE  removed \subseteq removed' /\ \A f \in Folders \ removed' : disk[f] # None => disk'[f] # None
<1>1. CASE Stays
  BY <1>1 DEF Stays
<1>2. ASSUME NEW g \in Folders, NEW new \in Contents \cup {None}, Puts(g, new)
      PROVE  removed \subseteq removed' /\ \A f \in Folders \ removed' : disk[f] # None => disk'[f] # None
  <2>1. \A f \in Folders : disk'[f] = IF f = g THEN new ELSE disk[f]
    BY <1>2, PutsFolder DEF Types
  <2>2. removed' = IF new = None THEN removed \cup {g} ELSE removed
    BY <1>2 DEF Puts
  <2> QED
    BY <2>1, <2>2
<1> QED
  BY <1>1, <1>2 DEF DiskMoves

\* A client comes to own a folder when it makes it.
LEMMA OwnersMakeIt ==
  ASSUME Types, NEW c \in Clients, BootStep(c), NEW f \in Folders, Owns(c, f)', ~Owns(c, f)
  PROVE  disk[f] = None /\ disk'[f] # None
<1>s. StepOf(c)
  BY StepsOfClients
<1>t. OnItsWay(c) /\ disk \in [Folders -> Contents \cup {None}]
  BY DEF Types
<1>1. CASE \E new : Fills(c, new)
  <2>1. PICK new : Fills(c, new)
    BY <1>1
  <2>2. at[c] = "mkdir" /\ job[c].folder = f
    BY <1>t, <2>1 DEF Fills, Frame, Owns, OnItsWay
  <2>3. disk[f] = None /\ new = Empty
    BY <2>1, <2>2 DEF Fills
  <2>4. new \in Contents /\ Puts(f, new)
    BY <2>1, <2>2, FillsContents DEF Fills
  <2> QED
    BY <1>t, <2>3, <2>4, PutsFolder, NothingIsNoValue
<1>2. CASE Finishes(c)
  <2>1. Owns(c, f)
    BY <1>2, <1>t DEF Finishes, Answer, Owns, OnItsWay
  <2> QED
    BY <2>1
<1>3. CASE Documents(c)
  <2>1. job'[c].op = job[c].op /\ job'[c].folder = job[c].folder
    <3>1. job[c] \in Jobs
      BY <1>t, <1>3 DEF Documents, Types, OnItsWay
    <3> QED
      BY <1>3, <3>1 DEF Documents, Jobs
  <2>2. Owns(c, f)
    BY <1>3, <2>1 DEF Documents, Owns
  <2> QED
    BY <2>2
<1>4. CASE Begins(c)
  BY <1>4, NothingIsNoJob DEF Begins, Owns
<1>5. CASE Refused(c) \/ Stops(c)
  BY <1>5 DEF Refused, Stops, Owns, Answer
<1>6. CASE Gathers(c) \/ Publishes(c) \/ PublishesAliases(c) \/ Looks(c) \/ Passes(c) \/ Skips(c)
  <2>1. job'[c] = job[c] /\ answer'[c] = answer[c]
    BY <1>6 DEF Gathers, Publishes, PublishesAliases, Looks, Passes, Skips, Frame, Quiet
  <2>2. Owns(c, f)
    BY <1>6, <1>t, <2>1 DEF Gathers, Publishes, PublishesAliases, Looks, Passes, Skips, Owns, OnItsWay
  <2> QED
    BY <2>2
<1> QED
  BY <1>s, <1>1, <1>2, <1>3, <1>4, <1>5, <1>6 DEF StepOf

\* No step of a client creates a folder twice.
LEMMA OwnedStep == ASSUME Types, OwnedOnce, NEW c \in Clients, BootStep(c) PROVE OwnedOnce'
<1>m. DiskMoves /\ Others(c)
  BY StepsMoveTheDisk, StepsOfClients
<1>1. removed \subseteq removed' /\ \A f \in Folders \ removed' : disk[f] # None => disk'[f] # None
  BY <1>m, FoldersStay
<1>2. \A d \in Clients \ {c} : at'[d] = at[d] /\ job'[d] = job[d] /\ answer'[d] = answer[d]
  BY <1>m DEF Types, Others
<1>3. \A d \in Clients \ {c}, f \in Folders : Owns(d, f)' <=> Owns(d, f)
  BY <1>2 DEF Owns
<1>4. \A f \in Folders : Owns(c, f)' => Owns(c, f) \/ (disk[f] = None /\ disk'[f] # None)
  BY OwnersMakeIt
<1> SUFFICES ASSUME NEW f \in Folders \ removed', NEW d \in Clients, Owns(d, f)'
             PROVE  disk'[f] # None /\ \A e \in Clients : Owns(e, f)' => e = d
  BY DEF OwnedOnce
<1>5. \A e \in Clients : Owns(e, f) => disk[f] # None /\ \A g \in Clients : Owns(g, f) => g = e
  BY <1>1 DEF OwnedOnce
<1> QED
  BY <1>1, <1>3, <1>4, <1>5

\* Nor does an edit.
LEMMA OwnedEdits == ASSUME Types, OwnedOnce, Edits PROVE OwnedOnce'
<1>m. DiskMoves
  BY DraftsAreContents DEF Edits, DiskMoves
<1>1. removed \subseteq removed' /\ \A f \in Folders \ removed' : disk[f] # None => disk'[f] # None
  BY <1>m, FoldersStay
<1>2. UNCHANGED <<at, job, answer>>
  BY DEF Edits, callers
<1> QED
  BY <1>1, <1>2 DEF OwnedOnce, Owns

------------------------------------------------------------------------------
\* A call that nobody disturbs

\* The workspace as it was when the call began.
Before(c) == [disk EXCEPT ![job[c].folder] = was[c]]

\* The tables say what is in the workspace d, where nothing conflicts.
Listed(d) == projects = ProjectTable(d) /\ aliases = AliasTable(d) /\ ~Conflict(d)
Holds(c, d) == built[c] = [ps |-> ProjectTable(d), as |-> AliasTable(d)] /\ ~Conflict(d)

\* Nothing goes by the name of the project the call has made, but that project.
Named(c) ==
  /\ ManifestOf(job[c].folder) \in Manifests /\ ManifestOf(job[c].folder).id = job[c].id
  /\ \A e \in Discovered(disk) : job[c].id \notin AliasesOf(disk, e)

\* Where the manifest comes from.
Kept(c) ==
  /\ job[c].op = "create" => was[c] = None /\ ManifestOf(job[c].folder) = None
  /\ job[c].op = "clone" => was[c] = None /\ ManifestOf(job[c].folder) = job[c].brings
  /\ job[c].op = "import" => was[c] # None /\ ManifestOf(job[c].folder) = was[c].manifest
AliasesKept(c) ==
  LET aliasesNow == ManifestOf(job[c].folder).aliases IN
  \/ aliasesNow = {}
  \/ job[c].op = "clone" /\ job[c].brings \in Manifests /\ aliasesNow = job[c].brings.aliases
  \/ /\ job[c].op = "import" /\ was[c] \in Contents
     /\ was[c].manifest \in Manifests /\ aliasesNow = was[c].manifest.aliases

Unchanged(c) ==
  \/ at[c] \in {"build", "swap projects", "swap aliases"} /\ ~job[c].done
  \/ at[c] \in {"available", "mkdir", "clone"}
  \/ at[c] = "candidate" /\ job[c].op = "import"

Arriving(c) ==
  /\ Unchanged(c) => disk[job[c].folder] = was[c]
  /\ at[c] \in {"swap projects", "swap aliases"} => Holds(c, IF job[c].done THEN disk ELSE Before(c))
  /\ at[c] = "swap aliases" => projects = ProjectTable(IF job[c].done THEN disk ELSE Before(c))
  /\ at[c] \in Scaffolding \/ (at[c] = "build" /\ job[c].done) => Listed(Before(c))
  /\ at[c] \in {"alias", "project"} => Listed(disk)
Working(c) ==
  /\ at[c] \in {"mkdir", "clone", "init"} => was[c] = None /\ Available(job[c].id, job[c].folder)
  /\ at[c] \in {"init", "manifest"} \/ (at[c] = "candidate" /\ job[c].op = "clone") => Kept(c)
  /\ at[c] = "manifest" =>
       /\ ManifestOf(job[c].folder) # Bad
       /\ Available(IdIn(ManifestOf(job[c].folder), job[c].id), job[c].folder)
Leaving(c) ==
  /\ at[c] = "documents" \/ (at[c] = "build" /\ job[c].done) =>
       /\ ManifestOf(job[c].folder) \in Manifests /\ ManifestOf(job[c].folder).id # None
       /\ Available(ManifestOf(job[c].folder).id, job[c].folder)
       /\ AliasesKept(c) /\ (job[c].op = "clone" => was[c] = None)
  /\ at[c] = "build" /\ job[c].done => ManifestOf(job[c].folder).id = job[c].id
  /\ at[c] \in {"swap projects", "swap aliases", "alias", "project"} /\ job[c].done => Named(c)
  /\ at[c] = "project" => alias[c] = job[c].id

LoneBoot(c) == was[c] \in Contents \cup {None} /\ Arriving(c) /\ Working(c) /\ Leaving(c)
Lone(c) ==
  at[c] # "idle" =>
    /\ \A d \in Clients \ {c} : at[d] = "idle"
    /\ job[c].op # "resolve" => LoneBoot(c)

LoneInv == ~mixed => \A c \in Clients : Lone(c)

Becomes(d, f, new, e) == e = [d EXCEPT ![f] = new]

\* A folder that gets an id which was free: nobody else has it as an alias.
LEMMA FreeIdHasNoAlias ==
  ASSUME NEW d \in [Folders -> Contents \cup {None}], ~Conflict(d), NEW f \in Folders, NEW new \in Contents,
         new.manifest \in Manifests, new.manifest.id # None,
         Get(ProjectTable(d), AliasTable(d), new.manifest.id) \in {None, f},
         NEW e, Becomes(d, f, new, e)
  PROVE  /\ f \in Discovered(e) /\ IdOf(e, f) = new.manifest.id
         /\ AliasesOf(e, f) = new.manifest.aliases \ {new.manifest.id}
         /\ \A g \in Folders \ {f} : /\ g \in Discovered(e) <=> g \in Discovered(d)
                                     /\ e[g] = d[g] /\ IdOf(e, g) = IdOf(d, g) /\ AliasesOf(e, g) = AliasesOf(d, g)
         /\ \A g \in Discovered(e) : new.manifest.id \notin AliasesOf(e, g)
<1> DEFINE id == new.manifest.id
<1>1. e[f] = new /\ \A g \in Folders \ {f} : e[g] = d[g]
  BY DEF Becomes
<1>2. new # None /\ new.manifest # None /\ new.manifest # Bad
  BY NothingIsNoValue
<1>3. f \in Discovered(e) /\ IdOf(e, f) = id /\ AliasesOf(e, f) = new.manifest.aliases \ {id}
  BY <1>1, <1>2 DEF Discovered, IdOf, AliasesOf, HasManifest
<1>4. \A g \in Folders \ {f} : /\ g \in Discovered(e) <=> g \in Discovered(d)
                               /\ e[g] = d[g] /\ IdOf(e, g) = IdOf(d, g) /\ AliasesOf(e, g) = AliasesOf(d, g)
  BY <1>1 DEF Discovered, IdOf, AliasesOf, HasManifest
<1>5. ASSUME NEW g \in Discovered(e), id \in AliasesOf(e, g) PROVE FALSE
  <2>1. g # f /\ g \in Folders
    BY <1>3, <1>5 DEF Discovered
  <2>2. g \in Discovered(d) /\ id \in AliasesOf(d, g)
    BY <1>4, <1>5, <2>1
  <2>3. AliasedTo(d, id) = {g}
    <3>1. g \in AliasedTo(d, id)
      BY <2>2 DEF AliasedTo
    <3> QED
      BY <3>1, NoConflictIsSole DEF Sole
  <2>4. id \in DOMAIN AliasTable(d) /\ AliasTable(d)[id] = IdOf(d, g)
    BY <2>3, BuildsAgree DEF AgreesAlias
  <2>5. ProjectsWith(d, IdOf(d, g)) = {g}
    <3>1. g \in ProjectsWith(d, IdOf(d, g))
      BY <2>2 DEF ProjectsWith
    <3> QED
      BY <3>1, NoConflictIsSole DEF Sole
  <2>6. IdOf(d, g) \in DOMAIN ProjectTable(d) /\ ProjectTable(d)[IdOf(d, g)] = g
    BY <2>5, BuildsAgree DEF Agrees
  <2>7. Get(ProjectTable(d), AliasTable(d), id) = g
    BY <2>4, <2>6 DEF Get
  <2> QED
    BY <2>1, <2>7, NothingIsNoValue
<1> QED
  BY <1>3, <1>4, <1>5

\* Where no alias hides an id, the new project is in conflict with nobody.
LEMMA FreeIdIsNoConflict ==
  ASSUME NEW d \in [Folders -> Contents \cup {None}], ~Conflict(d), NEW f \in Folders, NEW new \in Contents,
         new.manifest \in Manifests, new.manifest.id # None,
         Get(ProjectTable(d), AliasTable(d), new.manifest.id) \in {None, f},
         \A i \in DOMAIN ProjectTable(d) : Get(ProjectTable(d), AliasTable(d), i) = ProjectTable(d)[i],
         \/ new.manifest.aliases = {}
         \/ f \in Discovered(d) /\ d[f].manifest \in Manifests /\ new.manifest.aliases = d[f].manifest.aliases,
         NEW e, Becomes(d, f, new, e)
  PROVE  ~Conflict(e)
<1>0. /\ f \in Discovered(e) /\ IdOf(e, f) = new.manifest.id
      /\ AliasesOf(e, f) = new.manifest.aliases \ {new.manifest.id}
      /\ \A g \in Folders \ {f} : /\ g \in Discovered(e) <=> g \in Discovered(d)
                                  /\ e[g] = d[g] /\ IdOf(e, g) = IdOf(d, g) /\ AliasesOf(e, g) = AliasesOf(d, g)
      /\ \A g \in Discovered(e) : new.manifest.id \notin AliasesOf(e, g)
  BY FreeIdHasNoAlias
<1> DEFINE id == new.manifest.id
           others == Folders \ {f}
<1>1. /\ f \in Discovered(e) /\ IdOf(e, f) = id /\ AliasesOf(e, f) = new.manifest.aliases \ {id}
      /\ \A g \in others : /\ g \in Discovered(e) <=> g \in Discovered(d)
                           /\ e[g] = d[g] /\ IdOf(e, g) = IdOf(d, g) /\ AliasesOf(e, g) = AliasesOf(d, g)
      /\ \A g \in Discovered(e) : id \notin AliasesOf(e, g)
  BY <1>0
<1>2. e[f] = new /\ new.manifest # Bad
  BY NothingIsNoValue DEF Becomes
<1>3. /\ \A g \in Discovered(d) : d[g].manifest # Bad
      /\ \A g, h \in Discovered(d) : g < h =>
           IdOf(d, g) \notin {IdOf(d, h)} \cup AliasesOf(d, h) /\ AliasesOf(d, g) \cap AliasesOf(d, h) = {}
  BY DEF Conflict
<1>4. Discovered(d) \subseteq Folders /\ Discovered(e) \subseteq Folders
  BY DEF Discovered
\* Every id is found.
<1>5. \A g \in Discovered(d) : /\ IdOf(d, g) \in DOMAIN ProjectTable(d) /\ ProjectTable(d)[IdOf(d, g)] = g
                               /\ Get(ProjectTable(d), AliasTable(d), IdOf(d, g)) = g
  <2> SUFFICES ASSUME NEW g \in Discovered(d)
               PROVE  IdOf(d, g) \in DOMAIN ProjectTable(d) /\ ProjectTable(d)[IdOf(d, g)] = g
    OBVIOUS
  <2>1. ProjectsWith(d, IdOf(d, g)) = {g}
    <3>1. g \in ProjectsWith(d, IdOf(d, g))
      BY DEF ProjectsWith
    <3> QED
      BY <3>1, NoConflictIsSole DEF Sole
  <2> QED
    BY <2>1, BuildsAgree DEF Agrees
<1>6. ASSUME NEW g \in others \cap Discovered(e) PROVE IdOf(e, g) # id
  <2>1. g \in Discovered(d) /\ IdOf(e, g) = IdOf(d, g)
    BY <1>1
  <2>2. Get(ProjectTable(d), AliasTable(d), IdOf(d, g)) = g
    BY <1>5, <2>1
  <2>3. g # f /\ g # None
    BY NothingIsNoValue
  <2> QED
    BY <2>1, <2>2, <2>3
\* No alias of another project is the id of a project.
<1>7. ASSUME NEW g \in Discovered(d), NEW h \in Discovered(d), g # h, IdOf(d, h) \in AliasesOf(d, g) PROVE FALSE
  <2>1. AliasedTo(d, IdOf(d, h)) = {g}
    <3>1. g \in AliasedTo(d, IdOf(d, h))
      BY <1>7 DEF AliasedTo
    <3> QED
      BY <3>1, NoConflictIsSole DEF Sole
  <2>2. IdOf(d, h) \in DOMAIN AliasTable(d) /\ AliasTable(d)[IdOf(d, h)] = IdOf(d, g)
    BY <2>1, BuildsAgree DEF AgreesAlias
  <2>3. Get(ProjectTable(d), AliasTable(d), IdOf(d, h)) = g
    BY <1>5, <2>2 DEF Get
  <2> QED
    BY <1>5, <1>7, <2>3
\* Nor is an alias of f that of another project.
<1>8. ASSUME NEW g \in others \cap Discovered(e)
      PROVE  AliasesOf(e, f) \cap AliasesOf(e, g) = {} /\ IdOf(e, g) \notin AliasesOf(e, f)
  <2>1. g \in Discovered(d) /\ IdOf(e, g) = IdOf(d, g) /\ AliasesOf(e, g) = AliasesOf(d, g) /\ g # f
    BY <1>1, <1>4
  <2>2. CASE new.manifest.aliases = {}
    BY <1>1, <2>2
  <2>3. CASE f \in Discovered(d) /\ d[f].manifest \in Manifests /\ new.manifest.aliases = d[f].manifest.aliases
    <3>1. AliasesOf(e, f) \subseteq AliasesOf(d, f) \cup {IdOf(d, f)}
      BY <1>1, <2>3, NothingIsNoValue DEF AliasesOf, HasManifest
    <3>2. IdOf(d, f) \notin AliasesOf(d, g) /\ IdOf(d, g) \notin AliasesOf(d, f) /\ IdOf(d, f) # IdOf(d, g)
      BY <1>5, <1>7, <2>1, <2>3
    <3>3. AliasesOf(d, f) \cap AliasesOf(d, g) = {}
      <4>1. f < g \/ g < f
        BY <1>4, <2>1, FoldersAreNumbers
      <4> QED
        BY <1>3, <2>1, <2>3, <4>1
    <3> QED
      BY <2>1, <3>1, <3>2, <3>3
  <2> QED
    BY <2>2, <2>3
<1>9. SUFFICES ASSUME Conflict(e) PROVE FALSE
  OBVIOUS
<1>10. PICK h \in Discovered(e) :
         \/ e[h].manifest = Bad
         \/ \E g \in Discovered(e) :
              /\ g < h
              /\ IdOf(e, g) \in {IdOf(e, h)} \cup AliasesOf(e, h) \/ AliasesOf(e, g) \cap AliasesOf(e, h) # {}
  BY <1>9 DEF Conflict
<1>11. e[h].manifest # Bad
  BY <1>1, <1>2, <1>3, <1>4
<1>12. PICK g \in Discovered(e) :
         /\ g < h
         /\ IdOf(e, g) \in {IdOf(e, h)} \cup AliasesOf(e, h) \/ AliasesOf(e, g) \cap AliasesOf(e, h) # {}
  BY <1>10, <1>11
<1>13. g # h
  <2>1. g \in Nat /\ h \in Nat
    BY <1>4, FoldersAreNumbers
  <2> QED
    BY <1>12, <2>1
<1>14. CASE g = f
  BY <1>1, <1>4, <1>6, <1>8, <1>12, <1>13, <1>14
<1>15. CASE h = f
  <2>1. g \in others \cap Discovered(e)
    BY <1>4, <1>13, <1>15
  <2> QED
    BY <1>1, <1>6, <1>8, <1>12, <1>15, <2>1
<1>16. CASE g # f /\ h # f
  <2>1. g \in others /\ h \in others
    BY <1>4, <1>16
  <2> QED
    BY <1>1, <1>3, <1>12, <2>1
<1> QED
  BY <1>14, <1>15, <1>16


\* What a step that leaves the disk alone keeps.
LEMMA SameWork ==
  ASSUME NEW c \in Clients, Frame(c), Stays
  PROVE  /\ Before(c)' = Before(c)
         /\ ManifestOf(job[c].folder)' = ManifestOf(job[c].folder)
         /\ (Named(c)' <=> Named(c)) /\ (Kept(c)' <=> Kept(c)) /\ (AliasesKept(c)' <=> AliasesKept(c))
<1>1. job'[c] = job[c] /\ was'[c] = was[c] /\ disk' = disk
  BY DEF Frame, Stays
<1>2. Before(c)' = Before(c)
  BY <1>1 DEF Before
<1>3. ManifestOf(job[c].folder)' = ManifestOf(job[c].folder)
  BY <1>1 DEF ManifestOf
<1>4. Named(c)' <=> Named(c)
  BY <1>1, <1>3 DEF Named
<1>5. Kept(c)' <=> Kept(c)
  BY <1>1, <1>3 DEF Kept
<1>6. AliasesKept(c)' <=> AliasesKept(c)
  BY <1>1, <1>3 DEF AliasesKept
<1> QED
  BY <1>2, <1>3, <1>4, <1>5, <1>6

\* What a write to its folder keeps.
LEMMA SameBefore ==
  ASSUME Types, NEW c \in Clients, NEW new \in Contents, job[c].folder \in Folders, Puts(job[c].folder, new),
         job'[c].folder = job[c].folder, was'[c] = was[c]
  PROVE  /\ Before(c)' = Before(c)
         /\ disk'[job[c].folder] = new /\ ManifestOf(job[c].folder)' = new.manifest
<1> DEFINE f == job[c].folder
<1>1. disk \in [Folders -> Contents \cup {None}] /\ f \in Folders /\ disk' = [disk EXCEPT ![f] = new] /\ new # None
  BY NothingIsNoValue DEF Types, Puts
<1>2. disk'[f] = new
  BY <1>1
<1>3. [disk' EXCEPT ![f] = was[c]] = [disk EXCEPT ![f] = was[c]]
  BY <1>1
<1>4. Before(c)' = Before(c)
  BY <1>3 DEF Before
<1>5. ManifestOf(f)' = new.manifest
  BY <1>1, <1>2 DEF ManifestOf
<1> QED
  BY <1>2, <1>4, <1>5

\* Where the folder is as it was, so is the workspace.
LEMMA NothingDoneYet ==
  ASSUME Types, NEW c \in Clients, job[c].folder \in Folders, disk[job[c].folder] = was[c]
  PROVE  Before(c) = disk
BY DEF Before, Types

\* The id of a project whose folder is as the call has left it leads nowhere else.
LEMMA NewProjectIsNamed ==
  ASSUME Types, NEW c \in Clients, job[c] \in Jobs, job[c].folder \in Folders, was[c] \in Contents \cup {None},
         Listed(Before(c)), ManifestOf(job[c].folder) \in Manifests, ManifestOf(job[c].folder).id = job[c].id,
         Available(job[c].id, job[c].folder)
  PROVE  Named(c)
<1> DEFINE f == job[c].folder
           d == Before(c)
<1>1. disk \in [Folders -> Contents \cup {None}] /\ d = [disk EXCEPT ![f] = was[c]]
  BY DEF Types, Before
<1>2. d \in [Folders -> Contents \cup {None}]
  BY <1>1
<1>3. disk[f] # None /\ disk[f].manifest = ManifestOf(f)
  BY NothingIsNoValue DEF ManifestOf
<1>4. disk[f] \in Contents
  BY <1>1, <1>3
<1>5. Becomes(d, f, disk[f], disk)
  BY <1>1 DEF Becomes
<1>6. job[c].id # None
  BY NothingIsNoValue DEF Jobs
<1>7. Get(ProjectTable(d), AliasTable(d), job[c].id) \in {None, f} /\ ~Conflict(d)
  BY DEF Listed, Available
<1> HIDE DEF d
<1>8. \A g \in Discovered(disk) : disk[f].manifest.id \notin AliasesOf(disk, g)
  <2>1. disk[f].manifest \in Manifests /\ disk[f].manifest.id # None
    BY <1>3, <1>6
  <2>2. Get(ProjectTable(d), AliasTable(d), disk[f].manifest.id) \in {None, f}
    BY <1>3, <1>7
  <2> QED
    BY <1>2, <1>4, <1>5, <1>7, <2>1, <2>2, FreeIdHasNoAlias
<1> QED
  BY <1>3, <1>8 DEF Named

\* A step of a call that nobody disturbs.
LEMMA LoneBootStep ==
  ASSUME Types, NEW c \in Clients, BootStep(c), at'[c] # "idle", job'[c].op # "resolve",
         at[c] # "idle" /\ job[c].op # "resolve" => LoneBoot(c)
  PROVE  LoneBoot(c)'
<1>s. StepOf(c)
  BY StepsOfClients
<1>t. disk \in [Folders -> Contents \cup {None}] /\ OnItsWay(c) /\ job[c] \in Jobs \cup {None}
  BY DEF Types
<1>1. CASE Begins(c)
  <2>1. /\ at'[c] = "build" /\ ~job'[c].done /\ disk' = disk /\ was'[c] = disk[job'[c].folder]
        /\ job'[c].folder \in Folders
    BY <1>1 DEF Begins, Stays, Jobs
  <2> QED
    BY <1>t, <2>1 DEF LoneBoot, Arriving, Working, Leaving, Unchanged, Scaffolding
<1>b. ASSUME ~Begins(c) PROVE at[c] # "idle"
  BY <1>s, <1>b DEF StepOf, Gathers, Publishes, PublishesAliases, Looks, Finishes, Passes, Fills, Skips,
                    Documents, Refused, Stops
<1>j. ASSUME at[c] # "idle" PROVE job[c] \in Jobs /\ job'[c].op = job[c].op /\ job'[c].folder = job[c].folder
  <2>1. job[c] \in Jobs
    BY <1>t, <1>j DEF OnItsWay
  <2>2. job'[c] = job[c] \/ Documents(c)
    BY <1>s, <1>j DEF StepOf, Begins, Gathers, Publishes, PublishesAliases, Looks, Finishes, Passes, Fills, Skips,
                      Refused, Stops, Frame, Quiet
  <2> QED
    BY <2>1, <2>2 DEF Documents, Jobs
<1> DEFINE f == job[c].folder
<1>f. ASSUME at[c] # "idle"
      PROVE  /\ job[c] \in Jobs /\ job[c].op # "resolve" /\ f \in Folders
             /\ was[c] \in Contents \cup {None} /\ Arriving(c) /\ Working(c) /\ Leaving(c)
  <2>1. job[c] \in Jobs /\ job[c].op # "resolve"
    BY <1>f, <1>j
  <2> QED
    BY <1>f, <1>t, <2>1 DEF OnItsWay, Jobs, LoneBoot
<1>a. ASSUME Tables
      PROVE  (\A i, g : Available(i, g)' <=> Available(i, g)) /\ \A d : Listed(d)' <=> Listed(d)
  BY <1>a DEF Tables, Available, Listed
<1>2. CASE Gathers(c)
  <2>1. /\ at[c] = "build" /\ at'[c] = "swap projects" /\ ~Conflict(disk) /\ disk' = disk
        /\ built'[c] = [ps |-> ProjectTable(disk), as |-> AliasTable(disk)]
        /\ job'[c] = job[c] /\ was'[c] = was[c]
    BY <1>2 DEF Gathers, Stays, Frame
  <2>2. Before(c)' = Before(c) /\ (Named(c)' <=> Named(c))
    BY <1>2, SameWork DEF Gathers
  <2>3. CASE job[c].done
    <3>1. Holds(c, disk)'
      BY <2>1 DEF Holds
    <3>2. Named(c)
      BY <1>f, <2>1, <2>3, NewProjectIsNamed DEF Arriving, Leaving
    <3> QED
      BY <1>f, <2>1, <2>2, <2>3, <3>1, <3>2 DEF LoneBoot, Arriving, Working, Leaving, Unchanged, Scaffolding
  <2>4. CASE ~job[c].done
    <3>1. disk[f] = was[c]
      BY <1>f, <2>1, <2>4 DEF Arriving, Unchanged
    <3>2. Before(c) = disk
      BY <1>f, <2>1, <3>1, NothingDoneYet
    <3>3. Holds(c, Before(c))'
      BY <2>1, <2>2, <3>2 DEF Holds
    <3> QED
      BY <1>f, <2>1, <2>2, <2>4, <3>1, <3>3 DEF LoneBoot, Arriving, Working, Leaving, Unchanged, Scaffolding
  <2> QED
    BY <2>3, <2>4
<1>3. CASE Publishes(c)
  <2>1. /\ at[c] = "swap projects" /\ at'[c] = "swap aliases" /\ disk' = disk
        /\ projects' = built[c].ps /\ built'[c] = built[c]
        /\ job'[c] = job[c] /\ was'[c] = was[c]
    BY <1>3 DEF Publishes, Stays, Frame, Quiet
  <2>2. Before(c)' = Before(c) /\ (Named(c)' <=> Named(c))
    BY <1>3, SameWork DEF Publishes, Quiet
  <2> DEFINE d == IF job[c].done THEN disk ELSE Before(c)
  <2>3. Holds(c, d)
    BY <1>f, <2>1 DEF Arriving
  <2>4. d' = d
    BY <2>1, <2>2
  <2> HIDE DEF d
  <2>5. projects' = ProjectTable(d)
    <3>1. built[c].ps = ProjectTable(d)
      BY <2>3 DEF Holds
    <3> QED
      BY <2>1, <3>1
  <2>6. Holds(c, d)'
    BY <2>1, <2>3, <2>4 DEF Holds
  <2>7. /\ at'[c] \in {"swap projects", "swap aliases"} => Holds(c, d)'
        /\ at'[c] = "swap aliases" => projects' = ProjectTable(d')
    BY <2>4, <2>5, <2>6
  <2> USE DEF d
  <2>8. Arriving(c)'
    <3>1. Unchanged(c)' => disk'[f] = was'[c]
      BY <1>f, <2>1 DEF Arriving, Unchanged
    <3> QED
      BY <2>1, <2>7, <3>1 DEF Arriving, Scaffolding
  <2> QED
    BY <1>f, <2>1, <2>2, <2>8 DEF LoneBoot, Working, Leaving
<1>4. CASE PublishesAliases(c)
  <2>1. /\ at[c] = "swap aliases"
        /\ at'[c] = IF job[c].done THEN "alias" ELSE IF job[c].op = "import" THEN "candidate" ELSE "available"
        /\ disk' = disk /\ aliases' = built[c].as /\ projects' = projects
        /\ job'[c] = job[c] /\ was'[c] = was[c]
    BY <1>4, <1>f DEF PublishesAliases, Stays, Frame
  <2>2. Before(c)' = Before(c) /\ (Named(c)' <=> Named(c))
    BY <1>4, SameWork DEF PublishesAliases
  <2> DEFINE d == IF job[c].done THEN disk ELSE Before(c)
  <2>3. Holds(c, d) /\ projects = ProjectTable(d)
    BY <1>f, <2>1 DEF Arriving
  <2>4. Listed(d)'
    <3>1. d' = d
      BY <2>1, <2>2
    <3> HIDE DEF d
    <3>2. built[c].ps = ProjectTable(d) /\ built[c].as = AliasTable(d) /\ ~Conflict(d)
      BY <2>3 DEF Holds
    <3> QED
      BY <2>1, <2>2, <2>3, <3>1, <3>2 DEF Listed
  <2>5. CASE job[c].done
    BY <1>f, <2>1, <2>2, <2>4, <2>5 DEF LoneBoot, Arriving, Working, Leaving, Unchanged, Scaffolding
  <2>6. CASE ~job[c].done
    BY <1>f, <2>1, <2>2, <2>4, <2>6 DEF LoneBoot, Arriving, Working, Leaving, Unchanged, Scaffolding
  <2> QED
    BY <2>5, <2>6
<1>5. CASE Looks(c)
  <2>1. /\ at[c] = "alias" /\ at'[c] = "project" /\ disk' = disk /\ job'[c] = job[c] /\ was'[c] = was[c]
        /\ alias'[c] = IF job[c].id \in DOMAIN aliases THEN aliases[job[c].id] ELSE job[c].id
        /\ job[c].done
    BY <1>5, <1>f, <1>t DEF Looks, Stays, Frame, OnItsWay
  <2>2. Before(c)' = Before(c) /\ (Named(c)' <=> Named(c))
    BY <1>5, SameWork DEF Looks
  <2>3. Listed(disk) /\ Listed(disk)'
    <3>1. Listed(disk) /\ projects' = projects /\ aliases' = aliases
      BY <1>5, <1>f, <2>1 DEF Arriving, Looks, Tables
    <3> QED
      BY <2>1, <3>1 DEF Listed
  <2>4. Named(c)
    BY <1>f, <2>1 DEF Leaving
  <2>5. alias'[c] = job[c].id
    <3>1. job[c].id \notin DOMAIN AliasTable(disk)
      BY <2>4 DEF Named, AliasTable
    <3> QED
      BY <2>1, <2>3, <3>1 DEF Listed
  <2> QED
    BY <1>f, <2>1, <2>2, <2>3, <2>4, <2>5 DEF LoneBoot, Arriving, Working, Leaving, Unchanged, Scaffolding
<1>6. CASE Passes(c)
  <2>1. disk' = disk /\ job'[c] = job[c] /\ was'[c] = was[c] /\ Tables
    BY <1>6 DEF Passes, Quiet, Frame, Stays
  <2>2. /\ Before(c)' = Before(c) /\ (Kept(c)' <=> Kept(c))
        /\ ManifestOf(f)' = ManifestOf(f)
    BY <1>6, SameWork DEF Passes, Quiet
  <2>3. (\A i, g : Available(i, g)' <=> Available(i, g)) /\ \A d : Listed(d)' <=> Listed(d)
    BY <1>a, <2>1
  <2>4. at[c] \in {"available", "candidate"} /\ Listed(Before(c)) /\ Listed(Before(c))'
    <3>1. at[c] \in {"available", "candidate"}
      BY <1>6 DEF Passes
    <3>2. Listed(Before(c))
      BY <1>f, <3>1 DEF Arriving, Scaffolding
    <3> QED
      BY <2>1, <2>2, <3>1, <3>2 DEF Listed, Tables
  <2>5. CASE at[c] = "available"
    <3>1. at'[c] \in {"mkdir", "clone"} /\ Available(job[c].id, f) /\ disk[f] = None
      BY <1>6, <2>5 DEF Passes
    <3>2. was[c] = None
      BY <1>f, <2>5, <3>1 DEF Arriving, Unchanged
    <3>3. Available(job[c].id, f)'
      BY <2>1, <3>1 DEF Available, Tables
    <3> QED
      BY <1>f, <2>1, <2>4, <3>1, <3>2, <3>3 DEF LoneBoot, Arriving, Working, Leaving, Unchanged, Scaffolding
  <2>6. CASE at[c] = "candidate"
    <3>1. at'[c] = "manifest" /\ ~Unusable(c)
      BY <1>6, <2>6 DEF Passes
    <3>2. /\ ManifestOf(f) # Bad /\ Available(IdIn(ManifestOf(f), job[c].id), f)
          /\ job[c].op = "import" => disk[f] # None
      BY <3>1 DEF Unusable
    <3>3. Kept(c)
      <4>1. CASE job[c].op = "clone"
        BY <1>f, <2>6, <4>1 DEF Working
      <4>2. CASE job[c].op = "import"
        <5>1. disk[f] = was[c] /\ was[c] # None
          BY <1>f, <2>6, <3>2, <4>2 DEF Arriving, Unchanged
        <5> QED
          BY <4>2, <5>1 DEF Kept, ManifestOf
      <4> QED
        BY <1>f, <1>t, <2>6, <4>1, <4>2 DEF OnItsWay, Jobs
    <3>4. Available(IdIn(ManifestOf(f), job[c].id), f)'
      BY <2>1, <2>2, <3>2 DEF Available, Tables, IdIn
    <3> QED
      BY <1>f, <2>1, <2>2, <2>4, <3>1, <3>2, <3>3, <3>4 DEF LoneBoot, Arriving, Working, Leaving, Unchanged, Scaffolding
  <2> QED
    BY <2>4, <2>5, <2>6
\* From the manifest that was there to the one that is written.
<1>w. ASSUME at[c] = "manifest", ManifestOf(f) # Bad, Working(c),
             NEW new, IF ManifestOf(f) = None THEN new = [id |-> job[c].id, aliases |-> {}]
                      ELSE new = [ManifestOf(f) EXCEPT !.id = IdIn(ManifestOf(f), job[c].id)]
      PROVE  /\ new \in Manifests /\ new.id # None /\ new.id = IdIn(ManifestOf(f), job[c].id)
             /\ \/ new.aliases = {}
                \/ job[c].op = "clone" /\ job[c].brings \in Manifests /\ new.aliases = job[c].brings.aliases
                \/ /\ job[c].op = "import" /\ was[c] \in Contents
                   /\ was[c].manifest \in Manifests /\ new.aliases = was[c].manifest.aliases
             /\ job[c].op = "clone" => was[c] = None
  <2>1. job[c] \in Jobs /\ job[c].op # "resolve" /\ f \in Folders /\ was[c] \in Contents \cup {None} /\ Kept(c)
    BY <1>f, <1>w DEF Working
  <2>2. job[c].id \in Ids /\ job[c].id # None
    BY <2>1, NothingIsNoValue DEF Jobs
  <2>3. ManifestOf(f) \in Manifests \cup {None}
    <3>1. disk[f] = None \/ disk[f].manifest \in Manifests \cup {None, Bad}
      BY <1>t, <2>1 DEF Contents
    <3> QED
      BY <1>w, <3>1 DEF ManifestOf
  <2>4. CASE ManifestOf(f) = None
    BY <1>w, <2>1, <2>2, <2>4 DEF Manifests, IdIn, Kept
  <2>5. CASE ManifestOf(f) \in Manifests
    <3>1. ManifestOf(f) # None
      BY <2>5, NothingIsNoValue
    <3>2. new \in Manifests /\ new.id # None /\ new.id = IdIn(ManifestOf(f), job[c].id) /\ new.aliases = ManifestOf(f).aliases
      BY <1>w, <2>2, <2>5, <3>1 DEF Manifests, IdIn
    <3>3. job[c].op = "clone" => was[c] = None /\ job[c].brings = ManifestOf(f)
      BY <2>1 DEF Kept
    <3>4. job[c].op = "import" => was[c] \in Contents /\ was[c].manifest = ManifestOf(f)
      BY <2>1 DEF Kept
    <3>5. job[c].op # "create"
      BY <2>1, <3>1 DEF Kept
    <3>6. job[c].op \in {"clone", "import"}
      BY <2>1, <3>5 DEF Jobs
    <3> QED
      BY <2>5, <3>2, <3>3, <3>4, <3>6
  <2> QED
    BY <2>3, <2>4, <2>5
<1>7. ASSUME NEW new, Fills(c, new) PROVE LoneBoot(c)'
  <2>1. /\ job'[c] = job[c] /\ was'[c] = was[c] /\ Tables /\ at[c] \in {"mkdir", "init", "clone", "manifest"}
        /\ Puts(f, new)
    BY <1>7 DEF Fills, Frame
  <2>2. new \in Contents
    BY <1>7, FillsContents
  <2>3. Before(c)' = Before(c) /\ disk'[f] = new /\ ManifestOf(f)' = new.manifest
    BY <1>f, <2>1, <2>2, SameBefore
  <2>4. Listed(Before(c))'
    <3>1. Listed(Before(c))
      BY <1>f, <2>1 DEF Arriving, Scaffolding
    <3> QED
      BY <2>1, <2>3, <3>1 DEF Listed, Tables
  <2>5. CASE at[c] = "mkdir"
    <3>1. at'[c] = "init" /\ new = Empty
      BY <1>7, <2>5 DEF Fills
    <3>2. was[c] = None /\ Available(job[c].id, f) /\ job[c].op = "create"
      BY <1>f, <1>t, <2>5 DEF Working, OnItsWay
    <3>3. Available(job[c].id, f)' /\ Kept(c)'
      BY <2>1, <2>3, <3>1, <3>2 DEF Available, Tables, Kept, Empty
    <3> QED
      BY <1>f, <2>1, <2>4, <3>1, <3>2, <3>3 DEF LoneBoot, Arriving, Working, Leaving, Unchanged, Scaffolding
  <2>6. CASE at[c] = "init"
    <3>1. at'[c] = "manifest" /\ disk[f] # None /\ new = [disk[f] EXCEPT !.git = TRUE]
      BY <1>7, <2>6 DEF Fills
    <3>2. was[c] = None /\ Available(job[c].id, f) /\ job[c].op = "create" /\ ManifestOf(f) = None
      BY <1>f, <1>t, <2>6 DEF Working, OnItsWay, Kept
    <3>3. new.manifest = None
      BY <1>t, <1>f, <2>6, <3>1, <3>2 DEF ManifestOf, Contents
    <3>4. Kept(c)' /\ ManifestOf(f)' = None
      BY <2>1, <2>3, <3>2, <3>3 DEF Kept
    <3>5. Available(IdIn(ManifestOf(f), job[c].id), f)'
      BY <2>1, <3>2, <3>4 DEF Available, Tables, IdIn
    <3> QED
      BY <1>f, <2>1, <2>4, <3>1, <3>2, <3>4, <3>5, ValuesDiffer
      DEF LoneBoot, Arriving, Working, Leaving, Unchanged, Scaffolding
  <2>7. CASE at[c] = "clone"
    <3>1. at'[c] = "candidate" /\ new = [git |-> TRUE, manifest |-> job[c].brings, docs |-> FALSE]
      BY <1>7, <2>7 DEF Fills
    <3>2. was[c] = None /\ job[c].op = "clone"
      BY <1>f, <1>t, <2>7 DEF Working, OnItsWay
    <3>3. Kept(c)'
      BY <2>1, <2>3, <3>1, <3>2 DEF Kept
    <3> QED
      BY <1>f, <2>1, <2>4, <3>1, <3>2, <3>3 DEF LoneBoot, Arriving, Working, Leaving, Unchanged, Scaffolding
  <2>8. CASE at[c] = "manifest"
    <3>1. /\ at'[c] = "documents" /\ ManifestOf(f) # Bad
          /\ new = [Folder(f) EXCEPT !.manifest =
                      IF ManifestOf(f) = None THEN [id |-> job[c].id, aliases |-> {}]
                      ELSE [ManifestOf(f) EXCEPT !.id = IdIn(ManifestOf(f), job[c].id)]]
      BY <1>7, <2>8 DEF Fills
    <3> DEFINE merged == IF ManifestOf(f) = None THEN [id |-> job[c].id, aliases |-> {}]
                         ELSE [ManifestOf(f) EXCEPT !.id = IdIn(ManifestOf(f), job[c].id)]
    <3>2. Working(c) /\ Available(IdIn(ManifestOf(f), job[c].id), f)
      BY <1>f, <2>8 DEF Working
    <3>3. /\ merged \in Manifests /\ merged.id # None /\ merged.id = IdIn(ManifestOf(f), job[c].id)
          /\ \/ merged.aliases = {}
             \/ job[c].op = "clone" /\ job[c].brings \in Manifests /\ merged.aliases = job[c].brings.aliases
             \/ /\ job[c].op = "import" /\ was[c] \in Contents
                /\ was[c].manifest \in Manifests /\ merged.aliases = was[c].manifest.aliases
          /\ job[c].op = "clone" => was[c] = None
      BY <1>w, <2>8, <3>1, <3>2
    <3>4. new.manifest = merged
      <4>1. Folder(f) \in Contents
        BY <1>f, <1>t, <2>8 DEF Folder, Empty, Contents
      <4> HIDE DEF merged
      <4>2. new = [Folder(f) EXCEPT !.manifest = merged]
        BY <3>1 DEF merged
      <4> QED
        BY <4>1, <4>2 DEF Contents
    <3> HIDE DEF merged
    <3>5. ManifestOf(f)' = merged
      BY <2>3, <3>4
    <3>6. Available(ManifestOf(f).id, f)'
      <4>1. Available(merged.id, f)
        BY <3>2, <3>3
      <4> QED
        BY <2>1, <3>5, <4>1 DEF Available, Tables
    <3>7. AliasesKept(c)'
      BY <2>1, <3>3, <3>5 DEF AliasesKept
    <3> QED
      BY <1>f, <2>1, <2>4, <3>1, <3>3, <3>5, <3>6, <3>7 DEF LoneBoot, Arriving, Working, Leaving, Unchanged, Scaffolding
  <2> QED
    BY <2>1, <2>5, <2>6, <2>7, <2>8
<1>8. CASE Skips(c)
  <2>1. disk' = disk /\ job'[c] = job[c] /\ was'[c] = was[c] /\ Tables /\ at[c] \in {"init", "manifest"}
    BY <1>8 DEF Skips, Quiet, Frame, Stays
  <2>2. /\ Before(c)' = Before(c) /\ (Kept(c)' <=> Kept(c)) /\ ManifestOf(f)' = ManifestOf(f)
        /\ (AliasesKept(c)' <=> AliasesKept(c))
    BY <1>8, SameWork DEF Skips, Quiet
  <2>3. Listed(Before(c))'
    <3>1. Listed(Before(c))
      BY <1>f, <2>1 DEF Arriving, Scaffolding
    <3> QED
      BY <2>1, <2>2, <3>1 DEF Listed, Tables
  <2>4. CASE at[c] = "init"
    <3>1. at'[c] = "manifest"
      BY <1>8, <2>4 DEF Skips
    <3>2. was[c] = None /\ Available(job[c].id, f) /\ job[c].op = "create" /\ ManifestOf(f) = None /\ Kept(c)
      BY <1>f, <1>t, <2>4 DEF Working, OnItsWay, Kept
    <3>3. Available(IdIn(ManifestOf(f), job[c].id), f)'
      BY <2>1, <2>2, <3>2 DEF Available, Tables, IdIn
    <3> QED
      BY <1>f, <2>1, <2>2, <2>3, <3>1, <3>2, <3>3, ValuesDiffer
      DEF LoneBoot, Arriving, Working, Leaving, Unchanged, Scaffolding
  <2>5. CASE at[c] = "manifest"
    <3>1. /\ at'[c] = "documents" /\ ManifestOf(f) \notin {None, Bad}
          /\ ManifestOf(f) = [ManifestOf(f) EXCEPT !.id = IdIn(ManifestOf(f), job[c].id)]
      BY <1>8, <2>5 DEF Skips
    <3>2. Working(c) /\ Available(IdIn(ManifestOf(f), job[c].id), f)
      BY <1>f, <2>5 DEF Working
    <3>3. /\ ManifestOf(f) \in Manifests /\ ManifestOf(f).id # None /\ ManifestOf(f).id = IdIn(ManifestOf(f), job[c].id)
          /\ \/ ManifestOf(f).aliases = {}
             \/ job[c].op = "clone" /\ job[c].brings \in Manifests /\ ManifestOf(f).aliases = job[c].brings.aliases
             \/ /\ job[c].op = "import" /\ was[c] \in Contents
                /\ was[c].manifest \in Manifests /\ ManifestOf(f).aliases = was[c].manifest.aliases
          /\ job[c].op = "clone" => was[c] = None
      BY <1>w, <2>5, <3>1, <3>2
    <3>4. Available(ManifestOf(f).id, f)' /\ AliasesKept(c)
      BY <2>1, <2>2, <3>2, <3>3 DEF Available, Tables, AliasesKept
    <3> QED
      BY <1>f, <2>1, <2>2, <2>3, <3>1, <3>3, <3>4 DEF LoneBoot, Arriving, Working, Leaving, Unchanged, Scaffolding
  <2> QED
    BY <2>1, <2>4, <2>5
<1>9. CASE Documents(c)
  <2>1. /\ at[c] = "documents" /\ at'[c] = "build" /\ was'[c] = was[c] /\ Tables
        /\ Puts(f, [Folder(f) EXCEPT !.docs = TRUE])
        /\ job'[c] = [job[c] EXCEPT !.id = IdIn(ManifestOf(f), NameOf[f]), !.done = TRUE]
    BY <1>9 DEF Documents
  <2>2. /\ ManifestOf(f) \in Manifests /\ ManifestOf(f).id # None /\ Available(ManifestOf(f).id, f)
        /\ AliasesKept(c) /\ (job[c].op = "clone" => was[c] = None)
    BY <1>f, <2>1 DEF Leaving
  <2>3. ManifestOf(f) # None /\ disk[f] # None /\ disk[f].manifest = ManifestOf(f)
    BY <2>2, NothingIsNoValue DEF ManifestOf
  <2>4. disk[f] \in Contents /\ Folder(f) = disk[f]
    BY <1>f, <1>t, <2>1, <2>3 DEF Folder
  <2> DEFINE new == [Folder(f) EXCEPT !.docs = TRUE]
  <2>5. new \in Contents /\ new.manifest = ManifestOf(f)
    BY <2>3, <2>4 DEF Contents
  <2>6. /\ job'[c].folder = f /\ job'[c].done /\ job'[c].op = job[c].op
        /\ job'[c].id = ManifestOf(f).id /\ job'[c].brings = job[c].brings
    BY <1>f, <2>1, <2>2, <2>3 DEF Jobs, IdIn
  <2>7. Before(c)' = Before(c) /\ ManifestOf(f)' = ManifestOf(f)
    <3> HIDE DEF new
    <3>1. Puts(f, new)
      BY <2>1 DEF new
    <3> QED
      BY <1>f, <2>1, <2>5, <2>6, <3>1, SameBefore
  <2>8. Listed(Before(c))'
    <3>1. Listed(Before(c))
      BY <1>f, <2>1 DEF Arriving, Scaffolding
    <3> QED
      BY <2>1, <2>7, <3>1 DEF Listed, Tables
  <2>9. Available(ManifestOf(f).id, f)' /\ AliasesKept(c)'
    BY <2>1, <2>2, <2>6, <2>7 DEF Available, Tables, AliasesKept
  <2> QED
    BY <1>f, <2>1, <2>2, <2>6, <2>7, <2>8, <2>9 DEF LoneBoot, Arriving, Working, Leaving, Unchanged, Scaffolding
<1>10. ~(Finishes(c) \/ Refused(c) \/ Stops(c))
  BY DEF Finishes, Refused, Stops
<1> QED
  BY <1>s, <1>1, <1>2, <1>3, <1>4, <1>5, <1>6, <1>7, <1>8, <1>9, <1>10 DEF StepOf


\* Nobody calls yet.
LEMMA LoneInit == BootInit => LoneInv
BY DEF BootInit, LoneInv, Lone

\* A call that nobody has disturbed stays alone, or calls have overlapped.
LEMMA LoneStep == ASSUME Types, LoneInv, NEW c \in Clients, BootStep(c) PROVE LoneInv'
<1>s. StepOf(c) /\ Others(c)
  BY StepsOfClients
<1>1. \A d \in Clients \ {c} : at'[d] = at[d]
  BY <1>s DEF Types, Others
<1>2. (Begins(c) /\ mixed' = (mixed \/ Busy # {})) \/ (at[c] # "idle" /\ mixed' = mixed)
  BY <1>s DEF StepOf, Begins, Gathers, Publishes, PublishesAliases, Looks, Finishes, Passes, Fills, Skips,
              Documents, Refused, Stops, Frame, Quiet
<1> SUFFICES ASSUME ~mixed' PROVE \A d \in Clients : Lone(d)'
  BY DEF LoneInv
<1>3. ~mixed
  BY <1>2 DEF Types
<1>4. Lone(c)
  BY <1>3 DEF LoneInv
<1>5. \A d \in Clients \ {c} : at[d] = "idle"
  BY <1>2, <1>4 DEF Lone, Busy
<1>6. Lone(c)'
  <2> SUFFICES ASSUME at'[c] # "idle", job'[c].op # "resolve" PROVE LoneBoot(c)'
    BY <1>1, <1>5 DEF Lone
  <2>1. at[c] # "idle" /\ job[c].op # "resolve" => LoneBoot(c)
    BY <1>4 DEF Lone
  <2> QED
    BY <2>1, LoneBootStep
<1>7. \A d \in Clients \ {c} : Lone(d)'
  BY <1>1, <1>5 DEF Lone
<1> QED
  BY <1>6, <1>7

\* Who edits while somebody calls disturbs it.
LEMMA LoneEdits == ASSUME Types, LoneInv, Edits PROVE LoneInv'
<1>1. mixed' = (mixed \/ Busy # {}) /\ at' = at
  BY DEF Edits, callers
<1>2. ~mixed' => \A c \in Clients : at'[c] = "idle"
  BY <1>1 DEF Busy
<1> QED
  BY <1>2 DEF LoneInv, Lone

\* A call that nobody disturbs finds its own folder.
LEMMA OwnFolderIsFound ==
  ASSUME Types, NEW c \in Clients, at[c] = "project", job[c].op # "resolve", LoneBoot(c)
  PROVE  Found(c) = job[c].folder
<1> DEFINE f == job[c].folder
           id == job[c].id
<1>1. job[c] \in Jobs /\ f \in Folders /\ job[c].done /\ disk \in [Folders -> Contents \cup {None}]
  BY DEF Types, OnItsWay, Jobs
<1>2. Listed(disk) /\ Named(c) /\ alias[c] = id
  BY <1>1 DEF LoneBoot, Arriving, Leaving
<1>3. id # None
  BY <1>1, NothingIsNoValue DEF Jobs
<1>4. f \in ProjectsWith(disk, id)
  <2>1. disk[f] # None /\ disk[f].manifest \in Manifests /\ disk[f].manifest.id = id
    BY <1>2, NothingIsNoValue DEF Named, ManifestOf
  <2>2. disk[f].manifest \notin {None, Bad}
    BY <2>1, NothingIsNoValue
  <2> QED
    BY <1>1, <1>3, <2>1, <2>2 DEF ProjectsWith, Discovered, IdOf, HasManifest
<1>5. Agrees(ProjectTable(disk), disk, id) /\ Sole(disk, id)
  BY <1>1, <1>2, BuildsAgree, NoConflictIsSole DEF Listed
<1>6. id \in DOMAIN ProjectTable(disk) /\ ProjectTable(disk)[id] = f
  BY <1>4, <1>5 DEF Agrees, Sole
<1> QED
  BY <1>2, <1>6 DEF Found, Listed

\* So what it answers is about that folder.
LEMMA AnswersStep ==
  ASSUME Types, LoneInv, BootstrapAnswersItsFolder, NEW c \in Clients, BootStep(c)
  PROVE  BootstrapAnswersItsFolder'
<1>s. StepOf(c) /\ Others(c)
  BY StepsOfClients
<1>1. \A d \in Clients \ {c} : answer'[d] = answer[d]
  BY <1>s DEF Types, Others
<1>2. mixed' = (mixed \/ Busy # {}) \/ mixed' = mixed
  BY <1>s DEF StepOf, Begins, Gathers, Publishes, PublishesAliases, Looks, Finishes, Passes, Fills, Skips,
              Documents, Refused, Stops, Frame, Quiet
<1> SUFFICES ASSUME ~mixed', NEW d \in Clients, answer'[d] # None, answer'[d].job.op # "resolve",
                    ~answer'[d].failed
             PROVE  answer'[d].folder = answer'[d].job.folder
  BY DEF BootstrapAnswersItsFolder
<1>3. ~mixed
  BY <1>2 DEF Types
<1>4. CASE answer'[d] = answer[d]
  BY <1>3, <1>4 DEF BootstrapAnswersItsFolder
<1>5. CASE d = c /\ Finishes(c)
  <2>1. answer'[c].job = job[c] /\ answer'[c].folder = Found(c) /\ at[c] = "project"
    BY <1>5 DEF Finishes, Answer
  <2>2. LoneBoot(c) /\ job[c].op # "resolve"
    BY <1>3, <1>5, <2>1 DEF LoneInv, Lone
  <2> QED
    BY <1>5, <2>1, <2>2, OwnFolderIsFound
<1>6. CASE d = c /\ answer'[c] \in {None, Answer(c, TRUE, None)}
  BY <1>6 DEF Answer
<1>7. Finishes(c) \/ answer'[c] \in {answer[c], None, Answer(c, TRUE, None)}
  BY <1>s DEF StepOf, Begins, Gathers, Publishes, PublishesAliases, Looks, Passes, Fills, Skips,
              Documents, Refused, Stops, Frame, Quiet
<1> QED
  BY <1>1, <1>4, <1>5, <1>6, <1>7

\* Where nothing but its own manifest is new, nothing conflicts with it.
LEMMA NewProjectIsNoConflict ==
  ASSUME Types, NEW c \in Clients, at[c] = "build", job[c].done, job[c].op # "resolve", LoneBoot(c),
         job[c].brings \notin {None, Bad} => job[c].brings.aliases = {},
         \A i \in DOMAIN projects : Get(projects, aliases, i) = projects[i]
  PROVE  ~Conflict(disk)
<1> DEFINE f == job[c].folder
           d == Before(c)
<1>1. /\ job[c] \in Jobs /\ f \in Folders /\ disk \in [Folders -> Contents \cup {None}]
      /\ was[c] \in Contents \cup {None}
  BY DEF Types, OnItsWay, Jobs, LoneBoot
<1>2. /\ Listed(d) /\ ManifestOf(f) \in Manifests /\ ManifestOf(f).id # None
      /\ Available(ManifestOf(f).id, f) /\ AliasesKept(c)
  BY DEF LoneBoot, Arriving, Leaving
<1>3. d = [disk EXCEPT ![f] = was[c]] /\ Becomes(d, f, disk[f], disk)
  BY <1>1 DEF Before, Becomes
<1>4. d \in [Folders -> Contents \cup {None}] /\ d[f] = was[c]
  BY <1>1, <1>3
<1>5. disk[f] # None /\ disk[f].manifest = ManifestOf(f)
  BY <1>2, NothingIsNoValue DEF ManifestOf
<1>6. disk[f] \in Contents
  BY <1>1, <1>5
<1> HIDE DEF d
<1>7. /\ ~Conflict(d) /\ Get(ProjectTable(d), AliasTable(d), disk[f].manifest.id) \in {None, f}
      /\ \A i \in DOMAIN ProjectTable(d) : Get(ProjectTable(d), AliasTable(d), i) = ProjectTable(d)[i]
  BY <1>2, <1>5 DEF Listed, Available
<1>8. \/ disk[f].manifest.aliases = {}
      \/ f \in Discovered(d) /\ d[f].manifest \in Manifests /\ disk[f].manifest.aliases = d[f].manifest.aliases
  <2>1. CASE ManifestOf(f).aliases = {}
    BY <1>5, <2>1
  <2>2. CASE /\ job[c].op = "clone" /\ job[c].brings \in Manifests
             /\ ManifestOf(f).aliases = job[c].brings.aliases
    BY <1>5, <2>2, NothingIsNoValue
  <2>3. CASE /\ job[c].op = "import" /\ was[c] \in Contents
             /\ was[c].manifest \in Manifests /\ ManifestOf(f).aliases = was[c].manifest.aliases
    <3>1. was[c] # None /\ was[c].manifest # None
      BY <2>3, NothingIsNoValue
    <3> QED
      BY <1>1, <1>4, <1>5, <2>3, <3>1 DEF Discovered
  <2> QED
    BY <1>2, <2>1, <2>2, <2>3 DEF AliasesKept
<1>9. disk[f].manifest \in Manifests /\ disk[f].manifest.id # None
  BY <1>2, <1>5
<1> QED
  BY <1>1, <1>3, <1>4, <1>6, <1>7, <1>8, <1>9, FreeIdIsNoConflict

\* What a call that is refused has changed: nothing.
LEMMA RefusalChangesNothing ==
  ASSUME Types, LoneInv, ~mixed, NEW c \in Clients, Refused(c), job[c].op # "resolve",
         job[c].op = "clone" \/ left.mishaps = left'.mishaps,
         job[c].brings \notin {None, Bad} => job[c].brings.aliases = {},
         \A i \in DOMAIN projects : Get(projects, aliases, i) = projects[i]
  PROVE  disk'[job[c].folder] = was[c]
<1> DEFINE f == job[c].folder
<1>1. /\ job[c] \in Jobs /\ f \in Folders /\ disk \in [Folders -> Contents \cup {None}] /\ OnItsWay(c)
      /\ at[c] # "idle"
  BY DEF Types, OnItsWay, Jobs, Refused
<1>2. LoneBoot(c) /\ Arriving(c) /\ Working(c) /\ Leaving(c)
  BY <1>1 DEF LoneInv, Lone, LoneBoot
<1>3. ASSUME Unchanged(c), Stays PROVE disk'[f] = was[c]
  BY <1>2, <1>3 DEF Arriving, Stays
<1>4. ASSUME was[c] = None, Puts(f, None) PROVE disk'[f] = was[c]
  BY <1>1, <1>4, PutsFolder
<1>5. CASE at[c] = "build" /\ Conflict(disk) /\ Stays
  <2>1. ~job[c].done
    BY <1>2, <1>5, NewProjectIsNoConflict
  <2> QED
    BY <1>3, <1>5, <2>1 DEF Unchanged
<1>6. CASE at[c] \in {"available", "mkdir", "clone"} /\ Stays
  BY <1>3, <1>6 DEF Unchanged
<1>7. CASE at[c] = "candidate" /\ Removes(c)
  <2>1. CASE job[c].op = "clone"
    BY <1>2, <1>4, <1>7, <2>1 DEF Removes, Working, Kept
  <2>2. CASE job[c].op = "import"
    BY <1>3, <1>7, <2>2 DEF Removes, Unchanged
  <2> QED
    BY <1>1, <1>7, <2>1, <2>2 DEF OnItsWay, Jobs
<1>8. ~(at[c] \in {"manifest", "documents"} /\ ManifestOf(f) = Bad)
  BY <1>2, NothingIsNoValue DEF Working, Leaving
<1>9. CASE /\ at[c] \in {"init", "manifest", "documents"} /\ left'.mishaps # left.mishaps
           /\ IF job[c].op = "clone" /\ at[c] # "clone" THEN Puts(f, None) ELSE Stays
  <2>1. job[c].op = "clone" /\ Puts(f, None)
    BY <1>9
  <2>2. was[c] = None
    BY <1>1, <1>2, <1>9, <2>1 DEF Working, Leaving, Kept, OnItsWay
  <2> QED
    BY <1>4, <2>1, <2>2
<1>10. CASE /\ at[c] = "mkdir" /\ left'.mishaps # left.mishaps
  BY <1>1, <1>10 DEF OnItsWay
<1> QED
  BY <1>5, <1>6, <1>7, <1>8, <1>9, <1>10 DEF Refused

------------------------------------------------------------------------------
\* The theorems

BootInv == Types /\ Settled /\ OwnedOnce /\ LoneInv /\ BootstrapAnswersItsFolder

\* Whatever the calls and the edits do, this stays true.
LEMMA BootInvariance == BootSpec => []BootInv
<1>1. BootInit => BootInv
  <2> SUFFICES ASSUME BootInit PROVE BootInv
    OBVIOUS
  <2>1. OwnedOnce
    BY DEF BootInit, OwnedOnce, Owns
  <2>2. BootstrapAnswersItsFolder
    BY DEF BootInit, BootstrapAnswersItsFolder
  <2> QED
    BY <2>1, <2>2, TypesInit, SettledInit, LoneInit DEF BootInv
<1>2. BootInv /\ [BootNext]_bootVars => BootInv'
  <2> SUFFICES ASSUME BootInv, [BootNext]_bootVars PROVE BootInv'
    OBVIOUS
  <2>0. Types /\ Settled /\ OwnedOnce /\ LoneInv /\ BootstrapAnswersItsFolder
    BY DEF BootInv
  <2>1. ASSUME NEW c \in Clients, BootStep(c) PROVE BootInv'
    BY <2>0, <2>1, TypesStep, SettledStep, OwnedStep, LoneStep, AnswersStep DEF BootInv
  <2>2. CASE Edits
    <3>1. BootstrapAnswersItsFolder'
      <4>1. answer' = answer /\ (~mixed' => ~mixed)
        BY <2>0, <2>2 DEF Edits, callers, Types
      <4> QED
        BY <2>0, <4>1 DEF BootstrapAnswersItsFolder
    <3> QED
      BY <2>0, <2>2, <3>1, TypesEdits, SettledEdits, OwnedEdits, LoneEdits DEF BootInv
  <2>3. CASE UNCHANGED bootVars
    <3>0. /\ UNCHANGED <<disk, projects, aliases, alias, at, job, built, answer, was, left, touched, removed, mixed>>
      BY <2>3 DEF bootVars, tables, callers
    <3>1. Types'
      BY <2>0, <3>0 DEF Types, OnItsWay, IsProjectTable, IsAliasTable
    <3>2. Settled'
      <4>1. Stays /\ touched' = touched
        BY <3>0 DEF Stays
      <4>2. DiskMoves
        BY <4>1 DEF DiskMoves
      <4>3. \A key \in Ids \ touched : \A c \in Clients :
              Gathered(c, key) /\ Looked(c, key) /\ AnswersRight(c, key)
        BY <2>0 DEF Settled
      <4>4. \A key \in Ids \ touched' : \A c \in Clients :
              Gathered(c, key)' /\ Looked(c, key)' /\ AnswersRight(c, key)'
        BY <2>0, <3>0, <4>2, <4>3, KnowledgeStays
      <4> QED
        BY <2>0, <3>0, <4>4 DEF Settled
    <3>3. OwnedOnce'
      BY <2>0, <3>0 DEF OwnedOnce, Owns
    <3>4. LoneInv'
      <4> SUFFICES ASSUME ~mixed', NEW c \in Clients PROVE Lone(c)'
        BY DEF LoneInv
      <4>1. Lone(c)
        BY <2>0, <3>0 DEF LoneInv
      <4> QED
        BY <3>0, <4>1 DEF Lone, LoneBoot, Arriving, Working, Leaving, Unchanged, Listed, Holds, Before, Named,
                          Kept, AliasesKept, Available, ManifestOf
    <3>5. BootstrapAnswersItsFolder'
      BY <2>0, <3>0 DEF BootstrapAnswersItsFolder
    <3> QED
      BY <3>1, <3>2, <3>3, <3>4, <3>5 DEF BootInv
  <2> QED
    BY <2>1, <2>2, <2>3 DEF BootNext
<1> QED
  BY <1>1, <1>2, PTL DEF BootSpec

\* Every variable keeps its type, for any number of clients, folders and ids
\* (registry.py:17-18, bootstrap.py:38-59).
THEOREM RegistryKeepsTypes == BootSpec => []BootTypeOK
<1>1. BootInv => BootTypeOK
  <2> SUFFICES ASSUME Types PROVE BootTypeOK
    BY DEF BootInv
  <2>1. \A i \in DOMAIN projects : i \in Ids /\ projects[i] \in Folders
    BY DEF Types, IsProjectTable
  <2>2. \A a \in DOMAIN aliases : a \in Ids /\ aliases[a] \in Ids
    BY DEF Types, IsAliasTable
  <2>3. ASSUME NEW c \in Clients
        PROVE  /\ job[c] \in Jobs \cup {None} /\ (at[c] = "idle") = (job[c] = None)
               /\ answer[c] # None => answer[c].job \in Jobs /\ answer[c].folder \in Folders \cup {None}
    BY DEF Types, OnItsWay, Answers, Calls
  <2> QED
    BY <2>1, <2>2, <2>3 DEF Types, BootTypeOK
<1> QED
  BY <1>1, BootInvariance, PTL

\* registry.py:20-30, 61-63: while tables are replaced and read in two halves, by
\* any number of calls and with any conflicts elsewhere, an id or alias that no
\* change touched still leads to its project.
THEOREM UntouchedProjectsAreFound == BootSpec => []UntouchedIsFound
<1>1. BootInv => UntouchedIsFound
  BY SettledIsFound DEF BootInv
<1> QED
  BY <1>1, BootInvariance, PTL

\* bootstrap.py:48-52, 68-76: a bootstrap that succeeds is about its own folder,
\* and of two calls that create the same folder one is refused.
THEOREM FoldersHaveOneOwner == BootSpec => []BootstrapOwnsItsFolder
<1>1. BootInv => BootstrapOwnsItsFolder
  <2> SUFFICES ASSUME Types, OwnedOnce, BootstrapAnswersItsFolder PROVE FolderIsCreatedOnce
    BY DEF BootInv, BootstrapOwnsItsFolder
  <2> SUFFICES ASSUME NEW c \in Clients, NEW e \in Clients, c # e, answer[c] # None, answer[e] # None,
                      answer[c].job.op = "create", answer[e].job.op = "create",
                      answer[c].job.folder = answer[e].job.folder, answer[c].job.folder \notin removed,
                      ~answer[c].failed, ~answer[e].failed
               PROVE  FALSE
    BY DEF FolderIsCreatedOnce, Types, Answers
  <2> DEFINE f == answer[c].job.folder
  <2>1. f \in Folders
    <3>1. answer[c].job \in Calls
      BY DEF Types, Answers
    <3> QED
      BY <3>1 DEF Calls, Jobs
  <2>2. Owns(c, f) /\ Owns(e, f)
    BY DEF Owns
  <2> QED
    BY <2>1, <2>2 DEF OwnedOnce
<1> QED
  BY <1>1, BootInvariance, PTL

\* bootstrap.py:152-154: a call that nobody disturbs and that is refused has
\* changed nothing, and neither has a clone that fails at any step.
THEOREM RefusalsLeaveNothing == BootSpec => RefusedLeavesNothing
<1> DEFINE Kind(c) ==
      /\ job[c] # None /\ answer'[c] # answer[c] /\ answer'[c].failed /\ ~mixed
      /\ job[c].op = "clone" \/ (job[c].op # "resolve" /\ left.mishaps = left'.mishaps)
      /\ job[c].brings \notin {None, Bad} => job[c].brings.aliases = {}
      /\ \A i \in DOMAIN projects : Get(projects, aliases, i) = projects[i]
<1>1. BootInv /\ [BootNext]_bootVars =>
        [\A c \in Clients : Kind(c) => disk'[job[c].folder] = was[c]]_bootVars
  <2> SUFFICES ASSUME BootInv, BootNext, NEW c \in Clients, Kind(c)
               PROVE  disk'[job[c].folder] = was[c]
    OBVIOUS
  <2>0. Types /\ LoneInv
    BY DEF BootInv
  <2>1. PICK d \in Clients : BootStep(d)
    BY DEF BootNext, Edits, callers
  <2>2. StepOf(d) /\ Others(d)
    BY <2>0, <2>1, StepsOfClients
  <2>3. d = c
    BY <2>0, <2>2 DEF Others, Types
  <2>4. at[c] # "idle"
    BY <2>0 DEF Types, OnItsWay
  <2>5. Refused(c)
    <3>1. CASE Finishes(c)
      BY <3>1 DEF Finishes, Answer
    <3> QED
      BY <2>2, <2>3, <2>4, <3>1 DEF StepOf, Begins, Gathers, Publishes, PublishesAliases, Looks, Passes, Fills,
                                    Skips, Documents, Stops, Frame, Quiet
  <2> QED
    BY <2>0, <2>5, RefusalChangesNothing
<1>2. RefusedLeavesNothing <=> [][\A c \in Clients : Kind(c) => disk'[job[c].folder] = was[c]]_bootVars
  BY DEF RefusedLeavesNothing
<1> HIDE DEF Kind
<1> QED
  BY <1>1, <1>2, BootInvariance, PTL DEF BootSpec

------------------------------------------------------------------------------
\* The configuration of connections

\* What .gitignore can say: what people wrote, and what the service made of it.
\* Of the last three, git obeys the rule of agent.env in the first two.
Guarding == {<<"env", "tmp">>, <<"allow", "env", "tmp">>}
Completed == Guarding \cup {<<"env", "allow", "tmp">>}
Ignores == InitialIgnores \cup Completed

\* What a file can hold, and what it can be read for.
MayHold(f) ==
  IF f = "gitignore" THEN Ignores
  ELSE {None, Bad} \cup (IF f = "manifest" THEN Profiles ELSE Envs)

Steps ==
  {Idle, <<"ask", "tracked">>, <<"ask", "ignored">>} \cup ({"read", "load", "write", "restore"} \X Files)

Snapshot(s) == s = [f \in Files |-> s[f]] /\ \A f \in Files : s[f] \in MayHold(f)

ConfigTypes ==
  /\ Snapshot(files)
  /\ \A t \in temps : t.of \in Files /\ t.retracted \in BOOLEAN
  /\ step \in [Clients -> Steps] /\ request \in [Clients -> Requests \cup {None}]
  /\ saved = [c \in Clients |-> saved[c]] /\ loaded = [c \in Clients |-> loaded[c]]
  /\ configs \in Nat /\ before \in Nat /\ before <= configs
  /\ torn \in Nat /\ overlapped \in BOOLEAN
  /\ \A c \in Clients :
       /\ (step[c] = Idle) = (request[c] = None)
       /\ Snapshot(saved[c])
       /\ \A f \in Files : step[c] = <<"write", f>> => loaded[c] \in MayHold(f) /\ Readable(f, loaded[c])

------------------------------------------------------------------------------
\* Files a call has already read for a rollback.
Unread == [manifest |-> Files, gitignore |-> {"gitignore", "env"}, env |-> {"env"}]
HasSaved(c, f) == step[c] # Idle /\ (step[c][1] = "read" => f \notin Unread[step[c][2]])

\* Such a file says what was settled, or what a later call put there, and can be
\* read if it could, or a later call cut it.
Survives(f, content) ==
  /\ f = "manifest" =>
       \A n \in Names : Value(content, n) = Value(settled.manifest, n) \/ Value(content, n) > before
  /\ f = "env" =>
       \A k \in Keys : \/ Value(Held(content), k) = Value(Held(settled.env), k)
                       \/ Value(Held(content), k) > before
  /\ Readable(f, settled[f]) /\ ~Readable(f, content) =>
       f = "env" /\ content # Bad /\ content.cut > before

Surviving(c) ==
  step[c] # Idle =>
    /\ request[c].call > before
    /\ \A f \in Files : /\ HasSaved(c, f) => Survives(f, saved[c][f])
                        /\ step[c] = <<"write", f>> => Survives(f, loaded[c])

SurvivesInv ==
  /\ \A f \in Files : Survives(f, files[f])
  /\ \A c \in Clients : Surviving(c)

------------------------------------------------------------------------------
\* A client that configures alone: the files it has written, and those a
\* rollback has yet to reach.
WrittenBy(c) ==
  IF step[c] \in {<<"load", "gitignore">>, <<"write", "gitignore">>} THEN {"manifest"}
  ELSE IF step[c] \in {<<"ask", "tracked">>, <<"ask", "ignored">>, <<"load", "env">>, <<"write", "env">>}
       THEN {"manifest", "gitignore"} ELSE {}
Undecided(c) ==
  IF step[c] = <<"restore", "manifest">> THEN {"manifest", "gitignore"}
  ELSE IF step[c] = <<"restore", "gitignore">> THEN {"gitignore"} ELSE {}

Rewritten(c, f) ==
  /\ f \in Written(request[c]) /\ Readable(f, saved[c][f])
  /\ files[f] = Changed(f, saved[c][f], request[c])

Alone(c) ==
  step[c] # Idle =>
    /\ \A d \in Clients : step[d] # Idle => d = c
    /\ WrittenBy(c) # {} => request[c].keys # {}
    /\ \A f \in Files :
         /\ HasSaved(c, f) /\ f \notin WrittenBy(c) \cup Undecided(c) => files[f] = saved[c][f]
         /\ f \in WrittenBy(c) => Rewritten(c, f)
         /\ f \in Undecided(c) => files[f] = saved[c][f] \/ Rewritten(c, f)
         /\ step[c] = <<"write", f>> => loaded[c] = files[f]

AloneInv == ~overlapped => \A c \in Clients : Alone(c)

\* Values a call stored are in agent.env, or in a temporary file of it.
Secret(content) == \E k \in Keys : Value(Held(content), k) > 0
Exposed ==
  Secret(files.env) \/ \E t \in temps : ~t.retracted /\ t.of = "env" /\ Secret(t.says)

GuardInv ==
  git = "repository" /\ ~overlapped =>
    /\ Exposed => files.gitignore \in Guarding
    /\ \A c \in Clients :
         /\ Exposed /\ HasSaved(c, "gitignore") => saved[c].gitignore \in Guarding
         /\ step[c] \in {<<"load", "env">>, <<"write", "env">>} => files.gitignore \in Guarding

ConfigInv == ConfigTypes /\ SurvivesInv /\ AloneInv /\ GuardInv

------------------------------------------------------------------------------
\* What a call makes of .gitignore

\* Lines one after the other.
LEMMA Tuples ==
  ASSUME NEW a \in Rules, NEW b \in Rules, NEW c \in Rules
  PROVE  /\ <<>> \in Seq(Rules) /\ <<a>> \in Seq(Rules)
         /\ <<a, b>> \in Seq(Rules) /\ <<a, b, c>> \in Seq(Rules)
         /\ Append(<<>>, a) = <<a>> /\ Append(<<a>>, b) = <<a, b>>
         /\ Append(<<a, b>>, c) = <<a, b, c>>
<1>1. /\ <<>> \in Seq(Rules) /\ <<a>> \in Seq(Rules)
      /\ <<a, b>> \in Seq(Rules) /\ <<a, b, c>> \in Seq(Rules)
  OBVIOUS
<1>2. Append(<<>>, a) = <<a>>
  OBVIOUS
<1>3. Append(<<a>>, b) = <<a, b>>
  <2> DEFINE s == Append(<<a>>, b)
             t == <<a, b>>
  <2>1. s \in Seq(Rules) /\ t \in Seq(Rules) /\ Len(s) = 2 /\ Len(t) = 2
    OBVIOUS
  <2>2. s[1] = a /\ s[2] = b /\ t[1] = a /\ t[2] = b
    OBVIOUS
  <2> HIDE DEF s, t
  <2>3. \A i \in 1..Len(s) : s[i] = t[i]
    BY <2>1, <2>2
  <2>4. s = t
    BY <2>1, <2>3, SeqEqual
  <2> QED
    BY <2>4 DEF s, t
<1>4. Append(<<a, b>>, c) = <<a, b, c>>
  <2> DEFINE s == Append(<<a, b>>, c)
             t == <<a, b, c>>
  <2>1. s \in Seq(Rules) /\ t \in Seq(Rules) /\ Len(s) = 3 /\ Len(t) = 3
    OBVIOUS
  <2>2. s[1] = a /\ s[2] = b /\ s[3] = c /\ t[1] = a /\ t[2] = b /\ t[3] = c
    OBVIOUS
  <2> HIDE DEF s, t
  <2>3. \A i \in 1..Len(s) : s[i] = t[i]
    BY <2>1, <2>2
  <2>4. s = t
    BY <2>1, <2>3, SeqEqual
  <2> QED
    BY <2>4 DEF s, t
<1> QED
  BY <1>1, <1>2, <1>3, <1>4

\* What is left of up to three lines without their repetitions.
LEMMA DeduplicatedShort ==
  ASSUME NEW lines \in Seq(Rules), Len(lines) <= 3
  PROVE  LET one == Append(<<>>, lines[1])
             two == IF lines[2] = "allow" \/ lines[2] # lines[1] THEN Append(one, lines[2]) ELSE one
             three == IF lines[3] = "allow" \/ (lines[3] # lines[1] /\ lines[3] # lines[2])
                      THEN Append(two, lines[3]) ELSE two
         IN  Deduplicated(lines) = IF Len(lines) = 0 THEN <<>> ELSE IF Len(lines) = 1 THEN one
                                   ELSE IF Len(lines) = 2 THEN two ELSE three
<1> DEFINE kept(i) == lines[i] = "allow" \/ \A j \in 1..i - 1 : lines[j] # lines[i]
           one == IF kept(1) THEN Append(<<>>, lines[1]) ELSE <<>>
           two == IF kept(2) THEN Append(one, lines[2]) ELSE one
           three == IF kept(3) THEN Append(two, lines[3]) ELSE two
           Extends(f) == [i \in 0..Len(lines) |->
             IF i = 0 THEN <<>> ELSE IF kept(i) THEN Append(f[i - 1], lines[i]) ELSE f[i - 1]]
           from == CHOOSE f : f = Extends(f)
           these == [i \in 0..Len(lines) |-> IF i = 0 THEN <<>> ELSE IF i = 1 THEN one
                                             ELSE IF i = 2 THEN two ELSE three]
<1>0. Len(lines) \in {0, 1, 2, 3}
  <2>1. Len(lines) \in Nat
    OBVIOUS
  <2>2. \A n \in Nat : n <= 3 => n \in {0, 1, 2, 3}
    OBVIOUS
  <2> HIDE DEF kept, one, two, three, Extends, from, these
  <2> QED
    BY <2>1, <2>2
<1>1. Deduplicated(lines) = from[Len(lines)]
  BY DEF Deduplicated
<1>2. these = Extends(these)
  <2> HIDE DEF kept
  <2> SUFFICES ASSUME NEW i \in 0..Len(lines) PROVE these[i] = Extends(these)[i]
    OBVIOUS
  <2>1. i \in {0, 1, 2, 3}
    BY <1>0
  <2> HIDE DEF one, two, three
  <2>2. i # 0 => i - 1 \in 0..Len(lines)
    BY <1>0
  <2>3. Extends(these)[i] = IF i = 0 THEN <<>> ELSE IF kept(i) THEN Append(these[i - 1], lines[i]) ELSE these[i - 1]
    OBVIOUS
  <2>4. /\ these[i] = IF i = 0 THEN <<>> ELSE IF i = 1 THEN one ELSE IF i = 2 THEN two ELSE three
        /\ i # 0 => these[i - 1] = IF i = 1 THEN <<>> ELSE IF i = 2 THEN one ELSE two
    BY <2>1, <2>2
  <2> QED
    BY <2>1, <2>3, <2>4 DEF one, two, three
<1>3. from = Extends(from)
  <2> HIDE DEF Extends, these
  <2> QED
    BY <1>2
<1> HIDE DEF kept, from
<1>5. \A i \in 0..Len(lines) : from[i] = IF i = 0 THEN <<>> ELSE IF kept(i) THEN Append(from[i - 1], lines[i]) ELSE from[i - 1]
  BY <1>3
<1> HIDE DEF one, two, three
<1>6. /\ from[0] = <<>>
      /\ Len(lines) > 0 => from[1] = one
      /\ Len(lines) > 1 => from[2] = two
      /\ Len(lines) > 2 => from[3] = three
  <2>1. from[0] = <<>>
    BY <1>0, <1>5
  <2>2. Len(lines) > 0 => from[1] = one
    <3>1. Len(lines) > 0 => from[1] = IF kept(1) THEN Append(from[0], lines[1]) ELSE from[0]
      BY <1>0, <1>5
    <3> QED
      BY <2>1, <3>1 DEF one
  <2>3. Len(lines) > 1 => from[2] = two
    BY <1>0, <1>5, <2>2 DEF two
  <2>4. Len(lines) > 2 => from[3] = three
    BY <1>0, <1>5, <2>3 DEF three
  <2> QED
    BY <2>1, <2>2, <2>3, <2>4
<1>7. /\ kept(1)
      /\ kept(2) = (lines[2] = "allow" \/ lines[2] # lines[1])
      /\ kept(3) = (lines[3] = "allow" \/ (lines[3] # lines[1] /\ lines[3] # lines[2]))
  <2>1. 1..1 - 1 = {} /\ 1..2 - 1 = {1} /\ 1..3 - 1 = {1, 2}
    OBVIOUS
  <2> QED
    BY <2>1 DEF kept
<1>8. /\ one = Append(<<>>, lines[1])
      /\ two = IF lines[2] = "allow" \/ lines[2] # lines[1] THEN Append(one, lines[2]) ELSE one
      /\ three = IF lines[3] = "allow" \/ (lines[3] # lines[1] /\ lines[3] # lines[2])
                 THEN Append(two, lines[3]) ELSE two
  BY <1>7 DEF one, two, three
<1>9. from[Len(lines)] = IF Len(lines) = 0 THEN <<>> ELSE IF Len(lines) = 1 THEN one
                         ELSE IF Len(lines) = 2 THEN two ELSE three
  <2> HIDE DEF one, two, three
  <2>1. CASE Len(lines) = 0
    BY <1>6, <2>1
  <2>2. CASE Len(lines) = 1
    BY <1>6, <2>2
  <2>3. CASE Len(lines) = 2
    BY <1>6, <2>3
  <2>4. CASE Len(lines) = 3
    BY <1>6, <2>4
  <2> QED
    BY <1>0, <2>1, <2>2, <2>3, <2>4
<1> HIDE DEF one, two, three
<1> QED
  BY <1>1, <1>8, <1>9

\* The entries are there after a call; what a call has completed stays as it is.
LEMMA CallsComplete ==
  ASSUME NEW lines \in Ignores
  PROVE  WithEntries(lines) \in Completed /\ (lines \in Completed => WithEntries(lines) = lines)
<1> DEFINE e == "env"
           t == "tmp"
           w == "allow"
           none == <<>>
           ww == <<w>>
           ew == <<e, w>>
           ewe == <<e, w, e>>
           et == <<e, t>>
           wet == <<w, e, t>>
           ewt == <<e, w, t>>
           old == IF lines = None THEN none ELSE Deduplicated(lines)
<1>r. e \in Rules /\ t \in Rules /\ w \in Rules /\ e # t /\ e # w /\ t # w
  BY DEF Rules
<1>w. WithEntries(lines) = (old \o Missing(old, e)) \o Missing(old, t)
  BY DEF WithEntries
<1>c. /\ Completed = {et, wet, ewt} /\ Guarding = {et, wet}
      /\ lines \in {None, none, ww, ew, ewe, et, wet, ewt}
  BY DEF Completed, Guarding, Ignores, InitialIgnores
<1>k. w = "allow"
  OBVIOUS
<1> HIDE DEF e, t, w
<1>s. /\ none \in Seq(Rules) /\ ww \in Seq(Rules) /\ ew \in Seq(Rules) /\ ewe \in Seq(Rules)
      /\ et \in Seq(Rules) /\ wet \in Seq(Rules) /\ ewt \in Seq(Rules)
  BY <1>r, Tuples
<1>l. /\ Len(none) = 0 /\ Len(ww) = 1 /\ Len(ew) = 2 /\ Len(et) = 2
      /\ Len(ewe) = 3 /\ Len(wet) = 3 /\ Len(ewt) = 3
      /\ ww[1] = w /\ ew[1] = e /\ ew[2] = w /\ et[1] = e /\ et[2] = t
      /\ ewe[1] = e /\ ewe[2] = w /\ ewe[3] = e /\ wet[1] = w /\ wet[2] = e /\ wet[3] = t
      /\ ewt[1] = e /\ ewt[2] = w /\ ewt[3] = t
  OBVIOUS
<1>b. /\ Append(none, e) = <<e>> /\ Append(<<e>>, t) = et
      /\ Append(none, w) = ww /\ Append(ww, e) = <<w, e>> /\ Append(<<w, e>>, t) = wet
      /\ Append(<<e>>, w) = ew /\ Append(ew, t) = ewt
      /\ <<e>> \in Seq(Rules) /\ <<w, e>> \in Seq(Rules)
  BY <1>r, Tuples
<1>a. \A s \in Seq(Rules), a \in Rules : s \o <<a>> = Append(s, a) /\ s \o <<>> = s
  OBVIOUS
<1>d. /\ (none \o <<e>>) \o <<t>> = et /\ (ww \o <<e>>) \o <<t>> = wet
      /\ (ew \o <<>>) \o <<t>> = ewt
  <2> HIDE DEF none, ww, ew, et, wet, ewt
  <2>1. none \o <<e>> = <<e>> /\ ww \o <<e>> = <<w, e>> /\ ew \o <<>> = ew
    BY <1>a, <1>b, <1>r, <1>s
  <2>2. <<e>> \o <<t>> = et /\ <<w, e>> \o <<t>> = wet /\ ew \o <<t>> = ewt
    BY <1>a, <1>b, <1>r, <1>s
  <2> QED
    BY <2>1, <2>2
<1>n. 1..0 = {} /\ 1..1 = {1} /\ 1..2 = {1, 2} /\ 1..3 = {1, 2, 3}
  OBVIOUS
<1>m. \A s \in Seq(Rules), a \in Rules :
        Missing(s, a) = IF \E i \in 1..Len(s) : s[i] = a THEN <<>> ELSE <<a>>
  BY DEF Missing
<1>u. lines \in Seq(Rules) /\ Len(lines) <= 3 =>
        LET one == Append(none, lines[1])
            two == IF lines[2] = w \/ lines[2] # lines[1] THEN Append(one, lines[2]) ELSE one
            three == IF lines[3] = w \/ (lines[3] # lines[1] /\ lines[3] # lines[2])
                     THEN Append(two, lines[3]) ELSE two
        IN  Deduplicated(lines) = IF Len(lines) = 0 THEN none ELSE IF Len(lines) = 1 THEN one
                                  ELSE IF Len(lines) = 2 THEN two ELSE three
  BY <1>k, DeduplicatedShort
<1> HIDE DEF none, ww, ew, ewe, et, wet, ewt
<1>i. /\ Missing(none, e) = <<e>> /\ Missing(none, t) = <<t>>
      /\ Missing(ww, e) = <<e>> /\ Missing(ww, t) = <<t>>
      /\ Missing(ew, e) = <<>> /\ Missing(ew, t) = <<t>>
  <2>1. Missing(none, e) = <<e>> /\ Missing(none, t) = <<t>>
    <3>1. 1..Len(none) = {}
      BY <1>n, <1>l
    <3> QED
      BY <1>m, <1>r, <1>s, <3>1
  <2>2. 1..Len(ww) = {1} /\ \A i \in {1} : ww[i] = w
    BY <1>n, <1>l
  <2>3. Missing(ww, e) = <<e>> /\ Missing(ww, t) = <<t>>
    BY <1>m, <1>r, <1>s, <2>2
  <2>4. 1..Len(ew) = {1, 2} /\ \A i \in {1, 2} : ew[i] = IF i = 1 THEN e ELSE w
    BY <1>n, <1>l
  <2>5. Missing(ew, e) = <<>> /\ Missing(ew, t) = <<t>>
    <3>1. \E i \in 1..Len(ew) : ew[i] = e
      BY <2>4
    <3>2. ~\E i \in 1..Len(ew) : ew[i] = t
      BY <1>r, <2>4
    <3> QED
      BY <1>m, <1>r, <1>s, <3>1, <3>2
  <2> QED
    BY <2>1, <2>3, <2>5
<1>1. ASSUME old \in {none, ww, ew, et, wet, ewt},
             lines \in Completed => old = lines
      PROVE  WithEntries(lines) \in Completed /\ (lines \in Completed => WithEntries(lines) = lines)
  <2> HIDE DEF old
  <2>1. CASE old = none
    <3>1. Missing(old, e) = <<e>> /\ Missing(old, t) = <<t>>
      BY <1>i, <2>1
    <3>2. WithEntries(lines) = et
      BY <1>d, <1>w, <2>1, <3>1
    <3>3. lines \notin Completed
      BY <1>1, <1>c, <1>l, <2>1
    <3> QED
      BY <1>c, <3>2, <3>3
  <2>2. CASE old = ww
    <3>1. Missing(old, e) = <<e>> /\ Missing(old, t) = <<t>>
      BY <1>i, <2>2
    <3>2. WithEntries(lines) = wet
      BY <1>d, <1>w, <2>2, <3>1
    <3>3. lines \notin Completed
      BY <1>1, <1>c, <1>l, <2>2
    <3> QED
      BY <1>c, <3>2, <3>3
  <2>3. CASE old = ew
    <3>1. Missing(old, e) = <<>> /\ Missing(old, t) = <<t>>
      BY <1>i, <2>3
    <3>2. WithEntries(lines) = ewt
      BY <1>d, <1>w, <2>3, <3>1
    <3>3. lines \notin Completed
      BY <1>1, <1>c, <1>l, <1>r, <2>3
    <3> QED
      BY <1>c, <3>2, <3>3
  <2>4. CASE old \in {et, wet, ewt}
    <3>1. old \in Seq(Rules) /\ \E i, j \in 1..Len(old) : old[i] = e /\ old[j] = t
      <4>1. CASE old = et
        <5>1. 1 \in 1..Len(et) /\ 2 \in 1..Len(et)
          BY <1>l, <1>n
        <5> QED
          BY <1>l, <1>s, <4>1, <5>1
      <4>2. CASE old = wet
        <5>1. 2 \in 1..Len(wet) /\ 3 \in 1..Len(wet)
          BY <1>l, <1>n
        <5> QED
          BY <1>l, <1>s, <4>2, <5>1
      <4>3. CASE old = ewt
        <5>1. 1 \in 1..Len(ewt) /\ 3 \in 1..Len(ewt)
          BY <1>l, <1>n
        <5> QED
          BY <1>l, <1>s, <4>3, <5>1
      <4> QED
        BY <2>4, <4>1, <4>2, <4>3
    <3>2. Missing(old, e) = <<>> /\ Missing(old, t) = <<>>
      BY <1>m, <1>r, <3>1
    <3>3. WithEntries(lines) = old
      BY <1>a, <1>r, <1>w, <3>1, <3>2
    <3> QED
      BY <1>1, <1>c, <2>4, <3>3
  <2> QED
    BY <1>1, <2>1, <2>2, <2>3, <2>4
<1>2. CASE lines = None
  <2>1. old = none
    BY <1>2
  <2>2. lines \notin Completed
    BY <1>2, <1>c, <1>s, ConfigAssumption
  <2> QED
    BY <1>1, <1>2, <2>1, <2>2
<1>3. CASE lines # None
  <2>0. old = Deduplicated(lines)
    BY <1>3
  <2> HIDE DEF old
  <2>3. lines \in Seq(Rules) /\ Len(lines) <= 3
    <3>1. /\ Len(none) <= 3 /\ Len(ww) <= 3 /\ Len(ew) <= 3 /\ Len(ewe) <= 3
          /\ Len(et) <= 3 /\ Len(wet) <= 3 /\ Len(ewt) <= 3
      BY <1>l
    <3> QED
      BY <1>3, <1>c, <1>s, <3>1
  <2> DEFINE one == Append(none, lines[1])
             two == IF lines[2] = w \/ lines[2] # lines[1] THEN Append(one, lines[2]) ELSE one
             three == IF lines[3] = w \/ (lines[3] # lines[1] /\ lines[3] # lines[2])
                      THEN Append(two, lines[3]) ELSE two
  <2>4. old = IF Len(lines) = 0 THEN none ELSE IF Len(lines) = 1 THEN one
              ELSE IF Len(lines) = 2 THEN two ELSE three
    BY <1>u, <2>0, <2>3
  <2>5. lines # ewe => old = lines
    <3>1. CASE lines = none
      <4>1. Len(lines) = 0
        BY <1>l, <3>1
      <4> HIDE DEF one, two, three
      <4> QED
        BY <2>4, <3>1, <4>1
    <3>2. CASE lines = ww
      <4>1. Len(lines) = 1 /\ lines[1] = w
        BY <1>l, <3>2
      <4>2. one = ww
        BY <1>b, <1>r, <4>1
      <4> HIDE DEF one, two, three
      <4> QED
        BY <2>4, <3>2, <4>1, <4>2
    <3>3. CASE lines = ew
      <4>1. Len(lines) = 2 /\ lines[1] = e /\ lines[2] = w
        BY <1>l, <3>3
      <4>2. one = <<e>>
        BY <1>b, <1>r, <4>1
      <4>3. two = ew
        BY <1>b, <1>r, <4>1, <4>2
      <4> HIDE DEF one, two, three
      <4> QED
        BY <2>4, <3>3, <4>1, <4>3
    <3>4. CASE lines = et
      <4>1. Len(lines) = 2 /\ lines[1] = e /\ lines[2] = t
        BY <1>l, <3>4
      <4>2. one = <<e>>
        BY <1>b, <1>r, <4>1
      <4>3. two = et
        BY <1>b, <1>r, <4>1, <4>2
      <4> HIDE DEF one, two, three
      <4> QED
        BY <2>4, <3>4, <4>1, <4>3
    <3>5. CASE lines = wet
      <4>1. Len(lines) = 3 /\ lines[1] = w /\ lines[2] = e /\ lines[3] = t
        BY <1>l, <3>5
      <4>2. one = ww
        BY <1>b, <1>r, <4>1
      <4>3. two = <<w, e>>
        BY <1>b, <1>r, <4>1, <4>2
      <4>4. three = wet
        BY <1>b, <1>r, <4>1, <4>3
      <4> HIDE DEF one, two, three
      <4> QED
        BY <2>4, <3>5, <4>1, <4>4
    <3>6. CASE lines = ewt
      <4>1. Len(lines) = 3 /\ lines[1] = e /\ lines[2] = w /\ lines[3] = t
        BY <1>l, <3>6
      <4>2. one = <<e>>
        BY <1>b, <1>r, <4>1
      <4>3. two = ew
        BY <1>b, <1>r, <4>1, <4>2
      <4>4. three = ewt
        BY <1>b, <1>r, <4>1, <4>3
      <4> HIDE DEF one, two, three
      <4> QED
        BY <2>4, <3>6, <4>1, <4>4
    <3> QED
      BY <1>3, <1>c, <3>1, <3>2, <3>3, <3>4, <3>5, <3>6
  <2>6. lines = ewe => old = ew /\ lines \notin Completed
    <3> SUFFICES ASSUME lines = ewe PROVE old = ew /\ lines \notin Completed
      OBVIOUS
    <3>1. Len(lines) = 3 /\ lines[1] = e /\ lines[2] = w /\ lines[3] = e
      BY <1>l
    <3>2. one = <<e>>
      BY <1>b, <3>1
    <3>3. two = ew
      BY <1>b, <3>1, <3>2
    <3>4. three = ew
      BY <1>k, <1>r, <3>1, <3>3
    <3> HIDE DEF one, two, three
    <3>5. old = ew
      BY <2>4, <3>1, <3>4
    <3>6. lines # et /\ lines # wet /\ lines # ewt
      BY <1>l, <1>r, <3>1
    <3> QED
      BY <1>c, <3>5, <3>6
  <2> QED
    BY <1>1, <1>3, <1>c, <2>5, <2>6
<1> QED
  BY <1>2, <1>3

------------------------------------------------------------------------------
\* ConfigTypes

\* What an agent.env holds.
LEMMA HeldValues ==
  /\ Held(None) = None /\ Held(Bad) = Bad
  /\ \A env \in Envs : /\ Held(env) = env.says /\ env \notin {None, Bad}
                       /\ env.says \in [Keys -> 0..MaxConfigs] /\ env.says \notin {None, Bad}
                       /\ env.cut \in 0..MaxConfigs
<1>1. \A env \in Envs : /\ env.says \in [Keys -> 0..MaxConfigs] /\ env.cut \in 0..MaxConfigs
                         /\ env \notin {None, Bad} /\ env.says \notin {None, Bad}
  BY ConfigAssumption DEF Envs
<1> QED
  BY <1>1 DEF Held

\* What a call writes is what the file can hold.
LEMMA ChangedHolds ==
  ASSUME NEW f \in Files, NEW old \in MayHold(f), Readable(f, old), NEW req \in Requests
  PROVE  Changed(f, old, req) \in MayHold(f)
<1>r. req.name \in Names /\ req.keys \in SUBSET Keys /\ req.call \in 1..MaxConfigs
  BY DEF Requests
<1>c. req.call \in 0..MaxConfigs /\ 0 \in 0..MaxConfigs
  BY <1>r, ConfigAssumption
<1>1. CASE f = "gitignore"
  BY <1>1, CallsComplete DEF Changed, MayHold, Ignores
<1>2. CASE f = "manifest"
  <2>1. old = None \/ old \in Profiles
    BY <1>2 DEF MayHold, Readable
  <2>2. Set(old, Names, {req.name}, req.call) \in Profiles
    BY <1>c, <2>1 DEF Set, Profiles
  <2> QED
    BY <1>2, <2>2 DEF Changed, MayHold
<1>3. CASE f = "env"
  <2>1. Held(old) = None \/ Held(old) \in [Keys -> 0..MaxConfigs]
    BY <1>3, HeldValues DEF MayHold, Readable
  <2>2. Set(Held(old), Keys, req.keys, req.call) \in [Keys -> 0..MaxConfigs]
    BY <1>c, <2>1 DEF Set
  <2>3. Changed(f, old, req) \in Envs
    BY <1>c, <1>3, <2>2 DEF Changed, Envs
  <2> QED
    BY <1>3, <2>3 DEF MayHold
<1> QED
  BY <1>1, <1>2, <1>3 DEF Files

\* A snapshot of the files with another content of one of them.
LEMMA SnapshotExcept ==
  ASSUME NEW s, Snapshot(s), NEW f \in Files, NEW content \in MayHold(f)
  PROVE  Snapshot([s EXCEPT ![f] = content])
BY DEF Snapshot

\* A client that has read nothing.
LEMMA NothingIsASnapshot == Snapshot(NothingRead)
BY DEF Snapshot, NothingRead, MayHold, Ignores, InitialIgnores

\* The types hold when nobody configures.
LEMMA ConfigTypesInit == ConfigInit => ConfigTypes
<1> SUFFICES ASSUME ConfigInit PROVE ConfigTypes
  OBVIOUS
<1>1. Snapshot(files)
  <2>1. \A ns \in SUBSET Names : 1 \in 0..MaxConfigs => Set(None, Names, ns, 1) \in Profiles
    BY ConfigAssumption DEF Set, Profiles
  <2>2. \A ks \in SUBSET Keys : 1 \in 0..MaxConfigs => [says |-> Set(None, Keys, ks, 1), cut |-> 0] \in Envs
    BY ConfigAssumption DEF Set, Envs
  <2>3. 1 \in 0..MaxConfigs
    BY ConfigAssumption DEF ConfigInit
  <2>4. files = [manifest |-> files.manifest, gitignore |-> files.gitignore, env |-> files.env]
    BY DEF ConfigInit
  <2>5. files = [f \in Files |-> files[f]]
    BY <2>4 DEF Files
  <2>6. /\ files.manifest \in Profiles \cup {None, Bad} /\ files.gitignore \in InitialIgnores
        /\ files.env \in Envs \cup {None, Bad}
    BY <2>1, <2>2, <2>3 DEF ConfigInit
  <2> QED
    BY <2>5, <2>6 DEF Snapshot, Files, MayHold, Ignores
<1>2. \A c \in Clients : Snapshot(saved[c])
  BY NothingIsASnapshot DEF ConfigInit
<1>3. step \in [Clients -> Steps] /\ \A c \in Clients : \A f \in Files : step[c] # <<"write", f>>
  BY DEF ConfigInit, Steps, Idle
<1>4. configs \in Nat /\ before \in Nat /\ before <= configs /\ torn \in Nat
  <2>1. configs \in 1..MaxConfigs /\ before = configs /\ torn = 0
    BY DEF ConfigInit
  <2> QED
    BY <2>1, ConfigAssumption
<1> QED
  BY <1>1, <1>2, <1>3, <1>4 DEF ConfigInit, ConfigTypes

\* What a step leaves alone: the other clients.
OtherClients(c) ==
  /\ step' = [step EXCEPT ![c] = step'[c]] /\ request' = [request EXCEPT ![c] = request'[c]]
  /\ saved' = [saved EXCEPT ![c] = saved'[c]] /\ loaded' = [loaded EXCEPT ![c] = loaded'[c]]

\* A client that has returned.
Returned(c) ==
  step'[c] = Idle /\ request'[c] = None /\ saved'[c] = NothingRead /\ loaded'[c] = None

\* A step of one client, whichever it is, when everything it changes has its type.
LEMMA ConfigTypesKept ==
  ASSUME ConfigTypes, NEW c \in Clients, OtherClients(c),
         Snapshot(files'), \A t \in temps' : t.of \in Files /\ t.retracted \in BOOLEAN,
         step'[c] \in Steps, request'[c] \in Requests \cup {None}, Snapshot(saved'[c]),
         (step'[c] = Idle) = (request'[c] = None),
         \A f \in Files : step'[c] = <<"write", f>> => loaded'[c] \in MayHold(f) /\ Readable(f, loaded'[c]),
         configs' \in Nat, before' \in Nat, before' <= configs', torn' \in Nat, overlapped' \in BOOLEAN
  PROVE  ConfigTypes'
<1>1. /\ step' \in [Clients -> Steps] /\ request' \in [Clients -> Requests \cup {None}]
      /\ saved' = [d \in Clients |-> saved'[d]] /\ loaded' = [d \in Clients |-> loaded'[d]]
  BY DEF ConfigTypes, OtherClients
<1>2. \A d \in Clients \ {c} : /\ step'[d] = step[d] /\ request'[d] = request[d]
                               /\ saved'[d] = saved[d] /\ loaded'[d] = loaded[d]
  BY DEF ConfigTypes, OtherClients
<1>3. ASSUME NEW d \in Clients
      PROVE  /\ (step'[d] = Idle) = (request'[d] = None)
             /\ Snapshot(saved'[d])
             /\ \A f \in Files : step'[d] = <<"write", f>> => loaded'[d] \in MayHold(f) /\ Readable(f, loaded'[d])
  <2>1. CASE d = c
    BY <2>1
  <2>2. CASE d # c
    BY <1>2, <2>2 DEF ConfigTypes
  <2> QED
    BY <2>1, <2>2
<1> QED
  BY <1>1, <1>3 DEF ConfigTypes, Snapshot

\* What the steps of a client do, with the lookups in its variables done.
SameHistory == UNCHANGED <<configs, overlapped, settled, before>>
Enters(c) ==
  /\ step[c] = Idle /\ step'[c] = <<"read", "manifest">>
  /\ request'[c] \in Requests /\ request'[c].call = configs + 1 /\ configs' = configs + 1
  /\ saved'[c] = saved[c] /\ loaded'[c] = loaded[c]
  /\ overlapped' = (overlapped \/ Configuring # {})
  /\ IF Configuring = {} THEN settled' = files /\ before' = configs
     ELSE UNCHANGED <<settled, before>>
  /\ UNCHANGED <<files, temps, torn>>
Saves(c, f) ==
  /\ step[c] = <<"read", f>>
  /\ step'[c] = IF f = "manifest" THEN <<"read", "gitignore">>
                ELSE IF f = "gitignore" THEN <<"read", "env">> ELSE <<"load", "manifest">>
  /\ saved'[c] = [saved[c] EXCEPT ![f] = files[f]]
  /\ request'[c] = request[c] /\ loaded'[c] = loaded[c]
  /\ UNCHANGED <<files, temps, torn>> /\ SameHistory
LoadsOne(c, f) ==
  /\ step[c] = <<"load", f>> /\ Readable(f, files[f])
  /\ step'[c] = <<"write", f>> /\ loaded'[c] = files[f]
  /\ request'[c] = request[c] /\ saved'[c] = saved[c]
  /\ UNCHANGED <<files, temps, torn>> /\ SameHistory
WritesOne(c, f) ==
  /\ step[c] = <<"write", f>> /\ step'[c] = AfterWrite(f, request[c])
  /\ files' = [files EXCEPT ![f] = Changed(f, loaded[c], request[c])]
  /\ \/ step'[c] = Idle /\ Returned(c)
     \/ /\ step'[c] # Idle /\ request'[c] = request[c]
        /\ saved'[c] = saved[c] /\ loaded'[c] = loaded[c]
  /\ UNCHANGED <<temps, torn>> /\ SameHistory
RestoresOne(c, f) ==
  /\ step[c] = <<"restore", f>>
  /\ files' = [files EXCEPT ![f] = saved[c][f]]
  /\ \/ f = "env" /\ Returned(c)
     \/ /\ step'[c] = IF f = "manifest" THEN <<"restore", "gitignore">> ELSE <<"restore", "env">>
        /\ f # "env" /\ request'[c] = request[c] /\ saved'[c] = saved[c] /\ loaded'[c] = loaded[c]
  /\ UNCHANGED <<temps, torn>> /\ SameHistory
Abandons(c) ==
  /\ step[c] # Idle /\ step[c][1] \in {"load", "write", "ask"}
  /\ step'[c] = <<"restore", "manifest">>
  /\ request'[c] = request[c] /\ saved'[c] = saved[c] /\ loaded'[c] = loaded[c]
  /\ UNCHANGED temps \/ LeavesDraft(c, TRUE)
  /\ UNCHANGED <<files, torn>> /\ SameHistory
Asks(c) ==
  /\ \/ step[c] = <<"ask", "tracked">> /\ step'[c] = <<"ask", "ignored">>
     \/ /\ step[c] = <<"ask", "ignored">> /\ step'[c] = <<"load", "env">>
        /\ git = "repository" => Ignored(files.gitignore)
  /\ request'[c] = request[c] /\ saved'[c] = saved[c] /\ loaded'[c] = loaded[c]
  /\ UNCHANGED <<files, temps, torn>> /\ SameHistory
Tears(c) ==
  /\ step[c] # Idle /\ Returned(c) /\ torn' = torn + 1
  /\ UNCHANGED temps \/ LeavesDraft(c, FALSE) \/ LeavesOld(c)
  /\ UNCHANGED files /\ SameHistory
ConfigStepIs(c) ==
  \/ Enters(c) \/ Abandons(c) \/ Asks(c) \/ Tears(c)
  \/ \E f \in Files : Saves(c, f) \/ LoadsOne(c, f) \/ WritesOne(c, f) \/ RestoresOne(c, f)

\* Every step of a client is one of these.
LEMMA ConfigStepsOfClients ==
  ASSUME ConfigTypes, NEW c \in Clients, ConfigStep(c)
  PROVE  ConfigStepIs(c) /\ OtherClients(c) /\ git' = git
<1> USE DEF ConfigTypes
<1>i. Order[1] = "manifest" /\ Order[2] = "gitignore" /\ Order[3] = "env"
  BY DEF Order
<1>1. CASE Configures(c)
  <2>1. OtherClients(c) /\ git' = git
    BY <1>1 DEF Configures, Moves, OtherClients
  <2>2. ConfigStepIs(c)
    BY <1>1 DEF Configures, Moves, Enters, ConfigStepIs
  <2> QED
    BY <2>1, <2>2
<1>2. CASE Reads(c)
  <2>1. PICK i \in 1..3 :
          /\ Moves(c, <<"read", Order[i]>>, IF i < 3 THEN <<"read", Order[i + 1]>> ELSE <<"load", "manifest">>)
          /\ saved' = [saved EXCEPT ![c][Order[i]] = files[Order[i]]]
    BY <1>2 DEF Reads
  <2>2. OtherClients(c) /\ git' = git
    BY <1>2, <2>1 DEF Reads, Moves, OtherClients
  <2>3. saved'[c] = [saved[c] EXCEPT ![Order[i]] = files[Order[i]]]
    BY <2>1
  <2>4. i = 1 \/ i = 2 \/ i = 3
    BY <2>1
  <2>5. Order[i] \in Files
        /\ step'[c] = IF Order[i] = "manifest" THEN <<"read", "gitignore">>
                      ELSE IF Order[i] = "gitignore" THEN <<"read", "env">> ELSE <<"load", "manifest">>
    BY <1>i, <2>1, <2>4 DEF Moves, Files
  <2> QED
    BY <1>2, <2>1, <2>2, <2>3, <2>5 DEF Reads, Moves, ConfigStepIs, Saves, SameHistory
<1>3. CASE Loads(c)
  BY <1>3 DEF Loads, GivesUp, ConfigStepIs, LoadsOne, Abandons, SameHistory, OtherClients, Idle
<1>4. CASE Writes(c)
  BY <1>4 DEF Writes, Moves, Frees, Returned, ConfigStepIs, WritesOne, SameHistory, OtherClients
<1>5. CASE AsksTracked(c) \/ AsksIgnored(c)
  <2>1. OtherClients(c) /\ git' = git
    BY <1>5 DEF AsksTracked, AsksIgnored, GivesUp, OtherClients
  <2>2. step[c] # Idle /\ step[c][1] \in {"load", "write", "ask"}
    BY <1>5 DEF AsksTracked, AsksIgnored, Idle
  <2>3. /\ UNCHANGED <<files, temps, git, request, saved, configs, torn, overlapped, settled, before>>
        /\ GivesUp(c) \/ Asks(c)
    BY <1>5 DEF AsksTracked, AsksIgnored, GivesUp, Asks, SameHistory
  <2>4. GivesUp(c) => Abandons(c)
    BY <2>2, <2>3 DEF Abandons, GivesUp, SameHistory
  <2> QED
    BY <2>1, <2>3, <2>4 DEF ConfigStepIs
<1>9. CASE WriteFails(c)
  <2>1. step[c] # Idle /\ step[c][1] \in {"load", "write", "ask"}
    BY <1>9 DEF WriteFails, Idle
  <2>2. UNCHANGED temps \/ LeavesDraft(c, TRUE)
    BY <1>9 DEF WriteFails
  <2>3. /\ GivesUp(c)
        /\ UNCHANGED <<files, git, request, saved, configs, torn, overlapped, settled, before>>
    BY <1>9 DEF WriteFails
  <2>4. Abandons(c)
    BY <2>1, <2>2, <2>3 DEF Abandons, GivesUp, SameHistory
  <2>5. OtherClients(c) /\ git' = git
    BY <2>3 DEF GivesUp, OtherClients
  <2> QED
    BY <2>4, <2>5 DEF ConfigStepIs
<1>6. CASE Restores(c)
  <2>1. PICK i \in 1..3 :
          /\ Moves(c, <<"restore", Order[i]>>, IF i < 3 THEN <<"restore", Order[i + 1]>> ELSE Idle)
          /\ files' = [files EXCEPT ![Order[i]] = saved[c][Order[i]]]
    BY <1>6 DEF Restores
  <2>2. OtherClients(c) /\ git' = git
    BY <1>6, <2>1 DEF Restores, Moves, Frees, OtherClients
  <2>4. i = 1 \/ i = 2 \/ i = 3
    BY <2>1
  <2>5. Order[i] \in Files
        /\ step'[c] = IF Order[i] = "manifest" THEN <<"restore", "gitignore">>
                      ELSE IF Order[i] = "gitignore" THEN <<"restore", "env">> ELSE Idle
    BY <1>i, <2>1, <2>4 DEF Moves, Files
  <2>6. \/ Order[i] = "env" /\ Returned(c)
        \/ Order[i] # "env" /\ request'[c] = request[c] /\ saved'[c] = saved[c] /\ loaded'[c] = loaded[c]
    BY <1>6, <2>5 DEF Restores, Frees, Returned, Idle, Files
  <2>7. /\ step[c] = <<"restore", Order[i]>>
        /\ UNCHANGED <<temps, torn>> /\ SameHistory
    BY <1>6, <2>1 DEF Restores, Moves, SameHistory
  <2>8. \E f \in Files :
          /\ step[c] = <<"restore", f>> /\ files' = [files EXCEPT ![f] = saved[c][f]]
          /\ \/ f = "env" /\ Returned(c)
             \/ /\ step'[c] = IF f = "manifest" THEN <<"restore", "gitignore">> ELSE <<"restore", "env">>
                /\ f # "env" /\ request'[c] = request[c] /\ saved'[c] = saved[c]
                /\ loaded'[c] = loaded[c]
    <3>1. Order[i] # "env" =>
            step'[c] = IF Order[i] = "manifest" THEN <<"restore", "gitignore">> ELSE <<"restore", "env">>
      BY <2>5 DEF Files
    <3> QED
      BY <2>1, <2>5, <2>6, <2>7, <3>1
  <2> QED
    BY <2>2, <2>7, <2>8 DEF ConfigStepIs, RestoresOne
<1>7. CASE RestoreFails(c)
  <2>1. PICK f \in Files : Moves(c, <<"restore", f>>, Idle)
    BY <1>7 DEF RestoreFails
  <2>2. step[c] # Idle /\ step'[c] = Idle /\ step' = [step EXCEPT ![c] = Idle]
    BY <2>1 DEF Moves, Idle
  <2>3. UNCHANGED temps \/ LeavesOld(c)
    BY <1>7 DEF RestoreFails
  <2>4. /\ Frees(c) /\ torn' = torn + 1
        /\ UNCHANGED <<files, git, configs, overlapped, settled, before>>
    BY <1>7 DEF RestoreFails
  <2>5. Returned(c)
    BY <2>2, <2>4 DEF Frees, Returned
  <2>6. Tears(c)
    BY <2>2, <2>3, <2>4, <2>5 DEF Tears, SameHistory
  <2>7. OtherClients(c) /\ git' = git
    BY <2>2, <2>4 DEF Frees, OtherClients
  <2> QED
    BY <2>6, <2>7 DEF ConfigStepIs
<1>8. CASE CallDies(c)
  BY <1>8 DEF CallDies, Frees, Returned, ConfigStepIs, Tears, SameHistory, OtherClients
<1> QED
  BY <1>1, <1>2, <1>3, <1>4, <1>5, <1>6, <1>7, <1>8, <1>9 DEF ConfigStep

\* No step of a client gives a variable another type.
LEMMA ConfigTypesStep == ASSUME ConfigTypes, NEW c \in Clients, ConfigStep(c) PROVE ConfigTypes'
<1>t. /\ Snapshot(files) /\ \A f \in Files : files[f] \in MayHold(f)
      /\ \A t \in temps : t.of \in Files /\ t.retracted \in BOOLEAN
      /\ step[c] \in Steps /\ request[c] \in Requests \cup {None} /\ Snapshot(saved[c])
      /\ \A f \in Files : saved[c][f] \in MayHold(f)
      /\ (step[c] = Idle) = (request[c] = None)
      /\ \A f \in Files : step[c] = <<"write", f>> => loaded[c] \in MayHold(f) /\ Readable(f, loaded[c])
      /\ configs \in Nat /\ before \in Nat /\ before <= configs /\ torn \in Nat /\ overlapped \in BOOLEAN
  BY DEF ConfigTypes, Snapshot
<1>s. ConfigStepIs(c) /\ OtherClients(c)
  BY ConfigStepsOfClients
<1>n. NothingRead = [f \in Files |-> NothingRead[f]] /\ None \notin Requests /\ Snapshot(NothingRead)
  BY ConfigAssumption, NothingIsASnapshot DEF NothingRead
<1>i. \A what, f : <<what, f>> = Idle => what = "idle"
  BY DEF Idle
<1>k. SameHistory => /\ configs' \in Nat /\ before' \in Nat /\ before' <= configs' /\ overlapped' \in BOOLEAN
  BY <1>t DEF SameHistory
<1>r. step[c] # Idle => request[c] \in Requests /\ request[c] # None
  BY <1>t
<1>1. CASE Enters(c)
  <2>1. configs' \in Nat /\ before' \in Nat /\ before' <= configs' /\ torn' \in Nat
    BY <1>t, <1>1 DEF Enters
  <2>2. overlapped' \in BOOLEAN
    BY <1>t, <1>1 DEF Enters
  <2>3. /\ step'[c] \in Steps /\ step'[c] # Idle /\ \A f \in Files : step'[c] # <<"write", f>>
        /\ request'[c] \in Requests /\ request'[c] # None
    BY <1>1, <1>n DEF Enters, Steps, Files, Idle
  <2> QED
    BY <1>s, <1>t, <1>1, <2>1, <2>2, <2>3, ConfigTypesKept DEF Enters
<1>l. UNCHANGED temps \/ LeavesDraft(c, TRUE) \/ LeavesDraft(c, FALSE) \/ LeavesOld(c) =>
        \A t \in temps' : t.of \in Files /\ t.retracted \in BOOLEAN
  <2>1. \A f \in Files : \A content : \A b \in BOOLEAN :
          temps' = temps \cup {Leftover(f, content, b)} =>
            \A t \in temps' : t.of \in Files /\ t.retracted \in BOOLEAN
    BY <1>t DEF Leftover
  <2>2. (TRUE /\ ~HasTmpRule(saved[c].gitignore)) \in BOOLEAN /\ (FALSE /\ ~HasTmpRule(saved[c].gitignore)) \in BOOLEAN
    OBVIOUS
  <2>3. LeavesDraft(c, TRUE) \/ LeavesDraft(c, FALSE) =>
          \A t \in temps' : t.of \in Files /\ t.retracted \in BOOLEAN
    BY <2>1, <2>2 DEF LeavesDraft
  <2>4. LeavesOld(c) => \A t \in temps' : t.of \in Files /\ t.retracted \in BOOLEAN
    BY <2>1 DEF LeavesOld
  <2> QED
    BY <1>t, <2>3, <2>4
<1>2. CASE Abandons(c)
  <2>1. step'[c] \in Steps /\ step'[c] # Idle /\ \A f \in Files : step'[c] # <<"write", f>>
    BY <1>2 DEF Abandons, Steps, Files, Idle
  <2>2. \A t \in temps' : t.of \in Files /\ t.retracted \in BOOLEAN
    BY <1>l, <1>2 DEF Abandons
  <2> QED
    BY <1>s, <1>t, <1>k, <1>r, <1>2, <2>1, <2>2, ConfigTypesKept DEF Abandons
<1>3. CASE Asks(c)
  <2>1. /\ step'[c] \in Steps /\ step'[c] # Idle /\ step[c] # Idle
        /\ \A f \in Files : step'[c] # <<"write", f>>
    BY <1>3 DEF Asks, Steps, Files, Idle
  <2> QED
    BY <1>s, <1>t, <1>k, <1>r, <1>3, <2>1, ConfigTypesKept DEF Asks
<1>4. CASE Tears(c)
  <2>1. \A t \in temps' : t.of \in Files /\ t.retracted \in BOOLEAN
    BY <1>l, <1>4 DEF Tears
  <2>2. /\ step'[c] \in Steps /\ step'[c] = Idle /\ request'[c] = None /\ Snapshot(saved'[c])
        /\ \A f \in Files : step'[c] # <<"write", f>>
    BY <1>4, <1>i, <1>n DEF Tears, Returned, Steps
  <2>3. torn' \in Nat /\ Snapshot(files')
    BY <1>t, <1>4 DEF Tears
  <2> QED
    BY <1>s, <1>k, <1>4, <2>1, <2>2, <2>3, ConfigTypesKept DEF Tears
<1>5. ASSUME NEW f \in Files, Saves(c, f) PROVE ConfigTypes'
  <2>1. Snapshot(saved'[c])
    BY <1>t, <1>5, SnapshotExcept DEF Saves
  <2>2. /\ step'[c] \in Steps /\ step'[c] # Idle /\ step[c] # Idle
        /\ \A g \in Files : step'[c] # <<"write", g>>
    BY <1>5 DEF Saves, Steps, Files, Idle
  <2> QED
    BY <1>s, <1>t, <1>k, <1>r, <1>5, <2>1, <2>2, ConfigTypesKept DEF Saves
<1>6. ASSUME NEW f \in Files, LoadsOne(c, f) PROVE ConfigTypes'
  <2>1. /\ step'[c] \in Steps /\ step'[c] # Idle /\ step[c] # Idle
        /\ \A g \in Files : step'[c] = <<"write", g>> => g = f
    BY <1>6 DEF LoadsOne, Steps, Files, Idle
  <2>2. loaded'[c] \in MayHold(f) /\ Readable(f, loaded'[c])
    BY <1>t, <1>6 DEF LoadsOne
  <2> QED
    BY <1>s, <1>t, <1>k, <1>r, <1>6, <2>1, <2>2, ConfigTypesKept DEF LoadsOne
<1>7. ASSUME NEW f \in Files, WritesOne(c, f) PROVE ConfigTypes'
  <2>1. step[c] # Idle /\ Changed(f, loaded[c], request[c]) \in MayHold(f)
    BY <1>t, <1>r, <1>i, <1>7, ChangedHolds DEF WritesOne
  <2>2. Snapshot(files')
    BY <1>t, <1>7, <2>1, SnapshotExcept DEF WritesOne
  <2>3. step'[c] \in Steps /\ \A g \in Files : step'[c] # <<"write", g>>
    BY <1>7 DEF WritesOne, AfterWrite, Steps, Files, Idle
  <2>4. Snapshot(saved'[c]) /\ request'[c] \in Requests \cup {None} /\ (step'[c] = Idle) = (request'[c] = None)
    BY <1>t, <1>n, <1>r, <1>7, <2>1 DEF WritesOne, Returned
  <2> QED
    BY <1>s, <1>t, <1>k, <1>7, <2>2, <2>3, <2>4, ConfigTypesKept DEF WritesOne
<1>8. ASSUME NEW f \in Files, RestoresOne(c, f) PROVE ConfigTypes'
  <2>1. Snapshot(files')
    BY <1>t, <1>8, SnapshotExcept DEF RestoresOne
  <2>2. /\ step'[c] \in Steps /\ \A g \in Files : step'[c] # <<"write", g>>
        /\ step[c] # Idle /\ (step'[c] = Idle) = (f = "env" /\ Returned(c))
    BY <1>8 DEF RestoresOne, Returned, Steps, Files, Idle
  <2>3. Snapshot(saved'[c]) /\ request'[c] \in Requests \cup {None} /\ (step'[c] = Idle) = (request'[c] = None)
    BY <1>t, <1>n, <1>r, <1>8, <2>2 DEF RestoresOne, Returned
  <2> QED
    BY <1>s, <1>t, <1>k, <1>8, <2>1, <2>2, <2>3, ConfigTypesKept DEF RestoresOne
<1> QED
  BY <1>s, <1>1, <1>2, <1>3, <1>4, <1>5, <1>6, <1>7, <1>8 DEF ConfigStepIs

------------------------------------------------------------------------------
\* Older connections survive

\* Nothing was written yet.
LEMMA SurvivesInit == ConfigInit => SurvivesInv
BY DEF ConfigInit, SurvivesInv, Survives, Surviving

\* What a call writes is older, or its own.
LEMMA ChangedSurvives ==
  ASSUME NEW f \in Files, NEW old \in MayHold(f), Readable(f, old), Survives(f, old),
         NEW req \in Requests, req.call > before, before \in Nat
  PROVE  Survives(f, Changed(f, old, req))
<1>r. req.name \in Names /\ req.keys \in SUBSET Keys /\ req.call \in 1..MaxConfigs
  BY DEF Requests
<1>c. req.call \in 0..MaxConfigs /\ 0 \in 0..MaxConfigs
  BY <1>r, ConfigAssumption
<1>1. CASE f = "gitignore"
  <2>1. WithEntries(old) \in Completed
    BY <1>1, CallsComplete DEF MayHold
  <2>2. Completed \subseteq Seq(Rules)
    <3>1. "env" \in Rules /\ "tmp" \in Rules /\ "allow" \in Rules
      BY DEF Rules
    <3> QED
      BY <3>1, Tuples DEF Completed, Guarding
  <2>3. WithEntries(old) # Bad
    BY <2>1, <2>2, ConfigAssumption
  <2> QED
    BY <1>1, <2>3 DEF Survives, Changed, Readable
<1>2. CASE f = "manifest"
  <2> DEFINE new == Set(old, Names, {req.name}, req.call)
  <2>1. old = None \/ old \in Profiles
    BY <1>2 DEF MayHold, Readable
  <2>2. new \in Profiles /\ new \notin {None, Bad}
    BY <1>c, <2>1, ConfigAssumption DEF Set, Profiles
  <2>3. ASSUME NEW n \in Names PROVE new[n] = req.call \/ new[n] = Value(old, n)
    BY <2>1, ConfigAssumption DEF Set, Value
  <2>4. \A n \in Names : Value(new, n) = new[n]
    BY <2>2 DEF Value
  <2> HIDE DEF new
  <2>5. Survives(f, new)
    BY <1>2, <2>2, <2>3, <2>4 DEF Survives, Readable
  <2> QED
    BY <1>2, <2>5 DEF Changed, new
<1>3. CASE f = "env"
  <2> DEFINE new == Set(Held(old), Keys, req.keys, req.call)
             env == Changed(f, old, req)
  <2>1. Held(old) = None \/ Held(old) \in [Keys -> 0..MaxConfigs]
    BY <1>3, HeldValues DEF MayHold, Readable
  <2>2. new \in [Keys -> 0..MaxConfigs]
    BY <1>c, <2>1 DEF Set
  <2>3. ASSUME NEW k \in Keys PROVE new[k] = req.call \/ new[k] = Value(Held(old), k)
    BY <2>1, ConfigAssumption DEF Set, Value
  <2>4. env = [says |-> new, cut |-> IF req.value = "boundary" THEN req.call ELSE 0]
    BY <1>3 DEF Changed
  <2> HIDE DEF new, env
  <2>5. env \in Envs /\ env.says = new /\ env.cut = IF req.value = "boundary" THEN req.call ELSE 0
    BY <1>c, <2>2, <2>4 DEF Envs
  <2>6. Held(env) = new /\ new \notin {None, Bad} /\ env \notin {None, Bad}
    BY <2>5, HeldValues
  <2>7. \A k \in Keys : Value(Held(env), k) = new[k]
    BY <2>6 DEF Value
  <2>8. ~Readable(f, env) => env.cut > before
    BY <1>r, <2>5, <2>6, <1>3 DEF Readable
  <2>9. \A k \in Keys : \/ Value(Held(env), k) = Value(Held(settled.env), k)
                        \/ Value(Held(env), k) > before
    BY <1>3, <2>3, <2>7 DEF Survives
  <2>10. Survives(f, env)
    BY <1>3, <2>6, <2>8, <2>9 DEF Survives
  <2> QED
    BY <2>10 DEF env
<1> QED
  BY <1>1, <1>2, <1>3 DEF Files

\* A step that leaves what is settled alone, and does the same for its client.
LEMMA SurvivesKept ==
  ASSUME ConfigTypes, SurvivesInv, NEW c \in Clients, OtherClients(c), UNCHANGED <<settled, before>>,
         \A f \in Files : files'[f] = files[f] \/ Survives(f, files'[f]),
         Surviving(c)'
  PROVE  SurvivesInv'
<1>1. \A f \in Files : \A content : Survives(f, content)' <=> Survives(f, content)
  BY DEF Survives
<1>2. ASSUME NEW d \in Clients, d # c PROVE Surviving(d)'
  <2>1. /\ step'[d] = step[d] /\ request'[d] = request[d]
        /\ saved'[d] = saved[d] /\ loaded'[d] = loaded[d]
    BY <1>2 DEF ConfigTypes, OtherClients
  <2>2. \A f \in Files : /\ Survives(f, saved[d][f]) = Survives(f, saved[d][f])'
                         /\ Survives(f, loaded[d]) = Survives(f, loaded[d])'
    BY <2>1 DEF Survives
  <2> QED
    BY <2>1, <2>2 DEF SurvivesInv, Surviving, HasSaved
<1>3. ASSUME NEW f \in Files PROVE Survives(f, files[f])'
  BY DEF SurvivesInv, Survives
<1> QED
  BY <1>2, <1>3 DEF SurvivesInv

\* What a step writes, or puts back, survived already or belongs to a later call.
LEMMA SurvivesStep == ASSUME ConfigTypes, SurvivesInv, NEW c \in Clients, ConfigStep(c) PROVE SurvivesInv'
<1>s. ConfigStepIs(c) /\ OtherClients(c)
  BY ConfigStepsOfClients
<1>t. /\ \A f \in Files : saved[c][f] \in MayHold(f)
      /\ \A f \in Files : step[c] = <<"write", f>> => loaded[c] \in MayHold(f) /\ Readable(f, loaded[c])
      /\ configs \in Nat /\ before \in Nat /\ before <= configs
      /\ step[c] # Idle => request[c] \in Requests
      /\ Surviving(c) /\ \A f \in Files : Survives(f, files[f])
      /\ saved[c] = [f \in Files |-> saved[c][f]] /\ files = [f \in Files |-> files[f]]
  BY DEF ConfigTypes, Snapshot, SurvivesInv
<1>i. \A what, f : <<what, f>> = Idle => what = "idle"
  BY DEF Idle
<1>q. ASSUME UNCHANGED <<settled, before>>, step'[c] # Idle,
             step[c] # Idle /\ request'[c] = request[c],
             \A f \in Files : /\ HasSaved(c, f)' => \/ HasSaved(c, f) /\ saved'[c][f] = saved[c][f]
                                                    \/ saved'[c][f] = files[f]
                              /\ step'[c] = <<"write", f>> => loaded'[c] = files[f],
             \A f \in Files : files'[f] = files[f] \/ Survives(f, files'[f])
      PROVE  SurvivesInv'
  <2>1. request'[c].call > before'
    BY <1>t, <1>q DEF Surviving
  <2>2. \A f \in Files : HasSaved(c, f)' => Survives(f, saved'[c][f])
    BY <1>t, <1>q DEF Surviving
  <2>3. \A f \in Files : step'[c] = <<"write", f>> => Survives(f, loaded'[c])
    BY <1>t, <1>q
  <2>4. \A f \in Files : /\ Survives(f, saved'[c][f]) => Survives(f, saved[c][f])'
                         /\ Survives(f, loaded'[c]) => Survives(f, loaded[c])'
    BY <1>q DEF Survives
  <2>5. Surviving(c)'
    BY <2>1, <2>2, <2>3, <2>4 DEF Surviving
  <2> QED
    BY <1>s, <1>q, <2>5, SurvivesKept
<1>r. ASSUME UNCHANGED <<settled, before>>, step'[c] = Idle,
             \A f \in Files : files'[f] = files[f] \/ Survives(f, files'[f])
      PROVE  SurvivesInv'
  <2>1. Surviving(c)'
    BY <1>r DEF Surviving
  <2> QED
    BY <1>s, <1>r, <2>1, SurvivesKept
<1>1. CASE Enters(c)
  <2>1. /\ files' = files /\ request'[c].call > before' /\ step'[c] = <<"read", "manifest">>
        /\ \A f \in Files : ~HasSaved(c, f)' /\ step'[c] # <<"write", f>>
    BY <1>t, <1>1 DEF Enters, HasSaved, Unread, Files
  <2>2. Surviving(c)'
    BY <2>1 DEF Surviving
  <2>3. CASE Configuring = {}
    <3>1. \A f \in Files : Survives(f, files[f])'
      BY <1>1, <2>3 DEF Enters, Survives
    <3>2. \A d \in Clients \ {c} : step'[d] = Idle
      BY <1>s, <2>3 DEF ConfigTypes, OtherClients, Configuring
    <3> QED
      BY <2>2, <3>1, <3>2 DEF SurvivesInv, Surviving
  <2>4. CASE Configuring # {}
    BY <1>s, <1>1, <2>1, <2>2, <2>4, SurvivesKept DEF Enters
  <2> QED
    BY <2>3, <2>4
<1>2. CASE Abandons(c)
  <2>1. step'[c] # Idle /\ \A f \in Files : step'[c] # <<"write", f>> /\ HasSaved(c, f)
    BY <1>2 DEF Abandons, Idle, HasSaved
  <2> QED
    BY <1>q, <1>2, <2>1 DEF Abandons, SameHistory
<1>3. CASE Asks(c)
  <2>1. /\ step[c] # Idle /\ step'[c] # Idle
        /\ \A f \in Files : step'[c] # <<"write", f>> /\ HasSaved(c, f)
    BY <1>3 DEF Asks, Idle, HasSaved
  <2> QED
    BY <1>q, <1>3, <2>1 DEF Asks, SameHistory
<1>4. CASE Tears(c)
  BY <1>r, <1>4 DEF Tears, Returned, SameHistory
<1>5. ASSUME NEW f \in Files, Saves(c, f) PROVE SurvivesInv'
  <2>1. /\ step[c] # Idle /\ step'[c] # Idle /\ \A g \in Files : step'[c] # <<"write", g>>
        /\ \A g \in Files : HasSaved(c, g)' /\ g # f => HasSaved(c, g)
    BY <1>5 DEF Saves, Idle, HasSaved, Files, Unread
  <2>2. \A g \in Files : saved'[c][g] = IF g = f THEN files[f] ELSE saved[c][g]
    BY <1>t, <1>5 DEF Saves
  <2> QED
    BY <1>q, <1>5, <2>1, <2>2 DEF Saves, SameHistory
<1>6. ASSUME NEW f \in Files, LoadsOne(c, f) PROVE SurvivesInv'
  <2>1. /\ step[c] # Idle /\ step'[c] # Idle /\ \A g \in Files : HasSaved(c, g)
        /\ \A g \in Files : step'[c] = <<"write", g>> => g = f
    BY <1>6 DEF LoadsOne, Idle, HasSaved
  <2> QED
    BY <1>q, <1>6, <2>1 DEF LoadsOne, SameHistory
<1>7. ASSUME NEW f \in Files, WritesOne(c, f) PROVE SurvivesInv'
  <2>1. /\ step[c] # Idle /\ \A g \in Files : HasSaved(c, g)
        /\ \A g \in Files : step'[c] # <<"write", g>>
    BY <1>7 DEF WritesOne, AfterWrite, Idle, HasSaved
  <2>2. \A g \in Files : files'[g] = IF g = f THEN Changed(f, loaded[c], request[c]) ELSE files[g]
    BY <1>t, <1>7 DEF WritesOne
  <2>3. Survives(f, Changed(f, loaded[c], request[c]))
    BY <1>t, <1>7, <2>1, ChangedSurvives DEF Surviving, WritesOne
  <2>4. \A g \in Files : files'[g] = files[g] \/ Survives(g, files'[g])
    BY <2>2, <2>3
  <2> QED
    BY <1>q, <1>r, <1>7, <2>1, <2>4 DEF WritesOne, SameHistory
<1>8. ASSUME NEW f \in Files, RestoresOne(c, f) PROVE SurvivesInv'
  <2>1. /\ step[c] # Idle /\ \A g \in Files : HasSaved(c, g)
        /\ f # "env" => step'[c] # Idle
        /\ f # "env" => \A g \in Files : step'[c] # <<"write", g>>
    BY <1>8 DEF RestoresOne, Returned, Idle, HasSaved
  <2>2. \A g \in Files : files'[g] = IF g = f THEN saved[c][f] ELSE files[g]
    BY <1>t, <1>8 DEF RestoresOne
  <2>3. \A g \in Files : files'[g] = files[g] \/ Survives(g, files'[g])
    BY <1>t, <2>1, <2>2 DEF Surviving
  <2> QED
    BY <1>q, <1>r, <1>8, <2>1, <2>3 DEF RestoresOne, Returned, SameHistory
<1> QED
  BY <1>s, <1>1, <1>2, <1>3, <1>4, <1>5, <1>6, <1>7, <1>8 DEF ConfigStepIs

------------------------------------------------------------------------------
\* A client that configures alone

\* Nobody configures yet.
LEMMA AloneInit == ConfigInit => AloneInv
BY DEF ConfigInit, AloneInv, Alone

\* A client that configures alone knows which files it changed, and a step that lets
\* nobody overlap is its own.
LEMMA AloneStep ==
  ASSUME ConfigTypes, AloneInv, NEW c \in Clients, ConfigStep(c)
  PROVE  /\ AloneInv'
         /\ ~overlapped' => ~overlapped /\ \A d \in Clients \ {c} : step[d] = Idle /\ step'[d] = Idle
<1>s. ConfigStepIs(c) /\ OtherClients(c)
  BY ConfigStepsOfClients
<1>o. ASSUME ~overlapped'
      PROVE  ~overlapped /\ \A d \in Clients \ {c} : step[d] = Idle /\ step'[d] = Idle
  <2>1. ~overlapped
    BY <1>s, <1>o DEF ConfigStepIs, Enters, Saves, LoadsOne, WritesOne, RestoresOne, Abandons, Asks, Tears, SameHistory
  <2>2. \A d \in Clients \ {c} : step'[d] = step[d]
    BY <1>s DEF ConfigTypes, OtherClients
  <2>3. CASE step[c] = Idle
    <3>1. Enters(c)
      BY <1>s, <2>3 DEF ConfigStepIs, Saves, LoadsOne, WritesOne, RestoresOne, Abandons, Asks, Tears, Idle
    <3>2. Configuring = {}
      BY <1>o, <3>1 DEF Enters
    <3> QED
      BY <2>1, <2>2, <3>2 DEF Configuring
  <2>4. CASE step[c] # Idle
    BY <2>1, <2>2, <2>4 DEF AloneInv, Alone
  <2> QED
    BY <2>3, <2>4
<1> SUFFICES ASSUME ~overlapped' PROVE AloneInv'
  BY <1>o DEF AloneInv
<1>p. ~overlapped /\ \A d \in Clients \ {c} : step'[d] = Idle
  BY <1>o
<1> SUFFICES Alone(c)'
  BY <1>p DEF AloneInv, Alone
<1> SUFFICES ASSUME step'[c] # Idle
             PROVE  /\ WrittenBy(c)' # {} => request'[c].keys # {}
                    /\ \A f \in Files :
                         /\ HasSaved(c, f)' /\ f \notin WrittenBy(c)' \cup Undecided(c)' => files'[f] = saved'[c][f]
                         /\ f \in WrittenBy(c)' => Rewritten(c, f)'
                         /\ f \in Undecided(c)' => files'[f] = saved'[c][f] \/ Rewritten(c, f)'
                         /\ step'[c] = <<"write", f>> => loaded'[c] = files'[f]
  BY <1>p DEF Alone
<1>t. /\ saved[c] = [f \in Files |-> saved[c][f]] /\ files = [f \in Files |-> files[f]]
      /\ \A f \in Files : step[c] = <<"write", f>> => loaded[c] \in MayHold(f) /\ Readable(f, loaded[c])
  BY DEF ConfigTypes, Snapshot
<1>a. step[c] # Idle =>
        /\ WrittenBy(c) # {} => request[c].keys # {}
        /\ \A f \in Files :
             /\ HasSaved(c, f) /\ f \notin WrittenBy(c) \cup Undecided(c) => files[f] = saved[c][f]
             /\ f \in WrittenBy(c) => Rewritten(c, f)
             /\ f \in Undecided(c) => files[f] = saved[c][f] \/ Rewritten(c, f)
             /\ step[c] = <<"write", f>> => loaded[c] = files[f]
  BY <1>p DEF AloneInv, Alone
<1>i. \A what, f : <<what, f>> = Idle => what = "idle"
  BY DEF Idle
<1>r. ASSUME NEW f, request'[c] = request[c], saved'[c] = saved[c], files'[f] = files[f]
      PROVE  Rewritten(c, f)' = Rewritten(c, f)
  BY <1>r DEF Rewritten
<1>1. CASE Enters(c)
  BY <1>1 DEF Enters, HasSaved, Unread, WrittenBy, Undecided, Files
<1>2. CASE Abandons(c)
  <2>1. /\ \A f \in Files : HasSaved(c, f) /\ step'[c] # <<"write", f>>
        /\ Undecided(c) = {} /\ WrittenBy(c)' = {} /\ Undecided(c)' = {"manifest", "gitignore"}
        /\ WrittenBy(c) \subseteq {"manifest", "gitignore"}
    BY <1>2 DEF Abandons, HasSaved, WrittenBy, Undecided
  <2>2. \A f \in Files : Rewritten(c, f)' = Rewritten(c, f)
    BY <1>r, <1>2 DEF Abandons
  <2> QED
    BY <1>a, <1>2, <2>1, <2>2 DEF Abandons
<1>3. CASE Asks(c)
  <2>1. /\ \A f \in Files : HasSaved(c, f) /\ step'[c] # <<"write", f>>
        /\ Undecided(c) = {} /\ Undecided(c)' = {} /\ WrittenBy(c)' = WrittenBy(c) /\ step[c] # Idle
    BY <1>3 DEF Asks, HasSaved, WrittenBy, Undecided, Idle
  <2>2. \A f \in Files : Rewritten(c, f)' = Rewritten(c, f)
    BY <1>r, <1>3 DEF Asks
  <2> QED
    BY <1>a, <1>3, <2>1, <2>2 DEF Asks
<1>4. CASE Tears(c)
  BY <1>4 DEF Tears, Returned
<1>5. ASSUME NEW f \in Files, Saves(c, f)
      PROVE  /\ WrittenBy(c)' = {} /\ Undecided(c)' = {}
             /\ \A g \in Files : /\ HasSaved(c, g)' => files'[g] = saved'[c][g]
                                 /\ step'[c] # <<"write", g>>
  <2>1. /\ step[c] # Idle /\ WrittenBy(c) = {} /\ Undecided(c) = {}
        /\ \A g \in Files : step'[c] # <<"write", g>>
        /\ \A g \in Files : HasSaved(c, g)' /\ g # f => HasSaved(c, g)
        /\ WrittenBy(c)' = {} /\ Undecided(c)' = {}
    BY <1>5 DEF Saves, Idle, HasSaved, Files, Unread, WrittenBy, Undecided
  <2>2. \A g \in Files : saved'[c][g] = IF g = f THEN files[f] ELSE saved[c][g]
    BY <1>t, <1>5 DEF Saves
  <2> QED
    BY <1>a, <1>5, <2>1, <2>2 DEF Saves
<1>6. ASSUME NEW f \in Files, LoadsOne(c, f)
      PROVE  /\ WrittenBy(c)' = WrittenBy(c) /\ Undecided(c) = {} /\ Undecided(c)' = {}
             /\ request'[c] = request[c] /\ saved'[c] = saved[c] /\ files' = files
             /\ \A g \in Files : HasSaved(c, g) /\ (step'[c] = <<"write", g>> => loaded'[c] = files[g])
             /\ step[c] # Idle /\ \A g \in Files : Rewritten(c, g)' = Rewritten(c, g)
  <2>1. /\ step[c] # Idle /\ \A g \in Files : HasSaved(c, g)
        /\ \A g \in Files : step'[c] = <<"write", g>> => g = f
        /\ WrittenBy(c)' = WrittenBy(c) /\ Undecided(c) = {} /\ Undecided(c)' = {}
    BY <1>6 DEF LoadsOne, Idle, HasSaved, WrittenBy, Undecided, Files
  <2>2. \A g \in Files : Rewritten(c, g)' = Rewritten(c, g)
    BY <1>r, <1>6 DEF LoadsOne
  <2> QED
    BY <1>6, <2>1, <2>2 DEF LoadsOne
<1>7. ASSUME NEW f \in Files, WritesOne(c, f)
      PROVE  /\ WrittenBy(c)' = WrittenBy(c) \cup {f} /\ Undecided(c)' = {} /\ Undecided(c) = {}
             /\ \A g \in Files : HasSaved(c, g) /\ step'[c] # <<"write", g>>
             /\ \A g \in WrittenBy(c)' : Rewritten(c, g)'
             /\ \A g \in Files \ {f} : files'[g] = files[g]
             /\ request'[c] = request[c] /\ request[c].keys # {} /\ saved'[c] = saved[c] /\ step[c] # Idle
  <2>1. request'[c] = request[c] /\ saved'[c] = saved[c]
    BY <1>7 DEF WritesOne
  <2>2. /\ step[c] # Idle /\ \A g \in Files : HasSaved(c, g) /\ step'[c] # <<"write", g>>
        /\ Undecided(c)' = {} /\ Undecided(c) = {} /\ f \notin WrittenBy(c)
    BY <1>7 DEF WritesOne, AfterWrite, HasSaved, Undecided, WrittenBy, Idle, Files
  <2>3. request[c].keys # {} /\ WrittenBy(c)' = WrittenBy(c) \cup {f}
    <3>1. CASE f = "manifest"
      BY <1>7, <3>1 DEF WritesOne, AfterWrite, WrittenBy
    <3>2. CASE f = "gitignore"
      BY <1>7, <1>a, <2>2, <3>2 DEF WritesOne, AfterWrite, WrittenBy
    <3>3. CASE f = "env"
      BY <1>7, <3>3 DEF WritesOne, AfterWrite
    <3> QED
      BY <3>1, <3>2, <3>3 DEF Files
  <2>4. \A g \in Files : files'[g] = IF g = f THEN Changed(f, loaded[c], request[c]) ELSE files[g]
    BY <1>t, <1>7 DEF WritesOne
  <2>5. Rewritten(c, f)'
    <3>1. loaded[c] = saved[c][f] /\ Readable(f, loaded[c])
      BY <1>t, <1>a, <1>7, <2>2 DEF WritesOne
    <3> QED
      BY <2>1, <2>3, <2>4, <3>1 DEF Rewritten, Written
  <2>6. \A g \in WrittenBy(c) : Rewritten(c, g)'
    <3>1. WrittenBy(c) \subseteq Files
      BY DEF WrittenBy, Files
    <3>2. \A g \in WrittenBy(c) : files'[g] = files[g] /\ Rewritten(c, g)
      BY <1>a, <2>2, <2>4, <3>1
    <3> QED
      BY <2>1, <3>2 DEF Rewritten
  <2> QED
    BY <2>1, <2>2, <2>3, <2>4, <2>5, <2>6
<1>8. ASSUME NEW f \in Files, RestoresOne(c, f)
      PROVE  /\ WrittenBy(c)' = {} /\ WrittenBy(c) = {} /\ Undecided(c)' = Undecided(c) \ {f}
             /\ \A g \in Files : HasSaved(c, g) /\ step'[c] # <<"write", g>>
             /\ \A g \in Files : /\ g = f => files'[g] = saved'[c][g]
                                 /\ g # f => files'[g] = files[g] /\ Rewritten(c, g)' = Rewritten(c, g)
             /\ saved'[c] = saved[c] /\ step[c] # Idle
  <2>1. /\ request'[c] = request[c] /\ saved'[c] = saved[c] /\ f # "env"
        /\ step'[c] = IF f = "manifest" THEN <<"restore", "gitignore">> ELSE <<"restore", "env">>
    BY <1>8 DEF RestoresOne, Returned
  <2>2. /\ step[c] # Idle /\ \A g \in Files : HasSaved(c, g) /\ step'[c] # <<"write", g>>
        /\ WrittenBy(c)' = {} /\ WrittenBy(c) = {} /\ Undecided(c)' = Undecided(c) \ {f}
    BY <1>8, <2>1 DEF RestoresOne, HasSaved, Undecided, WrittenBy, Idle, Files
  <2>3. \A g \in Files : files'[g] = IF g = f THEN saved[c][f] ELSE files[g]
    BY <1>t, <1>8 DEF RestoresOne
  <2>4. \A g \in Files \ {f} : Rewritten(c, g)' = Rewritten(c, g)
    BY <1>r, <2>1, <2>3
  <2> QED
    BY <2>1, <2>2, <2>3, <2>4
<1>9. ASSUME NEW f \in Files, LoadsOne(c, f) \/ WritesOne(c, f) \/ RestoresOne(c, f)
      PROVE  /\ WrittenBy(c)' # {} => request'[c].keys # {}
             /\ \A g \in Files :
                  /\ HasSaved(c, g)' /\ g \notin WrittenBy(c)' \cup Undecided(c)' => files'[g] = saved'[c][g]
                  /\ g \in WrittenBy(c)' => Rewritten(c, g)'
                  /\ g \in Undecided(c)' => files'[g] = saved'[c][g] \/ Rewritten(c, g)'
                  /\ step'[c] = <<"write", g>> => loaded'[c] = files'[g]
  <2>1. CASE LoadsOne(c, f)
    BY <1>a, <1>6, <2>1
  <2>2. CASE WritesOne(c, f)
    BY <1>a, <1>7, <2>2
  <2>3. CASE RestoresOne(c, f)
    BY <1>a, <1>8, <2>3
  <2> QED
    BY <1>9, <2>1, <2>2, <2>3
<1> QED
  BY <1>s, <1>1, <1>2, <1>3, <1>4, <1>5, <1>9 DEF ConfigStepIs

------------------------------------------------------------------------------
\* What git obeys

\* With such lines git obeys both entries.
LEMMA GuardingIgnores ==
  ASSUME NEW lines \in Guarding
  PROVE  Ignored(lines) /\ HasTmpRule(lines)
<1>t. "env" \in Rules /\ "tmp" \in Rules /\ "allow" \in Rules
  BY DEF Rules
<1>1. /\ <<"env", "tmp">> \in Seq(Rules) /\ <<"allow", "env", "tmp">> \in Seq(Rules)
  BY <1>t, Tuples
<1>2. lines # None
  BY <1>1, ConfigAssumption DEF Guarding
<1>3. CASE lines = <<"env", "tmp">>
  <2>1. Len(lines) = 2 /\ lines[1] = "env" /\ lines[2] = "tmp" /\ DOMAIN lines = 1..2
    BY <1>3
  <2>2. 1 \in 1..2 /\ 2 \in 1..2 /\ 1 + 1..2 = {2}
    OBVIOUS
  <2>3. \A j \in {2} : lines[j] # "allow"
    BY <2>1
  <2> QED
    BY <1>2, <2>1, <2>2, <2>3 DEF Ignored, HasTmpRule
<1>4. CASE lines = <<"allow", "env", "tmp">>
  <2>1. Len(lines) = 3 /\ lines[2] = "env" /\ lines[3] = "tmp" /\ DOMAIN lines = 1..3
    BY <1>4
  <2>2. 3 \in 1..3 /\ 2 \in 1..3 /\ 2 + 1..3 = {3}
    OBVIOUS
  <2>3. \A j \in {3} : lines[j] # "allow"
    BY <2>1
  <2> QED
    BY <1>2, <2>1, <2>2, <2>3 DEF Ignored, HasTmpRule
<1> QED
  BY <1>3, <1>4 DEF Guarding

\* git obeys nothing of an entry that is taken back afterwards.
LEMMA IgnoredIsGuarding ==
  ASSUME NEW lines \in Completed, Ignored(lines)
  PROVE  lines \in Guarding
<1> SUFFICES ASSUME lines = <<"env", "allow", "tmp">> PROVE FALSE
  BY DEF Completed
<1>1. Len(lines) = 3 /\ lines[1] = "env" /\ lines[2] = "allow" /\ lines[3] = "tmp" /\ DOMAIN lines = 1..3
  OBVIOUS
<1>2. PICK i \in 1..3 : lines[i] = "env" /\ \A j \in i + 1..3 : lines[j] # "allow"
  BY <1>1 DEF Ignored
<1>3. 1..3 = {1, 2, 3} /\ 2 \in 1 + 1..3
  OBVIOUS
<1>4. i = 1
  <2>1. i \in {1, 2, 3}
    BY <1>3
  <2> QED
    BY <1>1, <1>2, <2>1
<1> QED
  BY <1>1, <1>2, <1>3, <1>4

\* A rule for temporary files was there before a call only when git obeyed what
\* it obeys afterwards.
LEMMA TmpRuleStays ==
  ASSUME NEW lines \in Ignores, HasTmpRule(lines), WithEntries(lines) \in Guarding
  PROVE  lines \in Guarding
<1>1. lines \in Completed
  <2> DEFINE e == "env"
             t == "tmp"
             w == "allow"
  <2>1. lines \in {None, <<>>, <<w>>, <<e, w>>, <<e, w, e>>} \cup Completed
    BY DEF Ignores, InitialIgnores, Completed, Guarding
  <2>2. ASSUME lines \in {<<>>, <<w>>, <<e, w>>, <<e, w, e>>} PROVE FALSE
    <3>1. \A i \in DOMAIN lines : lines[i] = e \/ lines[i] = w
      <4>1. CASE lines = <<>>
        BY <4>1
      <4>2. CASE lines = <<w>>
        BY <4>2
      <4>3. CASE lines = <<e, w>>
        BY <4>3
      <4>4. CASE lines = <<e, w, e>>
        BY <4>4
      <4> QED
        BY <2>2, <4>1, <4>2, <4>3, <4>4
    <3> QED
      BY <3>1 DEF HasTmpRule
  <2> QED
    BY <2>1, <2>2 DEF HasTmpRule
<1> QED
  BY <1>1, CallsComplete

\* Nobody configured, or the entries were there from the start.
LEMMA GuardInit == ConfigInit => GuardInv
<1> SUFFICES ASSUME ConfigInit, git = "repository", Exposed PROVE files.gitignore \in Guarding
  <2>1. ConfigInit => \A c \in Clients : step[c] = Idle
    BY DEF ConfigInit
  <2>2. Idle \notin {<<"load", "env">>, <<"write", "env">>}
    BY DEF Idle
  <2> QED
    BY <2>1, <2>2 DEF GuardInv, HasSaved
<1>1. Secret(files.env)
  BY DEF Exposed, ConfigInit
<1>2. files.env \in {None, Bad} \cup Envs
  BY ConfigTypesInit DEF ConfigTypes, Snapshot, MayHold, Files
<1>3. files.env \in Envs /\ \E k \in Keys : files.env.says[k] > 0
  BY <1>1, <1>2, HeldValues DEF Secret, Value
<1> QED
  BY <1>3 DEF ConfigInit, Guarding, Entries

\* A client that configures alone leaves stored values out of git.
LEMMA GuardStep ==
  ASSUME ConfigTypes, AloneInv, GuardInv, NEW c \in Clients, ConfigStep(c)
  PROVE  GuardInv'
<1>s. ConfigStepIs(c) /\ OtherClients(c) /\ git' = git
  BY ConfigStepsOfClients
<1> SUFFICES ASSUME git' = "repository", ~overlapped'
             PROVE  /\ Exposed' => files'.gitignore \in Guarding
                    /\ \A d \in Clients :
                         /\ Exposed' /\ HasSaved(d, "gitignore")' => saved'[d].gitignore \in Guarding
                         /\ step'[d] \in {<<"load", "env">>, <<"write", "env">>} => files'.gitignore \in Guarding
  BY DEF GuardInv
<1>o. ~overlapped /\ \A d \in Clients \ {c} : step[d] = Idle /\ step'[d] = Idle
  BY AloneStep
<1>g. /\ Exposed => files.gitignore \in Guarding
      /\ Exposed /\ HasSaved(c, "gitignore") => saved[c].gitignore \in Guarding
      /\ step[c] \in {<<"load", "env">>, <<"write", "env">>} => files.gitignore \in Guarding
  BY <1>s, <1>o DEF GuardInv
<1> SUFFICES /\ Exposed' => files'.gitignore \in Guarding
             /\ Exposed' /\ HasSaved(c, "gitignore")' => saved'[c].gitignore \in Guarding
             /\ step'[c] \in {<<"load", "env">>, <<"write", "env">>} => files'.gitignore \in Guarding
  BY <1>o DEF HasSaved, Idle
<1>a. step[c] # Idle =>
        \A f \in Files :
          /\ HasSaved(c, f) /\ f \notin WrittenBy(c) \cup Undecided(c) => files[f] = saved[c][f]
          /\ f \in WrittenBy(c) => Rewritten(c, f)
          /\ step[c] = <<"write", f>> => loaded[c] = files[f]
  BY <1>o DEF AloneInv, Alone
<1>t. /\ saved[c] = [f \in Files |-> saved[c][f]] /\ files = [f \in Files |-> files[f]]
      /\ saved[c].gitignore \in Ignores /\ files.gitignore \in Ignores
  <2>1. Snapshot(saved[c]) /\ Snapshot(files) /\ "gitignore" \in Files
    BY DEF ConfigTypes, Files
  <2> QED
    BY <2>1 DEF Snapshot, MayHold
<1>f. "gitignore" \in Files /\ "env" \in Files
  BY DEF Files
<1>e. files'.env = files.env /\ temps' = temps => (Exposed' <=> Exposed)
  BY DEF Exposed, Secret
<1>1. CASE Enters(c)
  <2>1. ~HasSaved(c, "gitignore")' /\ step'[c] \notin {<<"load", "env">>, <<"write", "env">>}
    BY <1>1 DEF Enters, HasSaved, Unread, Files
  <2>2. (Exposed' <=> Exposed) /\ files' = files
    BY <1>1, <1>e DEF Enters
  <2> QED
    BY <1>g, <2>1, <2>2
<1>2. CASE Abandons(c)
  <2>1. /\ HasSaved(c, "gitignore") /\ step'[c] \notin {<<"load", "env">>, <<"write", "env">>}
        /\ files' = files /\ saved'[c] = saved[c] /\ step[c] # Idle
    BY <1>2 DEF Abandons, HasSaved
  <2>2. ASSUME Exposed' PROVE files.gitignore \in Guarding /\ saved[c].gitignore \in Guarding
    <3>1. CASE temps' = temps
      BY <1>e, <1>g, <2>1, <2>2, <3>1
    <3>2. CASE LeavesDraft(c, TRUE)
      <4> SUFFICES ASSUME ~Exposed
                   PROVE  files.gitignore \in Guarding /\ saved[c].gitignore \in Guarding
        BY <1>g, <2>1
      <4>1. PICK f \in Files :
              /\ step[c] = <<"write", f>>
              /\ temps' = temps \cup {Leftover(f, Changed(f, loaded[c], request[c]),
                                               TRUE /\ ~HasTmpRule(saved[c].gitignore))}
        BY <3>2 DEF LeavesDraft
      <4>2. f = "env" /\ HasTmpRule(saved[c].gitignore)
        <5>1. files'.env = files.env
          BY <2>1
        <5>2. PICK t \in temps' : ~t.retracted /\ t.of = "env" /\ Secret(t.says) /\ t \notin temps
          BY <2>2, <5>1 DEF Exposed, Secret
        <5>3. t = Leftover(f, Changed(f, loaded[c], request[c]), TRUE /\ ~HasTmpRule(saved[c].gitignore))
          BY <4>1, <5>2
        <5>4. t.of = f /\ t.retracted = (TRUE /\ ~HasTmpRule(saved[c].gitignore))
          BY <5>3 DEF Leftover
        <5> QED
          BY <5>2, <5>4
      <4>3. "gitignore" \in WrittenBy(c)
        BY <4>1, <4>2 DEF WrittenBy
      <4>4. files.gitignore = WithEntries(saved[c].gitignore)
        BY <1>a, <1>f, <2>1, <4>3 DEF Rewritten, Changed
      <4>5. files.gitignore \in Guarding
        BY <1>g, <4>1, <4>2
      <4> QED
        BY <1>t, <4>2, <4>4, <4>5, TmpRuleStays
    <3> QED
      BY <1>2, <3>1, <3>2 DEF Abandons
  <2> QED
    BY <2>1, <2>2
<1>3. CASE Asks(c)
  <2>1. HasSaved(c, "gitignore")
    BY <1>3 DEF Asks, HasSaved, Idle
  <2>2. step'[c] = <<"load", "env">> => files.gitignore \in Guarding
    <3> SUFFICES ASSUME step'[c] = <<"load", "env">> PROVE files.gitignore \in Guarding
      OBVIOUS
    <3>1. step[c] = <<"ask", "ignored">> /\ Ignored(files.gitignore)
      BY <1>s, <1>3 DEF Asks
    <3>2. step[c] # Idle /\ "gitignore" \in WrittenBy(c)
      BY <3>1 DEF WrittenBy, Idle
    <3>3. files.gitignore = WithEntries(saved[c].gitignore)
      BY <1>a, <1>f, <3>2 DEF Rewritten, Changed
    <3> QED
      BY <1>t, <3>1, <3>3, CallsComplete, IgnoredIsGuarding
  <2> QED
    BY <1>3, <1>e, <1>g, <2>1, <2>2 DEF Asks
<1>4. CASE Tears(c)
  <2>1. ~HasSaved(c, "gitignore")' /\ step'[c] \notin {<<"load", "env">>, <<"write", "env">>} /\ files' = files
    BY <1>4 DEF Tears, Returned, HasSaved, Idle
  <2>2. ASSUME Exposed' PROVE files.gitignore \in Guarding
    <3>1. CASE temps' = temps
      BY <1>e, <1>g, <2>1, <2>2, <3>1
    <3>2. CASE LeavesDraft(c, FALSE)
      <4>1. PICK f \in Files :
              /\ step[c] = <<"write", f>>
              /\ temps' = temps \cup {Leftover(f, Changed(f, loaded[c], request[c]),
                                               FALSE /\ ~HasTmpRule(saved[c].gitignore))}
        BY <3>2 DEF LeavesDraft
      <4>2. f = "env" \/ Exposed
        BY <2>1, <2>2, <4>1 DEF Exposed, Leftover, Secret
      <4> QED
        BY <1>g, <4>1, <4>2
    <3>3. CASE LeavesOld(c)
      <4>0. PICK f \in Files :
              step[c] = <<"restore", f>> /\ temps' = temps \cup {Leftover(f, saved[c][f], FALSE)}
        BY <3>3 DEF LeavesOld
      <4>1. Exposed \/ (f = "env" /\ Secret(saved[c].env))
        BY <2>1, <2>2, <4>0 DEF Exposed, Leftover, Secret
      <4>2. f = "env" => saved[c].env = files.env
        BY <1>a, <1>f, <4>0 DEF HasSaved, WrittenBy, Undecided, Idle
      <4>3. Exposed
        BY <4>1, <4>2 DEF Exposed
      <4> QED
        BY <1>g, <4>3
    <3> QED
      BY <1>4, <3>1, <3>2, <3>3 DEF Tears
  <2> QED
    BY <2>1, <2>2
<1>5. ASSUME NEW f \in Files, Saves(c, f)
      PROVE  /\ (Exposed' <=> Exposed) /\ files' = files
             /\ Exposed /\ HasSaved(c, "gitignore")' => saved'[c].gitignore \in Guarding
             /\ step'[c] \notin {<<"load", "env">>, <<"write", "env">>}
  <2>1. (Exposed' <=> Exposed) /\ files' = files /\ step'[c] \notin {<<"load", "env">>, <<"write", "env">>}
    BY <1>5, <1>e DEF Saves
  <2>2. saved'[c].gitignore = IF f = "gitignore" THEN files.gitignore ELSE saved[c].gitignore
    BY <1>t, <1>f, <1>5 DEF Saves
  <2>3. f = "manifest" => ~HasSaved(c, "gitignore")'
    BY <1>5 DEF Saves, HasSaved, Unread
  <2>4. f = "env" => HasSaved(c, "gitignore")
    BY <1>5 DEF Saves, HasSaved, Unread, Idle
  <2> QED
    BY <1>g, <2>1, <2>2, <2>3, <2>4 DEF Files
<1>6. ASSUME NEW f \in Files, LoadsOne(c, f)
      PROVE  /\ Exposed' => files'.gitignore \in Guarding
             /\ Exposed' /\ HasSaved(c, "gitignore")' => saved'[c].gitignore \in Guarding
             /\ step'[c] \in {<<"load", "env">>, <<"write", "env">>} => files'.gitignore \in Guarding
  <2>1. HasSaved(c, "gitignore")
    BY <1>6 DEF LoadsOne, HasSaved, Idle
  <2> QED
    BY <1>6, <1>e, <1>g, <2>1 DEF LoadsOne
<1>7. ASSUME NEW f \in Files, WritesOne(c, f)
      PROVE  /\ Exposed' => files'.gitignore \in Guarding
             /\ Exposed' /\ HasSaved(c, "gitignore")' => saved'[c].gitignore \in Guarding
             /\ step'[c] \in {<<"load", "env">>, <<"write", "env">>} => files'.gitignore \in Guarding
  <2>0. step[c] = <<"write", f>> /\ step[c] # Idle /\ temps' = temps /\ HasSaved(c, "gitignore")
    BY <1>7 DEF WritesOne, HasSaved, Idle
  <2>1. \A g \in Files : files'[g] = IF g = f THEN Changed(f, loaded[c], request[c]) ELSE files[g]
    BY <1>t, <1>7 DEF WritesOne
  <2>2. CASE f = "env"
    <3>1. Returned(c)
      BY <1>7, <2>2 DEF WritesOne, AfterWrite
    <3>2. files'.gitignore = files.gitignore
      BY <1>f, <2>1, <2>2
    <3> QED
      BY <1>g, <2>0, <2>2, <3>1, <3>2 DEF Returned, HasSaved, Idle
  <2>3. ASSUME f # "env" PROVE (Exposed' <=> Exposed)
    BY <1>e, <1>f, <2>0, <2>1, <2>3
  <2>4. ASSUME f # "env", Exposed PROVE files'.gitignore = files.gitignore
    <3>1. CASE f = "gitignore"
      <4>1. loaded[c] = files.gitignore
        BY <1>a, <1>f, <2>0, <3>1
      <4> QED
        BY <1>f, <1>g, <1>t, <2>1, <2>4, <3>1, <4>1, CallsComplete DEF Changed, Completed
    <3>2. CASE f # "gitignore"
      BY <1>f, <2>1, <3>2
    <3> QED
      BY <3>1, <3>2
  <2>5. ASSUME f # "env" PROVE step'[c] \notin {<<"load", "env">>, <<"write", "env">>}
    BY <1>7, <2>5 DEF WritesOne, AfterWrite, Idle
  <2>6. saved'[c] = saved[c] \/ ~HasSaved(c, "gitignore")'
    BY <1>7 DEF WritesOne, HasSaved
  <2> QED
    BY <1>g, <2>0, <2>2, <2>3, <2>4, <2>5, <2>6
<1>8. ASSUME NEW f \in Files, RestoresOne(c, f)
      PROVE  /\ Exposed' => files'.gitignore \in Guarding
             /\ Exposed' /\ HasSaved(c, "gitignore")' => saved'[c].gitignore \in Guarding
             /\ step'[c] \in {<<"load", "env">>, <<"write", "env">>} => files'.gitignore \in Guarding
  <2>0. /\ step[c] = <<"restore", f>> /\ step[c] # Idle /\ temps' = temps
        /\ \A g \in Files : HasSaved(c, g)
    BY <1>8 DEF RestoresOne, HasSaved, Idle
  <2>1. \A g \in Files : files'[g] = IF g = f THEN saved[c][f] ELSE files[g]
    BY <1>t, <1>8 DEF RestoresOne
  <2>2. files'.env = files.env
    <3>1. f = "env" => saved[c].env = files.env
      BY <1>a, <1>f, <2>0 DEF WrittenBy, Undecided
    <3> QED
      BY <1>f, <2>1, <3>1
  <2>3. (Exposed' <=> Exposed)
    BY <1>e, <2>0, <2>2
  <2>4. step'[c] \notin {<<"load", "env">>, <<"write", "env">>} /\ (saved'[c] = saved[c] \/ ~HasSaved(c, "gitignore")')
    BY <1>8 DEF RestoresOne, Returned, HasSaved, Idle
  <2> QED
    BY <1>f, <1>g, <2>0, <2>1, <2>3, <2>4
<1> QED
  BY <1>s, <1>1, <1>2, <1>3, <1>4, <1>5, <1>6, <1>7, <1>8, <1>g DEF ConfigStepIs

------------------------------------------------------------------------------
\* The theorems

\* The invariants hold together.
LEMMA ConfigInvariance == ConfigSpec => []ConfigInv
<1>1. ConfigInit => ConfigInv
  BY ConfigTypesInit, SurvivesInit, AloneInit, GuardInit DEF ConfigInv
<1>2. ConfigInv /\ [ConfigNext]_configVars => ConfigInv'
  <2> SUFFICES ASSUME ConfigInv, [ConfigNext]_configVars PROVE ConfigInv'
    OBVIOUS
  <2>1. CASE UNCHANGED configVars
    <3> USE <2>1 DEF configVars
    <3>1. ConfigTypes'
      BY DEF ConfigInv, ConfigTypes
    <3>2. SurvivesInv'
      BY DEF ConfigInv, SurvivesInv, Survives, Surviving, HasSaved
    <3>3. AloneInv'
      BY DEF ConfigInv, AloneInv, Alone, HasSaved, WrittenBy, Undecided, Rewritten
    <3>4. GuardInv'
      BY DEF ConfigInv, GuardInv, Exposed, HasSaved
    <3> QED
      BY <3>1, <3>2, <3>3, <3>4 DEF ConfigInv
  <2>2. ASSUME NEW c \in Clients, ConfigStep(c) PROVE ConfigInv'
    BY <2>2, ConfigTypesStep, SurvivesStep, AloneStep, GuardStep DEF ConfigInv
  <2> QED
    BY <2>1, <2>2 DEF ConfigNext
<1> QED
  BY <1>1, <1>2, PTL DEF ConfigSpec

\* connections.py:53-60: every variable keeps its type.
THEOREM ConfigurationKeepsTypes == ConfigSpec => []ConfigTypeOK
<1>1. ConfigInv => ConfigTypeOK
  <2> SUFFICES ASSUME ConfigInv PROVE ConfigTypeOK
    OBVIOUS
  <2>1. ConfigTypes
    BY DEF ConfigInv
  <2>2. /\ files.manifest \in {None, Bad} \cup Profiles /\ files.env \in {None, Bad} \cup Envs
        /\ files.gitignore \in Ignores
    BY <2>1 DEF ConfigTypes, Snapshot, MayHold, Files
  <2>3. Ignores \subseteq Seq(Rules) \cup {None}
    <3>1. "env" \in Rules /\ "tmp" \in Rules /\ "allow" \in Rules
      BY DEF Rules
    <3> QED
      BY <3>1, Tuples DEF Ignores, InitialIgnores, Completed, Guarding
  <2> QED
    BY <2>1, <2>2, <2>3 DEF ConfigTypes, ConfigTypeOK
<1> QED
  BY <1>1, ConfigInvariance, PTL

\* connections.py:74-78: a rollback only takes back what was written since its
\* call began, however calls overlap, fail and die; and agent.env only becomes
\* unreadable by a value that cuts its line (env_files.py:138, 176).
THEOREM ConnectionsSurvive == ConfigSpec => []OldConfigurationSurvives
<1>1. ConfigInv => OldConfigurationSurvives
  BY DEF ConfigInv, SurvivesInv, Survives, OldConfigurationSurvives, Files
<1> QED
  BY <1>1, ConfigInvariance, PTL

\* shared/env_files.py:18, 60-71: neither agent.env nor what is left of it can be
\* committed once it holds a value, as long as calls do not overlap; but for the
\* temporary file of a write that fails in a call that then takes back the rule it
\* added for such files (env_files.py:268-288).
THEOREM SecretsStayOutOfGit == ConfigSpec => []GitIgnoresSecrets
<1>1. ConfigInv => GitIgnoresSecrets
  <2> SUFFICES ASSUME GuardInv PROVE GitIgnoresSecrets
    BY DEF ConfigInv
  <2>1. ASSUME git = "repository", ~overlapped, Exposed
        PROVE  Ignored(files.gitignore) /\ HasTmpRule(files.gitignore)
    BY <2>1, GuardingIgnores DEF GuardInv
  <2>2. SecretsAreIgnored
    BY <2>1 DEF SecretsAreIgnored, Exposed, Secret
  <2>3. LeftoversAreIgnored
    BY <2>1 DEF LeftoversAreIgnored, Exposed, Secret
  <2> QED
    BY <2>2, <2>3 DEF GitIgnoresSecrets
<1> QED
  BY <1>1, ConfigInvariance, PTL

------------------------------------------------------------------------------
\* The contract

\* What the project is while at most one client configures it.
LEMMA ShownIs ==
  ASSUME NEW c \in Clients, \A d \in Clients \ {c} : step[d] = Idle
  PROVE  Shown = IF Changing(c) THEN saved[c] ELSE files
<1>1. \A d \in Clients \ {c} : ~Changing(d)
  BY DEF Changing, Idle
<1>2. CASE Changing(c)
  <2>1. (CHOOSE d \in Clients : Changing(d)) = c
    BY <1>1, <1>2
  <2> QED
    BY <1>2, <2>1 DEF Shown
<1>3. CASE ~Changing(c)
  BY <1>1, <1>3 DEF Shown
<1> QED
  BY <1>2, <1>3

\* The same after a step.
LEMMA ShownBecomes ==
  ASSUME NEW c \in Clients, \A d \in Clients \ {c} : step'[d] = Idle
  PROVE  Shown' = IF Changing(c)' THEN saved'[c] ELSE files'
<1>1. \A d \in Clients \ {c} : ~Changing(d)'
  BY DEF Changing, Idle
<1>2. CASE Changing(c)'
  <2>1. (CHOOSE d \in Clients : Changing(d)') = c
    BY <1>1, <1>2
  <2> QED
    BY <1>2, <2>1 DEF Shown
<1>3. CASE ~Changing(c)'
  BY <1>1, <1>3 DEF Shown
<1> QED
  BY <1>2, <1>3

\* A call that configures alone and returns, or stops, is a step of the contract;
\* what it does meanwhile does not show.
LEMMA ContractStep ==
  ASSUME ConfigTypes, AloneInv, AloneInv', ConfigTypes', NEW c \in Clients, ConfigStep(c)
  PROVE  Contract!Next \/ UNCHANGED Contract!vars
<1>s. ConfigStepIs(c)
  BY ConfigStepsOfClients
<1>n. torn' = torn \/ torn' = torn + 1
  BY <1>s DEF ConfigStepIs, Enters, Saves, LoadsOne, WritesOne, RestoresOne, Abandons, Asks, Tears, SameHistory
<1>m. CASE overlapped'
  BY <1>m, <1>n DEF Contract!Next, Contract!Overlap
<1>k. CASE ~overlapped'
  <2>o. ~overlapped /\ \A d \in Clients \ {c} : step[d] = Idle /\ step'[d] = Idle
    BY <1>k, AloneStep
  <2>q. overlapped' = overlapped
    BY <1>k, <2>o DEF ConfigTypes
  <2>w. /\ Shown = IF Changing(c) THEN saved[c] ELSE files
        /\ Shown' = IF Changing(c)' THEN saved'[c] ELSE files'
    BY <2>o, ShownIs, ShownBecomes
  <2>t. /\ saved[c] = [f \in Files |-> saved[c][f]] /\ files = [f \in Files |-> files[f]]
        /\ saved'[c] = [f \in Files |-> saved'[c][f]] /\ files' = [f \in Files |-> files'[f]]
        /\ \A f \in Files : step[c] = <<"write", f>> => Readable(f, loaded[c])
        /\ step[c] # Idle => request[c] \in Requests
    BY DEF ConfigTypes, Snapshot
  <2>a. step[c] # Idle =>
          /\ WrittenBy(c) # {} => request[c].keys # {}
          /\ \A f \in Files :
               /\ HasSaved(c, f) /\ f \notin WrittenBy(c) \cup Undecided(c) => files[f] = saved[c][f]
               /\ f \in WrittenBy(c) => Rewritten(c, f)
               /\ f \in Undecided(c) => files[f] = saved[c][f] \/ Rewritten(c, f)
               /\ step[c] = <<"write", f>> => loaded[c] = files[f]
    BY <2>o DEF AloneInv, Alone
  <2>u. ASSUME Shown' = Shown, torn' = torn PROVE UNCHANGED Contract!vars
    BY <2>q, <2>u DEF Contract!vars
  <2>1. CASE Enters(c)
    <3>1. ~Changing(c) /\ ~Changing(c)' /\ files' = files /\ torn' = torn
      BY <2>1 DEF Enters, Changing, Idle
    <3> QED
      BY <2>u, <2>w, <3>1
  <2>2. CASE Abandons(c) \/ Asks(c)
    <3>0. /\ step[c][1] \in {"load", "write", "ask"} /\ saved'[c] = saved[c] /\ torn' = torn
          /\ step'[c] \in {<<"restore", "manifest">>, <<"ask", "ignored">>, <<"load", "env">>}
      <4>1. CASE Abandons(c)
        BY <4>1 DEF Abandons
      <4>2. CASE Asks(c)
        BY <4>2 DEF Asks
      <4> QED
        BY <2>2, <4>1, <4>2
    <3>1. Changing(c) /\ Changing(c)' /\ saved'[c] = saved[c] /\ torn' = torn
      BY <3>0 DEF Changing
    <3> QED
      BY <2>u, <2>w, <3>1
  <2>3. CASE Tears(c)
    <3>1. /\ ~Changing(c)' /\ files' = files /\ torn' = torn + 1 /\ step[c] # Idle
      BY <2>3 DEF Tears, Returned, Changing, Idle
    <3>2. Shown' = files
      BY <2>w, <3>1
    <3>3. \A g \in Files : files[g] # Shown[g] => g \in Written(request[c]) /\ Readable(g, Shown[g])
                                                  /\ files[g] = Changed(g, Shown[g], request[c])
      <4>1. CASE ~Changing(c)
        BY <2>w, <4>1
      <4>2. CASE Changing(c)
        <5>1. \A g \in Files : HasSaved(c, g)
          BY <3>1, <4>2 DEF HasSaved, Changing
        <5>2. Shown = saved[c]
          BY <2>w, <4>2
        <5>3. \A g \in Files : files[g] = saved[c][g] \/ Rewritten(c, g)
          BY <2>a, <3>1, <5>1
        <5> QED
          BY <5>2, <5>3 DEF Rewritten
      <4> QED
        BY <4>1, <4>2
    <3>4. Shown = [f \in Files |-> Shown[f]]
      BY <2>t, <2>w
    <3> DEFINE new == Draft(Shown, request[c])
               done == {g \in Files : files[g] # Shown[g]}
    <3>5. new \in AllDrafts(Shown)
      BY <2>t, <3>1 DEF AllDrafts
    <3>6. \A g \in Files : files[g] = IF g \in done THEN new[g] ELSE Shown[g]
      BY <3>3 DEF Draft
    <3>7. DOMAIN Shown = Files /\ done \in SUBSET Files
      BY <3>4
    <3> HIDE DEF new, done
    <3>8. Shown' = [f \in DOMAIN Shown |-> IF f \in done THEN new[f] ELSE Shown[f]]
      BY <2>t, <3>2, <3>6, <3>7
    <3>9. \E n \in AllDrafts(Shown), d \in SUBSET DOMAIN Shown :
            Shown' = [f \in DOMAIN Shown |-> IF f \in d THEN n[f] ELSE Shown[f]]
      BY <3>5, <3>7, <3>8
    <3>10. Contract!Tear
      BY <2>q, <3>1, <3>9 DEF Contract!Tear
    <3> QED
      BY <3>10 DEF Contract!Next
  <2>4. ASSUME NEW f \in Files, Saves(c, f) PROVE UNCHANGED Contract!vars
    <3>1. ~Changing(c) /\ files' = files /\ torn' = torn
      BY <2>4 DEF Saves, Changing
    <3>2. CASE f # "env"
      <4>1. ~Changing(c)'
        BY <2>4, <3>2 DEF Saves, Changing, Files
      <4> QED
        BY <2>u, <2>w, <3>1, <4>1
    <3>3. CASE f = "env"
      <4>1. step'[c] = <<"load", "manifest">>
        BY <2>4, <3>3 DEF Saves
      <4>2. /\ step'[c] # Idle /\ Changing(c)' /\ WrittenBy(c)' = {} /\ Undecided(c)' = {}
            /\ \A g \in Files : HasSaved(c, g)'
        BY <4>1 DEF Idle, Changing, WrittenBy, Undecided, HasSaved
      <4>3. Alone(c)'
        BY <1>k DEF AloneInv
      <4>4. \A g \in Files : files'[g] = saved'[c][g]
        BY <4>2, <4>3 DEF Alone
      <4>5. saved'[c] = files'
        BY <2>t, <4>4
      <4> QED
        BY <2>u, <2>w, <3>1, <4>2, <4>5
    <3> QED
      BY <3>2, <3>3
  <2>5. ASSUME NEW f \in Files, LoadsOne(c, f) PROVE UNCHANGED Contract!vars
    <3>1. Changing(c) /\ Changing(c)' /\ saved'[c] = saved[c] /\ torn' = torn
      BY <2>5 DEF LoadsOne, Changing
    <3> QED
      BY <2>u, <2>w, <3>1
  <2>6. ASSUME NEW f \in Files, WritesOne(c, f) PROVE Contract!Next \/ UNCHANGED Contract!vars
    <3>0. Changing(c) /\ Shown = saved[c] /\ torn' = torn /\ step[c] # Idle /\ step[c] = <<"write", f>>
      BY <2>6, <2>w DEF WritesOne, Changing, Idle
    <3>1. CASE step'[c] # Idle
      <4>1. Changing(c)' /\ saved'[c] = saved[c]
        BY <2>6, <3>1 DEF WritesOne, AfterWrite, Changing
      <4> QED
        BY <2>u, <2>w, <3>0, <4>1
    <3>2. CASE step'[c] = Idle
      <4>1. Shown' = files'
        BY <2>w, <3>2 DEF Changing, Idle
      <4>2. (f = "manifest" /\ request[c].keys = {}) \/ f = "env"
        BY <2>6, <3>2 DEF WritesOne, AfterWrite, Idle, Files
      <4>3. \A g \in Files : files'[g] = IF g = f THEN Changed(f, loaded[c], request[c]) ELSE files[g]
        BY <2>t, <2>6 DEF WritesOne
      <4>4. (\A g \in Files : HasSaved(c, g)) /\ Undecided(c) = {}
        BY <3>0 DEF HasSaved, Undecided
      <4>5. f \notin WrittenBy(c)
        BY <3>0 DEF WrittenBy
      <4>6. loaded[c] = saved[c][f] /\ Readable(f, saved[c][f])
        BY <2>a, <2>t, <3>0, <4>4, <4>5
      <4>7. \A g \in Files : /\ g \in Written(request[c]) => Readable(g, saved[c][g])
                             /\ files'[g] = IF g \in Written(request[c]) THEN Changed(g, saved[c][g], request[c])
                                            ELSE saved[c][g]
        <5>1. CASE f = "manifest"
          <6>1. request[c].keys = {} /\ WrittenBy(c) = {}
            BY <3>0, <4>2, <5>1 DEF WrittenBy
          <6>2. Written(request[c]) = {"manifest"}
            BY <6>1 DEF Written
          <6>3. \A g \in Files : files[g] = saved[c][g]
            BY <2>a, <3>0, <4>4, <6>1
          <6> QED
            BY <4>3, <4>6, <5>1, <6>2, <6>3
        <5>2. CASE f = "env"
          <6>1. WrittenBy(c) = {"manifest", "gitignore"}
            BY <3>0, <5>2 DEF WrittenBy
          <6>2. Written(request[c]) = Files
            BY <2>a, <3>0, <6>1 DEF Written
          <6>3. \A g \in Files \ {f} : Rewritten(c, g)
            BY <2>a, <3>0, <5>2, <6>1 DEF Files
          <6> QED
            BY <4>3, <4>6, <6>2, <6>3 DEF Rewritten
        <5> QED
          BY <4>2, <5>1, <5>2
      <4>8. files' = Draft(saved[c], request[c])
        <5>1. \A g \in Files : files'[g] = Draft(saved[c], request[c])[g]
          BY <4>7 DEF Draft
        <5>2. Draft(saved[c], request[c]) = [g \in Files |-> Draft(saved[c], request[c])[g]]
          BY DEF Draft
        <5> QED
          BY <2>t, <5>1, <5>2
      <4>9. Written(request[c]) \subseteq Files /\ request[c] \in Requests
        BY <2>t, <3>0 DEF Written, Files
      <4>10. files' \in AllChanges(saved[c])
        BY <4>7, <4>8, <4>9 DEF AllChanges
      <4>11. Contract!Configure
        BY <2>q, <3>0, <4>1, <4>10 DEF Contract!Configure
      <4> QED
        BY <4>11 DEF Contract!Next
    <3> QED
      BY <3>1, <3>2
  <2>7. ASSUME NEW f \in Files, RestoresOne(c, f) PROVE UNCHANGED Contract!vars
    <3>0. Changing(c) /\ Shown = saved[c] /\ torn' = torn /\ step[c] # Idle /\ step[c] = <<"restore", f>>
      BY <2>7, <2>w DEF RestoresOne, Changing, Idle
    <3>1. CASE f # "env"
      <4>1. Changing(c)' /\ saved'[c] = saved[c]
        BY <2>7, <3>1 DEF RestoresOne, Changing
      <4> QED
        BY <2>u, <2>w, <3>0, <4>1
    <3>2. CASE f = "env"
      <4>1. Shown' = files'
        BY <2>7, <2>w, <3>2 DEF RestoresOne, Returned, Changing, Idle
      <4>2. (\A g \in Files : HasSaved(c, g)) /\ WrittenBy(c) = {} /\ Undecided(c) = {}
        BY <3>0, <3>2 DEF HasSaved, WrittenBy, Undecided
      <4>3. \A g \in Files : files[g] = saved[c][g]
        BY <2>a, <3>0, <4>2
      <4>4. \A g \in Files : files'[g] = saved[c][g]
        BY <2>t, <2>7, <4>3 DEF RestoresOne
      <4>5. files' = saved[c]
        BY <2>t, <4>4
      <4> QED
        BY <2>u, <3>0, <4>1, <4>5
    <3> QED
      BY <3>1, <3>2
  <2> QED
    BY <1>s, <2>1, <2>2, <2>3, <2>4, <2>5, <2>6, <2>7, <2>u DEF ConfigStepIs, Contract!Next
<1> QED
  BY <1>m, <1>k

\* connections.py:62-78: the three files of a project change together or not at
\* all; the module implements ConnectionContract.
THEOREM FilesChangeTogether == ConfigSpec => ChangesTogether
<1>1. ConfigInit => torn = 0 /\ overlapped = FALSE
  BY DEF ConfigInit
<1>2. ConfigInv /\ ConfigInv' /\ [ConfigNext]_configVars => [Contract!Next]_Contract!vars
  <2> SUFFICES ASSUME ConfigInv, ConfigInv', [ConfigNext]_configVars
               PROVE  Contract!Next \/ UNCHANGED Contract!vars
    OBVIOUS
  <2>1. CASE UNCHANGED configVars
    BY <2>1 DEF configVars, Contract!vars, Shown, Changing
  <2>2. ASSUME NEW c \in Clients, ConfigStep(c) PROVE Contract!Next \/ UNCHANGED Contract!vars
    BY <2>2, ContractStep DEF ConfigInv
  <2> QED
    BY <2>1, <2>2 DEF ConfigNext
<1> QED
  BY <1>1, <1>2, ConfigInvariance, PTL DEF ConfigSpec, ChangesTogether, Contract!Spec

------------------------------------------------------------------------------
\* Both

\* Of what the two do beside each other, each sees steps of its own and others
\* that change nothing.
LEMMA ProjectsAreBoth == StartSpec => BootSpec /\ ConfigSpec
<1>1. StartInit => BootInit /\ ConfigInit
  BY DEF StartInit
<1>2. [StartNext]_<<bootVars, configVars>> => [BootNext]_bootVars /\ [ConfigNext]_configVars
  BY DEF StartNext
<1> QED
  BY <1>1, <1>2, PTL DEF StartSpec, BootSpec, ConfigSpec

\* MCProjects!TypeOK: the registry, bootstrap and the configuration keep their
\* types beside each other (registry.py:17-18, bootstrap.py:38-59,
\* connections.py:53-60).
THEOREM ProjectsKeepTypes == StartSpec => []TypeOK
<1>1. BootTypeOK /\ ConfigTypeOK => TypeOK
  BY DEF TypeOK
<1> QED
  BY <1>1, ProjectsAreBoth, RegistryKeepsTypes, ConfigurationKeepsTypes, PTL
=================================================================================
