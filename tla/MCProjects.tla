------------------------------ MODULE MCProjects ------------------------------
\* The registry and bootstrap beside configure_connection, for TLC: a behaviour
\* spends its calls on the one or on the other.
EXTENDS ProjectBootstrap, ConnectionConfig, TLC

CONSTANTS app, web, x, n1

\* Two folders, named app and web.
TwoNames == 1 :> app @@ 2 :> web
Manifest(id, as) == [id |-> id, aliases |-> as]
Content(isRepository, manifest) == [git |-> isRepository, manifest |-> manifest, docs |-> FALSE]
SmallDrafts ==
  {None, Content(TRUE, None), Content(FALSE, Bad), Content(FALSE, Manifest(x, {})),
   Content(FALSE, Manifest(None, {web})), Content(FALSE, Manifest(None, {x}))}
SmallRepositories == {None, Bad, Manifest(x, {}), Manifest(None, {app})}

Budget(boots, resolves, edits, mishap) ==
  [boots |-> boots, resolves |-> resolves, edits |-> edits, mishaps |-> mishap]
Nothing == Budget(0, 0, 0, 0)
SmallBudgets == {Budget(2, 0, 0, 0), Budget(1, 1, 0, 1), Budget(0, 1, 2, 0), Nothing}

\* One call from every state of the files, or two where they meet each other.
ConfigScope ==
  /\ left = Nothing /\ disk = <<None, None>>
  /\ \/ configs = MaxConfigs - 1
     \/ /\ configs = 1 /\ git = "repository"
        /\ files.manifest = Set(None, Names, {n1}, 1)
        /\ files.gitignore \in {None, Entries}
        /\ files.env \in {Bad, [says |-> Set(None, Keys, Keys, 1), cut |-> 0]}
BootScope ==
  /\ left # Nothing
  /\ left.boots = 2 => disk[1] = None /\ disk[2] \in {None, Content(FALSE, Manifest(x, {}))}
  /\ configs = MaxConfigs /\ git = "outside"
  /\ files = [manifest |-> None, gitignore |-> None, env |-> None]

StartInit == BootInit /\ ConfigInit /\ (ConfigScope \/ BootScope)

StartNext ==
  \/ BootNext /\ UNCHANGED configVars
  \/ ConfigNext /\ UNCHANGED bootVars

StartSpec == StartInit /\ [][StartNext]_<<bootVars, configVars>>

\* People fill two empty folders.
EmptyInit == StartInit /\ disk = <<None, None>> /\ left = Budget(0, 1, 2, 0)
EmptySpec == EmptyInit /\ [][StartNext]_<<bootVars, configVars>>

Symmetric == Permutations(Clients)

\* Every variable of the registry and of the configuration keeps its type.
TypeOK == BootTypeOK /\ ConfigTypeOK
===============================================================================
