# dev-workspace-mcp in TLA+

`dev-workspace-mcp` is an MCP server that gives agents one workspace: it runs
commands and services of registered projects, reads and edits their files, and
keeps a searchable memory of their documents. This directory specifies the parts
of it in which the order of steps matters, checks them with TLC on small
instances, and proves the most important invariants with TLAPS for instances of
any size. Paths below are relative to `src/dev_workspace_mcp/` unless they begin
with `src/`.

    tlc -config MCJobsSafety.cfg MCCommandJobs.tla    # any run of the table below
    tlapm CommandJobsProofs.tla                       # any proof module

## 1. The system

One Python process serves MCP over stdio or HTTP. Tool handlers are plain
functions. FastMCP 2 runs them one after the other on the event loop, FastMCP 3 on
a pool of threads; `pyproject.toml` admits both, so the models have a set `Callers`
of handler threads, and runs with one and with several members. Daemon threads
(waiters, capture threads, exit watchers) interleave with handlers in either case.
The command line (`cli/main.py`) is a second process over the same files.

| Component | State | Operations | What is hard |
|---|---|---|---|
| command jobs: `commands/service.py`, `commands/jobs.py` | job records, table of live processes, both behind one lock; processes, pipes | `run_command`, `get_job`, `cancel_job`; a waiter per background job, two capture threads per process | waiter, `cancel_job` and the process race; copies of a record are written back; timeouts, kills |
| services: `services/manager.py`, `services/process_store.py`, `services/health.py` | one record and one attached process per service | list, status, start, stop, restart; an exit watcher per process | two tables written one after the other, copies written back after a health check or a wait |
| service logs: `services/logs.py`, `ServiceManager._capture_stream` | numbered lines, byte count, one open line per stream | append, set/close/clear open fragment, slice | trimming of lines somebody still writes or pages over |
| memory index: `memory_index/` | SQLite file: documents, chunks, search tables, session summaries, decisions | reindex, status, search, record session | two processes, a transaction per document, crashes, a schema created in pieces |
| job output: `CommandService._capture_stream`, `_flush_buffered_output`, `commands/jobs.py`, `shared/security.py` | pending text per stream, chunks of a record | read, flush, append, trim | secrets that are cut by a chunk; bytes and characters; three limits |
| registry: `projects/registry.py`, `discovery.py`, `resolver.py`, `manifest.py` | `_projects`, `_aliases` | refresh, get, require, list | the two maps are swapped one after the other; duplicate ids and aliases |
| bootstrap: `projects/bootstrap.py` | directories, git repositories | create, clone, import | cleaning up after a step that failed |
| connections: `projects/connections.py`, `shared/env_files.py` | manifest, `.gitignore`, `agent.env` | configure, test, list | three files, one rollback; another process in between |
| files: `files/service.py`, `files/patching.py` | project files | read, write, move, delete, apply patch | hunk positions, several files in one patch |
| codegraph: `codegraph/` | snapshot with a state token | overview, context, references, call path | the token is computed before the snapshot is built |
| state documents: `state_docs/` | markdown files | read, write, patch a section | read, modify, write; headings that are alike |
| policy: `policy/`, `commands/allowlist.py`, `probes/`, `http_tools/`, `services/health.py` | the policy in each registry record | decide what may run, with which environment, what may be reached | records are used while files change and other calls refresh |
| snapshots, git, GitHub | none | read-only views and one-shot subprocesses | nothing that outlives a call |
| server, transports, CLI, configuration, `shared/` | wiring | dispatch | supplies the threads the other models assume |

How they interact: every handler asks the registry for its project first; commands
and services ask the policy before they spawn; services write to the log store and
to the process store; snapshots read the memory index, services and git. The models
of jobs, services, files, documents and indexes take a registered project and an
admitted command as given, because a refusal happens before any state changes; the
registry and the policy have models of their own.

### What makes each component correct

- *Jobs.* A terminal status means that the process is gone, carries its real exit
  code, and is not taken back; every job ends; nothing stays in the process table.
- *Services.* Record, process table and processes agree when nobody is at work; no
  process is orphaned; every exit is noticed; the restart count is not lost.
- *Logs.* Bytes add up, open lines are lines that exist, whole lines are not
  overwritten, and a client that pages misses nothing that is retained.
- *Memory.* A reindex catches up with the files whatever was interrupted, the search
  tables say what the tables say, the status is the truth, a session recorded twice
  is one session.
- *Output.* No character of a secret is stored and nothing else is lost, wherever a
  read ends; the output is the end of what was printed.
- *Registry.* Whoever looks up a project that nobody changes finds it, also between the
  two halves of a refresh; every project resolves by its id.
- *Policy.* A process has its permission, environment and time limit from one policy of
  its project; a file that does not parse changes nothing.
- *Connections, bootstrap, files, state documents.* A call that fails leaves what
  was there before; a call that succeeds leaves what it was asked for and the
  changes of nobody else undone.
- *Codegraph.* An answer comes from the files that its token describes.

## 2. Modules

| Module | Models | Notes |
|---|---|---|
| `JobContract` | what the job tools promise a client | abstract: status, exit code and process of a job, nothing else |
| `CommandJobs` | `CommandService` and `InMemoryJobStore` | implements `JobContract` |
| `JobOutput` | `_capture_stream`, `_flush_buffered_output`, `redact_secrets`, `_trim_output_chunks` | the contents that `CommandJobs` only counts |
| `ServiceManager` | `ServiceManager` and `InMemoryProcessStore` for one service | tables are keyed by project and service and keys do not interact |
| `ServiceLogs` | `ServiceLogStore` and `_capture_stream` | one buffer; composes the store, its writers and a paging client |
| `MemoryIndex` | `MemoryIndexService`, `SQLiteMemoryStore`, `CanonicalDocumentIndexer` for one project | several processes, one file |
| `Workspace` | | the constants that the next modules share |
| `ProjectRegistry` | discovery, `refresh`, `get`, `require` | the tables, extended by the next module |
| `ProjectBootstrap` | `bootstrap_project`: create, clone, import | over the registry and the folders of the workspace |
| `ConnectionContract` | what `configure_connection` promises | abstract: the project's files change together |
| `ConnectionConfig` | `configure_connection`, `env_files.py`, `update_manifest` | implements `ConnectionContract` |
| `Patching` | `parse_unified_diff`, `apply_unified_diff_to_text` | operators, and the diffs other tools make as their reference |
| `FileService` | write, patch, move, delete | extends `Patching` |
| `StateDocs` | write and patch of a state document | |
| `Codegraph` | snapshot, token, health and the queries | nodes and edges follow from the texts |
| `PolicyRules` | allowlist, rules, environment, hosts | operators |
| `ProjectPolicy` | the tools that act under a policy, and `refresh` | extends `PolicyRules` |
| `CommandJobsProofs`, `ServiceManagerProofs`, `ServiceLogsProofs`, `MemoryIndexProofs`, `FileServiceProofs` | | theorems about the module of that name |
| `ProjectsProofs` | | theorems about `ProjectBootstrap`, `ConnectionConfig` and both (`MCProjects`) |
| `WorkspaceProofs` | | theorems about `StateDocs`, `Codegraph`, and about them and `FileService` (`MCWorkspace`) |
| `CommandIOProofs` | | theorems about `JobOutput`, `ProjectPolicy` and both (`MCCommandIO`) |
| `MCCommandJobs`, `MCServiceManager`, `MCServiceLogs`, `MCMemoryIndex`, `MCProjects`, `MCWorkspace`, `MCCommandIO` | | symmetry sets, functions and initial states for the configurations |

### How state and steps correspond to the code

Every method of the two job and process stores and of the log store holds its lock
from its first to its last line, so a store call is one step. Everything else is
cut where another thread or process can come between: one action per store call,
`poll`, `wait`, `kill`, `join`, health check, thread start, access to a file, or run of
git. A handler's position is its `cpc` or `at`, a waiter's or watcher's its `wpc`; what
the code holds over such a cut is a local variable of the model (`snapshot`, `loc`,
`wloc`, `saved`, `loaded`, `built`, `taken`, `cached`), which is where most of the
interesting behaviour comes from. History variables are named as such in each module.

`CommandJobs`: `processes` is the key set of `_processes`; `proc` is the operating
system process, which may end at any time; `signal` is the last signal that reached
it alive. `Popen.poll()` gives up when another thread is inside `Popen.wait()`, so
`CancelPoll` may answer None for a dead process (`Waited`). The contents of output are
left to `JobOutput`; its amount and its order against the verdict are kept.

`JobOutput`: a character is one of six: part of a name that makes it secret (`"s"`),
another letter, `=`, a character that separates and takes two bytes, a space, a line
break. A stored text is a sequence of positions in what the stream printed, with 0 for
the mark of a redaction; so the properties can say which character was stored, and
not only which text. `handle.read` decodes strictly: a byte that is no text raises, and
the thread ends with what it has pending and without what follows (`Breaks`, after
any read). The redaction of Authorization headers is left out.

`ServiceManager`: a record keeps status, instance and restart count. A health check
is the choice between going on and raising, and may take any time. `fresh` and
`clobbered` are history variables: they tell a behaviour in which a thread wrote an
old copy over a newer record, or removed a process it was not dealing with, from one
in which that did not happen.

`ServiceLogs`: text is a sequence over three characters: one that means nothing, the
newline at which the capture threads cut, and another line boundary at which
`splitlines` cuts. The store is the code line by line, except that the trimming of the
pieces of one append is done once at the end, which leaves the same lines.

`MemoryIndex`: a text stands for its hash. Ids are the ids SQLite draws (the largest
and one), since their reuse matters. Python's `sqlite3` opens a transaction before
the first INSERT, UPDATE or DELETE; therefore the SELECT of `replace_document` is a
step of its own, and DROP INDEX and CREATE INDEX commit separately.
`GivesUp` stops a process at any step: a crash, a file that vanished while it was
read, or five seconds of waiting for a lock.
The search queries change nothing and are not actions; what they would find is
`fts`, `summaryFts` and `decisionFts`.

`ProjectRegistry`, `ProjectBootstrap`: a folder is whether it has a repository, its
manifest (id and aliases) and whether it has the default documents. `Builds` reads all
of the disk in one step; the two assignments of `refresh` are `SwapsProjects` and
`SwapsAliases`, and the two lookups of `get` are `ReadsAlias` and `Found`, so that a
reader can stand between any two of them. `touched` (ids and aliases that a change
brought or took away), `removed` (folders that somebody removed) and `mixed` (calls and
edits overlapped) are history variables. Without `removed`, two calls that create one
folder could both succeed because its owner removed it in between, which is no fault.

`ConnectionConfig`: `.gitignore` is the sequence of those of its lines that matter,
and git obeys the last rule that matches. A profile or a value is the number of
the call that set it, so that "older" and "newer" can be compared. `write_text_atomic`
replaces a file as a whole; a process that dies inside it leaves a temporary file, and
so does a write that fails, since `temp_path` is bound after it
(`shared/env_files.py:280-282`). `retracted` marks a leftover whose call then put back a
`.gitignore` without a rule for it. A value may be plain, have a line break, which is
refused, or have another character at which `splitlines()` cuts (`"boundary"`), which is
stored; `cut` then names its call, and the file does not parse any more.

`Patching`, `FileService`: a text is its lines as git counts them, whether it ends with a
newline and whether it has lines that end with CR LF. Some lines have `Halves`, what
`splitlines()` makes of them (`Split`, and `"cut"` lines of a diff). The patches are made
from edit scripts (lines that stay, go or come, and which of them the diff shows), by
`Hunks` and `Rendered`, the way `diff -u` and git make them; the parser and the applier are
the code's, and the script says what should come out. A file is rewritten in place:
emptied, and then filled. `Inside` says which paths are in which folder: a folder is
removed with them, and half of that may be done when a call stops. `Dies` and `Fails` are
the same step: the process ends, or the file system raises, before any access to it.

`StateDocs`: a document is its lines, without the space at their end. `Outdented` says what
a line is without its indentation, which `strip()` takes from the first line of a section,
of an update and of the lines before the first heading; it may be a heading.

`Codegraph`: a text is its symbols and their calls. A stamp stands for size and time.
The index lists the files, and reads them one by one; the queries that do not trust
the snapshot do the same.

`ProjectPolicy`: a policy file is a value that parses or `Bad`. `known` are the
policies of the registry's records; a call takes one and uses it in a later step. Only
`test_connection` refreshes first. Redact patterns are the set of variable names they
match, allowed hosts the set of hosts.

## 3. Runs

| Run | Configuration | Question | Bounds |
|---|---|---|---|
| `jobs_safety` | `MCJobsSafety` | Do terminal statuses tell the truth, and is nothing left behind? Is every step allowed by `JobContract`? | 3 clients, 1 job, joins and kills may time out |
| `jobs_liveness` | `MCJobsLiveness` | Does every job end, is its output complete by then, is every end reported? | 2 clients, 1 job, 2 pipes |
| `jobs_cancel_lost` | `MCJobsCancelLost` | *finding*: is an answered cancellation read back? | 1 client |
| `services_life` | `MCServicesLife` | Do record, table and processes agree, is the restart count kept and every exit noticed? | 1 client, 2 processes, all five tools |
| `services_two_clients` | `MCServicesTwoClients` | The same with concurrent starts and stops; is a process orphaned? | 2 clients, 2 processes; behaviours are followed up to the first lost update |
| `services_stale` | `MCServicesStale` | *finding*: does a service that ended stop saying running? | 1 client, 1 process |
| `logs_capture` | `MCServiceLogs` | Is the buffer sound while threads fill it and a client pages? Does an old process spoil lines of a new one? | 5 bytes, 3 characters per writer, pages of up to 2; two streams of a process, or one stream of two |
| `memory_index` | `MCMemoryIndex` | Do undisturbed reindexes and statuses tell the truth? What do overlapping ones do to rows and search rows? Does a session keep its row? | 2 processes, 2 documents, 2 sessions, 3 calls, 2 edits |
| `projects` | `MCProjects` | Is a project nobody touches found? What does a refused bootstrap leave? Do the three files of a configuration change together, and can a secret be committed? | 2 clients, 2 folders, 3 ids, 2 calls; 2 configurations from any of the initial files, with values of each kind; 1 mishap |
| `projects_alias` | `MCProjectsAlias` | *finding*: does every `project_id` resolve? | 2 folders, 2 edits, 1 lookup |
| `workspace` | `MCWorkspace` | Does an applied patch give the file it was made for? What do crashes and second clients leave? Are section patches and the code index true to the files? | every edit script of up to 3 lines, or of 2 with lines that are cut, with every choice of shown lines; patches of two files; 4 paths, one in a folder; documents of up to 5 lines, two of which change without their indentation; 2 clients, 2 calls, 1 crash or failure |
| `command_io` | `MCCommandIO` | Is a secret hidden and nothing else lost? Which policy does a process run under? | every output of up to 7 characters, read to its end or not; 2 clients, 2 projects, 2 calls, 2 edits |

A property of a run is often the conjunction of named parts, which its module states
and comments one by one: `RecordsAreTrue` is `NotRunningMeansGone` and
`RunningMeansAttached`; `JobsEnd` is `EveryJobEnds` and the refinement of
`JobContract!Spec`; `BufferIsSound`, `WholeLinesAreKept`, `IndexIsSound`,
`UndisturbedCallsAreRight`, `BootstrapOwnsItsFolder`, `GitIgnoresSecrets`,
`PatchesAreExact`, `CallsAreExact`, `PatchesKeepDocuments`, `IndexIsHonest`,
`OutputIsBounded` and `ProcessesFollowThePolicy` likewise.

`MCProjects`, `MCWorkspace` and `MCCommandIO` combine components that share a project
but no variable. A behaviour of such a run uses one of them: the initial predicates
(`ConfigScope` and `BootScope`, `FilesScope`, `DocScope` and `GraphScope`, `NoJob` and
`NoCall`) leave a budget to one and none to the others. This checks them side by side; it
claims nothing about their interplay, of which the code has none.

Why the bounds are enough. Jobs and services do not interact with others of their
kind, so one of each is the whole system; a third client of one job adds no new pair
of points, which is why three are the most that is checked. Two processes of a service
are needed for an old watcher to meet a new process. Five bytes hold two or three
lines, so a line can be trimmed while it is open, while it is replaced and while a
client stands before, on and after it. Two documents and two edits are what it takes
for an id to be freed and drawn again between a lookup and the transaction that uses
it, and three calls; `memory_index` starts from a new database and from an older
index, because three calls from every state are out of reach. `Tables = 2` is the least
that tells no table, some tables and all tables apart.

In the code a chunk is 4096 characters, the reserve 16384 and the threshold 65536; the
run has 2, 2 and 6, which keeps their order and makes every cut of a token by a chunk,
by a forced flush and by the end of the stream happen within seven characters. Streams
of up to seven characters exercise the redaction, and two short streams the trimming,
with limits of 2 and 3 bytes. Two folders suffice for an alias to meet an id and for a
refresh to raise; three ids for one that nobody uses. A patch of three lines has hunks
at the start, in the middle and at the end, adjacent ones and empty ones. Three files
are few enough to start a configuration from every combination of their contents.
Two projects are needed for the policy of the one to stop the refresh of the other.

Deadlock checking is off where clients may stop calling (a spent budget, `MaxCalls`,
one use of every job id); the other configurations check it.
The constraint of `services_two_clients` cuts behaviours after `clobbered` becomes
true: every invariant of that run is vacuous from there on. `Apart` of `memory_index`
keeps recordings apart from edits: a session is recorded where the documents are left alone,
since sessions and documents share no table.

Fairness. `FairSpec` of jobs and services assumes that a handler that has begun, a
waiter and a watcher are scheduled (they are threads of one process), that a process
that was sent SIGKILL dies, and that a pipe whose writer is dead is read to its end.
Nobody owes a call, and no process owes an exit. A kill that stalls is excluded from the
liveness runs (`KillMayStall = FALSE`): `wait(timeout=2)` then raises, the waiter thread
dies and the job does say running for ever. The other modules have no liveness: their
calls are finite sequences of steps, which end if the process lives.

Refinement. `CommandJobs!Contract` maps the job store to `JobContract` by the variables
of the same names. `ConnectionConfig!Contract` instantiates `ConnectionContract` with
`config <- Shown`: while a call is changing files, the project is what the call read
before; the change happens at its last step, and a rollback is a stutter. A call whose
process dies, or whose rollback fails, is a `Tear`; overlapping calls are an `Overlap`,
after which the contract promises nothing and `OldConfigurationSurvives` still does.

### Findings

1. `jobs_cancel_lost`: the waiter reads the record, `cancel_job` writes `cancelled` and
   answers so, the waiter writes `succeeded` or `failed` over it
   (`commands/service.py:453-462`). `src/tests/test_commands.py:261` asserts that an
   answered cancellation is read back.
2. `services_stale`: `service_status` saves the copy it took before a health check,
   over the exit that the watcher recorded meanwhile (`services/manager.py:67`); the
   watcher then removes the process, and no later call can notice the end.
3. `projects_alias`: `_register_aliases` (`projects/registry.py:121`) compares an alias
   with the ids found so far. The alias of an earlier folder that is the id of a later
   one is accepted, and `get` asks for aliases first: the later project no longer
   resolves. `src/docs/implementation-plan.md:289` says that ids and aliases both do.

What the properties admit by name, because the code does it and no document denies it:

- `JobContract!Report` may give a finished job another label: `cancel_job` has polled a
  live process, it ends by itself and is reported, and `cancel_job` writes `cancelled`
  without a second look (`commands/service.py:143`; the name of the test at
  `src/tests/test_commands.py:265` says otherwise, for the order of steps it tries).
- `SearchFindsWhatIsStored` excepts behaviours that are `crossed`: if the id that
  `replace_document` looked up is freed and drawn again before its DELETE, it removes
  another document and leaves that document's search rows behind.
- A first `reindex` that is stopped between the creation of the database and of its
  first table makes every later one raise (`memory_index/service.py:106`).
- `RefusedLeavesNothing` excepts a create of which a step fails, which keeps its folder
  (`projects/bootstrap.py:76-105`), and a clone with aliases, which only the refresh
  after it compares with the registry.
- `OldConfigurationSurvives` lets a call that stores a value with a form feed, U+0085 or
  U+2028 make `agent.env` unreadable (`shared/env_files.py:176` accepts it, `:138` cuts it);
  what was configured before is still in the file, which has to be repaired by hand. Of calls
  that overlap, the later one may undo what the other set.
- `GitIgnoresSecrets` excepts the temporary file of a write that failed
  (`shared/env_files.py:280-287`) when its call had added the rule for such files, and takes
  it back with the rest (`projects/connections.py:76`).
- A line that is removed and begins with `-- ` is read as the header of a file
  (`files/patching.py:50`); a patched file ends with a newline whatever the diff says; a
  patch that renames leaves the old file; the lines of a file that is deleted are not
  compared.
- `Fits` excepts a hunk that shows no old line and is not at the head of the file, as
  `diff -U0` makes it: its header names the line it comes after, and `old_start - 1`
  (`files/patching.py:108`) inserts it before that one. The call answers that it is done.
- `Fits` excepts scripts with a line at which `splitlines()` cuts and git does not (form
  feed, U+0085, U+2028; `files/patching.py:34` and `:103`): the diff is refused, misread or
  put elsewhere. A patched file has line feeds where it had CR LF (`NewFile`), since
  `read_text` reads any line end as a line feed.
- `CallsDoWhatTheySay` excepts a move with `overwrite` onto the path itself, a folder around
  it or something in it: the destination is removed (`files/service.py:233`), perhaps with
  the source, and `shutil.move` raises.
- `CrashTearsOneFile`: a write that fails after the file was opened (a full disk, a text that
  cannot be encoded) leaves it empty (`files/service.py:149`, `:196`), as a crash does; a
  removal that fails leaves half of the folder.
- The first line of a section, of an update and of the lines before the first heading loses
  its indentation when a document is patched (`state_docs/parser.py:25-27`, `:46`): the
  sections that are compared are without it. `Sound` excepts first lines that become
  headings by it, such as `    # install`: the section is then two after a patch of another
  one, and an update that begins so is added again when it is sent again.
- Of patches of a document that overlap, the later one undoes the other.
- `NothingElseIsLost` says of a thread that a byte that is no text has ended
  (`commands/service.py:348`) only that it has stored what it had read, but for what
  was pending; that, and what follows in the stream, is lost.
- A heading that is spelled like the key of the lines before the first heading (`body`),
  or a heading inside the text of a section, does not survive a patch of a document; one
  without a name is written as a line of text (`state_docs/parser.py:52`) and is left out. A
  document that is too long at first stays so until a call succeeds.
- A file that appears and disappears while a snapshot is built is not noticed
  (`TokenVouches`: `gone`); symbols of one name in one file share an identifier, and
  paths of calls are compared only when no name has two; a file that does not parse
  makes the queries of the index raise.
- `SecretsStayHidden` binds assignments whose name fits `Room`: with the sizes of the
  code, 45057 characters without a space. A longer one is cut before its `=` is read.

## 4. Proofs

| Theorem | States | For any |
|---|---|---|
| `CommandJobsProofs!TypeCorrect` | `TypeOK` | number of clients, jobs and pipes |
| `CommandJobsProofs!EndsAreReal` | `TerminalMeansDead` | |
| `CommandJobsProofs!WaiterLeavesNothing` | `FinishedWaiterLeavesNothing` | |
| `CommandJobsProofs!CancellationStays` | `SettledCancelStays`, an action property | |
| `CommandJobsProofs!VerdictsComeWithOutput` | `VerdictFreezesOutput`, an action property | joins that outlast the capture threads |
| `CommandJobsProofs!ImplementsContract` | every step is one of `JobContract!Safe` or a stutter | |
| `ServiceManagerProofs!TypeCorrect` | `TypeOK` | number of clients and processes |
| `ServiceManagerProofs!OrphansAreLostUpdates` | `NoSilentOrphan` | |
| `ServiceManagerProofs!RecordsStayTrue` | `RecordsAreTrue` | |
| `ServiceManagerProofs!RestartsAreCounted` | `RestartCountIsKept`, an action property | one client, or clients that do not restart |
| `ServiceLogsProofs!BufferStaysSound` | `BufferIsSound` | number of threads and streams, limit, page and text |
| `ServiceLogsProofs!PagesAreComplete` | `PagesSkipNothing` | |
| `ServiceLogsProofs!FragmentsAreFinished` | `NoFragmentIsLeft` | |
| `ServiceLogsProofs!WholeLinesStayWhole` | `WholeLinesAreKept`, an action property | |
| `MemoryIndexProofs!IndexKeepsTypes` | `TypeOK` | number of processes, documents, sessions, calls and edits |
| `MemoryIndexProofs!TablesAgree` | `IndexIsSound` | |
| `MemoryIndexProofs!QuietCallsAreRight` | `UndisturbedCallsAreRight` | |
| `MemoryIndexProofs!SessionsStay` | `SessionsKeepTheirRow`, an action property | |
| `ProjectsProofs!RegistryKeepsTypes` | `BootTypeOK` | number of clients, folders, ids and calls |
| `ProjectsProofs!UntouchedProjectsAreFound` | `UntouchedIsFound` | |
| `ProjectsProofs!FoldersHaveOneOwner` | `BootstrapOwnsItsFolder` | |
| `ProjectsProofs!RefusalsLeaveNothing` | `RefusedLeavesNothing`, an action property | |
| `ProjectsProofs!ConfigurationKeepsTypes` | `ConfigTypeOK` | number of clients, calls and mishaps |
| `ProjectsProofs!ConnectionsSurvive` | `OldConfigurationSurvives` | |
| `ProjectsProofs!SecretsStayOutOfGit` | `GitIgnoresSecrets` | |
| `ProjectsProofs!FilesChangeTogether` | `ChangesTogether`: the refinement of `ConnectionContract` | |
| `ProjectsProofs!ProjectsKeepTypes` | `MCProjects!TypeOK` | |
| `FileServiceProofs!FilesKeepTypes` | `FileTypeOK` | number of clients, paths, texts, edit scripts, file patches and calls |
| `FileServiceProofs!PatchesAreExactAlways` | `PatchesAreExact` | |
| `FileServiceProofs!CallsAreExactAlways` | `CallsAreExact` | |
| `WorkspaceProofs!DocumentKeepsTypes` | `DocTypeOK` | number of clients, lines, headings, updates and calls |
| `WorkspaceProofs!DocumentsAreKept` | `PatchesKeepDocuments` | |
| `WorkspaceProofs!NoStepOutgrows` | no step makes a document longer than its limit | |
| `WorkspaceProofs!IndexKeepsTypes` | `GraphTypeOK` | number of clients, files, texts and edits |
| `WorkspaceProofs!IndexStaysHonest` | `IndexIsHonest` | |
| `WorkspaceProofs!WorkspaceKeepsTypes` | `MCWorkspace!TypeOK` | |
| `CommandIOProofs!CaptureTypesHold` | `CaptureTypeOK` | number of streams, text, chunk, reserve, threshold and limit |
| `CommandIOProofs!SecretsStay` | `SecretsStayHidden` | |
| `CommandIOProofs!NothingIsLost` | `NothingElseIsLost` | |
| `CommandIOProofs!OutputStaysBounded` | `OutputIsBounded` | |
| `CommandIOProofs!PolicyInvariant` | the inductive invariant | number of clients, projects and policies |
| `CommandIOProofs!PolicyTypes` | `PolicyTypeOK` | |
| `CommandIOProofs!PoliciesComeFromFiles` | `InvalidFilesChangeNothing` | |
| `CommandIOProofs!TestsAreRecent` | `TestsUseTheFile` | |
| `CommandIOProofs!ProcessesAreEnforced` | `ProcessesFollowThePolicy` | |
| `CommandIOProofs!CommandIOKeepsTypes` | `MCCommandIO!TypeOK` | as for its two components |
| `CommandIOProofs!DenialCoversLongerArguments` | a denied command stays denied with more arguments | policy |

The assumptions are the named ones of the modules, about their constants; TLC evaluates
them in the runs of their modules. Most say that `None` and `Bad` are not values of
another kind and that bounds are numbers (`MaxOutputIsNat`, `FlagsAreBoolean`;
`CallsAreTools`, `ExitsAreCodes`, `ThreadsDiffer`, `NoneIsNoInstance`, `BoundIsNat`,
`StallIsBoolean`; `ValuesDiffer`, `NothingIsNoValue`, `NothingIsNoJob`, `BudgetsAreBounds`,
`ConfigAssumption`; `TextsAreKnown`, `NothingIsNoWord`, `OperationsAreKnown`,
`BoundsAreNumbers`; `NoneIsNoNumber`, `BytesArePositive`, `BoundsAreNat`;
`NothingIsNoText`, `FilesSayTexts`, `BudgetsAreKnown`; `JobsAreKnown`). The others:
folders and documents are numbers, which stand for the order in which the code lists
them, and documents are finitely many (`FoldersAreNumbers`, `FoldersHaveNames`,
`PathsAreNumbers`, `FilesAreNumbers`); what a clone or a draft brings is a content that a folder can have
(`RepositoriesAreManifests`, `DraftsAreContents`); capture threads are finitely many and
write to known streams (`WritersAreFinite`, `StreamsAreKnown`); requests name projects that
exist and only `run_command` has presets (`PolicyAssumption`); a path holds a text, a
folder, a link or nothing, and these differ (`DisksHoldFiles`); what is in a folder is in the
folders around it, and no folder is in itself (`FoldersNest`); `splitlines()` cuts a line in
two, of which neither is cut again nor reads like a header (`HalvesAreLines`); a patch names at least one
file, and shows lines that its script has (`PatchesShowScripts`: `parse_unified_diff`
raises when there is no file, `files/patching.py:94`); documents and updates are lines, a line
without its indentation is a line that says something and has none, and
updates are a dictionary, in which no heading occurs twice (`DocsAreLines`); a chunk has more
than one character and is at most the reserve, which is less than the threshold
(`SizesAreNumbers`; `commands/service.py:50-55` makes the reserve four chunks at least,
and the threshold four reserves). `RestartsAreCounted` has a
hypothesis besides, `NoRestartsRace`: one client, or no restarts. Two restarts at once
each write the count they read plus one; `services_two_clients` has none for this reason.
`VerdictsComeWithOutput` assumes, as `jobs_liveness` does, that no join with a capture thread
times out (`commands/service.py` waits a second and goes on): a grandchild that keeps a pipe
open can still write after the verdict.

*Jobs.* `TerminalMeansDead` alone is not inductive: it says nothing of a thread that is
about to write a verdict. The invariant `IInv` adds, for every point between the end
of a wait and the last write, that the process is dead (`WaiterInv`, `CancelInv`),
that a foreground handler owns its job and a started waiter's job is on record
(`RecordInv`, `OwnerInv`), and that a job missing from the process table has been
reported or has not been attached (`TableInv`). Each action then touches few of these
parts. The refinement needs `IInv` too: that a report is honest rests on `WaiterInv`.
`DrainInv` carries `VerdictFreezesOutput`: while no join times out, the pipes of a job are
drained from the join on, and pipes are opened only for a job nobody waits for yet.

*Services.* A process disappears from the table by a pop, or under an attach. `HandlerInv`
and `WatcherInv` say that whoever is about to pop has seen its own process dead; a
pop of any other process sets `clobbered`. The actions are sorted by what they touch
(move, pop, start, watcher, exit) and each group has one lemma. That the record is true
needs what every thread knows about it: while nothing is clobbered, the copy of a
handler or a watcher that is still fresh is the record (`CopyInv`, `WatchInv`), a record
that says running names the process in the table or one that the next save of a start
replaces (`RecordInv`), and an instance that is attached is new, so that a stale copy
never becomes right by accident (`NewInv`). `CountInv` adds that no fresh copy holds a
count smaller than the record's.

*Logs.* `Bucket`: retained lines are numbered one after the other, their sizes add up to
the total, open lines are retained and not whole. `Fragments`: what a thread has set as
its fragment begins the line it has open, and a thread alone on its stream has
at most that one. `Pages`: what the client has not seen and is retained has a number
from its offset on. Sums over lines are prefix sums, and a statement about all lines is
proved by its least counterexample, since the induction theorems of the library are out
of reach; the pieces into which a text is cut are described by the positions of its cuts.

*Memory.* `Sound` is about the rows, between any two transactions: ids are unique, the
search tables mirror the tables, unless `crossed`. `Knowing` says for each point of an
undisturbed call what it knows: the documents it has replaced or read are as on disk
(`ReadSoFar`), the text on its way is the file's (`OnItsWay`), the id it looked up is its
row's (`FoundItsRow`), and its status, when there is one, is right (`Honest`).

*Output.* The unit of the argument is a cut: the place where the text that is pending
begins. `HideInv` says that it lies between tokens (`Clean`) or in a token that is
longer than a name may be and no secret so far (`Forced`), and that a value which was not
redacted at the end of a read ended in the chunk it began (`ValuesEnd`); `HiddenAfterCut`
then shows that a secret of the whole text is one of the text after the cut, so that what
is redacted piece by piece hides it. That nothing else goes is `WholeInv`: what is
stored, and the pieces that are about to be, are what the text up to the cut is
redacted to at once. A cut between tokens divides a redaction into two
(`SegmentIs`); a value that a read cuts is one mark and adds nothing as long as it
goes on (`HiddenAddsNothing`). A thread that ends before its stream does leaves all this as
it is; that it holds something back is what `WholeInv` permits no other. For the output, `OutInv` keeps the character of the
history with which it begins: trimming what a trimmed output and a new chunk make
together is trimming the history (`LatestAppend`, `LatestAgain`, `TrimmedIs`), on prefix
sums of widths. `BoundInv` bounds what is held back, from the line
breaks and spaces that a flush has not found. The recursive functions of redaction
and of the sums are used through the equations that their values satisfy, which
is proved once for each (`RedactedIs`, `BytesAre`, `SizeIs`, `StoredOfIs`).

*Registry and bootstrap.* `Settled`: an id that no change touched leads to its folder in
the tables, in those that a refresh has read, and through every alias that a reader
holds. `OwnedOnce`: a folder that a call created, and nobody removed, exists,
so no other call created it. `LoneInv`: while calls and edits do not overlap, every
call's folder is as its steps so far have made it.

*Configuration.* `SurvivesInv`: what a call holds for a write or a rollback contains
every settled connection that no later call replaced, and can be read unless a later call
cut it. `AloneInv`: without
overlap, each file is as the call read it, or as its own write left it. `GuardInv`: the
rules of `.gitignore` are complete before the first value is written, and once it is, also in
what a rollback would put back, unless the value only is in a leftover that is `retracted`. The refinement
follows from `AloneInv`: `Shown` only changes at the last step of a call, at a tear, or at
an edit. The completion of `.gitignore` drops repeated lines by recursion over the file;
the proof computes its results on the files that occur, which is why the initial files
are those that `InitialIgnores` lists, and says nothing of longer ones.

*Files and patches.* Three arguments. *The parser reads what diff writes* (`PatchIsParsed`):
from every patch, however many files and hunks it has, `Parsed` makes the file patches it
was rendered from, emptied blank lines included, unless a removed line reads like a header
or `splitlines()` cuts a line.
*The hunks of a script turn its old lines into its new ones* (`HunksApply`, `FitsApplies`):
the runs of shown lines divide a script into what is shown and what is only kept, every
hunk starts where the lines before it end (`HunksStand`, which a hunk without old lines does
only at the head), a text without cut lines splits into its lines (`UncutPatchIsWhole`,
`FittingIsUncut`), its counts are those of its header, and what lies
between two hunks is copied. *A call that nobody disturbs is where it was bound to be*:
`FileInv` says for each step of a call what is on the disk by then. For a patch it says which
file it is at, that the ones before it were found, and, when they fitted, that the disk is
what their scripts make of it (`AtNext`, `AtOpen`, `AtFill`, `AtUnlink`), what a refusal has
left behind (`Stopped`) and what a crash or a failure has (`Torn`, `StopsKeeps`); patches with
lines that are cut are not followed. None of this follows from
`PatchesAreExact`, which only speaks of calls that have ended. Folds over sequences are
followed prefix by prefix: an invariant of the first `i` elements holds for all because a
least counterexample would have a predecessor.

The proof corrected three statements that the instances of TLC could not tell from the
right ones. A file patch that shows no line of a text without a final newline leaves it
without one, so that a patch only `Fits` when it shows something (or deletes). A patch that
deletes a file is applied whatever the lines of the file are, so a misfit is what `NotFound`
says and not everything that does not fit. And a patch of no files would have been refused by
the parser while it fitted vacuously, which `PatchesShowScripts` now excludes.

*State documents.* What is written section by section is read back as these sections
(`WrittenIsRead`): after the first `k` sections, the parser stands under the `k`th heading,
knows the `k` headings in their order, and has under each what was written, with the blank
line that separates it from the next (`WrittenIs`, by `k`); `strip()` removes that line. From
this follow what a patch leaves (`UpdatedIs`), that it keeps what it does not name
(`UpdatedKeeps`) and that it does nothing twice (`UpdatedStays`). A heading like the key of the
lines before the first one, or one inside the text of a section, would break the first
step, hence `Sound`; what `strip()` returns has no indentation left, so that reading it
again changes nothing (`DocsAreLines`). `DocInv` is about the calls: a patch that has the document to itself finds it as
it was, empties it and fills it with the text it was bound to write; and a text on its way to a
file is within the limit, as is a file that somebody has emptied, so that what two clients
fill at once is no longer than the longer text (`DocFits`).

*Codegraph.* `Vouched`: a stamp is given once, so a file whose stamp is the one in a token
has not changed since the token was read, and what the token's snapshot says of it is
what the file says; a file without a stamp that the snapshot knows came while it was
built, and is in `late`. `Following`: what a call has read that nobody disturbed is what
the files say. `Honest` is the same of its reply. The three are inductive together: the
reply to a call is computed from a snapshot that `Vouched` speaks of when its token is
the files', and from the texts that `Following` speaks of otherwise.

*Policy.* That a record's policy once was in the project's own file does not follow from
itself: a refresh holds policies it has read, and a call holds one it took. `HeldFiles` says of
both that they were on disk; `Recent`, that a test's refresh and its result only hold
policies that were in the file since the call began, or that an overlapping refresh was
holding then; `Tested`, the same of the policy the call acts on. `PolicyInv` is their
conjunction with the types. `EnforcedInv` adds, for each point of a call, which of the
checks of its policy have been passed.

*Modules over several components.* `MCProjects`, `MCWorkspace` and `MCCommandIO` let the
components step beside each other over disjoint variables, so a behaviour of one of them is
one of each of its components (`ProjectsAreBoth`, `WorkspaceIsAll`, `CommandIOIsBoth`), and
every theorem above holds of it. Their type invariants are proved in this way.

Only model-checked: liveness (`JobsEnd`, `ExitIsNoticed`), since the prover has no
ENABLED. Every invariant and every safety action property of a passing run is the subject of
a theorem.

## 5. Not modelled

- `projects/snapshots.py` aggregates what the other components answer and keeps nothing.
- `gittools/`, `github_tools/`: one-shot `git` and `gh` commands and the reading of what
  they print; nothing outlives a call, and what git does is outside of this code.
- `mcp_server/`, `app.py`, `runtime.py`, `cli/`, `config.py`: wiring and schemas, whose
  only effect here is which threads and processes exist; the models quantify over those.
- Of modelled components: read-only operations (listing and reading files, searching,
  the module overview and source reader of the code index, listing connections), the
  search of TypeScript files, HTTP redirects and bodies, Authorization headers, messages,
  warnings and display names.

What the models assume: a project stays registered while its handlers and threads
run, except where the registry is modelled; uuid4 values are not drawn twice; a file that is written
is empty until it is whole; `shutil.move` renames, within one file system; ids of
processes are not reused while a `Popen` object holds them; the log limit is positive
(with 0 an appended line is trimmed at once, `services/logs.py:49`); SQLite transactions
are atomic and a database without duplicate sessions is opened (the removal of
duplicates that an older schema allowed is not modelled); `os.replace` is atomic; a
restart of the server forgets jobs and services, which are kept in memory only, and
nothing in the code looks for the processes that went on.

What would come next: the exchange between a refresh and the handlers that hold a record
of a project that is being removed.
