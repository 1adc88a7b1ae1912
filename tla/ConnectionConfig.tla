--------------------------- MODULE ConnectionConfig ---------------------------
(***************************************************************************)
(* configure_connection (projects/connections.py): a call rewrites the     *)
(* manifest, .gitignore and .devworkspace/agent.env of a project one after *)
(* the other, and puts back what it read before when a step fails.  Clients*)
(* are threads of the server and command line processes; they share no     *)
(* lock.  A file is replaced as a whole (write_text_atomic), so that a     *)
(* process that dies in between only leaves a temporary file behind.       *)
(*                                                                         *)
(* The profile of a connection, or the value of a variable, is the number  *)
(* of the call that set it; 0 is a name that is not set.  Bad is content   *)
(* that people wrote and that does not parse.  An agent.env holds values,  *)
(* and `cut` is the call, if any, of which one is cut into lines when it   *)
(* is read again, so that the file does not parse either (a rest that sets *)
(* a variable is as good as a key more; one value may just get shorter).   *)
(* `settled`, `before` and `torn` are history.                             *)
(***************************************************************************)
EXTENDS Naturals, Sequences, FiniteSets, Workspace

CONSTANTS
  Names,       \* names of connections
  Keys,        \* names of environment variables
  MaxConfigs,  \* bound on the calls, with the one that came before
  MaxMishaps   \* bound on writes that fail and processes that die

VARIABLES
  files,     \* the contents of the three files
  temps,     \* temporary files left behind: [of, says, retracted], the file that
             \* was written, what they say, and whether the call that left one then
             \* put back a .gitignore that has no rule for it
  git,       \* what git knows of agent.env, which nobody changes meanwhile
  step,      \* where a client is in its call: what it does next, with which file
  request,   \* its arguments
  saved,     \* manifest_before, gitignore_before, env_before
  loaded,    \* what it last read in order to change it
  configs, mishaps,
  torn,        \* how many calls left the files half changed or half put back
  overlapped,  \* clients have configured at the same time
  settled, before  \* the names when nobody was configuring, and the calls until then

configVars == <<files, temps, git, step, request, saved, loaded,
                configs, mishaps, torn, overlapped, settled, before>>

Order == <<"manifest", "gitignore", "env">>
Idle == <<"idle", "none">>
Files == {"manifest", "gitignore", "env"}
Profiles == [Names -> 0..MaxConfigs]
Envs == [says : [Keys -> 0..MaxConfigs], cut : 0..MaxConfigs]
\* What the values it is given are: "break", one with a line feed or a carriage
\* return, or a name that is none; "boundary", one with another character at
\* which splitlines() cuts (form feed, U+0085, U+2028...).
Requests ==
  [name : Names, keys : SUBSET Keys, value : {"plain", "break", "boundary"}, call : 1..MaxConfigs]

\* .gitignore is the sequence of its lines: the two entries the service adds,
\* and a rule that takes the first of them back.
Rules == {"env", "tmp", "allow"}
Entries == <<"env", "tmp">>

ASSUME ConfigAssumption ==
  /\ {None, Bad} \cap (Profiles \cup Envs \cup [Keys -> 0..MaxConfigs] \cup Seq(Rules)) = {}
  /\ None \notin Requests
  /\ MaxConfigs \in Nat /\ MaxMishaps \in Nat

\* git obeys the last rule that matches.
Ignored(lines) ==
  /\ lines # None
  /\ \E i \in DOMAIN lines :
       lines[i] = "env" /\ \A j \in i + 1..Len(lines) : lines[j] # "allow"

\* normalize_newlines(...).splitlines() without the repetitions of an entry,
\* and the entries that were missing at the end.
Deduplicated(lines) ==
  LET kept(i) == lines[i] = "allow" \/ \A j \in 1..i - 1 : lines[j] # lines[i]
      from[i \in 0..Len(lines)] ==
        IF i = 0 THEN <<>> ELSE IF kept(i) THEN Append(from[i - 1], lines[i]) ELSE from[i - 1]
  IN  from[Len(lines)]
Missing(lines, entry) == IF \E i \in DOMAIN lines : lines[i] = entry THEN <<>> ELSE <<entry>>
WithEntries(lines) ==
  LET old == IF lines = None THEN <<>> ELSE Deduplicated(lines)
  IN  old \o Missing(old, "env") \o Missing(old, "tmp")

\* What a file says after a call, when it said `old` before.
\* Mutant: the file is made from the request alone.
SetForgetsOthers(old, all, names, call) == [x \in all |-> IF x \in names THEN call ELSE 0]
Set(old, all, names, call) ==
  [x \in all |-> IF x \in names THEN call ELSE IF old = None THEN 0 ELSE old[x]]
Held(env) == IF env \in {None, Bad} THEN env ELSE env.says
Changed(f, old, req) ==
  IF f = "manifest" THEN Set(old, Names, {req.name}, req.call)
  ELSE IF f = "gitignore" THEN WithEntries(old)
  ELSE [says |-> Set(Held(old), Keys, req.keys, req.call),
        cut |-> IF req.value = "boundary" THEN req.call ELSE 0]

\* yaml.safe_load, _parse_agent_env
Readable(f, content) ==
  content # Bad /\ (f = "env" /\ content # None => content.cut = 0)

NothingRead == [f \in Files |-> None]

InitialIgnores ==
  {None, <<>>, <<"allow">>, <<"env", "allow">>, <<"env", "allow", "env">>, <<"env", "tmp">>}

\* A project that nobody configured yet, or some calls did: 1 is the last one
\* that set anything.
ConfigInit ==
  /\ files \in [manifest : {None, Bad} \cup {Set(None, Names, ns, 1) : ns \in SUBSET Names},
                gitignore : InitialIgnores,
                env : {None, Bad} \cup {[says |-> Set(None, Keys, ks, 1), cut |-> 0] : ks \in SUBSET Keys}]
  /\ git \in {"outside", "repository", "tracked", "missing"}
  /\ (git = "repository" /\ files.env \in Envs /\ \E k \in Keys : files.env.says[k] > 0)
       => files.gitignore = Entries
  /\ temps = {}
  /\ step = [c \in Clients |-> Idle]
  /\ request = [c \in Clients |-> None]
  /\ saved = [c \in Clients |-> NothingRead] /\ loaded = [c \in Clients |-> None]
  /\ configs \in 1..MaxConfigs /\ mishaps = 0 /\ torn = 0 /\ overlapped = FALSE
  /\ settled = files /\ before = configs

Configuring == {c \in Clients : step[c] # Idle}

\* A client that returns forgets its frame.
Frees(c) ==
  /\ request' = [request EXCEPT ![c] = None]
  /\ saved' = [saved EXCEPT ![c] = NothingRead]
  /\ loaded' = [loaded EXCEPT ![c] = None]
Moves(c, here, there) == step[c] = here /\ step' = [step EXCEPT ![c] = there]

------------------------------------------------------------------------------
\* The call

Configures(c) ==
  /\ configs < MaxConfigs
  /\ Moves(c, Idle, <<"read", "manifest">>)
  /\ \E r \in Requests :
       /\ r.call = configs + 1 /\ (r.keys = {} => r.value = "plain")
       /\ request' = [request EXCEPT ![c] = r]
  /\ configs' = configs + 1
  /\ overlapped' = (overlapped \/ Configuring # {})
  /\ IF Configuring = {} THEN settled' = files /\ before' = configs
                  ELSE UNCHANGED <<settled, before>>
  /\ UNCHANGED <<files, temps, git, saved, loaded, mishaps, torn>>

\* manifest_before, gitignore_before and env_before are read one by one.
Reads(c) ==
  /\ \E i \in 1..3 :
       /\ Moves(c, <<"read", Order[i]>>, IF i < 3 THEN <<"read", Order[i + 1]>> ELSE <<"load", "manifest">>)
       /\ saved' = [saved EXCEPT ![c][Order[i]] = files[Order[i]]]
  /\ UNCHANGED <<files, temps, git, request, loaded, configs, mishaps, torn, overlapped, settled, before>>

\* An exception leads to the rollback, which starts with the manifest.
GivesUp(c) == step' = [step EXCEPT ![c] = <<"restore", "manifest">>] /\ UNCHANGED loaded

\* update_manifest, ensure_agent_env_gitignore and load_agent_env read the file
\* again; a value with a line break is only refused once agent.env is loaded.
Loads(c) ==
  /\ \E f \in Files :
       /\ step[c] = <<"load", f>>
       /\ IF ~Readable(f, files[f]) \/ (f = "env" /\ request[c].value = "break") THEN GivesUp(c)
          ELSE /\ step' = [step EXCEPT ![c] = <<"write", f>>]
               /\ loaded' = [loaded EXCEPT ![c] = files[f]]
  /\ UNCHANGED <<files, temps, git, request, saved, configs, mishaps, torn, overlapped, settled, before>>

\* Where a call goes when the file is written; Idle is the end of the call,
\* which only reads the project again.
AfterWrite(f, req) ==
  IF f = "manifest" /\ req.keys # {} THEN <<"load", "gitignore">>
  ELSE IF f = "gitignore" THEN <<"ask", "tracked">> ELSE Idle

Writes(c) ==
  /\ \E f \in Files :
       /\ Moves(c, <<"write", f>>, AfterWrite(f, request[c]))
       /\ files' = [files EXCEPT ![f] = Changed(f, loaded[c], request[c])]
  /\ IF step'[c] = Idle THEN Frees(c) ELSE UNCHANGED <<request, saved, loaded>>
  /\ UNCHANGED <<temps, git, configs, mishaps, torn, overlapped, settled, before>>

\* write_text_atomic knows the name of its temporary file once that is written:
\* it removes the file when the replacement fails, and leaves it when the write
\* does.
HasTmpRule(lines) == lines # None /\ \E i \in DOMAIN lines : lines[i] = "tmp"
Leftover(f, content, retracted) == [of |-> f, says |-> content, retracted |-> retracted]
LeavesDraft(c, rollsBack) ==
  \E f \in Files :
    /\ step[c] = <<"write", f>>
    /\ temps' = temps \cup {Leftover(f, Changed(f, loaded[c], request[c]),
                                    rollsBack /\ ~HasTmpRule(saved[c].gitignore))}
LeavesOld(c) ==
  \E f \in Files :
    /\ step[c] = <<"restore", f>> /\ saved[c][f] # None
    /\ temps' = temps \cup {Leftover(f, saved[c][f], FALSE)}

WriteFails(c) ==
  /\ mishaps < MaxMishaps /\ mishaps' = mishaps + 1
  /\ \E f \in Files : step[c] = <<"write", f>>
  /\ UNCHANGED temps \/ LeavesDraft(c, TRUE)
  /\ GivesUp(c)
  /\ UNCHANGED <<files, git, request, saved, configs, torn, overlapped, settled, before>>

\* git ls-files --error-unmatch, then git check-ignore.
AsksTracked(c) ==
  /\ step[c] = <<"ask", "tracked">>
  /\ IF git \in {"tracked", "missing"} THEN GivesUp(c)
     ELSE step' = [step EXCEPT ![c] = <<"ask", "ignored">>] /\ UNCHANGED loaded
  /\ UNCHANGED <<files, temps, git, request, saved, configs, mishaps, torn, overlapped, settled, before>>

\* Mutant: that agent.env is ignored is taken for granted.
AsksNothing(c) ==
  /\ Moves(c, <<"ask", "ignored">>, <<"load", "env">>)
  /\ UNCHANGED <<files, temps, git, request, saved, loaded, configs, mishaps, torn, overlapped, settled, before>>
AsksIgnored(c) ==
  /\ step[c] = <<"ask", "ignored">>
  /\ IF git = "repository" /\ ~Ignored(files.gitignore) THEN GivesUp(c)
     ELSE step' = [step EXCEPT ![c] = <<"load", "env">>] /\ UNCHANGED loaded
  /\ UNCHANGED <<files, temps, git, request, saved, configs, mishaps, torn, overlapped, settled, before>>

\* Mutant: only the manifest is put back.
RestoresManifest(c) ==
  /\ Moves(c, <<"restore", "manifest">>, Idle)
  /\ files' = [files EXCEPT !.manifest = saved[c].manifest]
  /\ Frees(c)
  /\ UNCHANGED <<temps, git, configs, mishaps, torn, overlapped, settled, before>>

\* _restore_optional_text, for each file in turn.
Restores(c) ==
  /\ \E i \in 1..3 :
       /\ Moves(c, <<"restore", Order[i]>>, IF i < 3 THEN <<"restore", Order[i + 1]>> ELSE Idle)
       /\ files' = [files EXCEPT ![Order[i]] = saved[c][Order[i]]]
  /\ IF step'[c] = Idle THEN Frees(c) ELSE UNCHANGED <<request, saved, loaded>>
  /\ UNCHANGED <<temps, git, configs, mishaps, torn, overlapped, settled, before>>

\* The exception of a restore that fails replaces the first one.
RestoreFails(c) ==
  /\ mishaps < MaxMishaps /\ mishaps' = mishaps + 1
  /\ \E f \in Files : Moves(c, <<"restore", f>>, Idle)
  /\ UNCHANGED temps \/ LeavesOld(c)
  /\ Frees(c)
  /\ torn' = torn + 1
  /\ UNCHANGED <<files, git, configs, overlapped, settled, before>>

\* The process dies, perhaps between the temporary file and os.replace.
CallDies(c) ==
  /\ mishaps < MaxMishaps /\ mishaps' = mishaps + 1
  /\ step[c] # Idle /\ step' = [step EXCEPT ![c] = Idle]
  /\ UNCHANGED temps \/ LeavesDraft(c, FALSE) \/ LeavesOld(c)
  /\ Frees(c)
  /\ torn' = torn + 1
  /\ UNCHANGED <<files, git, configs, overlapped, settled, before>>

ConfigStep(c) ==
  \/ Configures(c) \/ Reads(c) \/ Loads(c) \/ Writes(c) \/ WriteFails(c) \/ AsksTracked(c)
  \/ AsksIgnored(c) \/ Restores(c) \/ RestoreFails(c) \/ CallDies(c)

ConfigNext == \E c \in Clients : ConfigStep(c)

ConfigSpec == ConfigInit /\ [][ConfigNext]_configVars

------------------------------------------------------------------------------
\* Properties

\* Every variable keeps its type (connections.py:53-60, the local variables).
ConfigTypeOK ==
  /\ files.manifest \in Profiles \cup {None, Bad}
  /\ files.gitignore \in Seq(Rules) \cup {None}
  /\ files.env \in Envs \cup {None, Bad}
  /\ \A t \in temps : t.of \in Files /\ t.retracted \in BOOLEAN
  /\ request \in [Clients -> Requests \cup {None}]
  /\ \A c \in Clients : (step[c] = Idle) = (request[c] = None)

Value(content, x) == IF content \in {None, Bad} THEN 0 ELSE content[x]

\* connections.py:74-78: a rollback only takes back what was written since its
\* call began.  Whatever was configured before is still in its file, or was
\* replaced by a later call, however calls overlap, fail and die; and a file that
\* could be read still can, unless a later call stored a value that cuts it.
OldConfigurationSurvives ==
  /\ \A n \in Names : LET now == Value(files.manifest, n) IN
       now = Value(settled.manifest, n) \/ now > before
  /\ \A k \in Keys : LET now == Value(Held(files.env), k) IN
       now = Value(Held(settled.env), k) \/ now > before
  /\ \A f \in Files : Readable(f, settled[f]) /\ ~Readable(f, files[f]) =>
       f = "env" /\ files.env # Bad /\ files.env.cut > before

\* shared/env_files.py:60-71: values a call stored are in a file that git
\* ignores, unless calls overlapped and one put an older .gitignore back.
SecretsAreIgnored ==
  (git = "repository" /\ ~overlapped /\ \E k \in Keys : Value(Held(files.env), k) > 0)
    => Ignored(files.gitignore)

\* shared/env_files.py:18: neither does git see such values in a temporary file
\* of agent.env that was left behind, by a write that failed or a process that
\* died.  Only a call that found no rule for such files, when its write fails,
\* takes back the one it has added and leaves its temporary file to git.
LeftoversAreIgnored ==
  \A t \in temps :
    (/\ git = "repository" /\ ~overlapped /\ ~t.retracted
     /\ t.of = "env" /\ \E k \in Keys : Value(Held(t.says), k) > 0)
      => HasTmpRule(files.gitignore)

\* Neither file can be committed.
GitIgnoresSecrets == SecretsAreIgnored /\ LeftoversAreIgnored

\* While one client configures, the project is what it was before its call.
Changing(c) == step[c][1] \notin {"idle", "read"}
Shown == IF \E c \in Clients : Changing(c) THEN saved[CHOOSE c \in Clients : Changing(c)] ELSE files

Written(req) == IF req.keys = {} THEN {"manifest"} ELSE Files
Draft(old, req) ==
  [f \in Files |-> IF f \in Written(req) /\ Readable(f, old[f]) THEN Changed(f, old[f], req) ELSE old[f]]
AllDrafts(old) == {Draft(old, r) : r \in Requests}
AllChanges(old) == {Draft(old, r) : r \in {q \in Requests : \A f \in Written(q) : Readable(f, old[f])}}

Contract == INSTANCE ConnectionContract WITH
  Changes <- AllChanges, Drafts <- AllDrafts, config <- Shown, torn <- torn, mixed <- overlapped

\* connections.py:62-78: the three files change together or not at all.
ChangesTogether == Contract!Spec
===============================================================================
