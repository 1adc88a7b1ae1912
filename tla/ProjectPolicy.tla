----------------------------- MODULE ProjectPolicy -----------------------------
(***************************************************************************)
(* What a project's .devworkspace/policy.yaml lets its tools do: the       *)
(* commands of run_command, run_probe and a service's health check         *)
(* (commands/service.py, commands/allowlist.py, probes/service.py,         *)
(* services/health.py), their environment (policy/env.py), the hosts of    *)
(* HTTP requests (http_tools/local_client.py) and of test_connection       *)
(* (projects/connections.py).                                              *)
(*                                                                         *)
(* The registry holds the policies it read at its last refresh.  Only      *)
(* test_connection refreshes it first; a refresh reads the files of all    *)
(* the projects one after the other and gives up at the first it cannot    *)
(* parse.  Files change at any time.  Of a connection profile, only the    *)
(* variables of its host and port count.                                   *)
(***************************************************************************)
EXTENDS Naturals, PolicyRules

CONSTANTS
  Clients,
  Count,       \* how many projects there are
  Default,     \* the policy of a project without a file
  Files,       \* what a policy file may hold; Bad cannot be parsed, and one
               \* that is missing is Default
  Bad,
  AgentEnvs,   \* what agent.env may hold; Bad cannot be parsed
  Requests,    \* what a client may ask for
  PolicyBudgets     \* bounds of a behaviour: [calls, edits, asked, written], where
                    \* asked are the requests and written the files of the edits

ASSUME PolicyAssumption ==
  /\ Count \in Nat \ {0}
  /\ Default \in Files \ {Bad}
  /\ \A r \in Requests :
       r.project \in 1..Count /\ (r.op # "run" => r.preset = None) \* run_command's only
  /\ None \notin Requests /\ HostVar \in Variables
  /\ \A b \in PolicyBudgets : b.asked \subseteq Requests /\ b.written \subseteq Files

VARIABLES
  files,       \* the policy files
  agentEnv,    \* the agent.env of a project
  known,       \* the policies of the registry's records
  at,          \* where a call is
  request,
  draft,       \* the policies its refresh has read
  taken,       \* the policy of the record it took
  result,      \* what it did: [outcome, env, seconds, host]
  held,        \* history: every policy a project had on disk
  since,       \* history: those its refresh, or one that overlaps it, may have read
  left

\* In the order in which a refresh reads them.
Projects == 1..Count

policyVars == <<files, agentEnv, known, at, request, draft, taken, result, held, since, left>>

NoResult == [outcome |-> "none", env |-> NoEnv, seconds |-> 0, host |-> None]

PolicyInit ==
  /\ files \in [Projects -> Files \ {Bad}] /\ known = files
  /\ agentEnv \in [Projects -> AgentEnvs]
  /\ at = [c \in Clients |-> "idle"] /\ request = [c \in Clients |-> None]
  /\ draft = [c \in Clients |-> <<>>] /\ taken = [c \in Clients |-> Default]
  /\ result = [c \in Clients |-> NoResult]
  /\ held = [p \in Projects |-> {files[p]}] /\ since = [c \in Clients |-> {}]
  /\ left \in PolicyBudgets

Reading(c) == at[c] \in {"read", "swap"}
Ends(c, outcome) ==
  /\ at' = [at EXCEPT ![c] = "idle"]
  /\ result' = [result EXCEPT ![c] = [NoResult EXCEPT !.outcome = outcome]]

------------------------------------------------------------------------------
\* Calls and the registry

\* Mutant: a test takes the policy that is known.
NeverRefreshes(r) == "take"
FirstStep(r) == IF r.op \in {"test", "refresh"} THEN "read" ELSE "take"

Calls(c, r) ==
  /\ at[c] = "idle" /\ left.calls > 0 /\ left' = [left EXCEPT !.calls = @ - 1]
  /\ at' = [at EXCEPT ![c] = FirstStep(r)]
  /\ request' = [request EXCEPT ![c] = r]
  /\ draft' = [draft EXCEPT ![c] = <<>>]
  /\ result' = [result EXCEPT ![c] = NoResult]
  /\ since' = [since EXCEPT ![c] =
       {files[r.project]} \cup
       {draft[d][r.project] : d \in {d \in Clients : Reading(d) /\ r.project \in DOMAIN draft[d]}}]
  /\ UNCHANGED <<files, agentEnv, known, taken, held>>

\* Mutant: a file that cannot be parsed is taken for none.
Tolerates(file) == IF file = Bad THEN Default ELSE file
Loaded(file) == file

HasAll(policies) == Len(policies) = Count

\* load_project_policy, once for each project of the refresh.
ReadsPolicy(c) ==
  /\ at[c] = "read"
  /\ LET policy == Loaded(files[Len(draft[c]) + 1]) IN
     IF policy = Bad THEN Ends(c, "raised") /\ UNCHANGED draft
     ELSE /\ draft' = [draft EXCEPT ![c] = Append(@, policy)]
          /\ at' = IF HasAll(Append(draft[c], policy)) THEN [at EXCEPT ![c] = "swap"] ELSE at
          /\ UNCHANGED result
  /\ UNCHANGED <<files, agentEnv, known, request, taken, held, since, left>>

\* ProjectRegistry.refresh replaces all the records at once.
Swaps(c) ==
  /\ at[c] = "swap"
  /\ known' = draft[c] /\ draft' = [draft EXCEPT ![c] = <<>>]
  /\ IF request[c].op = "test" THEN at' = [at EXCEPT ![c] = "take"] /\ UNCHANGED result
     ELSE Ends(c, "refreshed")
  /\ UNCHANGED <<files, agentEnv, request, taken, held, since, left>>

\* ProjectRegistry.require
Takes(c) ==
  /\ at[c] = "take"
  /\ taken' = [taken EXCEPT ![c] = known[request[c].project]]
  /\ at' = [at EXCEPT ![c] = "act"]
  /\ UNCHANGED <<files, agentEnv, known, request, draft, result, held, since, left>>

------------------------------------------------------------------------------
\* What a call does with its record

\* Mutant: the environment is that of the policy the registry knows by now.
LatestPolicy(c) == known[request[c].project]
RecordPolicy(c) == taken[c]

\* _resolve_argv: an argv or a preset, not both.
ArgvOf(r) ==
  IF r.preset = None THEN r.argv
  ELSE IF r.argv = <<>> THEN Presets[r.preset] ELSE <<>>

Starts(c) ==
  LET r == request[c] IN
  /\ at' = [at EXCEPT ![c] = "idle"]
  /\ result' = [result EXCEPT ![c] =
       [outcome |-> "started", env |-> Environment(RecordPolicy(c), r.env),
        seconds |-> Seconds(taken[c], ArgvOf(r), r.seconds), host |-> None]]

\* run_command
RunsCommand(c) ==
  /\ at[c] = "act" /\ request[c].op = "run"
  /\ LET argv == ArgvOf(request[c]) IN
     IF argv = <<>> THEN Ends(c, "raised")
     ELSE IF Listed(argv) /\ Allows(taken[c], argv) THEN Starts(c)
     ELSE Ends(c, "refused")
  /\ UNCHANGED <<files, agentEnv, known, request, draft, taken, held, since, left>>

\* run_probe
Probes(c) ==
  /\ at[c] = "act" /\ request[c].op = "probe"
  /\ LET argv == request[c].argv IN
     IF argv = <<>> THEN Ends(c, "raised")
     ELSE IF Listed(argv) /\ Allows(taken[c], argv) THEN Starts(c)
     ELSE Ends(c, "refused")
  /\ UNCHANGED <<files, agentEnv, known, request, draft, taken, held, since, left>>

\* The health command of a running service, which knows no allowlist.
ChecksHealth(c) ==
  /\ at[c] = "act" /\ request[c].op = "health"
  /\ LET argv == request[c].argv IN
     IF argv = <<>> THEN Ends(c, "unknown")
     ELSE IF Allows(taken[c], argv) THEN Starts(c)
     ELSE Ends(c, "refused")
  /\ UNCHANGED <<files, agentEnv, known, request, draft, taken, held, since, left>>

\* _validate_url, _enforce_network_policy
Reaches(c, host) ==
  IF Permits(taken[c], host)
  THEN /\ at' = [at EXCEPT ![c] = "idle"]
       /\ result' = [result EXCEPT ![c] = [NoResult EXCEPT !.outcome = "reached", !.host = host]]
  ELSE Ends(c, "refused")

\* http_request, and the health URL of a service.
RequestsUrl(c) ==
  /\ at[c] = "act" /\ request[c].op = "http"
  /\ Reaches(c, request[c].host)
  /\ UNCHANGED <<files, agentEnv, known, request, draft, taken, held, since, left>>

\* _resolve_connection_env: agent.env goes before the process.
ConnectionEnv(policy, env) ==
  [n \in Variables |-> IF env[n] # None THEN env[n] ELSE Inherited(policy)[n]]

\* _validate_host, _validate_port
Usable(env) == env[HostVar] \in Hosts /\ env[PortVar] \in Ports

\* test_connection, once it has its record.
Tests(c) ==
  /\ at[c] = "act" /\ request[c].op = "test"
  /\ LET env == agentEnv[request[c].project]
         found == ConnectionEnv(taken[c], env)
     IN  IF env = Bad THEN Ends(c, "raised")
         ELSE IF ~Usable(found) THEN Ends(c, "raised")
         ELSE Reaches(c, found[HostVar])
  /\ UNCHANGED <<files, agentEnv, known, request, draft, taken, held, since, left>>

------------------------------------------------------------------------------
\* A person or a tool changes a file.

EditsPolicy(p, file) ==
  /\ left.edits > 0 /\ left' = [left EXCEPT !.edits = @ - 1]
  /\ file # files[p] /\ files' = [files EXCEPT ![p] = file]
  /\ held' = [held EXCEPT ![p] = @ \cup {file}]
  /\ since' = [c \in Clients |-> IF at[c] # "idle" /\ request[c].project = p
                                 THEN since[c] \cup {file} ELSE since[c]]
  /\ UNCHANGED <<agentEnv, known, at, request, draft, taken, result>>

EditsAgentEnv(p, env) ==
  /\ left.edits > 0 /\ left' = [left EXCEPT !.edits = @ - 1]
  /\ env # agentEnv[p] /\ agentEnv' = [agentEnv EXCEPT ![p] = env]
  /\ UNCHANGED <<files, known, at, request, draft, taken, result, held, since>>

PolicyNext ==
  \/ \E c \in Clients :
       \/ left.calls > 0 /\ \E r \in left.asked : Calls(c, r)
       \/ ReadsPolicy(c) \/ Swaps(c) \/ Takes(c)
       \/ RunsCommand(c) \/ Probes(c) \/ ChecksHealth(c) \/ RequestsUrl(c) \/ Tests(c)
  \/ \E p \in Projects :
       \/ \E file \in left.written : EditsPolicy(p, file)
       \/ \E env \in AgentEnvs : EditsAgentEnv(p, env)

PolicySpec == PolicyInit /\ [][PolicyNext]_policyVars

------------------------------------------------------------------------------
\* Properties

\* Every variable keeps its type.
PolicyTypeOK ==
  /\ files \in [Projects -> Files] /\ agentEnv \in [Projects -> AgentEnvs]
  /\ known \in [Projects -> Files \ {Bad}]
  /\ at \in [Clients -> {"idle", "read", "swap", "take", "act"}]
  /\ request \in [Clients -> Requests \cup {None}]
  /\ draft \in [Clients -> Seq(Files \ {Bad})]
  /\ \A c \in Clients :
       /\ at[c] # "idle" => request[c] \in Requests
       /\ at[c] = "read" => Len(draft[c]) < Count
       /\ at[c] = "swap" => Len(draft[c]) = Count
  /\ taken \in [Clients -> Files \ {Bad}]
  /\ held \in [Projects -> SUBSET Files] /\ since \in [Clients -> SUBSET Files]
  /\ left.asked \subseteq Requests /\ left.written \subseteq Files

\* policy/service.py:19-33, registry.py:20-30: a file that cannot be parsed
\* changes nothing, neither for its project nor for the others: what is
\* enforced has been in the project's own file.
InvalidFilesChangeNothing == \A p \in Projects : known[p] \in held[p] \ {Bad}

\* commands/service.py:60-109, probes/service.py:45-82, health.py:60-111: one
\* policy of the project allows the command, gives the environment and limits
\* the time of a process, whatever is refreshed meanwhile.
ProcessesFollowOnePolicy ==
  \A c \in Clients :
    LET r == request[c] IN
    result[c].outcome = "started" =>
      \E policy \in held[r.project] \ {Bad} :
        /\ Allows(policy, ArgvOf(r))
        /\ result[c].env = Environment(policy, r.env)
        /\ result[c].seconds = Seconds(policy, ArgvOf(r), r.seconds)

\* connections.py:89-148: a connection is tested by a policy the project had
\* since the refresh of the call, or one that overlaps it, began.
TestsUseTheFile ==
  \A c \in Clients :
    (request[c] # None /\ request[c].op = "test" /\ result[c].outcome = "reached") =>
      \E policy \in since[c] \ {Bad} : Permits(policy, result[c].host)

\* connections.py:186-217: a host that only the server's own environment names
\* is reached when a policy of the project lets that variable through.
ProcessVariablesAreAllowed ==
  \A c \in Clients :
    LET r == request[c]
        host == result[c].host
    IN  (r # None /\ r.op = "test" /\ result[c].outcome = "reached"
         /\ \A env \in AgentEnvs \ {Bad} : env[HostVar] # host) =>
          \E policy \in since[c] \ {Bad} : Inherited(policy)[HostVar] = host /\ Permits(policy, host)

\* Whatever runs or is tested has from a policy what it may have.
ProcessesFollowThePolicy == ProcessesFollowOnePolicy /\ ProcessVariablesAreAllowed
================================================================================
