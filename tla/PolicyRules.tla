------------------------------ MODULE PolicyRules ------------------------------
(***************************************************************************)
(* What a policy says of one command, one environment and one host         *)
(* (commands/allowlist.py, policy/env.py, http_tools/local_client.py).     *)
(*                                                                         *)
(* A policy is [commands, default, inherit, allow, redact, network]: the   *)
(* rule of each command or None, what happens to the others, whether and   *)
(* which variables a process inherits, those whose names the redact        *)
(* patterns match, and [default, localhost, hosts], where hosts are those  *)
(* the patterns of allowed_hosts match.  A rule is [allow, deny, seconds]  *)
(* with patterns that the arguments may begin with.                        *)
(***************************************************************************)
EXTENDS Naturals, Sequences, FiniteSets

CONSTANTS
  None,
  Commands,    \* the names of programs
  Allowlist,   \* those of DEFAULT_ALLOWED_COMMANDS
  Presets,     \* the argv of each preset, <<>> for one that is not known
  Variables,
  Process,     \* the value of each in the server's own environment, or None
  HostVar,     \* those a connection profile names
  PortVar,
  Hosts,       \* the values that pass _validate_host and _validate_port
  Ports,
  LocalHost,
  DefaultSeconds

------------------------------------------------------------------------------
\* evaluate_command_policy

Args(argv) == SubSeq(argv, 2, Len(argv))

Matches(args, pattern) ==
  /\ Len(pattern) <= Len(args)
  /\ \A k \in 1..Len(pattern) : args[k] = pattern[k]
MatchesAny(args, patterns) == \E pattern \in patterns : Matches(args, pattern)

RuleAllows(rule, args) ==
  /\ ~MatchesAny(args, rule.deny)
  /\ rule.allow # {} => MatchesAny(args, rule.allow)

Listed(argv) == argv[1] \in Allowlist
Allows(policy, argv) ==
  LET rule == policy.commands[argv[1]]
  IN  IF rule = None THEN policy.default = "allow" ELSE RuleAllows(rule, Args(argv))

\* _effective_timeout
Seconds(policy, argv, asked) ==
  LET rule == policy.commands[argv[1]]
      seconds == IF asked = 0 THEN DefaultSeconds ELSE asked
  IN  IF rule = None THEN seconds
      ELSE IF rule.seconds = None \/ rule.seconds > seconds THEN seconds ELSE rule.seconds

------------------------------------------------------------------------------
\* build_subprocess_env and _can_use_process_env

NoEnv == [n \in Variables |-> None]
Inherited(policy) ==
  [n \in Variables |-> IF policy.inherit \/ n \in policy.allow THEN Process[n] ELSE None]
Environment(policy, overrides) ==
  [n \in Variables |->
     IF n \in policy.redact THEN None
     ELSE IF overrides[n] # None /\ (policy.inherit \/ n \in policy.allow) THEN overrides[n]
     ELSE Inherited(policy)[n]]

------------------------------------------------------------------------------
\* _is_allowed_host

Permits(policy, host) ==
  \/ host = LocalHost /\ policy.network.localhost
  \/ host \in policy.network.hosts
  \/ policy.network.default = "allow"
================================================================================
