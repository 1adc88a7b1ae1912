------------------------------ MODULE MCCommandIO ------------------------------
\* The output of a job, and what a policy lets it do, for TLC.
EXTENDS JobOutput, ProjectPolicy, TLC

\* One long stream, in which secrets are hidden, or two short ones, whose
\* output is cut.
CONSTANTS outStream, errStream
Bounds(out, err, chars, limit) ==
  [texts |-> [s \in Streams |-> IF s = outStream THEN out ELSE err], chars |-> chars, limit |-> limit]
SmallJobs ==
  {Bounds(0, 0, {}, 0), Bounds(7, 0, {"s", "a", "=", " "}, 20), Bounds(6, 0, {"s", "=", "-", " ", "n"}, 20),
   Bounds(2, 2, Chars, 2), Bounds(3, 1, {"a", "-", "n"}, 3)}

------------------------------------------------------------------------------
\* The policy of a project

CONSTANTS py, rm, opt, arg, apiKey, h1, h2, port

Rule(allow, deny, seconds) == [allow |-> allow, deny |-> deny, seconds |-> seconds]
Network(default, localhost, hosts) == [default |-> default, localhost |-> localhost, hosts |-> hosts]
NoRules == [n \in Commands |-> None]
SmallDefault ==
  [commands |-> NoRules, default |-> "deny", inherit |-> FALSE, allow |-> {}, redact |-> {apiKey},
   network |-> Network("deny", TRUE, {})]
Strict ==
  [SmallDefault EXCEPT !.commands[py] = Rule({}, {<<opt, arg>>}, 1), !.allow = {PortVar, apiKey},
                       !.network = Network("deny", FALSE, {h1})]
Open ==
  [SmallDefault EXCEPT !.commands[py] = Rule({<<opt>>, <<arg, opt>>}, {}, None), !.default = "allow",
                       !.inherit = TRUE, !.redact = {},
                       !.network = Network("allow", FALSE, {})]
SmallFiles == {SmallDefault, Strict, Open, Bad}

SmallPresets == opt :> <<py, opt, arg>> @@ arg :> <<>>
SmallProcess == HostVar :> h1 @@ PortVar :> port @@ apiKey :> arg
Env(host, p) == HostVar :> host @@ PortVar :> p @@ apiKey :> None
SmallAgentEnvs == {NoEnv, Env(h2, port), Env(arg, None), Bad}

Request(op, p) ==
  [op |-> op, project |-> p, argv |-> <<>>, preset |-> None, env |-> NoEnv, seconds |-> 5, host |-> None]
Run(argv, preset, env, seconds) ==
  [Request("run", 1) EXCEPT !.argv = argv, !.preset = preset, !.env = env, !.seconds = seconds]
RunX == Run(<<py, opt>>, None, [NoEnv EXCEPT ![apiKey] = opt, ![HostVar] = arg], 0)
SmallRequests ==
  {RunX, Run(<<py>>, None, NoEnv, 5),
   Run(<<py, arg>>, None, NoEnv, 5), Run(<<rm>>, None, NoEnv, 5), Run(<<>>, opt, NoEnv, 5), Run(<<>>, arg, NoEnv, 5),
   Run(<<py>>, opt, NoEnv, 5)}
  \cup {[Request(op, 1) EXCEPT !.argv = argv] : op \in {"probe", "health"}, argv \in {<<>>, <<rm, opt>>, <<py, opt, arg>>}}
  \cup {[Request("http", 1) EXCEPT !.host = host] : host \in {h1, h2}}
  \cup {Request("test", 1), Request("refresh", 2)}

PolicyBudget(calls, edits, asked, written) ==
  [calls |-> calls, edits |-> edits, asked |-> asked, written |-> written]
NoBudget == PolicyBudget(0, 0, {}, {})
SmallPolicyBudgets ==
  {NoBudget, PolicyBudget(1, 1, SmallRequests, SmallFiles),
   PolicyBudget(2, 2, {Request("test", 1), Request("refresh", 2), RunX}, {Strict, Open, Bad})}

------------------------------------------------------------------------------
\* One of them is used in a behaviour.

NoJob == job = Bounds(0, 0, {}, 0)
NoCall == left = NoBudget /\ \A p \in Projects : files[p] = Default /\ agentEnv[p] = NoEnv
StartInit ==
  /\ CaptureInit /\ PolicyInit
  /\ NoJob # NoCall
  /\ left.calls = 2 => agentEnv[1] = Env(h2, port) /\ files[1] \in {Strict, Open}
  /\ \A p \in Projects : p > 1 => agentEnv[p] = NoEnv /\ files[p] = Default
StartNext ==
  \/ CaptureNext /\ UNCHANGED policyVars
  \/ PolicyNext /\ UNCHANGED captureVars
StartSpec == StartInit /\ [][StartNext]_<<captureVars, policyVars>>

Symmetric == Permutations(Clients)

\* Every variable of the capture and of the policies keeps its type.
TypeOK == CaptureTypeOK /\ PolicyTypeOK
================================================================================
