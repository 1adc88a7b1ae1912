-------------------------- MODULE ConnectionContract --------------------------
(***************************************************************************)
(* What configure_connection promises while nobody else configures the     *)
(* project: its files change together or not at all.  Only a call that is  *)
(* torn (its process dies, or putting a file back fails) may leave some of *)
(* its changes without the others.                                         *)
(***************************************************************************)
EXTENDS Naturals

CONSTANTS
  Changes(_),  \* what a call may make of the project's files
  Drafts(_)    \* what it may want to make of them, when it can fail as well

VARIABLES
  config,   \* the project's files
  torn,     \* number of calls that were torn
  mixed     \* calls have overlapped: nothing is promised any more

vars == <<config, torn, mixed>>

Configure ==
  /\ config' \in Changes(config)
  /\ UNCHANGED <<torn, mixed>>

\* Some of the files say what they should say after the call, the others what
\* they said before.
Tear ==
  /\ torn' = torn + 1
  /\ \E new \in Drafts(config), done \in SUBSET DOMAIN config :
       config' = [f \in DOMAIN config |-> IF f \in done THEN new[f] ELSE config[f]]
  /\ UNCHANGED mixed

Overlap == mixed' /\ torn' \in {torn, torn + 1}

Next == Configure \/ Tear \/ Overlap

Spec == torn = 0 /\ mixed = FALSE /\ [][Next]_vars
===============================================================================
