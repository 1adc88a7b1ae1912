------------------------------- MODULE Workspace -------------------------------
\* What the models of a project's registry, configuration, files and index share.
CONSTANTS
  Clients,     \* the callers: threads of the server, command line processes
  None, Bad    \* nothing, or a file that does not exist (/dev/null in a diff); one that
               \* does not parse

ASSUME ValuesDiffer == None # Bad
================================================================================
