------------------------ MODULE MCReleaseCandidate ------------------------
(***************************************************************************)
(* The release of one distribution under two interpreters, with two changes*)
(* of the sources, commits, rebuilds or restarted jobs at any moment.      *)
(***************************************************************************)
EXTENDS ReleaseCandidate
CONSTANTS b1, v1
MCPythons == <<"3.11", "3.12">>
MCArtifacts == <<"wheel">>
============================================================================
