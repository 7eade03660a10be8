---------------------------- MODULE MCGitCredEnv ----------------------------
(* Two Workspaces with git credentials and one without.                    *)
EXTENDS GitCredEnv, TLC

CONSTANTS a, b, c
=============================================================================
