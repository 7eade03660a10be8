------------------------------ MODULE GitCredEnv ------------------------------
(***************************************************************************)
(* Git credentials for remote modules (workspace.go, Connect).  For a     *)
(* ProviderConfig with a .git-credentials entry, Connect creates           *)
(* /tmp/tofu/<UID>, sets the process-wide GIT_CRED_DIR to it and writes   *)
(* the credentials file there; the remote module is then fetched by       *)
(* go-getter, whose git reads the file named by GIT_CRED_DIR (through the *)
(* image's /.gitconfig).  Connects of different Workspaces run            *)
(* concurrently; the variable is never unset.                              *)
(***************************************************************************)
CONSTANTS
    WS,         \* Workspaces with a remote module
    WithCreds,  \* those whose ProviderConfig has a .git-credentials entry
    NoDir,      \* GIT_CRED_DIR unset, or no credentials file found
    NotFetched  \* no fetch yet

VARIABLES
    env,       \* GIT_CRED_DIR: the UID of the directory it names, or NoDir
    credFile,  \* the directories /tmp/tofu/<UID> holding a credentials file
    pc,        \* step of each Workspace's Connect
    usedCreds  \* the credentials of the latest fetch of each Workspace

vars == <<env, credFile, pc, usedCreds>>

(* What git finds: the file in the directory GIT_CRED_DIR names, if any.  *)
CredsAt(d) == IF d \in credFile THEN d ELSE NoDir

Init ==
    /\ env = NoDir
    /\ credFile = {}
    /\ pc = [w \in WS |-> "Idle"]
    /\ usedCreds = [w \in WS |-> NotFetched]

(* A pass starts: the loop over the ProviderConfig's credentials.          *)
Start(w) ==
    /\ pc[w] = "Idle"
    /\ pc' = [pc EXCEPT ![w] = IF w \in WithCreds THEN "SetEnv" ELSE "Fetch"]
    /\ UNCHANGED <<env, credFile, usedCreds>>

(* MkdirAll of /tmp/tofu/<UID> and os.Setenv("GIT_CRED_DIR", ...).        *)
SetEnv(w) ==
    /\ pc[w] = "SetEnv"
    /\ env' = w
    /\ pc' = [pc EXCEPT ![w] = "WriteFile"]
    /\ UNCHANGED <<credFile, usedCreds>>

(* WriteFile of the credentials into /tmp/tofu/<UID>.                     *)
WriteFile(w) ==
    /\ pc[w] = "WriteFile"
    /\ credFile' = credFile \cup {w}
    /\ pc' = [pc EXCEPT ![w] = "Fetch"]
    /\ UNCHANGED <<env, usedCreds>>

(* getter.Client.Get of the remote module, with the credentials git finds *)
(* through GIT_CRED_DIR at that moment.                                    *)
Fetch(w) ==
    /\ pc[w] = "Fetch"
    /\ usedCreds' = [usedCreds EXCEPT ![w] = CredsAt(env)]
    /\ pc' = [pc EXCEPT ![w] = "Idle"]
    /\ UNCHANGED <<env, credFile>>

Next == \E w \in WS : Start(w) \/ SetEnv(w) \/ WriteFile(w) \/ Fetch(w)

Spec == Init /\ [][Next]_vars

-----------------------------------------------------------------------------
(* Every module fetch uses the git credentials of its own ProviderConfig, *)
(* and none when it has none (spec 5 and 9 on the shared variable).        *)
OwnCredentials ==
    \A w \in WS : usedCreds[w] # NotFetched =>
        usedCreds[w] = IF w \in WithCreds THEN w ELSE NoDir

=============================================================================
