------------------------------ MODULE SetupRun ------------------------------
(***************************************************************************)
(* spark setup (src/setup.rs) with --codex (src/codex_integration.rs), and *)
(* the directory of the application's data (src/config.rs): its steps, one *)
(* after the other, of which each may fail and end the run, which may then *)
(* be started again; and what of the user's it finds: skills in the        *)
(* repository, a Codex explorer agent, a registered MCP server.            *)
(***************************************************************************)
EXTENDS Naturals, FiniteSets, Sequences

CONSTANTS Skills,      \* skills in the source directory
          MaxRuns      \* bound: runs of setup

VARIABLES dirs,        \* data directories that exist: legacy, project
          auth,        \* the login saved in each of them
          login,       \* the last login setup reported (history)
          repo,        \* what is under .agents/skills of each name
          explorer,    \* ~/.codex/agents/explorer.toml
          backups,     \* what was copied aside
          server,      \* the MCP server registered with Codex
          staged,      \* executables under ~/.spark-codex/mcp
          step,        \* the step of the run that goes on, or none
          options,     \* its --skip-login, skill source, --codex, --force-codex
          plan,        \* skills it still has to copy
          runs

vars == <<dirs, auth, login, repo, explorer, backups, server, staged, step, options, plan, runs>>

Steps == <<"app_dir", "login", "plan", "copy", "cache", "stage", "get", "add", "backup", "explorer">>
Dirs == {"legacy", "project"}

Init == /\ dirs \in {{}, {"project"}, {"legacy"}}
        /\ auth = [d \in Dirs |-> 0] /\ login = 0
        /\ repo \in [Skills -> {"none", "user"}]
        /\ explorer \in {"none", "user"} /\ backups = {}
        /\ server \in {"none", "user"} /\ staged = {}
        /\ step = 0 /\ options = [login |-> FALSE, skills |-> FALSE, codex |-> FALSE, force |-> FALSE]
        /\ plan = {} /\ runs = 0

\* app_dir: the legacy directory if it exists.
AppDir == IF "legacy" \in dirs THEN "legacy" ELSE "project"

LoadedAuth == auth[AppDir]

-----------------------------------------------------------------------------
At(s) == step # 0 /\ Steps[step] = s
Go(n) == step' = n
Go1 == Go(step + 1)

Options == [login : BOOLEAN, skills : BOOLEAN, codex : BOOLEAN, force : BOOLEAN]

Begin ==
    /\ step = 0 /\ runs < MaxRuns
    /\ runs' = runs + 1
    /\ options' \in Options
    /\ Go(1) /\ plan' = {}
    /\ UNCHANGED <<dirs, auth, login, repo, explorer, backups, server, staged>>

MakeAppDir ==
    /\ At("app_dir") /\ Go1
    /\ dirs' = dirs \cup {AppDir}
    /\ UNCHANGED <<auth, login, repo, explorer, backups, server, staged, options, plan, runs>>

LogIn ==
    /\ At("login") /\ Go1
    /\ IF options.login
       THEN login' = login + 1 /\ auth' = [auth EXCEPT ![AppDir] = login + 1]
       ELSE UNCHANGED <<auth, login>>
    /\ UNCHANGED <<dirs, repo, explorer, backups, server, staged, options, plan, runs>>

\* (Fault: a skill the repository has is planned too.)
EverySkill(s) == TRUE

Missing(s) == repo[s] = "none"

PlanSkills ==
    /\ At("plan") /\ Go1
    /\ plan' = IF options.skills THEN {s \in Skills : Missing(s)} ELSE {}
    /\ UNCHANGED <<dirs, auth, login, repo, explorer, backups, server, staged, options, runs>>

\* copy_dir_recursive: the directory, then what is in it.
CopySkill ==
    /\ At("copy") /\ plan # {}
    /\ \E s \in plan :
          \/ repo[s] # "part" /\ repo' = [repo EXCEPT ![s] = "part"] /\ UNCHANGED plan
          \/ repo[s] = "part" /\ repo' = [repo EXCEPT ![s] = "copied"] /\ plan' = plan \ {s}
    /\ UNCHANGED <<dirs, auth, login, explorer, backups, server, staged, step, options, runs>>

\* The skill cache is rebuilt from what is there.
RefreshCache ==
    /\ \/ At("copy") /\ plan = {} /\ Go1
       \/ At("cache") /\ Go(IF options.codex THEN step + 1 ELSE 0)
    /\ UNCHANGED <<dirs, auth, login, repo, explorer, backups, server, staged, options, plan, runs>>

\* stage_mcp_executable: under the home directory, whatever app_dir says.
StageExecutable ==
    /\ At("stage") /\ Go1
    /\ dirs' = dirs \cup {"legacy"}
    /\ staged' = staged \cup {runs}
    /\ UNCHANGED <<auth, login, repo, explorer, backups, server, options, plan, runs>>

\* register_mcp_server: get, and with --force-codex remove; then add.
LookUpServer ==
    /\ At("get")
    /\ \/ server # "none" /\ ~options.force /\ Go(0) /\ UNCHANGED server
       \/ server # "none" /\ options.force /\ Go1 /\ server' = "none"
       \/ server = "none" /\ Go1 /\ UNCHANGED server
    /\ UNCHANGED <<dirs, auth, login, repo, explorer, backups, staged, options, plan, runs>>

AddServer ==
    /\ At("add") /\ Go1
    /\ server' = "spark"
    /\ UNCHANGED <<dirs, auth, login, repo, explorer, backups, staged, options, plan, runs>>

\* (Fault: the copy is only made after the file was written.)
NoBackup == UNCHANGED backups

CopyAside == backups' = backups \cup {explorer}

\* install_explorer_agent: nothing to do, refused, copied aside, or new.
BackUpExplorer ==
    /\ At("backup")
    /\ \/ explorer = "spark" /\ Go(0) /\ UNCHANGED backups
       \/ explorer \in {"user", "torn"} /\ ~options.force /\ Go(0) /\ UNCHANGED backups
       \/ explorer \in {"user", "torn"} /\ options.force /\ Go1 /\ CopyAside
       \/ explorer = "none" /\ Go1 /\ UNCHANGED backups
    /\ UNCHANGED <<dirs, auth, login, repo, explorer, server, staged, options, plan, runs>>

\* std::fs::write truncates, then writes.
WriteExplorer ==
    /\ At("explorer")
    /\ IF explorer = "torn" THEN explorer' = "spark" /\ Go(0)
       ELSE explorer' = "torn" /\ UNCHANGED step
    /\ UNCHANGED <<dirs, auth, login, repo, backups, server, staged, options, plan, runs>>

\* A step fails, or the program is killed.
Fail ==
    /\ step # 0 /\ Go(0)
    /\ UNCHANGED <<dirs, auth, login, repo, explorer, backups, server, staged, options, plan, runs>>

Next ==
    \/ Begin \/ MakeAppDir \/ LogIn \/ PlanSkills \/ CopySkill \/ RefreshCache
    \/ StageExecutable \/ LookUpServer \/ AddServer \/ BackUpExplorer \/ WriteExplorer \/ Fail

Spec == Init /\ [][Next]_vars

-----------------------------------------------------------------------------
(* Properties.                                                             *)

\* A step that overwrites no skill of the user's, and the user's explorer agent
\* only when there is a copy of it.
KeepsUsersFiles ==
    /\ \A s \in Skills : repo[s] = "user" => repo'[s] = "user"
    /\ explorer = "user" /\ explorer' # "user" => "user" \in backups

\* Every step is one, whatever runs of setup fail at whatever step and are
\* started again.
UsersFilesAreKept == [][KeepsUsersFiles]_vars

\* (violated) The login setup reports is the one that is loaded afterwards:
\* staging the executable makes the legacy directory, which then is app_dir.
LoginIsFound == step = 0 => LoadedAuth = login

\* (violated) A skill that is skipped as existing is whole: a copy that was
\* interrupted is never completed.
SkippedIsWhole ==
    At("copy") /\ options.skills => \A s \in Skills \ plan : repo[s] # "part"
=============================================================================
