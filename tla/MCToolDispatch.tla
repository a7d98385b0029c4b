--------------------------- MODULE MCToolDispatch ---------------------------
(* The ways the code sets up a runner, for TLC. *)
EXTENDS ToolDispatch

CONSTANTS f1, f2

\* An interactive runner with everything granted (AgentRunner::new).
Interactive ==
  [access |-> Grants, local_only |-> FALSE, budgeted |-> FALSE, budget |-> 0,
   delegated |-> FALSE, owned |-> {}, child |-> FALSE, eager |-> FALSE, interactive |-> TRUE,
   mode |-> "work", compacts |-> FALSE]

\* build_subagent: a helper that reads, and one that may edit f1.
AskChild == [Interactive EXCEPT !.child = TRUE, !.interactive = FALSE, !.mode = "ask"]
WorkChild ==
  [AskChild EXCEPT !.delegated = TRUE, !.owned = {f1}, !.mode = "work"]

\* repo_brief: local reads under a budget.
RepoBrief ==
  [AskChild EXCEPT !.local_only = TRUE, !.budgeted = TRUE, !.budget = 2]

\* automation: edits and given MCP servers without commands.
Automation ==
  [Interactive EXCEPT !.access = {"workspace_writes", "mcp"}, !.interactive = FALSE,
                      !.eager = TRUE]

\* Runners whose conversations grow long enough to be compacted.
LongAskChild == [AskChild EXCEPT !.compacts = TRUE]
LongInteractive == [Interactive EXCEPT !.compacts = TRUE]

\* To keep the instance small the interactive runner is split by its grants: beside the
\* files one has the browser and the servers, and one has all the others.
Everyone == {[Interactive EXCEPT !.access = @ \ {"browser", "mcp"}],
             [Interactive EXCEPT !.access = {"workspace_writes", "browser", "mcp"}],
             LongAskChild, WorkChild, RepoBrief, Automation}
OnlyInteractive == {LongInteractive}
=============================================================================
