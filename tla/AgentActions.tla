---------------------------- MODULE AgentActions ----------------------------
(***************************************************************************)
(* Agent tools and actions of the control plane: an action is proposed,    *)
(* decided when its tool requires approval, and executed.  A handler reads *)
(* the action, then puts it back with another status: the store has no     *)
(* revision, so two handlers may act on the same reading.                  *)
(***************************************************************************)
EXTENDS Integers, Sequences

CONSTANTS
    Agents,          \* API callers
    Tools,           \* tool id -> [requires_approval, enabled, scopes]
    ScopesOf,        \* the scopes granted to a caller
    MaxActions       \* bound on the actions proposed

VARIABLES
    tools,           \* agent_tool records registered
    actions,         \* agent_action records
    areq,            \* the action write each caller has in flight
    everApproved     \* history: actions whose approval was saved

agentVars == <<tools, actions, areq, everApproved>>

NoWrite == [id |-> 0]

register_tool(t) ==
    /\ t \notin tools
    /\ tools' = tools \cup {t}
    /\ UNCHANGED <<actions, areq, everApproved>>

ToolAvailable(t) == t \in tools /\ Tools[t].enabled

ToolInScope(c, t) ==
    \/ ScopesOf[c] = {} \/ "*" \in ScopesOf[c]
    \/ Tools[t].scopes \subseteq ScopesOf[c]

InitialActionStatus(t) == IF Tools[t].requires_approval THEN "pending_approval" ELSE "approved"

propose_action(c, t) ==
    /\ areq[c] = NoWrite
    /\ ToolAvailable(t) /\ ToolInScope(c, t)
    /\ Len(actions) < MaxActions
    /\ actions' = Append(actions, [tool |-> t, status |-> InitialActionStatus(t)])
    /\ UNCHANGED <<tools, areq, everApproved>>

decide_action(c, a, approved) ==
    /\ areq[c] = NoWrite
    /\ actions[a].status = "pending_approval"
    /\ areq' = [areq EXCEPT ![c] =
                    [id |-> a, status |-> IF approved THEN "approved" ELSE "rejected"]]
    /\ UNCHANGED <<tools, actions, everApproved>>

\* Mutant.
Executable_NotRejected(a) == actions[a].status # "rejected"

Executable(a) == actions[a].status = "approved"

execute_action(c, a) ==
    /\ areq[c] = NoWrite
    /\ Executable(a)
    /\ ToolAvailable(actions[a].tool) /\ ToolInScope(c, actions[a].tool)
    /\ areq' = [areq EXCEPT ![c] = [id |-> a, status |-> "executed"]]
    /\ UNCHANGED <<tools, actions, everApproved>>

\* _save("agent_action", updated) of the two handlers.
SaveAction(c) ==
    LET r == areq[c] IN
    /\ r # NoWrite
    /\ actions' = [actions EXCEPT ![r.id].status = r.status]
    /\ everApproved' = IF r.status = "approved" THEN everApproved \cup {r.id} ELSE everApproved
    /\ areq' = [areq EXCEPT ![c] = NoWrite]
    /\ UNCHANGED tools

AgentInit ==
    /\ tools = {} /\ actions = << >> /\ everApproved = {}
    /\ areq = [c \in Agents |-> NoWrite]

AgentNext ==
    \/ \E t \in DOMAIN Tools : register_tool(t)
    \/ \E c \in Agents :
        \/ \E t \in DOMAIN Tools : propose_action(c, t)
        \/ \E a \in DOMAIN actions, ok \in BOOLEAN : decide_action(c, a, ok)
        \/ \E a \in DOMAIN actions : execute_action(c, a)
        \/ SaveAction(c)

AgentSpec == AgentInit /\ [][AgentNext]_agentVars
------------------------------------------------------------------------------
(* Types *)

AgentTool == DOMAIN Tools
AgentAction == [tool : tools, status : {"pending_approval", "approved", "rejected", "executed"}]

\* Every record keeps its type.
AgentTypeOK ==
    /\ tools \subseteq AgentTool
    /\ \A a \in DOMAIN actions : actions[a] \in AgentAction
    /\ everApproved \subseteq DOMAIN actions
------------------------------------------------------------------------------
(* Properties *)

\* An action of a tool that requires approval is executed only if some decision
\* approved it, even when deciders and executors overlap.
ExecutedWasApproved ==
    /\ AgentTypeOK
    /\ \A a \in DOMAIN actions :
          actions[a].status = "executed" /\ Tools[actions[a].tool].requires_approval
              => a \in everApproved
==============================================================================
