------------------------------ MODULE Workflows ------------------------------
(***************************************************************************)
(* Flows with approval nodes of the control plane.  The handlers of        *)
(* ControlPlaneService are split at their store calls; a request keeps the *)
(* documents it has read, and put replaces the stored document whatever    *)
(* happened to it in between.                                              *)
(***************************************************************************)
EXTENDS Integers, Sequences

CONSTANTS
    Operators,       \* API callers
    FlowBodies,      \* flow id -> [entry, nodes]: the bodies create_flow may get
    MaxExecutions, MaxApprovals   \* bounds on the records created

VARIABLES
    flows,           \* the flows stored
    executions,      \* flow_execution records
    approvals,       \* flow_approval records
    wreq,            \* the request each caller has in flight
    approvedEver,    \* history: approvals that were saved approved
    disturbed        \* history: a request overlapped another, or did not end well

workflowVars == <<flows, executions, approvals, wreq, approvedEver, disturbed>>

NoRequest == [at |-> "idle"]
Begin(c, r) ==
    /\ wreq[c] = NoRequest
    /\ wreq' = [wreq EXCEPT ![c] = r]
    /\ disturbed' = (disturbed \/ \E d \in Operators : wreq[d] # NoRequest)
Continue(c, r) == wreq' = [wreq EXCEPT ![c] = r] /\ UNCHANGED disturbed
Done(c) == Continue(c, NoRequest)
------------------------------------------------------------------------------
(* Flow definitions *)

Nodes(f) == DOMAIN FlowBodies[f].nodes
Node(f, n) == FlowBodies[f].nodes[n]

\* A node has a name (FlowNode's pattern) and a list of successors.
ASSUME WorkflowAssumption ==
    \A f \in DOMAIN FlowBodies :
        /\ "" \notin Nodes(f)
        /\ \A n \in Nodes(f) : Node(f, n).next \in Seq(STRING)

ValidFlow(f) ==
    /\ FlowBodies[f].entry \in Nodes(f)
    /\ \A n \in Nodes(f) : \A i \in DOMAIN Node(f, n).next : Node(f, n).next[i] \in Nodes(f)

create_flow(f) ==
    /\ f \notin flows /\ ValidFlow(f)
    /\ flows' = flows \cup {f}
    /\ UNCHANGED <<executions, approvals, wreq, approvedEver, disturbed>>

\* The node after n: a condition with two successors takes the second when the
\* context does not match; "" ends the flow.
NextNode(f, n, matches) ==
    LET next == Node(f, n).next IN
    IF next = << >> THEN ""
    ELSE IF Node(f, n).kind = "condition" /\ Len(next) > 1 /\ ~ matches THEN next[2]
    ELSE next[1]

\* Mutant.
StopsAt_EntryOnly(f, n) == Node(f, n).kind = "approval" /\ n = FlowBodies[f].entry

StopsAt(f, n) == Node(f, n).kind = "approval"

\* _advance_flow_execution runs nodes from start on, each the successor of the one
\* before, and stops before an approval: the least set with this closure.
Ran(f, start, matches) ==
    {n \in Nodes(f) : \A C \in SUBSET Nodes(f) :
        (\A m \in Nodes(f) :
            ~ StopsAt(f, m) /\ (m = start \/ \E k \in C : NextNode(f, k, matches) = m) => m \in C)
        => n \in C}

\* It ends at an approval, or at a node without a successor, or else comes to a
\* node it has seen before (an error).
Walk(f, start, matches) ==
    LET ran == Ran(f, start, matches)
        stops == {n \in Nodes(f) : /\ StopsAt(f, n)
                                   /\ n = start \/ \E m \in ran : NextNode(f, m, matches) = n}
        ends == {n \in ran : NextNode(f, n, matches) = ""}
    IN IF stops # {} THEN [end |-> "approval", node |-> CHOOSE n \in stops : TRUE, done |-> ran]
       ELSE IF ends # {} THEN [end |-> "completed", node |-> CHOOSE n \in ends : TRUE, done |-> ran]
       ELSE [end |-> "cycle", node |-> start, done |-> ran]

\* The execution document after the walk.
Advanced(x, w) ==
    [x EXCEPT !.status = IF w.end = "approval" THEN "waiting_approval" ELSE "completed",
              !.node = w.node, !.done = @ \cup w.done]
------------------------------------------------------------------------------
(* Executing a flow *)

AdvanceFrom(x, id, start) ==
    LET w == Walk(x.flow, start, x.matches) IN
    [at |-> w.end, id |-> id, doc |-> Advanced(x, w)]

execute_flow(c, f, matches) ==
    LET x == [flow |-> f, matches |-> matches, status |-> "running",
              node |-> FlowBodies[f].entry, done |-> {}] IN
    /\ f \in flows /\ Len(executions) < MaxExecutions
    /\ executions' = Append(executions, x)
    /\ Begin(c, AdvanceFrom(x, Len(executions) + 1, x.node))
    /\ UNCHANGED <<flows, approvals, approvedEver>>

SaveApproval(c) ==
    LET r == wreq[c] IN
    /\ r.at = "approval" /\ Len(approvals) < MaxApprovals
    /\ approvals' = Append(approvals, [execution |-> r.id, node |-> r.doc.node,
                                       status |-> "pending"])
    /\ Continue(c, [r EXCEPT !.at = "save_execution"])
    /\ UNCHANGED <<flows, executions, approvedEver>>

SaveExecution(c) ==
    LET r == wreq[c] IN
    /\ r.at \in {"save_execution", "completed"}
    /\ executions' = [executions EXCEPT ![r.id] = r.doc]
    /\ Done(c)
    /\ UNCHANGED <<flows, approvals, approvedEver>>

\* ValueError("flow contains a runtime cycle"): nothing more is saved.
FlowCycle(c) ==
    /\ wreq[c].at = "cycle"
    /\ wreq' = [wreq EXCEPT ![c] = NoRequest] /\ disturbed' = TRUE
    /\ UNCHANGED <<flows, executions, approvals, approvedEver>>
------------------------------------------------------------------------------
(* Deciding an approval: get and put the approval, get and put the execution *)

decide_flow_approval(c, a, approved) ==
    /\ a \in DOMAIN approvals /\ approvals[a].status = "pending"
    /\ Begin(c, [at |-> "decide_flow", id |-> a, approved |-> approved])
    /\ UNCHANGED <<flows, executions, approvals, approvedEver>>

SaveFlowDecision(c) ==
    LET r == wreq[c] IN
    /\ r.at = "decide_flow"
    /\ approvals' = [approvals EXCEPT ![r.id].status =
                         IF r.approved THEN "approved" ELSE "rejected"]
    /\ approvedEver' = IF r.approved THEN approvedEver \cup {r.id}
                       ELSE approvedEver
    /\ Continue(c, [r EXCEPT !.at = "read_execution"])
    /\ UNCHANGED <<flows, executions>>

\* What the decision makes of the execution it reads.
Decided(r) ==
    LET x == executions[approvals[r.id].execution]
        after == NextNode(x.flow, approvals[r.id].node, TRUE)
    IN IF r.approved /\ after # ""
       THEN AdvanceFrom([x EXCEPT !.status = "running"], approvals[r.id].execution, after)
       ELSE [at |-> "save_execution", id |-> approvals[r.id].execution,
             doc |-> [x EXCEPT !.status = IF r.approved THEN "completed" ELSE "rejected"]]

ReadExecution(c) ==
    /\ wreq[c].at = "read_execution"
    /\ Continue(c, Decided(wreq[c]))
    /\ UNCHANGED <<flows, executions, approvals, approvedEver>>
------------------------------------------------------------------------------
\* A request dies between two store calls.
AbortOperator(c) ==
    /\ wreq[c] # NoRequest
    /\ wreq' = [wreq EXCEPT ![c] = NoRequest] /\ disturbed' = TRUE
    /\ UNCHANGED <<flows, executions, approvals, approvedEver>>

WorkflowInit ==
    /\ flows = {} /\ executions = << >> /\ approvals = << >>
    /\ wreq = [c \in Operators |-> NoRequest]
    /\ approvedEver = {} /\ disturbed = FALSE

WorkflowNext ==
    \/ \E f \in DOMAIN FlowBodies : create_flow(f)
    \/ \E c \in Operators :
        \/ \E f \in DOMAIN FlowBodies, m \in BOOLEAN : execute_flow(c, f, m)
        \/ SaveApproval(c)
        \/ SaveExecution(c)
        \/ FlowCycle(c)
        \/ \E a \in 1..MaxApprovals, ok \in BOOLEAN : decide_flow_approval(c, a, ok)
        \/ SaveFlowDecision(c)
        \/ ReadExecution(c)
        \/ AbortOperator(c)

WorkflowSpec == WorkflowInit /\ [][WorkflowNext]_workflowVars
------------------------------------------------------------------------------
(* Types *)

FlowDefinition == {f \in DOMAIN FlowBodies : ValidFlow(f)}
FlowExecution(f) ==
    [flow : {f}, matches : BOOLEAN, node : Nodes(f), done : SUBSET Nodes(f),
     status : {"running", "waiting_approval", "completed", "rejected"}]
FlowApproval == [execution : DOMAIN executions, node : UNION {Nodes(f) : f \in flows},
                 status : {"pending", "approved", "rejected"}]

\* Every record keeps its type.
WorkflowTypeOK ==
    /\ flows \subseteq FlowDefinition
    /\ \A i \in DOMAIN executions : \E f \in flows : executions[i] \in FlowExecution(f)
    /\ \A i \in DOMAIN approvals : approvals[i] \in FlowApproval
    /\ approvedEver \subseteq DOMAIN approvals
------------------------------------------------------------------------------
(* Properties *)

\* The nodes the flow can run from the nodes in S without an approval.
OpenFrom(f, S) ==
    {n \in Nodes(f) : \A C \in SUBSET Nodes(f) :
        (\A m \in Nodes(f) :
            /\ Node(f, m).kind # "approval"
            /\ m \in S \/ \E k \in C : \E i \in DOMAIN Node(f, k).next : Node(f, k).next[i] = m
            => m \in C)
        => n \in C}

ApprovedNodes(x) ==
    {approvals[a].node : a \in {b \in DOMAIN approvals :
        approvals[b].execution = x /\ b \in approvedEver}}

\* "fail-closed approvals": whatever the interleaving of decisions, every node
\* an execution has run is one it could run without an approval, or from the
\* successors of an approval node whose approval was granted for that execution.
\* And requests served one at a time and to their end keep the two records in
\* step: an execution waits for an approval exactly when one of its approvals is
\* pending, and one that was rejected has a rejected approval.
ApprovalGate ==
    /\ WorkflowTypeOK
    /\ \A x \in DOMAIN executions :
          LET f == executions[x].flow
              after == UNION {{Node(f, n).next[i] : i \in DOMAIN Node(f, n).next} :
                                  n \in ApprovedNodes(x)}
          IN executions[x].done \subseteq OpenFrom(f, {FlowBodies[f].entry} \cup after)
    /\ (~ disturbed /\ \A c \in Operators : wreq[c] = NoRequest) =>
          \A x \in DOMAIN executions :
              LET mine == {a \in DOMAIN approvals : approvals[a].execution = x} IN
              /\ executions[x].status = "waiting_approval" <=>
                     \E a \in mine : approvals[a].status = "pending"
              /\ executions[x].status = "rejected" <=>
                     \E a \in mine : approvals[a].status = "rejected"
==============================================================================
