--------------------------- MODULE MCControlPlane ---------------------------
(***************************************************************************)
(* The control plane, access and the HTTP API for TLC.  The parts share no *)
(* record, so a behaviour exercises one of them, chosen by focus, instead  *)
(* of their product.                                                       *)
(***************************************************************************)
EXTENDS Billing, Workflows, AgentActions, ControlRecords, Access, HttpApi

CONSTANT Focuses     \* the parts a run looks at
VARIABLE focus

MCQuotaStarts == {[backend |-> "memory", row |-> NoRow],
                  [backend |-> "postgres", row |-> [started |-> 0, used |-> 1]]}
MCQuotaEmpty == {[backend |-> "postgres", row |-> NoRow]}

N(kind, next) == [kind |-> kind, next |-> next]
MCFlows ==
    [review |-> [entry |-> "a",
                 nodes |-> [a |-> N("task", <<"b">>), b |-> N("approval", <<"c">>),
                            c |-> N("approval", <<"d">>), d |-> N("webhook", << >>)]],
     branch |-> [entry |-> "a",
                 nodes |-> [a |-> N("condition", <<"b", "c">>), b |-> N("approval", << >>),
                            c |-> N("task", <<"a">>)]],
     broken |-> [entry |-> "a", nodes |-> [a |-> N("task", <<"z">>)]]]

MCTools ==
    [ask |-> [requires_approval |-> TRUE, enabled |-> TRUE, scopes |-> {"w"}],
     free |-> [requires_approval |-> FALSE, enabled |-> TRUE, scopes |-> {}],
     off |-> [requires_approval |-> FALSE, enabled |-> FALSE, scopes |-> {}]]
MCAgentScopes == [o1 |-> {"*"}, o2 |-> {"r"}]

MCGrants ==
    {[a1 |-> [scopes |-> {<<r, "write">>}, products |-> {"*"}],
      a2 |-> [scopes |-> {<<"audit_event", "*">>, <<IF r = "iam" THEN "iam" ELSE "", "*">>},
              products |-> {"console"}]] :
        r \in {"iam", "enterprise", "data", "search_index", "model", "portrait", "agent"}}

MCApiKeys ==
    [k1 |-> [scopes |-> {<<"run", "read">>}, products |-> {"parse"}, expires_at |-> 1],
     k2 |-> [scopes |-> {<<"run", "read">>, <<"iam", "write">>}, products |-> {"parse"},
             expires_at |-> 9],
     k3 |-> [scopes |-> {<<"run", "write">>}, products |-> {"parse", "data"}, expires_at |-> 9]]
MCAccountScopes == {<<"run", "*">>}
------------------------------------------------------------------------------
vars == <<focus, billingVars, workflowVars, agentVars, recordVars, accessVars, httpVars>>

Init ==
    /\ focus \in Focuses
    /\ BillingInit /\ WorkflowInit /\ AgentInit /\ RecordInit /\ AccessInit /\ HttpInit
    /\ focus # "limits" => quotaBackend = "memory"
    /\ focus # "records" => grants = CHOOSE g \in MCGrants : TRUE
    /\ focus # "http" => ~authRequired

Next ==
    /\ UNCHANGED focus
    /\ \/ /\ focus = "metering" /\ BillingNext /\ seats' = seats /\ granted' = granted
          /\ \A c \in Callers : breq'[c].at \notin {"seat", "quota"}
          /\ UNCHANGED <<workflowVars, agentVars, recordVars, accessVars, httpVars>>
       \/ /\ focus = "limits" /\ BillingNext /\ Metering' = {}
          /\ UNCHANGED <<workflowVars, agentVars, recordVars, accessVars, httpVars>>
       \/ /\ focus = "flows" /\ WorkflowNext
          /\ UNCHANGED <<billingVars, agentVars, recordVars, accessVars, httpVars>>
       \/ /\ focus = "actions" /\ AgentNext
          /\ UNCHANGED <<billingVars, workflowVars, recordVars, accessVars, httpVars>>
       \/ /\ focus = "records" /\ RecordNext
          /\ UNCHANGED <<billingVars, workflowVars, agentVars, accessVars, httpVars>>
       \/ /\ focus = "access" /\ AccessNext
          /\ UNCHANGED <<billingVars, workflowVars, agentVars, recordVars, httpVars>>
       \/ /\ focus = "http" /\ HttpNext
          /\ UNCHANGED <<billingVars, workflowVars, agentVars, recordVars, accessVars>>

Spec == Init /\ [][Next]_vars
==============================================================================
