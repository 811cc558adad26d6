------------------------- MODULE ControlPlaneProofs -------------------------
(***************************************************************************)
(* Usage and quotas, flows, agent actions, governed records and access,    *)
(* for any number of callers, metric keys, flows, executions, tools,       *)
(* actions, records, keys, sessions, requests and servers.                 *)
(***************************************************************************)
EXTENDS Billing, Workflows, AgentActions, ControlRecords, Access, FiniteSetTheorems, SequenceTheorems, TLAPS

-----------------------------------------------------------------------------
(* Agent actions.  The handlers act on what they read, so the history of     *)
(* approvals has to be tied to the writes in flight as well as to the        *)
(* records: a handler that read "approved" saves "executed" whatever the     *)
(* record says by then.                                                      *)

ActionStatus == {"pending_approval", "approved", "rejected", "executed"}
ActionRecord == [tool : AgentTool, status : ActionStatus]

\* The write a caller has in flight.
ActionWrite == [id : DOMAIN actions, status : {"approved", "rejected", "executed"}]

NeedsApproval(a) == Tools[actions[a].tool].requires_approval

\* The inductive invariant of the agent actions: a record that needs approval
\* is past it only when an approval was saved, and the write of an execution is
\* in flight only for such a record or for one whose tool needs none.
AgentInv ==
    /\ AgentTypeOK
    /\ actions \in Seq(ActionRecord)
    /\ areq \in [Agents -> ActionWrite \cup {NoWrite}]
    /\ \A a \in DOMAIN actions :
          actions[a].status \in {"approved", "executed"} /\ NeedsApproval(a)
              => a \in everApproved
    /\ \A c \in Agents :
          areq[c] # NoWrite /\ areq[c].status = "executed" /\ NeedsApproval(areq[c].id)
              => areq[c].id \in everApproved

LEMMA AgentInvInit == AgentInit => AgentInv
BY DEF AgentInit, AgentInv, AgentTypeOK, AgentTool, NoWrite, ActionWrite

LEMMA ProposeInv ==
  ASSUME AgentInv, NEW c \in Agents, NEW t \in DOMAIN Tools, propose_action(c, t)
  PROVE  AgentInv'
<1> DEFINE new == [tool |-> t, status |-> InitialActionStatus(t)]
<1>1. new \in ActionRecord /\ new \in AgentAction
  BY DEF propose_action, ToolAvailable, InitialActionStatus, AgentTool, AgentAction, ActionRecord, ActionStatus
<1>2. /\ actions' = Append(actions, new)
      /\ actions' \in Seq(ActionRecord)
      /\ DOMAIN actions' = 1..(Len(actions) + 1) /\ DOMAIN actions = 1..Len(actions)
      /\ Len(actions) \in Nat
  BY <1>1 DEF AgentInv, propose_action
<1>3. /\ \A a \in DOMAIN actions : a \in DOMAIN actions' /\ actions'[a] = actions[a]
      /\ actions'[Len(actions) + 1] = new
      /\ \A a \in DOMAIN actions' : a \in DOMAIN actions \/ a = Len(actions) + 1
  BY <1>1, <1>2 DEF AgentInv
<1>4. UNCHANGED <<tools, areq, everApproved>>
  BY DEF propose_action
<1>5. AgentTypeOK'
  BY <1>1, <1>3, <1>4 DEF AgentInv, AgentTypeOK, AgentAction, AgentTool
<1>6. areq' \in [Agents -> ActionWrite' \cup {NoWrite}]
  BY <1>3, <1>4 DEF AgentInv, ActionWrite
<1>7. new.status \in {"approved", "executed"} => ~ Tools[new.tool].requires_approval
  BY DEF InitialActionStatus
<1>8. ASSUME NEW a \in DOMAIN actions', actions'[a].status \in {"approved", "executed"}, NeedsApproval(a)'
      PROVE  a \in everApproved'
  BY <1>3, <1>4, <1>7, <1>8 DEF AgentInv, NeedsApproval
<1>9. ASSUME NEW d \in Agents, areq'[d] # NoWrite, areq'[d].status = "executed", NeedsApproval(areq[d].id)'
      PROVE  areq'[d].id \in everApproved'
  <2>1. areq[d] \in ActionWrite
    BY <1>4, <1>9 DEF AgentInv
  <2>. QED BY <2>1, <1>3, <1>4, <1>9 DEF AgentInv, NeedsApproval, ActionWrite
<1>. QED BY <1>2, <1>4, <1>5, <1>6, <1>8, <1>9 DEF AgentInv

LEMMA SaveActionInv ==
  ASSUME AgentInv, NEW c \in Agents, SaveAction(c)
  PROVE  AgentInv'
<1> DEFINE r == areq[c]
<1>1. r \in ActionWrite /\ r # NoWrite
  BY DEF SaveAction, AgentInv
<1>2. /\ tools' = tools /\ areq' = [areq EXCEPT ![c] = NoWrite]
      /\ actions' = [actions EXCEPT ![r.id].status = r.status]
      /\ everApproved' = IF r.status = "approved" THEN everApproved \cup {r.id} ELSE everApproved
  BY DEF SaveAction
<1>3. /\ DOMAIN actions' = DOMAIN actions
      /\ actions' \in Seq(ActionRecord)
      /\ r.id \in DOMAIN actions
      /\ \A a \in DOMAIN actions : actions'[a].tool = actions[a].tool
      /\ \A a \in DOMAIN actions : a # r.id => actions'[a] = actions[a]
      /\ actions'[r.id].status = r.status
  <2> DEFINE new == [actions[r.id] EXCEPT !.status = r.status]
  <2>1. r.id \in DOMAIN actions
    BY <1>1 DEF ActionWrite
  <2>2. actions \in Seq(ActionRecord)
    BY DEF AgentInv
  <2>3. actions[r.id] \in ActionRecord
    BY <2>1, <2>2
  <2>4. new \in ActionRecord /\ new.status = r.status /\ new.tool = actions[r.id].tool
    BY <1>1, <2>3 DEF ActionWrite, ActionStatus, ActionRecord
  <2>5. actions' = [actions EXCEPT ![r.id] = new]
    BY <1>2
  <2> HIDE DEF new, r
  <2>. QED BY <2>1, <2>2, <2>4, <2>5
<1>4. AgentTypeOK'
  BY <1>1, <1>2, <1>3 DEF AgentInv, AgentTypeOK, AgentAction, ActionRecord, ActionStatus
<1>5. areq' \in [Agents -> ActionWrite' \cup {NoWrite}]
  BY <1>2, <1>3 DEF AgentInv, ActionWrite
<1>6. ASSUME NEW a \in DOMAIN actions', actions'[a].status \in {"approved", "executed"}, NeedsApproval(a)'
      PROVE  a \in everApproved'
  <2>1. NeedsApproval(a)
    BY <1>3, <1>6 DEF NeedsApproval
  <2>. QED BY <1>1, <1>2, <1>3, <1>6, <2>1 DEF AgentInv
<1>7. ASSUME NEW d \in Agents, areq'[d] # NoWrite, areq'[d].status = "executed", NeedsApproval(areq[d].id)'
      PROVE  areq'[d].id \in everApproved'
  <2>1. d # c /\ areq'[d] = areq[d] /\ areq[d] \in ActionWrite
    BY <1>2, <1>7 DEF AgentInv
  <2>2. NeedsApproval(areq[d].id)
    BY <1>3, <1>7, <2>1 DEF NeedsApproval, ActionWrite
  <2>. QED BY <1>2, <1>7, <2>1, <2>2 DEF AgentInv
<1>. QED BY <1>2, <1>3, <1>4, <1>5, <1>6, <1>7 DEF AgentInv

\* A handler that only puts a write in flight.
LEMMA StartWriteInv ==
  ASSUME AgentInv, NEW c \in Agents, NEW w \in ActionWrite,
         areq' = [areq EXCEPT ![c] = w], UNCHANGED <<tools, actions, everApproved>>,
         w.status = "executed" /\ NeedsApproval(w.id) => w.id \in everApproved
  PROVE  AgentInv'
<1>1. AgentTypeOK' /\ actions' \in Seq(ActionRecord) /\ ActionWrite' = ActionWrite
  BY DEF AgentInv, AgentTypeOK, AgentAction, ActionRecord, AgentTool, ActionWrite
<1>2. areq' \in [Agents -> ActionWrite \cup {NoWrite}]
  BY DEF AgentInv
<1>3. \A a \in DOMAIN actions : NeedsApproval(a)' = NeedsApproval(a)
  BY DEF NeedsApproval
<1>4. ASSUME NEW d \in Agents, areq'[d] # NoWrite, areq'[d].status = "executed", NeedsApproval(areq[d].id)'
      PROVE  areq'[d].id \in everApproved
  <2>1. CASE d = c
    BY <1>3, <1>4, <2>1 DEF AgentInv, NeedsApproval
  <2>2. CASE d # c
    BY <1>3, <1>4, <2>2 DEF AgentInv, NeedsApproval
  <2>. QED BY <2>1, <2>2
<1>. QED BY <1>1, <1>2, <1>3, <1>4 DEF AgentInv

LEMMA AgentInvStep == AgentInv /\ [AgentNext]_agentVars => AgentInv'
<1> SUFFICES ASSUME AgentInv, [AgentNext]_agentVars PROVE AgentInv'
  OBVIOUS
<1>1. ASSUME NEW t \in DOMAIN Tools, register_tool(t) PROVE AgentInv'
  BY <1>1 DEF register_tool, AgentInv, AgentTypeOK, AgentTool, AgentAction, ActionWrite,
              NeedsApproval
<1>2. ASSUME NEW c \in Agents, NEW t \in DOMAIN Tools, propose_action(c, t) PROVE AgentInv'
  BY <1>2, ProposeInv
<1>3. ASSUME NEW c \in Agents, NEW a \in DOMAIN actions, NEW ok \in BOOLEAN, decide_action(c, a, ok)
      PROVE  AgentInv'
  <2> DEFINE w == [id |-> a, status |-> IF ok THEN "approved" ELSE "rejected"]
  <2>1. w \in ActionWrite /\ w.status # "executed"
    BY DEF ActionWrite
  <2>2. areq' = [areq EXCEPT ![c] = w] /\ UNCHANGED <<tools, actions, everApproved>>
    BY <1>3 DEF decide_action
  <2> HIDE DEF w
  <2>. QED BY <2>1, <2>2, StartWriteInv
<1>4. ASSUME NEW c \in Agents, NEW a \in DOMAIN actions, execute_action(c, a) PROVE AgentInv'
  <2> DEFINE w == [id |-> a, status |-> "executed"]
  <2>1. w \in ActionWrite /\ w.id = a
    BY DEF ActionWrite
  <2>2. areq' = [areq EXCEPT ![c] = w] /\ UNCHANGED <<tools, actions, everApproved>>
    BY <1>4 DEF execute_action
  <2>3. NeedsApproval(w.id) => w.id \in everApproved
    BY <1>4, <2>1 DEF execute_action, Executable, AgentInv
  <2> HIDE DEF w
  <2>. QED BY <2>1, <2>2, <2>3, StartWriteInv
<1>5. ASSUME NEW c \in Agents, SaveAction(c) PROVE AgentInv'
  BY <1>5, SaveActionInv
<1>6. CASE UNCHANGED agentVars
  BY <1>6 DEF agentVars, AgentInv, AgentTypeOK, AgentTool, AgentAction, ActionWrite, ActionRecord,
              NeedsApproval
<1>. QED BY <1>1, <1>2, <1>3, <1>4, <1>5, <1>6 DEF AgentNext

\* An action of a tool that requires approval is executed only if some decision
\* approved it, however decide_action and execute_action of any number of callers
\* overlap between their read and their save.
THEOREM ExecutionsApproved == AgentSpec => []ExecutedWasApproved
<1>1. AgentInv => ExecutedWasApproved
  BY DEF AgentInv, ExecutedWasApproved, NeedsApproval
<1>. QED BY <1>1, AgentInvInit, AgentInvStep, PTL DEF AgentSpec

-----------------------------------------------------------------------------
(* Access.  An authentication is several awaits long: the invariant says     *)
(* what the request has established at each of them, and that revocations,   *)
(* purges and the writes of last_used_at do not take it back.                *)

\* An API key being checked, then what the request was granted; the same for a
\* session.
KeyCheck ==
    [at : {"account", "key_used", "entitlements"}, key : DOMAIN ApiKeys, now : Nat,
     dead : SUBSET DOMAIN ApiKeys, read : ApiKeyRecord]
KeyGrant ==
    [at : {"granted"}, key : DOMAIN ApiKeys, dead : SUBSET DOMAIN ApiKeys,
     scopes : SUBSET UNION {ApiKeys[k].scopes : k \in DOMAIN ApiKeys},
     products : SUBSET Products, suspended : SUBSET Products]
SessionCheck ==
    [at : {"session_used", "user"}, session : Sessions, now : Nat, read : InteractiveSession]
SessionGrant == [at : {"granted"}, session : Sessions, now : Nat]

\* What a request has established so far.
RequestOK(r) ==
    \/ r = Free
    \/ r \in KeyCheck /\ r.key \notin r.dead /\ keys[r.key] \in ApiKeyRecord
    \/ r \in KeyGrant /\ r.key \notin r.dead
    \/ r \in SessionCheck /\ r.read.expires = expiry[r.session] /\ r.now < r.read.expires
    \/ r \in SessionGrant /\ r.now < expiry[r.session]

\* The inductive invariant of access: a revocation once saved stays in the key's
\* record, a session's record has the expiry it was issued with, and every
\* request in flight has established what the step it is at needs.
AccessInv ==
    /\ AccessTypeOK
    /\ xclock \in Nat
    /\ revokedEver \subseteq DOMAIN ApiKeys
    /\ expiry \in [Sessions -> Nat]
    /\ DOMAIN xreq = HttpRequests
    /\ \A k \in revokedEver : keys[k] \in ApiKeyRecord /\ keys[k].revoked
    /\ \A s \in Sessions : sessions[s] # Missing => sessions[s].expires = expiry[s]
    /\ \A h \in HttpRequests : RequestOK(xreq[h])

LEMMA AccessInvInit == AccessInit => AccessInv
BY DEF AccessInit, AccessInv, AccessTypeOK, RequestOK, Missing, Free

LEMMA RequestStable ==
  ASSUME NEW r, RequestOK(r), expiry \in [Sessions -> Nat],
         \A k \in DOMAIN ApiKeys : keys[k] \in ApiKeyRecord => keys'[k] \in ApiKeyRecord,
         \A s \in Sessions : expiry[s] # 0 => expiry'[s] = expiry[s]
  PROVE  RequestOK(r)'
<1>1. CASE r = Free
  BY <1>1 DEF RequestOK
<1>2. CASE r \in KeyCheck /\ r.key \notin r.dead /\ keys[r.key] \in ApiKeyRecord
  BY <1>2 DEF RequestOK, KeyCheck
<1>3. CASE r \in KeyGrant /\ r.key \notin r.dead
  BY <1>3 DEF RequestOK
<1>4. CASE r \in SessionCheck /\ r.read.expires = expiry[r.session] /\ r.now < r.read.expires
  <2>1. expiry[r.session] # 0 /\ r.session \in Sessions
    BY <1>4 DEF SessionCheck
  <2>. QED BY <1>4, <2>1 DEF RequestOK
<1>5. CASE r \in SessionGrant /\ r.now < expiry[r.session]
  <2>1. expiry[r.session] # 0 /\ r.session \in Sessions
    BY <1>5 DEF SessionGrant
  <2>. QED BY <1>5, <2>1 DEF RequestOK
<1>. QED BY <1>1, <1>2, <1>3, <1>4, <1>5 DEF RequestOK

\* A step of one request that writes no record.
LEMMA RequestStep ==
  ASSUME AccessInv, NEW h \in HttpRequests, NEW r, xreq' = [xreq EXCEPT ![h] = r],
         UNCHANGED OnlyRequest, RequestOK(r)
  PROVE  AccessInv'
<1>1. AccessTypeOK' /\ UNCHANGED <<keys, expiry, revokedEver, sessions, xclock>>
  BY DEF AccessInv, AccessTypeOK, OnlyRequest, historyVars
<1>2. \A q : RequestOK(q) => RequestOK(q)'
  BY <1>1 DEF RequestOK
<1>3. \A g \in HttpRequests : RequestOK(xreq[g])'
  BY <1>2 DEF AccessInv
<1>. QED BY <1>1, <1>3 DEF AccessInv

LEMMA KeyRequestSteps ==
  ASSUME AccessInv, NEW h \in HttpRequests,
         \/ \E k \in DOMAIN ApiKeys : authenticate_api_key(h, k)
         \/ ReadAccount(h) \/ GrantKey(h)
  PROVE  AccessInv'
<1>1. ASSUME NEW k \in DOMAIN ApiKeys, authenticate_api_key(h, k) PROVE AccessInv'
  <2> DEFINE r == [at |-> "account", key |-> k, now |-> xclock, dead |-> revokedEver, read |-> keys[k]]
  <2>1. keys[k] \in ApiKeyRecord /\ ~ keys[k].revoked
    BY <1>1 DEF authenticate_api_key, KeyLive, AccessInv, AccessTypeOK
  <2>2. k \notin revokedEver
    BY <2>1 DEF AccessInv
  <2>3. r \in KeyCheck /\ r.key = k /\ r.dead = revokedEver
    BY <2>1 DEF KeyCheck, AccessInv
  <2>4. xreq' = [xreq EXCEPT ![h] = r] /\ UNCHANGED OnlyRequest
    BY <1>1 DEF authenticate_api_key, Resume
  <2> HIDE DEF r
  <2>5. RequestOK(r)
    BY <2>1, <2>2, <2>3 DEF RequestOK
  <2>. QED BY <2>4, <2>5, RequestStep
<1>2. ASSUME xreq[h].at \in {"account", "key_used", "entitlements"}
      PROVE  xreq[h] \in KeyCheck /\ xreq[h].key \notin xreq[h].dead /\ keys[xreq[h].key] \in ApiKeyRecord
  BY <1>2 DEF AccessInv, RequestOK, Free, KeyGrant, SessionCheck, SessionGrant
<1>3. CASE ReadAccount(h)
  <2> DEFINE r == [xreq[h] EXCEPT !.at = "key_used"]
  <2>1. xreq[h] \in KeyCheck /\ xreq[h].key \notin xreq[h].dead /\ keys[xreq[h].key] \in ApiKeyRecord
    BY <1>2, <1>3 DEF ReadAccount
  <2>2. r \in KeyCheck /\ r.key = xreq[h].key /\ r.dead = xreq[h].dead
    BY <2>1 DEF KeyCheck
  <2>3. RequestOK(Free) /\ RequestOK(r)
    BY <2>1, <2>2 DEF RequestOK
  <2>4. UNCHANGED OnlyRequest /\ (xreq' = [xreq EXCEPT ![h] = r] \/ xreq' = [xreq EXCEPT ![h] = Free])
    BY <1>3 DEF ReadAccount, Resume
  <2> HIDE DEF r
  <2>. QED BY <2>3, <2>4, RequestStep
<1>4. CASE GrantKey(h)
  <2> DEFINE k == xreq[h].key
             r == [at |-> "granted", key |-> k, dead |-> xreq[h].dead,
                   scopes |-> EffectiveScopes(k), products |-> EffectiveProducts(k),
                   suspended |-> {p \in Products : entitlements[p] = "suspended"}]
  <2>1. xreq[h] \in KeyCheck /\ xreq[h].key \notin xreq[h].dead
    BY <1>2, <1>4 DEF GrantKey
  <2>2. k \in DOMAIN ApiKeys /\ xreq[h].dead \subseteq DOMAIN ApiKeys
    BY <2>1 DEF KeyCheck
  <2>3. EffectiveScopes(k) \subseteq UNION {ApiKeys[q].scopes : q \in DOMAIN ApiKeys}
    BY <2>2 DEF EffectiveScopes
  <2>4. EffectiveProducts(k) \subseteq Products
    BY DEF EffectiveProducts
  <2>5. r \in KeyGrant /\ r.key = k /\ r.dead = xreq[h].dead
    BY <2>2, <2>3, <2>4 DEF KeyGrant
  <2>6. UNCHANGED OnlyRequest /\ (xreq' = [xreq EXCEPT ![h] = r] \/ xreq' = [xreq EXCEPT ![h] = Free])
    BY <1>4 DEF GrantKey, Resume
  <2> HIDE DEF r
  <2>7. RequestOK(Free) /\ RequestOK(r)
    BY <2>1, <2>5 DEF RequestOK
  <2>. QED BY <2>6, <2>7, RequestStep
<1>. QED BY <1>1, <1>3, <1>4

LEMMA SessionRequestSteps ==
  ASSUME AccessInv, NEW h \in HttpRequests,
         \/ \E s \in Sessions : authenticate_session(h, s)
         \/ GrantSession(h) \/ RequestEnds(h)
  PROVE  AccessInv'
<1>1. ASSUME NEW s \in Sessions, authenticate_session(h, s) PROVE AccessInv'
  <2> DEFINE r(at) == [at |-> at, session |-> s, now |-> xclock, read |-> sessions[s]]
  <2>1. /\ sessions[s] \in InteractiveSession /\ xclock < sessions[s].expires
        /\ sessions[s].expires = expiry[s] /\ xclock \in Nat
    BY <1>1 DEF authenticate_session, SessionLive, AccessInv, AccessTypeOK, InteractiveSession
  <2>2. ASSUME NEW at \in {"session_used", "user"} PROVE RequestOK(r(at))
    <3>1. r(at) \in SessionCheck
      BY <2>1 DEF SessionCheck
    <3>. QED BY <2>1, <3>1 DEF RequestOK
  <2>3. UNCHANGED OnlyRequest /\ \E at \in {"session_used", "user"} : xreq' = [xreq EXCEPT ![h] = r(at)]
    BY <1>1 DEF authenticate_session, Resume
  <2> HIDE DEF r
  <2>. QED BY <2>2, <2>3, RequestStep
<1>2. CASE GrantSession(h)
  <2> DEFINE r == [at |-> "granted", session |-> xreq[h].session, now |-> xreq[h].now]
  <2>1. /\ xreq[h] \in SessionCheck /\ xreq[h].read.expires = expiry[xreq[h].session]
        /\ xreq[h].now < xreq[h].read.expires
    BY <1>2 DEF GrantSession, AccessInv, RequestOK, Free, KeyCheck, KeyGrant, SessionGrant
  <2>2. r \in SessionGrant /\ r.now < expiry[r.session]
    BY <2>1 DEF SessionCheck, SessionGrant
  <2>3. UNCHANGED OnlyRequest /\ (xreq' = [xreq EXCEPT ![h] = r] \/ xreq' = [xreq EXCEPT ![h] = Free])
    BY <1>2 DEF GrantSession, Resume
  <2> HIDE DEF r
  <2>4. RequestOK(Free) /\ RequestOK(r)
    BY <2>2 DEF RequestOK
  <2>. QED BY <2>3, <2>4, RequestStep
<1>3. CASE RequestEnds(h)
  <2>1. RequestOK(Free)
    BY DEF RequestOK
  <2>. QED BY <1>3, <2>1, RequestStep DEF RequestEnds, Resume
<1>. QED BY <1>1, <1>2, <1>3

\* The steps that write a key's record.
LEMMA KeySteps ==
  ASSUME AccessInv,
         \/ \E k \in DOMAIN ApiKeys : create_api_key(k) \/ revoke_api_key(k)
         \/ \E h \in HttpRequests : record_api_key_used(h)
  PROVE  AccessInv'
<1>1. ASSUME NEW k \in DOMAIN ApiKeys, create_api_key(k) PROVE AccessInv'
  <2> DEFINE new == [revoked |-> FALSE, last_used |-> -1]
  <2>1. new \in ApiKeyRecord
    BY DEF ApiKeyRecord
  <2>2. /\ keys' = [keys EXCEPT ![k] = new] /\ keys[k] = Missing
        /\ UNCHANGED <<xclock, serviceAccount, entitlements, user, sessions, xreq, revokedEver, expiry>>
    BY <1>1 DEF create_api_key, historyVars
  <2> HIDE DEF new
  <2>3. AccessTypeOK'
    BY <2>1, <2>2 DEF AccessInv, AccessTypeOK
  <2>4. Missing \notin ApiKeyRecord
    BY DEF Missing, ApiKeyRecord
  <2>5. k \notin revokedEver
    BY <2>2, <2>4 DEF AccessInv
  <2>6. /\ \A q \in DOMAIN ApiKeys : keys[q] \in ApiKeyRecord => keys'[q] = keys[q]
    BY <2>2, <2>4 DEF AccessInv, AccessTypeOK
  <2>7. \A h \in HttpRequests : RequestOK(xreq[h])'
    BY <2>2, <2>6, RequestStable DEF AccessInv
  <2>. QED BY <2>2, <2>3, <2>6, <2>7 DEF AccessInv
<1>2. ASSUME NEW k \in DOMAIN ApiKeys, revoke_api_key(k) PROVE AccessInv'
  <2> DEFINE new == [keys[k] EXCEPT !.revoked = TRUE]
  <2>1. keys[k] \in ApiKeyRecord
    BY <1>2 DEF revoke_api_key, AccessInv, AccessTypeOK
  <2>2. new \in ApiKeyRecord /\ new.revoked
    BY <2>1 DEF ApiKeyRecord
  <2>3. /\ keys' = [keys EXCEPT ![k] = new] /\ revokedEver' = revokedEver \cup {k}
        /\ UNCHANGED <<xclock, serviceAccount, entitlements, user, sessions, xreq, expiry>>
    BY <1>2 DEF revoke_api_key
  <2> HIDE DEF new
  <2>4. AccessTypeOK'
    BY <2>2, <2>3 DEF AccessInv, AccessTypeOK
  <2>5. keys'[k] = new /\ \A q \in DOMAIN ApiKeys : q # k => keys'[q] = keys[q]
    BY <2>3 DEF AccessInv, AccessTypeOK
  <2>6. \A h \in HttpRequests : RequestOK(xreq[h])'
    BY <2>2, <2>3, <2>5, RequestStable DEF AccessInv
  <2>. QED BY <2>2, <2>3, <2>4, <2>5, <2>6 DEF AccessInv
<1>3. ASSUME NEW h \in HttpRequests, record_api_key_used(h) PROVE AccessInv'
  <2> DEFINE k == xreq[h].key
             new == [keys[k] EXCEPT !.last_used = xreq[h].now]
             r == [xreq[h] EXCEPT !.at = "entitlements"]
  <2>1. /\ xreq[h] \in KeyCheck /\ xreq[h].key \notin xreq[h].dead /\ keys[k] \in ApiKeyRecord
    BY <1>3 DEF record_api_key_used, AccessInv, RequestOK, Free, KeyGrant, SessionCheck, SessionGrant
  <2>2. /\ new \in ApiKeyRecord /\ new.revoked = keys[k].revoked
        /\ k \in DOMAIN ApiKeys
    BY <2>1 DEF ApiKeyRecord, KeyCheck
  <2>3. r \in KeyCheck /\ r.key = k /\ r.dead = xreq[h].dead
    BY <2>1 DEF KeyCheck
  <2>4. /\ keys' = [keys EXCEPT ![k] = new] /\ xreq' = [xreq EXCEPT ![h] = r]
        /\ UNCHANGED <<xclock, serviceAccount, entitlements, user, sessions, revokedEver, expiry>>
    BY <1>3 DEF record_api_key_used, KeyUsed, Resume, historyVars
  <2> HIDE DEF new, r, k
  <2>a. PICK q : q = r
    OBVIOUS
  <2>5. AccessTypeOK'
    BY <2>2, <2>4 DEF AccessInv, AccessTypeOK
  <2>6. keys'[k] = new /\ \A j \in DOMAIN ApiKeys : j # k => keys'[j] = keys[j]
    BY <2>2, <2>4 DEF AccessInv, AccessTypeOK
  <2>7. RequestOK(q)'
    <3>1. q \in KeyCheck /\ q.key = k /\ q.key \notin q.dead
      BY <2>1, <2>3, <2>a DEF k
    <3>. QED BY <2>2, <2>6, <3>1 DEF RequestOK
  <2>8. \A g \in HttpRequests : RequestOK(xreq[g])'
    <3>1. \A g \in HttpRequests : RequestOK(xreq[g])
      BY DEF AccessInv
    <3>2. ASSUME NEW o, RequestOK(o) PROVE RequestOK(o)'
      BY <2>2, <2>4, <2>6, <3>2, RequestStable DEF AccessInv
    <3>. QED BY <2>4, <2>7, <2>a, <3>1, <3>2 DEF AccessInv
  <2>. QED BY <2>2, <2>4, <2>5, <2>6, <2>8 DEF AccessInv
<1>. QED BY <1>1, <1>2, <1>3

\* The steps that write a session's record.
LEMMA SessionSteps ==
  ASSUME AccessInv,
         \/ \E s \in Sessions : issue_session(s)
         \/ purge_expired_sessions
         \/ \E h \in HttpRequests : PutSession(h)
  PROVE  AccessInv'
<1>1. ASSUME NEW s \in Sessions, issue_session(s) PROVE AccessInv'
  <2> DEFINE new == [expires |-> xclock + SessionTtl, last_used |-> -1]
  <2>1. new \in InteractiveSession /\ new.expires = xclock + SessionTtl /\ new.expires \in Nat
    BY AccessAssumption DEF InteractiveSession, AccessInv
  <2>2. /\ sessions' = [sessions EXCEPT ![s] = new] /\ expiry' = [expiry EXCEPT ![s] = new.expires]
        /\ expiry[s] = 0
        /\ UNCHANGED <<xclock, serviceAccount, entitlements, user, keys, xreq, revokedEver>>
    BY <1>1 DEF issue_session
  <2> HIDE DEF new
  <2>3. AccessTypeOK' /\ expiry' \in [Sessions -> Nat]
    BY <2>1, <2>2 DEF AccessInv, AccessTypeOK
  <2>4. \A q \in Sessions : sessions'[q] # Missing => sessions'[q].expires = expiry'[q]
    BY <2>1, <2>2 DEF AccessInv, AccessTypeOK
  <2>5. \A h \in HttpRequests : RequestOK(xreq[h])'
    BY <2>2, RequestStable DEF AccessInv
  <2>. QED BY <2>2, <2>3, <2>4, <2>5 DEF AccessInv
<1>2. CASE purge_expired_sessions
  <2>1. UNCHANGED <<xclock, serviceAccount, entitlements, user, keys, xreq, revokedEver, expiry>>
    BY <1>2 DEF purge_expired_sessions, historyVars
  <2>2. /\ \A s \in Sessions : sessions'[s] = sessions[s] \/ sessions'[s] = Missing
        /\ sessions' \in [Sessions -> InteractiveSession \cup {Missing}]
    BY <1>2 DEF purge_expired_sessions, AccessInv, AccessTypeOK
  <2>3. AccessTypeOK'
    BY <2>1, <2>2 DEF AccessInv, AccessTypeOK
  <2>4. \A h \in HttpRequests : RequestOK(xreq[h])'
    BY <2>1, RequestStable DEF AccessInv
  <2>. QED BY <2>1, <2>2, <2>3, <2>4 DEF AccessInv
<1>3. ASSUME NEW h \in HttpRequests, PutSession(h) PROVE AccessInv'
  <2> DEFINE s == xreq[h].session
             new == [xreq[h].read EXCEPT !.last_used = xreq[h].now]
             r == [xreq[h] EXCEPT !.at = "user"]
  <2>1. /\ xreq[h] \in SessionCheck /\ xreq[h].read.expires = expiry[s]
        /\ xreq[h].now < xreq[h].read.expires
    BY <1>3 DEF PutSession, AccessInv, RequestOK, Free, KeyCheck, KeyGrant, SessionGrant
  <2>2. new \in InteractiveSession /\ new.expires = expiry[s] /\ s \in Sessions
    BY <2>1 DEF InteractiveSession, SessionCheck
  <2>3. r \in SessionCheck /\ r.session = s /\ r.now = xreq[h].now /\ r.read = xreq[h].read
    BY <2>1 DEF SessionCheck
  <2>4. /\ sessions' = [sessions EXCEPT ![s] = new] /\ xreq' = [xreq EXCEPT ![h] = r]
        /\ UNCHANGED <<xclock, serviceAccount, entitlements, user, keys, revokedEver, expiry>>
    BY <1>3 DEF PutSession, Resume, historyVars
  <2>a. PICK q : q = r
    OBVIOUS
  <2>5. RequestOK(q)'
    <3>1. q \in SessionCheck /\ q.session = s /\ q.now = xreq[h].now /\ q.read = xreq[h].read
      BY <2>3, <2>a
    <3>. QED BY <2>1, <2>4, <3>1 DEF RequestOK
  <2> HIDE DEF new, r, s
  <2>6. AccessTypeOK'
    BY <2>2, <2>4 DEF AccessInv, AccessTypeOK
  <2>7. \A j \in Sessions : sessions'[j] # Missing => sessions'[j].expires = expiry'[j]
    BY <2>2, <2>4 DEF AccessInv, AccessTypeOK
  <2>8. \A g \in HttpRequests : RequestOK(xreq[g])'
    <3>1. \A g \in HttpRequests : RequestOK(xreq[g])
      BY DEF AccessInv
    <3>2. ASSUME NEW o, RequestOK(o) PROVE RequestOK(o)'
      BY <2>4, <3>2, RequestStable DEF AccessInv
    <3>. QED BY <2>4, <2>5, <2>a, <3>1, <3>2 DEF AccessInv
  <2>. QED BY <2>4, <2>6, <2>7, <2>8 DEF AccessInv
<1>. QED BY <1>1, <1>2, <1>3

\* The steps that write neither a key, a session nor a request.
LEMMA OtherRecordSteps ==
  ASSUME AccessInv, UNCHANGED <<keys, sessions, xreq, revokedEver, expiry>>,
         AccessTypeOK', xclock' \in Nat
  PROVE  AccessInv'
<1>1. \A h \in HttpRequests : RequestOK(xreq[h])'
  BY RequestStable DEF AccessInv
<1>. QED BY <1>1 DEF AccessInv

LEMMA PrincipalType ==
  ASSUME NEW d \in BOOLEAN PROVE [disabled |-> d] \in Principal
<1>1. CASE d = TRUE
  BY <1>1 DEF Principal
<1>2. CASE d = FALSE
  BY <1>2 DEF Principal
<1>. QED BY <1>1, <1>2

LEMMA AccessInvStep == AccessInv /\ [AccessNext]_accessVars => AccessInv'
<1> SUFFICES ASSUME AccessInv, [AccessNext]_accessVars PROVE AccessInv'
  OBVIOUS
<1> USE DEF historyVars, bootVars
<1>1. ASSUME BootstrapNext PROVE AccessInv'
  <2>1. UNCHANGED <<xclock, serviceAccount, keys, entitlements, user, sessions, xreq, historyVars>>
    BY <1>1 DEF BootstrapNext, BootstrapList, BootstrapCreate
  <2>2. AccessTypeOK' /\ xclock' \in Nat
    BY <2>1 DEF AccessInv, AccessTypeOK
  <2>. QED BY <2>1, <2>2, OtherRecordSteps
<1>2. ASSUME AccessTick PROVE AccessInv'
  BY <1>2, OtherRecordSteps DEF AccessTick, AccessInv, AccessTypeOK
<1>3. ASSUME create_service_account \/ \E d \in BOOLEAN : set_service_account_disabled(d)
      PROVE  AccessInv'
  <2>1. serviceAccount' \in Principal
    <3>1. \E d \in BOOLEAN : serviceAccount' = [disabled |-> d]
      BY <1>3, Zenon DEF create_service_account, set_service_account_disabled
    <3>. QED BY <3>1, PrincipalType, Zenon
  <2>2. UNCHANGED <<xclock, keys, entitlements, user, sessions, xreq, historyVars>>
    BY <1>3 DEF create_service_account, set_service_account_disabled
  <2>3. AccessTypeOK' /\ xclock' \in Nat
    BY <2>1, <2>2 DEF AccessInv, AccessTypeOK
  <2>. QED BY <2>2, <2>3, OtherRecordSteps
<1>4. ASSUME NEW p \in Products,
             create_product_entitlement(p)
             \/ \E s \in {"active", "suspended"} : update_product_entitlement(p, s)
      PROVE  AccessInv'
  BY <1>4, OtherRecordSteps
     DEF create_product_entitlement, update_product_entitlement, AccessInv, AccessTypeOK
<1>5. ASSUME create_user \/ \E d \in BOOLEAN : set_user_disabled(d) PROVE AccessInv'
  <2>1. user' \in Principal
    <3>1. \E d \in BOOLEAN : user' = [disabled |-> d]
      BY <1>5, Zenon DEF create_user, set_user_disabled
    <3>. QED BY <3>1, PrincipalType, Zenon
  <2>2. UNCHANGED <<xclock, keys, entitlements, serviceAccount, sessions, xreq, historyVars>>
    BY <1>5 DEF create_user, set_user_disabled
  <2>3. AccessTypeOK' /\ xclock' \in Nat
    BY <2>1, <2>2 DEF AccessInv, AccessTypeOK
  <2>. QED BY <2>2, <2>3, OtherRecordSteps
<1>6. CASE UNCHANGED accessVars
  BY <1>6, OtherRecordSteps DEF accessVars, AccessInv, AccessTypeOK
<1>. QED
  BY <1>1, <1>2, <1>3, <1>4, <1>5, <1>6, KeySteps, SessionSteps, KeyRequestSteps,
     SessionRequestSteps DEF AccessNext

\* However many requests authenticate at once, a key revoked before a request
\* started does not authenticate it (record_api_key_used never writes an old
\* record back over the revocation), and a session is not accepted once expired,
\* though authenticate_session may put back one the purge has deleted.
THEOREM CredentialsSafe == AccessSpec => []CredentialsRespected
<1>1. ASSUME AccessInv PROVE CredentialsRespected
  <2>1. ASSUME NEW h \in HttpRequests PROVE GrantedByKey(h) => xreq[h].key \notin xreq[h].dead
    BY <1>1 DEF GrantedByKey, AccessInv, RequestOK, Free, KeyCheck, SessionCheck, SessionGrant
  <2>2. ASSUME NEW h \in HttpRequests
        PROVE  GrantedBySession(h) => xreq[h].now < expiry[xreq[h].session]
    BY <1>1 DEF GrantedBySession, AccessInv, RequestOK, Free, KeyCheck, KeyGrant, SessionCheck
  <2>. QED BY <1>1, <2>1, <2>2 DEF AccessInv, CredentialsRespected
<1>. QED BY <1>1, AccessInvInit, AccessInvStep, PTL DEF AccessSpec

-----------------------------------------------------------------------------
(* Quota.  A store is opened with a row that is within the limit; PostgreSQL *)
(* locks nothing when the row is missing, so there the row has to exist.     *)
(* Without that hypothesis the limit can be overshot (run quota_overshoot).  *)

CountedStart(q) ==
    /\ q.row \in QuotaUsage => q.row.used <= QuotaLimit
    /\ q.backend = "postgres" => q.row \in QuotaUsage

\* The inductive invariant of the quota: the row is what was granted, and a
\* transaction between its SELECT and its write holds the row's lock and has
\* read the row as it is.
QuotaInv ==
    /\ bclock \in Nat
    /\ DOMAIN breq = Callers
    /\ granted = quotaRow
    /\ quotaRow \in QuotaUsage \cup {NoRow}
    /\ quotaRow \in QuotaUsage => quotaRow.used <= QuotaLimit
    /\ quotaBackend = "postgres" => quotaRow \in QuotaUsage
    /\ \A c \in Callers : breq[c].at = "quota" =>
          /\ quotaBackend = "postgres" /\ quotaLock = {c}
          /\ breq[c].read = quotaRow /\ breq[c].amount \in Amounts

LEMMA QuotaInvInit ==
  ASSUME \A q \in QuotaStarts : CountedStart(q), BillingInit
  PROVE  QuotaInv
BY BillingAssumption DEF BillingInit, QuotaInv, CountedStart, Idle, QuotaUsage

LEMMA NoRowIsNoRecord == NoRow \notin QuotaUsage
BY DEF NoRow, QuotaUsage

\* What an allowed adjustment of a row makes of it.
LEMMA AdjustedWithin ==
  ASSUME QuotaInv, NEW a \in Amounts, Allows(quotaRow, a)
  PROVE  Adjusted(quotaRow, a) \in QuotaUsage /\ Adjusted(quotaRow, a).used <= QuotaLimit
<1>1. WindowOf(quotaRow) \in QuotaUsage
  BY DEF WindowOf, InWindow, QuotaInv, QuotaUsage, Now
<1>2. a \in Nat /\ QuotaLimit \in Nat
  BY BillingAssumption
<1> DEFINE w == WindowOf(quotaRow)
<1>3. w \in QuotaUsage /\ w.used + a <= QuotaLimit
  BY <1>1 DEF Allows
<1> HIDE DEF w
<1>4. [w EXCEPT !.used = @ + a] \in QuotaUsage /\ [w EXCEPT !.used = @ + a].used <= QuotaLimit
  BY <1>2, <1>3 DEF QuotaUsage
<1>. QED BY <1>4 DEF Adjusted, w

\* The requests that are not of the quota leave its part of the state alone.
LEMMA OtherRequestSteps ==
  ASSUME QuotaInv, UNCHANGED <<quotaBackend, quotaRow, quotaLock, granted>>, bclock' \in Nat,
         \/ UNCHANGED breq
         \/ \E c \in Callers : \E r : r.at # "quota" /\ breq' = [breq EXCEPT ![c] = r]
  PROVE  QuotaInv'
BY DEF QuotaInv

LEMMA QuotaInvStep == QuotaInv /\ [BillingNext]_billingVars => QuotaInv'
<1> SUFFICES ASSUME QuotaInv, [BillingNext]_billingVars PROVE QuotaInv'
  OBVIOUS
<1>1. CASE create_billing_account
  BY <1>1, OtherRequestSteps DEF create_billing_account, QuotaInv
<1>2. CASE BillingTick
  BY <1>2, OtherRequestSteps DEF BillingTick, QuotaInv
<1>3. ASSUME NEW c \in Callers, NEW k \in Keys, NEW a \in Amounts, record_meter_event(c, k, a)
      PROVE  QuotaInv'
  BY <1>3, OtherRequestSteps DEF record_meter_event, Start, OnlyRequests, QuotaInv
<1>4. ASSUME NEW c \in Callers, SaveMeterEvent(c) PROVE QuotaInv'
  BY <1>4, OtherRequestSteps DEF SaveMeterEvent, Start, QuotaInv
<1>5. ASSUME NEW c \in Callers, ReadUsage(c) PROVE QuotaInv'
  BY <1>5, OtherRequestSteps DEF ReadUsage, Start, OnlyRequests, QuotaInv
<1>6. ASSUME NEW c \in Callers, SaveUsage(c) PROVE QuotaInv'
  BY <1>6, OtherRequestSteps DEF SaveUsage, Finish, Idle, QuotaInv
<1>7. ASSUME NEW c \in Callers, NEW u \in Users, assign_billing_seat(c, u) PROVE QuotaInv'
  BY <1>7, OtherRequestSteps DEF assign_billing_seat, Start, OnlyRequests, QuotaInv
<1>8. ASSUME NEW c \in Callers, SaveSeat(c) PROVE QuotaInv'
  BY <1>8, OtherRequestSteps DEF SaveSeat, Finish, Idle, QuotaInv
<1>9. ASSUME NEW c \in Callers, NEW a \in Amounts, MemoryAdjustQuota(c, a) PROVE QuotaInv'
  <2>1. quotaRow' = Adjusted(quotaRow, a) /\ granted' = quotaRow' /\ quotaBackend = "memory"
    BY <1>9 DEF MemoryAdjustQuota, Grant, Adjusted, QuotaInv
  <2>2. quotaRow' \in QuotaUsage /\ quotaRow'.used <= QuotaLimit
    BY <1>9, <2>1, AdjustedWithin DEF MemoryAdjustQuota
  <2>. QED BY <1>9, <2>1, <2>2 DEF MemoryAdjustQuota, QuotaInv
<1>10. ASSUME NEW c \in Callers, NEW a \in Amounts, SelectQuota(c, a) PROVE QuotaInv'
  <2> DEFINE r == [at |-> "quota", amount |-> a, read |-> quotaRow]
  <2>1. /\ quotaBackend = "postgres" /\ quotaLock = {} /\ quotaLock' = {c}
        /\ breq' = [breq EXCEPT ![c] = r]
        /\ UNCHANGED <<bclock, quotaBackend, quotaRow, granted>>
    BY <1>10, NoRowIsNoRecord DEF SelectQuota, Start, QuotaInv
  <2>2. \A d \in Callers \ {c} : breq[d].at # "quota"
    BY <2>1 DEF QuotaInv
  <2>3. r.read = quotaRow /\ r.amount = a
    OBVIOUS
  <2> HIDE DEF r
  <2>. QED BY <2>1, <2>2, <2>3 DEF QuotaInv
<1>11. ASSUME NEW c \in Callers, WriteQuota(c) PROVE QuotaInv'
  <2> DEFINE a == breq[c].amount
  <2>1. quotaBackend = "postgres" /\ quotaLock = {c} /\ breq[c].read = quotaRow /\ a \in Amounts
    BY <1>11 DEF WriteQuota, QuotaInv
  <2>2. \A d \in Callers \ {c} : breq[d].at # "quota"
    BY <2>1 DEF QuotaInv
  <2>3. /\ IF Allows(quotaRow, a) THEN quotaRow' = Adjusted(quotaRow, a) /\ granted' = quotaRow'
           ELSE UNCHANGED <<quotaRow, granted>>
        /\ breq' = [breq EXCEPT ![c] = Idle] /\ UNCHANGED <<bclock, quotaBackend>>
    BY <1>11, <2>1 DEF WriteQuota, Grant, Adjusted, QuotaInv, Finish
  <2> HIDE DEF a
  <2>4. /\ quotaRow' \in QuotaUsage /\ quotaRow'.used <= QuotaLimit /\ granted' = quotaRow'
    BY <2>1, <2>3, AdjustedWithin DEF QuotaInv
  <2>. QED BY <2>2, <2>3, <2>4 DEF QuotaInv, Idle
<1>12. ASSUME NEW c \in Callers, AbortRequest(c) PROVE QuotaInv'
  BY <1>12 DEF AbortRequest, Finish, Idle, QuotaInv
<1>13. CASE UNCHANGED billingVars
  BY <1>13, OtherRequestSteps DEF billingVars, QuotaInv
<1>. QED
  BY <1>1, <1>2, <1>3, <1>4, <1>5, <1>6, <1>7, <1>8, <1>9, <1>10, <1>11, <1>12, <1>13 DEF BillingNext

\* Within one window adjust_quota_usage never allows more than the limit, however
\* callers overlap: in the memory store always, in PostgreSQL once the metric has
\* its row, since SELECT ... FOR UPDATE then locks it.
THEOREM QuotaHolds ==
  ASSUME \A q \in QuotaStarts : CountedStart(q)
  PROVE  BillingSpec => []QuotaNeverOvershoots
<1>1. QuotaInv => QuotaNeverOvershoots
  BY DEF QuotaInv, QuotaNeverOvershoots
<1>2. BillingInit => QuotaInv
  BY QuotaInvInit
<1>. QED BY <1>1, <1>2, QuotaInvStep, PTL DEF BillingSpec

-----------------------------------------------------------------------------
(* Metering.  A lost update only undercounts: the amounts of the requests    *)
(* that have stored their event and not yet their usage are kept apart       *)
(* (FlyingUnits), and the usage row, like every copy of it a request has     *)
(* read, leaves room for all of them.                                        *)

\* What a request holds.
BillingRequestOK(r) ==
    /\ r.at = "meter" =>
          /\ r.key \in Keys /\ r.amount \in Amounts /\ account \in BillingAccount
    /\ r.at \in {"usage", "put_usage"} =>
          r.amount \in Amounts /\ r.now \in Nat /\ account \in BillingAccount
    /\ r.at = "put_usage" => r.read \in BillingUsage \cup {NoRow}
    /\ r.at = "seat" => r.user \in Users
    /\ r.at = "quota" => r.amount \in Amounts /\ r.read \in QuotaUsage \cup {NoRow}

\* Type correctness of the records and of the requests in flight.
BillingTypes ==
    /\ BillingTypeOK
    /\ bclock \in Nat
    /\ DOMAIN breq = Callers
    /\ \A c \in Callers : BillingRequestOK(breq[c])

LEMMA BillingTypesInit == BillingInit => BillingTypes
<1> SUFFICES ASSUME BillingInit PROVE BillingTypes
  OBVIOUS
<1>1. BillingTypeOK
  BY BillingAssumption DEF BillingInit, BillingTypeOK, QuotaUsage
<1>2. \A c \in Callers : BillingRequestOK(breq[c])
  BY DEF BillingInit, BillingRequestOK, Idle
<1>. QED BY <1>1, <1>2 DEF BillingInit, BillingTypes

\* A step of one caller, whose request becomes r.
LEMMA BillingTypesCaller ==
  ASSUME BillingTypes, NEW c \in Callers, NEW r, breq' = [breq EXCEPT ![c] = r],
         BillingRequestOK(r)', BillingTypeOK', bclock' \in Nat,
         account \in BillingAccount => account' \in BillingAccount
  PROVE  BillingTypes'
<1>1. ASSUME NEW d \in Callers, NEW q, d # c, BillingRequestOK(q) PROVE BillingRequestOK(q)'
  BY <1>1 DEF BillingRequestOK
<1>2. \A d \in Callers : BillingRequestOK(breq[d])'
  BY <1>1 DEF BillingTypes
<1>. QED BY <1>2 DEF BillingTypes

\* The row that an adjustment writes is one.
LEMMA AdjustedType ==
  ASSUME NEW row \in QuotaUsage \cup {NoRow}, NEW a \in Amounts, bclock \in Nat
  PROVE  Adjusted(row, a) \in QuotaUsage
<1>1. WindowOf(row) \in QuotaUsage
  BY DEF WindowOf, InWindow, QuotaUsage, Now
<1>2. a \in Nat
  BY BillingAssumption
<1> DEFINE w == WindowOf(row)
<1> HIDE DEF w
<1>3. w \in QuotaUsage => [w EXCEPT !.used = @ + a] \in QuotaUsage
  BY <1>2 DEF QuotaUsage
<1>. QED BY <1>1, <1>3 DEF Adjusted, w

\* The usage row that a request saves.
LEMMA SavedUsage ==
  ASSUME BillingTypes, NEW c \in Callers, SaveUsage(c)
  PROVE  /\ usage' \in BillingUsage
         /\ usage'.amount = CarriedUsage(breq[c].read, breq[c].now) + breq[c].amount
         /\ CarriedUsage(breq[c].read, breq[c].now) \in Nat
         /\ Counted(breq[c].read) - CarriedUsage(breq[c].read, breq[c].now) \in Nat
<1> DEFINE r == breq[c]
<1>1. /\ r.amount \in Nat /\ r.now \in Nat /\ account \in BillingAccount
      /\ r.read \in BillingUsage \cup {NoRow}
  BY BillingAssumption DEF SaveUsage, BillingTypes, BillingRequestOK
<1>2. CarriedUsage(r.read, r.now) \in Nat /\ Counted(r.read) - CarriedUsage(r.read, r.now) \in Nat
  BY <1>1 DEF CarriedUsage, Counted, BillingUsage
<1>3. UsagePeriod(r.now).started \in Nat /\ UsagePeriod(r.now).ends \in Nat
  BY <1>1, BillingAssumption DEF UsagePeriod, BillingAccount
<1>4. usage' = [amount |-> CarriedUsage(r.read, r.now) + r.amount,
                started |-> UsagePeriod(r.now).started, ends |-> UsagePeriod(r.now).ends]
  BY DEF SaveUsage
<1> HIDE DEF r
<1>. QED BY <1>1, <1>2, <1>3, <1>4 DEF BillingUsage, r

LEMMA BillingTypesStep == BillingTypes /\ [BillingNext]_billingVars => BillingTypes'
<1> SUFFICES ASSUME BillingTypes, [BillingNext]_billingVars PROVE BillingTypes'
  OBVIOUS
<1> USE DEF Start, Finish, OnlyRequests, meterHistory
<1>1. CASE create_billing_account
  <2>1. account' \in BillingAccount
    BY <1>1, BillingAssumption DEF create_billing_account, BillingAccount, Now, BillingTypes
  <2>2. BillingTypeOK'
    BY <1>1, <2>1 DEF create_billing_account, BillingTypes, BillingTypeOK
  <2>. QED BY <1>1, <2>1, <2>2 DEF create_billing_account, BillingTypes, BillingRequestOK
<1>2. CASE BillingTick
  BY <1>2 DEF BillingTick, BillingTypes, BillingTypeOK, BillingRequestOK
<1>3. ASSUME NEW c \in Callers, NEW k \in Keys, NEW a \in Amounts, record_meter_event(c, k, a)
      PROVE  BillingTypes'
  <2>1. account \in BillingAccount
    BY <1>3 DEF record_meter_event, BillingTypes, BillingTypeOK
  <2>2. BillingRequestOK([at |-> "meter", key |-> k, amount |-> a])'
    BY <1>3, <2>1 DEF record_meter_event, BillingRequestOK
  <2>3. BillingTypeOK' /\ bclock' \in Nat
    BY <1>3 DEF record_meter_event, BillingTypes, BillingTypeOK, Metering
  <2>. QED BY <1>3, <2>2, <2>3, BillingTypesCaller DEF record_meter_event
<1>4. ASSUME NEW c \in Callers, SaveMeterEvent(c) PROVE BillingTypes'
  <2>1. PICK r : r = breq[c]
    OBVIOUS
  <2>2. PICK now : now = bclock
    OBVIOUS
  <2>3. /\ r.at = "meter" /\ r.key \in Keys /\ r.amount \in Amounts
        /\ account \in BillingAccount /\ now \in Nat
    BY <1>4, <2>1, <2>2 DEF SaveMeterEvent, BillingTypes, BillingRequestOK
  <2>4. /\ meters' = [meters EXCEPT ![r.key] = [amount |-> r.amount, created_at |-> now]]
        /\ breq' = [breq EXCEPT ![c] = [at |-> "usage", amount |-> r.amount, now |-> now]]
        /\ again' = again + Counted(meters[r.key])
        /\ UNCHANGED <<bclock, account, usage, seats, quotaBackend, quotaRow, quotaLock, granted,
                       billed, calm>>
    BY <1>4, <2>1, <2>2 DEF SaveMeterEvent, Now
  <2>5. BillingRequestOK([at |-> "usage", amount |-> r.amount, now |-> now])'
    BY <2>3, <2>4 DEF BillingRequestOK
  <2>6. BillingTypeOK'
    <3>1. Counted(meters[r.key]) \in Nat
      BY <2>3, BillingAssumption DEF Counted, BillingTypes, BillingTypeOK, MeterEvent
    <3>. QED BY <2>3, <2>4, <3>1 DEF BillingTypes, BillingTypeOK, MeterEvent
  <2>. QED BY <2>2, <2>3, <2>4, <2>5, <2>6, BillingTypesCaller
<1>5. ASSUME NEW c \in Callers, ReadUsage(c) PROVE BillingTypes'
  <2>1. PICK r : r = [at |-> "put_usage", amount |-> breq[c].amount, now |-> breq[c].now, read |-> usage]
    OBVIOUS
  <2>2. /\ r.at = "put_usage" /\ r.amount \in Amounts /\ r.now \in Nat /\ account \in BillingAccount
        /\ r.read \in BillingUsage \cup {NoRow}
    BY <1>5, <2>1 DEF ReadUsage, BillingTypes, BillingTypeOK, BillingRequestOK
  <2>3. breq' = [breq EXCEPT ![c] = r] /\ UNCHANGED <<OnlyRequests, calm>>
    BY <1>5, <2>1 DEF ReadUsage
  <2>4. BillingRequestOK(r)'
    BY <2>2, <2>3 DEF BillingRequestOK
  <2>5. BillingTypeOK' /\ bclock' \in Nat
    BY <2>3 DEF BillingTypes, BillingTypeOK
  <2>. QED BY <2>3, <2>4, <2>5, BillingTypesCaller
<1>6. ASSUME NEW c \in Callers, SaveUsage(c) PROVE BillingTypes'
  <2>1. BillingRequestOK(Idle)'
    BY DEF BillingRequestOK, Idle
  <2>2. BillingTypeOK' /\ bclock' \in Nat
    <3>1. billed' \in Nat
      <4>1. PICK n \in Nat : n = Counted(breq[c].read) - CarriedUsage(breq[c].read, breq[c].now)
        BY <1>6, SavedUsage
      <4>2. billed' = billed + n /\ billed \in Nat
        BY <1>6, <4>1 DEF SaveUsage, BillingTypes, BillingTypeOK
      <4>. QED BY <4>2
    <3>2. usage' \in BillingUsage
      BY <1>6, SavedUsage
    <3>. QED BY <1>6, <3>1, <3>2 DEF SaveUsage, BillingTypes, BillingTypeOK
  <2>. QED BY <1>6, <2>1, <2>2, BillingTypesCaller DEF SaveUsage
<1>7. ASSUME NEW c \in Callers, NEW u \in Users, assign_billing_seat(c, u) PROVE BillingTypes'
  <2>1. BillingRequestOK([at |-> "seat", user |-> u])'
    BY DEF BillingRequestOK
  <2>2. BillingTypeOK' /\ bclock' \in Nat
    BY <1>7 DEF assign_billing_seat, BillingTypes, BillingTypeOK
  <2>. QED BY <1>7, <2>1, <2>2, BillingTypesCaller DEF assign_billing_seat
<1>8. ASSUME NEW c \in Callers, SaveSeat(c) PROVE BillingTypes'
  <2>1. BillingRequestOK(Idle)'
    BY DEF BillingRequestOK, Idle
  <2>2. breq[c].user \in Users
    BY <1>8 DEF SaveSeat, BillingTypes, BillingRequestOK
  <2>3. BillingTypeOK' /\ bclock' \in Nat
    BY <1>8, <2>2 DEF SaveSeat, BillingTypes, BillingTypeOK, SeatAssignment
  <2>. QED BY <1>8, <2>1, <2>3, BillingTypesCaller DEF SaveSeat
<1>9. ASSUME NEW c \in Callers, NEW a \in Amounts, MemoryAdjustQuota(c, a) PROVE BillingTypes'
  <2>1. quotaRow' \in QuotaUsage /\ granted' \in QuotaUsage
    BY <1>9, AdjustedType DEF MemoryAdjustQuota, Grant, Adjusted, BillingTypes, BillingTypeOK
  <2>. QED BY <1>9, <2>1 DEF MemoryAdjustQuota, BillingTypes, BillingTypeOK, BillingRequestOK
<1>10. ASSUME NEW c \in Callers, NEW a \in Amounts, SelectQuota(c, a) PROVE BillingTypes'
  <2>1. PICK row : row = quotaRow
    OBVIOUS
  <2>2. BillingRequestOK([at |-> "quota", amount |-> a, read |-> row])'
    BY <2>1 DEF BillingRequestOK, BillingTypes, BillingTypeOK
  <2>3. BillingTypeOK' /\ bclock' \in Nat
    BY <1>10 DEF SelectQuota, BillingTypes, BillingTypeOK
  <2>. QED BY <1>10, <2>1, <2>2, <2>3, BillingTypesCaller DEF SelectQuota
<1>11. ASSUME NEW c \in Callers, WriteQuota(c) PROVE BillingTypes'
  <2>1. BillingRequestOK(Idle)'
    BY DEF BillingRequestOK, Idle
  <2>2. breq[c].amount \in Amounts /\ breq[c].read \in QuotaUsage \cup {NoRow}
    BY <1>11 DEF WriteQuota, BillingTypes, BillingRequestOK
  <2>3. {quotaRow', granted'} \subseteq QuotaUsage \cup {NoRow}
    BY <1>11, <2>2, AdjustedType DEF WriteQuota, Grant, Adjusted, BillingTypes, BillingTypeOK
  <2>4. BillingTypeOK' /\ bclock' \in Nat
    BY <1>11, <2>3 DEF WriteQuota, BillingTypes, BillingTypeOK
  <2>. QED BY <1>11, <2>1, <2>4, BillingTypesCaller DEF WriteQuota
<1>12. ASSUME NEW c \in Callers, AbortRequest(c) PROVE BillingTypes'
  <2>1. BillingRequestOK(Idle)'
    BY DEF BillingRequestOK, Idle
  <2>2. BillingTypeOK' /\ bclock' \in Nat
    BY <1>12 DEF AbortRequest, BillingTypes, BillingTypeOK
  <2>. QED BY <1>12, <2>1, <2>2, BillingTypesCaller DEF AbortRequest
<1>13. CASE UNCHANGED billingVars
  BY <1>13 DEF billingVars, BillingTypes, BillingTypeOK, BillingRequestOK
<1>. QED
  BY <1>1, <1>2, <1>3, <1>4, <1>5, <1>6, <1>7, <1>8, <1>9, <1>10, <1>11, <1>12, <1>13 DEF BillingNext

\* The units of the requests that have stored their event and not their usage.
IsFlying(r) == r.at \in {"usage", "put_usage"}
FlyingUnits ==
    UNION {{c} \X (1..breq[c].amount) : c \in {x \in Callers : IsFlying(breq[x])}}
Flying == Cardinality(FlyingUnits)

\* The usage row, and every copy of it in flight, leaves room for the units that
\* are stored as events, or were until saved over, and not yet counted.
CountInv ==
    /\ IsFiniteSet(MeteredUnits) /\ IsFiniteSet(FlyingUnits)
    /\ Counted(usage) + Flying <= Metered + again
    /\ \A c \in Callers : breq[c].at = "put_usage" => Counted(breq[c].read) + Flying <= Metered + again

LEMMA AddUnits ==
  ASSUME NEW S, IsFiniteSet(S), NEW x, NEW n \in Nat, \A i \in 1..n : <<x, i>> \notin S
  PROVE  /\ IsFiniteSet(S \cup ({x} \X (1..n)))
         /\ Cardinality(S \cup ({x} \X (1..n))) = Cardinality(S) + n
         /\ Cardinality(S) \in Nat
<1> DEFINE T == {x} \X (1..n)
<1>1. IsFiniteSet({x}) /\ Cardinality({x}) = 1
  BY FS_Singleton
<1>2. IsFiniteSet(1..n) /\ Cardinality(1..n) = n
  BY FS_Interval
<1>3. IsFiniteSet(T) /\ Cardinality(T) = n
  <2>1. IsFiniteSet(T) /\ Cardinality(T) = Cardinality({x}) * Cardinality(1..n)
    BY <1>1, <1>2, FS_Product, Zenon
  <2>. QED BY <1>1, <1>2, <2>1
<1>4. S \cap T = {}
  OBVIOUS
<1>5. Cardinality(S \cap T) = 0
  BY <1>4, FS_EmptySet
<1>6. IsFiniteSet(S \cup T) /\ Cardinality(S \cup T) = Cardinality(S) + Cardinality(T) - Cardinality(S \cap T)
  BY <1>3, FS_Union
<1>7. Cardinality(S) \in Nat
  BY FS_CardinalityType
<1>. QED BY <1>3, <1>5, <1>6, <1>7

LEMMA CountInvInit == BillingInit => CountInv
<1> SUFFICES ASSUME BillingInit PROVE CountInv
  OBVIOUS
<1>1. MeteredUnits = {} /\ FlyingUnits = {}
  BY DEF BillingInit, MeteredUnits, FlyingUnits, IsFlying, Idle
<1>2. IsFiniteSet({}) /\ Cardinality({}) = 0
  BY FS_EmptySet
<1>. QED BY <1>1, <1>2 DEF BillingInit, CountInv, Counted, Flying, Metered, Idle

\* What a row counts is a number, and the sums are.
LEMMA CountedType ==
  ASSUME BillingTypes, CountInv
  PROVE  /\ Counted(usage) \in Nat /\ Metered \in Nat /\ again \in Nat /\ billed \in Nat
         /\ \A k \in Keys : Counted(meters[k]) \in Nat
         /\ \A c \in Callers : breq[c].at = "put_usage" => Counted(breq[c].read) \in Nat
<1>1. Metered \in Nat
  BY FS_CardinalityType DEF CountInv, Metered
<1>2. \A k \in Keys : Counted(meters[k]) \in Nat
  BY BillingAssumption DEF BillingTypes, BillingTypeOK, Counted, MeterEvent
<1>3. Counted(usage) \in Nat /\ again \in Nat /\ billed \in Nat
  BY DEF BillingTypes, BillingTypeOK, Counted, BillingUsage
<1>4. \A c \in Callers : breq[c].at = "put_usage" => Counted(breq[c].read) \in Nat
  BY DEF BillingTypes, BillingRequestOK, Counted, BillingUsage
<1>. QED BY <1>1, <1>2, <1>3, <1>4

\* One caller's request becomes r.  The units in flight gain those of r when it
\* is flying and lose those of the request it replaces.
LEMMA FlyingStep ==
  ASSUME BillingTypes, CountInv, NEW c \in Callers, NEW r, breq' = [breq EXCEPT ![c] = r],
         IsFlying(r) => r.amount \in Amounts
  PROVE  /\ IsFiniteSet(FlyingUnits') /\ Flying' \in Nat /\ Flying \in Nat
         /\ Flying' + (IF IsFlying(breq[c]) THEN breq[c].amount ELSE 0)
               = Flying + (IF IsFlying(r) THEN r.amount ELSE 0)
<1> DEFINE rest == UNION {{d} \X (1..breq[d].amount) : d \in {x \in Callers \ {c} : IsFlying(breq[x])}}
           old == {c} \X (1..breq[c].amount)
           new == {c} \X (1..r.amount)
<1>0. /\ IsFlying(breq[c]) => breq[c].amount \in Nat
      /\ IsFlying(r) => r.amount \in Nat
      /\ DOMAIN breq = Callers
  BY BillingAssumption DEF BillingTypes, BillingRequestOK, IsFlying
<1>1. FlyingUnits = rest \cup (IF IsFlying(breq[c]) THEN old ELSE {})
  BY DEF FlyingUnits
<1>2. FlyingUnits' = rest \cup (IF IsFlying(r) THEN new ELSE {})
  <2>1. \A d \in Callers : breq'[d] = IF d = c THEN r ELSE breq[d]
    BY <1>0
  <2>2. FlyingUnits' = UNION {{d} \X (1..breq'[d].amount) : d \in {x \in Callers : IsFlying(breq'[x])}}
    BY DEF FlyingUnits, IsFlying
  <2>. QED BY <2>1, <2>2
<1>3. \A i : <<c, i>> \notin rest
  OBVIOUS
<1>4. rest \subseteq FlyingUnits
  BY <1>1
<1> HIDE DEF rest
<1>5. IsFiniteSet(rest)
  BY <1>4, FS_Subset DEF CountInv
<1>6. Cardinality(rest) \in Nat
  BY <1>5, FS_CardinalityType
<1>7. Flying = Cardinality(rest) + (IF IsFlying(breq[c]) THEN breq[c].amount ELSE 0)
  <2>1. CASE IsFlying(breq[c])
    BY <1>0, <1>1, <1>3, <1>5, <2>1, AddUnits DEF Flying
  <2>2. CASE ~ IsFlying(breq[c])
    <3>1. FlyingUnits = rest
      BY <1>1, <2>2
    <3>. QED BY <3>1, <1>6, <2>2 DEF Flying
  <2>. QED BY <2>1, <2>2
<1>8. Flying' = Cardinality(rest) + (IF IsFlying(r) THEN r.amount ELSE 0) /\ IsFiniteSet(FlyingUnits')
  <2>1. CASE IsFlying(r)
    BY <1>0, <1>2, <1>3, <1>5, <2>1, AddUnits DEF Flying
  <2>2. CASE ~ IsFlying(r)
    <3>1. FlyingUnits' = rest
      BY <1>2, <2>2
    <3>. QED BY <3>1, <1>5, <1>6, <2>2 DEF Flying
  <2>. QED BY <2>1, <2>2
<1>. QED BY <1>0, <1>6, <1>7, <1>8

\* A step of caller c that stores no event and saves no usage.
LEMMA CountRequestStep ==
  ASSUME BillingTypes, CountInv, NEW c \in Callers, NEW r, breq' = [breq EXCEPT ![c] = r],
         UNCHANGED <<meters, usage, again>>,
         IsFlying(r) => IsFlying(breq[c]) /\ r.amount = breq[c].amount,
         r.at = "put_usage" => r.read = usage
  PROVE  CountInv'
<1>1. IsFlying(breq[c]) => breq[c].amount \in Amounts /\ breq[c].amount \in Nat
  BY BillingAssumption DEF IsFlying, BillingTypes, BillingRequestOK
<1>2. IsFiniteSet(FlyingUnits') /\ Flying' \in Nat /\ Flying \in Nat /\ Flying' <= Flying
  <2>1. /\ IsFiniteSet(FlyingUnits') /\ Flying' \in Nat /\ Flying \in Nat
        /\ Flying' + (IF IsFlying(breq[c]) THEN breq[c].amount ELSE 0)
               = Flying + (IF IsFlying(r) THEN r.amount ELSE 0)
    BY <1>1, FlyingStep
  <2>. QED BY <1>1, <2>1
<1>3. UNCHANGED <<MeteredUnits, Metered, again, Counted(usage)>>
  BY DEF MeteredUnits, Metered, Counted
<1>4. \A d \in Callers : breq'[d] = IF d = c THEN r ELSE breq[d]
  BY DEF BillingTypes
<1>5. ASSUME NEW d \in Callers, breq'[d].at = "put_usage"
      PROVE  Counted(breq'[d].read) + Flying' <= Metered' + again'
  BY <1>2, <1>3, <1>4, <1>5, CountedType DEF CountInv
<1>. QED BY <1>2, <1>3, <1>5, CountedType DEF CountInv, Counted

\* A step that is not of a caller's request.
LEMMA CountOtherStep ==
  ASSUME CountInv, UNCHANGED <<meters, usage, breq, again>>
  PROVE  CountInv'
BY DEF CountInv, MeteredUnits, Metered, FlyingUnits, Flying, Counted

\* An event saved adds its amount to the units, and to what was saved over when
\* its key was in use.
LEMMA MeteredStep ==
  ASSUME BillingTypes, CountInv, NEW c \in Callers, SaveMeterEvent(c)
  PROVE  /\ IsFiniteSet(MeteredUnits') /\ Metered' \in Nat
         /\ Metered' + Counted(meters[breq[c].key]) = Metered + breq[c].amount
         /\ again' = again + Counted(meters[breq[c].key])
         /\ breq[c].key \in Keys /\ breq[c].amount \in Nat
<1>1. PICK r : r = breq[c]
  OBVIOUS
<1>2. PICK old : old = meters[r.key]
  OBVIOUS
<1>3. /\ r.at = "meter" /\ r.key \in Keys /\ r.amount \in Amounts /\ r.amount \in Nat
      /\ old \in MeterEvent \cup {NoRow} /\ (old # NoRow => old.amount \in Nat)
      /\ DOMAIN meters = Keys
  BY <1>1, <1>2, BillingAssumption DEF SaveMeterEvent, BillingTypes, BillingTypeOK, BillingRequestOK, MeterEvent
<1>4. PICK e \in MeterEvent : e.amount = r.amount /\ meters' = [meters EXCEPT ![r.key] = e]
  <2>1. [amount |-> r.amount, created_at |-> Now] \in MeterEvent
    BY <1>3 DEF MeterEvent, Now, BillingTypes
  <2>. QED BY <1>1, <2>1 DEF SaveMeterEvent
<1>5. e # NoRow
  BY DEF NoRow, MeterEvent
<1> DEFINE rest == UNION {{k} \X (1..meters[k].amount) : k \in {x \in Keys \ {r.key} : meters[x] # NoRow}}
<1>6. MeteredUnits = rest \cup (IF old # NoRow THEN {r.key} \X (1..old.amount) ELSE {})
  BY <1>2, <1>3 DEF MeteredUnits
<1>7. MeteredUnits' = rest \cup ({r.key} \X (1..r.amount))
  <2>1. \A k \in Keys : meters'[k] = IF k = r.key THEN e ELSE meters[k]
    BY <1>3, <1>4
  <2>2. MeteredUnits' = UNION {{k} \X (1..meters'[k].amount) : k \in {x \in Keys : meters'[x] # NoRow}}
    BY DEF MeteredUnits
  <2>. QED BY <1>3, <1>4, <1>5, <2>1, <2>2
<1>8. \A i : <<r.key, i>> \notin rest
  OBVIOUS
<1>9. rest \subseteq MeteredUnits
  BY <1>6
<1> HIDE DEF rest
<1>10. IsFiniteSet(rest) /\ Cardinality(rest) \in Nat
  BY <1>9, FS_Subset, FS_CardinalityType DEF CountInv
<1>11. Metered = Cardinality(rest) + Counted(old)
  <2>1. CASE old # NoRow
    BY <1>3, <1>6, <1>8, <1>10, <2>1, AddUnits DEF Metered, Counted
  <2>2. CASE old = NoRow
    <3>1. MeteredUnits = rest
      BY <1>6, <2>2
    <3>. QED BY <3>1, <1>10, <2>2 DEF Metered, Counted
  <2>. QED BY <2>1, <2>2
<1>12. IsFiniteSet(MeteredUnits') /\ Metered' = Cardinality(rest) + r.amount
  BY <1>3, <1>7, <1>8, <1>10, AddUnits DEF Metered
<1>13. again' = again + Counted(old)
  BY <1>1, <1>2 DEF SaveMeterEvent
<1>14. Counted(old) \in Nat
  BY <1>3 DEF Counted
<1>. QED BY <1>1, <1>2, <1>3, <1>10, <1>11, <1>12, <1>13, <1>14

LEMMA CountMeterEvent ==
  ASSUME BillingTypes, CountInv, NEW c \in Callers, SaveMeterEvent(c)
  PROVE  CountInv'
<1>1. PICK r : r = breq[c]
  OBVIOUS
<1>2. PICK q : q = [at |-> "usage", amount |-> breq[c].amount, now |-> Now]
  OBVIOUS
<1>3. r.at = "meter" /\ r.amount \in Amounts /\ r.amount \in Nat
  BY <1>1, BillingAssumption DEF SaveMeterEvent, BillingTypes, BillingRequestOK
<1>4. breq' = [breq EXCEPT ![c] = q] /\ usage' = usage
  BY <1>2 DEF SaveMeterEvent, Start
<1>5. q.at = "usage" /\ q.amount = r.amount /\ IsFlying(q) /\ ~ IsFlying(r)
  BY <1>1, <1>2, <1>3 DEF IsFlying
<1>6. IsFiniteSet(FlyingUnits') /\ Flying' \in Nat /\ Flying \in Nat /\ Flying' = Flying + r.amount
  <2>1. /\ IsFiniteSet(FlyingUnits') /\ Flying' \in Nat /\ Flying \in Nat
        /\ Flying' + (IF IsFlying(breq[c]) THEN breq[c].amount ELSE 0)
               = Flying + (IF IsFlying(q) THEN q.amount ELSE 0)
    BY <1>3, <1>4, <1>5, FlyingStep
  <2>. QED BY <1>1, <1>3, <1>5, <2>1
<1>7. IsFiniteSet(MeteredUnits') /\ Metered' + again' = Metered + again + r.amount /\ again' \in Nat /\ Metered' \in Nat
  <2>1. Counted(meters[r.key]) \in Nat
    BY <1>1, MeteredStep, CountedType
  <2>. QED BY <1>1, <2>1, MeteredStep, CountedType
<1>8. \A d \in Callers : breq'[d] = IF d = c THEN q ELSE breq[d]
  BY <1>4 DEF BillingTypes
<1>9. ASSUME NEW d \in Callers, breq'[d].at = "put_usage"
      PROVE  Counted(breq'[d].read) + Flying' <= Metered' + again'
  BY <1>3, <1>5, <1>6, <1>7, <1>8, <1>9, CountedType DEF CountInv
<1>10. Counted(usage)' = Counted(usage)
  BY <1>4 DEF Counted
<1>. QED BY <1>3, <1>6, <1>7, <1>9, <1>10, CountedType DEF CountInv

LEMMA CountUsage ==
  ASSUME BillingTypes, CountInv, NEW c \in Callers, SaveUsage(c)
  PROVE  CountInv'
<1>1. /\ breq[c].at = "put_usage" /\ breq[c].amount \in Nat /\ IsFlying(breq[c])
      /\ breq' = [breq EXCEPT ![c] = Idle] /\ meters' = meters /\ again' = again
  BY BillingAssumption DEF SaveUsage, BillingTypes, BillingRequestOK, IsFlying, Finish
<1>2. ~ IsFlying(Idle) /\ Idle.at # "put_usage"
  BY DEF IsFlying, Idle
<1>3. IsFiniteSet(FlyingUnits') /\ Flying' \in Nat /\ Flying \in Nat /\ Flying' + breq[c].amount = Flying
  <2>1. /\ IsFiniteSet(FlyingUnits') /\ Flying' \in Nat /\ Flying \in Nat
        /\ Flying' + (IF IsFlying(breq[c]) THEN breq[c].amount ELSE 0)
               = Flying + (IF IsFlying(Idle) THEN Idle.amount ELSE 0)
    BY <1>1, <1>2, FlyingStep
  <2>. QED BY <1>1, <1>2, <2>1
<1>4. UNCHANGED <<MeteredUnits, Metered>>
  BY <1>1 DEF MeteredUnits, Metered
<1>5. /\ Counted(usage') = CarriedUsage(breq[c].read, breq[c].now) + breq[c].amount
      /\ CarriedUsage(breq[c].read, breq[c].now) <= Counted(breq[c].read)
      /\ CarriedUsage(breq[c].read, breq[c].now) \in Nat
  <2>1. usage' # NoRow
    BY SavedUsage DEF BillingUsage, NoRow
  <2>2. Counted(breq[c].read) \in Nat
    BY <1>1, CountedType
  <2>. QED BY <2>1, <2>2, SavedUsage DEF Counted
<1>6. Counted(usage') + Flying' <= Metered' + again'
  BY <1>1, <1>3, <1>4, <1>5, CountedType DEF CountInv
<1>7. \A d \in Callers : breq'[d] = IF d = c THEN Idle ELSE breq[d]
  BY <1>1 DEF BillingTypes
<1>8. ASSUME NEW d \in Callers, breq'[d].at = "put_usage"
       PROVE  Counted(breq'[d].read) + Flying' <= Metered' + again'
  BY <1>1, <1>2, <1>3, <1>4, <1>7, <1>8, CountedType DEF CountInv
<1>9. IsFiniteSet(MeteredUnits') /\ Counted(usage)' = Counted(usage')
  BY <1>4 DEF CountInv, Counted
<1>. QED BY <1>3, <1>6, <1>8, <1>9 DEF CountInv

LEMMA CountInvStep == BillingTypes /\ CountInv /\ [BillingNext]_billingVars => CountInv'
<1> SUFFICES ASSUME BillingTypes, CountInv, [BillingNext]_billingVars PROVE CountInv'
  OBVIOUS
<1> USE DEF Start, Finish, OnlyRequests, meterHistory, IsFlying
<1>1. CASE create_billing_account \/ BillingTick \/ UNCHANGED billingVars
  BY <1>1, CountOtherStep DEF create_billing_account, BillingTick, billingVars
<1>2. ASSUME NEW c \in Callers, NEW k \in Keys, NEW a \in Amounts, record_meter_event(c, k, a)
      PROVE  CountInv'
  BY <1>2, CountRequestStep DEF record_meter_event
<1>3. ASSUME NEW c \in Callers, SaveMeterEvent(c) PROVE CountInv'
  BY <1>3, CountMeterEvent
<1>4. ASSUME NEW c \in Callers, ReadUsage(c) PROVE CountInv'
  <2>1. PICK r : r = [at |-> "put_usage", amount |-> breq[c].amount, now |-> breq[c].now, read |-> usage]
    OBVIOUS
  <2>. QED BY <1>4, <2>1, CountRequestStep DEF ReadUsage
<1>5. ASSUME NEW c \in Callers, SaveUsage(c) PROVE CountInv'
  BY <1>5, CountUsage
<1>6. ASSUME NEW c \in Callers, NEW u \in Users, assign_billing_seat(c, u) PROVE CountInv'
  BY <1>6, CountRequestStep DEF assign_billing_seat
<1>7. ASSUME NEW c \in Callers, SaveSeat(c) \/ WriteQuota(c) \/ AbortRequest(c) PROVE CountInv'
  BY <1>7, CountRequestStep DEF SaveSeat, WriteQuota, AbortRequest, Idle
<1>8. ASSUME NEW c \in Callers, NEW a \in Amounts, MemoryAdjustQuota(c, a) PROVE CountInv'
  BY <1>8, CountOtherStep DEF MemoryAdjustQuota
<1>9. ASSUME NEW c \in Callers, NEW a \in Amounts, SelectQuota(c, a) PROVE CountInv'
  <2>1. PICK r : r = [at |-> "quota", amount |-> a, read |-> quotaRow]
    OBVIOUS
  <2>. QED BY <1>9, <2>1, CountRequestStep DEF SelectQuota
<1>. QED
  BY <1>1, <1>2, <1>3, <1>4, <1>5, <1>6, <1>7, <1>8, <1>9 DEF BillingNext

-----------------------------------------------------------------------------
(* Seats.  A caller between its check and its write is counted with the      *)
(* seats already written.                                                    *)

SeatWriters == {c \in Callers : breq[c].at = "seat"}

SeatInv == Len(seats) + Cardinality(SeatWriters) <= SeatLimit + Cardinality(Callers) - 1

LEMMA CallersFinite ==
  /\ IsFiniteSet(Callers) /\ Cardinality(Callers) \in Nat \ {0}
  /\ \A S \in SUBSET Callers : /\ IsFiniteSet(S) /\ Cardinality(S) \in Nat
                               /\ Cardinality(S) <= Cardinality(Callers)
<1>1. IsFiniteSet(Callers) /\ Callers # {}
  BY BillingAssumption
<1>2. Cardinality(Callers) \in Nat /\ Cardinality(Callers) # 0
  BY <1>1, FS_CardinalityType, FS_EmptySet
<1>. QED BY <1>1, <1>2, FS_Subset, FS_CardinalityType

LEMMA SeatInvInit == BillingInit => SeatInv
<1> SUFFICES ASSUME BillingInit PROVE SeatInv
  OBVIOUS
<1>1. SeatWriters = {}
  BY DEF BillingInit, SeatWriters, Idle
<1>. QED BY <1>1, FS_EmptySet, CallersFinite, BillingAssumption DEF BillingInit, SeatInv

\* The writers of seats when caller c's request becomes r.
LEMMA SeatWritersStep ==
  ASSUME BillingTypes, NEW c \in Callers, NEW r, breq' = [breq EXCEPT ![c] = r]
  PROVE  /\ r.at # "seat" => SeatWriters' = SeatWriters \ {c}
         /\ SeatWriters' \subseteq Callers
BY DEF BillingTypes, SeatWriters

\* A step of a caller that does not start to write a seat.
LEMMA SeatRequestStep ==
  ASSUME BillingTypes, SeatInv, NEW c \in Callers, NEW r, breq' = [breq EXCEPT ![c] = r],
         r.at # "seat",
         \/ UNCHANGED seats
         \/ breq[c].at = "seat" /\ Len(seats') = Len(seats) + 1
  PROVE  SeatInv'
<1>1. SeatWriters' = SeatWriters \ {c}
  BY SeatWritersStep
<1>2. SeatWriters \subseteq Callers
  BY DEF SeatWriters
<1>3. IsFiniteSet(SeatWriters) /\ Cardinality(SeatWriters) \in Nat
  BY <1>2, CallersFinite
<1>4. Cardinality(SeatWriters') = IF c \in SeatWriters THEN Cardinality(SeatWriters) - 1
                                  ELSE Cardinality(SeatWriters)
  BY <1>1, <1>3, FS_RemoveElement
<1>5. c \in SeatWriters <=> breq[c].at = "seat"
  BY DEF SeatWriters
<1>6. Len(seats) \in Nat /\ SeatLimit \in Nat /\ Cardinality(Callers) \in Nat
  BY CallersFinite, BillingAssumption DEF BillingTypes, BillingTypeOK
<1>. QED BY <1>3, <1>4, <1>5, <1>6 DEF SeatInv

LEMMA SeatInvStep == BillingTypes /\ SeatInv /\ [BillingNext]_billingVars => SeatInv'
<1> SUFFICES ASSUME BillingTypes, SeatInv, [BillingNext]_billingVars PROVE SeatInv'
  OBVIOUS
<1> USE DEF Start, Finish, OnlyRequests
<1>1. CASE create_billing_account \/ BillingTick \/ UNCHANGED billingVars
  BY <1>1 DEF create_billing_account, BillingTick, billingVars, SeatInv, SeatWriters
<1>2. ASSUME NEW c \in Callers, NEW k \in Keys, NEW a \in Amounts, record_meter_event(c, k, a)
      PROVE  SeatInv'
  <2>1. PICK r : r = [at |-> "meter", key |-> k, amount |-> a]
    OBVIOUS
  <2>2. breq' = [breq EXCEPT ![c] = r] /\ r.at # "seat" /\ UNCHANGED seats
    BY <1>2, <2>1 DEF record_meter_event
  <2>. QED BY <2>2, SeatRequestStep
<1>3. ASSUME NEW c \in Callers, SaveMeterEvent(c) PROVE SeatInv'
  <2>1. PICK r : r = [at |-> "usage", amount |-> breq[c].amount, now |-> Now]
    OBVIOUS
  <2>2. breq' = [breq EXCEPT ![c] = r] /\ r.at # "seat" /\ UNCHANGED seats
    BY <1>3, <2>1 DEF SaveMeterEvent
  <2>. QED BY <2>2, SeatRequestStep
<1>4. ASSUME NEW c \in Callers, ReadUsage(c) PROVE SeatInv'
  <2>1. PICK r : r = [at |-> "put_usage", amount |-> breq[c].amount, now |-> breq[c].now, read |-> usage]
    OBVIOUS
  <2>2. breq' = [breq EXCEPT ![c] = r] /\ r.at # "seat" /\ UNCHANGED seats
    BY <1>4, <2>1 DEF ReadUsage
  <2>. QED BY <2>2, SeatRequestStep
<1>5. ASSUME NEW c \in Callers, SaveUsage(c) \/ WriteQuota(c) \/ AbortRequest(c) PROVE SeatInv'
  BY <1>5, SeatRequestStep DEF SaveUsage, WriteQuota, AbortRequest, Idle
<1>6. ASSUME NEW c \in Callers, NEW u \in Users, assign_billing_seat(c, u) PROVE SeatInv'
  <2>1. SeatWriters' \subseteq Callers /\ seats' = seats /\ Len(seats) < SeatLimit
    <3>1. seats' = seats /\ Len(seats) < SeatLimit
      BY <1>6, BillingAssumption DEF assign_billing_seat, SeatsFull, BillingTypes, BillingTypeOK
    <3>. QED BY <3>1 DEF SeatWriters
  <2>2. Cardinality(SeatWriters') <= Cardinality(Callers) /\ Cardinality(SeatWriters') \in Nat
    BY <2>1, CallersFinite
  <2>3. Len(seats) \in Nat /\ SeatLimit \in Nat /\ Cardinality(Callers) \in Nat
    BY CallersFinite, BillingAssumption DEF BillingTypes, BillingTypeOK
  <2>. QED BY <2>1, <2>2, <2>3 DEF SeatInv
<1>7. ASSUME NEW c \in Callers, SaveSeat(c) PROVE SeatInv'
  <2>1. Len(seats') = Len(seats) + 1 /\ breq[c].at = "seat"
    BY <1>7 DEF SaveSeat, BillingTypes, BillingTypeOK, BillingRequestOK
  <2>2. breq' = [breq EXCEPT ![c] = Idle] /\ Idle.at # "seat"
    BY <1>7 DEF SaveSeat, Idle
  <2>. QED BY <2>1, <2>2, SeatRequestStep
<1>8. ASSUME NEW c \in Callers, NEW a \in Amounts, MemoryAdjustQuota(c, a) PROVE SeatInv'
  BY <1>8 DEF MemoryAdjustQuota, SeatInv, SeatWriters
<1>9. ASSUME NEW c \in Callers, NEW a \in Amounts, SelectQuota(c, a) PROVE SeatInv'
  <2>1. PICK r : r = [at |-> "quota", amount |-> a, read |-> quotaRow]
    OBVIOUS
  <2>2. breq' = [breq EXCEPT ![c] = r] /\ r.at # "seat" /\ UNCHANGED seats
    BY <1>9, <2>1 DEF SelectQuota
  <2>. QED BY <2>2, SeatRequestStep
<1>. QED
  BY <1>1, <1>2, <1>3, <1>4, <1>5, <1>6, <1>7, <1>8, <1>9 DEF BillingNext

-----------------------------------------------------------------------------
(* Calm metering.  Until metering requests overlap or one dies after its     *)
(* event is saved, at most one is in flight, its key is new, and it knows    *)
(* how far the usage is behind the events.                                   *)

CalmInv ==
    calm => /\ again = 0
            /\ \A c, d \in Metering : c = d
            /\ Metering = {} => Counted(usage) + billed = Metered
            /\ \A c \in Metering :
                 /\ breq[c].at = "meter" => /\ meters[breq[c].key] = NoRow
                                            /\ Counted(usage) + billed = Metered
                 /\ breq[c].at # "meter" => Counted(usage) + billed + breq[c].amount = Metered
                 /\ breq[c].at = "put_usage" => breq[c].read = usage

LEMMA CalmInvInit == BillingInit => CalmInv
<1> SUFFICES ASSUME BillingInit PROVE CalmInv
  OBVIOUS
<1>1. MeteredUnits = {} /\ Metering = {}
  BY DEF BillingInit, MeteredUnits, Metering, Idle
<1>. QED BY <1>1, FS_EmptySet DEF BillingInit, CalmInv, Counted, Metered

\* A step of caller c that changes no record of metering.
LEMMA CalmRequestStep ==
  ASSUME BillingTypes, CalmInv, NEW c \in Callers, NEW r, breq' = [breq EXCEPT ![c] = r],
         UNCHANGED <<meters, usage, again, billed>>,
         r.at \notin {"meter", "usage", "put_usage"},
         calm' => calm /\ breq[c].at \notin {"usage", "put_usage"}
  PROVE  CalmInv'
<1>1. \A d \in Callers : breq'[d] = IF d = c THEN r ELSE breq[d]
  BY DEF BillingTypes
<1>2. Metering' = Metering \ {c}
  BY <1>1 DEF Metering
<1>3. UNCHANGED Metered /\ UNCHANGED Counted(usage)
  BY DEF Metered, MeteredUnits, Counted
<1>4. ASSUME calm', Metering' = {} PROVE Counted(usage) + billed = Metered
  <2>1. CASE c \in Metering
    BY <1>4, <2>1 DEF CalmInv, Metering
  <2>2. CASE c \notin Metering
    BY <1>2, <1>4, <2>2 DEF CalmInv
  <2>. QED BY <2>1, <2>2
<1>5. \A d \in Metering' : d \in Metering /\ breq'[d] = breq[d]
  BY <1>1, <1>2 DEF Metering
<1>. QED BY <1>2, <1>3, <1>4, <1>5 DEF CalmInv

\* A step that is of no metering request.
LEMMA CalmOtherStep ==
  ASSUME CalmInv, UNCHANGED <<meters, usage, breq, meterHistory>>
  PROVE  CalmInv'
BY DEF CalmInv, Metering, Metered, MeteredUnits, Counted, meterHistory

LEMMA CalmInvStep ==
  BillingTypes /\ CountInv /\ CalmInv /\ [BillingNext]_billingVars => CalmInv'
<1> SUFFICES ASSUME BillingTypes, CountInv, CalmInv, [BillingNext]_billingVars PROVE CalmInv'
  OBVIOUS
<1> USE DEF Start, Finish
<1>1. CASE create_billing_account \/ BillingTick \/ UNCHANGED billingVars
  BY <1>1, CalmOtherStep DEF create_billing_account, BillingTick, billingVars
<1>2. ASSUME NEW c \in Callers, NEW k \in Keys, NEW a \in Amounts, record_meter_event(c, k, a)
      PROVE  CalmInv'
  <2>1. PICK r : r = [at |-> "meter", key |-> k, amount |-> a]
    OBVIOUS
  <2>2. /\ breq' = [breq EXCEPT ![c] = r] /\ r.at = "meter" /\ r.key = k /\ meters[k] = NoRow
        /\ UNCHANGED <<meters, usage, again, billed>> /\ (calm' => calm /\ Metering = {})
    BY <1>2, <2>1 DEF record_meter_event, MeterEventIsNew, OnlyRequests
  <2>3. \A d \in Callers : breq'[d] = IF d = c THEN r ELSE breq[d]
    BY <2>2 DEF BillingTypes
  <2>4. calm' => Metering' = {c}
    BY <2>2, <2>3 DEF Metering
  <2>5. UNCHANGED Metered /\ UNCHANGED Counted(usage)
    BY <2>2 DEF Metered, MeteredUnits, Counted
  <2>. QED BY <2>2, <2>3, <2>4, <2>5 DEF CalmInv
<1>3. ASSUME NEW c \in Callers, SaveMeterEvent(c) PROVE CalmInv'
  <2>1. PICK q : q = [at |-> "usage", amount |-> breq[c].amount, now |-> Now]
    OBVIOUS
  <2>2. /\ breq' = [breq EXCEPT ![c] = q] /\ breq[c].at = "meter" /\ q.at = "usage"
        /\ q.amount = breq[c].amount /\ UNCHANGED <<usage, billed, calm>>
    BY <1>3, <2>1 DEF SaveMeterEvent
  <2>3. \A d \in Callers : breq'[d] = IF d = c THEN q ELSE breq[d]
    BY <2>2 DEF BillingTypes
  <2>4. Metering' = Metering /\ c \in Metering
    BY <2>2, <2>3 DEF Metering
  <2>5. UNCHANGED Counted(usage)
    BY <2>2 DEF Counted
  <2>6. calm => again' = 0 /\ Metered' = Metered + breq[c].amount
    BY <1>3, <2>2, <2>4, MeteredStep, CountedType DEF CalmInv, Counted
  <2>7. ASSUME calm, NEW d \in Metering PROVE d = c
    BY <2>4, <2>7 DEF CalmInv
  <2>8. Counted(usage) \in Nat /\ billed \in Nat /\ Metered \in Nat /\ breq[c].amount \in Nat
    BY <1>3, CountedType, MeteredStep
  <2>9. calm => Counted(usage) + billed = Metered
    BY <2>2, <2>4 DEF CalmInv
  <2>. QED BY <2>2, <2>3, <2>4, <2>5, <2>6, <2>7, <2>8, <2>9 DEF CalmInv
<1>4. ASSUME NEW c \in Callers, ReadUsage(c) PROVE CalmInv'
  <2>1. PICK q : q = [at |-> "put_usage", amount |-> breq[c].amount, now |-> breq[c].now, read |-> usage]
    OBVIOUS
  <2>2. /\ breq' = [breq EXCEPT ![c] = q] /\ breq[c].at = "usage" /\ q.at = "put_usage"
        /\ q.amount = breq[c].amount /\ q.read = usage
        /\ UNCHANGED <<meters, usage, again, billed, calm>>
    BY <1>4, <2>1 DEF ReadUsage, OnlyRequests
  <2>3. \A d \in Callers : breq'[d] = IF d = c THEN q ELSE breq[d]
    BY <2>2 DEF BillingTypes
  <2>4. Metering' = Metering /\ c \in Metering
    BY <2>2, <2>3 DEF Metering
  <2>5. UNCHANGED Metered /\ UNCHANGED Counted(usage)
    BY <2>2 DEF Metered, MeteredUnits, Counted
  <2>. QED BY <2>2, <2>3, <2>4, <2>5 DEF CalmInv
<1>5. ASSUME NEW c \in Callers, SaveUsage(c) PROVE CalmInv'
  <2>1. /\ breq' = [breq EXCEPT ![c] = Idle] /\ breq[c].at = "put_usage"
        /\ UNCHANGED <<meters, again, calm>>
        /\ billed' = billed + (Counted(breq[c].read) - CarriedUsage(breq[c].read, breq[c].now))
    BY <1>5 DEF SaveUsage
  <2>2. \A d \in Callers : breq'[d] = IF d = c THEN Idle ELSE breq[d]
    BY <2>1 DEF BillingTypes
  <2>3. c \in Metering /\ Metering' = Metering \ {c}
    BY <2>1, <2>2 DEF Metering, Idle
  <2>4. UNCHANGED Metered
    BY <2>1 DEF Metered, MeteredUnits
  <2>5. Counted(usage') = CarriedUsage(breq[c].read, breq[c].now) + breq[c].amount
    BY <1>5, SavedUsage DEF BillingUsage, NoRow, Counted
  <2>6. /\ CarriedUsage(breq[c].read, breq[c].now) \in Nat /\ Counted(breq[c].read) \in Nat
        /\ billed \in Nat /\ Metered \in Nat /\ breq[c].amount \in Nat
    BY <1>5, <2>1, SavedUsage, CountedType, BillingAssumption DEF BillingTypes, BillingRequestOK
  <2>7. calm => Metering' = {}
    BY <2>3 DEF CalmInv
  <2>8. calm => breq[c].read = usage /\ Counted(usage) + billed + breq[c].amount = Metered /\ again = 0
    BY <2>1, <2>3 DEF CalmInv
  <2>9. calm => Counted(usage') + billed' = Metered
    BY <2>1, <2>5, <2>6, <2>8
  <2>10. Counted(usage)' = Counted(usage')
    BY DEF Counted
  <2>. QED BY <2>1, <2>4, <2>7, <2>8, <2>9, <2>10 DEF CalmInv
<1>6. ASSUME NEW c \in Callers, NEW u \in Users, assign_billing_seat(c, u) PROVE CalmInv'
  <2>1. PICK r : r = [at |-> "seat", user |-> u]
    OBVIOUS
  <2>2. /\ breq' = [breq EXCEPT ![c] = r] /\ r.at = "seat" /\ breq[c].at = "idle"
        /\ UNCHANGED <<meters, usage, again, billed>>
    BY <1>6, <2>1 DEF assign_billing_seat, OnlyRequests, Idle
  <2>3. calm' => calm
    BY <1>6 DEF assign_billing_seat
  <2>. QED BY <2>2, <2>3, CalmRequestStep
<1>7. ASSUME NEW c \in Callers, SaveSeat(c) \/ WriteQuota(c) \/ AbortRequest(c) PROVE CalmInv'
  <2>1. breq' = [breq EXCEPT ![c] = Idle] /\ UNCHANGED <<meters, usage, again, billed>>
    BY <1>7 DEF SaveSeat, WriteQuota, AbortRequest, meterHistory
  <2>2. calm' => calm /\ breq[c].at \notin {"usage", "put_usage"}
    <3>1. CASE AbortRequest(c)
      BY <3>1 DEF AbortRequest
    <3>2. CASE SaveSeat(c) \/ WriteQuota(c)
      <4>1. breq[c].at \in {"seat", "quota"}
        BY <3>2 DEF SaveSeat, WriteQuota
      <4>2. calm' => calm
        BY <3>2 DEF SaveSeat, WriteQuota, meterHistory
      <4>. QED BY <4>1, <4>2
    <3>. QED BY <1>7, <3>1, <3>2
  <2>3. Idle.at = "idle"
    BY DEF Idle
  <2>. QED BY <2>1, <2>2, <2>3, CalmRequestStep
<1>8. ASSUME NEW c \in Callers, NEW a \in Amounts, MemoryAdjustQuota(c, a) PROVE CalmInv'
  BY <1>8, CalmOtherStep DEF MemoryAdjustQuota
<1>9. ASSUME NEW c \in Callers, NEW a \in Amounts, SelectQuota(c, a) PROVE CalmInv'
  <2>1. PICK r : r = [at |-> "quota", amount |-> a, read |-> quotaRow]
    OBVIOUS
  <2>2. /\ breq' = [breq EXCEPT ![c] = r] /\ r.at = "quota" /\ breq[c].at = "idle"
        /\ UNCHANGED <<meters, usage, again, billed>>
    BY <1>9, <2>1 DEF SelectQuota, Idle, meterHistory
  <2>3. calm' => calm
    BY <1>9 DEF SelectQuota, meterHistory
  <2>. QED BY <2>2, <2>3, CalmRequestStep
<1>. QED
  BY <1>1, <1>2, <1>3, <1>4, <1>5, <1>6, <1>7, <1>8, <1>9 DEF BillingNext

\* However the requests overlap, are retried or die, the usage row exceeds the
\* stored meter events by no more than the events saved over under their own key,
\* it equals them while record_meter_event was never interleaved with itself nor
\* cut off, and callers that assign seats on a list read before exceed the limit by
\* no more than one seat for each other caller.
THEOREM UsageIsAccounted == BillingSpec => []UsageAccounted
<1>1. BillingTypes /\ CountInv /\ CalmInv /\ SeatInv => UsageAccounted
  <2> SUFFICES ASSUME BillingTypes, CountInv, CalmInv, SeatInv PROVE UsageAccounted
    OBVIOUS
  <2>1. Counted(usage) <= Metered + again
    <3>1. Flying \in Nat
      BY FS_CardinalityType DEF CountInv, Flying
    <3>. QED BY <3>1, CountedType DEF CountInv
  <2>2. Len(seats) <= SeatLimit + Cardinality(Callers) - 1
    <3>1. Cardinality(SeatWriters) \in Nat /\ Cardinality(Callers) \in Nat /\ SeatLimit \in Nat
      BY CallersFinite, BillingAssumption DEF SeatWriters
    <3>. QED BY <3>1 DEF SeatInv, BillingTypes, BillingTypeOK
  <2>. QED BY <2>1, <2>2 DEF UsageAccounted, BillingTypes, CalmInv
<1>. QED
  BY <1>1, BillingTypesInit, CountInvInit, CalmInvInit, SeatInvInit, BillingTypesStep, CountInvStep,
     CalmInvStep, SeatInvStep, PTL
     DEF BillingSpec

-----------------------------------------------------------------------------
(* Governed records.  A put is in the trail, owed by the request that made   *)
(* it, lost with a failed append, or older than every purge allows; and the  *)
(* status of a record is that of its last put, so the history has to say     *)
(* which put that is.                                                        *)

Lifecycle == "project_lifecycle_request"
PutRecord == [kind : RecordKind, id : Nat, status : RecordStatus, at : Nat]
PutsOf(i) == {j \in DOMAIN puts : puts[j].id = i}

\* The audit events a request has still to append.
Owes(r, i) == (r.at = "audit" /\ i \in Range(r.todo)) \/ (r.at = "lifecycle" /\ r.put = i)

Covered(i) ==
    \/ \E e \in trail : e.put = i
    \/ i \in failed
    \/ \E c \in Admins : Owes(creq[c], i)
    \/ rclock - puts[i].at > shortest

Applied(i) == i \in lifecycles \/ \E c \in Admins : creq[c].at = "lifecycle" /\ creq[c].id = i

\* What a request in flight holds.
RecordRequestOK(r) ==
    /\ r.at = "audit" => r.todo \in Seq(DOMAIN puts) /\ Len(r.todo) >= 1
    /\ r.at = "decide" =>
          /\ r.kind \in RecordKind /\ r.status \in {"approved", "rejected"}
          /\ r.id \in Nat \ {0} /\ \E j \in DOMAIN puts : puts[j].id = r.id /\ puts[j].kind = r.kind
    /\ r.at = "lifecycle" => r.put \in DOMAIN puts

\* Type correctness of the records and requests.
RecordTypes ==
    /\ RecordTypeOK
    /\ rclock \in Nat /\ retention \in Nat /\ shortest \in Nat
    /\ puts \in Seq(PutRecord)
    /\ DOMAIN creq = Admins
    /\ \A c \in Admins : RecordRequestOK(creq[c])

\* An id belongs to one kind of record, and its last put exists.
IdsOK ==
    /\ \A j, k \in DOMAIN puts : puts[j].id = puts[k].id /\ puts[j].id # 0 => puts[j].kind = puts[k].kind
    /\ \A j \in DOMAIN puts : puts[j].kind = Lifecycle => puts[j].id # 0
    /\ \A j \in DOMAIN puts : Max(PutsOf(puts[j].id)) \in PutsOf(puts[j].id)

\* The inductive invariant of the governed records.
RecordInv ==
    /\ RecordTypes
    /\ IdsOK
    /\ \A e \in trail : puts[e.put].at <= e.created_at
    /\ \A i \in DOMAIN puts : Covered(i)
    /\ \A i \in Records(Lifecycle) : Status(i) = "approved" => Applied(i)

LEMMA RecordInvInit == RecordInit => RecordInv
<1> SUFFICES ASSUME RecordInit PROVE RecordInv
  OBVIOUS
<1>1. RecordTypes
  BY RecordAssumption DEF RecordInit, RecordTypes, RecordTypeOK, AuditRetentionPolicy, AuditEvent,
                          RecordRequestOK, Resting
<1>2. IdsOK /\ Records(Lifecycle) = {}
  BY DEF RecordInit, IdsOK, Records
<1>. QED BY <1>1, <1>2 DEF RecordInit, RecordInv

\* What one more put does to the sequence of puts and to the status of a record.
LEMMA PutFacts ==
  ASSUME RecordTypes, IdsOK, NEW rec \in PutRecord, puts' = Append(puts, rec)
  PROVE  /\ puts' \in Seq(PutRecord) /\ Len(puts) \in Nat
         /\ DOMAIN puts = 1..Len(puts) /\ DOMAIN puts' = 1..(Len(puts) + 1)
         /\ Len(puts') = Len(puts) + 1
         /\ \A j \in DOMAIN puts : puts'[j] = puts[j]
         /\ puts'[Len(puts) + 1] = rec
         /\ Max(PutsOf(rec.id)') = Len(puts) + 1 /\ Max(PutsOf(rec.id)') \in PutsOf(rec.id)'
         /\ \A i : i # rec.id => PutsOf(i)' = PutsOf(i)
<1>1. puts \in Seq(PutRecord)
  BY DEF RecordTypes
<1>2. /\ puts' \in Seq(PutRecord) /\ Len(puts) \in Nat
      /\ DOMAIN puts = 1..Len(puts) /\ DOMAIN puts' = 1..(Len(puts) + 1)
      /\ Len(puts') = Len(puts) + 1
      /\ \A j \in DOMAIN puts : puts'[j] = puts[j]
      /\ puts'[Len(puts) + 1] = rec
  BY <1>1
<1>3. \A i : i # rec.id => PutsOf(i)' = PutsOf(i)
  BY <1>2 DEF PutsOf
<1> DEFINE S == PutsOf(rec.id)'
<1>4. S \subseteq 1..(Len(puts) + 1) /\ Len(puts) + 1 \in S
  BY <1>2 DEF PutsOf
<1> HIDE DEF S
<1>5. \A x \in S : (\A y \in S : x >= y) <=> x = Len(puts) + 1
  BY <1>2, <1>4
<1>6. Max(S) = Len(puts) + 1
  BY <1>2, <1>4, <1>5 DEF Max
<1>. QED BY <1>2, <1>3, <1>4, <1>6 DEF S

\* A step in which caller c puts rec and its request becomes r.
LEMMA PutStep ==
  ASSUME RecordInv, NEW c \in Admins, NEW rec \in PutRecord, NEW r,
         puts' = Append(puts, rec), rec.id <= Len(puts) + 1, rec.at = rclock,
         rec.id # 0 => \A j \in DOMAIN puts : puts[j].id = rec.id => puts[j].kind = rec.kind,
         rec.kind = Lifecycle => rec.id # 0,
         creq' = [creq EXCEPT ![c] = r], RecordRequestOK(r)',
         UNCHANGED <<rclock, trail, shortest, failed>>, retention' \in AuditRetentionPolicy,
         Owes(r, Len(puts) + 1), \A i \in DOMAIN puts : Owes(creq[c], i) => Owes(r, i),
         lifecycles \subseteq lifecycles', creq[c].at = "lifecycle" => creq[c].id \in lifecycles',
         rec.kind = Lifecycle /\ rec.status = "approved" => r.at = "lifecycle" /\ r.id = rec.id
  PROVE  RecordInv'
<1> DEFINE n == Len(puts) + 1
<1>1. /\ puts' \in Seq(PutRecord) /\ Len(puts) \in Nat
      /\ DOMAIN puts = 1..Len(puts) /\ DOMAIN puts' = 1..n /\ Len(puts') = n
      /\ \A j \in DOMAIN puts : puts'[j] = puts[j]
      /\ puts'[n] = rec
      /\ Max(PutsOf(rec.id)') = n /\ Max(PutsOf(rec.id)') \in PutsOf(rec.id)'
      /\ \A i : i # rec.id => PutsOf(i)' = PutsOf(i)
  BY PutFacts DEF RecordInv
<1>2. \A d \in Admins : creq'[d] = IF d = c THEN r ELSE creq[d]
  BY DEF RecordInv, RecordTypes
<1>3. \A j \in DOMAIN puts' : j \in DOMAIN puts \/ j = n
  BY <1>1
<1>4. RecordTypeOK'
  <2>1. \A j \in DOMAIN puts' : puts'[j] \in ControlRecord'
    <3>1. \A j \in DOMAIN puts : puts[j] \in ControlRecord
      BY DEF RecordInv, RecordTypes, RecordTypeOK
    <3>2. \A j \in DOMAIN puts : puts[j] \in ControlRecord'
      BY <1>1, <3>1 DEF ControlRecord
    <3>3. rec \in ControlRecord'
      BY <1>1 DEF ControlRecord, PutRecord, RecordInv, RecordTypes
    <3>. QED BY <1>1, <1>3, <3>2, <3>3
  <2>2. trail' \subseteq AuditEvent'
    BY <1>1 DEF RecordInv, RecordTypes, RecordTypeOK, AuditEvent
  <2>. QED BY <2>1, <2>2 DEF RecordTypeOK, AuditRetentionPolicy
<1>5. RecordTypes'
  <2>1. ASSUME NEW q, RecordRequestOK(q) PROVE RecordRequestOK(q)'
    <3>1. DOMAIN puts \subseteq DOMAIN puts'
      BY <1>1
    <3>2. Seq(DOMAIN puts) \subseteq Seq(DOMAIN puts')
      BY <3>1
    <3>. QED BY <1>1, <2>1, <3>1, <3>2 DEF RecordRequestOK
  <2>2. \A d \in Admins : RecordRequestOK(creq[d])'
    BY <1>2, <2>1 DEF RecordInv, RecordTypes
  <2>3. retention' \in Nat
    BY RecordAssumption DEF AuditRetentionPolicy
  <2>. QED BY <1>1, <1>4, <2>2, <2>3 DEF RecordInv, RecordTypes
<1>6. IdsOK'
  <2>1. ASSUME NEW j \in DOMAIN puts', NEW k \in DOMAIN puts',
               puts'[j].id = puts'[k].id, puts'[j].id # 0
        PROVE  puts'[j].kind = puts'[k].kind
    BY <1>1, <1>3, <2>1 DEF RecordInv, IdsOK
  <2>2. ASSUME NEW j \in DOMAIN puts', puts'[j].kind = Lifecycle PROVE puts'[j].id # 0
    BY <1>1, <1>3, <2>2 DEF RecordInv, IdsOK
  <2>3. ASSUME NEW j \in DOMAIN puts' PROVE Max(PutsOf(puts[j].id)') \in PutsOf(puts[j].id)'
    <3>1. CASE puts'[j].id = rec.id
      BY ZenonT(60), <1>1, <3>1 DEF PutsOf
    <3>2. CASE puts'[j].id # rec.id
      <4>1. j \in DOMAIN puts /\ puts'[j] = puts[j]
        BY <1>1, <1>3, <3>2
      <4>2. PICK i : i = puts[j].id
        OBVIOUS
      <4>3. PutsOf(i)' = PutsOf(i) /\ Max(PutsOf(i)) \in PutsOf(i)
        BY <1>1, <3>2, <4>1, <4>2 DEF RecordInv, IdsOK
      <4>4. PutsOf(puts[j].id)' = PutsOf(i)'
        BY <4>1, <4>2 DEF PutsOf
      <4>. QED BY <4>3, <4>4
    <3>. QED BY <3>1, <3>2
  <2>. QED BY <2>1, <2>2, <2>3 DEF IdsOK
<1>7. ASSUME NEW e \in trail' PROVE puts'[e.put].at <= e.created_at
  BY <1>1, <1>7 DEF RecordInv, RecordTypes, RecordTypeOK, AuditEvent
<1>8. ASSUME NEW i \in DOMAIN puts' PROVE Covered(i)'
  <2>0. \A q, k : Owes(q, k)' = Owes(q, k)
    BY DEF Owes
  <2>1. CASE i = n
    BY <1>2, <2>0, <2>1 DEF Covered
  <2>2. CASE i \in DOMAIN puts
    <3>1. Covered(i)
      BY <2>2 DEF RecordInv
    <3>2. (\E d \in Admins : Owes(creq[d], i)) => \E d \in Admins : Owes(creq'[d], i)
      BY <1>2, <2>2
    <3>. QED BY <1>1, <2>0, <2>2, <3>1, <3>2 DEF Covered
  <2>. QED BY <1>3, <2>1, <2>2
<1>9. ASSUME NEW i \in Records(Lifecycle)', Status(i)' = "approved" PROVE Applied(i)'
  <2>1. PICK j \in DOMAIN puts' : puts'[j].kind = Lifecycle /\ puts'[j].id = i
    BY <1>9 DEF Records
  <2>2. Status(i)' = puts'[Max(PutsOf(i)')].status
    BY DEF Status, PutsOf
  <2>3. CASE i = rec.id
    <3>1. rec.status = "approved"
      BY <1>1, <1>9, <2>2, <2>3
    <3>2. rec.kind = Lifecycle
      BY <1>1, <1>3, <2>1, <2>3 DEF RecordInv, IdsOK
    <3>. QED BY <1>2, <2>3, <3>1, <3>2 DEF Applied
  <2>4. CASE i # rec.id
    <3>1. j \in DOMAIN puts /\ puts[j].kind = Lifecycle /\ puts[j].id = i
      BY <1>1, <1>3, <2>1, <2>4
    <3>2. Max(PutsOf(i)) \in PutsOf(i) /\ PutsOf(i)' = PutsOf(i)
      BY <1>1, <2>4, <3>1 DEF RecordInv, IdsOK
    <3>3. Status(i)' = Status(i)
      BY <1>1, <2>2, <3>2 DEF Status, PutsOf
    <3>4. Applied(i)
      BY <1>9, <3>1, <3>3 DEF RecordInv, Records
    <3>. QED BY <1>2, <3>4 DEF Applied
  <2>. QED BY <2>3, <2>4
<1>. QED BY <1>5, <1>6, <1>7, <1>8, <1>9 DEF RecordInv

\* A step of caller c that puts nothing.
LEMMA NoPutStep ==
  ASSUME RecordInv, NEW c \in Admins, NEW r, creq' = [creq EXCEPT ![c] = r], RecordRequestOK(r),
         UNCHANGED <<rclock, puts, retention, shortest, lifecycles>>,
         trail \subseteq trail', \A e \in trail' \ trail : e \in AuditEvent /\ e.created_at = rclock,
         failed \subseteq failed',
         \A i \in DOMAIN puts : Owes(creq[c], i) =>
             Owes(r, i) \/ i \in failed' \/ \E e \in trail' : e.put = i,
         creq[c].at # "lifecycle"
  PROVE  RecordInv'
<1>1. \A d \in Admins : creq'[d] = IF d = c THEN r ELSE creq[d]
  BY DEF RecordInv, RecordTypes
<1>2. RecordTypes' /\ IdsOK'
  <2>1. AuditEvent' = AuditEvent /\ ControlRecord' = ControlRecord
    BY DEF AuditEvent, ControlRecord
  <2>2. RecordTypeOK'
    BY <2>1 DEF RecordInv, RecordTypes, RecordTypeOK, AuditRetentionPolicy
  <2>3. \A q : RecordRequestOK(q)' = RecordRequestOK(q)
    BY DEF RecordRequestOK
  <2>4. \A d \in Admins : RecordRequestOK(creq[d])'
    BY <1>1, <2>3 DEF RecordInv, RecordTypes
  <2>5. IdsOK'
    BY DEF RecordInv, IdsOK, PutsOf
  <2>. QED BY <2>2, <2>4, <2>5 DEF RecordInv, RecordTypes
<1>3. ASSUME NEW e \in trail' PROVE puts'[e.put].at <= e.created_at
  <2>1. CASE e \in trail
    BY <2>1 DEF RecordInv
  <2>2. CASE e \notin trail
    <3>1. e.put \in DOMAIN puts /\ e.created_at = rclock
      BY <1>3, <2>2 DEF AuditEvent
    <3>2. puts[e.put].at \in 0..rclock
      BY <3>1 DEF RecordInv, RecordTypes, RecordTypeOK, ControlRecord
    <3>. QED BY <3>1, <3>2 DEF RecordInv, RecordTypes
  <2>. QED BY <2>1, <2>2
<1>4. ASSUME NEW i \in DOMAIN puts' PROVE Covered(i)'
  <2>0. \A q, k : Owes(q, k)' = Owes(q, k)
    BY DEF Owes
  <2>1. Covered(i)
    BY DEF RecordInv
  <2>2. ASSUME NEW d \in Admins, Owes(creq[d], i)
        PROVE  i \in failed' \/ (\E e \in trail' : e.put = i) \/ \E b \in Admins : Owes(creq'[b], i)
    BY <1>1, <2>2
  <2>. QED BY <2>0, <2>1, <2>2 DEF Covered
<1>5. ASSUME NEW i \in Records(Lifecycle)', Status(i)' = "approved" PROVE Applied(i)'
  <2>1. Applied(i)
    BY <1>5 DEF RecordInv, Records, Status
  <2>. QED BY <1>1, <2>1 DEF Applied
<1>. QED BY <1>2, <1>3, <1>4, <1>5 DEF RecordInv

\* A request that has put one document and goes on to audit it.
LEMMA PutThenAudit ==
  ASSUME RecordInv, NEW c \in Admins, NEW kind \in RecordKind, NEW id \in Nat, NEW status \in RecordStatus,
         Save(kind, id, status), ThenAudit(c), id <= Len(puts) + 1,
         id # 0 => \A j \in DOMAIN puts : puts[j].id = id => puts[j].kind = kind,
         kind = Lifecycle => id # 0 /\ status # "approved",
         creq[c] = Resting \/ creq[c].at = "decide",
         UNCHANGED <<rclock, trail, shortest, failed, lifecycles>>, retention' \in AuditRetentionPolicy
  PROVE  RecordInv'
<1>1. PICK rec : rec = [kind |-> kind, id |-> id, status |-> status, at |-> rclock]
  OBVIOUS
<1>2. PICK n : n = Len(puts) + 1
  OBVIOUS
<1>3. PICK r : r = [at |-> "audit", todo |-> <<n>>]
  OBVIOUS
<1>4. /\ rec \in PutRecord /\ rec.kind = kind /\ rec.id = id /\ rec.status = status /\ rec.at = rclock
  BY <1>1 DEF PutRecord, RecordInv, RecordTypes
<1>5. puts' = Append(puts, rec)
  BY <1>1 DEF Save
<1>6. creq' = [creq EXCEPT ![c] = r]
  BY <1>2, <1>3 DEF ThenAudit, Goto, NewId
<1>7. n \in DOMAIN puts'
  BY <1>2, <1>4, <1>5 DEF RecordInv, RecordTypes
<1>8. RecordRequestOK(r)' /\ Owes(r, n)
  BY <1>3, <1>7 DEF RecordRequestOK, Owes, Range
<1>9. creq[c].at # "lifecycle" /\ \A i : ~ Owes(creq[c], i)
  BY DEF Owes, Resting
<1>. QED BY <1>2, <1>4, <1>5, <1>6, <1>8, <1>9, PutStep

LEMMA CreateInv ==
  ASSUME RecordInv, NEW c \in Admins, NEW resource, NEW kind \in RecordKind, NEW status \in RecordStatus,
         status # "approved", Create(c, resource, kind, status)
  PROVE  RecordInv'
<1>1. PICK n : n = Len(puts) + 1
  OBVIOUS
<1>2. n \in Nat \ {0} /\ \A j \in DOMAIN puts : puts[j].id # n
  BY <1>1 DEF RecordInv, RecordTypes, RecordTypeOK, ControlRecord
<1>3. Save(kind, n, status) /\ ThenAudit(c) /\ creq[c] = Resting
  BY <1>1 DEF Create, Enter, NewId
<1>4. UNCHANGED <<rclock, trail, shortest, failed, lifecycles>> /\ retention' \in AuditRetentionPolicy
  BY DEF Create, RecordInv, RecordTypes, RecordTypeOK
<1>. QED BY <1>1, <1>2, <1>3, <1>4, PutThenAudit

LEMMA ProbeInv ==
  ASSUME RecordInv, NEW c \in Admins, NEW resource, NEW kind \in RecordKind, NEW i \in DOMAIN puts,
         Probe(c, resource, kind, i)
  PROVE  RecordInv'
<1>1. i \in Nat \ {0} /\ i <= Len(puts) + 1
  BY DEF RecordInv, RecordTypes
<1>2. \A j \in DOMAIN puts : puts[j].id = i => puts[j].kind = kind
  BY <1>1 DEF Probe, Records, RecordInv, IdsOK
<1>3. Save(kind, i, "configured") /\ ThenAudit(c) /\ creq[c] = Resting
  BY DEF Probe, Enter
<1>4. UNCHANGED <<rclock, trail, shortest, failed, lifecycles>> /\ retention' \in AuditRetentionPolicy
  BY DEF Probe, RecordInv, RecordTypes, RecordTypeOK
<1>5. "configured" \in RecordStatus /\ "configured" # "approved"
  BY DEF RecordStatus
<1>. QED BY <1>1, <1>2, <1>3, <1>4, <1>5, PutThenAudit

LEMMA DecideInv ==
  ASSUME RecordInv, NEW c \in Admins, NEW resource, NEW kind \in RecordKind, NEW i \in DOMAIN puts,
         NEW undecided, NEW approved, Decide(c, resource, kind, i, undecided, approved)
  PROVE  RecordInv'
<1>1. PICK r : r = [at |-> "decide", kind |-> kind, id |-> i,
                    status |-> IF approved THEN "approved" ELSE "rejected"]
  OBVIOUS
<1>2. r.at = "decide" /\ r.kind = kind /\ r.id = i /\ r.status \in {"approved", "rejected"}
  BY <1>1
<1>3. i \in Nat \ {0} /\ \E j \in DOMAIN puts : puts[j].id = i /\ puts[j].kind = kind
  BY DEF Decide, Records, RecordInv, RecordTypes
<1>4. RecordRequestOK(r)
  BY <1>2, <1>3 DEF RecordRequestOK
<1>5. /\ creq' = [creq EXCEPT ![c] = r] /\ creq[c] = Resting
      /\ UNCHANGED <<rclock, puts, trail, retention, shortest, failed, lifecycles>>
  BY <1>1 DEF Decide, Goto, Enter
<1>6. creq[c].at # "lifecycle" /\ \A k : ~ Owes(creq[c], k)
  BY <1>5 DEF Owes, Resting
<1>. QED BY <1>4, <1>5, <1>6, NoPutStep

LEMMA SaveDecisionInv ==
  ASSUME RecordInv, NEW c \in Admins, SaveDecision(c)
  PROVE  RecordInv'
<1>1. PICK q : q = creq[c]
  OBVIOUS
<1>2. /\ q.at = "decide" /\ q.kind \in RecordKind /\ q.status \in {"approved", "rejected"}
      /\ q.id \in Nat \ {0} /\ \E j \in DOMAIN puts : puts[j].id = q.id /\ puts[j].kind = q.kind
  BY <1>1 DEF SaveDecision, RecordInv, RecordTypes, RecordRequestOK
<1>3. q.id <= Len(puts) + 1
  BY <1>2 DEF RecordInv, RecordTypes, RecordTypeOK, ControlRecord
<1>4. \A j \in DOMAIN puts : puts[j].id = q.id => puts[j].kind = q.kind
  BY <1>2 DEF RecordInv, IdsOK
<1>5. /\ Save(q.kind, q.id, q.status)
      /\ UNCHANGED <<rclock, trail, shortest, failed, lifecycles>> /\ retention' \in AuditRetentionPolicy
  BY <1>1 DEF SaveDecision, RecordInv, RecordTypes, RecordTypeOK
<1>6. CASE Applies(q)
  <2>1. PICK n : n = Len(puts) + 1
    OBVIOUS
  <2>2. PICK r : r = [at |-> "lifecycle", id |-> q.id, put |-> n]
    OBVIOUS
  <2>3. PICK rec : rec = [kind |-> q.kind, id |-> q.id, status |-> q.status, at |-> rclock]
    OBVIOUS
  <2>4. /\ rec \in PutRecord /\ rec.kind = q.kind /\ rec.id = q.id /\ rec.status = q.status
        /\ rec.at = rclock
    BY <1>2, <2>3 DEF PutRecord, RecordStatus, RecordInv, RecordTypes
  <2>5. puts' = Append(puts, rec) /\ creq' = [creq EXCEPT ![c] = r]
    BY <1>1, <1>5, <1>6, <2>1, <2>2, <2>3 DEF Save, SaveDecision, Goto, NewId
  <2>6. n \in DOMAIN puts'
    BY <2>1, <2>4, <2>5 DEF RecordInv, RecordTypes
  <2>7. RecordRequestOK(r)' /\ Owes(r, n) /\ r.at = "lifecycle" /\ r.id = rec.id
    BY <2>2, <2>4, <2>6 DEF RecordRequestOK, Owes
  <2>8. creq[c].at # "lifecycle" /\ \A i : ~ Owes(creq[c], i)
    BY <1>1, <1>2 DEF Owes
  <2>. QED BY <1>2, <1>3, <1>4, <1>5, <2>1, <2>4, <2>5, <2>7, <2>8, PutStep
<1>7. CASE ~ Applies(q)
  <2>1. ThenAudit(c)
    BY <1>1, <1>7 DEF SaveDecision
  <2>2. q.status \in RecordStatus /\ (q.kind = Lifecycle => q.status # "approved")
    BY <1>2, <1>7 DEF Applies, Lifecycle, RecordStatus
  <2>. QED BY <1>1, <1>2, <1>3, <1>4, <1>5, <2>1, <2>2, PutThenAudit
<1>. QED BY <1>6, <1>7

LEMMA LifecycleInv ==
  ASSUME RecordInv, NEW c \in Admins, lifecycle(c)
  PROVE  RecordInv'
<1>1. PICK q : q = creq[c]
  OBVIOUS
<1>2. PICK n : n = Len(puts) + 1
  OBVIOUS
<1>3. PICK r : r = [at |-> "audit", todo |-> <<n, q.put>>]
  OBVIOUS
<1>4. PICK rec : rec = [kind |-> "lifecycle", id |-> 0, status |-> "disabled", at |-> rclock]
  OBVIOUS
<1>5. rec \in PutRecord /\ rec.kind # Lifecycle /\ rec.id = 0 /\ rec.at = rclock
  BY <1>4 DEF PutRecord, RecordKind, RecordStatus, Lifecycle, RecordInv, RecordTypes
<1>6. /\ puts' = Append(puts, rec) /\ creq' = [creq EXCEPT ![c] = r]
      /\ lifecycles' = lifecycles \cup {q.id}
      /\ UNCHANGED <<rclock, trail, shortest, failed, retention>>
  BY <1>1, <1>2, <1>3, <1>4 DEF lifecycle, Save, Goto, NewId
<1>7. q.at = "lifecycle" /\ q.put \in DOMAIN puts
  BY <1>1 DEF lifecycle, RecordInv, RecordTypes, RecordRequestOK
<1>8. n \in DOMAIN puts' /\ q.put \in DOMAIN puts' /\ 0 <= Len(puts) + 1
  BY <1>2, <1>5, <1>6, <1>7 DEF RecordInv, RecordTypes
<1>9. RecordRequestOK(r)' /\ Owes(r, n) /\ Owes(r, q.put)
  BY <1>3, <1>8 DEF RecordRequestOK, Owes, Range
<1>10. \A i \in DOMAIN puts : Owes(creq[c], i) => Owes(r, i)
  BY <1>1, <1>7, <1>9 DEF Owes
<1>11. retention' \in AuditRetentionPolicy
  BY <1>6 DEF RecordInv, RecordTypes, RecordTypeOK
<1>. QED BY <1>1, <1>2, <1>5, <1>6, <1>8, <1>9, <1>10, <1>11, PutStep

LEMMA AuditInv ==
  ASSUME RecordInv, NEW c \in Admins, AppendAudit(c) \/ AuditUnavailable(c)
  PROVE  RecordInv'
<1>1. PICK todo : todo = creq[c].todo
  OBVIOUS
<1>2. creq[c].at = "audit" /\ todo \in Seq(DOMAIN puts) /\ Len(todo) >= 1
  BY <1>1 DEF AppendAudit, AuditUnavailable, RecordInv, RecordTypes, RecordRequestOK
<1>3. \A i : Owes(creq[c], i) => i \in Range(todo)
  BY <1>1, <1>2 DEF Owes
<1>4. RecordRequestOK(Resting)
  BY DEF RecordRequestOK, Resting
<1>5. CASE AuditUnavailable(c)
  <2>1. /\ creq' = [creq EXCEPT ![c] = Resting] /\ failed' = failed \cup Range(todo)
        /\ UNCHANGED <<rclock, puts, trail, retention, shortest, lifecycles>>
    BY <1>1, <1>5 DEF AuditUnavailable, Goto
  <2>. QED BY <1>2, <1>3, <1>4, <2>1, NoPutStep
<1>6. CASE AppendAudit(c)
  <2>1. PICK e : e = [put |-> Head(todo), created_at |-> rclock]
    OBVIOUS
  <2>2. PICK r : r = IF Len(todo) = 1 THEN Resting ELSE [creq[c] EXCEPT !.todo = Tail(todo)]
    OBVIOUS
  <2>3. e \in AuditEvent /\ e.put = Head(todo) /\ e.created_at = rclock
    BY <1>2, <2>1 DEF AuditEvent, RecordInv, RecordTypes
  <2>4. /\ creq' = [creq EXCEPT ![c] = r] /\ trail' = trail \cup {e}
        /\ UNCHANGED <<rclock, puts, retention, shortest, failed, lifecycles>>
    BY <1>1, <1>6, <2>1, <2>2 DEF AppendAudit, Goto
  <2>5. RecordRequestOK(r) /\ \A i \in Range(todo) : i = Head(todo) \/ Owes(r, i)
    <3>1. CASE Len(todo) = 1
      BY <1>2, <1>4, <2>2, <3>1 DEF Range
    <3>2. CASE Len(todo) # 1
      <4>1. r.at = "audit" /\ r.todo = Tail(todo)
        BY <1>1, <1>2, <2>2, <3>2
      <4>2. Tail(todo) \in Seq(DOMAIN puts) /\ Len(Tail(todo)) >= 1
        <5>1. todo # << >>
          BY <1>2
        <5>2. PICK D : D = DOMAIN puts
          OBVIOUS
        <5>3. todo \in Seq(D) /\ Len(todo) \in Nat
          BY <1>2, <5>2
        <5>4. Tail(todo) \in Seq(D) /\ Len(Tail(todo)) = Len(todo) - 1
          BY <5>1, <5>3, HeadTailProperties
        <5>. QED BY <1>2, <3>2, <5>2, <5>3, <5>4
      <4>3. \A i \in Range(todo) : i = Head(todo) \/ i \in Range(Tail(todo))
        <5>1. ASSUME NEW k \in DOMAIN todo, k # 1 PROVE todo[k] \in Range(Tail(todo))
          <6>1. k - 1 \in DOMAIN Tail(todo) /\ Tail(todo)[k - 1] = todo[k]
            BY <1>2, <4>2, <5>1, HeadTailProperties
          <6>. QED BY <6>1 DEF Range
        <5>. QED BY <1>2, <5>1 DEF Range
      <4>. QED BY <4>1, <4>2, <4>3 DEF RecordRequestOK, Owes
    <3>. QED BY <3>1, <3>2
  <2>. QED BY <1>2, <1>3, <2>3, <2>4, <2>5, NoPutStep
<1>. QED BY <1>5, <1>6

LEMMA PutTimes ==
  ASSUME RecordTypes
  PROVE  /\ \A i \in DOMAIN puts : puts[i].at \in Nat
         /\ Len(puts) \in Nat /\ rclock \in Nat /\ shortest \in Nat /\ retention \in Nat
<1>1. puts \in Seq(PutRecord)
  BY DEF RecordTypes
<1>2. \A i \in DOMAIN puts : puts[i] \in PutRecord
  BY <1>1
<1>. QED BY <1>1, <1>2 DEF RecordTypes, PutRecord

LEMMA PurgeInv ==
  ASSUME RecordInv, NEW c \in Admins, NEW dry \in BOOLEAN, purge_audit_events(c, dry)
  PROVE  RecordInv'
<1>1. UNCHANGED <<rclock, puts, retention, failed, lifecycles, creq>>
  BY DEF purge_audit_events
<1>2. /\ trail' \subseteq trail /\ shortest' \in Nat /\ shortest' <= shortest
      /\ \A e \in trail \ trail' : e.created_at < rclock - retention /\ shortest' <= retention
  BY DEF purge_audit_events, Purged, RecordInv, RecordTypes
<1>3. RecordTypes' /\ IdsOK'
  <2>1. IdsOK'
    BY <1>1 DEF RecordInv, IdsOK, PutsOf
  <2>2. RecordTypeOK'
    BY <1>1, <1>2 DEF RecordInv, RecordTypes, RecordTypeOK, ControlRecord, AuditEvent, AuditRetentionPolicy
  <2>3. \A d \in Admins : RecordRequestOK(creq[d])'
    BY <1>1 DEF RecordInv, RecordTypes, RecordRequestOK
  <2>. QED BY <1>1, <1>2, <2>1, <2>2, <2>3 DEF RecordInv, RecordTypes
<1>4. ASSUME NEW i \in DOMAIN puts' PROVE Covered(i)'
  <2>1. Covered(i) /\ i \in DOMAIN puts
    BY <1>1 DEF RecordInv
  <2>2. puts[i].at \in Nat /\ rclock \in Nat /\ shortest \in Nat /\ retention \in Nat
    BY <2>1, PutTimes DEF RecordInv
  <2>3. CASE \E e \in trail : e.put = i
    <3>1. PICK e \in trail : e.put = i
      BY <2>3
    <3>2. puts[i].at <= e.created_at /\ e.created_at \in Int
      BY <3>1 DEF RecordInv, RecordTypes, RecordTypeOK, AuditEvent
    <3>3. e \notin trail' => rclock - puts[i].at > shortest'
      BY <1>2, <2>2, <3>1, <3>2
    <3>. QED BY <1>1, <3>1, <3>3 DEF Covered
  <2>4. CASE rclock - puts[i].at > shortest
    BY <1>1, <1>2, <2>2, <2>4 DEF Covered
  <2>5. CASE i \in failed \/ \E d \in Admins : Owes(creq[d], i)
    BY <1>1, <2>5 DEF Covered, Owes
  <2>. QED BY <2>1, <2>3, <2>4, <2>5 DEF Covered
<1>. QED BY <1>1, <1>2, <1>3, <1>4 DEF RecordInv, Records, Status, Applied

LEMMA RecordTickInv == ASSUME RecordInv, RecordTick PROVE RecordInv'
<1>1. UNCHANGED <<puts, trail, retention, shortest, failed, lifecycles, creq>> /\ rclock' = rclock + 1
  BY DEF RecordTick
<1>2. RecordTypeOK'
  BY <1>1 DEF RecordInv, RecordTypes, RecordTypeOK, ControlRecord, AuditEvent, AuditRetentionPolicy
<1>3. RecordTypes' /\ IdsOK'
  BY <1>1, <1>2 DEF RecordInv, RecordTypes, RecordRequestOK, IdsOK, PutsOf
<1>4. ASSUME NEW i \in DOMAIN puts' PROVE Covered(i)'
  <2>1. Covered(i) /\ puts[i].at \in Nat /\ rclock \in Nat /\ shortest \in Nat
    BY <1>1, PutTimes DEF RecordInv
  <2>. QED BY <1>1, <2>1 DEF Covered, Owes
<1>. QED BY <1>1, <1>3, <1>4 DEF RecordInv, Records, Status, Applied

LEMMA RetentionInv ==
  ASSUME RecordInv, NEW c \in Admins, NEW days \in Retentions, set_audit_retention_policy(c, days)
  PROVE  RecordInv'
<1>1. Save("audit_retention", 0, "") /\ ThenAudit(c) /\ creq[c] = Resting
  BY DEF set_audit_retention_policy, Enter
<1>2. "audit_retention" \in RecordKind /\ "" \in RecordStatus /\ "audit_retention" # Lifecycle
  BY DEF RecordKind, RecordStatus, Lifecycle
<1>3. /\ UNCHANGED <<rclock, trail, shortest, failed, lifecycles>>
      /\ retention' \in AuditRetentionPolicy
  BY DEF set_audit_retention_policy, AuditRetentionPolicy
<1>4. 0 <= Len(puts) + 1
  BY PutTimes DEF RecordInv
<1>. QED BY <1>1, <1>2, <1>3, <1>4, PutThenAudit

LEMMA RecordInvStep == RecordInv /\ [RecordNext]_recordVars => RecordInv'
<1> SUFFICES ASSUME RecordInv, [RecordNext]_recordVars PROVE RecordInv'
  OBVIOUS
<1>1. ASSUME NEW c \in Admins,
             \/ create_identity_provider(c) \/ create_quota_plan(c) \/ create_annotation_task(c)
             \/ register_annotation_provider(c) \/ \E w \in 0..1 : create_search_profile(c, w)
             \/ register_index_backend(c) \/ register_search_reranker(c) \/ submit_search_feedback(c)
             \/ evaluate_search(c) \/ rebuild_index(c) \/ record_model_metric(c) \/ create_cluster(c)
             \/ create_association(c) \/ create_event(c) \/ record_agent_trace(c)
             \/ record_agent_evaluation(c) \/ put_agent_memory(c) \/ request_project_lifecycle(c)
      PROVE  RecordInv'
  <2>1. \E resource : \E kind \in RecordKind, status \in RecordStatus :
            status # "approved" /\ Create(c, resource, kind, status)
    BY <1>1 DEF create_identity_provider, create_quota_plan, create_annotation_task,
                register_annotation_provider, create_search_profile, register_index_backend,
                register_search_reranker, submit_search_feedback, evaluate_search, rebuild_index,
                record_model_metric, create_cluster, create_association, create_event,
                record_agent_trace, record_agent_evaluation, put_agent_memory,
                request_project_lifecycle, RecordKind, RecordStatus
  <2>. QED BY <2>1, CreateInv
<1>2. ASSUME NEW c \in Admins, NEW i \in DOMAIN puts,
             \/ probe_identity_provider(c, i) \/ probe_annotation_provider(c, i)
             \/ probe_index_backend(c, i) \/ probe_search_reranker(c, i)
      PROVE  RecordInv'
  BY <1>2, ProbeInv DEF probe_identity_provider, probe_annotation_provider, probe_index_backend,
                        probe_search_reranker, RecordKind
<1>3. ASSUME NEW c \in Admins, NEW i \in DOMAIN puts, NEW ok \in BOOLEAN,
             decide_project_lifecycle(c, i, ok) \/ review_annotation_task(c, i, ok)
      PROVE  RecordInv'
  BY <1>3, DecideInv DEF decide_project_lifecycle, review_annotation_task, RecordKind
<1>4. CASE UNCHANGED recordVars
  <2>1. RecordTypeOK'
    BY <1>4 DEF recordVars, RecordInv, RecordTypes, RecordTypeOK, ControlRecord, AuditEvent,
                AuditRetentionPolicy
  <2>2. RecordTypes' /\ IdsOK'
    BY <1>4, <2>1 DEF recordVars, RecordInv, RecordTypes, RecordRequestOK, IdsOK, PutsOf
  <2>3. \A i \in DOMAIN puts : Covered(i)'
    BY <1>4 DEF recordVars, RecordInv, Covered, Owes
  <2>. QED BY <1>4, <2>2, <2>3 DEF recordVars, RecordInv, Records, Status, Applied
<1>. QED
  BY <1>1, <1>2, <1>3, <1>4, SaveDecisionInv, LifecycleInv, AuditInv, RetentionInv, PurgeInv,
     RecordTickInv DEF RecordNext

\* Whatever the callers' handlers do between a put and its audit event, every put
\* within the shortest retention a purge has used is in the trail, owed to it, or
\* lost with an append that failed; and an approved lifecycle request is applied,
\* or the handler that approved it is about to.
THEOREM WritesGoverned == RecordSpec => []GovernedWrites
<1>1. RecordInv => GovernedWrites
  BY DEF RecordInv, RecordTypes, GovernedWrites, Covered, AuditPending, Owes, Applied, Lifecycle
<1>. QED BY <1>1, RecordInvInit, RecordInvStep, PTL DEF RecordSpec

-----------------------------------------------------------------------------
(* Flows with approvals.  A request acts on an execution it has read while    *)
(* others decide about it, so what it is about to save must be justified by   *)
(* approvals that were granted; and approvals are never taken back.           *)

FlowRecord == UNION {FlowExecution(f) : f \in FlowDefinition}
ApprovalRecord ==
    [execution : Nat, node : UNION {Nodes(f) : f \in FlowDefinition}, status : {"pending", "approved", "rejected"}]
WalkRequest == [at : {"approval", "save_execution", "completed", "cycle"}, id : Nat, doc : FlowRecord]
DecisionRequest == [at : {"decide_flow", "read_execution"}, id : Nat, approved : BOOLEAN]

FlowTypes ==
    /\ flows \subseteq FlowDefinition
    /\ executions \in Seq(FlowRecord) /\ approvals \in Seq(ApprovalRecord)
    /\ wreq \in [Operators -> {NoRequest} \cup WalkRequest \cup DecisionRequest]
    /\ approvedEver \subseteq DOMAIN approvals

\* Where execution x of flow f may get to with the approvals granted to it.
OpenTo(f, x) ==
    OpenFrom(f, {FlowBodies[f].entry} \cup
                UNION {{Node(f, n).next[i] : i \in DOMAIN Node(f, n).next} : n \in ApprovedNodes(x)})

RecordGated(x) ==
    /\ executions[x].flow \in flows /\ executions[x] \in FlowExecution(executions[x].flow)
    /\ executions[x].done \subseteq OpenTo(executions[x].flow, x)
ApprovalGated(a) ==
    /\ approvals[a].execution \in DOMAIN executions
    /\ approvals[a].node \in Nodes(executions[approvals[a].execution].flow)
RecordsGated ==
    /\ \A x \in DOMAIN executions : RecordGated(x)
    /\ \A a \in DOMAIN approvals : ApprovalGated(a)

\* What a request will save is justified already.
RequestGated(r) ==
    /\ r \in WalkRequest =>
          /\ r.id \in DOMAIN executions /\ r.doc \in FlowExecution(executions[r.id].flow)
          /\ r.doc.done \subseteq OpenTo(executions[r.id].flow, r.id)
    /\ r \in DecisionRequest =>
          /\ r.id \in DOMAIN approvals
          /\ r.at = "read_execution" /\ r.approved => r.id \in approvedEver

-----------------------------------------------------------------------------
(* One request at a time.                                                     *)

Has(x, s) == \E a \in DOMAIN approvals : approvals[a].execution = x /\ approvals[a].status = s

\* The status s suits the approvals of execution x.
Suits(x, s) ==
    /\ s = "waiting_approval" <=> Has(x, "pending")
    /\ s = "rejected" <=> Has(x, "rejected")

StatusSuits(x) == Suits(x, executions[x].status)

WorksOn(r, x) ==
    \/ r \in WalkRequest /\ r.id = x
    \/ r \in DecisionRequest /\ r.at = "read_execution" /\ approvals[r.id].execution = x

RequestTidy(r) ==
    /\ r \in WalkRequest =>
          /\ r.at \in {"save_execution", "completed"} => Suits(r.id, r.doc.status)
          /\ r.at = "approval" => r.doc.status = "waiting_approval" /\ ~Has(r.id, "pending") /\ ~Has(r.id, "rejected")
    /\ r \in DecisionRequest =>
          /\ r.at = "decide_flow" => approvals[r.id].status = "pending"
          /\ r.at = "read_execution" =>
                /\ ~Has(approvals[r.id].execution, "pending")
                /\ Has(approvals[r.id].execution, "rejected") <=> ~r.approved

OnePending ==
    \A a, b \in DOMAIN approvals :
        /\ approvals[a].status = "pending" /\ approvals[b].status = "pending"
        /\ approvals[a].execution = approvals[b].execution
        => a = b

Tidy ==
    /\ \A c, d \in Operators : wreq[c] # NoRequest /\ wreq[d] # NoRequest => c = d
    /\ OnePending
    /\ \A x \in DOMAIN executions : (\A c \in Operators : ~WorksOn(wreq[c], x)) => StatusSuits(x)
    /\ \A c \in Operators : RequestTidy(wreq[c])

FlowInv ==
    /\ FlowTypes /\ RecordsGated
    /\ \A c \in Operators : RequestGated(wreq[c])
    /\ ~disturbed => Tidy
-----------------------------------------------------------------------------
LEMMA OpenGrows ==
    ASSUME NEW f, NEW S, NEW T, S \subseteq T
    PROVE  OpenFrom(f, S) \subseteq OpenFrom(f, T)
BY DEF OpenFrom

LEMMA NextIsNode ==
    ASSUME NEW f \in FlowDefinition, NEW n \in Nodes(f), NEW m \in BOOLEAN
    PROVE  \/ NextNode(f, n, m) = ""
           \/ NextNode(f, n, m) \in Nodes(f) /\ \E i \in DOMAIN Node(f, n).next : Node(f, n).next[i] = NextNode(f, n, m)
<1>1. PICK next : next = Node(f, n).next
  OBVIOUS
<1>2. f \in DOMAIN FlowBodies /\ \A i \in DOMAIN next : next[i] \in Nodes(f)
  BY <1>1 DEF FlowDefinition, ValidFlow
<1>3. next \in Seq(STRING)
  BY <1>1, <1>2, WorkflowAssumption
<1>4. DOMAIN next = 1..Len(next) /\ Len(next) \in Nat /\ (next # << >> => Len(next) # 0)
  BY <1>3, LenProperties, EmptySeq
<1>5. CASE next = << >>
  BY <1>1, <1>5 DEF NextNode
<1>6. CASE next # << >>
  <2>1. 1 \in DOMAIN next /\ (Len(next) > 1 => 2 \in DOMAIN next)
    BY <1>4, <1>6
  <2>2. NextNode(f, n, m) = next[1] \/ (Len(next) > 1 /\ NextNode(f, n, m) = next[2])
    BY <1>1, <1>6 DEF NextNode
  <2>. QED BY <1>1, <1>2, <2>1, <2>2
<1>. QED BY <1>5, <1>6

\* What _advance_flow_execution runs needs no approval but those that got it to start.
LEMMA RanIsOpen ==
    ASSUME NEW f \in FlowDefinition, NEW start, NEW m \in BOOLEAN, NEW S, start \in S
    PROVE  Ran(f, start, m) \subseteq OpenFrom(f, S)
<1>1. SUFFICES ASSUME NEW n \in Ran(f, start, m), NEW C \in SUBSET Nodes(f),
                      \A k \in Nodes(f) :
                          /\ Node(f, k).kind # "approval"
                          /\ k \in S \/ \E j \in C : \E i \in DOMAIN Node(f, j).next : Node(f, j).next[i] = k
                          => k \in C
               PROVE  n \in C
  <2>1. \A n \in Ran(f, start, m) : n \in Nodes(f)
    BY DEF Ran
  <2>. QED BY <2>1 DEF OpenFrom
<1>2. ASSUME NEW k \in Nodes(f), ~StopsAt(f, k), k = start \/ \E j \in C : NextNode(f, j, m) = k
      PROVE  k \in C
  <2>1. CASE k = start
    BY <1>1, <1>2, <2>1 DEF StopsAt
  <2>2. CASE \E j \in C : NextNode(f, j, m) = k
    <3>1. PICK j \in C : NextNode(f, j, m) = k
      BY <2>2
    <3>2. k # ""
      BY WorkflowAssumption DEF FlowDefinition
    <3>3. \E i \in DOMAIN Node(f, j).next : Node(f, j).next[i] = k
      BY <3>1, <3>2, NextIsNode
    <3>. QED BY <1>1, <1>2, <3>3 DEF StopsAt
  <2>. QED BY <1>2, <2>1, <2>2
<1>. QED BY <1>1, <1>2 DEF Ran

\* Where the walk ends is a node of the flow.
LEMMA WalkFacts ==
    ASSUME NEW f \in FlowDefinition, NEW start \in Nodes(f), NEW m \in BOOLEAN, NEW w, w = Walk(f, start, m)
    PROVE  /\ w.end \in {"approval", "completed", "cycle"} /\ w.node \in Nodes(f)
           /\ w.done = Ran(f, start, m) /\ w.done \subseteq Nodes(f)
<1>1. PICK ran : ran = Ran(f, start, m)
  OBVIOUS
<1>2. ran \subseteq Nodes(f)
  BY <1>1 DEF Ran
<1>3. PICK stops, ends :
         /\ stops = {n \in Nodes(f) : /\ StopsAt(f, n)
                                      /\ n = start \/ \E k \in ran : NextNode(f, k, m) = n}
         /\ ends = {n \in ran : NextNode(f, n, m) = ""}
  OBVIOUS
<1>4. w = IF stops # {} THEN [end |-> "approval", node |-> CHOOSE n \in stops : TRUE, done |-> ran]
          ELSE IF ends # {} THEN [end |-> "completed", node |-> CHOOSE n \in ends : TRUE, done |-> ran]
          ELSE [end |-> "cycle", node |-> start, done |-> ran]
  BY <1>1, <1>3 DEF Walk
<1>5. CASE stops # {}
  <2>1. PICK k : k = CHOOSE n \in stops : TRUE
    OBVIOUS
  <2>2. k \in stops
    BY <1>5, <2>1
  <2>3. k \in Nodes(f)
    BY <1>2, <1>3, <2>2
  <2>4. w = [end |-> "approval", node |-> k, done |-> ran]
    BY <1>4, <1>5, <2>1
  <2>. QED BY <1>1, <1>2, <2>3, <2>4
<1>6. CASE stops = {} /\ ends # {}
  <2>1. PICK k : k = CHOOSE n \in ends : TRUE
    OBVIOUS
  <2>2. k \in ends
    BY <1>6, <2>1
  <2>3. k \in Nodes(f)
    BY <1>2, <1>3, <2>2
  <2>4. w = [end |-> "completed", node |-> k, done |-> ran]
    BY <1>4, <1>6, <2>1
  <2>. QED BY <1>1, <1>2, <2>3, <2>4
<1>7. CASE stops = {} /\ ends = {}
  BY <1>1, <1>2, <1>4, <1>7
<1>. QED BY <1>5, <1>6, <1>7

\* The request that goes on from start in the execution doc x.
Advances(r, x, id, start) ==
    /\ r \in WalkRequest /\ r.id = id /\ r.at \in {"approval", "completed", "cycle"}
    /\ r.doc \in FlowExecution(x.flow) /\ r.doc.done = x.done \cup Ran(x.flow, start, x.matches)
    /\ r.at = "approval" => r.doc.status = "waiting_approval"
    /\ r.at = "completed" => r.doc.status = "completed"

LEMMA AdvanceFacts ==
    ASSUME NEW f \in FlowDefinition, NEW x \in FlowExecution(f), NEW id \in Nat, NEW start \in Nodes(f)
    PROVE  Advances(AdvanceFrom(x, id, start), x, id, start)
<1>1. x.flow = f /\ x.matches \in BOOLEAN /\ x.done \subseteq Nodes(f)
  BY DEF FlowExecution
<1>2. PICK w : w = Walk(f, start, x.matches)
  OBVIOUS
<1>3. /\ w.end \in {"approval", "completed", "cycle"} /\ w.node \in Nodes(f)
      /\ w.done = Ran(f, start, x.matches) /\ w.done \subseteq Nodes(f)
  BY <1>1, <1>2, WalkFacts
<1>4. PICK s \in {"waiting_approval", "completed"} : s = IF w.end = "approval" THEN "waiting_approval" ELSE "completed"
  OBVIOUS
<1>5. PICK D \in SUBSET Nodes(f) : D = x.done \cup w.done
  BY <1>1, <1>3
<1>6. PICK doc \in FlowExecution(f) : doc = [x EXCEPT !.status = s, !.node = w.node, !.done = D]
  BY <1>3 DEF FlowExecution
<1>7. doc.status = s /\ doc.done = D
  BY <1>6 DEF FlowExecution
<1>8. doc = Advanced(x, w)
  BY <1>4, <1>5, <1>6 DEF Advanced
<1>9. PICK r : r = [at |-> w.end, id |-> id, doc |-> doc]
  OBVIOUS
<1>10. r = AdvanceFrom(x, id, start)
  BY <1>1, <1>2, <1>8, <1>9 DEF AdvanceFrom
<1>11. doc \in FlowRecord
  BY <1>6 DEF FlowRecord
<1>12. r \in WalkRequest /\ r.id = id /\ r.at = w.end /\ r.doc = doc
  BY <1>3, <1>9, <1>11 DEF WalkRequest
<1>. QED BY <1>1, <1>3, <1>4, <1>5, <1>6, <1>7, <1>10, <1>12 DEF Advances

-----------------------------------------------------------------------------
\* Records are only added; an execution keeps its flow, an approval its place, and
\* what was approved was approved.
Grows ==
    /\ DOMAIN executions \subseteq DOMAIN executions'
    /\ \A x \in DOMAIN executions : executions'[x].flow = executions[x].flow
    /\ DOMAIN approvals \subseteq DOMAIN approvals'
    /\ \A a \in DOMAIN approvals :
          approvals'[a].execution = approvals[a].execution /\ approvals'[a].node = approvals[a].node
    /\ approvedEver \subseteq approvedEver'

LEMMA OpenStays ==
    ASSUME Grows, NEW f, NEW x
    PROVE  OpenTo(f, x) \subseteq OpenTo(f, x)'
<1>1. PICK N, M : N = ApprovedNodes(x) /\ M = ApprovedNodes(x)'
  OBVIOUS
<1>2. N \subseteq M
  BY <1>1 DEF ApprovedNodes, Grows
<1>3. PICK S, T : /\ S = {FlowBodies[f].entry} \cup UNION {{Node(f, n).next[i] : i \in DOMAIN Node(f, n).next} : n \in N}
                  /\ T = {FlowBodies[f].entry} \cup UNION {{Node(f, n).next[i] : i \in DOMAIN Node(f, n).next} : n \in M}
  OBVIOUS
<1>4. S \subseteq T
  BY <1>2, <1>3
<1>5. OpenTo(f, x) = OpenFrom(f, S) /\ OpenTo(f, x)' = OpenFrom(f, T)
  BY <1>1, <1>3 DEF OpenTo, OpenFrom, ApprovedNodes, Nodes, Node
<1>. QED BY <1>4, <1>5, OpenGrows

LEMMA GatedStays ==
    ASSUME Grows, NEW r, RequestGated(r)
    PROVE  RequestGated(r)'
<1>1. CASE r \in WalkRequest
  <2>1. PICK f : f = executions[r.id].flow
    OBVIOUS
  <2>2. r.id \in DOMAIN executions /\ r.doc \in FlowExecution(f) /\ r.doc.done \subseteq OpenTo(f, r.id)
    BY <1>1, <2>1 DEF RequestGated
  <2>3. r.id \in DOMAIN executions' /\ executions'[r.id].flow = f
    BY <2>1, <2>2 DEF Grows
  <2>4. OpenTo(f, r.id) \subseteq OpenTo(f, r.id)'
    BY OpenStays
  <2>5. r.doc.done \subseteq OpenTo(f, r.id)'
    BY <2>2, <2>4
  <2>6. r.doc.done \subseteq OpenTo(executions[r.id].flow, r.id)'
    BY <2>3, <2>5
  <2>7. r \notin DecisionRequest
    BY <1>1 DEF WalkRequest, DecisionRequest
  <2>. QED BY <2>2, <2>3, <2>6, <2>7 DEF RequestGated
<1>2. CASE r \in DecisionRequest
  <2>1. r \notin WalkRequest
    BY <1>2 DEF WalkRequest, DecisionRequest
  <2>. QED BY <1>2, <2>1 DEF RequestGated, Grows
<1>3. CASE r \notin WalkRequest /\ r \notin DecisionRequest
  BY <1>3 DEF RequestGated
<1>. QED BY <1>1, <1>2, <1>3

LEMMA RecordStays ==
    ASSUME Grows, flows \subseteq flows', NEW x \in DOMAIN executions, executions'[x] = executions[x], RecordGated(x)
    PROVE  RecordGated(x)'
<1>1. PICK f, D : f = executions[x].flow /\ D = executions[x].done
  OBVIOUS
<1>2. f \in flows /\ executions[x] \in FlowExecution(f) /\ D \subseteq OpenTo(f, x)
  BY <1>1 DEF RecordGated
<1>3. D \subseteq OpenTo(f, x)'
  BY <1>2, OpenStays
<1>4. executions'[x].flow = f /\ executions'[x].done = D /\ executions'[x] \in FlowExecution(f) /\ f \in flows'
  BY <1>1, <1>2
<1>5. executions'[x].done \subseteq OpenTo(executions[x].flow, x)'
  BY <1>3, <1>4
<1>. QED BY <1>4, <1>5 DEF RecordGated

LEMMA ApprovalStays ==
    ASSUME Grows, NEW a \in DOMAIN approvals, ApprovalGated(a)
    PROVE  ApprovalGated(a)'
BY DEF Grows, ApprovalGated

\* The other requests stay as they are.
LEMMA OthersStay ==
    ASSUME FlowInv, Grows, NEW c \in Operators, NEW r, wreq' = [wreq EXCEPT ![c] = r], RequestGated(r)'
    PROVE  \A d \in Operators : RequestGated(wreq[d])'
<1>1. SUFFICES ASSUME NEW d \in Operators PROVE RequestGated(wreq[d])'
  OBVIOUS
<1>2. PICK q : q = wreq[d]
  OBVIOUS
<1>3. RequestGated(q)
  BY <1>2 DEF FlowInv
<1>4. RequestGated(q)'
  BY <1>3, GatedStays
<1>5. wreq'[d] = IF d = c THEN r ELSE q
  BY <1>2 DEF FlowInv, FlowTypes
<1>. QED BY <1>4, <1>5 DEF RequestGated

LEMMA IdleIsNothing == NoRequest \notin WalkRequest /\ NoRequest \notin DecisionRequest
BY DEF NoRequest, WalkRequest, DecisionRequest

LEMMA TidyFrom ==
    ASSUME FlowTypes, NEW c \in Operators, \A d \in Operators : d # c => wreq[d] = NoRequest,
           NEW r, wreq' = [wreq EXCEPT ![c] = r], OnePending', RequestTidy(r)',
           \A x \in DOMAIN executions' : ~WorksOn(r, x)' => StatusSuits(x)'
    PROVE  Tidy'
<1>1. \A d \in Operators : wreq'[d] = IF d = c THEN r ELSE NoRequest
  BY DEF FlowTypes
<1>2. \A a, d \in Operators : wreq'[a] # NoRequest /\ wreq'[d] # NoRequest => a = d
  BY <1>1
<1>3. ASSUME NEW x \in DOMAIN executions', \A d \in Operators : ~WorksOn(wreq[d], x)' PROVE StatusSuits(x)'
  <2>1. ~WorksOn(wreq[c], x)'
    BY <1>3
  <2>2. wreq'[c] = r
    BY <1>1
  <2>3. ~WorksOn(r, x)'
    BY <2>1, <2>2 DEF WorksOn
  <2>. QED BY <2>3
<1>4. ASSUME NEW d \in Operators PROVE RequestTidy(wreq[d])'
  <2>1. CASE d = c
    <3>1. wreq'[d] = r
      BY <1>1, <2>1
    <3>. QED BY <3>1 DEF RequestTidy
  <2>2. CASE d # c
    <3>1. wreq'[d] = NoRequest
      BY <1>1, <2>2
    <3>. QED BY <3>1, IdleIsNothing DEF RequestTidy
  <2>. QED BY <2>1, <2>2
<1>. QED BY <1>2, <1>3, <1>4 DEF Tidy

-----------------------------------------------------------------------------
\* A state that grew nowhere but in its flows and requests.
LEMMA UnchangedGrows ==
    ASSUME UNCHANGED <<executions, approvals, approvedEver>>, flows \subseteq flows', RecordsGated
    PROVE  Grows /\ RecordsGated'
<1>1. Grows
  BY DEF Grows
<1>2. \A x \in DOMAIN executions : RecordGated(x)'
  BY <1>1, RecordStays DEF RecordsGated
<1>3. \A a \in DOMAIN approvals : ApprovalGated(a)'
  BY <1>1, ApprovalStays DEF RecordsGated
<1>. QED BY <1>1, <1>2, <1>3 DEF RecordsGated

LEMMA TidySame ==
    ASSUME UNCHANGED <<executions, approvals, wreq>>, Tidy
    PROVE  Tidy'
<1>1. OnePending'
  BY DEF Tidy, OnePending
<1>2. \A x \in DOMAIN executions : StatusSuits(x) => StatusSuits(x)'
  BY DEF StatusSuits, Suits, Has
<1>3. \A x \in DOMAIN executions, c \in Operators : WorksOn(wreq[c], x)' <=> WorksOn(wreq[c], x)
  BY DEF WorksOn
<1>4. \A c \in Operators : RequestTidy(wreq[c])'
  BY DEF Tidy, RequestTidy, Suits, Has
<1>. QED BY <1>1, <1>2, <1>3, <1>4 DEF Tidy

LEMMA FlowCreation ==
    ASSUME FlowInv, NEW f \in DOMAIN FlowBodies, create_flow(f)
    PROVE  FlowInv'
<1>1. /\ UNCHANGED <<executions, approvals, wreq, approvedEver, disturbed>>
      /\ flows' = flows \cup {f} /\ f \in FlowDefinition
  BY DEF create_flow, FlowDefinition
<1>2. FlowTypes'
  BY <1>1 DEF FlowInv, FlowTypes
<1>3. Grows /\ RecordsGated'
  BY <1>1, UnchangedGrows DEF FlowInv
<1>4. ASSUME NEW c \in Operators PROVE RequestGated(wreq[c])'
  <2>1. PICK q : q = wreq[c]
    OBVIOUS
  <2>2. RequestGated(q)'
    BY <1>3, <2>1, GatedStays DEF FlowInv
  <2>. QED BY <1>1, <2>1, <2>2 DEF RequestGated
<1>5. ~disturbed' => Tidy'
  BY <1>1, TidySame DEF FlowInv
<1>. QED BY <1>2, <1>3, <1>4, <1>5 DEF FlowInv

\* A request that begins overlaps no other, or the state counts as disturbed.
LEMMA BeginFacts ==
    ASSUME FlowTypes, NEW c \in Operators, NEW r, Begin(c, r)
    PROVE  /\ wreq' = [wreq EXCEPT ![c] = r]
           /\ ~disturbed' => ~disturbed /\ \A d \in Operators : wreq[d] = NoRequest
BY DEF Begin

LEMMA FlowRequestEnds ==
    ASSUME FlowInv, NEW c \in Operators, wreq' = [wreq EXCEPT ![c] = NoRequest], disturbed',
           UNCHANGED <<flows, executions, approvals, approvedEver>>
    PROVE  FlowInv'
<1>1. FlowTypes'
  BY DEF FlowInv, FlowTypes
<1>2. Grows /\ RecordsGated'
  BY UnchangedGrows DEF FlowInv
<1>3. RequestGated(NoRequest)'
  BY IdleIsNothing DEF RequestGated
<1>4. PICK r : r = NoRequest
  OBVIOUS
<1>5. RequestGated(r)'
  BY <1>3, <1>4 DEF RequestGated
<1>6. \A d \in Operators : RequestGated(wreq[d])'
  BY <1>2, <1>4, <1>5, OthersStay
<1>. QED BY <1>1, <1>2, <1>6 DEF FlowInv

LEMMA FlowExecutionStarts ==
    ASSUME FlowInv, NEW c \in Operators, NEW f \in DOMAIN FlowBodies, NEW m \in BOOLEAN, execute_flow(c, f, m)
    PROVE  FlowInv'
<1>1. PICK x : x = [flow |-> f, matches |-> m, status |-> "running", node |-> FlowBodies[f].entry, done |-> {}]
  OBVIOUS
<1>2. PICK i : i = Len(executions) + 1
  OBVIOUS
<1>3. PICK r : r = AdvanceFrom(x, i, x.node)
  OBVIOUS
<1>4. /\ f \in flows /\ executions' = Append(executions, x)
      /\ Begin(c, r) /\ UNCHANGED <<flows, approvals, approvedEver>>
  BY <1>1, <1>2, <1>3 DEF execute_flow
<1>5. f \in FlowDefinition /\ FlowBodies[f].entry \in Nodes(f)
  BY <1>4 DEF FlowInv, FlowTypes, FlowDefinition, ValidFlow
<1>6. x \in FlowExecution(f) /\ x.flow = f /\ x.done = {} /\ x.node = FlowBodies[f].entry /\ x.matches = m
  BY <1>1, <1>5 DEF FlowExecution
<1>7. x \in FlowRecord
  BY <1>5, <1>6 DEF FlowRecord
<1>8. executions \in Seq(FlowRecord) /\ approvals \in Seq(ApprovalRecord)
  BY DEF FlowInv, FlowTypes
<1>9. /\ executions' \in Seq(FlowRecord) /\ DOMAIN executions' = DOMAIN executions \cup {i}
      /\ i \in Nat /\ i \notin DOMAIN executions /\ executions'[i] = x
      /\ \A k \in DOMAIN executions : executions'[k] = executions[k]
  <2>1. executions' \in Seq(FlowRecord) /\ Len(executions') = i
    BY <1>2, <1>4, <1>7, <1>8, AppendProperties
  <2>2. executions'[i] = x /\ \A k \in 1..Len(executions) : executions'[k] = executions[k]
    BY <1>2, <1>4, <1>7, <1>8, AppendProperties
  <2>3. Len(executions) \in Nat /\ DOMAIN executions = 1..Len(executions) /\ DOMAIN executions' = 1..Len(executions')
    BY <1>8, <2>1, LenProperties
  <2>. QED BY <1>2, <2>1, <2>2, <2>3
<1>10. Advances(r, x, i, x.node)
  BY <1>3, <1>5, <1>6, <1>9, AdvanceFacts
<1>11. wreq' = [wreq EXCEPT ![c] = r] /\ (~disturbed' => ~disturbed /\ \A d \in Operators : wreq[d] = NoRequest)
  BY <1>4, BeginFacts DEF FlowInv
<1>12. r \in WalkRequest /\ r.id = i
  BY <1>10 DEF Advances
<1>13. FlowTypes'
  BY <1>4, <1>9, <1>11, <1>12 DEF FlowInv, FlowTypes
<1>14. Grows
  BY <1>4, <1>9 DEF Grows
<1>15. RecordsGated'
  <2>1. \A k \in DOMAIN executions : RecordGated(k)'
    BY <1>4, <1>9, <1>14, RecordStays DEF FlowInv, RecordsGated
  <2>2. RecordGated(i)'
    BY <1>4, <1>6, <1>9 DEF RecordGated
  <2>3. \A a \in DOMAIN approvals : ApprovalGated(a)'
    BY <1>14, ApprovalStays DEF FlowInv, RecordsGated
  <2>. QED BY <1>4, <1>9, <2>1, <2>2, <2>3 DEF RecordsGated
<1>16. RequestGated(r)'
  <2>1. r.doc \in FlowExecution(f) /\ r.doc.done = Ran(f, FlowBodies[f].entry, m)
    BY <1>6, <1>10 DEF Advances
  <2>2. PICK S : S = {FlowBodies[f].entry} \cup
                     UNION {{Node(f, n).next[k] : k \in DOMAIN Node(f, n).next} : n \in ApprovedNodes(i)'}
    OBVIOUS
  <2>3. OpenTo(f, i)' = OpenFrom(f, S)
    BY <2>2 DEF OpenTo, OpenFrom, Nodes, Node
  <2>4. Ran(f, FlowBodies[f].entry, m) \subseteq OpenFrom(f, S)
    BY <1>5, <2>2, RanIsOpen
  <2>5. r.doc.done \subseteq OpenTo(f, i)'
    BY <2>1, <2>3, <2>4
  <2>6. r.doc.done \subseteq OpenTo(executions[r.id].flow, r.id)'
    BY <1>6, <1>9, <1>12, <2>5
  <2>7. r \notin DecisionRequest
    BY <1>12 DEF WalkRequest, DecisionRequest
  <2>. QED BY <1>6, <1>9, <1>12, <2>1, <2>6, <2>7 DEF RequestGated
<1>17. \A d \in Operators : RequestGated(wreq[d])'
  BY <1>11, <1>14, <1>16, OthersStay
<1>18. ASSUME ~disturbed' PROVE Tidy'
  <2>1. ~disturbed /\ Tidy /\ \A d \in Operators : wreq[d] = NoRequest
    BY <1>11, <1>18 DEF FlowInv
  <2>2. OnePending'
    BY <1>4, <2>1 DEF Tidy, OnePending
  <2>3. \A s : ~Has(i, s)'
    BY <1>4, <1>9 DEF Has, FlowInv, RecordsGated, ApprovalGated
  <2>4. RequestTidy(r)'
    <3>1. r \notin DecisionRequest
      BY <1>12 DEF WalkRequest, DecisionRequest
    <3>2. r.at = "completed" => Suits(r.id, r.doc.status)'
      BY <1>10, <1>12, <2>3 DEF Advances, Suits
    <3>3. r.at # "save_execution" /\ (r.at = "approval" => r.doc.status = "waiting_approval")
      BY <1>10 DEF Advances
    <3>4. ~Has(r.id, "pending")' /\ ~Has(r.id, "rejected")'
      BY <1>12, <2>3
    <3>. QED BY <3>1, <3>2, <3>3, <3>4 DEF RequestTidy
  <2>5. ASSUME NEW k \in DOMAIN executions', ~WorksOn(r, k)' PROVE StatusSuits(k)'
    <3>1. k # i
      BY <1>12, <2>5 DEF WorksOn
    <3>2. k \in DOMAIN executions /\ executions'[k] = executions[k]
      BY <1>9, <3>1
    <3>3. \A d \in Operators : ~WorksOn(wreq[d], k)
      BY <2>1, IdleIsNothing DEF WorksOn
    <3>4. StatusSuits(k)
      BY <2>1, <3>2, <3>3 DEF Tidy
    <3>. QED BY <1>4, <3>2, <3>4 DEF StatusSuits, Suits, Has
  <2>. QED BY <1>11, <2>1, <2>2, <2>4, <2>5, TidyFrom DEF FlowInv
<1>. QED BY <1>13, <1>15, <1>17, <1>18 DEF FlowInv

\* A walk under way, and the state it leaves others in.
LEMMA WalkUnderWay ==
    ASSUME FlowInv, NEW c \in Operators, wreq[c].at \in {"approval", "save_execution", "completed", "cycle"}
    PROVE  /\ wreq[c] \in WalkRequest /\ wreq[c] \notin DecisionRequest /\ wreq[c] # NoRequest
           /\ wreq[c].id \in DOMAIN executions /\ wreq[c].doc \in FlowExecution(executions[wreq[c].id].flow)
           /\ wreq[c].doc.done \subseteq OpenTo(executions[wreq[c].id].flow, wreq[c].id)
<1>1. wreq[c] \in {NoRequest} \cup WalkRequest \cup DecisionRequest
  BY DEF FlowInv, FlowTypes
<1>2. wreq[c] # NoRequest /\ wreq[c] \notin DecisionRequest
  BY DEF NoRequest, DecisionRequest
<1>3. RequestGated(wreq[c])
  BY DEF FlowInv
<1>. QED BY <1>1, <1>2, <1>3 DEF RequestGated

LEMMA DecisionUnderWay ==
    ASSUME FlowInv, NEW c \in Operators, wreq[c].at \in {"decide_flow", "read_execution"}
    PROVE  /\ wreq[c] \in DecisionRequest /\ wreq[c] \notin WalkRequest /\ wreq[c] # NoRequest
           /\ wreq[c].id \in DOMAIN approvals
           /\ wreq[c].at = "read_execution" /\ wreq[c].approved => wreq[c].id \in approvedEver
<1>1. wreq[c] \in {NoRequest} \cup WalkRequest \cup DecisionRequest
  BY DEF FlowInv, FlowTypes
<1>2. wreq[c] # NoRequest /\ wreq[c] \notin WalkRequest
  BY DEF NoRequest, WalkRequest
<1>3. RequestGated(wreq[c])
  BY DEF FlowInv
<1>. QED BY <1>1, <1>2, <1>3 DEF RequestGated

\* Without disturbance a request under way is the only one.
LEMMA OnlyFlowRequest ==
    ASSUME FlowInv, ~disturbed, NEW c \in Operators, NEW q, q = wreq[c], q # NoRequest
    PROVE  /\ \A d \in Operators : d # c => wreq[d] = NoRequest
           /\ OnePending /\ RequestTidy(q)
           /\ \A x \in DOMAIN executions : ~WorksOn(q, x) => StatusSuits(x)
<1>1. Tidy
  BY DEF FlowInv
<1>2. \A d \in Operators : d # c => wreq[d] = NoRequest
  BY <1>1 DEF Tidy
<1>3. ASSUME NEW x \in DOMAIN executions, ~WorksOn(q, x) PROVE StatusSuits(x)
  <2>1. \A d \in Operators : ~WorksOn(wreq[d], x)
    BY <1>2, <1>3, IdleIsNothing DEF WorksOn
  <2>. QED BY <1>1, <2>1 DEF Tidy
<1>4. OnePending /\ RequestTidy(q)
  BY <1>1 DEF Tidy
<1>. QED BY <1>2, <1>3, <1>4

LEMMA ApprovalSaved ==
    ASSUME FlowInv, NEW c \in Operators, SaveApproval(c)
    PROVE  FlowInv'
<1>1. PICK q : q = wreq[c]
  OBVIOUS
<1>2. PICK p : p = [execution |-> q.id, node |-> q.doc.node, status |-> "pending"]
  OBVIOUS
<1>3. PICK r : r = [q EXCEPT !.at = "save_execution"]
  OBVIOUS
<1>4. PICK i : i = Len(approvals) + 1
  OBVIOUS
<1>5. /\ q.at = "approval" /\ approvals' = Append(approvals, p)
      /\ wreq' = [wreq EXCEPT ![c] = r] /\ UNCHANGED <<flows, executions, approvedEver, disturbed>>
  BY <1>1, <1>2, <1>3 DEF SaveApproval, Continue
<1>6. PICK f : f = executions[q.id].flow
  OBVIOUS
<1>7. /\ q \in WalkRequest /\ q # NoRequest /\ q.id \in DOMAIN executions /\ q.doc \in FlowExecution(f)
      /\ q.doc.done \subseteq OpenTo(f, q.id)
  BY <1>1, <1>5, <1>6, WalkUnderWay
<1>8. r \in WalkRequest /\ r.id = q.id /\ r.doc = q.doc /\ r.at = "save_execution" /\ r \notin DecisionRequest
  BY <1>3, <1>7 DEF WalkRequest, DecisionRequest
<1>9. f \in flows /\ flows \subseteq FlowDefinition
  BY <1>6, <1>7 DEF FlowInv, FlowTypes, RecordsGated, RecordGated
<1>10. q.id \in Nat /\ q.doc.node \in Nodes(f)
  BY <1>7 DEF WalkRequest, FlowExecution
<1>11. p \in ApprovalRecord /\ p.execution = q.id /\ p.node = q.doc.node /\ p.status = "pending"
  BY <1>2, <1>9, <1>10 DEF ApprovalRecord
<1>12. approvals \in Seq(ApprovalRecord)
  BY DEF FlowInv, FlowTypes
<1>13. /\ approvals' \in Seq(ApprovalRecord) /\ DOMAIN approvals' = DOMAIN approvals \cup {i}
       /\ i \notin DOMAIN approvals /\ approvals'[i] = p
       /\ \A k \in DOMAIN approvals : approvals'[k] = approvals[k]
  <2>1. approvals' \in Seq(ApprovalRecord) /\ Len(approvals') = i
    BY <1>4, <1>5, <1>11, <1>12, AppendProperties
  <2>2. approvals'[i] = p /\ \A k \in 1..Len(approvals) : approvals'[k] = approvals[k]
    BY <1>4, <1>5, <1>11, <1>12, AppendProperties
  <2>3. Len(approvals) \in Nat /\ DOMAIN approvals = 1..Len(approvals) /\ DOMAIN approvals' = 1..Len(approvals')
    BY <1>12, <2>1, LenProperties
  <2>. QED BY <1>4, <2>1, <2>2, <2>3
<1>14. FlowTypes'
  BY <1>5, <1>8, <1>13 DEF FlowInv, FlowTypes
<1>15. Grows
  BY <1>5, <1>13 DEF Grows
<1>16. RecordsGated'
  <2>1. \A k \in DOMAIN executions : RecordGated(k)'
    BY <1>5, <1>15, RecordStays DEF FlowInv, RecordsGated
  <2>2. \A a \in DOMAIN approvals : ApprovalGated(a)'
    BY <1>15, ApprovalStays DEF FlowInv, RecordsGated
  <2>3. ApprovalGated(i)'
    BY <1>5, <1>6, <1>7, <1>10, <1>11, <1>13 DEF ApprovalGated
  <2>. QED BY <1>5, <1>13, <2>1, <2>2, <2>3 DEF RecordsGated
<1>17. RequestGated(r)'
  <2>1. r.doc.done \subseteq OpenTo(f, r.id)'
    BY <1>7, <1>8, <1>15, OpenStays
  <2>2. r.doc.done \subseteq OpenTo(executions[r.id].flow, r.id)'
    BY <1>5, <1>6, <1>8, <2>1
  <2>. QED BY <1>5, <1>6, <1>7, <1>8, <2>2 DEF RequestGated
<1>18. \A d \in Operators : RequestGated(wreq[d])'
  BY <1>5, <1>15, <1>17, OthersStay
<1>19. ASSUME ~disturbed' PROVE Tidy'
  <2>1. /\ \A d \in Operators : d # c => wreq[d] = NoRequest
        /\ OnePending /\ RequestTidy(q)
        /\ \A x \in DOMAIN executions : ~WorksOn(q, x) => StatusSuits(x)
    BY <1>1, <1>5, <1>7, <1>19, OnlyFlowRequest
  <2>2. q.doc.status = "waiting_approval" /\ ~Has(q.id, "pending") /\ ~Has(q.id, "rejected")
    BY <1>5, <1>7, <2>1 DEF RequestTidy
  <2>3. \A x, t : Has(x, t)' <=> Has(x, t) \/ (x = q.id /\ t = "pending")
    BY <1>11, <1>13 DEF Has
  <2>4. OnePending'
    BY <1>11, <1>13, <2>1, <2>2 DEF OnePending, Has
  <2>5. Suits(q.id, q.doc.status)'
    BY <2>2, <2>3 DEF Suits
  <2>6. RequestTidy(r)'
    <3>1. Suits(r.id, r.doc.status)'
      BY <1>8, <2>5
    <3>. QED BY <1>8, <3>1 DEF RequestTidy
  <2>7. ASSUME NEW x \in DOMAIN executions', ~WorksOn(r, x)' PROVE StatusSuits(x)'
    <3>1. x # q.id
      BY <1>8, <2>7 DEF WorksOn
    <3>2. ~WorksOn(q, x)
      BY <1>5, <1>7, <3>1 DEF WorksOn, DecisionRequest
    <3>3. StatusSuits(x)
      BY <1>5, <2>1, <3>2
    <3>. QED BY <1>5, <2>3, <3>1, <3>3 DEF StatusSuits, Suits
  <2>. QED BY <1>5, <2>1, <2>4, <2>6, <2>7, TidyFrom DEF FlowInv
<1>. QED BY <1>14, <1>16, <1>18, <1>19 DEF FlowInv

LEMMA ExecutionSaved ==
    ASSUME FlowInv, NEW c \in Operators, SaveExecution(c)
    PROVE  FlowInv'
<1>1. PICK q : q = wreq[c]
  OBVIOUS
<1>2. PICK r : r = NoRequest
  OBVIOUS
<1>3. /\ q.at \in {"save_execution", "completed"} /\ executions' = [executions EXCEPT ![q.id] = q.doc]
      /\ wreq' = [wreq EXCEPT ![c] = r] /\ UNCHANGED <<flows, approvals, approvedEver, disturbed>>
  BY <1>1, <1>2 DEF SaveExecution, Done, Continue
<1>4. PICK f : f = executions[q.id].flow
  OBVIOUS
<1>5. /\ q \in WalkRequest /\ q # NoRequest /\ q.id \in DOMAIN executions /\ q.doc \in FlowExecution(f)
      /\ q.doc.done \subseteq OpenTo(f, q.id)
  BY <1>1, <1>3, <1>4, WalkUnderWay
<1>6. f \in flows /\ flows \subseteq FlowDefinition /\ q.doc \in FlowRecord /\ q.doc.flow = f
  <2>1. f \in flows /\ flows \subseteq FlowDefinition
    BY <1>4, <1>5 DEF FlowInv, FlowTypes, RecordsGated, RecordGated
  <2>. QED BY <1>5, <2>1 DEF FlowRecord, FlowExecution
<1>7. /\ executions' \in Seq(FlowRecord) /\ DOMAIN executions' = DOMAIN executions /\ executions'[q.id] = q.doc
      /\ \A k \in DOMAIN executions : k # q.id => executions'[k] = executions[k]
  <2>1. executions \in Seq(FlowRecord)
    BY DEF FlowInv, FlowTypes
  <2>2. q.id \in 1..Len(executions)
    BY <1>5, <2>1, LenProperties
  <2>3. executions' \in Seq(FlowRecord)
    BY <1>3, <1>6, <2>1, <2>2, ExceptSeq
  <2>. QED BY <1>3, <1>5, <2>3
<1>8. FlowTypes'
  BY <1>2, <1>3, <1>7 DEF FlowInv, FlowTypes
<1>9. Grows
  BY <1>3, <1>4, <1>6, <1>7 DEF Grows
<1>10. RecordsGated'
  <2>1. ASSUME NEW k \in DOMAIN executions, k # q.id PROVE RecordGated(k)'
    BY <1>3, <1>7, <1>9, <2>1, RecordStays DEF FlowInv, RecordsGated
  <2>2. RecordGated(q.id)'
    <3>1. q.doc.done \subseteq OpenTo(f, q.id)'
      BY <1>5, <1>9, OpenStays
    <3>2. executions'[q.id].done \subseteq OpenTo(executions[q.id].flow, q.id)'
      BY <1>6, <1>7, <3>1
    <3>. QED BY <1>3, <1>5, <1>6, <1>7, <3>2 DEF RecordGated
  <2>3. \A a \in DOMAIN approvals : ApprovalGated(a)'
    BY <1>9, ApprovalStays DEF FlowInv, RecordsGated
  <2>. QED BY <1>3, <1>7, <2>1, <2>2, <2>3 DEF RecordsGated
<1>11. RequestGated(r)'
  BY <1>2, IdleIsNothing DEF RequestGated
<1>12. \A d \in Operators : RequestGated(wreq[d])'
  BY <1>3, <1>9, <1>11, OthersStay
<1>13. ASSUME ~disturbed' PROVE Tidy'
  <2>1. /\ \A d \in Operators : d # c => wreq[d] = NoRequest
        /\ OnePending /\ RequestTidy(q)
        /\ \A x \in DOMAIN executions : ~WorksOn(q, x) => StatusSuits(x)
    BY <1>1, <1>3, <1>5, <1>13, OnlyFlowRequest
  <2>2. OnePending'
    BY <1>3, <2>1 DEF OnePending
  <2>3. RequestTidy(r)'
    BY <1>2, IdleIsNothing DEF RequestTidy
  <2>4. ASSUME NEW x \in DOMAIN executions' PROVE StatusSuits(x)'
    <3>1. CASE x = q.id
      <4>1. Suits(x, executions'[x].status)
        BY <1>3, <1>5, <1>7, <2>1, <3>1 DEF RequestTidy
      <4>. QED BY <1>3, <4>1 DEF StatusSuits, Suits, Has
    <3>2. CASE x # q.id
      <4>1. ~WorksOn(q, x)
        BY <1>3, <1>5, <3>2 DEF WorksOn, DecisionRequest
      <4>2. StatusSuits(x) /\ executions'[x] = executions[x]
        BY <1>7, <2>1, <2>4, <3>2, <4>1
      <4>. QED BY <1>3, <4>2 DEF StatusSuits, Suits, Has
    <3>. QED BY <3>1, <3>2
  <2>. QED BY <1>3, <2>1, <2>2, <2>3, <2>4, TidyFrom DEF FlowInv
<1>. QED BY <1>8, <1>10, <1>12, <1>13 DEF FlowInv

LEMMA DecisionBegins ==
    ASSUME FlowInv, NEW c \in Operators, NEW a, NEW ok \in BOOLEAN, decide_flow_approval(c, a, ok)
    PROVE  FlowInv'
<1>1. PICK r : r = [at |-> "decide_flow", id |-> a, approved |-> ok]
  OBVIOUS
<1>2. /\ a \in DOMAIN approvals /\ approvals[a].status = "pending" /\ Begin(c, r)
      /\ UNCHANGED <<flows, executions, approvals, approvedEver>>
  BY <1>1 DEF decide_flow_approval
<1>3. a \in Nat
  <2>1. approvals \in Seq(ApprovalRecord)
    BY DEF FlowInv, FlowTypes
  <2>. QED BY <1>2, <2>1, LenProperties
<1>4. r \in DecisionRequest /\ r.id = a /\ r.at = "decide_flow" /\ r \notin WalkRequest
  BY <1>1, <1>3 DEF DecisionRequest, WalkRequest
<1>5. wreq' = [wreq EXCEPT ![c] = r] /\ (~disturbed' => ~disturbed /\ \A d \in Operators : wreq[d] = NoRequest)
  BY <1>2, BeginFacts DEF FlowInv
<1>6. FlowTypes'
  BY <1>2, <1>4, <1>5 DEF FlowInv, FlowTypes
<1>7. Grows /\ RecordsGated'
  BY <1>2, UnchangedGrows DEF FlowInv
<1>8. RequestGated(r)'
  BY <1>2, <1>4 DEF RequestGated
<1>9. \A d \in Operators : RequestGated(wreq[d])'
  BY <1>5, <1>7, <1>8, OthersStay
<1>10. ASSUME ~disturbed' PROVE Tidy'
  <2>1. ~disturbed /\ Tidy /\ \A d \in Operators : wreq[d] = NoRequest
    BY <1>5, <1>10 DEF FlowInv
  <2>2. OnePending'
    BY <1>2, <2>1 DEF Tidy, OnePending
  <2>3. RequestTidy(r)'
    BY <1>2, <1>4 DEF RequestTidy
  <2>4. ASSUME NEW x \in DOMAIN executions' PROVE StatusSuits(x)'
    <3>1. \A d \in Operators : ~WorksOn(wreq[d], x)
      BY <2>1, IdleIsNothing DEF WorksOn
    <3>2. StatusSuits(x)
      BY <1>2, <2>1, <2>4, <3>1 DEF Tidy
    <3>. QED BY <1>2, <3>2 DEF StatusSuits, Suits, Has
  <2>. QED BY <1>5, <2>1, <2>2, <2>3, <2>4, TidyFrom DEF FlowInv
<1>. QED BY <1>6, <1>7, <1>9, <1>10 DEF FlowInv

LEMMA FlowDecisionSaved ==
    ASSUME FlowInv, NEW c \in Operators, SaveFlowDecision(c)
    PROVE  FlowInv'
<1>1. PICK q : q = wreq[c]
  OBVIOUS
<1>2. PICK r : r = [q EXCEPT !.at = "read_execution"]
  OBVIOUS
<1>3. PICK t \in {"approved", "rejected"} : t = IF q.approved THEN "approved" ELSE "rejected"
  OBVIOUS
<1>4. /\ q.at = "decide_flow" /\ approvals' = [approvals EXCEPT ![q.id].status = t]
      /\ approvedEver' = IF q.approved THEN approvedEver \cup {q.id} ELSE approvedEver
      /\ wreq' = [wreq EXCEPT ![c] = r] /\ UNCHANGED <<flows, executions, disturbed>>
  BY <1>1, <1>2, <1>3 DEF SaveFlowDecision, Continue
<1>5. q \in DecisionRequest /\ q # NoRequest /\ q.id \in DOMAIN approvals
  BY <1>1, <1>4, DecisionUnderWay
<1>6. r \in DecisionRequest /\ r.id = q.id /\ r.approved = q.approved /\ r.at = "read_execution" /\ r \notin WalkRequest
  BY <1>2, <1>5 DEF DecisionRequest, WalkRequest
<1>7. approvals \in Seq(ApprovalRecord)
  BY DEF FlowInv, FlowTypes
<1>8. q.id \in 1..Len(approvals) /\ approvals[q.id] \in ApprovalRecord
  BY <1>5, <1>7, LenProperties, ElementOfSeq
<1>9. PICK p \in ApprovalRecord : p = [approvals[q.id] EXCEPT !.status = t]
  BY <1>8 DEF ApprovalRecord
<1>10. p.execution = approvals[q.id].execution /\ p.node = approvals[q.id].node /\ p.status = t
  BY <1>8, <1>9 DEF ApprovalRecord
<1>11. /\ approvals' \in Seq(ApprovalRecord) /\ DOMAIN approvals' = DOMAIN approvals /\ approvals'[q.id] = p
       /\ \A k \in DOMAIN approvals : k # q.id => approvals'[k] = approvals[k]
  <2>1. approvals' = [approvals EXCEPT ![q.id] = p]
    BY <1>4, <1>9
  <2>2. approvals' \in Seq(ApprovalRecord)
    BY <1>7, <1>8, <1>9, <2>1, ExceptSeq
  <2>. QED BY <1>5, <2>1, <2>2
<1>12. approvedEver' \subseteq DOMAIN approvals /\ approvedEver \subseteq approvedEver' /\ (q.approved => q.id \in approvedEver')
  BY <1>4, <1>5 DEF FlowInv, FlowTypes
<1>13. FlowTypes'
  BY <1>4, <1>6, <1>11, <1>12 DEF FlowInv, FlowTypes
<1>14. Grows
  BY <1>4, <1>10, <1>11, <1>12 DEF Grows
<1>15. RecordsGated'
  <2>1. \A k \in DOMAIN executions : RecordGated(k)'
    BY <1>4, <1>14, RecordStays DEF FlowInv, RecordsGated
  <2>2. \A a \in DOMAIN approvals : ApprovalGated(a)'
    BY <1>14, ApprovalStays DEF FlowInv, RecordsGated
  <2>. QED BY <1>4, <1>11, <2>1, <2>2 DEF RecordsGated
<1>16. RequestGated(r)'
  BY <1>5, <1>6, <1>11, <1>12 DEF RequestGated
<1>17. \A d \in Operators : RequestGated(wreq[d])'
  BY <1>4, <1>14, <1>16, OthersStay
<1>18. ASSUME ~disturbed' PROVE Tidy'
  <2>1. /\ \A d \in Operators : d # c => wreq[d] = NoRequest
        /\ OnePending /\ RequestTidy(q)
        /\ \A x \in DOMAIN executions : ~WorksOn(q, x) => StatusSuits(x)
    BY <1>1, <1>4, <1>5, <1>18, OnlyFlowRequest
  <2>2. PICK e : e = approvals[q.id].execution
    OBVIOUS
  <2>3. approvals[q.id].status = "pending" /\ e \in DOMAIN executions
    BY <1>4, <1>5, <2>1, <2>2 DEF RequestTidy, FlowInv, RecordsGated, ApprovalGated
  <2>4. \A x \in DOMAIN executions : StatusSuits(x)
    <3>1. \A x : ~WorksOn(q, x)
      BY <1>4, <1>5 DEF WorksOn, DecisionRequest, WalkRequest
    <3>. QED BY <2>1, <3>1
  <2>5. Has(e, "pending")
    BY <1>5, <2>2, <2>3 DEF Has
  <2>6. ~Has(e, "rejected")
    BY <2>3, <2>4, <2>5 DEF StatusSuits, Suits
  <2>7. ~Has(e, "pending")'
    <3>1. ASSUME NEW a \in DOMAIN approvals, approvals'[a].execution = e, approvals'[a].status = "pending" PROVE FALSE
      <4>1. a # q.id
        BY <1>3, <1>10, <1>11, <3>1
      <4>2. approvals[a].execution = e /\ approvals[a].status = "pending"
        BY <1>11, <3>1, <4>1
      <4>. QED BY <1>5, <2>1, <2>2, <2>3, <4>1, <4>2 DEF OnePending
    <3>. QED BY <1>11, <3>1 DEF Has
  <2>8. Has(e, "rejected")' <=> t = "rejected"
    BY <1>5, <1>10, <1>11, <2>2, <2>6 DEF Has
  <2>9. \A x, u : x # e => (Has(x, u)' <=> Has(x, u))
    BY <1>10, <1>11, <2>2 DEF Has
  <2>10. OnePending'
    BY <1>3, <1>10, <1>11, <2>1 DEF OnePending
  <2>11. approvals'[r.id].execution = e
    BY <1>6, <1>10, <1>11, <2>2
  <2>12. t = "rejected" <=> ~q.approved
    BY <1>3
  <2>13. RequestTidy(r)'
    <3>1. ~Has(approvals[r.id].execution, "pending")'
      BY <2>7, <2>11 DEF Has
    <3>2. Has(approvals[r.id].execution, "rejected")' <=> ~r.approved
      BY <1>6, <2>8, <2>11, <2>12 DEF Has
    <3>. QED BY <1>6, <3>1, <3>2 DEF RequestTidy
  <2>14. ASSUME NEW x \in DOMAIN executions', ~WorksOn(r, x)' PROVE StatusSuits(x)'
    <3>1. x # e
      BY <1>6, <2>11, <2>14 DEF WorksOn
    <3>2. StatusSuits(x)
      BY <1>4, <2>4, <2>14
    <3>. QED BY <1>4, <2>9, <3>1, <3>2 DEF StatusSuits, Suits
  <2>. QED BY <1>4, <2>1, <2>10, <2>13, <2>14, TidyFrom DEF FlowInv
<1>. QED BY <1>13, <1>15, <1>17, <1>18 DEF FlowInv

\* What a decision makes of its execution: the node after a granted approval is
\* open to it, so the walk from there is.
Outcome(r, e, x, ok) ==
    /\ r \in WalkRequest /\ r.id = e /\ r.doc \in FlowExecution(x.flow)
    /\ r.doc.done \subseteq OpenTo(x.flow, e)
    /\ r.at \in {"approval", "completed", "cycle"} => ok
    /\ r.at = "approval" => r.doc.status = "waiting_approval"
    /\ r.at = "completed" => r.doc.status = "completed"
    /\ r.at = "save_execution" => r.doc.status = IF ok THEN "completed" ELSE "rejected"

LEMMA DecisionOutcome ==
    ASSUME FlowInv, NEW c \in Operators, wreq[c].at = "read_execution",
           NEW r, r = Decided(wreq[c]), NEW e, e = approvals[wreq[c].id].execution
    PROVE  e \in DOMAIN executions /\ Outcome(r, e, executions[e], wreq[c].approved)
<1>1. PICK q : q = wreq[c]
  OBVIOUS
<1>2. /\ q \in DecisionRequest /\ q.id \in DOMAIN approvals /\ (q.approved => q.id \in approvedEver)
  BY <1>1, DecisionUnderWay
<1>3. PICK n : n = approvals[q.id].node
  OBVIOUS
<1>4. PICK x, f : x = executions[e] /\ f = x.flow
  OBVIOUS
<1>5. e \in DOMAIN executions /\ n \in Nodes(f)
  BY <1>1, <1>2, <1>3, <1>4 DEF FlowInv, RecordsGated, ApprovalGated
<1>6. f \in FlowDefinition /\ x \in FlowExecution(f) /\ x.done \subseteq OpenTo(f, e)
  BY <1>4, <1>5 DEF FlowInv, FlowTypes, RecordsGated, RecordGated
<1>7. e \in Nat
  <2>1. executions \in Seq(FlowRecord)
    BY DEF FlowInv, FlowTypes
  <2>. QED BY <1>5, <2>1, LenProperties
<1>8. PICK after : after = NextNode(f, n, TRUE)
  OBVIOUS
<1>9. CASE q.approved /\ after # ""
  <2>1. PICK i \in DOMAIN Node(f, n).next : Node(f, n).next[i] = after
    BY <1>5, <1>6, <1>8, <1>9, NextIsNode
  <2>2. after \in Nodes(f)
    BY <1>5, <1>6, <1>8, <1>9, NextIsNode
  <2>3. PICK y \in FlowExecution(f) : y = [x EXCEPT !.status = "running"]
    BY <1>6 DEF FlowExecution
  <2>4. y.flow = f /\ y.done = x.done /\ y.matches \in BOOLEAN
    BY <1>6, <2>3 DEF FlowExecution
  <2>5. r = AdvanceFrom(y, e, after)
    BY <1>1, <1>3, <1>4, <1>8, <1>9, <2>3 DEF Decided
  <2>6. Advances(r, y, e, after)
    BY <1>6, <1>7, <2>2, <2>5, AdvanceFacts
  <2>7. PICK S : S = {FlowBodies[f].entry} \cup
                     UNION {{Node(f, k).next[j] : j \in DOMAIN Node(f, k).next} : k \in ApprovedNodes(e)}
    OBVIOUS
  <2>8. OpenTo(f, e) = OpenFrom(f, S)
    BY <2>7 DEF OpenTo
  <2>9. n \in ApprovedNodes(e)
    BY <1>1, <1>2, <1>3, <1>9 DEF ApprovedNodes
  <2>10. after \in S
    BY <2>1, <2>7, <2>9
  <2>11. Ran(f, after, y.matches) \subseteq OpenTo(f, e)
    BY <1>6, <2>4, <2>8, <2>10, RanIsOpen
  <2>12. r.doc.done \subseteq OpenTo(f, e)
    BY <1>6, <2>4, <2>6, <2>11 DEF Advances
  <2>13. r.at # "save_execution"
    BY <2>6 DEF Advances
  <2>. QED BY <1>1, <1>4, <1>5, <1>9, <2>4, <2>6, <2>12, <2>13 DEF Outcome, Advances
<1>10. CASE ~(q.approved /\ after # "")
  <2>1. PICK t \in {"completed", "rejected"} : t = IF q.approved THEN "completed" ELSE "rejected"
    OBVIOUS
  <2>2. PICK y \in FlowExecution(f) : y = [x EXCEPT !.status = t]
    BY <1>6 DEF FlowExecution
  <2>3. y.flow = f /\ y.done = x.done /\ y.status = t /\ y \in FlowRecord
    BY <1>6, <2>2 DEF FlowExecution, FlowRecord
  <2>4. r = [at |-> "save_execution", id |-> e, doc |-> y]
    BY <1>1, <1>3, <1>4, <1>8, <1>10, <2>1, <2>2 DEF Decided
  <2>5. r \in WalkRequest /\ r.id = e /\ r.doc = y /\ r.at = "save_execution"
    BY <1>7, <2>3, <2>4 DEF WalkRequest
  <2>. QED BY <1>1, <1>4, <1>5, <1>6, <2>1, <2>2, <2>3, <2>5 DEF Outcome
<1>. QED BY <1>9, <1>10

LEMMA ExecutionRead ==
    ASSUME FlowInv, NEW c \in Operators, ReadExecution(c)
    PROVE  FlowInv'
<1>1. PICK q : q = wreq[c]
  OBVIOUS
<1>2. PICK r, e : r = Decided(q) /\ e = approvals[q.id].execution
  OBVIOUS
<1>3. /\ q.at = "read_execution" /\ wreq' = [wreq EXCEPT ![c] = r]
      /\ UNCHANGED <<flows, executions, approvals, approvedEver, disturbed>>
  BY <1>1, <1>2 DEF ReadExecution, Continue
<1>4. e \in DOMAIN executions /\ Outcome(r, e, executions[e], q.approved)
  BY <1>1, <1>2, <1>3, DecisionOutcome
<1>5. r \in WalkRequest /\ r.id = e /\ r \notin DecisionRequest
  BY <1>4 DEF Outcome, WalkRequest, DecisionRequest
<1>6. FlowTypes'
  BY <1>3, <1>5 DEF FlowInv, FlowTypes
<1>7. Grows /\ RecordsGated'
  BY <1>3, UnchangedGrows DEF FlowInv
<1>8. RequestGated(r)
  BY <1>4, <1>5 DEF RequestGated, Outcome
<1>9. RequestGated(r)'
  BY <1>7, <1>8, GatedStays
<1>10. \A d \in Operators : RequestGated(wreq[d])'
  BY <1>3, <1>7, <1>9, OthersStay
<1>11. ASSUME ~disturbed' PROVE Tidy'
  <2>1. q \in DecisionRequest /\ q \notin WalkRequest /\ q # NoRequest /\ q.id \in DOMAIN approvals
    BY <1>1, <1>3, DecisionUnderWay
  <2>2. /\ \A d \in Operators : d # c => wreq[d] = NoRequest
        /\ OnePending /\ RequestTidy(q)
        /\ \A x \in DOMAIN executions : ~WorksOn(q, x) => StatusSuits(x)
    BY <1>1, <1>3, <1>11, <2>1, OnlyFlowRequest
  <2>3. ~Has(e, "pending") /\ (Has(e, "rejected") <=> ~q.approved)
    BY <1>2, <1>3, <2>1, <2>2 DEF RequestTidy
  <2>4. \A x, u : Has(x, u)' <=> Has(x, u)
    BY <1>3 DEF Has
  <2>5. OnePending'
    BY <1>3, <2>2 DEF OnePending
  <2>6. RequestTidy(r)'
    <3>1. r.at \in {"save_execution", "completed"} => Suits(r.id, r.doc.status)'
      BY <1>4, <1>5, <2>3, <2>4 DEF Outcome, Suits
    <3>2. r.at = "approval" =>
             r.doc.status = "waiting_approval" /\ ~Has(r.id, "pending")' /\ ~Has(r.id, "rejected")'
      BY <1>4, <1>5, <2>3, <2>4 DEF Outcome
    <3>. QED BY <1>5, <3>1, <3>2 DEF RequestTidy
  <2>7. ASSUME NEW x \in DOMAIN executions', ~WorksOn(r, x)' PROVE StatusSuits(x)'
    <3>1. x # e
      BY <1>5, <2>7 DEF WorksOn
    <3>2. ~WorksOn(q, x)
      BY <1>2, <2>1, <3>1 DEF WorksOn
    <3>3. StatusSuits(x)
      BY <1>3, <2>2, <2>7, <3>2
    <3>. QED BY <1>3, <2>4, <3>3 DEF StatusSuits, Suits
  <2>. QED BY <1>3, <2>2, <2>5, <2>6, <2>7, TidyFrom DEF FlowInv
<1>. QED BY <1>6, <1>7, <1>10, <1>11 DEF FlowInv

-----------------------------------------------------------------------------
LEMMA FlowInitially == WorkflowInit => FlowInv
<1>. SUFFICES ASSUME WorkflowInit PROVE FlowInv
  OBVIOUS
<1>1. executions = << >> /\ approvals = << >> /\ \A c \in Operators : wreq[c] = NoRequest
  BY DEF WorkflowInit
<1>2. DOMAIN executions = {} /\ DOMAIN approvals = {}
  BY <1>1
<1>3. FlowTypes
  BY <1>1 DEF WorkflowInit, FlowTypes
<1>4. RecordsGated
  BY <1>2 DEF RecordsGated
<1>5. \A c \in Operators : RequestGated(wreq[c])
  BY <1>1, IdleIsNothing DEF RequestGated
<1>6. Tidy
  BY <1>1, <1>2, IdleIsNothing DEF Tidy, OnePending, RequestTidy
<1>. QED BY <1>3, <1>4, <1>5, <1>6 DEF FlowInv

LEMMA FlowStep == FlowInv /\ [WorkflowNext]_workflowVars => FlowInv'
<1>. SUFFICES ASSUME FlowInv, [WorkflowNext]_workflowVars PROVE FlowInv'
  OBVIOUS
<1>1. ASSUME NEW f \in DOMAIN FlowBodies, create_flow(f) PROVE FlowInv'
  BY <1>1, FlowCreation
<1>2. ASSUME NEW c \in Operators, NEW f \in DOMAIN FlowBodies, NEW m \in BOOLEAN, execute_flow(c, f, m) PROVE FlowInv'
  BY <1>2, FlowExecutionStarts
<1>3. ASSUME NEW c \in Operators, SaveApproval(c) PROVE FlowInv'
  BY <1>3, ApprovalSaved
<1>4. ASSUME NEW c \in Operators, SaveExecution(c) PROVE FlowInv'
  BY <1>4, ExecutionSaved
<1>5. ASSUME NEW c \in Operators, FlowCycle(c) PROVE FlowInv'
  BY <1>5, FlowRequestEnds DEF FlowCycle
<1>6. ASSUME NEW c \in Operators, NEW a \in 1..MaxApprovals, NEW ok \in BOOLEAN, decide_flow_approval(c, a, ok) PROVE FlowInv'
  BY <1>6, DecisionBegins
<1>7. ASSUME NEW c \in Operators, SaveFlowDecision(c) PROVE FlowInv'
  BY <1>7, FlowDecisionSaved
<1>8. ASSUME NEW c \in Operators, ReadExecution(c) PROVE FlowInv'
  BY <1>8, ExecutionRead
<1>9. ASSUME NEW c \in Operators, AbortOperator(c) PROVE FlowInv'
  BY <1>9, FlowRequestEnds DEF AbortOperator
<1>10. CASE UNCHANGED workflowVars
  <2>1. UNCHANGED <<flows, executions, approvals, wreq, approvedEver, disturbed>>
    BY <1>10 DEF workflowVars
  <2>2. FlowTypes'
    BY <2>1 DEF FlowInv, FlowTypes
  <2>3. Grows /\ RecordsGated'
    BY <2>1, UnchangedGrows DEF FlowInv
  <2>4. ASSUME NEW c \in Operators PROVE RequestGated(wreq[c])'
    <3>1. PICK q : q = wreq[c]
      OBVIOUS
    <3>2. RequestGated(q)'
      BY <2>3, <3>1, GatedStays DEF FlowInv
    <3>. QED BY <2>1, <3>1, <3>2 DEF RequestGated
  <2>5. ~disturbed' => Tidy'
    BY <2>1, TidySame DEF FlowInv
  <2>. QED BY <2>2, <2>3, <2>4, <2>5 DEF FlowInv
<1>. QED BY <1>1, <1>2, <1>3, <1>4, <1>5, <1>6, <1>7, <1>8, <1>9, <1>10 DEF WorkflowNext

LEMMA FlowGates == FlowInv => ApprovalGate
<1>. SUFFICES ASSUME FlowInv PROVE ApprovalGate
  OBVIOUS
<1>1. flows \subseteq FlowDefinition /\ approvedEver \subseteq DOMAIN approvals /\ approvals \in Seq(ApprovalRecord)
  BY DEF FlowInv, FlowTypes
<1>2. \A x \in DOMAIN executions : \E f \in flows : executions[x] \in FlowExecution(f)
  BY DEF FlowInv, RecordsGated, RecordGated
<1>3. ASSUME NEW a \in DOMAIN approvals PROVE approvals[a] \in FlowApproval
  <2>1. approvals[a] \in ApprovalRecord
    BY <1>1, LenProperties, ElementOfSeq
  <2>2. approvals[a].execution \in DOMAIN executions /\ approvals[a].node \in UNION {Nodes(f) : f \in flows}
    BY DEF FlowInv, RecordsGated, RecordGated, ApprovalGated
  <2>. QED BY <2>1, <2>2 DEF ApprovalRecord, FlowApproval
<1>4. WorkflowTypeOK
  BY <1>1, <1>2, <1>3 DEF WorkflowTypeOK
<1>5. \A x \in DOMAIN executions : executions[x].done \subseteq OpenTo(executions[x].flow, x)
  BY DEF FlowInv, RecordsGated, RecordGated
<1>6. ASSUME ~disturbed, \A c \in Operators : wreq[c] = NoRequest, NEW x \in DOMAIN executions
      PROVE  /\ executions[x].status = "waiting_approval" <=> Has(x, "pending")
             /\ executions[x].status = "rejected" <=> Has(x, "rejected")
  <2>1. \A c \in Operators : ~WorksOn(wreq[c], x)
    BY <1>6, IdleIsNothing DEF WorksOn
  <2>2. StatusSuits(x)
    BY <1>6, <2>1 DEF FlowInv, Tidy
  <2>. QED BY <2>2 DEF StatusSuits, Suits
<1>7. ASSUME ~disturbed /\ \A c \in Operators : wreq[c] = NoRequest, NEW x \in DOMAIN executions
      PROVE  LET mine == {a \in DOMAIN approvals : approvals[a].execution = x} IN
             /\ executions[x].status = "waiting_approval" <=> \E a \in mine : approvals[a].status = "pending"
             /\ executions[x].status = "rejected" <=> \E a \in mine : approvals[a].status = "rejected"
  BY <1>6, <1>7 DEF Has
<1>8. \A x \in DOMAIN executions :
          LET f == executions[x].flow
              after == UNION {{Node(f, n).next[i] : i \in DOMAIN Node(f, n).next} : n \in ApprovedNodes(x)}
          IN executions[x].done \subseteq OpenFrom(f, {FlowBodies[f].entry} \cup after)
  BY <1>5 DEF OpenTo
<1>. QED BY <1>4, <1>7, <1>8 DEF ApprovalGate

\* Every behaviour of the flow handlers keeps their approvals fail-closed.
THEOREM FlowsAreGated == WorkflowSpec => []ApprovalGate
<1>1. WorkflowSpec => []FlowInv
  BY FlowInitially, FlowStep, PTL DEF WorkflowSpec
<1>. QED BY <1>1, FlowGates, PTL
==============================================================================
