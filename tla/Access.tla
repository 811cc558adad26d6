------------------------------- MODULE Access -------------------------------
(***************************************************************************)
(* Identity and access: the records of AccessService, API-key and session  *)
(* authentication of a request (principal_context), and the bootstrap of   *)
(* the administrator at start-up.  Authentication awaits the repository    *)
(* several times, so revocations, expiry and purges fall between its reads *)
(* and the write of last_used_at.                                          *)
(***************************************************************************)
EXTENDS Integers, Sequences, FiniteSets

CONSTANTS
    HttpRequests,    \* requests that may be in flight together
    ApiKeys,         \* key -> [scopes, products, expires_at]: create_api_key bodies
    AccountScopes, AccountProducts,   \* of the service account
    Products,        \* products a project may be entitled to
    Sessions,        \* interactive sessions the user may open
    SessionTtl,      \* ttl_seconds of a session
    UsedEvery,       \* last_used_at is refreshed at this age
    Servers,         \* processes that bootstrap the administrator
    AccessClock      \* bound of the clock

ASSUME AccessAssumption == SessionTtl \in Nat

VARIABLES
    xclock, serviceAccount, keys, entitlements, user, sessions,
    xreq,            \* HTTP requests being authenticated
    revokedEver,     \* history: keys whose revocation was saved
    expiry,          \* history: when each session issued expires, 0 for none
    booted,          \* records the bootstrap has created
    boot             \* the bootstrap step each server is at

accessVars == <<xclock, serviceAccount, keys, entitlements, user, sessions, xreq, revokedEver,
                expiry, booted, boot>>

bootVars == <<booted, boot>>
historyVars == <<revokedEver, expiry>>

Missing == [none |-> TRUE]
Free == [at |-> "idle"]
------------------------------------------------------------------------------
(* Service accounts, keys, entitlements and users *)

\* Scopes are <<resource, action>> pairs, <<"*">> the wildcard.
ScopeWithin(s, granted) ==
    <<"*">> \in granted \/ s \in granted \/ (Len(s) = 2 /\ <<s[1], "*">> \in granted)

ScopesWithin(requested, granted) == \A s \in requested : ScopeWithin(s, granted)

create_service_account ==
    /\ serviceAccount = Missing
    /\ serviceAccount' = [disabled |-> FALSE]
    /\ UNCHANGED <<xclock, keys, entitlements, user, sessions, xreq, historyVars, bootVars>>

set_service_account_disabled(disabled) ==
    /\ serviceAccount # Missing
    /\ serviceAccount' = [disabled |-> disabled]
    /\ UNCHANGED <<xclock, keys, entitlements, user, sessions, xreq, historyVars, bootVars>>

KeyAllowed(body) ==
    /\ ScopesWithin(body.scopes, AccountScopes)
    /\ body.products \subseteq AccountProducts

create_api_key(k) ==
    /\ serviceAccount # Missing /\ keys[k] = Missing
    /\ KeyAllowed(ApiKeys[k])
    /\ keys' = [keys EXCEPT ![k] = [revoked |-> FALSE, last_used |-> -1]]
    /\ UNCHANGED <<xclock, serviceAccount, entitlements, user, sessions, xreq, historyVars, bootVars>>

revoke_api_key(k) ==
    /\ keys[k] # Missing
    /\ keys' = [keys EXCEPT ![k].revoked = TRUE]
    /\ revokedEver' = revokedEver \cup {k}
    /\ UNCHANGED <<xclock, serviceAccount, entitlements, user, sessions, xreq, expiry, bootVars>>

create_product_entitlement(p) ==
    /\ entitlements[p] = "none"
    /\ entitlements' = [entitlements EXCEPT ![p] = "active"]
    /\ UNCHANGED <<xclock, serviceAccount, keys, user, sessions, xreq, historyVars, bootVars>>

update_product_entitlement(p, status) ==
    /\ entitlements[p] # "none"
    /\ entitlements' = [entitlements EXCEPT ![p] = status]
    /\ UNCHANGED <<xclock, serviceAccount, keys, user, sessions, xreq, historyVars, bootVars>>

create_user ==
    /\ user = Missing
    /\ user' = [disabled |-> FALSE]
    /\ UNCHANGED <<xclock, serviceAccount, keys, entitlements, sessions, xreq, historyVars, bootVars>>

set_user_disabled(disabled) ==
    /\ user # Missing
    /\ user' = [disabled |-> disabled]
    /\ UNCHANGED <<xclock, serviceAccount, keys, entitlements, sessions, xreq, historyVars, bootVars>>

\* _issue_session: the user resolves to a context, so it exists and is enabled.
issue_session(s) ==
    /\ user # Missing /\ ~ user.disabled
    /\ expiry[s] = 0
    /\ sessions' = [sessions EXCEPT ![s] = [expires |-> xclock + SessionTtl, last_used |-> -1]]
    /\ expiry' = [expiry EXCEPT ![s] = xclock + SessionTtl]
    /\ UNCHANGED <<xclock, serviceAccount, keys, entitlements, user, xreq, revokedEver, bootVars>>

purge_expired_sessions ==
    /\ sessions' = [s \in Sessions |->
           IF sessions[s] # Missing /\ sessions[s].expires <= xclock THEN Missing ELSE sessions[s]]
    /\ UNCHANGED <<xclock, serviceAccount, keys, entitlements, user, xreq, historyVars, bootVars>>
------------------------------------------------------------------------------
(* Authentication of an HTTP request *)

Resume(h, r) == xreq' = [xreq EXCEPT ![h] = r]
OnlyRequest == <<xclock, serviceAccount, keys, entitlements, user, sessions, historyVars, bootVars>>

KeyLive(k) ==
    /\ keys[k] # Missing /\ ~ keys[k].revoked
    /\ ApiKeys[k].expires_at > xclock

\* get_api_key_by_sha256 and the checks on the record.
authenticate_api_key(h, k) ==
    /\ xreq[h] = Free
    /\ KeyLive(k)
    /\ Resume(h, [at |-> "account", key |-> k, now |-> xclock,
                  dead |-> revokedEver, read |-> keys[k]])
    /\ UNCHANGED OnlyRequest

ReadAccount(h) ==
    /\ xreq[h].at = "account"
    /\ Resume(h, IF serviceAccount.disabled THEN Free ELSE [xreq[h] EXCEPT !.at = "key_used"])
    /\ UNCHANGED OnlyRequest

\* Mutant.
KeyUsed_StaleRecord(h, k) == [xreq[h].read EXCEPT !.last_used = xreq[h].now]

\* record_api_key_used rereads the row, under its lock in PostgreSQL.
KeyUsed(h, k) == [keys[k] EXCEPT !.last_used = xreq[h].now]

record_api_key_used(h) ==
    LET k == xreq[h].key IN
    /\ xreq[h].at = "key_used"
    /\ keys' = [keys EXCEPT ![k] = KeyUsed(h, k)]
    /\ Resume(h, [xreq[h] EXCEPT !.at = "entitlements"])
    /\ UNCHANGED <<xclock, serviceAccount, entitlements, user, sessions, historyVars, bootVars>>

EffectiveScopes(k) == {s \in ApiKeys[k].scopes : ScopeWithin(s, AccountScopes)}

EffectiveProducts(k) ==
    ApiKeys[k].products \cap AccountProducts \cap {p \in Products : entitlements[p] = "active"}

GrantKey(h) ==
    LET k == xreq[h].key IN
    /\ xreq[h].at = "entitlements"
    /\ Resume(h, IF EffectiveScopes(k) = {} THEN Free
                 ELSE [at |-> "granted", key |-> k, dead |-> xreq[h].dead,
                       scopes |-> EffectiveScopes(k), products |-> EffectiveProducts(k),
                       suspended |-> {p \in Products : entitlements[p] = "suspended"}])
    /\ UNCHANGED OnlyRequest

\* Mutant.
SessionLive_Inclusive(s, now) == sessions[s] # Missing /\ sessions[s].expires + 1 > now

SessionLive(s, now) == sessions[s] # Missing /\ sessions[s].expires > now

\* authenticate_session: the document is read here and put back below.
authenticate_session(h, s) ==
    /\ xreq[h] = Free
    /\ SessionLive(s, xclock)
    /\ LET stale == sessions[s].last_used < 0 \/ xclock - sessions[s].last_used >= UsedEvery IN
       Resume(h, [at |-> IF stale THEN "session_used" ELSE "user", session |-> s,
                  now |-> xclock, read |-> sessions[s]])
    /\ UNCHANGED OnlyRequest

PutSession(h) ==
    LET r == xreq[h] IN
    /\ r.at = "session_used"
    /\ sessions' = [sessions EXCEPT ![r.session] = [r.read EXCEPT !.last_used = r.now]]
    /\ Resume(h, [r EXCEPT !.at = "user"])
    /\ UNCHANGED <<xclock, serviceAccount, keys, entitlements, user, historyVars, bootVars>>

\* is_user_disabled, then the context is bound to the request.
GrantSession(h) ==
    /\ xreq[h].at = "user"
    /\ Resume(h, IF user.disabled THEN Free
                 ELSE [at |-> "granted", session |-> xreq[h].session, now |-> xreq[h].now])
    /\ UNCHANGED OnlyRequest

RequestEnds(h) ==
    /\ xreq[h].at = "granted"
    /\ Resume(h, Free)
    /\ UNCHANGED OnlyRequest

AccessTick ==
    /\ xclock < AccessClock
    /\ xclock' = xclock + 1
    /\ UNCHANGED <<serviceAccount, keys, entitlements, user, sessions, xreq, historyVars, bootVars>>
------------------------------------------------------------------------------
(* ensure_bootstrap_admin: six records, each listed and created when missing.
   A create that meets a record made by another server raises StateConflict;
   the server fails to start and is started again. *)

BootstrapRecords == <<"organization", "project", "user", "credential", "role", "membership">>

BootstrapList(p) ==
    LET i == boot[p].step IN
    /\ i <= Len(BootstrapRecords) /\ boot[p].create = FALSE
    /\ boot' = [boot EXCEPT ![p] = IF BootstrapRecords[i] \in booted
                                   THEN [step |-> i + 1, create |-> FALSE]
                                   ELSE [step |-> i, create |-> TRUE]]
    /\ UNCHANGED <<xclock, serviceAccount, keys, entitlements, user, sessions, xreq, historyVars, booted>>

BootstrapCreate(p) ==
    LET i == boot[p].step IN
    /\ boot[p].create
    /\ booted' = booted \cup {BootstrapRecords[i]}
    /\ boot' = [boot EXCEPT ![p] =
                   [step |-> IF BootstrapRecords[i] \in booted THEN 1 ELSE i + 1, create |-> FALSE]]
    /\ UNCHANGED <<xclock, serviceAccount, keys, entitlements, user, sessions, xreq, historyVars>>
------------------------------------------------------------------------------
AccessInit ==
    /\ xclock = 0 /\ serviceAccount = Missing /\ user = Missing
    /\ keys = [k \in DOMAIN ApiKeys |-> Missing]
    /\ entitlements = [p \in Products |-> "none"]
    /\ sessions = [s \in Sessions |-> Missing]
    /\ xreq = [h \in HttpRequests |-> Free]
    /\ revokedEver = {} /\ expiry = [s \in Sessions |-> 0]
    /\ booted = {} /\ boot = [p \in Servers |-> [step |-> 1, create |-> FALSE]]

BootstrapNext == \E p \in Servers : BootstrapList(p) \/ BootstrapCreate(p)

Started == \A p \in Servers : boot[p].step > Len(BootstrapRecords)

\* Requests are served once every server has started.
AccessNext ==
    \/ BootstrapNext
    \/ Started /\ AccessTick
    \/ Started /\ create_service_account
    \/ Started /\ \E d \in BOOLEAN : set_service_account_disabled(d)
    \/ Started /\ \E k \in DOMAIN ApiKeys : create_api_key(k)
    \/ Started /\ \E k \in DOMAIN ApiKeys : revoke_api_key(k)
    \/ Started /\ \E p \in Products : create_product_entitlement(p)
    \/ Started /\ \E p \in Products, s \in {"active", "suspended"} : update_product_entitlement(p, s)
    \/ Started /\ create_user
    \/ Started /\ \E d \in BOOLEAN : set_user_disabled(d)
    \/ Started /\ \E s \in Sessions : issue_session(s)
    \/ Started /\ purge_expired_sessions
    \/ \E h \in HttpRequests :
        \/ \E k \in DOMAIN ApiKeys : authenticate_api_key(h, k)
        \/ ReadAccount(h)
        \/ record_api_key_used(h)
        \/ GrantKey(h)
        \/ \E s \in Sessions : authenticate_session(h, s)
        \/ PutSession(h)
        \/ GrantSession(h)
        \/ RequestEnds(h)

AccessSpec == AccessInit /\ [][AccessNext]_accessVars
------------------------------------------------------------------------------
(* Types *)

Principal == [disabled : BOOLEAN]
ApiKeyRecord == [revoked : BOOLEAN, last_used : Int]
InteractiveSession == [expires : Nat, last_used : Int]

\* Every record keeps its type.
AccessTypeOK ==
    /\ {serviceAccount, user} \subseteq Principal \cup {Missing}
    /\ keys \in [DOMAIN ApiKeys -> ApiKeyRecord \cup {Missing}]
    /\ entitlements \in [Products -> {"none", "active", "suspended"}]
    /\ sessions \in [Sessions -> InteractiveSession \cup {Missing}]
------------------------------------------------------------------------------
(* Properties *)

GrantedByKey(h) == xreq[h].at = "granted" /\ "key" \in DOMAIN xreq[h]
GrantedBySession(h) == xreq[h].at = "granted" /\ "session" \in DOMAIN xreq[h]

\* A key that was revoked before a request started does not authenticate it, even
\* when an earlier request writes last_used_at after the revocation; and a session
\* is not accepted once it expired, though an authentication under way may put
\* back a session that the clean-up has just deleted.
CredentialsRespected ==
    /\ AccessTypeOK
    /\ \A h \in HttpRequests :
          /\ GrantedByKey(h) => xreq[h].key \notin xreq[h].dead
          /\ GrantedBySession(h) => xreq[h].now < expiry[xreq[h].session]
==============================================================================
