------------------------------ MODULE Identity ------------------------------
(***************************************************************************)
(* Who is calling (crates/memhouse-core/src/identity.rs): principals,      *)
(* their API keys, agent tokens, and the Authenticator of one server       *)
(* process, whose cache answers for a credential for a while after it was  *)
(* verified.  Operators change principals and keys meanwhile               *)
(* (crates/memhouse-cli/src/principals.rs), each command being several     *)
(* statements and liable to stop between two of them.                      *)
(*                                                                         *)
(* A credential is a key or a token by name; what is presented is one,     *)
(* genuine or with a wrong secret or signature, and the user it asserts.   *)
(* Time is a counter.  A command and a call take less than Lag ticks: the  *)
(* bound of the statements they run, not of the code.                      *)
(***************************************************************************)
EXTENDS Access, SequencesExt

CONSTANTS
    Principal,      \* ids
    Profiles,       \* what `principal add` may set of each principal
    Key, Token, SigningKey,
    Bootstrap,      \* a key of [server] api_keys
    BootPrincipal,  \* the built-in principal admin:bootstrap
    Presented,      \* [cred, genuine, user]: what calls present
    Call, Operator,
    Lifetimes,      \* of new keys; None: no expiry
    KeyScopes, TokenScopes,     \* permissions asked for a new key, a token
    CacheTtl,       \* Authenticator::ttl
    TokenTtl,       \* [access] token_ttl_secs, at most an hour
    MaxCached,      \* entries beyond which the cache is emptied
    Lag, MaxTime,
    MaxCommands, MaxFailures,   \* bounds on what operators and the store do
    InitPrincipals, InitKeys

(* What a row of mh_api_key and of mh_principal may be.                    *)
KeyRecords ==
    [principal : Principal, scopes : SUBSET Permissions, created : Int,
     expires : Int \cup {None}, revoked : Int \cup {None}, by : {"cli", "connect"}]

AtStart == UNION {{init[id] : id \in Principal} \ {None} : init \in InitPrincipals}

PrincipalRecords ==
    {[r EXCEPT !.disabled = at] : r \in Profiles \cup AtStart, at \in (0 .. MaxTime) \cup {None}}

ASSUME IdentityAssumption ==
    /\ {Lag, MaxTime, MaxCached, MaxCommands, MaxFailures} \subseteq Nat
    /\ {CacheTtl, TokenTtl} \subseteq Nat \ {0}
    /\ Lifetimes \subseteq Nat \cup {None}
    /\ None \notin Int \cup Permissions \cup Principal \cup Key \cup Token \cup SigningKey
    /\ Key \cap Token = {} /\ Bootstrap \notin Key \cup Token
    /\ Presented \subseteq [cred : Key \cup Token \cup {Bootstrap}, genuine : BOOLEAN,
                           user : Principal \cup {None}]
    /\ BootPrincipal.kind = "admin"

(* The rows there are at the start are of principals under their own ids,  *)
(* and a key is of a principal there is.                                   *)
ASSUME StartAssumption ==
    /\ None \notin KeyRecords \cup PrincipalRecords
    /\ \A r \in Profiles \cup AtStart :
         /\ {"id", "tenant", "kind", "disabled"} \subseteq DOMAIN r
         /\ r.id \in Principal /\ r.kind \in PrincipalKinds
    /\ InitPrincipals \subseteq [Principal -> PrincipalRecords \cup {None}]
    /\ InitKeys \in [Key -> KeyRecords \cup {None}]
    /\ \A init \in InitPrincipals :
         /\ \A id \in Principal : init[id] # None => init[id].id = id
         /\ \A k \in Key : InitKeys[k] # None => init[InitKeys[k].principal] # None

VARIABLES
    now,
    principals,     \* mh_principal
    keys,           \* mh_api_key
    signers,        \* mh_signing_key, oldest first
    tokens,         \* tokens handed out
    cache,          \* Authenticator::cache: by what was presented
    calls,          \* calls being authenticated, served, or issuing a token
    commands,       \* commands the operators are running
    spent,          \* commands begun
    since,          \* history: how long what is presented has been in order
    lived,          \* history: when a principal was last a live one
    failed          \* history: when reads of the store failed

vars == <<now, principals, keys, signers, tokens, cache, calls, commands, spent, since, lived, failed>>
store == <<principals, keys, signers, tokens>>

Idle == [pc |-> "idle", started |-> None]

Refused(reason) == [ok |-> FALSE, reason |-> reason]
Verified(who) == [ok |-> TRUE, who |-> who]

IsToken(p) == p.cred \in Token
Issuer(p) == IF IsToken(p) THEN tokens[p.cred].key ELSE p.cred

Usable(k) == keys[k] # None /\ keys[k].revoked = None /\ (keys[k].expires = None \/ keys[k].expires > now)
Live(id) == principals[id] # None /\ principals[id].disabled = None

(***************************************************************************)
(* Verifying.  Which user an identity acts for: a user for itself, an      *)
(* administrator or a principal trusted to act for users for whom it says, *)
(* a token for the user it was issued for.                                 *)
(***************************************************************************)
MayAssert(principal, user) ==
    CASE user = None -> TRUE
      [] user # None /\ principal.kind = "user" -> user = principal.id
      [] OTHER -> principal.actAs \/ principal.kind = "admin"

KeyIdentity(principal, k, scopes, user) ==
    [principal |-> principal,
     user |-> IF principal.kind = "user" THEN principal.id ELSE user,
     scopes |-> scopes \cap RolePermissions[principal.kind],
     key |-> k, via |-> "key"]

TokenIdentity(principal, claims) ==
    [principal |-> principal, user |-> claims.user,
     scopes |-> (claims.scopes \cap RolePermissions[principal.kind]) \ {"TOKEN"},
     key |-> claims.key, via |-> "token"]

BootIdentity(user) ==
    [principal |-> BootPrincipal, user |-> user, scopes |-> Permissions,
     key |-> Bootstrap, via |-> "bootstrap"]

(* The answer is kept from the moment it is known; a full cache is emptied *)
(* first.                                                                  *)
Kept(p, result) ==
    LET full == Cardinality({q \in Presented : cache[q] # None}) > MaxCached
    IN  [q \in Presented |-> IF q = p THEN [at |-> now, result |-> result]
                             ELSE IF full THEN None ELSE cache[q]]

FreshOnTheDot(entry) == entry # None /\ now - entry.at <= CacheTtl
FreshIfRefused(entry) == entry # None /\ (~entry.result.ok \/ now - entry.at < CacheTtl)
Fresh(entry) == entry # None /\ now - entry.at < CacheTtl

Serve(c, p, result) ==
    calls' = [calls EXCEPT ![c] =
                [pc |-> IF result.ok THEN "served" ELSE "refused", asks |-> p, at |-> now,
                 started |-> now, result |-> result]]

Answer(c, result) ==
    /\ Serve(c, calls[c].asks, result)
    /\ cache' = Kept(calls[c].asks, result)

(* authenticate: from the cache, or the first step of a verification.      *)
FromCache(c, p) ==
    /\ calls[c].pc = "idle"
    /\ Fresh(cache[p])
    /\ Serve(c, p, cache[p].result)
    /\ UNCHANGED <<store, cache, commands, now, spent, failed>>

Known(p) == IsToken(p) => tokens[p.cred] # None     \* a token nobody was given is not presented

FirstStep(p) == IF IsToken(p) THEN "signer" ELSE "key"

Verify(c, p) ==
    /\ calls[c].pc = "idle"
    /\ ~Fresh(cache[p]) /\ Known(p)
    /\ p.cred # Bootstrap
    /\ calls' = [calls EXCEPT ![c] = [pc |-> FirstStep(p), asks |-> p, started |-> now]]
    /\ UNCHANGED <<store, cache, commands, now, spent, failed>>

VerifyBootstrap(c, p) ==
    /\ calls[c].pc = "idle"
    /\ ~Fresh(cache[p])
    /\ p.cred = Bootstrap
    /\ Serve(c, p, Verified(BootIdentity(p.user)))
    /\ cache' = Kept(p, Verified(BootIdentity(p.user)))
    /\ UNCHANGED <<store, commands, now, spent, failed>>

Goes(c, step) == calls' = [calls EXCEPT ![c].pc = step] /\ UNCHANGED cache

(* signing_key, the signature, the expiry and the user of a token; the     *)
(* bootstrap key that issued one is not looked up.                         *)
ReadSigner(c) ==
    LET p == calls[c].asks
        claims == tokens[p.cred]
    IN  /\ calls[c].pc = "signer"
        /\ CASE claims.signer \notin ToSet(signers) -> Answer(c, Refused("unknown signing key"))
             [] claims.signer \in ToSet(signers) /\ ~p.genuine -> Answer(c, Refused("forged token"))
             [] OTHER ->
                  IF claims.expires <= now THEN Answer(c, Refused("expired token"))
                  ELSE IF p.user \notin {None, claims.user} THEN Answer(c, Refused("token's user"))
                  ELSE Goes(c, IF claims.key = Bootstrap THEN "principal" ELSE "key")
        /\ UNCHANGED <<store, commands, now, spent, failed>>

(* api_key_get of the key presented, or of the key that issued the token;  *)
(* a key keeps what was read of it for the identity.                       *)
ReadKey(c) ==
    LET p == calls[c].asks
        k == Issuer(p)
    IN  /\ calls[c].pc = "key"
        /\ IF IsToken(p)
             THEN IF Usable(k) THEN Goes(c, "principal") ELSE Answer(c, Refused("issuing key"))
             ELSE CASE keys[k] = None -> Answer(c, Refused("unknown key"))
                    [] keys[k] # None /\ ~p.genuine -> Answer(c, Refused("wrong key secret"))
                    [] keys[k] # None /\ p.genuine /\ ~Usable(k) -> Answer(c, Refused("ended key"))
                    [] OTHER -> /\ calls' = [calls EXCEPT ![c] =
                                     [pc |-> "principal", asks |-> p, started |-> @.started, key |-> keys[k]]]
                                /\ UNCHANGED cache
        /\ UNCHANGED <<store, commands, now, spent, failed>>

(* live_principal, and the identity.                                       *)
ReadPrincipal(c) ==
    LET p == calls[c].asks
        id == IF IsToken(p) THEN tokens[p.cred].agent ELSE calls[c].key.principal
    IN  /\ calls[c].pc = "principal"
        /\ CASE ~Live(id) -> Answer(c, Refused("no live principal"))
             [] Live(id) /\ IsToken(p) ->
                  IF \/ principals[id].tenant # tokens[p.cred].tenant
                     \/ principals[id].kind # "agent"
                    THEN Answer(c, Refused("not its principal"))
                    ELSE Answer(c, Verified(TokenIdentity(principals[id], tokens[p.cred])))
             [] Live(id) /\ ~IsToken(p) ->
                  IF ~MayAssert(principals[id], p.user)
                    THEN Answer(c, Refused("user"))
                    ELSE Answer(c, Verified(KeyIdentity(principals[id], p.cred, calls[c].key.scopes, p.user)))
        /\ UNCHANGED <<store, commands, now, spent, failed>>

(* A read of the store fails: refused, and remembered like any refusal.    *)
ReadFails(c) ==
    /\ calls[c].pc \in {"signer", "key", "principal"}
    /\ Answer(c, Refused("store"))
    /\ Len(failed) < MaxFailures
    /\ failed' = Append(failed, now)
    /\ UNCHANGED <<store, commands, now, spent>>

(* The call is answered.                                                   *)
Finish(c) ==
    /\ calls[c].pc \in {"served", "refused"}
    /\ calls' = [calls EXCEPT ![c] = Idle]
    /\ UNCHANGED <<store, cache, commands, now, spent, failed>>

(***************************************************************************)
(* Caller::issue_token, for a call that was served: the agent it is for,   *)
(* the user it acts for, at most what both may do, and the deployment's    *)
(* signing key.                                                            *)
(***************************************************************************)
Who(c) == calls[c].result.who

MayIssueFor(who, agent) ==
    IF who.principal.kind = "agent" THEN agent = who.principal.id
    ELSE Live(agent) /\ principals[agent].kind = "agent" /\ principals[agent].tenant = who.principal.tenant

MayActFor(who, user) ==
    CASE user = None -> TRUE
      [] user # None /\ who.principal.kind = "user" -> user = who.user
      [] user # None /\ who.principal.kind = "admin" -> TRUE
      [] OTHER -> who.principal.actAs \/ who.user = user

ActsFor(who, user) == IF user = None THEN who.user ELSE user

PassedOnByRole(who) == RolePermissions["agent"] \ {"TOKEN"}
PassedOn(who) == (who.scopes \cap RolePermissions["agent"]) \ {"TOKEN"}

Issue(c, agent, user, asked) ==
    /\ calls[c].pc = "served"
    /\ Authorize(Who(c), Request("issue_token")).allowed
    /\ MayIssueFor(Who(c), agent)
    /\ MayActFor(Who(c), user)
    /\ asked \subseteq PassedOn(Who(c))
    /\ calls' = [calls EXCEPT ![c] =
                   [pc |-> "issue", started |-> now, result |-> @.result,
                    claims |-> [agent |-> agent, tenant |-> Who(c).principal.tenant,
                                user |-> ActsFor(Who(c), user), scopes |-> asked, key |-> Who(c).key]]]
    /\ UNCHANGED <<store, cache, commands, now, spent, failed>>

(* signing_key_current: the oldest, or a new one; two processes that find  *)
(* none both insert theirs, in either order.                               *)
MissSigner(c) ==
    /\ calls[c].pc = "issue" /\ signers = <<>>
    /\ calls' = [calls EXCEPT ![c].pc = "newsigner"]
    /\ UNCHANGED <<store, cache, commands, now, spent, failed>>

InsertSigner(c, kid) ==
    /\ calls[c].pc = "newsigner"
    /\ kid \notin ToSet(signers)
    /\ signers' \in {Append(signers, kid), <<kid>> \o signers}
    /\ calls' = [calls EXCEPT ![c].pc = "issue"]
    /\ UNCHANGED <<principals, keys, tokens, cache, commands, now, spent, failed>>

(* sign clamps the lifetime asked for, and the event of the audit log is   *)
(* written before the token is handed out.                                 *)
Sign(c, t, asked) ==
    /\ calls[c].pc = "issue" /\ signers # <<>>
    /\ tokens[t] = None
    /\ tokens' = [tokens EXCEPT ![t] =
                    [agent |-> calls[c].claims.agent, tenant |-> calls[c].claims.tenant,
                     user |-> calls[c].claims.user, scopes |-> calls[c].claims.scopes,
                     key |-> calls[c].claims.key, signer |-> Head(signers),
                     expires |-> now + (IF asked < 1 THEN 1 ELSE IF asked > TokenTtl THEN TokenTtl ELSE asked)]]
    /\ calls' = [calls EXCEPT ![c] = Idle]
    /\ UNCHANGED <<principals, keys, signers, cache, commands, now, spent, failed>>

IssueFails(c) ==
    /\ calls[c].pc \in {"issue", "newsigner"}
    /\ calls' = [calls EXCEPT ![c] = Idle]
    /\ UNCHANGED <<store, cache, commands, now, spent, failed>>

-----------------------------------------------------------------------------
(***************************************************************************)
(* The operator's commands.  A change of a principal reads it and puts the *)
(* whole record back, whatever happened to it in between.                  *)
(***************************************************************************)
Begins(o) ==
    /\ commands[o].pc = "idle"
    /\ spent < MaxCommands
    /\ spent' = spent + 1

ReadToPut(o, id, record) ==
    /\ Begins(o)
    /\ commands' = [commands EXCEPT ![o] = [pc |-> "put", started |-> now, id |-> id, record |-> record]]
    /\ UNCHANGED <<store, cache, calls, now, failed>>

AddPrincipal(o, id, profile) ==
    ReadToPut(o, id, [profile EXCEPT !.disabled = IF principals[id] = None THEN None
                                                  ELSE principals[id].disabled])

SetDisabled(o, id, disabled) ==
    /\ principals[id] # None
    /\ ReadToPut(o, id, [principals[id] EXCEPT !.disabled = IF disabled THEN now ELSE None])

(* principal_put: an id keeps its tenant and its kind.                     *)
PutPrincipal(o) ==
    LET id == commands[o].id
        record == commands[o].record
    IN  /\ commands[o].pc = "put"
        /\ principals' =
             [principals EXCEPT ![id] = IF /\ @ # None
                                           /\ (@.tenant # record.tenant \/ @.kind # record.kind)
                                          THEN @ ELSE record]
        /\ commands' = [commands EXCEPT ![o] = Idle]
        /\ UNCHANGED <<keys, signers, tokens, cache, calls, now, spent, failed>>

NewKey(k, id, scopes, life, by) ==
    /\ keys[k] = None
    /\ principals[id] # None
    /\ scopes \subseteq RolePermissions[principals[id].kind]
    /\ keys' = [keys EXCEPT ![k] = [principal |-> id, scopes |-> scopes, created |-> now,
                                    expires |-> IF life = None THEN None ELSE now + life,
                                    revoked |-> None, by |-> by]]

CreateKey(o, k, id, scopes, life) ==
    /\ Begins(o)
    /\ NewKey(k, id, scopes, life, "cli")
    /\ UNCHANGED <<principals, signers, tokens, cache, calls, commands, now, failed>>

(* api_key_end: a revoked key stays as it is; an expiry only comes nearer. *)
Revoke(o, k) ==
    /\ Begins(o)
    /\ keys[k] # None /\ keys[k].revoked = None
    /\ keys' = [keys EXCEPT ![k].revoked = now]
    /\ UNCHANGED <<principals, signers, tokens, cache, calls, commands, now, failed>>

(* rotate: the new key first, with the scopes and the lifetime of the old. *)
Lifetime(key) == IF key.expires = None THEN None ELSE key.expires - key.created

RotateEndsFirst(o, k, new) ==
    /\ Begins(o)
    /\ keys[k] # None /\ keys[k].revoked = None /\ keys[new] = None
    /\ commands' = [commands EXCEPT ![o] = [pc |-> "end", started |-> now, old |-> k]]
    /\ UNCHANGED <<store, cache, calls, now, failed>>

Rotate(o, k, new) ==
    /\ Begins(o)
    /\ keys[k] # None /\ keys[k].revoked = None
    /\ NewKey(new, keys[k].principal, keys[k].scopes, Lifetime(keys[k]), "cli")
    /\ commands' = [commands EXCEPT ![o] = [pc |-> "end", started |-> now, old |-> k]]
    /\ UNCHANGED <<principals, signers, tokens, cache, calls, now, failed>>

Sooner(expires, at) == IF expires = None \/ at < expires THEN at ELSE expires

EndOld(o, grace) ==
    LET k == commands[o].old
    IN  /\ commands[o].pc = "end"
        /\ keys' = IF keys[k].revoked # None THEN keys
                   ELSE [keys EXCEPT ![k].expires = Sooner(@, now + grace)]
        /\ commands' = [commands EXCEPT ![o] = Idle]
        /\ UNCHANGED <<principals, signers, tokens, cache, calls, now, spent, failed>>

(* agent_key, for `memhouse connect`: the keys it made before are revoked  *)
(* one by one, then the new one is made.                                   *)
ConnectScopes == {"READ", "WRITE", "FORGET"}

Connect(o, id) ==
    /\ Begins(o)
    /\ principals[id] # None /\ principals[id].kind = "agent"
    /\ commands' = [commands EXCEPT ![o] =
                      [pc |-> "connect", started |-> now, id |-> id,
                       left |-> {k \in Key : /\ keys[k] # None /\ keys[k].principal = id
                                             /\ keys[k].by = "connect" /\ keys[k].revoked = None}]]
    /\ UNCHANGED <<store, cache, calls, now, failed>>

ConnectRevokes(o, k) ==
    /\ commands[o].pc = "connect" /\ k \in commands[o].left
    /\ keys' = IF keys[k].revoked # None THEN keys ELSE [keys EXCEPT ![k].revoked = now]
    /\ commands' = [commands EXCEPT ![o].left = @ \ {k}]
    /\ UNCHANGED <<principals, signers, tokens, cache, calls, now, spent, failed>>

ConnectCreates(o, k) ==
    /\ commands[o].pc = "connect" /\ commands[o].left = {}
    /\ NewKey(k, commands[o].id, ConnectScopes, None, "connect")
    /\ commands' = [commands EXCEPT ![o] = Idle]
    /\ UNCHANGED <<principals, signers, tokens, cache, calls, now, spent, failed>>

(* A command stops: it fails, or the operator stops it.                    *)
Stops(o) ==
    /\ commands[o].pc # "idle"
    /\ commands' = [commands EXCEPT ![o] = Idle]
    /\ UNCHANGED <<store, cache, calls, now, spent, failed>>

-----------------------------------------------------------------------------
Busy == {calls[c].started : c \in {d \in Call : calls[d].pc \notin {"idle", "served", "refused"}}}
        \cup {commands[o].started : o \in {d \in Operator : commands[d].pc # "idle"}}

Tick ==
    /\ now < MaxTime
    /\ \A t \in Busy : now - t < Lag
    /\ now' = now + 1
    /\ UNCHANGED <<store, cache, calls, commands, spent, failed>>

Init ==
    /\ now = 0
    /\ principals \in InitPrincipals
    /\ keys = InitKeys
    /\ signers = <<>>
    /\ tokens = [t \in Token |-> None]
    /\ cache = [p \in Presented |-> None]
    /\ calls = [c \in Call |-> Idle]
    /\ commands = [o \in Operator |-> Idle]
    /\ since = [p \in Presented |-> None]
    /\ lived = [id \in Principal |-> IF Live(id) THEN now ELSE None]
    /\ failed = <<>>
    /\ spent = 0

CallStep(c) ==
    \/ \E p \in Presented : FromCache(c, p) \/ Verify(c, p) \/ VerifyBootstrap(c, p)
    \/ ReadSigner(c) \/ ReadKey(c) \/ ReadPrincipal(c) \/ ReadFails(c) \/ Finish(c)
    \/ \E agent \in Principal, user \in Principal \cup {None}, asked \in TokenScopes :
         Issue(c, agent, user, asked)
    \/ MissSigner(c) \/ (\E kid \in SigningKey : InsertSigner(c, kid))
    \/ (\E t \in Token, asked \in 0 .. TokenTtl + 1 : Sign(c, t, asked))
    \/ IssueFails(c)

Command(o) ==
    \/ \E id \in Principal, profile \in Profiles :
         profile.id = id /\ AddPrincipal(o, id, profile)
    \/ \E id \in Principal, disabled \in BOOLEAN : SetDisabled(o, id, disabled)
    \/ PutPrincipal(o)
    \/ \E k \in Key, id \in Principal, life \in Lifetimes, scopes \in KeyScopes :
         CreateKey(o, k, id, scopes, life)
    \/ \E k \in Key : Revoke(o, k)
    \/ \E k, new \in Key : Rotate(o, k, new)
    \/ \E grace \in 0 .. Lag : EndOld(o, grace)
    \/ \E id \in Principal : Connect(o, id)
    \/ \E k \in Key : ConnectRevokes(o, k) \/ ConnectCreates(o, k)
    \/ Stops(o)

(* What is presented is in order when a verification that reads everything *)
(* at once would accept it.                                                *)
KeyInOrder(p) ==
    Usable(p.cred) /\ Live(keys[p.cred].principal) /\ MayAssert(principals[keys[p.cred].principal], p.user)

TokenInOrder(p) ==
    /\ tokens[p.cred] # None
    /\ tokens[p.cred].expires > now
    /\ p.user \in {None, tokens[p.cred].user}
    /\ tokens[p.cred].key = Bootstrap \/ Usable(tokens[p.cred].key)
    /\ Live(tokens[p.cred].agent)

InOrder(p) ==
    p.cred = Bootstrap \/ (p.genuine /\ IF IsToken(p) THEN TokenInOrder(p) ELSE KeyInOrder(p))

Track ==
    /\ since' = [p \in Presented |-> IF ~InOrder(p)' THEN None
                                    ELSE IF since[p] = None THEN now' ELSE since[p]]
    /\ lived' = [id \in Principal |-> IF Live(id)' THEN now' ELSE lived[id]]

Next == ((\E c \in Call : CallStep(c)) \/ (\E o \in Operator : Command(o)) \/ Tick) /\ Track

Spec == Init /\ [][Next]_vars

-----------------------------------------------------------------------------
TypeOK ==
    /\ now \in 0 .. MaxTime
    /\ \A id \in Principal : principals[id] # None => principals[id].id = id
    /\ \A k \in Key : keys[k] # None => keys[k].principal \in Principal /\ keys[k].scopes \subseteq Permissions
    /\ ToSet(signers) \subseteq SigningKey /\ IsInjective(signers)
    /\ \A p \in Presented : cache[p] # None => cache[p].at <= now

(* An identity that is served was sound a moment ago: its key, or the key  *)
(* that issued its token, had been neither revoked nor had it expired      *)
(* longer ago than an answer is cached and a verification takes, and its   *)
(* principal was a live one no longer ago than an answer is cached (module *)
(* docs of identity.rs: "within 5 seconds").                               *)
EndedBy(k, t) ==
    \/ keys[k].revoked # None /\ keys[k].revoked <= t
    \/ keys[k].expires # None /\ keys[k].expires <= t

ServedWasSound ==
    \A c \in Call : calls[c].pc = "served" =>
        LET who == Who(c)
        IN  /\ who.key # Bootstrap => ~EndedBy(who.key, calls[c].at - CacheTtl - Lag)
            /\ who.key # Bootstrap \/ who.via = "token" =>
                 /\ lived[who.principal.id] # None
                 /\ lived[who.principal.id] > calls[c].at - CacheTtl

(* A token gives nobody more than its issuer had: what is served on a      *)
(* token is within the permissions of the key that issued it and of an     *)
(* agent, issues no further token, and acts for the issuing user if a user *)
(* issued it.                                                              *)
TokensNarrow ==
    \A c \in Call : (calls[c].pc = "served" /\ Who(c).via = "token") =>
        LET who == Who(c)
        IN  /\ who.principal.kind = "agent"
            /\ who.scopes \subseteq RolePermissions["agent"] \ {"TOKEN"}
            /\ who.key # Bootstrap =>
                 /\ who.scopes \subseteq keys[who.key].scopes
                 /\ LET issuer == principals[keys[who.key].principal]
                    IN  issuer.kind = "user" => who.user = issuer.id

(* What has been in order for as long as an answer is cached and a         *)
(* verification takes is not refused, unless the store could not be read   *)
(* in that time: a refusal is forgotten as fast as a success.              *)
RecentlyFailed == \E t \in ToSet(failed') : now - t < CacheTtl + Lag

RefusedForCause ==
    [][\A c \in Call : calls[c].pc # "refused" /\ calls'[c].pc = "refused" =>
         LET p == calls'[c].asks
         IN  since[p] = None \/ now - since[p] < CacheTtl + Lag \/ RecentlyFailed]_vars

(* A key is only brought to its end, other than by revoking it, once       *)
(* another key of its principal with the same permissions exists, so a     *)
(* rotation that stops half way leaves the caller with a key.              *)
HandedOver ==
    [][\A k \in Key : keys[k] # None /\ keys'[k].expires # keys[k].expires =>
         \E new \in Key \ {k} : /\ keys[new] # None
                                /\ keys[new].principal = keys[k].principal
                                /\ keys[new].scopes = keys[k].scopes]_vars
=============================================================================
