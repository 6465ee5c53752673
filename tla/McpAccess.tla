----------------------------- MODULE McpAccess -----------------------------
(***************************************************************************)
(* Who may call /mcp and how often: MCP_API_KEYS                           *)
(* (src/internal/config/mcpkeys.go, settings.go), the caller a token       *)
(* stands for (serveMCP and mcpCaller of src/internal/httpapi/server.go)   *)
(* and the token bucket of each caller (ratelimit.go).  Time is in         *)
(* half seconds, and a bucket counts 120 to a request, so that PerMinute   *)
(* flow in at each.                                                        *)
(***************************************************************************)
EXTENDS Integers, Sequences, FiniteSets

CONSTANTS
  Tokens,          \* keys a caller may send
  Scopes,          \* AllScopes
  McpConfigs,      \* settings of the environment: web, mcp, scopedOnly
  PerMinute,       \* MCP_RATE_LIMIT_PER_MINUTE
  Pauses,          \* half seconds between two calls
  MaxCalls, MaxMcpTime

NoExpiry == -1

\* An entry of MCP_API_KEYS, and what the environment may say.
McpKeys == [name : STRING, key : Tokens, scopes : SUBSET Scopes, expires : Nat \cup {NoExpiry}]
McpSettings == [web : SUBSET Tokens, scopedOnly : BOOLEAN, mcp : Seq(McpKeys)]

ASSUME McpAssumption ==
  /\ McpConfigs \subseteq McpSettings
  /\ PerMinute \in Nat \ {0}
  /\ Pauses \subseteq Nat

VARIABLES
  mcpConfig, mcpClock,
  buckets,         \* a function on the names that have called: units and time
  served,          \* ghost: the calls let in, in order: caller, token, time
  promised         \* ghost: a function on the names whose last call was refused: seconds to wait

McpVars == <<mcpConfig, mcpClock, buckets, served, promised>>

\* ParseMCPKeys: a name or a key is used once.  No scope means all of them.
ParseMCPKeys(entries) ==
  IF \E i, j \in DOMAIN entries : i # j /\ (entries[i].name = entries[j].name \/ entries[i].key = entries[j].key)
  THEN {}
  ELSE {[i \in DOMAIN entries |-> [entries[i] EXCEPT !.scopes = IF @ = {} THEN Scopes ELSE @]]}

\* Mutant: a key may be both an agent's and the page's.
LoadSettingsAnyway(environment) ==
  {[environment EXCEPT !.mcp = keys] : keys \in ParseMCPKeys(environment.mcp)}

\* Load: the settings, or nothing when the environment is refused.
LoadSettings(environment) ==
  {[environment EXCEPT !.mcp = keys] :
     keys \in {k \in ParseMCPKeys(environment.mcp) : \A i \in DOMAIN k : k[i].key \notin environment.web}}

McpInit ==
  /\ mcpConfig \in UNION {LoadSettings(environment) : environment \in McpConfigs}
  /\ mcpClock = 0
  /\ buckets = <<>> /\ promised = <<>>
  /\ served = <<>>

Expired(key) == key.expires # NoExpiry /\ mcpClock >= key.expires

\* The caller of a token: an agent's key that has not expired, else the page's key
\* with every scope unless scoped keys are required.
mcpCaller(token) ==
  LET keys == {mcpConfig.mcp[i] : i \in DOMAIN mcpConfig.mcp}
      agents == {k \in keys : k.key = token}
  IN  IF agents # {} THEN {[name |-> k.name, scopes |-> k.scopes] : k \in {a \in agents : ~Expired(a)}}
      ELSE IF token \in mcpConfig.web /\ ~mcpConfig.scopedOnly THEN {[name |-> "web", scopes |-> Scopes]}
      ELSE {}

\* withAPIKey of every other path takes the page's keys only.
apiAccepts(token) == token \in mcpConfig.web

AtMost(a, b) == IF a < b THEN a ELSE b

\* Mutant: an idle bucket grows past its capacity.
refilledFreely(name) ==
  IF name \in DOMAIN buckets
  THEN buckets[name].units + (mcpClock - buckets[name].at) * PerMinute ELSE 120 * PerMinute

\* What a bucket holds now.
refilled(name) ==
  IF name \in DOMAIN buckets
  THEN AtMost(120 * PerMinute, buckets[name].units + (mcpClock - buckets[name].at) * PerMinute)
  ELSE 120 * PerMinute

\* Retry-After: the wait, rounded up to a second.
retryAfter(units) == (120 - units + 2 * PerMinute - 1) \div (2 * PerMinute)

With(f, name, value) == [n \in DOMAIN f \cup {name} |-> IF n = name THEN value ELSE f[n]]

\* take: a request costs one token.
take(name, units) ==
  buckets' = With(buckets, name, [units |-> IF units >= 120 THEN units - 120 ELSE units, at |-> mcpClock])

serveMCP(token) ==
  \E caller \in mcpCaller(token) :
    LET units == refilled(caller.name)
    IN  /\ take(caller.name, units)
        /\ IF units >= 120
           THEN /\ served' = Append(served, [caller |-> caller, token |-> token, at |-> mcpClock])
                /\ promised' = [n \in DOMAIN promised \ {caller.name} |-> promised[n]]
           ELSE /\ promised' = With(promised, caller.name, retryAfter(units))
                /\ UNCHANGED served
        /\ Len(served) < MaxCalls
        /\ UNCHANGED <<mcpConfig, mcpClock>>

McpPause ==
  /\ Len(served) < MaxCalls
  /\ \E pause \in Pauses : mcpClock' = mcpClock + pause /\ mcpClock' <= MaxMcpTime
  /\ UNCHANGED <<mcpConfig, buckets, served, promised>>

McpNext == (\E token \in Tokens : serveMCP(token)) \/ McpPause

McpSpec == McpInit /\ [][McpNext]_McpVars

-----------------------------------------------------------------------------
(* Properties.                                                             *)

\* In no configuration that starts does an agent's key open the page's API, and a
\* call made with it is served before its expiry and within its scopes.
AgentsStayInScope ==
  \A i \in DOMAIN mcpConfig.mcp :
    LET key == mcpConfig.mcp[i]
    IN  /\ ~apiAccepts(key.key)
        /\ \A j \in DOMAIN served :
             served[j].token = key.key =>
               /\ served[j].caller.scopes \subseteq key.scopes
               /\ (key.expires # NoExpiry => served[j].at < key.expires)

\* Between any two served calls of one caller there are at most a full bucket and
\* what flows in meanwhile.
RateBounded ==
  \A i, j \in DOMAIN served :
    LET between == {k \in i..j : served[k].caller.name = served[i].caller.name}
    IN  i <= j => 120 * Cardinality(between) <= 120 * PerMinute + (served[j].at - served[i].at) * PerMinute

\* A refused caller that comes back after Retry-After seconds is served if nobody
\* spends its budget meanwhile, and a second earlier is not.
RetryAfterHonest ==
  \A n \in DOMAIN promised :
    /\ buckets[n].units + promised[n] * 2 * PerMinute >= 120
    /\ buckets[n].units + (promised[n] - 1) * 2 * PerMinute < 120

\* The budget of calls per minute binds every caller and is announced truly.
BudgetHolds == RateBounded /\ RetryAfterHonest

=============================================================================
