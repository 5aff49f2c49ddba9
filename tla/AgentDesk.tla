----------------------------- MODULE AgentDesk -----------------------------
(***************************************************************************)
(* Agent tokens: the settings page that issues and revokes them, the       *)
(* install guide, and the two registration routes of the web server        *)
(* (api/agent/register and api/agent/pull/register).  A registration with  *)
(* a token that has no asset yet inserts the asset, binds the token and    *)
(* adds a contract row in three statements without a transaction.          *)
(***************************************************************************)
EXTENDS Desk

CONSTANTS
  Tokens, AssetIds,  \* ids the tables may hand out, numbers
  Hosts,             \* machines an agent may be installed on
  RegSlots           \* bound: registrations in work at the same time

TokenRows == [asset : AssetIds \cup {Nil}, revoked : BOOLEAN]

ASSUME AgentDeskAssumption ==
  /\ UNION {Tokens, AssetIds} \subseteq Nat \ {0}
  /\ Nil \notin Tokens \cup AssetIds /\ Nil \notin TokenRows

VARIABLES
  token,       \* agent_tokens: [asset, revoked], or Nil
  machine,     \* assets: the token whose registration made it, 0 if none, or Nil
  contractsOf,   \* maintenance_contracts: how many rows an asset has
  agent,       \* the agent of a host: its token, and the asset_id it was told
  agentsPage,  \* the page: tokens and servers shown, form, and the new token
  regCall,     \* the registration in work in a slot
  late,        \* history: registrations that found a token unbound which another
               \* one under way had found unbound too
  unbound      \* history: registrations of a token that broke off before the bind

agentVars == <<token, machine, contractsOf, agent, agentsPage, regCall, late, unbound>>

First(S, x) == x \in S /\ \A y \in S : x <= y
NoReg == [at |-> "idle", host |-> Nil, key |-> Nil, asset |-> Nil]
NoPage == [tokens |-> [k \in Tokens |-> Nil], servers |-> {}, form |-> FALSE, copy |-> Nil]

\* One server was entered by hand.
AgentInit ==
  /\ token = [k \in Tokens |-> Nil]
  /\ machine = [a \in AssetIds |-> IF First(AssetIds, a) THEN 0 ELSE Nil]
  /\ contractsOf = [a \in AssetIds |-> 0]
  /\ agent = [h \in Hosts |-> [key |-> Nil, asset |-> Nil]]
  /\ agentsPage = NoPage
  /\ regCall = [s \in RegSlots |-> NoReg]
  /\ late = [k \in Tokens |-> 0]
  /\ unbound = [k \in Tokens |-> 0]

-----------------------------------------------------------------------------
(* The settings page and /api/settings/agents.                             *)

MachineRows == {a \in AssetIds : machine[a] # Nil}
Listed(page) == [page EXCEPT !.tokens = token', !.servers = MachineRows]

LoadAgents ==
  /\ Act
  /\ UNCHANGED token
  /\ agentsPage' = Listed(agentsPage)
  /\ UNCHANGED <<machine, contractsOf, agent, regCall, late, unbound>>

ToggleTokenForm ==
  /\ Act
  /\ agentsPage' = [agentsPage EXCEPT !.form = ~@]
  /\ UNCHANGED <<token, machine, contractsOf, agent, regCall, late, unbound>>

\* A random token, bound to a server of the list or to none; it is shown once
\* more and the lists are loaded again.
IssueToken(k, a) ==
  /\ Act
  /\ agentsPage.form
  /\ a \in agentsPage.servers \cup {Nil}
  /\ First({x \in Tokens : token[x] = Nil}, k)
  /\ token' = [token EXCEPT ![k] = [asset |-> a, revoked |-> FALSE]]
  /\ agentsPage' = [Listed(agentsPage) EXCEPT !.form = FALSE, !.copy = k]
  /\ UNCHANGED <<machine, contractsOf, agent, regCall, late, unbound>>

\* The active tokens that are listed can be revoked.
Active(k) == agentsPage.tokens[k] # Nil /\ ~agentsPage.tokens[k].revoked

Revoke(k) ==
  /\ Act
  /\ Active(k)
  /\ token' = [token EXCEPT ![k].revoked = TRUE]
  /\ agentsPage' = [agentsPage EXCEPT !.tokens[k].revoked = TRUE]
  /\ UNCHANGED <<machine, contractsOf, agent, regCall, late, unbound>>

\* The command of the install guide, for a token listed as unbound, or the token
\* just issued, is run on a host; nothing keeps it from being run on another.
Install(h, k) ==
  /\ Act
  /\ \/ Active(k) /\ agentsPage.tokens[k].asset = Nil
     \/ agentsPage.copy = k
  /\ agent' = [agent EXCEPT ![h] = [key |-> k, asset |-> Nil]]
  /\ UNCHANGED <<token, machine, contractsOf, agentsPage, regCall, late, unbound>>

-----------------------------------------------------------------------------
(* Registration: an agent that has no asset_id registers until it has one.  *)

Register(s, h) ==
  /\ agent[h].key # Nil /\ agent[h].asset = Nil
  /\ regCall[s] = NoReg
  /\ \A o \in RegSlots : regCall[o].host # h
  /\ regCall' = [regCall EXCEPT ![s] = [at |-> "read", host |-> h,
                                        key |-> agent[h].key, asset |-> Nil]]
  /\ UNCHANGED <<token, machine, contractsOf, agent, agentsPage, late, unbound, deskVars>>

\* A restarted agent registers again, with the token it has.
RestartAgent(h) ==
  /\ Act
  /\ agent[h].asset # Nil
  /\ agent' = [agent EXCEPT ![h].asset = Nil]
  /\ UNCHANGED <<token, machine, contractsOf, agentsPage, regCall, late, unbound>>

Reg(s, at) == regCall[s].at = at
Then(s, at) == regCall' = [regCall EXCEPT ![s].at = at]

\* The answer of a registration whose agent has been installed anew meanwhile
\* goes to nobody.
Told(s, asset) ==
  agent' = [agent EXCEPT ![regCall[s].host] =
              IF @.key = regCall[s].key THEN [@ EXCEPT !.asset = asset] ELSE @]

\* Another registration of the token is between its look at it and the bind.
Rival(s) == \E o \in RegSlots \ {s} : /\ regCall[o].key = regCall[s].key
                                      /\ regCall[o].at \in {"insert", "bind"}

\* Unknown and revoked tokens are refused: the agent gives up until it is
\* installed anew.
ReadToken(s) ==
  LET c == regCall[s]
      row == token[c.key] IN
  /\ Reg(s, "read")
  /\ IF row.revoked
       THEN /\ regCall' = [regCall EXCEPT ![s] = NoReg]
            /\ agent' = [agent EXCEPT ![c.host] = IF @.key = c.key THEN [@ EXCEPT !.key = Nil] ELSE @]
       ELSE /\ regCall' = [regCall EXCEPT ![s].asset = row.asset,
                             ![s].at = IF row.asset = Nil THEN "insert" ELSE "update"]
            /\ UNCHANGED agent
  /\ late' = [late EXCEPT ![c.key] =
       IF ~row.revoked /\ row.asset = Nil /\ Rival(s) THEN @ + 1 ELSE @]
  /\ UNCHANGED <<token, machine, contractsOf, agentsPage, unbound, deskVars>>

UpdateMachine(s) ==
  /\ Reg(s, "update")
  /\ Told(s, regCall[s].asset)
  /\ regCall' = [regCall EXCEPT ![s] = NoReg]
  /\ UNCHANGED <<token, machine, contractsOf, agentsPage, late, unbound, deskVars>>

InsertMachine(s) ==
  LET k == regCall[s].key IN
  /\ Reg(s, "insert")
  /\ \E a \in AssetIds :
       /\ First({x \in AssetIds : machine[x] = Nil}, a)
       /\ machine' = [machine EXCEPT ![a] = k]
       /\ regCall' = [regCall EXCEPT ![s].at = "bind", ![s].asset = a]
  /\ UNCHANGED <<token, contractsOf, agent, agentsPage, late, unbound, deskVars>>

\* Faulty variant, for testing the properties: only last_seen is written.
BindNothing(s) ==
  /\ Reg(s, "bind")
  /\ Then(s, "contract")
  /\ UNCHANGED <<token, machine, contractsOf, agent, agentsPage, late, unbound, deskVars>>

BindToken(s) ==
  LET c == regCall[s] IN
  /\ Reg(s, "bind")
  /\ token' = [token EXCEPT ![c.key].asset = c.asset]
  /\ Then(s, "contract")
  /\ UNCHANGED <<machine, contractsOf, agent, agentsPage, late, unbound, deskVars>>

AddContract(s) ==
  /\ Reg(s, "contract")
  /\ contractsOf' = [contractsOf EXCEPT ![regCall[s].asset] = @ + 1]
  /\ Told(s, regCall[s].asset)
  /\ regCall' = [regCall EXCEPT ![s] = NoReg]
  /\ UNCHANGED <<token, machine, agentsPage, late, unbound, deskVars>>

\* A statement fails: the answer is an error, what has been written stays.
RegisterFails(s) ==
  /\ Act
  /\ regCall[s] # NoReg
  /\ regCall' = [regCall EXCEPT ![s] = NoReg]
  /\ unbound' = [unbound EXCEPT ![regCall[s].key] = IF Reg(s, "bind") THEN @ + 1 ELSE @]
  /\ UNCHANGED <<token, machine, contractsOf, agent, agentsPage, late>>

-----------------------------------------------------------------------------
AgentNext ==
  \/ LoadAgents \/ ToggleTokenForm
  \/ \E k \in Tokens :
       \/ \E a \in AssetIds \cup {Nil} : IssueToken(k, a)
       \/ Revoke(k)
       \/ \E h \in Hosts : Install(h, k)
  \/ \E h \in Hosts : RestartAgent(h) \/ \E s \in RegSlots : Register(s, h)
  \/ \E s \in RegSlots : \/ ReadToken(s) \/ UpdateMachine(s) \/ InsertMachine(s)
                         \/ BindToken(s) \/ AddContract(s) \/ RegisterFails(s)

AgentSpec == DeskInit /\ AgentInit /\ [][AgentNext]_<<agentVars, deskVars>>

AgentDeskTypeOK ==
  /\ token \in [Tokens -> TokenRows \cup {Nil}]
  /\ machine \in [AssetIds -> Tokens \cup {Nil, 0}]
  /\ contractsOf \in [AssetIds -> {0, 1}]
  /\ agent \in [Hosts -> [key : Tokens \cup {Nil}, asset : AssetIds \cup {Nil}]]
  /\ \A s \in RegSlots : regCall[s] # NoReg => token[regCall[s].key] # Nil
  /\ late \in [Tokens -> Nat] /\ unbound \in [Tokens -> Nat]

MadeBy(k) == {a \in AssetIds : machine[a] = k}

\* However often agents register with a token, on however many hosts, it makes one
\* asset, plus one for each registration that found the token unbound together with
\* another one, or that broke off between its insert and its bind.
RegistersOnce ==
  \A k \in Tokens : Cardinality(MadeBy(k)) <= 1 + late[k] + unbound[k]
=============================================================================
