------------------------------ MODULE McpTools ------------------------------
(***************************************************************************)
(* The tools of MCP servers.  A task runner connects to the servers its    *)
(* configuration enables, one after the other, and offers the model every  *)
(* tool they list under a name made of the server's and the tool's.  A     *)
(* call has only that name: the server is found again by the first prefix  *)
(* that fits, among all that are configured.                               *)
(*                                                                         *)
(* A name is the sequence of its parts between underscores.  Transports,   *)
(* arguments and results are left out.  The servers are external.          *)
(***************************************************************************)
EXTENDS Naturals, FiniteSets, Sequences, SequencesExt

CONSTANTS McpServers,     \* names of servers
          McpNames        \* names of tools; a server that lists its tools has them all

\* A server is listed with a name, and so is a tool.
ASSUME McpAssumption ==
  /\ IsFiniteSet(McpServers) /\ McpServers \cup McpNames \subseteq Seq(STRING) \ {<<>>}

VARIABLES config,     \* [order, enabled]: the configuration's servers, in order
          mgr,        \* [pc, next, clients, cached]: MCPClientManager; cached has the tools of each server
          kit,        \* [ready, tools]: MCPToolkit; a tool is [name, server, tool]
          called        \* the last call: [name, at, tool, how]

mcpVars == <<config, mgr, kit, called>>

NewManager == [pc |-> "new", next |-> 1, clients |-> {}, cached |-> {}]
NoCall == [name |-> <<>>, at |-> <<>>, tool |-> <<>>, how |-> "none"]

McpInit ==
  /\ \E order \in SetToSeqs(McpServers), on \in SUBSET McpServers :
       config = [order |-> order, enabled |-> on]
  /\ mgr = NewManager /\ kit = [ready |-> FALSE, tools |-> {}] /\ called = NoCall

-----------------------------------------------------------------------------
(* Connecting, once for every runner.                                       *)

Server == config.order[mgr.next]
AllTried == mgr.next > Len(config.order)

Initialize ==
  /\ ~kit.ready /\ mgr.pc = "new" /\ mgr' = [mgr EXCEPT !.pc = "connect"]
  /\ UNCHANGED <<config, kit, called>>

SkipServer ==
  /\ mgr.pc = "connect" /\ ~AllTried /\ Server \notin config.enabled
  /\ mgr' = [mgr EXCEPT !.next = @ + 1]
  /\ UNCHANGED <<config, kit, called>>

\* It fails, and the others go on; or its session is kept, and its tools when it lists them.
Connect ==
  /\ mgr.pc = "connect" /\ ~AllTried /\ Server \in config.enabled
  /\ \/ mgr' = [mgr EXCEPT !.next = @ + 1]
     \/ \E tools \in {{}, McpNames} :
          mgr' = [mgr EXCEPT !.next = @ + 1, !.clients = @ \cup {Server},
                             !.cached = @ \cup {[server |-> Server, tools |-> tools]}]
  /\ UNCHANGED <<config, kit, called>>

\* The task is interrupted while it connects: the next attempt starts with a new manager.
Abandon ==
  /\ mgr.pc = "connect" /\ mgr' = NewManager
  /\ UNCHANGED <<config, kit, called>>

Marked(s) == Len(s) > 1 /\ s[1] = "mcp"

\* get_all_tools: the name a tool is offered under.
Offered(s, t) == (IF Marked(s) THEN s ELSE <<"mcp">> \o s) \o t

BuildTools ==
  /\ mgr.pc = "connect" /\ AllTried
  /\ LET of(c) == {[name |-> Offered(c.server, t), server |-> c.server, tool |-> t] : t \in c.tools}
     IN  kit' = [ready |-> TRUE, tools |-> UNION {of(c) : c \in mgr.cached}]
  /\ mgr' = [mgr EXCEPT !.pc = "ready"]
  /\ UNCHANGED <<config, called>>

-----------------------------------------------------------------------------
(* Calls.                                                                   *)

\* call_tool: the first configured server whose prefix the name has, enabled or not.
Prefix_Always(s) == <<"mcp">> \o s
Prefix(s) == IF Marked(s) THEN s ELSE <<"mcp">> \o s
NameFits(s, name) == IsStrictPrefix(Prefix(s), name)
Resolved(name) ==
  LET fits == {i \in DOMAIN config.order : NameFits(config.order[i], name)}
  IN  IF fits = {} THEN {} ELSE {config.order[CHOOSE i \in fits : \A j \in fits : i <= j]}

\* A server that refuses or fails answers too; an unknown tool is an answer of that kind.
CallTool(tool) ==
  /\ kit.ready
  /\ LET name == tool.name
         rest(s) == SubSeq(name, Len(Prefix(s)) + 1, Len(name))
     IN  \/ /\ Resolved(name) = {} /\ called' = [NoCall EXCEPT !.name = name, !.how = "unresolved"]
         \/ \E s \in Resolved(name) :
              called' = [name |-> name, at |-> s, tool |-> rest(s),
                       how |-> IF s \notin mgr.clients THEN "unconnected"
                               ELSE IF rest(s) \in McpNames THEN "ran" ELSE "unknown"]
  /\ UNCHANGED <<config, mgr, kit>>

\* The runner is destroyed: its clients are gone, its tools are not.  When the connections
\* cannot be closed the clients stay as well.
Cleanup ==
  /\ kit.ready /\ mgr' \in {mgr, NewManager}
  /\ UNCHANGED <<config, kit, called>>

McpNext ==
  \/ Initialize \/ SkipServer \/ Connect \/ Abandon \/ BuildTools \/ Cleanup
  \/ \E tool \in kit.tools : CallTool(tool)

McpSpec == McpInit /\ [][McpNext]_mcpVars

-----------------------------------------------------------------------------
McpTypeOK ==
  /\ Range(config.order) = McpServers /\ config.enabled \subseteq McpServers
  /\ mgr.pc \in {"new", "connect", "ready"} /\ mgr.next \in 1..Len(config.order) + 1
  /\ mgr.clients \subseteq McpServers
  /\ kit.ready \in BOOLEAN /\ \A t \in kit.tools : t.server \in McpServers /\ t.tool \in McpNames
  /\ called.how \in {"none", "unresolved", "unconnected", "unknown", "ran"}

\* The servers a name could have been offered by.
Claimants(name) == {s \in McpServers : IsStrictPrefix(Offered(s, <<>>), name)}

(* A call runs the tool the model was offered, at the server that offered  *)
(* it, whatever servers are configured, enabled or failing, as long as no  *)
(* other server's name fits: server "a_b" is unreachable behind a server   *)
(* "a" that comes first.  Such a call never finds no server, or a server   *)
(* that does not know the tool, and finds its server gone only after the   *)
(* runner was destroyed.  Nothing ever runs at a server that is disabled.  *)
(* (mcp.py:221-300.)                                                       *)
ToolsRouted ==
  /\ called.how = "ran" => called.at \in config.enabled
  /\ \A tool \in kit.tools :
       tool.name = called.name /\ Cardinality(Claimants(tool.name)) = 1 =>
         /\ called.how \in {"ran", "unconnected"}
         /\ called.at = tool.server /\ called.tool = tool.tool
         /\ called.how = "unconnected" => mgr.pc = "new"
=============================================================================
