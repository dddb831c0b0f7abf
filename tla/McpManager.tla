----------------------------- MODULE McpManager -----------------------------
(***************************************************************************)
(* The connections to one MCP server (mcpclient/manager.go).  The start of *)
(* the kernel, a new configuration, a change of the plugins and the end of *)
(* the kernel connect and disconnect it from threads of their own; the     *)
(* manager's mutex is held for single steps only.  Other servers share     *)
(* nothing but the mutex.  It is a process of ours that talks over stdio,  *)
(* and is killed when the context of its connection ends.                  *)
(*                                                                         *)
(* A call makes at most one connection, which is named after it.  The      *)
(* context of a connection is that of the call: of the kernel, or of the   *)
(* HTTP request that changed the configuration.                            *)
(***************************************************************************)
EXTENDS Naturals

CONSTANTS
    Calls,       \* calls of the manager, each made at most once
    Tools,       \* tools the server may offer
    MaxChanges,  \* bound: changes of the server's list of tools
    NoConn       \* no connection

ASSUME NoCallAssumption == NoConn \notin Calls

VARIABLES
    origin,     \* who configured the server: "user" or "plugin"
    config,     \* its entry in m.config or m.pluginServers
    up,         \* runCtx is set
    shutdown,   \* the context of the kernel has ended
    what,       \* kind of each call
    asked,      \* the configuration a call brings
    pc,         \* where each call is
    drop,       \* the connection a call has taken out and has to close
    over,       \* calls whose HTTP request has ended
    cancelled,  \* connections whose cancel function was called
    client,     \* client of each connection; it is "dialed" until session.client is set
    session,    \* m.sessions: the current connection
    state,      \* status.State of each connection
    names,      \* toolNames of each connection
    list,       \* the tools a call was told by the server
    registry,   \* tools of the server in the tool registry
    offered, changes,   \* what the server offers, and how often that has changed
    refresh,    \* goroutines that bring the list of tools up to date
    overwritten \* history variable: connections replaced without being closed

calls   == <<what, asked, pc, drop, list>>
conns   == <<cancelled, client, state, names, overwritten>>
manager == <<config, up, session, registry>>
world   == <<origin, shutdown, over, offered, changes, refresh>>
mcpVars == <<calls, conns, manager, world>>

Configs == {"absent", "disabled", "enabled"}

ContextDone(c) ==
    \/ c \in cancelled \cup over
    \/ shutdown /\ what[c] # "replace"

McpInit ==
    /\ origin \in {"user", "plugin"} /\ config \in Configs
    /\ up = FALSE /\ shutdown = FALSE
    /\ what = [c \in Calls |-> "none"] /\ asked = [c \in Calls |-> "absent"]
    /\ pc = [c \in Calls |-> "none"] /\ drop = [c \in Calls |-> NoConn]
    /\ over = {} /\ cancelled = {}
    /\ client = [c \in Calls |-> "none"] /\ session = NoConn
    /\ state = [c \in Calls |-> "none"]
    /\ names = [c \in Calls |-> {}] /\ list = [c \in Calls |-> {}]
    /\ registry = {} /\ offered \in SUBSET Tools /\ changes = 0 /\ refresh = {}
    /\ overwritten = {}

\* A call goes on; it closes what it took out first.
At(c, place) == pc[c] = place /\ drop[c] = NoConn
Goto(c, place) == pc' = [pc EXCEPT ![c] = place]

-----------------------------------------------------------------------------
(***************************************************************************)
(* Disconnect: the entry and the tools go under the mutex, the connection  *)
(* is closed after it.                                                     *)
(***************************************************************************)

\* Faulty variant: the connection is taken out and not closed.
DisconnectOpen(c, next) ==
    /\ Goto(c, next)
    /\ drop' = drop
    /\ session' = NoConn
    /\ registry' = IF session = NoConn THEN registry ELSE registry \ names[session]

Disconnect(c, next) ==
    /\ Goto(c, next)
    /\ drop' = [drop EXCEPT ![c] = session]
    /\ session' = NoConn
    /\ registry' = IF session = NoConn THEN registry ELSE registry \ names[session]

\* A connection whose client was not stored yet is only cancelled.
CloseDropped(c) ==
    /\ drop[c] # NoConn
    /\ cancelled' = cancelled \cup {drop[c]}
    /\ client' = [client EXCEPT ![drop[c]] = IF @ = "open" THEN "closed" ELSE @]
    /\ drop' = [drop EXCEPT ![c] = NoConn]
    /\ UNCHANGED <<what, asked, pc, list, state, names, overwritten, manager, world>>

-----------------------------------------------------------------------------
(***************************************************************************)
(* The calls.                                                              *)
(***************************************************************************)

Called(c, kind, new, place) ==
    /\ pc[c] = "none"
    /\ what' = [what EXCEPT ![c] = kind] /\ asked' = [asked EXCEPT ![c] = new]
    /\ Goto(c, place)

\* The goroutine of the kernel's start; what it connects is read again by Connect.
StartManager(c) ==
    /\ \A d \in Calls : what[d] # "start"
    /\ Called(c, "start", config, IF config = "enabled" THEN "connect" ELSE "returned")
    /\ up' = TRUE
    /\ UNCHANGED <<drop, list, conns, config, session, registry, world>>

\* A configuration without the server disconnects it before it is saved.
Replace(c, new) ==
    /\ origin = "user"
    /\ Called(c, "replace", new, IF config # "absent" /\ new = "absent" THEN "remove" ELSE "save")
    /\ UNCHANGED <<drop, list, conns, manager, world>>

RemoveServer(c) ==
    /\ At(c, "remove") /\ Disconnect(c, "save")
    /\ UNCHANGED <<what, asked, list, conns, config, up, world>>

\* Saved, or put back because the file could not be written.
Save(c) ==
    /\ At(c, "save")
    /\ \/ config' = asked[c] /\ Goto(c, IF asked[c] = "absent" THEN "returned" ELSE "apply")
       \/ config' = config /\ Goto(c, "returned")
    /\ UNCHANGED <<what, asked, drop, list, conns, up, session, registry, world>>

\* The plugins changed: the servers they had are disconnected, the new ones connected
\* if the kernel had started by then.
SetPluginServers(c, new) ==
    /\ origin = "plugin"
    /\ LET connect == up /\ new = "enabled" IN
       Called(c, "plugins", IF connect THEN new ELSE "disabled",
              IF config # "absent" THEN "apply" ELSE IF connect THEN "connect" ELSE "returned")
    /\ config' = new
    /\ UNCHANGED <<drop, list, conns, up, session, registry, world>>

Apply(c) ==
    /\ At(c, "apply")
    /\ Disconnect(c, IF asked[c] = "enabled" THEN "connect" ELSE "returned")
    /\ UNCHANGED <<what, asked, list, conns, config, up, world>>

\* The kernel ends: its context first, then the connections there are.
Close(c) ==
    /\ ~shutdown /\ shutdown' = TRUE
    /\ Called(c, "close", "absent", "close")
    /\ UNCHANGED <<drop, list, conns, manager, origin, over, offered, changes, refresh>>

ForgetContext(c) ==
    /\ At(c, "close") /\ Goto(c, "collect")
    /\ up' = FALSE
    /\ UNCHANGED <<what, asked, drop, list, conns, config, session, registry, world>>

Collect(c) ==
    /\ At(c, "collect") /\ Goto(c, IF session = NoConn THEN "returned" ELSE "apply")
    /\ UNCHANGED <<what, asked, drop, list, conns, manager, world>>

\* The HTTP request of a call is answered, or its client has gone.
RequestEnds(c) ==
    /\ what[c] = "replace" /\ c \notin over
    /\ over' = over \cup {c}
    /\ UNCHANGED <<calls, conns, manager, origin, shutdown, offered, changes, refresh>>

-----------------------------------------------------------------------------
(***************************************************************************)
(* Connect.                                                                *)
(***************************************************************************)

ReadConfig(c) ==
    /\ At(c, "connect")
    /\ Goto(c, IF config = "enabled" THEN "reset" ELSE "returned")
    /\ UNCHANGED <<what, asked, drop, list, conns, manager, world>>

Reset(c) ==
    /\ At(c, "reset") /\ Disconnect(c, "enter")
    /\ UNCHANGED <<what, asked, list, conns, config, up, world>>

\* Another call may have connected since: its connection is forgotten.
Enter(c) ==
    /\ At(c, "enter") /\ Goto(c, "dial")
    /\ session' = c
    /\ state' = [state EXCEPT ![c] = "connecting"]
    /\ overwritten' = overwritten \cup ({session} \ {NoConn})
    /\ UNCHANGED <<what, asked, drop, list, cancelled, client, names, config, up, registry, world>>

Dial(c) ==
    /\ At(c, "dial") /\ ~ContextDone(c) /\ Goto(c, "admit")
    /\ client' = [client EXCEPT ![c] = "dialed"]
    /\ UNCHANGED <<what, asked, drop, list, cancelled, state, names, overwritten, manager, world>>

\* There is no transport: the context is left as it is.
TransportFails(c) ==
    /\ At(c, "dial") /\ Goto(c, "fail")
    /\ UNCHANGED <<what, asked, drop, list, conns, manager, world>>

\* The handshake fails, or the server does not tell its tools.
ConnectFails(c) ==
    /\ At(c, "dial") \/ At(c, "list")
    /\ Goto(c, "fail")
    /\ cancelled' = cancelled \cup {c}
    /\ client' = [client EXCEPT ![c] = IF @ = "none" THEN @ ELSE "closed"]
    /\ UNCHANGED <<what, asked, drop, list, state, names, overwritten, manager, world>>

\* fail: only the current connection shows an error.
Fail(c) ==
    /\ At(c, "fail") /\ Goto(c, "returned")
    /\ state' = IF session = c THEN [state EXCEPT ![c] = "error"] ELSE state
    /\ UNCHANGED <<what, asked, drop, list, cancelled, client, names, overwritten, manager, world>>

\* A call whose connection was replaced closes it itself.
Replaced(c) ==
    /\ At(c, "admit") \/ At(c, "install")
    /\ session # c
    /\ Goto(c, "returned")
    /\ cancelled' = cancelled \cup {c}
    /\ client' = [client EXCEPT ![c] = "closed"]
    /\ UNCHANGED <<what, asked, drop, list, state, names, overwritten, manager, world>>

Admit(c) ==
    /\ At(c, "admit") /\ session = c /\ Goto(c, "list")
    /\ client' = [client EXCEPT ![c] = "open"]
    /\ UNCHANGED <<what, asked, drop, list, cancelled, state, names, overwritten, manager, world>>

ListTools(c) ==
    /\ At(c, "list") /\ client[c] = "open" /\ ~ContextDone(c)
    /\ Goto(c, "install")
    /\ list' = [list EXCEPT ![c] = offered]
    /\ UNCHANGED <<what, asked, drop, conns, manager, world>>

\* Faulty variant: the tools of a replaced connection are installed.
InstallAnyway(c, tools) ==
    /\ registry' = (registry \ names[c]) \cup tools
    /\ names' = [names EXCEPT ![c] = tools]

\* installTools: the tools of the current connection take the place of its former ones.
Install(c, tools) ==
    /\ session = c
    /\ registry' = (registry \ names[c]) \cup tools
    /\ names' = [names EXCEPT ![c] = tools]

InstallTools(c) ==
    /\ At(c, "install") /\ Goto(c, "report")
    /\ Install(c, list[c])
    /\ UNCHANGED <<what, asked, drop, list, cancelled, client, state, overwritten, config, up,
                   session, world>>

Report(c) ==
    /\ At(c, "report") /\ Goto(c, "returned")
    /\ state' = IF session = c THEN [state EXCEPT ![c] = "connected"] ELSE state
    /\ UNCHANGED <<what, asked, drop, list, cancelled, client, names, overwritten, manager, world>>

-----------------------------------------------------------------------------
(***************************************************************************)
(* The server changes its list and notifies every client; each             *)
(* notification is a goroutine of its own.                                 *)
(***************************************************************************)

Living(c) == client[c] \in {"dialed", "open"} /\ ~ContextDone(c)

ToolListChanged(tools) ==
    /\ changes < MaxChanges /\ tools # offered
    /\ offered' = tools /\ changes' = changes + 1
    /\ refresh' = refresh \cup [conn : {c \in Calls : Living(c)}, nr : {changes}, list : {NoConn}]
    /\ UNCHANGED <<calls, conns, manager, origin, shutdown, over>>

RefreshLists(r) ==
    /\ r.list = NoConn /\ session = r.conn /\ client[r.conn] = "open" /\ ~ContextDone(r.conn)
    /\ refresh' = (refresh \ {r}) \cup {[r EXCEPT !.list = offered]}
    /\ UNCHANGED <<calls, conns, manager, origin, shutdown, over, offered, changes>>

RefreshInstalls(r) ==
    /\ r.list # NoConn /\ Install(r.conn, r.list)
    /\ refresh' = refresh \ {r}
    /\ UNCHANGED <<calls, cancelled, client, state, overwritten, config, up, session, origin,
                   shutdown, over, offered, changes>>

\* The connection is not current any more, its context has ended, or time is up.
RefreshEnds(r) ==
    /\ refresh' = refresh \ {r}
    /\ UNCHANGED <<calls, conns, manager, origin, shutdown, over, offered, changes>>

-----------------------------------------------------------------------------
McpNext ==
    \/ \E c \in Calls, new \in Configs : Replace(c, new) \/ SetPluginServers(c, new)
    \/ \E c \in Calls :
          \/ StartManager(c) \/ Close(c) \/ ForgetContext(c) \/ Collect(c) \/ RequestEnds(c)
          \/ CloseDropped(c) \/ RemoveServer(c) \/ Save(c) \/ Apply(c)
          \/ ReadConfig(c) \/ Reset(c) \/ Enter(c) \/ Dial(c)
          \/ TransportFails(c) \/ ConnectFails(c) \/ Fail(c)
          \/ Replaced(c) \/ Admit(c) \/ ListTools(c) \/ InstallTools(c) \/ Report(c)
    \/ \E tools \in SUBSET Tools : ToolListChanged(tools)
    \/ \E r \in refresh : RefreshLists(r) \/ RefreshInstalls(r) \/ RefreshEnds(r)

McpSpec == McpInit /\ [][McpNext]_mcpVars

-----------------------------------------------------------------------------
(***************************************************************************)
(* Properties.                                                             *)
(***************************************************************************)

\* However calls overlap, a client that lives is the current one, or a call is about to
\* close it.  (Connect disconnects and enters in two steps; one that comes in between
\* forgets a connection.  That is overwritten.)
NoConnectionLeaks ==
    \A c \in Calls : Living(c) =>
        \/ session = c \/ c \in overwritten
        \/ pc[c] \in {"admit", "list", "install"}
        \/ \E d \in Calls : drop[d] = c

\* The registered tools are those of the current connection (mcp.md: a connection that is
\* replaced is closed and its tools are removed), and a connection that says it is
\* connected has them and was not closed.
ToolsAreCurrent ==
    /\ overwritten = {} => registry = IF session = NoConn THEN {} ELSE names[session]
    /\ session # NoConn =>
           /\ names[session] \subseteq registry
           /\ state[session] = "connected" => client[session] = "open"

\* mcp.md, "持续维护连接状态": the manager keeps the state of a connection up to date, and
\* tools of a connection that failed do not stay.  So a connection that says it is
\* connected is one whose context, and with it its process, lives.
ConnectedLives ==
    session # NoConn /\ state[session] = "connected" /\ ~shutdown => ~ContextDone(session)
=============================================================================
