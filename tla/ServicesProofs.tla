---------------------------- MODULE ServicesProofs ----------------------------
(***************************************************************************)
(* Proofs about the services beside a turn: the shell commands of a        *)
(* session, for any number of commands, and the connections to an MCP      *)
(* server, for any number of calls, tools and changes.                     *)
(***************************************************************************)
EXTENDS BackgroundCommands, McpManager, TLAPS

-----------------------------------------------------------------------------
(***************************************************************************)
(* The shell commands.                                                     *)
(***************************************************************************)

Stages == {"none", "started", "listed", "waiting", "finishing", "reaping", "returned"}

\* RunningIsReachable for one command.
Reachable(x) ==
    process[x] = "running" /\ x \notin killed =>
        /\ x \in listed \cup doomed \/ call[x] = "started"
        /\ cleared => x \in doomed \cup lateCommands \/ call[x] = "started"

\* A call takes its command off the list only when the process has ended.
CommandInv ==
    /\ call \in [Commands -> Stages] /\ process \in [Commands -> {"none", "running", "ended"}]
    /\ ~cleared => doomed = {}
    /\ \A x \in Commands :
           /\ call[x] = "none" => process[x] = "none"
           /\ call[x] = "finishing" => process[x] = "ended"
           /\ Reachable(x)

LEMMA CommandInit == CmdInit => CommandInv
  BY DEF CmdInit, CommandInv, Reachable, Stages

\* A step that starts no process and takes nothing off the lists.
LEMMA CommandFrame ==
  ASSUME CommandInv, UNCHANGED <<process, listed, doomed, cleared, lateCommands>>,
         killed \subseteq killed',
         NEW x \in Commands, NEW to \in Stages,
         \/ UNCHANGED call
         \/ /\ call[x] \notin {"none", "started"} /\ call' = [call EXCEPT ![x] = to]
            /\ to = "finishing" => process[x] = "ended"
            /\ to # "none"
  PROVE  CommandInv'
<1>1. call' \in [Commands -> Stages]  BY DEF CommandInv
<1>2. \A y \in Commands : call'[y] = call[y] \/ (y = x /\ call[x] \notin {"none", "started"}
                                                 /\ call'[x] = to)
  BY DEF CommandInv
<1>3. ASSUME NEW y \in Commands
      PROVE  /\ call'[y] = "none" => process'[y] = "none"
             /\ call'[y] = "finishing" => process'[y] = "ended"
  BY <1>2 DEF CommandInv
<1>4. ASSUME NEW y \in Commands PROVE Reachable(y)'
  BY <1>2 DEF CommandInv, Reachable
<1> QED  BY <1>1, <1>3, <1>4 DEF CommandInv

LEMMA CommandNext == ASSUME CommandInv, [CmdNext]_cmdVars PROVE CommandInv'
<1>1. CASE ClearSession
  BY <1>1 DEF ClearSession, CommandInv, Reachable
<1>2. CASE UNCHANGED cmdVars
  BY <1>2 DEF cmdVars, CommandInv, Reachable
<1>3. ASSUME NEW x \in Commands, StartProcess(x) PROVE CommandInv'
  BY <1>3 DEF StartProcess, CallAt, CommandInv, Reachable, Stages
<1>4. ASSUME NEW x \in Commands, ProcessEnds(x) PROVE CommandInv'
  BY <1>4 DEF ProcessEnds, CommandInv, Reachable
<1>5. ASSUME NEW x \in Commands, ListForeground(x) \/ ListBackground(x) PROVE CommandInv'
  <2>1. /\ call[x] = "started" /\ \E to \in {"listed", "returned"} : call' = [call EXCEPT ![x] = to]
        /\ List(x)
    BY <1>5 DEF ListForeground, ListBackground, CallAt
  <2> QED  BY <2>1 DEF List, CommandInv, Reachable, Stages
<1>6. ASSUME NEW x \in Commands, FinishForeground(x) PROVE CommandInv'
  <2>1. /\ process[x] = "ended" /\ call[x] \in {"finishing", "reaping"}
        /\ call' = [call EXCEPT ![x] = "returned"]
        /\ listed \ {x} \subseteq listed'
        /\ UNCHANGED <<process, killed, doomed, cleared, lateCommands>>
    BY <1>6 DEF FinishForeground, CallAt, CommandInv
  <2> QED  BY <2>1 DEF CommandInv, Reachable, Stages
<1>7. ASSUME NEW x \in Commands, Activate(x) \/ SeeEnd(x) \/ SeeContext(x) \/ SeePromotion(x)
      PROVE  CommandInv'
  <2>1. /\ UNCHANGED <<process, listed, doomed, cleared, lateCommands>> /\ killed \subseteq killed'
        /\ call[x] \notin {"none", "started"}
        /\ \E to \in Stages \ {"none"} : /\ call' = [call EXCEPT ![x] = to]
                                         /\ to = "finishing" => process[x] = "ended"
    BY <1>7 DEF Activate, SeeEnd, SeeContext, SeePromotion, CallAt, Stages
  <2> QED  BY <2>1, CommandFrame
<1>8. ASSUME NEW x \in Commands, Telling(x) \/ Client(x) \/ WatcherTells(x) \/ StopTells(x)
      PROVE  CommandInv'
  <2>1. /\ UNCHANGED <<call, process, listed, doomed, cleared, lateCommands>>
        /\ killed \subseteq killed'
    BY <1>8 DEF Telling, CheckRunning, MarkPromoted, Notify, Watched, Client, EndCallContext,
                Promote, Reveal, Stop, WatcherTells, StopTells
  <2> QED  BY <2>1, CommandFrame DEF Stages
<1>9. ASSUME NEW x \in Commands, StopDoomed(x) PROVE CommandInv'
  BY <1>9 DEF StopDoomed, CommandInv, Reachable
<1> QED
  BY <1>1, <1>2, <1>3, <1>4, <1>5, <1>6, <1>7, <1>8, <1>9 DEF CmdNext, ToolCall

(***************************************************************************)
(* Whoever a command passes between - its call, Promote, Stop, the         *)
(* deletion of the session - one that runs can be stopped by somebody, for *)
(* any number of commands (background_commands.go).                        *)
(***************************************************************************)
THEOREM AlwaysReachable == CmdSpec => []RunningIsReachable
<1>1. CommandInv => RunningIsReachable
  BY DEF CommandInv, Reachable, RunningIsReachable
<1> QED  BY CommandInit, CommandNext, <1>1, PTL DEF CmdSpec

-----------------------------------------------------------------------------
(***************************************************************************)
(* What clients are told.                                                  *)
(***************************************************************************)

\* The end of a command that clients heard of was told last, or there is a watcher that
\* will tell it, or whoever told something else goes on to start one.
EndIsOwed ==
    \A x \in Commands : process[x] = "ended" /\ lastTold[x] # "none" =>
        lastTold[x] = "ended" \/ x \in watched \/ teller[x] = "notified"

ToldInv ==
    /\ word \in [Commands -> {"none", "running", "ended"}]
    /\ lastTold \in [Commands -> {"none", "running", "ended"}]
    /\ teller \in [Commands -> {"none", "taken", "checked", "marked", "notified", "returned"}]
    /\ \A x \in Commands :
           /\ process[x] = "none" => call[x] = "none" /\ teller[x] \in {"none", "taken", "returned"}
           /\ lastTold[x] = "running" => x \in watched \/ teller[x] = "notified"

LEMMA ToldInit == CmdInit => ToldInv
  BY DEF CmdInit, ToldInv

LEMMA ToldNext == ASSUME CommandInv, ToldInv, [CmdNext]_cmdVars PROVE ToldInv'
<1>1. CASE ClearSession \/ UNCHANGED cmdVars
  BY <1>1 DEF ClearSession, cmdVars, ToldInv
<1>2. ASSUME NEW x \in Commands, StartProcess(x) PROVE ToldInv'
  BY <1>2 DEF StartProcess, CallAt, CommandInv, ToldInv
<1>3. ASSUME NEW x \in Commands, ProcessEnds(x) PROVE ToldInv'
  BY <1>3 DEF ProcessEnds, CommandInv, ToldInv
<1>4. ASSUME NEW x \in Commands, ListForeground(x) \/ Activate(x) \/ FinishForeground(x)
                                    \/ SeeContext(x) \/ SeePromotion(x)
      PROVE  ToldInv'
  <2>1. /\ UNCHANGED <<process, teller, word, watched, lastTold>>
        /\ \A y \in Commands : call[y] # "none" => call'[y] # "none"
        /\ call[x] # "none" /\ \A y \in Commands : call'[y] # call[y] => y = x
    BY <1>4 DEF ListForeground, List, Activate, FinishForeground, SeeContext, SeePromotion, CallAt,
                CommandInv
  <2> QED  BY <2>1 DEF ToldInv
<1>5. ASSUME NEW x \in Commands, ListBackground(x) PROVE ToldInv'
  BY <1>5 DEF ListBackground, List, CallAt, TellerAt, CommandInv, ToldInv
<1>6. ASSUME NEW x \in Commands, SeeEnd(x) PROVE ToldInv'
  BY <1>6 DEF SeeEnd, CallAt, Tell, CommandInv, ToldInv
<1>7. ASSUME NEW x \in Commands, EndCallContext(x) \/ Reveal(x) \/ Stop(x) \/ StopDoomed(x)
      PROVE  ToldInv'
  BY <1>7 DEF EndCallContext, Reveal, Stop, StopDoomed, ToldInv
<1>8. ASSUME NEW x \in Commands, Promote(x) \/ CheckRunning(x) PROVE ToldInv'
  BY <1>8 DEF Promote, CheckRunning, TellerAt, ToldInv
<1>9. ASSUME NEW x \in Commands, MarkPromoted(x) PROVE ToldInv'
  BY <1>9 DEF MarkPromoted, TellerAt, CommandInv, ToldInv
<1>10. ASSUME NEW x \in Commands, Notify(x) PROVE ToldInv'
  BY <1>10 DEF Notify, TellerAt, Tell, ToldInv
<1>11. ASSUME NEW x \in Commands, Watched(x) PROVE ToldInv'
  BY <1>11 DEF Watched, Watch, TellerAt, ToldInv
<1>12. ASSUME NEW x \in Commands, WatcherTells(x) \/ StopTells(x) PROVE ToldInv'
  BY <1>12 DEF WatcherTells, StopTells, Tell, ToldInv
<1> QED
  BY <1>1, <1>2, <1>3, <1>4, <1>5, <1>6, <1>7, <1>8, <1>9, <1>10, <1>11, <1>12
     DEF CmdNext, ToolCall, Telling, Client

(***************************************************************************)
(* The safety half of EndIsTold, for any number of commands: clients are   *)
(* never left with another word about a command that has ended and nobody  *)
(* who will tell its end (notifySnapshot and watch, beside Stop and the    *)
(* tool call that tell it as well).                                        *)
(***************************************************************************)
THEOREM EndAlwaysOwed == CmdSpec => []EndIsOwed
<1>1. ToldInv => EndIsOwed
  BY DEF ToldInv, EndIsOwed
<1>2. CommandInv /\ ToldInv /\ [CmdNext]_cmdVars => ToldInv'
  BY ToldNext
<1>3. CommandInv /\ [CmdNext]_cmdVars => CommandInv'
  BY CommandNext
<1> QED  BY CommandInit, ToldInit, <1>1, <1>2, <1>3, PTL DEF CmdSpec

-----------------------------------------------------------------------------
(***************************************************************************)
(* The connections to an MCP server.                                       *)
(***************************************************************************)

\* Where a call has made no connection yet.
Before == {"none", "remove", "save", "apply", "close", "collect", "connect", "reset", "enter"}
Places == Before \cup {"dial", "admit", "list", "install", "report", "fail", "returned"}

McpTypes ==
    /\ pc \in [Calls -> Places] /\ drop \in [Calls -> Calls \cup {NoConn}]
    /\ client \in [Calls -> {"none", "dialed", "open", "closed"}]
    /\ state \in [Calls -> {"none", "connecting", "connected", "error"}]
    /\ names \in [Calls -> SUBSET Tools] /\ list \in [Calls -> SUBSET Tools]
    /\ session \in Calls \cup {NoConn} /\ registry \subseteq Tools /\ offered \subseteq Tools
    /\ \A r \in refresh : r.conn \in Calls /\ r.list \in (SUBSET Tools) \cup {NoConn}

\* Nothing refers to a connection that is not made yet.
NotMade == \A c \in Calls : pc[c] \in Before =>
    /\ client[c] = "none" /\ names[c] = {} /\ session # c
    /\ \A d \in Calls : drop[d] # c

\* A call has no client before it dials, and none that is open when it fails.
ClientAt == \A c \in Calls :
    /\ pc[c] = "dial" => client[c] = "none"
    /\ pc[c] = "fail" => client[c] \in {"none", "closed"}

\* What was taken out to be closed is not current again.
TakenOut == \A c \in Calls : drop[c] # NoConn => drop[c] # session

\* A call that goes on with the current connection has not lost its client.
CurrentOpen == \A c \in Calls :
    session = c /\ pc[c] \in {"list", "install", "report"} => client[c] = "open"

SaysConnected == \A c \in Calls : state[c] = "connected" => pc[c] = "returned"

McpInv == /\ McpTypes /\ NotMade /\ ClientAt /\ TakenOut /\ CurrentOpen /\ SaysConnected
          /\ NoConnectionLeaks /\ ToolsAreCurrent

LEMMA McpStart == McpInit => McpInv
  BY NoCallAssumption
  DEF McpInit, McpInv, McpTypes, NotMade, ClientAt, TakenOut, CurrentOpen, SaysConnected,
      NoConnectionLeaks, ToolsAreCurrent, Living, Before, Places

connections == <<drop, client, state, names, session, registry, overwritten, list>>

\* A step that moves a call at most, and brings no connection to life.
LEMMA CallMoves ==
  ASSUME McpInv, NEW c, NEW to,
         UNCHANGED <<drop, client, state, names, session, registry, overwritten>>,
         list' \in [Calls -> SUBSET Tools], offered' \subseteq Tools,
         \A r \in refresh' : r.conn \in Calls /\ r.list \in (SUBSET Tools) \cup {NoConn},
         \A d \in Calls : Living(d)' => Living(d),
         \/ pc' = pc
         \/ /\ c \in Calls /\ to \in Places
            /\ pc' = [pc EXCEPT ![c] = to] /\ pc[c] # "returned"
            /\ \/ pc[c] \in Before /\ to \in Before \cup {"returned"}
               \/ pc[c] = "dial" /\ to = "fail"
               \/ pc[c] = "list" /\ to = "install"
               \/ pc[c] = "fail" /\ to = "returned"
  PROVE  McpInv'
<1> DEFINE Moved(d) == \/ pc'[d] = pc[d]
                       \/ pc[d] \in Before /\ pc'[d] \in Before \cup {"returned"}
                       \/ pc[d] = "dial" /\ pc'[d] = "fail"
                       \/ pc[d] = "list" /\ pc'[d] = "install"
                       \/ pc[d] = "fail" /\ pc'[d] = "returned"
<1>1. \A d \in Calls : Moved(d) /\ (pc[d] = "returned" => pc'[d] = "returned")
  BY DEF McpInv, McpTypes
<1>2. McpTypes'
  BY DEF McpInv, McpTypes
<1>3. NotMade' /\ ClientAt' /\ CurrentOpen'
  BY <1>1 DEF McpInv, NotMade, ClientAt, CurrentOpen, Before
<1>4. TakenOut' /\ ToolsAreCurrent'
  BY DEF McpInv, TakenOut, ToolsAreCurrent
<1>5. SaysConnected'
  BY <1>1 DEF McpInv, SaysConnected
<1>6. NoConnectionLeaks'
  <2>1. SUFFICES ASSUME NEW d \in Calls, Living(d)'
                 PROVE  \/ session = d \/ d \in overwritten
                        \/ pc'[d] \in {"admit", "list", "install"}
                        \/ \E e \in Calls : drop[e] = d
    BY DEF NoConnectionLeaks
  <2>2. Living(d) /\ client[d] \in {"dialed", "open"}
    BY <2>1 DEF Living
  <2>3. pc[d] \notin Before \cup {"dial", "fail"}
    BY <2>2 DEF McpInv, NotMade, ClientAt
  <2> QED  BY <1>1, <2>2, <2>3 DEF McpInv, NoConnectionLeaks
<1> QED  BY <1>2, <1>3, <1>4, <1>5, <1>6 DEF McpInv

\* disconnect: the tools of the current connection go with it.
LEMMA DisconnectKeeps ==
  ASSUME McpInv, NEW c \in Calls, NEW next \in Before \cup {"returned"},
         pc[c] \in Before, drop[c] = NoConn, Disconnect(c, next),
         UNCHANGED <<what, list, conns, world>>
  PROVE  McpInv'
<1> USE NoCallAssumption DEF Disconnect, Goto, conns, world
<1>1. McpTypes'
  BY DEF McpInv, McpTypes, Places
<1>2. /\ \A d \in Calls : pc'[d] = pc[d] \/ (d = c /\ pc[d] \in Before /\ pc'[d] \in Before \cup {"returned"})
      /\ \A d \in Calls : drop'[d] = drop[d] \/ (d = c /\ drop'[d] = session)
      /\ drop'[c] = session
  BY DEF McpInv, McpTypes
<1>3. NotMade' /\ ClientAt' /\ TakenOut' /\ CurrentOpen' /\ SaysConnected'
  BY <1>2 DEF McpInv, McpTypes, NotMade, ClientAt, TakenOut, CurrentOpen, SaysConnected, Before
<1>4. ToolsAreCurrent'
  BY DEF McpInv, ToolsAreCurrent
<1>5. NoConnectionLeaks'
  <2>1. SUFFICES ASSUME NEW d \in Calls, Living(d)
                 PROVE  \/ session' = d \/ d \in overwritten
                        \/ pc'[d] \in {"admit", "list", "install"}
                        \/ \E e \in Calls : drop'[e] = d
    BY DEF NoConnectionLeaks, Living, ContextDone
  <2>2. CASE session = d
    BY <1>2, <2>2
  <2>3. CASE pc[d] \in {"admit", "list", "install"} \/ d \in overwritten
    BY <1>2, <2>3 DEF Before
  <2>4. CASE \E e \in Calls : drop[e] = d
    <3>1. PICK e \in Calls : drop[e] = d  BY <2>4
    <3>2. e # c  BY <3>1
    <3> QED  BY <1>2, <3>1, <3>2
  <2> QED  BY <2>1, <2>2, <2>3, <2>4 DEF McpInv, NoConnectionLeaks
<1> QED  BY <1>1, <1>3, <1>4, <1>5 DEF McpInv

LEMMA CloseKeeps == ASSUME McpInv, NEW c \in Calls, CloseDropped(c) PROVE McpInv'
<1> USE NoCallAssumption DEF CloseDropped, conns, calls, manager, world
<1> DEFINE x == drop[c]
<1>1. /\ x \in Calls /\ x # session /\ pc[x] \notin Before
      /\ pc' = pc /\ \A d \in Calls : drop'[d] = drop[d] \/ (d = c /\ drop'[d] = NoConn)
      /\ \A d \in Calls : client'[d] = client[d] \/ (d = x /\ client[d] = "open" /\ client'[d] = "closed")
  BY DEF McpInv, McpTypes, TakenOut, NotMade
<1>2. McpTypes'
  BY DEF McpInv, McpTypes
<1>3. NotMade' /\ ClientAt' /\ TakenOut' /\ CurrentOpen' /\ SaysConnected'
  BY <1>1 DEF McpInv, NotMade, ClientAt, TakenOut, CurrentOpen, SaysConnected
<1>4. ToolsAreCurrent'
  BY <1>1 DEF McpInv, McpTypes, ToolsAreCurrent
<1>5. NoConnectionLeaks'
  <2>1. SUFFICES ASSUME NEW d \in Calls, Living(d)'
                 PROVE  \/ session = d \/ d \in overwritten
                        \/ pc[d] \in {"admit", "list", "install"}
                        \/ \E e \in Calls : drop'[e] = d
    BY DEF NoConnectionLeaks
  <2>2. d # x /\ Living(d)
    BY <2>1, <1>1 DEF Living, ContextDone
  <2>3. ASSUME NEW e \in Calls, drop[e] = d PROVE drop'[e] = d
    BY <1>1, <2>2, <2>3
  <2> QED  BY <2>2, <2>3 DEF McpInv, NoConnectionLeaks
<1> QED  BY <1>2, <1>3, <1>4, <1>5 DEF McpInv

\* Enter: what it replaces is remembered as overwritten.
LEMMA EnterKeeps == ASSUME McpInv, NEW c \in Calls, Enter(c) PROVE McpInv'
<1> USE NoCallAssumption DEF Enter, At, Goto, world
<1>1. /\ pc[c] \in Before /\ pc'[c] = "dial" /\ \A d \in Calls : d # c => pc'[d] = pc[d] /\ state'[d] = state[d]
      /\ state'[c] = "connecting"
  BY DEF McpInv, McpTypes, Before
<1>2. McpTypes'
  BY DEF McpInv, McpTypes, Places
<1>3. NotMade' /\ ClientAt' /\ TakenOut' /\ CurrentOpen' /\ SaysConnected'
  BY <1>1 DEF McpInv, McpTypes, NotMade, ClientAt, TakenOut, CurrentOpen, SaysConnected, Before
<1>4. ToolsAreCurrent'
  <2>1. names[c] = {} /\ (session # NoConn => overwritten' # {})
    BY <1>1 DEF McpInv, NotMade
  <2> QED  BY <1>1, <2>1 DEF McpInv, ToolsAreCurrent
<1>5. NoConnectionLeaks'
  <2>1. SUFFICES ASSUME NEW d \in Calls, Living(d)
                 PROVE  \/ c = d \/ d \in overwritten'
                        \/ pc'[d] \in {"admit", "list", "install"}
                        \/ \E e \in Calls : drop[e] = d
    BY DEF NoConnectionLeaks, Living, ContextDone
  <2> QED  BY <1>1, <2>1 DEF McpInv, NoConnectionLeaks
<1> QED  BY <1>2, <1>3, <1>4, <1>5 DEF McpInv

\* What the client of a call may do while the call is under way.
LEMMA ClientMoves ==
  ASSUME McpInv, NEW c \in Calls, NEW to \in {"admit", "list", "fail", "returned"},
         NEW new \in {"none", "dialed", "open", "closed"},
         UNCHANGED <<drop, list, state, names, overwritten, manager, world, what>>,
         cancelled \subseteq cancelled',
         pc' = [pc EXCEPT ![c] = to], client' = [client EXCEPT ![c] = new],
         pc[c] \in {"dial", "admit", "list", "install"},
         to = "admit" => new = "dialed",
         to = "list" => new = "open",
         to = "fail" => new \in {"none", "closed"},
         to = "returned" => new = "closed" /\ session # c
  PROVE  McpInv'
<1> USE DEF manager, world
<1>1. /\ pc'[c] = to /\ client'[c] = new
      /\ \A d \in Calls : d # c => pc'[d] = pc[d] /\ client'[d] = client[d]
  BY DEF McpInv, McpTypes
<1>2. McpTypes'
  BY DEF McpInv, McpTypes, Places
<1>3. NotMade' /\ ClientAt' /\ TakenOut' /\ CurrentOpen' /\ SaysConnected'
  BY <1>1 DEF McpInv, NotMade, ClientAt, TakenOut, CurrentOpen, SaysConnected, Before
<1>4. ToolsAreCurrent'
  BY <1>1 DEF McpInv, McpTypes, ToolsAreCurrent, SaysConnected
<1>5. NoConnectionLeaks'
  BY <1>1 DEF McpInv, NoConnectionLeaks, Living, ContextDone
<1> QED  BY <1>2, <1>3, <1>4, <1>5 DEF McpInv

\* A call says how it went.
LEMMA StateMoves ==
  ASSUME McpInv, NEW c \in Calls, Fail(c) \/ Report(c)
  PROVE  McpInv'
<1> USE DEF Fail, Report, At, Goto, manager, world
<1>1. /\ pc[c] \in {"fail", "report"} /\ pc'[c] = "returned"
      /\ \A d \in Calls : d # c => pc'[d] = pc[d] /\ state'[d] = state[d]
      /\ state'[c] = "connected" => state[c] = "connected" \/ (pc[c] = "report" /\ session = c)
  BY DEF McpInv, McpTypes
<1>2. McpTypes'
  BY DEF McpInv, McpTypes, Places
<1>3. NotMade' /\ ClientAt' /\ TakenOut' /\ CurrentOpen' /\ SaysConnected'
  BY <1>1 DEF McpInv, NotMade, ClientAt, TakenOut, CurrentOpen, SaysConnected, Before
<1>4. ToolsAreCurrent'
  <2>1. session \in Calls /\ state'[session] = "connected" => client[session] = "open"
    BY <1>1, NoCallAssumption DEF McpInv, ToolsAreCurrent, CurrentOpen
  <2> QED  BY <1>1, <2>1 DEF McpInv, McpTypes, ToolsAreCurrent
<1>5. NoConnectionLeaks'
  BY <1>1 DEF McpInv, NoConnectionLeaks, Living, ContextDone
<1> QED  BY <1>2, <1>3, <1>4, <1>5 DEF McpInv

\* installTools, by the call or by a goroutine that was notified.
LEMMA InstallKeeps ==
  ASSUME McpInv, NEW c \in Calls, NEW tools \in SUBSET Tools, Install(c, tools),
         UNCHANGED <<drop, list, client, state, overwritten, session, cancelled, over, shutdown, what>>,
         offered' = offered, refresh' \subseteq refresh,
         \/ pc' = pc
         \/ pc[c] = "install" /\ pc' = [pc EXCEPT ![c] = "report"]
  PROVE  McpInv'
<1> USE NoCallAssumption DEF Install
<1>1. /\ session = c /\ pc[c] \notin Before
      /\ names'[c] = tools /\ \A d \in Calls : d # c => names'[d] = names[d]
      /\ \A d \in Calls : pc'[d] = pc[d] \/ (d = c /\ pc[d] = "install" /\ pc'[d] = "report")
  BY DEF McpInv, McpTypes, NotMade
<1>2. McpTypes'
  BY DEF McpInv, McpTypes, Places
<1>3. NotMade' /\ ClientAt' /\ TakenOut' /\ CurrentOpen' /\ SaysConnected'
  BY <1>1 DEF McpInv, NotMade, ClientAt, TakenOut, CurrentOpen, SaysConnected, Before
<1>4. ToolsAreCurrent'
  BY <1>1 DEF McpInv, ToolsAreCurrent
<1>5. NoConnectionLeaks'
  BY <1>1 DEF McpInv, NoConnectionLeaks, Living, ContextDone
<1> QED  BY <1>2, <1>3, <1>4, <1>5 DEF McpInv

\* A call is made: it has no connection that could come to life.
LEMMA CallKeeps ==
  ASSUME McpInv, NEW c \in Calls, NEW kind, NEW new, NEW to \in Before \cup {"returned"},
         Called(c, kind, new, to),
         UNCHANGED <<connections, cancelled, over, refresh, offered>>, shutdown => shutdown'
  PROVE  McpInv'
<1>1. pc[c] = "none" /\ pc' = [pc EXCEPT ![c] = to]
  BY DEF Called, Goto
<1>2. client[c] = "none"
  BY <1>1 DEF McpInv, NotMade, Before
<1>3. ASSUME NEW d \in Calls, Living(d)' PROVE Living(d)
  <2>1. client' = client /\ client[d] \in {"dialed", "open"}
    BY <1>3 DEF Living, connections
  <2>2. d # c  BY <1>2, <2>1
  <2>3. what'[d] = what[d]  BY <2>2 DEF Called
  <2> QED  BY <1>3, <2>1, <2>3 DEF Living, ContextDone
<1> QED  BY <1>1, <1>3, CallMoves DEF McpInv, McpTypes, connections, Places, Before

LEMMA CallsKeep ==
  ASSUME McpInv, NEW c \in Calls,
         \/ \E new \in Configs : Replace(c, new) \/ SetPluginServers(c, new)
         \/ StartManager(c) \/ Close(c)
  PROVE  McpInv'
<1> USE DEF conns, manager, world, connections, Before
<1>1. ASSUME NEW new \in Configs, Replace(c, new) PROVE McpInv'
  BY <1>1, CallKeeps DEF Replace
<1>2. ASSUME NEW new \in Configs, SetPluginServers(c, new) PROVE McpInv'
  BY <1>2, CallKeeps DEF SetPluginServers
<1>3. CASE StartManager(c)
  BY <1>3, CallKeeps DEF StartManager
<1>4. CASE Close(c)
  BY <1>4, CallKeeps DEF Close
<1> QED  BY <1>1, <1>2, <1>3, <1>4

LEMMA McpStep == ASSUME McpInv, [McpNext]_mcpVars PROVE McpInv'
<1> USE DEF calls, conns, manager, world
<1>1. CASE UNCHANGED mcpVars
  BY <1>1 DEF mcpVars, McpInv, McpTypes, NotMade, ClientAt, TakenOut, CurrentOpen, SaysConnected,
              NoConnectionLeaks, ToolsAreCurrent, Living, ContextDone
<1>2. ASSUME NEW c \in Calls, RemoveServer(c) \/ Apply(c) \/ Reset(c) PROVE McpInv'
  <2>1. /\ pc[c] \in Before /\ drop[c] = NoConn /\ UNCHANGED <<what, list, conns, world>>
        /\ \E next \in Before \cup {"returned"} : Disconnect(c, next)
    BY <1>2 DEF RemoveServer, Apply, Reset, At, Before
  <2> QED  BY <2>1, DisconnectKeeps
<1>3. ASSUME NEW c \in Calls,
             \/ ForgetContext(c) \/ Collect(c) \/ Save(c) \/ ReadConfig(c)
             \/ TransportFails(c) \/ ListTools(c)
      PROVE  McpInv'
  <2>1. /\ UNCHANGED <<drop, client, state, names, session, registry, overwritten, refresh,
                       offered, cancelled, over, shutdown, what>>
        /\ \E to \in Places : /\ pc' = [pc EXCEPT ![c] = to] /\ pc[c] # "returned"
                             /\ \/ pc[c] \in Before /\ to \in Before \cup {"returned"}
                                \/ pc[c] = "dial" /\ to = "fail"
                                \/ pc[c] = "list" /\ to = "install"
    BY <1>3 DEF ForgetContext, Collect, Save, ReadConfig, TransportFails, ListTools, At, Goto,
                Before, Places
  <2>2. list' \in [Calls -> SUBSET Tools]
    <3>1. offered \subseteq Tools  BY DEF McpInv, McpTypes
    <3>2. list' = list \/ list' = [list EXCEPT ![c] = offered]
      BY <1>3 DEF ForgetContext, Collect, Save, ReadConfig, TransportFails, ListTools
    <3> QED  BY <3>1, <3>2 DEF McpInv, McpTypes
  <2>3. \A d \in Calls : Living(d)' => Living(d)
    BY <2>1 DEF Living, ContextDone
  <2> QED  BY <2>1, <2>2, <2>3, CallMoves DEF McpInv, McpTypes
<1>4. ASSUME NEW c \in Calls, RequestEnds(c) PROVE McpInv'
  <2>1. UNCHANGED <<pc, connections, refresh, offered>>
    BY <1>4 DEF RequestEnds, connections
  <2>2. \A d \in Calls : Living(d)' => Living(d)
    BY <1>4 DEF RequestEnds, Living, ContextDone
  <2> QED  BY <2>1, <2>2, CallMoves DEF McpInv, McpTypes, connections, Places
<1>5. ASSUME NEW c \in Calls, Dial(c) \/ ConnectFails(c) \/ Replaced(c) \/ Admit(c)
      PROVE  McpInv'
  <2>1. /\ UNCHANGED <<drop, list, state, names, overwritten, manager, world, what>>
        /\ cancelled \subseteq cancelled' /\ pc[c] \in {"dial", "admit", "list", "install"}
        /\ \E to \in {"admit", "list", "fail", "returned"}, new \in {"none", "dialed", "open", "closed"} :
              /\ pc' = [pc EXCEPT ![c] = to] /\ client' = [client EXCEPT ![c] = new]
              /\ to = "admit" => new = "dialed"
              /\ to = "list" => new = "open"
              /\ to = "fail" => new \in {"none", "closed"}
              /\ to = "returned" => new = "closed" /\ session # c
    BY <1>5 DEF Dial, ConnectFails, Replaced, Admit, At, Goto
  <2> QED  BY <2>1, ClientMoves
<1>6. ASSUME NEW c \in Calls, InstallTools(c) PROVE McpInv'
  <2>1. list[c] \in SUBSET Tools  BY DEF McpInv, McpTypes
  <2> QED  BY <1>6, <2>1, InstallKeeps DEF InstallTools, At, Goto
<1>7. ASSUME NEW r \in refresh, RefreshInstalls(r) PROVE McpInv'
  <2>1. r.conn \in Calls /\ r.list \in (SUBSET Tools) \cup {NoConn}
    BY DEF McpInv, McpTypes
  <2>2. r.list \in SUBSET Tools
    BY <1>7, <2>1 DEF RefreshInstalls
  <2> QED  BY <1>7, <2>1, <2>2, InstallKeeps DEF RefreshInstalls
<1>8. ASSUME \/ \E tools \in SUBSET Tools : ToolListChanged(tools)
             \/ \E r \in refresh : RefreshLists(r) \/ RefreshEnds(r)
      PROVE  McpInv'
  <2>1. UNCHANGED <<pc, connections, over, shutdown, cancelled, what>>
    BY <1>8 DEF ToolListChanged, RefreshLists, RefreshEnds, connections
  <2>2. offered' \subseteq Tools
    BY <1>8 DEF ToolListChanged, RefreshLists, RefreshEnds, McpInv, McpTypes
  <2>3. ASSUME NEW q \in refresh' PROVE q.conn \in Calls /\ q.list \in (SUBSET Tools) \cup {NoConn}
    <3>1. CASE q \in refresh
      BY <3>1 DEF McpInv, McpTypes
    <3>2. CASE q \notin refresh /\ \E tools \in SUBSET Tools : ToolListChanged(tools)
      <4>1. q \in [conn : {c \in Calls : Living(c)}, nr : {changes}, list : {NoConn}]
        BY <2>3, <3>2 DEF ToolListChanged
      <4> HIDE DEF Living
      <4> QED  BY <4>1
    <3>3. ASSUME q \notin refresh, NEW r \in refresh, RefreshLists(r)
          PROVE  q.conn \in Calls /\ q.list \in (SUBSET Tools) \cup {NoConn}
      <4>1. q = [r EXCEPT !.list = offered]  BY <2>3, <3>3 DEF RefreshLists
      <4>2. r.conn \in Calls /\ offered \subseteq Tools  BY <3>3 DEF McpInv, McpTypes
      <4> QED  BY <4>1, <4>2
    <3>4. ASSUME q \notin refresh, NEW r \in refresh, RefreshEnds(r) PROVE FALSE
      BY <2>3, <3>4 DEF RefreshEnds
    <3> QED  BY <1>8, <3>1, <3>2, <3>3, <3>4
  <2>4. \A d \in Calls : Living(d)' => Living(d)
    BY <2>1 DEF Living, ContextDone, connections
  <2>5. pc' = pc /\ list' \in [Calls -> SUBSET Tools]
    BY <2>1 DEF McpInv, McpTypes, connections
  <2>6. UNCHANGED <<drop, client, state, names, session, registry, overwritten>>
    BY <2>1 DEF connections
  <2>7. \A q \in refresh' : q.conn \in Calls /\ q.list \in (SUBSET Tools) \cup {NoConn}
    BY <2>3
  <2> QED  BY <2>2, <2>4, <2>5, <2>6, <2>7, CallMoves
<1> QED
  BY <1>1, <1>2, <1>3, <1>4, <1>5, <1>6, <1>7, <1>8, CallsKeep, CloseKeeps, EnterKeeps, StateMoves
  DEF McpNext

LEMMA McpInvHolds == McpSpec => []McpInv
  BY McpStart, McpStep, PTL DEF McpSpec

(***************************************************************************)
(* However the start of the kernel, new configurations, changes of the     *)
(* plugins and the end of the kernel overlap, a client that lives is the   *)
(* current one or is about to be closed, for any number of calls           *)
(* (manager.go, Connect and disconnect).                                   *)
(***************************************************************************)
THEOREM NothingLeaks == McpSpec => []NoConnectionLeaks
<1>1. McpInv => NoConnectionLeaks
  BY DEF McpInv
<1> QED  BY McpInvHolds, <1>1, PTL

(***************************************************************************)
(* The registered tools are those of the current connection, whatever      *)
(* refreshes and replacements are under way, for any number of calls,      *)
(* tools and changes of the server's list (manager.go, installTools).      *)
(***************************************************************************)
THEOREM AlwaysCurrent == McpSpec => []ToolsAreCurrent
<1>1. McpInv => ToolsAreCurrent
  BY DEF McpInv
<1> QED  BY McpInvHolds, <1>1, PTL
=============================================================================
