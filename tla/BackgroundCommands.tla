------------------------- MODULE BackgroundCommands -------------------------
(***************************************************************************)
(* The shell commands of one session (tool/background_commands.go).  A     *)
(* command runs in front of a tool call that waits for it, until the user  *)
(* moves it to the background or only reveals it; or the agent starts it   *)
(* in the background.  Meanwhile it ends by itself, at its timeout or      *)
(* because the call, the user or the deletion of the session stops it.     *)
(* Each of these is a thread of its own; the manager's mutex is held for   *)
(* single steps only.  Clients hear of a command by notifications.         *)
(***************************************************************************)
EXTENDS FiniteSets

CONSTANTS Commands

VARIABLES
    call,       \* where the tool call of a command is; its end is "returned"
    behind,     \* commands that the agent starts in the background
    done,       \* calls whose context has ended
    process,    \* "none", "running", "ended"
    killed,     \* commands that were cancelled or stopped
    listed,     \* m.commands
    active,     \* m.active
    background, \* commands with a backgroundedBy
    revealed,
    teller,     \* where Promote is, or Start after start
    word,       \* the snapshot it is about to notify
    promote,    \* commands with a token in their promote channel
    watched,    \* commands with a watcher that waits for their end
    stopping,   \* commands whose Stop waits for their end
    lastTold,   \* what the last notification said
    cleared,    \* ClearSession was called
    doomed,     \* commands it took out and has still to stop
    lateCommands    \* history variable: commands that were listed after it

cmdVars == <<call, behind, done, process, killed, listed, active, background, revealed, teller,
             word, promote, watched, stopping, lastTold, cleared, doomed, lateCommands>>

CmdInit ==
    /\ call = [x \in Commands |-> "none"] /\ behind = {} /\ done = {}
    /\ process = [x \in Commands |-> "none"] /\ killed = {}
    /\ listed = {} /\ active = {} /\ background = {} /\ revealed = {}
    /\ teller = [x \in Commands |-> "none"] /\ word = [x \in Commands |-> "none"]
    /\ promote = {} /\ watched = {} /\ stopping = {}
    /\ lastTold = [x \in Commands |-> "none"]
    /\ cleared = FALSE /\ doomed = {} /\ lateCommands = {}

CallAt(x, from, to) == call[x] = from /\ call' = [call EXCEPT ![x] = to]
TellerAt(x, from, to) == teller[x] = from /\ teller' = [teller EXCEPT ![x] = to]
Tell(x, what) == lastTold' = [lastTold EXCEPT ![x] = what]

-----------------------------------------------------------------------------
(***************************************************************************)
(* The process.                                                            *)
(***************************************************************************)

\* By itself, by its timeout or because it was killed.
ProcessEnds(x) ==
    /\ process[x] = "running"
    /\ process' = [process EXCEPT ![x] = "ended"]
    /\ UNCHANGED <<call, behind, done, killed, listed, active, background, revealed, teller, word,
                   promote, watched, stopping, lastTold, cleared, doomed, lateCommands>>

\* The watcher of a command in the background.
WatcherTells(x) ==
    /\ x \in watched /\ process[x] = "ended"
    /\ watched' = watched \ {x}
    /\ Tell(x, "ended")
    /\ UNCHANGED <<call, behind, done, process, killed, listed, active, background, revealed,
                   teller, word, promote, stopping, cleared, doomed, lateCommands>>

-----------------------------------------------------------------------------
(***************************************************************************)
(* The tool call.                                                          *)
(***************************************************************************)

StartProcess(x) ==
    /\ CallAt(x, "none", "started")
    /\ process' = [process EXCEPT ![x] = "running"]
    /\ behind' \in {behind, behind \cup {x}}
    /\ UNCHANGED <<done, killed, listed, active, background, revealed, teller, word, promote,
                   watched, stopping, lastTold, cleared, doomed, lateCommands>>

List(x) ==
    /\ listed' = listed \cup {x}
    /\ lateCommands' = IF cleared THEN lateCommands \cup {x} ELSE lateCommands
    /\ UNCHANGED <<behind, done, process, killed, active, revealed, promote, watched, stopping,
                   lastTold, cleared, doomed>>

\* start ends; RunForeground goes on, or Start takes its snapshot.
ListForeground(x) ==
    /\ x \notin behind /\ CallAt(x, "started", "listed")
    /\ List(x)
    /\ UNCHANGED <<background, teller, word>>

ListBackground(x) ==
    /\ x \in behind /\ CallAt(x, "started", "returned")
    /\ List(x)
    /\ background' = background \cup {x}
    /\ TellerAt(x, "none", "marked") /\ word' = [word EXCEPT ![x] = process[x]]

Activate(x) ==
    /\ CallAt(x, "listed", "waiting")
    /\ active' = active \cup {x}
    /\ UNCHANGED <<behind, done, process, killed, listed, background, revealed, teller, word,
                   promote, watched, stopping, lastTold, cleared, doomed, lateCommands>>

\* The select of RunForeground takes any case that is ready.
SeeEnd(x) ==
    /\ process[x] = "ended"
    /\ CallAt(x, "waiting", IF x \in background THEN "returned" ELSE "finishing")
    /\ killed' = killed \cup {x}
    /\ Tell(x, "ended")
    /\ UNCHANGED <<behind, done, process, listed, active, background, revealed, teller, word,
                   promote, watched, stopping, cleared, doomed, lateCommands>>

SeeContext(x) ==
    /\ x \in done /\ CallAt(x, "waiting", "reaping")
    /\ killed' = killed \cup {x}
    /\ UNCHANGED <<behind, done, process, listed, active, background, revealed, teller, word,
                   promote, watched, stopping, lastTold, cleared, doomed, lateCommands>>

\* Faulty variant: the call takes the command off the list as in its other cases.
SeePromotionFinish(x) ==
    /\ x \in promote /\ CallAt(x, "waiting", "finishing")
    /\ promote' = promote \ {x}
    /\ UNCHANGED <<behind, done, process, killed, listed, active, background, revealed, teller,
                   word, watched, stopping, lastTold, cleared, doomed, lateCommands>>

SeePromotion(x) ==
    /\ x \in promote /\ CallAt(x, "waiting", "returned")
    /\ promote' = promote \ {x}
    /\ UNCHANGED <<behind, done, process, killed, listed, active, background, revealed, teller,
                   word, watched, stopping, lastTold, cleared, doomed, lateCommands>>

\* A revealed command stays on the list.
FinishForeground(x) ==
    /\ \/ CallAt(x, "finishing", "returned")
       \/ process[x] = "ended" /\ CallAt(x, "reaping", "returned")
    /\ active' = active \ {x}
    /\ listed' = IF x \in revealed THEN listed ELSE listed \ {x}
    /\ UNCHANGED <<behind, done, process, killed, background, revealed, teller, word, promote,
                   watched, stopping, lastTold, cleared, doomed, lateCommands>>

EndCallContext(x) ==
    /\ call[x] # "none" /\ x \notin done
    /\ done' = done \cup {x}
    /\ UNCHANGED <<call, behind, process, killed, listed, active, background, revealed, teller,
                   word, promote, watched, stopping, lastTold, cleared, doomed, lateCommands>>

-----------------------------------------------------------------------------
(***************************************************************************)
(* The user.                                                               *)
(***************************************************************************)

Promote(x) ==
    /\ x \in active /\ TellerAt(x, "none", "taken")
    /\ active' = active \ {x}
    /\ UNCHANGED <<call, behind, done, process, killed, listed, background, revealed, word,
                   promote, watched, stopping, lastTold, cleared, doomed, lateCommands>>

\* Only a command that still runs is promoted; it may end right after.
CheckRunning(x) ==
    /\ TellerAt(x, "taken", IF process[x] = "running" THEN "checked" ELSE "returned")
    /\ UNCHANGED <<call, behind, done, process, killed, listed, active, background, revealed,
                   word, promote, watched, stopping, lastTold, cleared, doomed, lateCommands>>

MarkPromoted(x) ==
    /\ TellerAt(x, "checked", "marked")
    /\ background' = background \cup {x}
    /\ word' = [word EXCEPT ![x] = process[x]]
    /\ UNCHANGED <<call, behind, done, process, killed, listed, active, revealed, promote,
                   watched, stopping, lastTold, cleared, doomed, lateCommands>>

\* notifySnapshot
Notify(x) ==
    /\ TellerAt(x, "marked", "notified")
    /\ Tell(x, word[x])
    /\ UNCHANGED <<call, behind, done, process, killed, listed, active, background, revealed,
                   word, promote, watched, stopping, cleared, doomed, lateCommands>>

\* Faulty variant: nobody watches a command that had ended when it was told to run.
WatchRunning(x) == IF process[x] = "running" THEN watched \cup {x} ELSE watched

\* watch
Watch(x) == watched \cup {x}

\* Promote wakes the tool call, which may have returned.
Watched(x) ==
    /\ TellerAt(x, "notified", "returned")
    /\ watched' = Watch(x)
    /\ promote' = IF x \in behind THEN promote ELSE promote \cup {x}
    /\ UNCHANGED <<call, behind, done, process, killed, listed, active, background, revealed,
                   word, stopping, lastTold, cleared, doomed, lateCommands>>

Reveal(x) ==
    /\ x \in active \ revealed /\ process[x] = "running"
    /\ revealed' = revealed \cup {x}
    /\ UNCHANGED <<call, behind, done, process, killed, listed, active, background, teller, word,
                   promote, watched, stopping, lastTold, cleared, doomed, lateCommands>>

\* By the user or by the bash_cancel tool; a later Stop of the same command changes nothing.
Stop(x) ==
    /\ x \in listed \ stopping
    /\ stopping' = stopping \cup {x} /\ killed' = killed \cup {x}
    /\ UNCHANGED <<call, behind, done, process, listed, active, background, revealed, teller,
                   word, promote, watched, lastTold, cleared, doomed, lateCommands>>

StopTells(x) ==
    /\ x \in stopping /\ process[x] = "ended"
    /\ Tell(x, "ended")
    /\ stopping' = stopping \ {x}
    /\ UNCHANGED <<call, behind, done, process, killed, listed, active, background, revealed,
                   teller, word, promote, watched, cleared, doomed, lateCommands>>

\* The session is deleted.
ClearSession ==
    /\ ~cleared /\ cleared' = TRUE
    /\ doomed' = listed /\ listed' = {} /\ active' = {}
    /\ UNCHANGED <<call, behind, done, process, killed, background, revealed, teller, word,
                   promote, watched, stopping, lastTold, lateCommands>>

StopDoomed(x) ==
    /\ x \in doomed
    /\ doomed' = doomed \ {x} /\ killed' = killed \cup {x}
    /\ UNCHANGED <<call, behind, done, process, listed, active, background, revealed, teller,
                   word, promote, watched, stopping, lastTold, cleared, lateCommands>>

-----------------------------------------------------------------------------
Client(x) == EndCallContext(x) \/ Promote(x) \/ Reveal(x) \/ Stop(x)

ToolCall(x) ==
    \/ ListForeground(x) \/ ListBackground(x) \/ Activate(x) \/ FinishForeground(x)
    \/ SeeEnd(x) \/ SeeContext(x) \/ SeePromotion(x)

Telling(x) == CheckRunning(x) \/ MarkPromoted(x) \/ Notify(x) \/ Watched(x)

CmdNext ==
    \/ ClearSession
    \/ \E x \in Commands :
          \/ StartProcess(x) \/ ProcessEnds(x) \/ ToolCall(x) \/ Telling(x) \/ Client(x)
          \/ WatcherTells(x) \/ StopTells(x) \/ StopDoomed(x)

\* Goroutines run, and a process that was killed ends.  A process that nobody kills
\* may run for ever.
CmdFairness ==
    \A x \in Commands :
        /\ WF_cmdVars(ToolCall(x)) /\ WF_cmdVars(Telling(x))
        /\ WF_cmdVars(WatcherTells(x)) /\ WF_cmdVars(StopTells(x)) /\ WF_cmdVars(StopDoomed(x))
        /\ WF_cmdVars(x \in killed /\ ProcessEnds(x))

CmdSpec == CmdInit /\ [][CmdNext]_cmdVars /\ CmdFairness

-----------------------------------------------------------------------------
(***************************************************************************)
(* Properties.                                                             *)
(***************************************************************************)

\* Whoever a command passes between, one that runs is on the list, where it can be
\* stopped, or is about to be, or was killed; and a deleted session leaves none that was
\* listed before its commands were cleared.
RunningIsReachable ==
    \A x \in Commands : process[x] = "running" /\ x \notin killed =>
        /\ x \in listed \cup doomed \/ call[x] = "started"
        /\ cleared => x \in doomed \cup lateCommands \/ call[x] = "started"

\* The last that clients hear of a command that has ended is its end, although the
\* notification that it runs may be sent after it ended, and beside others.
EndIsTold ==
    \A x \in Commands : <>[](process[x] = "ended" /\ lastTold[x] # "none" => lastTold[x] = "ended")
=============================================================================
