----------------------------- MODULE MCProgress -----------------------------
(***************************************************************************)
(* What must eventually happen, on small instances of five components side *)
(* by side: file rewind, sub-agents, the turn loop, the gateways and the   *)
(* background commands.  They do not interact here; part names the one     *)
(* that moves.                                                             *)
(***************************************************************************)
EXTENDS Gateways, BackgroundCommands

CONSTANTS Files, Absent, Jobs, Roots, Tools

VARIABLES
    part,
    \* FileRewind
    files, changes, seq, preview, journals, rw, proc, todo, edits, expect, disturbed,
    \* SubAgents
    jobPc, kind, root, holding, cancelled, limits, globalActive, rootActive, asleep, status,
    tokens, sweep, runsFile, kids, turn, parent, deleting, crashes, asked, outcomes, fresh,
    writeFailed,
    \* TurnLoop
    turnPc, turns, ctx, step, partial, calls, finish, draft, detached,
    overflowRecoveryUsed, stopHookBlocked, terminalAssistantRecorded, phase, output,
    toolCancelled, terminate, collected, lastFail, failStreak, window, verdict,
    messages, completions, started, crashed

rewind == <<files, changes, seq, preview, journals, rw, proc, todo, edits, expect, disturbed>>
agents == <<jobPc, kind, root, holding, cancelled, limits, globalActive, rootActive, asleep,
            status, tokens, sweep, runsFile, kids, turn, parent, deleting, crashes, asked,
            outcomes, fresh, writeFailed>>
loop   == <<turnPc, turns, ctx, step, partial, calls, finish, draft, detached,
            overflowRecoveryUsed, stopHookBlocked, terminalAssistantRecorded, phase, output,
            toolCancelled, terminate, collected, lastFail, failStreak, window, verdict,
            messages, completions, started, crashed>>

\* One line of one text: what matters is which file is restored, and when.
Rewind == INSTANCE FileRewind WITH
    disk <- files, history <- changes,
    Lines <- {1}, Texts <- {0}, MaxSeq <- 2, MaxEdits <- 0, MaxJournals <- 1

\* One slot for two jobs of one session; neither deletions nor failed writes.
Agents == INSTANCE SubAgents WITH
    pc <- jobPc, disk <- runsFile, ended <- outcomes,
    Limits <- {[global |-> 1, perRoot |-> 1]}, MaxChildren <- 2, MaxTokens <- 1,
    TokenBound <- 1, MaxCrashes <- 0
AgentsNext == Agents!Next /\ ~writeFailed' /\ UNCHANGED deleting

\* No limit of steps: only the repeat detection bounds the turn.
Loop == INSTANCE TurnLoop WITH
    pc <- turnPc, history <- messages,
    ParallelTools <- {}, MaxParallel <- 1, MaxSteps <- 0, GateThreshold <- 2,
    RepeatWindow <- 5, RepeatMax <- 1, HookAnswers <- {"allow"},
    StopReasons <- {"user_stop"}, MaxCalls <- 1, MaxTurns <- 1, MaxCrashes <- 0

\* A question, or two approvals, the second once the first was decided.
OneGateway == \E unused \in {Questions, Approvals} : \A c \in unused : callPc[c] = "none"

\* Files, jobs, approvals and keys are interchangeable: the first of each is used first.
First(things) == CHOOSE x \in things : TRUE
FirstFile == seq = 0 => \A f \in Files \ {First(Files)} : files'[f] = files[f]
FirstJob == jobPc[First(Jobs)] # "none" \/ \A j \in Jobs : jobPc[j] = "none"
FirstApproval ==
    LET a == First(Approvals) IN
    /\ callPc[a] # "none" => key[a] = First(Keys)
    /\ told[a] = <<>> => \A b \in Approvals \ {a} : callPc[b] = "none"

Init ==
    /\ part \in {"rewind", "agents", "loop", "gates", "shell"}
    /\ Rewind!Init /\ \A f \in Files : files[f] = Absent
    /\ Agents!Init /\ Loop!Init /\ GateInit /\ CmdInit

Next ==
    \/ part = "rewind" /\ Rewind!Next /\ FirstFile
       /\ UNCHANGED <<part, agents, loop, gateVars, cmdVars>>
    \/ part = "agents" /\ AgentsNext /\ FirstJob'
       /\ UNCHANGED <<part, rewind, loop, gateVars, cmdVars>>
    \/ part = "loop" /\ Loop!Next /\ UNCHANGED <<part, rewind, agents, gateVars, cmdVars>>
    \/ /\ part = "gates" /\ (GateStep \/ Restart) /\ (OneGateway /\ FirstApproval)'
       /\ UNCHANGED <<part, rewind, agents, loop, cmdVars>>
    \/ part = "shell" /\ CmdNext /\ UNCHANGED <<part, rewind, agents, loop, gateVars>>

Fairness ==
    /\ Rewind!Fairness /\ Agents!Fairness /\ Loop!StopFairness /\ GateFairness
    /\ CmdFairness

Spec == Init /\ [][Next]_<<part, rewind, agents, loop, gateVars, cmdVars>> /\ Fairness

\* The properties are those of the components, which say more about each; those of the
\* gateways and the commands keep their names.

\* The kernel starts again after a crash during a rewind.
KernelStarts == Rewind!KernelStarts

\* Every child agent that was started ends.
JobsSettle == Agents!JobsSettle

\* A stopped turn ends.
StopEndsTurn == Loop!StopEndsTurn

\* A turn without a limit of steps ends.
TurnEnds == Loop!TurnEnds
=============================================================================
