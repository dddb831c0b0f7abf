------------------------------ MODULE MCSafety ------------------------------
(***************************************************************************)
(* What must never happen, on small instances side by side: file rewind    *)
(* twice, once with crashes and failures and once with contents that       *)
(* merge, and the connections to an MCP server.  They do not interact      *)
(* here; part names the one that moves.                                    *)
(***************************************************************************)
EXTENDS FileRewind, McpManager, TLC

CONSTANTS CrashTexts   \* the texts of the part with crashes

VARIABLE part

\* A content whose lines change together is as good as one of a single line.
OneLine == {c \in Snapshots : c # Absent =>
                /\ \A l \in Lines : c[l] \in CrashTexts
                /\ \A l, k \in Lines : c[l] = c[k]}

\* Two files of one line: what fails and crashes between the files.
CrashContents == \A f \in Files : disk[f] \in OneLine

\* One file of two lines: what is merged.  Crashes and failures are left to the other part.
OneFile == Cardinality({f \in Files : disk[f] # Absent}
                       \cup {history[i].file : i \in DOMAIN history}) <= 1
NoFailure == proc = "up" /\ rw.step # "restore" /\ (journals = <<>> \/ rw.step # "idle")

\* Bound: one of the two files exists at first and the other does not.
OneFileExists == \E f \in Files : \A g \in Files : disk[g] # Absent <=> g = f

\* Texts that merge are interchangeable: the first line starts with the one of no other part.
FirstText == \A f \in Files : disk[f] # Absent => disk[f][1] \notin CrashTexts

MCInit ==
    /\ Init /\ McpInit
    /\ \/ part = "crashes" /\ CrashContents /\ OneFileExists
       \/ part = "merges" /\ OneFile /\ FirstText
       \/ part = "mcp" /\ \A f \in Files : disk[f] = Absent
    /\ part # "mcp" => origin = "user" /\ config = "absent" /\ offered = {}

MCNext ==
    \/ part = "crashes" /\ Next /\ CrashContents' /\ UNCHANGED <<part, mcpVars>>
    \/ part = "merges" /\ Next /\ (OneFile /\ NoFailure)' /\ UNCHANGED <<part, mcpVars>>
    \/ part = "mcp" /\ McpNext /\ UNCHANGED <<part, vars>>

MCSpec == MCInit /\ [][MCNext]_<<part, vars, mcpVars>>

\* Two files and two texts, or two calls and two tools, are interchangeable; the parts
\* share these model values, since every permutation costs time in every part.
Symmetry == Permutations(Files \cup Calls) \cup Permutations(CrashTexts \cup Tools)
=============================================================================
