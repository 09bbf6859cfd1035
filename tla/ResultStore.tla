---------------------------- MODULE ResultStore ----------------------------
(***************************************************************************)
(* What the result documents of one run promise a reader of the store.      *)
(* terminal.json of a child and the document of an attempt are created at   *)
(* most once and never change, and an attempt document that reports a       *)
(* terminal outcome is preceded by the terminal document it speaks of.      *)
(***************************************************************************)
CONSTANTS Child, Attempt

VARIABLES terminal, attempts

Outcome == {"succeeded", "exited"}
Report == Outcome \cup {"failed", "mismatch", "skipped"}

Init ==
    /\ terminal = [c \in Child |-> "none"]
    /\ attempts = [d \in Child \X Attempt |-> "none"]

\* The first writer of terminal.json decides the child's outcome.
CommitTerminalResult(c, r) ==
    /\ terminal[c] = "none"
    /\ terminal' = [terminal EXCEPT ![c] = r]
    /\ UNCHANGED attempts

\* An attempt reports an outcome only when it is the committed one, and a
\* skip only when there is a committed one.
WriteAttemptResult(c, a, r) ==
    /\ attempts[<<c, a>>] = "none"
    /\ r \in Outcome => terminal[c] = r
    /\ r = "skipped" => terminal[c] # "none"
    /\ attempts' = [attempts EXCEPT ![<<c, a>>] = r]
    /\ UNCHANGED terminal

Next ==
    \/ \E c \in Child, r \in Outcome : CommitTerminalResult(c, r)
    \/ \E c \in Child, a \in Attempt, r \in Report : WriteAttemptResult(c, a, r)

Spec == Init /\ [][Next]_<<terminal, attempts>>
=============================================================================
