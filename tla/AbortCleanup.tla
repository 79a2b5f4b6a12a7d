---------------------------- MODULE AbortCleanup ----------------------------
(***************************************************************************)
(* The probe loop of Bucket::cleanup_upload_id (src/src/fsapi.rs) over     *)
(* any set of staged part numbers, one iteration per step.  The loop's    *)
(* limits are the code's literals 10 and 1000.                            *)
(***************************************************************************)
EXTENDS Naturals, FiniteSets

CONSTANTS MaxPart   \* highest part number a client has staged

VARIABLES
    staged,   \* part numbers whose files exist in the staging directory
    counter,  \* the loop counter
    running,  \* the loop has not left yet
    before    \* history: the staged parts when the abort arrived

vars == <<staged, counter, running, before>>

Init ==
    /\ staged \in SUBSET (1..MaxPart)
    /\ before = staged
    /\ counter = 0
    /\ running = TRUE

\* counter += 1; remove <u>_<counter>@@META@@ and <u>_<counter> if they
\* exist; a missing part with counter > 10 ends the loop, as does
\* counter > 1000.
Step ==
    LET c == counter + 1 IN
    /\ running
    /\ staged' = staged \ {c}
    /\ counter' = c
    /\ running' = ~((c \notin staged /\ c > 10) \/ c > 1000)
    /\ UNCHANGED before

Spec == Init /\ [][Step]_vars

\* Part numbers preceded by a run of 10 consecutive missing numbers: those
\* are the only ones spec.md 4.3 lets an abort leave behind ("tolerating
\* gaps: after 10 consecutive missing n, stops").
BeyondTenGap(S) ==
    {n \in S : \E m \in 1..n : m + 9 < n /\ \A i \in m..(m + 9) : i \notin S}

\* When cleanup_upload_id returns, every staged part it should have probed
\* is gone: only parts beyond ten consecutive missing numbers remain.
AbortRemovesAllParts ==
    ~running => staged \subseteq BeyondTenGap(before)
=============================================================================
