------------------------------- MODULE LogStore -------------------------------
(***************************************************************************)
(* What the storage engine promises about single log lines, whatever its   *)
(* files look like.  A line is                                             *)
(*   "new"       not handed to append yet,                                 *)
(*   "volatile"  only in the memory of the process,                        *)
(*   "stable"    in a file from which the next open serves it,             *)
(*   "lost"      gone.                                                     *)
(* A crash loses exactly the volatile lines.  A stable line stays stable,  *)
(* unless writing its segment failed: such a line is doomed, and may be    *)
(* forgotten later.  An acknowledged line (its append returned Ok) that is *)
(* lost never comes back.                                                  *)
(***************************************************************************)
CONSTANT Lines          \* the log lines of the run

VARIABLES status, acked, doomed

vars == <<status, acked, doomed>>

With(s) == {l \in Lines : status[l] = s}

TypeOK ==
    /\ status \in [Lines -> {"new", "volatile", "stable", "lost"}]
    /\ acked \subseteq Lines
    /\ doomed \subseteq Lines

Init ==
    /\ status = [l \in Lines |-> "new"]
    /\ acked = {}
    /\ doomed = {}

\* The lines of S become s, the others keep their status.
Turn(S, s) == status' = [l \in Lines |-> IF l \in S THEN s ELSE status[l]]

\* append takes one line; older volatile lines H may become stable on the way,
\* and the line itself only with every older one that is acknowledged.  Ok is
\* returned now, later or never.
Accept(l) ==
    /\ status[l] = "new"
    /\ \E H \in SUBSET With("volatile"), s \in {"volatile", "stable"} :
         /\ s = "stable" => With("volatile") \cap acked \subseteq H
         /\ status' = [k \in Lines |-> IF k = l THEN s
                                       ELSE IF k \in H THEN "stable" ELSE status[k]]
    /\ acked' \in {acked, acked \cup {l}}
    /\ UNCHANGED doomed

\* Lines reach a file.  A lost line can only be one that was never acknowledged.
Harden(S) ==
    /\ S \subseteq With("volatile") \cup (With("lost") \ acked)
    /\ Turn(S, "stable")
    /\ UNCHANGED <<acked, doomed>>

\* The process is killed: what it only had in memory is gone.
Crash ==
    /\ Turn(With("volatile"), "lost")
    /\ UNCHANGED <<acked, doomed>>

\* The process stops in good order: acknowledged lines are written out first.
Close ==
    /\ \E H \in SUBSET With("volatile") :
         /\ With("volatile") \cap acked \subseteq H
         /\ status' = [l \in Lines |-> IF l \in H THEN "stable"
                                       ELSE IF l \in With("volatile") THEN "lost"
                                       ELSE status[l]]
    /\ UNCHANGED <<acked, doomed>>

\* A flush fails: the lines S are doomed when their segment could not be
\* written, and volatile lines V that were never acknowledged are gone.
Fail(S, V) ==
    /\ V \subseteq With("volatile") \ acked
    /\ Turn(V, "lost")
    /\ doomed' = doomed \cup S
    /\ UNCHANGED acked

\* A flush completes: it drops doomed lines from the last file that held them
\* and the append that waited for it returns Ok for its lines A.
Settle(F, A) ==
    /\ F \subseteq doomed /\ A \subseteq With("stable") \ F
    /\ Turn(F \cap With("stable"), "lost")
    /\ acked' = acked \cup A
    /\ UNCHANGED doomed

Next ==
    \/ \E l \in Lines : Accept(l)
    \/ \E S \in SUBSET Lines : Harden(S)
    \/ \E S, V \in SUBSET Lines : Fail(S, V)
    \/ \E F, A \in SUBSET Lines : Settle(F, A)
    \/ Close \/ Crash

Spec == Init /\ [][Next]_vars
===============================================================================
