----------------------------- MODULE RunLedger -----------------------------
(***************************************************************************)
(* What the window manager promises of the telemetry it is given, with     *)
(* neither windows nor locks.  An event is added, then counted for its     *)
(* run; a report takes at once every event counted for a run, and never    *)
(* takes an event twice.  The one exception is stated, not hidden: an      *)
(* event whose AddEvent is in progress while its run is reported is        *)
(* dropped.                                                                *)
(***************************************************************************)
EXTENDS Integers

CONSTANTS Runs, Events, RunOf

VARIABLES
    status,    \* what has become of each event
    adding,    \* the events whose AddEvent is in progress (none or one)
    late       \* those among them whose run was reported meanwhile

ledgerVars == <<status, adding, late>>

TypeOK ==
    /\ status \in [Events -> {"new", "added", "counted", "reported", "dropped"}]
    /\ adding \subseteq Events
    /\ late \subseteq adding

Init ==
    /\ status = [e \in Events |-> "new"]
    /\ adding = {}
    /\ late = {}

Begin(e) ==
    /\ status[e] = "new" /\ adding = {}
    /\ status' = [status EXCEPT ![e] = "added"]
    /\ adding' = {e}
    /\ UNCHANGED late

Count(e) ==
    /\ e \in adding \ late
    /\ status' = [status EXCEPT ![e] = "counted"]
    /\ adding' = {}
    /\ UNCHANGED late

Drop(e) ==
    /\ e \in late
    /\ status' = [status EXCEPT ![e] = "dropped"]
    /\ adding' = {}
    /\ late' = {}

CountedFor(r) == {e \in Events : RunOf[e] = r /\ status[e] = "counted"}

Report(r) ==
    /\ CountedFor(r) # {}
    /\ status' = [e \in Events |-> IF e \in CountedFor(r) THEN "reported" ELSE status[e]]
    /\ late' = {e \in adding : RunOf[e] = r \/ e \in late}
    /\ UNCHANGED adding

\* The process restarts and is given every event anew.
Forget ==
    /\ status' = [e \in Events |-> "new"]
    /\ adding' = {}
    /\ late' = {}

Next ==
    \/ \E e \in Events : Begin(e) \/ Count(e) \/ Drop(e)
    \/ \E r \in Runs : Report(r)
    \/ Forget

Spec == Init /\ [][Next]_ledgerVars

=============================================================================
