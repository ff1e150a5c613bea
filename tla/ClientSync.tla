------------------------------ MODULE ClientSync ------------------------------
(***************************************************************************)
(* What one device's sync promises, apart from how the load generator      *)
(* carries it out: docs/what-a-simulated-sync-does.md, "The sequence".     *)
(* The device is prepared, uploads, checks for a reset, asks what changed, *)
(* pulls all of that it knows of and nothing else, reports, and is logged. *)
(* A device one of whose records was refused never asks.  It gives up only *)
(* between the upload and the report, and a sync that gave up is never     *)
(* logged.  Whether a refused media upload makes it give up is left open.  *)
(***************************************************************************)
CONSTANTS
    Devices,  \* the syncs of a run
    Changes,  \* what the server can say has changed
    Known     \* what a device has a place for

VARIABLES
    phase,    \* how far each sync is
    clean,    \* whether every record it sent has been accepted so far
    listed,   \* what it was told has changed
    fetched,  \* what it has pulled
    logged    \* the syncs in the result file

promised == <<phase, clean, listed, fetched, logged>>

Stages == {"absent", "preparing", "uploading", "checking", "pulling",
           "reporting", "logging", "finished", "gaveUp"}

TypeOK ==
    /\ phase \in [Devices -> Stages]
    /\ clean \in [Devices -> BOOLEAN]
    /\ listed \in [Devices -> SUBSET Changes]
    /\ fetched \in [Devices -> SUBSET Changes]
    /\ logged \subseteq Devices

Init ==
    /\ phase = [d \in Devices |-> "absent"]
    /\ clean = [d \in Devices |-> TRUE]
    /\ listed = [d \in Devices |-> {}]
    /\ fetched = [d \in Devices |-> {}]
    /\ logged = {}

Move(d, from, to) == phase[d] = from /\ phase' = [phase EXCEPT ![d] = to]

Appear(d) ==
    Move(d, "absent", "preparing") /\ UNCHANGED <<clean, listed, fetched, logged>>

\* A record is refused or lost; for now the sync goes on.
Falter(d) ==
    /\ phase[d] = "uploading"
    /\ clean' = [clean EXCEPT ![d] = FALSE]
    /\ UNCHANGED <<phase, listed, fetched, logged>>

Upload(d) ==
    Move(d, "preparing", "uploading") /\ UNCHANGED <<clean, listed, fetched, logged>>

Check(d) ==
    Move(d, "uploading", "checking") /\ UNCHANGED <<clean, listed, fetched, logged>>

\* Only a clean sync asks.  An answer that never came lists nothing.
Ask(d) ==
    /\ clean[d]
    /\ Move(d, "checking", "pulling")
    /\ \E answer \in SUBSET Changes : listed' = [listed EXCEPT ![d] = answer]
    /\ UNCHANGED <<clean, fetched, logged>>

Fetch(d) ==
    /\ phase[d] = "pulling"
    /\ \E c \in (listed[d] \cap Known) \ fetched[d] :
          fetched' = [fetched EXCEPT ![d] = @ \cup {c}]
    /\ UNCHANGED <<phase, clean, listed, logged>>

Report(d) ==
    /\ fetched[d] = listed[d] \cap Known
    /\ Move(d, "pulling", "reporting")
    /\ UNCHANGED <<clean, listed, fetched, logged>>

Reported(d) ==
    Move(d, "reporting", "logging") /\ UNCHANGED <<clean, listed, fetched, logged>>

Log(d) ==
    /\ Move(d, "logging", "finished")
    /\ logged' = logged \cup {d}
    /\ UNCHANGED <<clean, listed, fetched>>

\* A failed page, or what an earlier failure comes to.  One more answer may have
\* arrived.
GiveUp(d) ==
    /\ phase[d] \in {"checking", "pulling"}
    /\ phase' = [phase EXCEPT ![d] = "gaveUp"]
    /\ \E more \in SUBSET (listed[d] \cap Known) :
          fetched' = [fetched EXCEPT ![d] = @ \cup more]
    /\ UNCHANGED <<clean, listed, logged>>

Next ==
    \E d \in Devices :
        \/ Appear(d) \/ Falter(d) \/ Upload(d) \/ Check(d) \/ Ask(d)
        \/ Fetch(d) \/ Report(d) \/ Reported(d) \/ Log(d) \/ GiveUp(d)

Spec == Init /\ [][Next]_promised
===============================================================================
