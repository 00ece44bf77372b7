---------------------------- MODULE SoftwareList ----------------------------
(***************************************************************************)
(* What a software plugin promises the agent that runs its commands.  The  *)
(* list is what the agent reports to the cloud, so a command may change    *)
(* the entry of its own module and of no other; when it reports success    *)
(* the entry is what was asked for; when it fails, or is killed, the entry *)
(* may be anything; and between commands the list stays as it is, whatever *)
(* happens on the device.  A plugin may mislead the agent: report success  *)
(* of a command that has changed nothing.  One whose misled is FALSE       *)
(* throughout never does.                                                  *)
(***************************************************************************)
CONSTANTS Module, Version, None

VARIABLES
  listed,  \* per module: the version in the list, or None
  on,      \* the module that a command is running on, or None
  asked,   \* the entry that it asks for: a version to install, or None to remove
  result,  \* of the last command: "none", "ok" or "error"
  misled   \* and it reported success without having done anything

vars == <<listed, on, asked, result, misled>>

Entry == Version \cup {None}

Init ==
  /\ listed = [m \in Module |-> None]
  /\ on = None /\ asked = None
  /\ result = "none" /\ misled = FALSE

Begin ==
  /\ on = None
  /\ on' \in Module /\ asked' \in Entry
  /\ result' = "none" /\ misled' = FALSE
  /\ UNCHANGED listed

\* Only the entry of the module changes.
Changes ==
  /\ on # None
  /\ listed' \in [Module -> Entry]
  /\ \A m \in Module \ {on} : listed'[m] = listed[m]

Work == Changes /\ UNCHANGED <<on, asked, result, misled>>

Succeed ==
  /\ Changes /\ listed'[on] = asked
  /\ on' = None /\ asked' = None
  /\ result' = "ok" /\ misled' = FALSE

\* The entry stays, whatever was asked for.
Mislead ==
  /\ on # None /\ UNCHANGED listed
  /\ on' = None /\ asked' = None
  /\ result' = "ok" /\ misled' = TRUE

Fail ==
  /\ Changes
  /\ on' = None /\ asked' = None
  /\ result' = "error" /\ misled' = FALSE

\* Commands on what the list does not have as a module.
Other ==
  /\ on = None
  /\ result' \in {"none", "ok", "error"} /\ misled' = FALSE
  /\ UNCHANGED <<listed, on, asked>>

Next == Begin \/ Work \/ Succeed \/ Mislead \/ Fail \/ Other

Spec == Init /\ [][Next]_vars

=============================================================================
