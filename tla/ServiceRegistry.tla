-------------------------- MODULE ServiceRegistry --------------------------
(***************************************************************************)
(* What the plugin promises about the services it manages, across the      *)
(* thin-edge.io entity store on the device and the managed objects in the  *)
(* cloud: an entity is only given up once the cloud has acknowledged that  *)
(* the managed object is gone.  The device thus always remembers, through  *)
(* outages and restarts, which managed objects it still has to delete.     *)
(*                                                                         *)
(* The mapper announces a newly registered entity to the cloud, where its  *)
(* managed object appears some time later, possibly after the service was  *)
(* removed again: such a late managed object is the only one that may be   *)
(* without an entity.                                                      *)
(***************************************************************************)
CONSTANT Service

VARIABLES
  registered,  \* services in the entity store
  announced,   \* registrations on their way to the cloud
  inCloud,     \* services with a managed object
  released     \* services the cloud acknowledged as deleted since they were
               \* last registered

vars == <<registered, announced, inCloud, released>>

Init ==
  /\ registered \subseteq Service
  /\ inCloud \subseteq registered
  /\ announced = {}
  /\ released = {}

Register(s) ==
  /\ s \notin registered
  /\ registered' = registered \cup {s}
  /\ announced' = announced \cup {s}
  /\ released' = released \ {s}
  /\ UNCHANGED inCloud

Appear(s) ==
  /\ s \in announced
  /\ announced' = announced \ {s}
  /\ inCloud' = inCloud \cup {s}
  /\ UNCHANGED <<registered, released>>

\* Delete the managed object of a service that is to be given up.
Release(s) ==
  /\ inCloud' = inCloud \ {s}
  /\ released' = released \cup {s}
  /\ UNCHANGED <<registered, announced>>

\* Delete a managed object found in the cloud.
Sweep(s) ==
  /\ inCloud' = inCloud \ {s}
  /\ UNCHANGED <<registered, announced, released>>

Deregister(s) ==
  /\ s \in released
  /\ registered' = registered \ {s}
  /\ UNCHANGED <<announced, inCloud, released>>

Next ==
  \E s \in Service :
    \/ Register(s)
    \/ Appear(s)
    \/ Release(s)
    \/ Sweep(s)
    \/ Deregister(s)

Spec == Init /\ [][Next]_vars

\* No managed object is abandoned: one without an entity, there or still to
\* appear, belongs to a service whose deletion the cloud acknowledged.
NoneAbandoned == (inCloud \cup announced) \ registered \subseteq released

=============================================================================
