------------------------------ MODULE ConnState ------------------------------
(***************************************************************************)
(* The connection state machine of service/src/state.rs over the states of *)
(* service/src/nm.rs.  Every transition of the service is one application  *)
(* of To or Failed: the Rust code makes both under the state mutex, with   *)
(* the emission of the signals, so each is one atomic step.                *)
(***************************************************************************)

ServiceState ==
  {"Unknown", "Init", "Shutdown", "Starting", "Started", "Stopping", "Stopped"}

(* Broken variant: a late SetIp4Config revives a connection in teardown. *)
LegalRevive(from, to) ==
  \/ to = "Starting" /\ from \in {"Unknown", "Init", "Stopped"}
  \/ to = "Started"  /\ from \in {"Starting", "Stopping"}
  \/ to = "Stopping" /\ from \in {"Starting", "Started"}
  \/ to = "Stopped"  /\ from \in {"Starting", "Started", "Stopping"}

(* The edges legal() allows; no edge leads to Init, Shutdown or Unknown. *)
Legal(from, to) ==
  \/ to = "Starting" /\ from \in {"Unknown", "Init", "Stopped"}
  \/ to = "Started"  /\ from = "Starting"
  \/ to = "Stopping" /\ from \in {"Starting", "Started"}
  \/ to = "Stopped"  /\ from \in {"Starting", "Started", "Stopping"}

(* State::to -- an illegal request is ignored. *)
To(state, next) == IF Legal(state, next) THEN next ELSE state

(* State::fail -- Failure and Stopped, or nothing when not connecting or up. *)
Failed(state) == IF state \in {"Starting", "Started"} THEN "Stopped" ELSE state

(* The value Inner::set publishes on the activity watch channel. *)
Active(state) == state \notin {"Stopped", "Init", "Shutdown", "Unknown"}
==============================================================================
