------------------------------ MODULE Lifecycle ------------------------------
(***************************************************************************)
(* What the service promises NetworkManager: one connection state that     *)
(* tells the truth about at most one crosswire process.                    *)
(***************************************************************************)
CONSTANT Sessions

VARIABLES
  state,     \* what NetworkManager was last told by StateChanged
  tunnels    \* the sessions whose crosswire runs

Init == state = "Stopped" /\ tunnels = {}

(* A connection attempt starts, with nothing running. *)
Begin ==
  /\ state = "Stopped" /\ tunnels = {}
  /\ state' = "Starting"
  /\ UNCHANGED tunnels

(* A first launch or a relaunch; a relaunch may overtake the Disconnect    *)
(* that has announced Stopping and is about to stop it.                    *)
Launch(s) ==
  /\ state \in {"Starting", "Stopping"}
  /\ tunnels = {}
  /\ tunnels' = {s}
  /\ UNCHANGED state

(* A crosswire ends, on its own or torn down. *)
End(s) ==
  /\ tunnels = {s}
  /\ tunnels' = {}
  /\ UNCHANGED state

(* The tunnel is up: only a running crosswire makes the connection up. *)
Up ==
  /\ state = "Starting" /\ tunnels # {}
  /\ state' = "Started"
  /\ UNCHANGED tunnels

Halt ==
  /\ state \in {"Starting", "Started"}
  /\ state' = "Stopping"
  /\ UNCHANGED tunnels

(* The connection is over once nothing runs: a teardown, a failure or a    *)
(* clean exit.                                                             *)
Settle ==
  /\ state # "Stopped" /\ tunnels = {}
  /\ state' = "Stopped"
  /\ UNCHANGED tunnels

Next == Begin \/ Up \/ Halt \/ Settle \/ \E s \in Sessions : Launch(s) \/ End(s)

Spec == Init /\ [][Next]_<<state, tunnels>>
==============================================================================
