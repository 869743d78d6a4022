------------------------------ MODULE IdleQuit ------------------------------
(***************************************************************************)
(* The idle-quit timer of main.rs: a loop on the receiving end of the      *)
(* activity watch channel of state.rs.  A watch channel holds one value    *)
(* and a version; borrow() reads the value, changed() waits for a version  *)
(* not seen yet.  Time passes in ticks, only when the loop has nothing to  *)
(* do: it reacts to a change long before a tick of the 180 s timer.        *)
(***************************************************************************)
EXTENDS ConnState, Naturals

CONSTANT QuitTimer   \* QUIT_TIMER, in ticks

ASSUME IdleAssumption == QuitTimer \in Nat \ {0}

VARIABLES
  svc,       \* Inner.state
  active,    \* the value of the watch channel
  seen,      \* the receiver has seen the channel's last version
  loop,      \* where idle_quit stands
  timer,     \* ticks since the sleep in the select was created
  quiet      \* ticks without a connection, up to QuitTimer

vars == <<svc, active, seen, loop, timer, quiet>>

TypeOK ==
  /\ svc \in ServiceState
  /\ active \in BOOLEAN
  /\ seen \in BOOLEAN
  /\ loop \in {"pending", "borrow", "busy", "idle", "quit"}
  /\ timer \in 0 .. QuitTimer
  /\ quiet \in 0 .. QuitTimer

(* With --persist the loop is not entered. *)
Init ==
  /\ svc = "Stopped"
  /\ active = FALSE
  /\ seen = TRUE
  /\ loop \in {"pending", "borrow"}
  /\ timer = 0
  /\ quiet = 0

(* Inner::set, for a transition of To or Failed: every send makes a new    *)
(* version, whether or not it changes the value.                           *)
Transition ==
  /\ loop # "quit"
  /\ \E next \in {To(svc, s) : s \in ServiceState} \cup {Failed(svc)} :
       /\ next # svc
       /\ svc' = next
       /\ active' = Active(next)
       /\ quiet' = IF active' THEN 0 ELSE quiet
  /\ seen' = FALSE
  /\ UNCHANGED <<loop, timer>>

(* Broken variant: the activity is not looked at again after a change. *)
BorrowBlind ==
  /\ loop = "borrow"
  /\ loop' = "idle"
  /\ timer' = 0
  /\ UNCHANGED <<svc, active, seen, quiet>>

(* borrow() leaves the version unseen; the sleep is created when idle. *)
Borrow ==
  /\ loop = "borrow"
  /\ loop' = IF active THEN "busy" ELSE "idle"
  /\ timer' = 0
  /\ UNCHANGED <<svc, active, seen, quiet>>

(* Broken variant: a busy loop waits for the next change instead of looking. *)
ChangedTwice ==
  /\ loop \in {"busy", "idle"}
  /\ ~seen
  /\ seen' = TRUE
  /\ loop' = IF loop = "busy" THEN "busy" ELSE "borrow"
  /\ UNCHANGED <<svc, active, timer, quiet>>

(* changed().await, in the inner loop or in the select. *)
Changed ==
  /\ loop \in {"busy", "idle"}
  /\ ~seen
  /\ seen' = TRUE
  /\ loop' = "borrow"
  /\ UNCHANGED <<svc, active, timer, quiet>>

(* The select is not biased: the elapsed sleep may win over a change. *)
Expire ==
  /\ loop = "idle"
  /\ timer = QuitTimer
  /\ loop' = "quit"
  /\ UNCHANGED <<svc, active, seen, timer, quiet>>

(* Broken variant: the elapsed sleep does not wake the loop. *)
WaitingAsleep ==
  \/ loop = "pending"
  \/ loop \in {"busy", "idle"} /\ seen

Waiting ==
  \/ loop = "pending"
  \/ loop = "busy" /\ seen
  \/ loop = "idle" /\ seen /\ timer < QuitTimer

Tick ==
  /\ Waiting
  /\ timer' = IF loop = "idle" THEN timer + 1 ELSE timer
  /\ quiet' = IF ~active /\ quiet < QuitTimer THEN quiet + 1 ELSE quiet
  /\ UNCHANGED <<svc, active, seen, loop>>

Next ==
  \/ Transition \/ Borrow \/ Changed \/ Expire \/ Tick
  \/ loop = "quit" /\ UNCHANGED vars

(* The loop is a ready task and time passes; nobody has to connect. *)
Spec == Init /\ [][Next]_vars /\ WF_vars(Borrow \/ Changed \/ Expire) /\ WF_vars(Tick)

------------------------------------------------------------------------------
(* The service quits only after QuitTimer without a connection; the one    *)
(* exception is a connection that begins in the very tick the timer fires  *)
(* and whose change the loop has not seen (main.rs: "quit after the        *)
(* timeout unless a connection starts first").                             *)
QuitsOnlyWhenQuiet == loop = "quit" => quiet = QuitTimer \/ ~seen

(* Left without a connection the service does not linger, unless told to   *)
(* persist.                                                                *)
QuitsWhenIdle ==
  loop # "pending" /\ <>[](~Active(svc)) => <>(loop = "quit")
==============================================================================
