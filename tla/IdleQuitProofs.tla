--------------------------- MODULE IdleQuitProofs ---------------------------
(***************************************************************************)
(* Theorems about IdleQuit, for a timer of any length.                     *)
(***************************************************************************)
EXTENDS IdleQuit, TLAPS

(* While it sleeps and has seen every change, the loop knows that nobody   *)
(* is connected, and nobody was since the sleep began.                     *)
QuietInv ==
  /\ TypeOK
  /\ loop = "idle" /\ seen => ~active /\ timer <= quiet
  /\ QuitsOnlyWhenQuiet

(* The loop and its timer keep their types, and the service quits only     *)
(* after the whole timeout without a connection, or on a connection the    *)
(* loop has not seen yet (idle_quit).                                      *)
THEOREM QuitsQuietly == Spec => [](TypeOK /\ QuitsOnlyWhenQuiet)
<1> USE IdleAssumption DEF QuietInv, TypeOK, QuitsOnlyWhenQuiet
<1>1. Init => QuietInv
  <2> SUFFICES ASSUME Init PROVE QuietInv
    OBVIOUS
  <2>1. timer \in 0 .. QuitTimer /\ quiet \in 0 .. QuitTimer
    BY DEF Init
  <2> QED
    BY <2>1 DEF Init, ServiceState
<1>2. QuietInv /\ [Next]_vars => QuietInv'
  <2> SUFFICES ASSUME QuietInv, [Next]_vars PROVE QuietInv'
    OBVIOUS
  <2>1. CASE Transition
    <3>1. PICK next \in {To(svc, s) : s \in ServiceState} \cup {Failed(svc)} :
            /\ svc' = next
            /\ active' = Active(next)
            /\ quiet' = IF active' THEN 0 ELSE quiet
      BY <2>1 DEF Transition
    <3>2. svc' \in ServiceState
      BY <3>1 DEF To, Failed, ServiceState
    <3>3. active' \in BOOLEAN
      BY <3>1 DEF Active
    <3>4. quiet' \in 0 .. QuitTimer
      BY <3>1
    <3> QED
      BY <2>1, <3>2, <3>3, <3>4 DEF Transition
  <2>2. CASE Borrow
    BY <2>2 DEF Borrow
  <2>3. CASE Changed
    BY <2>3 DEF Changed
  <2>4. CASE Expire
    BY <2>4 DEF Expire
  <2>5. CASE Tick
    BY <2>5 DEF Tick, Waiting
  <2>6. CASE UNCHANGED vars
    BY <2>6 DEF vars
  <2> QED
    BY <2>1, <2>2, <2>3, <2>4, <2>5, <2>6 DEF Next
<1> QED
  BY <1>1, <1>2, PTL DEF Spec
==============================================================================
