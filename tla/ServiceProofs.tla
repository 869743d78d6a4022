---------------------------- MODULE ServiceProofs ----------------------------
(***************************************************************************)
(* Proofs about Service for every set of calls and every retry bound.      *)
(***************************************************************************)
EXTENDS Service, TLAPS

(* Taking the handle keeps the types. *)
LEMMA TakeType ==
  ASSUME TypeOK, NEW a \in Actors, NEW waiting \in Label, NEW next \in Label,
         Take(a, waiting, next)
  PROVE  /\ pc' \in [Actors -> Label]
         /\ slot' \in Calls \cup {None}
         /\ stopping' \in [Actors -> Calls \cup {None}]
         /\ asked' \in [Calls -> BOOLEAN]
<1>1. CASE slot = None /\ Goto(a, next) /\ UNCHANGED <<slot, stopping, asked>>
  BY <1>1 DEF TypeOK, Goto
<1>2. CASE /\ slot # None
           /\ Goto(a, waiting)
           /\ stopping' = [stopping EXCEPT ![a] = slot]
           /\ asked' = [asked EXCEPT ![slot] = TRUE]
           /\ slot' = None
  BY <1>2 DEF TypeOK, Goto
<1>3. QED BY <1>1, <1>2 DEF Take

(* Every variable of the service keeps its type: in particular no watcher  *)
(* relaunches its crosswire more than MaxRetries times.                    *)
THEOREM TypeCorrect == Spec => []TypeOK
<1> USE ServiceAssumption DEF Actors
<1>1. Init => TypeOK
  BY DEF Init, TypeOK, ServiceState, Label
<1>2. TypeOK /\ [Next]_vars => TypeOK'
  <2> SUFFICES ASSUME TypeOK, [Next]_vars PROVE TypeOK'
    OBVIOUS
  <2>0. CASE UNCHANGED vars
    BY <2>0 DEF vars, calls, watch, reports, TypeOK
  <2>1. ASSUME NEW c \in Calls, Arrive(c) PROVE TypeOK'
    BY <2>1, SMTT(30) DEF Arrive, TypeOK, Goto, Label, watch, reports
  <2>2. ASSUME NEW c \in Calls, Connect(c) PROVE TypeOK'
    <3>1. CASE ConnectEnter(c)
      BY <3>1 DEF ConnectEnter, Goto, Label, TypeOK, watch, reports
    <3>2. CASE ConnectReplace(c)
      BY <3>2, TakeType DEF ConnectReplace, Label, TypeOK, watch, reports
    <3>3. CASE ConnectReplaced(c)
      BY <3>3 DEF ConnectReplaced, Release, Goto, Label, To, ServiceState, TypeOK, watch, reports
    <3>4. CASE ConnectArm(c)
      BY <3>4 DEF ConnectArm, Goto, Label, To, ServiceState, TypeOK, watch, reports
    <3>5. CASE ConnectSpawn(c)
      BY <3>5 DEF ConnectSpawn, Goto, Label, TypeOK, reports
    <3>6. CASE ConnectAbort(c)
      BY <3>6 DEF ConnectAbort, Goto, Label, Failed, ServiceState, TypeOK, watch, reports
    <3>7. CASE ConnectStore(c)
      BY <3>7 DEF ConnectStore, Goto, Label, TypeOK, watch, reports
    <3>8. QED BY <2>2, <3>1, <3>2, <3>3, <3>4, <3>5, <3>6, <3>7 DEF Connect
  <2>3. ASSUME NEW c \in Calls, Disconnect(c) PROVE TypeOK'
    <3>1. CASE DisconnectHalt(c)
      BY <3>1 DEF DisconnectHalt, Goto, Label, To, ServiceState, TypeOK, watch, reports
    <3>2. CASE DisconnectTake(c)
      BY <3>2, TakeType DEF DisconnectTake, Label, TypeOK, watch, reports
    <3>3. CASE DisconnectStopped(c)
      BY <3>3 DEF DisconnectStopped, Release, Goto, Label, TypeOK, watch, reports
    <3>4. CASE DisconnectSettle(c)
      BY <3>4 DEF DisconnectSettle, Goto, Label, To, ServiceState, TypeOK, watch, reports
    <3>5. QED BY <2>3, <3>1, <3>2, <3>3, <3>4 DEF Disconnect
  <2>4. CASE Shutdown
    <3>1. CASE MainQuit
      BY <3>1 DEF MainQuit, Goto, Label, TypeOK, watch, reports
    <3>2. CASE MainTake
      BY <3>2, TakeType DEF MainTake, Label, TypeOK, watch, reports
    <3>3. CASE MainStopped
      BY <3>3 DEF MainStopped, Release, Goto, Label, TypeOK, watch, reports
    <3>4. CASE MainExit
      BY <3>4 DEF MainExit, Goto, Label, TypeOK, reports
    <3>5. QED BY <2>4, <3>1, <3>2, <3>3, <3>4 DEF Shutdown
  <2>5. ASSUME NEW s \in Calls, WatcherStep(s) \/ WatcherPrompted(s) PROVE TypeOK'
    <3>1. CASE WatcherClassify(s)
      BY <3>1 DEF WatcherClassify, ClassifyExit, Watcher, TypeOK, calls, reports
    <3>2. CASE ~WatcherClassify(s)
      BY <2>5, <3>2 DEF WatcherStep, WatcherPrompted, WatcherTerm, WatcherReap,
           WatcherExit, WatcherClean, WatcherGiveUp, WatcherRelaunch,
           WatcherFail, Watcher, To, Failed, ServiceState, TypeOK, calls, reports
    <3>3. QED BY <3>1, <3>2
  <2>6. ASSUME NEW s \in Calls, ChildExit(s) PROVE TypeOK'
    BY <2>6 DEF ChildExit, TypeOK, calls, reports
  <2>7. ASSUME NEW s \in Calls, NEW n \in 0 .. MaxRetries,
               IpUp(s, n) \/ Handle(s, n)
        PROVE  TypeOK'
    BY <2>7 DEF IpUp, Handle, IpUpAddress, SetConfigBegin, SetConfigEnd,
         SetIp4Config, To, ServiceState, TypeOK, calls, watch
  <2>8. QED
    BY <2>0, <2>1, <2>2, <2>3, <2>4, <2>5, <2>6, <2>7 DEF Next
<1>3. QED
  BY <1>1, <1>2, PTL DEF Spec

------------------------------------------------------------------------------
(* Where the watcher of a session stands relative to its Connect, and what *)
(* a stop request leaves behind.                                           *)
Early == {"idle", "enter", "replace", "replacing", "arm", "spawn"}

StopInv ==
  /\ \A s \in Calls : Live(s) => watcher[s] \in {"run", "term"}
  /\ \A s \in Calls : pc[s] \in Early => watcher[s] = "none"
  /\ \A s \in Calls : pc[s] = "store" => watcher[s] # "none"
  /\ \A s \in Calls : asked[s] => watcher[s] # "none"
  /\ slot # None => watcher[slot] # "none"
  /\ \A s \in Calls :
       asked[s] /\ (\A a \in Actors : stopping[a] # s)
         => watcher[s] \in {"prompt", "failing", "done"}

(* Every step keeps it. *)
LEMMA StopInvStep ==
  ASSUME TypeOK, StopInv, [Next]_vars
  PROVE  StopInv'
<1> USE ServiceAssumption DEF Actors
<1>1. CASE UNCHANGED vars
  BY <1>1 DEF vars, calls, watch, reports, StopInv, Early, Live
<1>2. ASSUME NEW c \in Calls, Arrive(c) PROVE StopInv'
  BY <1>2 DEF Arrive, At, Goto, watch, reports, StopInv, Early, Live, TypeOK
<1>3. ASSUME NEW c \in Calls, Connect(c) PROVE StopInv'
  <2>1. CASE ConnectEnter(c)
    BY <2>1 DEF ConnectEnter, At, Goto, watch, reports, StopInv, Early, Live, TypeOK
  <2>2. CASE ConnectReplace(c)
    BY <2>2 DEF ConnectReplace, At, Goto, watch, reports, Take, SupervisorFree, StopInv, Early, Live, TypeOK
  <2>3. CASE ConnectReplaced(c)
    BY <2>3 DEF ConnectReplaced, At, Goto, watch, reports, Release, StopOver, StopInv, Early, Live, TypeOK
  <2>4. CASE ConnectArm(c)
    BY <2>4 DEF ConnectArm, At, Goto, watch, reports, StopInv, Early, Live, TypeOK
  <2>5. CASE ConnectSpawn(c)
    BY <2>5 DEF ConnectSpawn, At, Goto, reports, StopInv, Early, Live, TypeOK
  <2>6. CASE ConnectAbort(c)
    BY <2>6 DEF ConnectAbort, At, Goto, watch, reports, StopInv, Early, Live, TypeOK
  <2>7. CASE ConnectStore(c)
    BY <2>7 DEF ConnectStore, At, Goto, watch, reports, SupervisorFree, StopInv, Early, Live, TypeOK
  <2>8. QED BY <1>3, <2>1, <2>2, <2>3, <2>4, <2>5, <2>6, <2>7 DEF Connect
<1>4. ASSUME NEW c \in Calls, Disconnect(c) PROVE StopInv'
  <2>1. CASE DisconnectHalt(c)
    BY <2>1 DEF DisconnectHalt, At, Goto, watch, reports, StopInv, Early, Live, TypeOK
  <2>2. CASE DisconnectTake(c)
    BY <2>2 DEF DisconnectTake, At, Goto, watch, reports, Take, SupervisorFree, StopInv, Early, Live, TypeOK
  <2>3. CASE DisconnectStopped(c)
    BY <2>3 DEF DisconnectStopped, At, Goto, watch, reports, Release, StopOver, StopInv, Early, Live, TypeOK
  <2>4. CASE DisconnectSettle(c)
    BY <2>4 DEF DisconnectSettle, At, Goto, watch, reports, StopInv, Early, Live, TypeOK
  <2>5. QED BY <1>4, <2>1, <2>2, <2>3, <2>4 DEF Disconnect
<1>5. CASE Shutdown
  <2>1. CASE MainQuit
    BY <2>1 DEF MainQuit, At, Goto, watch, reports, StopInv, Early, Live, TypeOK
  <2>2. CASE MainTake
    BY <2>2 DEF MainTake, At, Goto, watch, reports, Take, SupervisorFree, StopInv, Early, Live, TypeOK
  <2>3. CASE MainStopped
    BY <2>3 DEF MainStopped, At, Goto, watch, reports, Release, StopOver, StopInv, Early, Live, TypeOK
  <2>4. CASE MainExit
    BY <2>4 DEF MainExit, At, Goto, reports, StopInv, Early, Live, TypeOK
  <2>5. QED BY <1>5, <2>1, <2>2, <2>3, <2>4 DEF Shutdown
<1>6. ASSUME NEW s \in Calls, WatcherStep(s) \/ WatcherPrompted(s) PROVE StopInv'
  <2>1. CASE WatcherTerm(s)
    BY <2>1 DEF WatcherTerm, Watcher, calls, reports, StopInv, Early, Live, TypeOK
  <2>2. CASE WatcherReap(s)
    BY <2>2 DEF WatcherReap, Watcher, calls, reports, Live, StopInv, Early, Live, TypeOK
  <2>3. CASE WatcherExit(s)
    BY <2>3 DEF WatcherExit, Watcher, calls, reports, StopInv, Early, Live, TypeOK
  <2>4. CASE WatcherClean(s)
    BY <2>4 DEF WatcherClean, Watcher, calls, reports, StopInv, Early, Live, TypeOK
  <2>5. CASE WatcherClassify(s)
    BY <2>5 DEF WatcherClassify, Watcher, calls, reports, ClassifyExit, StopInv, Early, Live, TypeOK
  <2>6. CASE WatcherGiveUp(s)
    BY <2>6 DEF WatcherGiveUp, Watcher, calls, reports, StopInv, Early, Live, TypeOK
  <2>7. CASE WatcherRelaunch(s)
    BY <2>7 DEF WatcherRelaunch, Watcher, calls, reports, StopReady, HandleHeld, StopInv, Early, Live, TypeOK
  <2>8. CASE WatcherFail(s)
    BY <2>8 DEF WatcherFail, Watcher, calls, reports, StopInv, Early, Live, TypeOK
  <2>9. CASE WatcherPrompted(s)
    BY <2>9 DEF WatcherPrompted, Watcher, calls, reports, StopInv, Early, Live, TypeOK
  <2>10. QED BY <1>6, <2>1, <2>2, <2>3, <2>4, <2>5, <2>6, <2>7, <2>8, <2>9 DEF WatcherStep
<1>7. ASSUME NEW s \in Calls, ChildExit(s) PROVE StopInv'
  BY <1>7 DEF ChildExit, Live, calls, reports, StopInv, Early, Live, TypeOK
<1>8. ASSUME NEW s \in Calls, NEW n \in 0 .. MaxRetries, IpUp(s, n) \/ Handle(s, n)
     PROVE  StopInv'
  BY <1>8 DEF IpUp, Handle, IpUpAddress, SetConfigBegin, SetConfigEnd, SetIp4Config,
       calls, watch, StopInv, Early, Live
<1>9. QED
  BY <1>1, <1>2, <1>3, <1>4, <1>5, <1>6, <1>7, <1>8 DEF Next

(* Once stop() has returned, the session it stopped never has a crosswire  *)
(* again, whatever calls, exits, retries and timeouts interleave.          *)
THEOREM StopFinal == Spec => []StopIsFinal
<1>1. Init => StopInv
  BY ServiceAssumption DEF Init, StopInv, Early, Live, Actors
<1>2. TypeOK /\ StopInv /\ [Next]_vars => StopInv'
  BY StopInvStep
<1>3. StopInv => StopIsFinal
  BY DEF StopInv, StopIsFinal
<1>4. QED
  BY <1>1, <1>2, <1>3, TypeCorrect, PTL DEF Spec

------------------------------------------------------------------------------
(* A crosswire that runs or may run again. *)
Threat(s) == watcher[s] \in {"run", "term", "drain", "backoff"}

(* At most one Connect at a time; one actor stops at a time, and while it  *)
(* does, or a Connect is past replacing the old session, the slot is       *)
(* empty; from then to its launch no crosswire threatens to run.           *)
SingleInv ==
  /\ \A c, d \in Calls : Connecting(c) /\ Connecting(d) => c = d
  /\ \A a, b \in Actors : stopping[a] # None /\ stopping[b] # None => a = b
  /\ \A a \in Actors : stopping[a] # None => slot = None
  /\ \A c \in Calls : pc[c] \in {"replacing", "arm", "spawn", "store"} => slot = None
  /\ \A c \in Calls : pc[c] = "replacing" => stopping[c] # None
  /\ \A c \in Calls : pc[c] \in {"arm", "spawn"} => \A s \in Calls : ~Threat(s)
  /\ \A c \in Calls : pc[c] = "store" => \A s \in Calls : Threat(s) => s = c
  /\ \A s, t \in Calls : Threat(s) /\ Threat(t) => s = t
  /\ \A s \in Calls : Threat(s) => HandleHeld(s)

(* Every step keeps it when Connects do not overlap. *)
LEMMA SingleInvStep ==
  ASSUME Overlap # "any", TypeOK, StopInv, SingleInv, [Next]_vars
  PROVE  SingleInv'
<1> USE ServiceAssumption DEF Actors
<1>1. CASE UNCHANGED vars
  BY <1>1 DEF vars, calls, watch, reports, SingleInv, Threat, Connecting, HandleHeld
<1>2. ASSUME NEW c \in Calls, Arrive(c) PROVE SingleInv'
  <2>1. PICK label \in {"enter", "halt"} : Goto(c, label)
    BY <1>2 DEF Arrive
  <2>2. pc[c] = "idle" /\ pc' = [pc EXCEPT ![c] = label]
    BY <1>2, <2>1 DEF Arrive, At, Goto
  <2>3. label = "enter" => \A d \in Calls : ~Connecting(d)
    BY <1>2, <2>2, Overlap # "any" DEF Arrive, Goto, Settled, InFlight, Connecting, TypeOK
  <2>4. \A d \in Calls : Connecting(d)' => Connecting(d) \/ (d = c /\ label = "enter")
    BY <2>2 DEF Connecting, TypeOK
  <2>5. UNCHANGED <<stopping, slot, watcher>>
    BY <1>2 DEF Arrive, watch
  <2>6. \A d \in Calls : \/ pc'[d] = pc[d]
                         \/ d = c /\ pc'[d] \in {"enter", "halt"}
    BY <2>2 DEF TypeOK
  <2>7. \A d, e \in Calls : Connecting(d)' /\ Connecting(e)' => d = e
    BY <2>3, <2>4 DEF SingleInv
  <2>8. \A d \in Calls : (Threat(d)' <=> Threat(d)) /\ (HandleHeld(d) => HandleHeld(d)')
    BY <2>2, <2>5, <2>6 DEF Threat, HandleHeld
  <2>9. QED
    BY <2>5, <2>6, <2>7, <2>8 DEF SingleInv
<1>3. ASSUME NEW c \in Calls, Connect(c) PROVE SingleInv'
  <2>1. CASE ConnectEnter(c)
    BY <2>1 DEF ConnectEnter, At, Goto, watch, reports, SingleInv, Threat, Connecting, HandleHeld, TypeOK
  <2>2. CASE ConnectReplace(c)
    BY <2>2 DEF ConnectReplace, At, Goto, watch, reports, Take, SupervisorFree, SingleInv, Threat, Connecting, HandleHeld, TypeOK
  <2>3. CASE ConnectReplaced(c)
    BY <2>3 DEF ConnectReplaced, At, Goto, watch, reports, Release, StopOver, SingleInv, Threat, Connecting, HandleHeld, TypeOK
  <2>4. CASE ConnectArm(c)
    BY <2>4 DEF ConnectArm, At, Goto, watch, reports, SingleInv, Threat, Connecting, HandleHeld, TypeOK
  <2>5. CASE ConnectSpawn(c)
    BY <2>5 DEF ConnectSpawn, At, Goto, reports, SingleInv, Threat, Connecting, HandleHeld, TypeOK
  <2>6. CASE ConnectAbort(c)
    BY <2>6 DEF ConnectAbort, At, Goto, watch, reports, SingleInv, Threat, Connecting, HandleHeld, TypeOK
  <2>7. CASE ConnectStore(c)
    BY <2>7 DEF ConnectStore, At, Goto, watch, reports, SupervisorFree, SingleInv, Threat, Connecting, HandleHeld, TypeOK
  <2>8. QED BY <1>3, <2>1, <2>2, <2>3, <2>4, <2>5, <2>6, <2>7 DEF Connect
<1>4. ASSUME NEW c \in Calls, Disconnect(c) PROVE SingleInv'
  <2>1. CASE DisconnectHalt(c)
    BY <2>1 DEF DisconnectHalt, At, Goto, watch, reports, SingleInv, Threat, Connecting, HandleHeld, TypeOK
  <2>2. CASE DisconnectTake(c)
    BY <2>2 DEF DisconnectTake, At, Goto, watch, reports, Take, SupervisorFree, SingleInv, Threat, Connecting, HandleHeld, TypeOK
  <2>3. CASE DisconnectStopped(c)
    BY <2>3 DEF DisconnectStopped, At, Goto, watch, reports, Release, StopOver, SingleInv, Threat, Connecting, HandleHeld, TypeOK
  <2>4. CASE DisconnectSettle(c)
    BY <2>4 DEF DisconnectSettle, At, Goto, watch, reports, SingleInv, Threat, Connecting, HandleHeld, TypeOK
  <2>5. QED BY <1>4, <2>1, <2>2, <2>3, <2>4 DEF Disconnect
<1>5. CASE Shutdown
  <2>1. CASE MainQuit
    BY <2>1 DEF MainQuit, At, Goto, watch, reports, SingleInv, Threat, Connecting, HandleHeld, TypeOK
  <2>2. CASE MainTake
    BY <2>2 DEF MainTake, At, Goto, watch, reports, Take, SupervisorFree, SingleInv, Threat, Connecting, HandleHeld, TypeOK
  <2>3. CASE MainStopped
    BY <2>3 DEF MainStopped, At, Goto, watch, reports, Release, StopOver, SingleInv, Threat, Connecting, HandleHeld, TypeOK
  <2>4. CASE MainExit
    BY <2>4 DEF MainExit, At, Goto, reports, SingleInv, Threat, Connecting, HandleHeld, TypeOK
  <2>5. QED BY <1>5, <2>1, <2>2, <2>3, <2>4 DEF Shutdown
<1>6. ASSUME NEW s \in Calls, WatcherStep(s) \/ WatcherPrompted(s) PROVE SingleInv'
  <2>1. CASE WatcherTerm(s)
    BY <2>1 DEF WatcherTerm, Watcher, calls, reports, SingleInv, Threat, Connecting, HandleHeld, TypeOK
  <2>2. CASE WatcherReap(s)
    BY <2>2 DEF WatcherReap, Watcher, calls, reports, Live, SingleInv, Threat, Connecting, HandleHeld, TypeOK
  <2>3. CASE WatcherExit(s)
    BY <2>3 DEF WatcherExit, Watcher, calls, reports, SingleInv, Threat, Connecting, HandleHeld, TypeOK
  <2>4. CASE WatcherClean(s)
    BY <2>4 DEF WatcherClean, Watcher, calls, reports, SingleInv, Threat, Connecting, HandleHeld, TypeOK
  <2>5. CASE WatcherClassify(s)
    BY <2>5 DEF WatcherClassify, Watcher, calls, reports, ClassifyExit, SingleInv, Threat, Connecting, HandleHeld, TypeOK
  <2>6. CASE WatcherGiveUp(s)
    BY <2>6 DEF WatcherGiveUp, Watcher, calls, reports, SingleInv, Threat, Connecting, HandleHeld, TypeOK
  <2>7. CASE WatcherRelaunch(s)
    BY <2>7 DEF WatcherRelaunch, Watcher, calls, reports, StopReady, HandleHeld, SingleInv, Threat, Connecting, HandleHeld, TypeOK
  <2>8. CASE WatcherFail(s)
    BY <2>8 DEF WatcherFail, Watcher, calls, reports, SingleInv, Threat, Connecting, HandleHeld, TypeOK
  <2>9. CASE WatcherPrompted(s)
    BY <2>9 DEF WatcherPrompted, Watcher, calls, reports, SingleInv, Threat, Connecting, HandleHeld, TypeOK
  <2>10. QED BY <1>6, <2>1, <2>2, <2>3, <2>4, <2>5, <2>6, <2>7, <2>8, <2>9 DEF WatcherStep
<1>7. ASSUME NEW s \in Calls, ChildExit(s) PROVE SingleInv'
  BY <1>7 DEF ChildExit, Live, calls, reports, SingleInv, Threat, Connecting, HandleHeld, TypeOK
<1>8. ASSUME NEW s \in Calls, NEW n \in 0 .. MaxRetries, IpUp(s, n) \/ Handle(s, n)
     PROVE  SingleInv'
  BY <1>8 DEF IpUp, Handle, IpUpAddress, SetConfigBegin, SetConfigEnd, SetIp4Config,
       calls, watch, SingleInv, Threat, Connecting, HandleHeld
<1>9. QED
  BY <1>1, <1>2, <1>3, <1>4, <1>5, <1>6, <1>7, <1>8 DEF Next

(* Whatever Disconnect or quit signal runs into a Connect, two crosswires  *)
(* never run at once, provided NetworkManager does not overlap Connects.   *)
THEOREM SingleCrosswire ==
  ASSUME Overlap # "any"
  PROVE  Spec => [](OneCrosswire /\ LiveIsOwned)
<1>1. Init => StopInv /\ SingleInv
  BY ServiceAssumption DEF Init, StopInv, Early, Live, SingleInv, Threat, Connecting, Actors
<1>2. TypeOK /\ StopInv /\ SingleInv /\ [Next]_vars => (StopInv /\ SingleInv)'
  BY StopInvStep, SingleInvStep
<1>3. StopInv /\ SingleInv => OneCrosswire /\ LiveIsOwned
  BY DEF StopInv, SingleInv, Threat, OneCrosswire, LiveIsOwned
<1>4. QED
  BY <1>1, <1>2, <1>3, TypeCorrect, PTL DEF Spec

------------------------------------------------------------------------------
(* Who takes a claim of activity back: a watcher that has not ended, or a  *)
(* call that stops the session, ends the connection or launches a new one. *)
Busy(s)  == watcher[s] \notin {"none", "done"}
Owing(c) == pc[c] \in {"replacing", "spawn", "end", "ending", "settle"}

(* An active service is some watcher's or some call's to settle; a stop    *)
(* request goes to a session that has left the slot, and comes from an     *)
(* actor that waits for it; while the service runs, a report that is half  *)
(* delivered has a live crosswire.                                         *)
Claimed ==
  /\ svc = "Stopping" => \E c \in Calls : pc[c] \in {"end", "ending", "settle"}
  /\ Active(svc) =>
       \/ \E s \in Calls : Busy(s)
       \/ \E c \in Calls : Owing(c)
       \/ pc[Main] # "serve"

Requested ==
  /\ slot # None => pc[slot] = "done" /\ ~asked[slot]
  /\ \A s \in Calls : asked[s] => pc[s] = "done"
  /\ \A s \in Calls : watcher[s] = "term" => asked[s]
  /\ \A c \in Calls : stopping[c] # None => pc[c] \in {"replacing", "ending"}
  /\ stopping[Main] # None => pc[Main] = "quitting"

Reported ==
  \A s \in Calls, n \in 0 .. MaxRetries :
    /\ ~ReportWhole(<<s, n>>) => Exited \/ (Live(s) /\ retries[s] = n)
    /\ ip4[<<s, n>>] # "none" => cfg[<<s, n>>] # "none"

AccountInv == Claimed /\ Requested /\ Reported

(* What the transitions of the service do to its activity. *)
LEMMA Transitions ==
  ASSUME TypeOK
  PROVE  /\ ~Active(To(svc, "Stopped"))
         /\ To(svc, "Stopped") # "Stopping"
         /\ Active(Failed(svc)) => Failed(svc) = svc /\ svc = "Stopping"
         /\ Failed(svc) = "Stopping" => svc = "Stopping"
         /\ Active(To(svc, "Started")) <=> Active(svc)
         /\ To(svc, "Started") = "Stopping" <=> svc = "Stopping"
  BY DEF TypeOK, ServiceState, Active, To, Legal, Failed

(* A step without a report keeps Reported, unless a crosswire ends or is   *)
(* relaunched while its report is half delivered.                          *)
LEMMA ReportedKeeps ==
  ASSUME Reported, UNCHANGED reports, Exited => Exited',
         \A s \in Calls :
           Live(s) => \/ Live(s)' /\ retries'[s] = retries[s]
                      \/ ReportWhole(<<s, retries[s]>>)
  PROVE  Reported'
<1> SUFFICES ASSUME NEW s \in Calls, NEW n \in 0 .. MaxRetries
             PROVE  /\ ~ReportWhole(<<s, n>>)' => (Exited \/ (Live(s) /\ retries[s] = n))'
                    /\ (ip4[<<s, n>>] # "none" => cfg[<<s, n>>] # "none")'
  BY DEF Reported
<1>1. ReportWhole(<<s, n>>)' <=> ReportWhole(<<s, n>>)
  BY DEF reports, ReportWhole
<1>2. (ip4[<<s, n>>] # "none" => cfg[<<s, n>>] # "none")'
  BY DEF Reported, reports
<1>3. ASSUME ~ReportWhole(<<s, n>>), ~Exited
      PROVE  Live(s)' /\ retries'[s] = n
  BY <1>3 DEF Reported
<1>4. QED
  BY <1>1, <1>2, <1>3

(* Every step keeps it when Connects do not overlap and reports are not    *)
(* late.                                                                   *)
LEMMA AccountInvStep ==
  ASSUME Overlap # "any", ~LateReports, TypeOK, StopInv, SingleInv, AccountInv,
         [Next]_vars
  PROVE  AccountInv'
<1> USE ServiceAssumption DEF Actors
<1>1. CASE UNCHANGED vars
  BY <1>1 DEF vars, calls, watch, reports, AccountInv, Claimed, Requested, Reported, Busy, Owing, Active, ReportWhole, Live, Exited
<1>2. ASSUME NEW c \in Calls, Arrive(c) PROVE AccountInv'
  BY <1>2 DEF Arrive, At, Goto, watch, reports, AccountInv, Claimed, Requested, Reported, Busy, Owing, Active, ReportWhole, Live, Exited, TypeOK
<1>3. ASSUME NEW c \in Calls, Connect(c) PROVE AccountInv'
  <2>1. CASE ConnectEnter(c)
    BY <2>1 DEF ConnectEnter, At, Goto, watch, reports, AccountInv, Claimed, Requested, Reported, Busy, Owing, Active, ReportWhole, Live, Exited, TypeOK
  <2>2. CASE ConnectReplace(c)
    BY <2>2 DEF ConnectReplace, At, Goto, watch, reports, Take, SupervisorFree, AccountInv, Claimed, Requested, Reported, Busy, Owing, Active, ReportWhole, Live, Exited, TypeOK
  <2>3. CASE ConnectReplaced(c)
    <3>1. Claimed'
      BY <2>3, Transitions DEF ConnectReplaced, At, Goto, watch, AccountInv, Claimed, Busy, Owing, TypeOK
    <3>2. Requested'
      BY <2>3 DEF ConnectReplaced, At, Goto, watch, Release, AccountInv, Requested, TypeOK
    <3>3. Reported'
      BY <2>3, ReportedKeeps DEF ConnectReplaced, At, Goto, watch, AccountInv, Live, Exited, TypeOK
    <3>4. QED BY <3>1, <3>2, <3>3 DEF AccountInv
  <2>4. CASE ConnectArm(c)
    BY <2>4 DEF ConnectArm, At, Goto, watch, reports, To, Legal, AccountInv, Claimed, Requested, Reported, Busy, Owing, Active, ReportWhole, Live, Exited, TypeOK
  <2>5. CASE ConnectSpawn(c)
    BY <2>5 DEF ConnectSpawn, At, Goto, reports, StopInv, Early, AccountInv, Claimed, Requested, Reported, Busy, Owing, Active, ReportWhole, Live, Exited, TypeOK
  <2>6. CASE ConnectAbort(c)
    <3>1. Claimed'
      <4>1. svc' = Failed(svc) /\ pc[c] = "spawn" /\ pc' = [pc EXCEPT ![c] = "done"]
        BY <2>6 DEF ConnectAbort, At, Goto
      <4>2. CASE svc = "Stopping"
        <5>1. PICK d \in Calls : pc[d] \in {"end", "ending", "settle"}
          BY <4>2 DEF AccountInv, Claimed
        <5>2. pc'[d] \in {"end", "ending", "settle"}
          BY <4>1, <5>1 DEF TypeOK
        <5>3. QED BY <5>2 DEF Claimed, Owing
      <4>3. CASE svc # "Stopping"
        <5>1. svc' # "Stopping" /\ ~Active(svc')
          BY <4>1, <4>3, Transitions DEF Active
        <5>2. QED BY <5>1 DEF Claimed, Active
      <4>4. QED BY <4>2, <4>3
    <3>2. Requested'
      BY <2>6 DEF ConnectAbort, At, Goto, watch, AccountInv, Requested, TypeOK
    <3>3. Reported'
      BY <2>6, ReportedKeeps DEF ConnectAbort, At, Goto, watch, AccountInv, Live, Exited, TypeOK
    <3>4. QED BY <3>1, <3>2, <3>3 DEF AccountInv
  <2>7. CASE ConnectStore(c)
    BY <2>7 DEF ConnectStore, At, Goto, watch, reports, SupervisorFree, AccountInv, Claimed, Requested, Reported, Busy, Owing, Active, ReportWhole, Live, Exited, TypeOK
  <2>8. QED BY <1>3, <2>1, <2>2, <2>3, <2>4, <2>5, <2>6, <2>7 DEF Connect
<1>4. ASSUME NEW c \in Calls, Disconnect(c) PROVE AccountInv'
  <2>1. CASE DisconnectHalt(c)
    BY <2>1 DEF DisconnectHalt, At, Goto, watch, reports, To, Legal, AccountInv, Claimed, Requested, Reported, Busy, Owing, Active, ReportWhole, Live, Exited, TypeOK
  <2>2. CASE DisconnectTake(c)
    BY <2>2 DEF DisconnectTake, At, Goto, watch, reports, Take, SupervisorFree, AccountInv, Claimed, Requested, Reported, Busy, Owing, Active, ReportWhole, Live, Exited, TypeOK
  <2>3. CASE DisconnectStopped(c)
    BY <2>3 DEF DisconnectStopped, At, Goto, watch, reports, Release, StopOver, AccountInv, Claimed, Requested, Reported, Busy, Owing, Active, ReportWhole, Live, Exited, TypeOK
  <2>4. CASE DisconnectSettle(c)
    <3>1. Claimed'
      BY <2>4, Transitions DEF DisconnectSettle, At, Goto, watch, AccountInv, Claimed, Busy, Owing, TypeOK
    <3>2. Requested'
      BY <2>4 DEF DisconnectSettle, At, Goto, watch, AccountInv, Requested, TypeOK
    <3>3. Reported'
      BY <2>4, ReportedKeeps DEF DisconnectSettle, At, Goto, watch, AccountInv, Live, Exited, TypeOK
    <3>4. QED BY <3>1, <3>2, <3>3 DEF AccountInv
  <2>5. QED BY <1>4, <2>1, <2>2, <2>3, <2>4 DEF Disconnect
<1>5. CASE Shutdown
  <2>1. CASE MainQuit
    BY <2>1 DEF MainQuit, At, Goto, watch, reports, AccountInv, Claimed, Requested, Reported, Busy, Owing, Active, ReportWhole, Live, Exited, TypeOK
  <2>2. CASE MainTake
    BY <2>2 DEF MainTake, At, Goto, watch, reports, Take, SupervisorFree, AccountInv, Claimed, Requested, Reported, Busy, Owing, Active, ReportWhole, Live, Exited, TypeOK
  <2>3. CASE MainStopped
    BY <2>3 DEF MainStopped, At, Goto, watch, reports, Release, StopOver, AccountInv, Claimed, Requested, Reported, Busy, Owing, Active, ReportWhole, Live, Exited, TypeOK
  <2>4. CASE MainExit
    BY <2>4 DEF MainExit, At, Goto, reports, AccountInv, Claimed, Requested, Reported, Busy, Owing, Active, ReportWhole, Live, Exited, TypeOK
  <2>5. QED BY <1>5, <2>1, <2>2, <2>3, <2>4 DEF Shutdown
<1>6. ASSUME NEW s \in Calls, WatcherStep(s) \/ WatcherPrompted(s) PROVE AccountInv'
  <2>1. CASE WatcherTerm(s)
    BY <2>1 DEF WatcherTerm, Watcher, StopReady, HandleHeld, SingleInv, Threat, calls, reports, AccountInv, Claimed, Requested, Reported, Busy, Owing, Active, ReportWhole, Live, Exited, TypeOK
  <2>2. CASE WatcherReap(s)
    <3>1. PICK a \in Actors : stopping[a] = s
      BY <2>2 DEF WatcherReap, Watcher, SingleInv, Threat, HandleHeld, AccountInv, Requested
    <3>2. Claimed'
      BY <2>2, <3>1 DEF WatcherReap, Watcher, calls, Requested, AccountInv, Claimed, Busy, Owing, TypeOK
    <3>3. Requested'
      BY <2>2 DEF WatcherReap, Watcher, calls, AccountInv, Requested, TypeOK
    <3>4. Reported'
      BY <2>2, ReportedKeeps DEF WatcherReap, MayDie, calls, AccountInv, Live, Exited, TypeOK
    <3>5. QED BY <3>2, <3>3, <3>4 DEF AccountInv
  <2>3. CASE WatcherExit(s)
    BY <2>3 DEF WatcherExit, Watcher, calls, reports, AccountInv, Claimed, Requested, Reported, Busy, Owing, Active, ReportWhole, Live, Exited, TypeOK
  <2>4. CASE WatcherClean(s)
    <3>1. Claimed'
      BY <2>4, Transitions DEF WatcherClean, Watcher, calls, AccountInv, Claimed, Busy, Owing, TypeOK
    <3>2. Requested'
      BY <2>4 DEF WatcherClean, Watcher, calls, AccountInv, Requested, TypeOK
    <3>3. Reported'
      BY <2>4, ReportedKeeps DEF WatcherClean, calls, AccountInv, Live, Exited, TypeOK
    <3>4. QED BY <3>1, <3>2, <3>3 DEF AccountInv
  <2>5. CASE WatcherClassify(s)
    <3>1. Claimed'
      BY <2>5, Transitions DEF WatcherClassify, Watcher, ClassifyExit, calls, AccountInv, Claimed, Busy, Owing, TypeOK
    <3>2. Requested'
      BY <2>5 DEF WatcherClassify, Watcher, ClassifyExit, calls, AccountInv, Requested, TypeOK
    <3>3. Reported'
      BY <2>5, ReportedKeeps DEF WatcherClassify, Watcher, calls, StopInv, AccountInv, Live, Exited, TypeOK
    <3>4. QED BY <3>1, <3>2, <3>3 DEF AccountInv
  <2>6. CASE WatcherGiveUp(s)
    BY <2>6 DEF WatcherGiveUp, Watcher, calls, reports, StopReady, SingleInv, Threat, HandleHeld, AccountInv, Claimed, Requested, Reported, Busy, Owing, Active, ReportWhole, Live, Exited, TypeOK
  <2>7. CASE WatcherRelaunch(s)
    BY <2>7 DEF WatcherRelaunch, Watcher, calls, reports, AccountInv, Claimed, Requested, Reported, Busy, Owing, Active, ReportWhole, Live, Exited, TypeOK
  <2>8. CASE WatcherFail(s)
    <3>1. Claimed'
      <4>1. svc' = Failed(svc) /\ pc' = pc
        BY <2>8 DEF WatcherFail, calls
      <4>2. CASE svc = "Stopping"
        BY <4>1, <4>2 DEF AccountInv, Claimed, Owing
      <4>3. CASE svc # "Stopping"
        <5>1. svc' # "Stopping" /\ ~Active(svc')
          BY <4>1, <4>3, Transitions DEF Active
        <5>2. QED BY <5>1 DEF Claimed, Active
      <4>4. QED BY <4>2, <4>3
    <3>2. Requested'
      BY <2>8 DEF WatcherFail, Watcher, calls, AccountInv, Requested, TypeOK
    <3>3. Reported'
      BY <2>8, ReportedKeeps DEF WatcherFail, calls, AccountInv, Live, Exited, TypeOK
    <3>4. QED BY <3>1, <3>2, <3>3 DEF AccountInv
  <2>9. CASE WatcherPrompted(s)
    BY <2>9 DEF WatcherPrompted, Watcher, calls, reports, AccountInv, Claimed, Requested, Reported, Busy, Owing, Active, ReportWhole, Live, Exited, TypeOK
  <2>10. QED BY <1>6, <2>1, <2>2, <2>3, <2>4, <2>5, <2>6, <2>7, <2>8, <2>9 DEF WatcherStep
<1>7. ASSUME NEW s \in Calls, ChildExit(s) PROVE AccountInv'
  BY <1>7 DEF ChildExit, MayDie, calls, reports, AccountInv, Claimed, Requested, Reported, Busy, Owing, Active, ReportWhole, Live, Exited, TypeOK
<1>8. ASSUME NEW s \in Calls, NEW n \in 0 .. MaxRetries, IpUp(s, n) \/ Handle(s, n)
     PROVE  AccountInv'
  <2>1. Claimed'
    BY <1>8, Transitions DEF IpUp, Handle, IpUpAddress, SetConfigBegin, SetConfigEnd,
         SetIp4Config, calls, watch, AccountInv, Claimed, Busy, Owing, TypeOK
  <2>2. Requested'
    BY <1>8 DEF IpUp, Handle, IpUpAddress, SetConfigBegin, SetConfigEnd,
         SetIp4Config, calls, watch, AccountInv, Requested, TypeOK
  <2>3. Reported'
    <3>1. UNCHANGED <<child, retries, pc>>
      BY <1>8 DEF IpUp, Handle, IpUpAddress, SetConfigBegin, SetConfigEnd,
           SetIp4Config, calls, watch
    <3>2. ASSUME NEW t \in Calls, NEW m \in 0 .. MaxRetries, <<t, m>> # <<s, n>>
          PROVE  cfg'[<<t, m>>] = cfg[<<t, m>>] /\ ip4'[<<t, m>>] = ip4[<<t, m>>]
      BY <1>8, <3>2 DEF IpUp, Handle, IpUpAddress, SetConfigBegin, SetConfigEnd,
           SetIp4Config, Runs, TypeOK
    <3>3. <<s, n>> \in Runs
      BY DEF Runs
    <3>4. /\ ~ReportWhole(<<s, n>>)' => Exited \/ (Live(s) /\ retries[s] = n)
          /\ ip4'[<<s, n>>] # "none" => cfg'[<<s, n>>] # "none"
      <4>1. CASE IpUp(s, n)
        BY <4>1, <3>3 DEF IpUp, AccountInv, Reported, TypeOK
      <4>2. CASE IpUpAddress(s, n)
        BY <4>2, <3>3 DEF IpUpAddress, AccountInv, Reported, ReportWhole, TypeOK
      <4>3. CASE SetConfigBegin(s, n)
        BY <4>3, <3>3 DEF SetConfigBegin, AccountInv, Reported, ReportWhole, TypeOK
      <4>4. CASE SetConfigEnd(s, n)
        BY <4>4, <3>3 DEF SetConfigEnd, AccountInv, Reported, ReportWhole, TypeOK
      <4>5. CASE SetIp4Config(s, n)
        BY <4>5, <3>3 DEF SetIp4Config, AccountInv, Reported, ReportWhole, TypeOK
      <4>6. QED BY <1>8, <4>1, <4>2, <4>3, <4>4, <4>5 DEF Handle
    <3>5. ASSUME NEW t \in Calls, NEW m \in 0 .. MaxRetries
          PROVE  /\ ~ReportWhole(<<t, m>>)' => (Exited \/ (Live(t) /\ retries[t] = m))'
                 /\ ip4'[<<t, m>>] # "none" => cfg'[<<t, m>>] # "none"
      <4>1. CASE <<t, m>> = <<s, n>>
        BY <3>1, <3>4, <4>1 DEF Exited, Live
      <4>2. CASE <<t, m>> # <<s, n>>
        BY <3>1, <3>2, <4>2 DEF AccountInv, Reported, ReportWhole, Exited, Live
      <4>3. QED BY <4>1, <4>2
    <3>6. QED BY <3>5 DEF Reported
  <2>4. QED BY <2>1, <2>2, <2>3 DEF AccountInv
<1>9. QED
  BY <1>1, <1>2, <1>3, <1>4, <1>5, <1>6, <1>7, <1>8 DEF Next

LEMMA AccountInvariant ==
  ASSUME Overlap # "any", ~LateReports
  PROVE  Spec => [](TypeOK /\ StopInv /\ SingleInv /\ AccountInv)
<1>1. Init => StopInv /\ SingleInv /\ AccountInv
  BY ServiceAssumption DEF Init, StopInv, Early, Live, SingleInv, Threat, Connecting,
       Actors, AccountInv, Claimed, Requested, Reported, Active, ReportWhole, Runs
<1>2. TypeOK /\ StopInv /\ SingleInv /\ AccountInv /\ [Next]_vars
        => (StopInv /\ SingleInv /\ AccountInv)'
  BY StopInvStep, SingleInvStep, AccountInvStep
<1>3. QED
  BY <1>1, <1>2, TypeCorrect, PTL DEF Spec

(* With no call in flight the service is never left connecting, connected  *)
(* or disconnecting without a watcher that will take the claim back,       *)
(* however a Disconnect or the quit signal runs into a Connect.            *)
THEOREM NothingDiesSilently ==
  ASSUME Overlap # "any", ~LateReports
  PROVE  Spec => []ActivityAccounted
<1>1. AccountInv => ActivityAccounted
  BY DEF AccountInv, Claimed, ActivityAccounted, Settled, InFlight, Busy, Owing, At
<1>2. QED
  BY <1>1, AccountInvariant, PTL
==============================================================================
