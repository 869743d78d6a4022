----------------------------- MODULE SerialProofs -----------------------------
(***************************************************************************)
(* Theorems about Service when NetworkManager waits for each reply, reports *)
(* are not late and the certificate prompt does not outlast stop(): among   *)
(* them that Service implements Lifecycle.                                  *)
(***************************************************************************)
EXTENDS ServiceProofs

Serial == Overlap = "none" /\ ~LateReports /\ ~SlowPrompt

(* One call in flight at most, and none while main leaves. *)
Alone ==
  /\ \A c, d \in Calls : InFlight(c) /\ InFlight(d) => c = d
  /\ \A c \in Calls : InFlight(c) => pc[Main] = "serve"

(* At most one watcher is at work, with its handle held; none is where a   *)
(* Connect is past the old session, a Disconnect past the teardown, and    *)
(* main past its own.  Who awaits stop() has a session to stop.            *)
Attended ==
  /\ \A s, t \in Calls : Busy(s) /\ Busy(t) => s = t
  /\ \A s \in Calls : Busy(s) => HandleHeld(s)
  /\ \A c \in Calls : pc[c] \in {"arm", "spawn", "settle"} => \A s \in Calls : ~Busy(s)
  /\ pc[Main] \in {"exit", "exited"} => \A s \in Calls : ~Busy(s)
  /\ \A c \in Calls : pc[c] = "ending" => stopping[c] # None
  /\ pc[Main] = "quitting" => stopping[Main] # None

(* What the state says of the watcher at work. *)
Truthful ==
  /\ svc \in {"Starting", "Started", "Stopping", "Stopped"}
  /\ \A c \in Calls : pc[c] = "spawn" => svc = "Starting"
  /\ \A s \in Calls : watcher[s] \in {"backoff", "prompt"} => svc \in {"Starting", "Stopping"}
  /\ \A s \in Calls : svc = "Started" /\ Busy(s) => ip4[<<s, retries[s]>>] = "done"

SerialInv == Alone /\ Attended /\ Truthful

------------------------------------------------------------------------------
(* Only Arrive puts a call in flight, and only Shutdown moves main. *)
LEMMA WhoMoves ==
  ASSUME TypeOK, [Next]_vars
  PROVE  \/ \E c \in Calls : Arrive(c)
         \/ MainQuit
         \/ /\ \A d \in Calls : InFlight(d)' => InFlight(d)
            /\ pc[Main] = "serve" => pc'[Main] = "serve"
<1> USE ServiceAssumption DEF Actors
<1>1. ASSUME NEW c \in Calls, Connect(c) \/ Disconnect(c)
      PROVE  InFlight(c) /\ \E label \in Label : pc' = [pc EXCEPT ![c] = label]
  BY <1>1 DEF Connect, ConnectEnter, ConnectReplace, ConnectReplaced, ConnectArm,
    ConnectSpawn, ConnectAbort, ConnectStore, Disconnect, DisconnectHalt,
    DisconnectTake, DisconnectStopped, DisconnectSettle, Take, At, Goto, InFlight, Label
<1>2. ASSUME MainTake \/ MainStopped \/ MainExit
      PROVE  pc[Main] # "serve" /\ \E label \in Label : pc' = [pc EXCEPT ![Main] = label]
  BY <1>2 DEF MainTake, MainStopped, MainExit, Take, At, Goto, Label
<1>3. ASSUME NEW s \in Calls, WatcherStep(s) \/ WatcherPrompted(s) \/ ChildExit(s)
      PROVE  pc' = pc
  BY <1>3 DEF WatcherStep, WatcherPrompted, ChildExit, WatcherTerm, WatcherReap,
    WatcherExit, WatcherClean, WatcherClassify, WatcherGiveUp, WatcherRelaunch,
    WatcherFail, calls
<1>4. ASSUME NEW s \in Calls, NEW n \in 0 .. MaxRetries, IpUp(s, n) \/ Handle(s, n)
      PROVE  pc' = pc
  BY <1>4 DEF IpUp, Handle, IpUpAddress, SetConfigBegin, SetConfigEnd, SetIp4Config, calls
<1>5. CASE UNCHANGED vars
  BY <1>5 DEF vars, calls, InFlight
<1>6. CASE \E c \in Calls : Connect(c) \/ Disconnect(c)
  BY <1>1, <1>6 DEF InFlight, TypeOK
<1>7. CASE MainTake \/ MainStopped \/ MainExit
  BY <1>2, <1>7 DEF InFlight, TypeOK
<1> QED
  BY <1>3, <1>4, <1>5, <1>6, <1>7 DEF Next, Shutdown, InFlight

LEMMA AloneStep ==
  ASSUME Serial, TypeOK, Alone, [Next]_vars
  PROVE  Alone'
<1> USE ServiceAssumption DEF Actors
<1>1. ASSUME NEW c \in Calls, Arrive(c) PROVE Alone'
  <2>1. /\ \A d \in Calls : ~InFlight(d)
        /\ pc[Main] = "serve"
        /\ \E label \in {"enter", "halt"} : pc' = [pc EXCEPT ![c] = label]
    BY <1>1 DEF Serial, Arrive, Settled, At, Goto
  <2> QED
    BY <2>1 DEF Alone, InFlight, TypeOK
<1>2. CASE MainQuit
  <2>1. (\A d \in Calls : ~InFlight(d)) /\ pc' = [pc EXCEPT ![Main] = "quit"]
    BY <1>2 DEF Serial, MainQuit, Settled, At, Goto
  <2> QED
    BY <2>1 DEF Alone, InFlight, TypeOK
<1>3. CASE /\ \A d \in Calls : InFlight(d)' => InFlight(d)
           /\ pc[Main] = "serve" => pc'[Main] = "serve"
  BY <1>3 DEF Alone
<1> QED
  BY <1>1, <1>2, <1>3, WhoMoves

------------------------------------------------------------------------------
(* Where nobody holds a handle no watcher is at work. *)
LEMMA NobodyAtWork ==
  ASSUME Attended, slot = None, SupervisorFree, \A c \in Calls : pc[c] # "store"
  PROVE  \A s \in Calls : ~Busy(s)
BY ServiceAssumption DEF Attended, HandleHeld, SupervisorFree

(* stop() returns to its actor when the only watcher at work is done. *)
LEMMA StoppedAtWork ==
  ASSUME Serial, TypeOK, SingleInv, AccountInv, Alone, Attended,
         NEW a \in Actors, stopping[a] # None, StopOver(a)
  PROVE  \A s \in Calls : ~Busy(s)
<1> SUFFICES ASSUME NEW s \in Calls, Busy(s) PROVE FALSE
  OBVIOUS
<1>1. watcher[stopping[a]] = "done" /\ stopping[a] \in Calls
  BY DEF Serial, StopOver, TypeOK
<1>2. slot = None /\ \A b \in Actors : stopping[b] # None => b = a
  BY DEF SingleInv
<1>3. stopping[a] # s
  BY <1>1 DEF Busy
<1>4. pc[s] = "store"
  BY <1>2, <1>3, ServiceAssumption DEF Attended, HandleHeld, TypeOK
<1>5. InFlight(s)
  BY <1>4 DEF InFlight
<1>6. CASE a = Main
  BY <1>5, <1>6 DEF Alone, AccountInv, Requested
<1>7. CASE a \in Calls
  <2>1. pc[a] \in {"replacing", "ending"}
    BY <1>7 DEF AccountInv, Requested
  <2> QED
    BY <1>4, <1>5, <1>7, <2>1 DEF Alone, InFlight
<1> QED
  BY <1>6, <1>7 DEF Actors

(* The steps of a watcher at work, and of those that leave it alone. *)
LEMMA AttendedKeeps ==
  ASSUME Attended, UNCHANGED <<slot, stopping, pc>>,
         \A s \in Calls : Busy(s)' => Busy(s)
  PROVE  Attended'
BY DEF Attended, HandleHeld

LEMMA AttendedStep ==
  ASSUME Serial, TypeOK, StopInv, SingleInv, AccountInv, Alone, Attended, [Next]_vars
  PROVE  Attended'
<1> USE ServiceAssumption DEF Actors
<1>1. CASE UNCHANGED vars
  BY <1>1, AttendedKeeps DEF vars, calls, watch, Busy
<1>2. ASSUME NEW c \in Calls, Arrive(c) PROVE Attended'
  BY <1>2 DEF Arrive, At, Goto, watch, Attended, Busy, HandleHeld, TypeOK
<1>3. ASSUME NEW c \in Calls, Connect(c) PROVE Attended'
  <2>0. \A d \in Calls : InFlight(d) => d = c \/ ~InFlight(c)
    BY DEF Alone
  <2>1. CASE ConnectEnter(c)
    BY <2>1 DEF ConnectEnter, At, Goto, watch, Attended, Busy, HandleHeld, TypeOK
  <2>2. CASE ConnectReplace(c)
    <3>1. pc[c] = "replace" /\ \A d \in Calls : pc[d] # "store"
      BY <2>0, <2>2 DEF ConnectReplace, At, InFlight
    <3>2. CASE slot = None
      <4>1. \A s \in Calls : ~Busy(s)
        BY <2>2, <3>1, <3>2, NobodyAtWork DEF ConnectReplace, Take
      <4> QED
        BY <4>1, <2>2, <3>2 DEF ConnectReplace, Take, Goto, watch, Attended, Busy, TypeOK
    <3>3. CASE slot # None
      BY <2>2, <3>1, <3>3
      DEF ConnectReplace, Take, SupervisorFree, Goto, watch, Attended, Busy, HandleHeld, TypeOK
    <3> QED
      BY <3>2, <3>3
  <2>3. CASE ConnectReplaced(c)
    <3>1. \A s \in Calls : ~Busy(s)
      BY <2>3, StoppedAtWork DEF ConnectReplaced, At, SingleInv
    <3> QED
      BY <2>3, <3>1 DEF ConnectReplaced, Release, Goto, watch, Attended, Busy, TypeOK
  <2>4. CASE ConnectArm(c)
    BY <2>4 DEF ConnectArm, At, Goto, watch, Attended, Busy, HandleHeld, TypeOK
  <2>5. CASE ConnectSpawn(c)
    <3>1. \A s \in Calls : ~Busy(s)
      BY <2>5 DEF ConnectSpawn, At, Attended
    <3>2. \A s \in Calls : Busy(s)' => s = c
      BY <2>5, <3>1 DEF ConnectSpawn, Busy, TypeOK
    <3>3. pc' = [pc EXCEPT ![c] = "store"] /\ pc[c] = "spawn"
      BY <2>5 DEF ConnectSpawn, At, Goto
    <3>4. \A d \in Calls : pc'[d] \notin {"arm", "spawn", "settle", "ending"}
      BY <2>0, <3>3 DEF InFlight, TypeOK
    <3>5. pc'[Main] = "serve"
      BY <3>3 DEF Alone, InFlight, TypeOK
    <3> QED
      BY <3>2, <3>3, <3>4, <3>5 DEF Attended, HandleHeld, TypeOK
  <2>6. CASE ConnectAbort(c)
    <3>1. \A s \in Calls : ~Busy(s)
      BY <2>6 DEF ConnectAbort, At, Attended
    <3> QED
      BY <2>6, <3>1 DEF ConnectAbort, Goto, watch, Attended, Busy, TypeOK
  <2>7. CASE ConnectStore(c)
    <3>1. /\ pc[c] = "store" /\ slot = None /\ \A a \in Actors : stopping[a] = None
          /\ UNCHANGED <<watcher, stopping>>
          /\ slot' = c /\ pc' = [pc EXCEPT ![c] = "done"]
      BY <2>7 DEF ConnectStore, At, Goto, SupervisorFree, SingleInv, watch
    <3>2. \A s \in Calls : Busy(s) => s = c
      BY <2>0, <3>1 DEF Attended, HandleHeld, InFlight
    <3> QED
      BY <3>1, <3>2 DEF Attended, HandleHeld, Busy, TypeOK
  <2> QED
    BY <1>3, <2>1, <2>2, <2>3, <2>4, <2>5, <2>6, <2>7 DEF Connect
<1>4. ASSUME NEW c \in Calls, Disconnect(c) PROVE Attended'
  <2>0. \A d \in Calls : InFlight(d) => d = c \/ ~InFlight(c)
    BY DEF Alone
  <2>1. CASE DisconnectHalt(c)
    BY <2>1 DEF DisconnectHalt, At, Goto, watch, Attended, Busy, HandleHeld, TypeOK
  <2>2. CASE DisconnectTake(c)
    <3>1. pc[c] = "end" /\ \A d \in Calls : pc[d] # "store"
      BY <2>0, <2>2 DEF DisconnectTake, At, InFlight
    <3>2. CASE slot = None
      <4>1. \A s \in Calls : ~Busy(s)
        BY <2>2, <3>1, <3>2, NobodyAtWork DEF DisconnectTake, Take
      <4> QED
        BY <4>1, <2>2, <3>2 DEF DisconnectTake, Take, Goto, watch, Attended, Busy, TypeOK
    <3>3. CASE slot # None
      BY <2>2, <3>1, <3>3
      DEF DisconnectTake, Take, SupervisorFree, Goto, watch, Attended, Busy, HandleHeld, TypeOK
    <3> QED
      BY <3>2, <3>3
  <2>3. CASE DisconnectStopped(c)
    <3>1. \A s \in Calls : ~Busy(s)
      BY <2>3, StoppedAtWork DEF DisconnectStopped, At, Attended
    <3> QED
      BY <2>3, <3>1 DEF DisconnectStopped, Release, Goto, watch, Attended, Busy, TypeOK
  <2>4. CASE DisconnectSettle(c)
    BY <2>4 DEF DisconnectSettle, At, Goto, watch, Attended, Busy, HandleHeld, TypeOK
  <2> QED
    BY <1>4, <2>1, <2>2, <2>3, <2>4 DEF Disconnect
<1>5. CASE Shutdown
  <2>1. CASE MainQuit
    BY <2>1 DEF MainQuit, At, Goto, watch, Attended, Busy, HandleHeld, TypeOK
  <2>2. CASE MainTake
    <3>1. pc[Main] = "quit" /\ \A d \in Calls : pc[d] # "store"
      BY <2>2 DEF MainTake, At, Alone, InFlight
    <3>2. CASE slot = None
      <4>1. \A s \in Calls : ~Busy(s)
        BY <2>2, <3>1, <3>2, NobodyAtWork DEF MainTake, Take
      <4> QED
        BY <4>1, <2>2, <3>2 DEF MainTake, Take, Goto, watch, Attended, Busy, TypeOK
    <3>3. CASE slot # None
      BY <2>2, <3>1, <3>3
      DEF MainTake, Take, SupervisorFree, Goto, watch, Attended, Busy, HandleHeld, TypeOK
    <3> QED
      BY <3>2, <3>3
  <2>3. CASE MainStopped
    <3>1. \A s \in Calls : ~Busy(s)
      BY <2>3, StoppedAtWork DEF MainStopped, At, Attended
    <3> QED
      BY <2>3, <3>1 DEF MainStopped, Release, Goto, watch, Attended, Busy, TypeOK
  <2>4. CASE MainExit
    <3>1. \A s \in Calls : ~Busy(s)
      BY <2>4 DEF MainExit, At, Attended
    <3> QED
      BY <2>4, <3>1 DEF MainExit, At, Goto, Attended, Busy, TypeOK
  <2> QED
    BY <1>5, <2>1, <2>2, <2>3, <2>4 DEF Shutdown
<1>6. ASSUME NEW s \in Calls, WatcherStep(s) \/ WatcherPrompted(s) \/ ChildExit(s)
      PROVE  Attended'
  <2>1. UNCHANGED <<slot, stopping, pc>>
    BY <1>6 DEF WatcherStep, WatcherPrompted, ChildExit, WatcherTerm, WatcherReap,
      WatcherExit, WatcherClean, WatcherClassify, WatcherGiveUp, WatcherRelaunch,
      WatcherFail, calls
  <2>2. \A t \in Calls : Busy(t)' => Busy(t)
    BY <1>6 DEF WatcherStep, WatcherPrompted, ChildExit, WatcherTerm, WatcherReap,
      WatcherExit, WatcherClean, WatcherClassify, WatcherGiveUp, WatcherRelaunch,
      WatcherFail, Watcher, Busy, TypeOK
  <2> QED
    BY <2>1, <2>2, AttendedKeeps
<1>7. ASSUME NEW s \in Calls, NEW n \in 0 .. MaxRetries, IpUp(s, n) \/ Handle(s, n)
      PROVE  Attended'
  <2>1. UNCHANGED <<slot, stopping, pc, watcher>>
    BY <1>7 DEF IpUp, Handle, IpUpAddress, SetConfigBegin, SetConfigEnd, SetIp4Config,
      calls, watch
  <2> QED
    BY <2>1, AttendedKeeps DEF Busy
<1> QED
  BY <1>1, <1>2, <1>3, <1>4, <1>5, <1>6, <1>7 DEF Next

------------------------------------------------------------------------------
(* A service that is active without a watcher at work has a call to thank  *)
(* for it.                                                                 *)
LEMMA InactiveAtArm ==
  ASSUME TypeOK, AccountInv, Alone, Attended, Truthful, NEW c \in Calls, pc[c] = "arm"
  PROVE  svc = "Stopped"
<1>1. pc[Main] = "serve" /\ \A d \in Calls : InFlight(d) => d = c
  BY DEF Alone, InFlight
<1>2. ~\E d \in Calls : Owing(d)
  BY <1>1 DEF Owing, InFlight
<1>3. ~Active(svc)
  BY <1>1, <1>2 DEF AccountInv, Claimed, Attended
<1> QED
  BY <1>3 DEF Active, Truthful

(* A crosswire that runs has the only watcher at work. *)
LEMMA LiveAtWork ==
  ASSUME StopInv, Attended, NEW s \in Calls, Live(s)
  PROVE  /\ watcher[s] \in {"run", "term"}
         /\ \A t \in Calls : Busy(t) => t = s
         /\ \A t \in Calls : Live(t) => t = s
BY DEF StopInv, Attended, Busy

(* A report is handled while the crosswire that sent it runs. *)
LEMMA ReportAtWork ==
  ASSUME AccountInv, ~Exited, NEW s \in Calls, NEW n \in 0 .. MaxRetries,
         ip4[<<s, n>>] = "queued"
  PROVE  Live(s) /\ retries[s] = n
BY DEF AccountInv, Reported, ReportWhole

(* A step that leaves the state, the watchers and the reports alone. *)
LEMMA TruthfulKeeps ==
  ASSUME Truthful, UNCHANGED <<svc, watch, ip4>>,
         \A c \in Calls : pc'[c] = "spawn" => pc[c] = "spawn"
  PROVE  Truthful'
BY DEF Truthful, Busy, watch

LEMMA TruthfulStep ==
  ASSUME Serial, TypeOK, StopInv, SingleInv, AccountInv, Alone, Attended, Truthful,
         [Next]_vars
  PROVE  Truthful'
<1> USE ServiceAssumption DEF Actors
<1>1. CASE UNCHANGED vars
  BY <1>1, TruthfulKeeps DEF vars, calls, reports
<1>2. ASSUME NEW c \in Calls, Arrive(c) PROVE Truthful'
  BY <1>2, TruthfulKeeps DEF Arrive, Goto, reports, TypeOK
<1>3. ASSUME NEW c \in Calls, Connect(c) PROVE Truthful'
  <2>1. CASE ConnectEnter(c)
    BY <2>1, TruthfulKeeps DEF ConnectEnter, Goto, reports, TypeOK
  <2>2. CASE ConnectReplace(c)
    BY <2>2, TruthfulKeeps DEF ConnectReplace, Take, Goto, reports, TypeOK
  <2>3. CASE ConnectReplaced(c)
    <3>1. \A s \in Calls : ~Busy(s)
      BY <2>3, StoppedAtWork DEF ConnectReplaced, At, SingleInv
    <3>2. \A d \in Calls : pc'[d] # "spawn"
      BY <2>3 DEF ConnectReplaced, At, Goto, Alone, InFlight, TypeOK
    <3> QED
      BY <2>3, <3>1, <3>2 DEF ConnectReplaced, To, Legal, watch, Truthful, Busy
  <2>4. CASE ConnectArm(c)
    <3>1. svc' = "Starting" /\ \A s \in Calls : ~Busy(s)
      BY <2>4, InactiveAtArm DEF ConnectArm, At, To, Legal, Attended
    <3> QED
      BY <2>4, <3>1 DEF ConnectArm, watch, Truthful, Busy
  <2>5. CASE ConnectSpawn(c)
    <3>1. svc = "Starting" /\ svc' = svc
      BY <2>5 DEF ConnectSpawn, At, Truthful
    <3> QED
      BY <3>1 DEF Truthful
  <2>6. CASE ConnectAbort(c)
    <3>1. \A s \in Calls : ~Busy(s)
      BY <2>6 DEF ConnectAbort, At, Attended
    <3>2. \A d \in Calls : pc'[d] # "spawn"
      BY <2>6 DEF ConnectAbort, At, Goto, Alone, InFlight, TypeOK
    <3> QED
      BY <2>6, <3>1, <3>2 DEF ConnectAbort, Failed, watch, Truthful, Busy
  <2>7. CASE ConnectStore(c)
    BY <2>7, TruthfulKeeps DEF ConnectStore, Goto, reports, TypeOK
  <2> QED
    BY <1>3, <2>1, <2>2, <2>3, <2>4, <2>5, <2>6, <2>7 DEF Connect
<1>4. ASSUME NEW c \in Calls, Disconnect(c) PROVE Truthful'
  <2>1. CASE DisconnectHalt(c)
    <3>1. \A d \in Calls : pc'[d] # "spawn"
      BY <2>1 DEF DisconnectHalt, At, Goto, Alone, InFlight, TypeOK
    <3>2. svc' = svc \/ svc' = "Stopping"
      BY <2>1 DEF DisconnectHalt, To
    <3> QED
      BY <2>1, <3>1, <3>2 DEF DisconnectHalt, watch, reports, Truthful, Busy
  <2>2. CASE DisconnectTake(c)
    BY <2>2, TruthfulKeeps DEF DisconnectTake, Take, Goto, reports, TypeOK
  <2>3. CASE DisconnectStopped(c)
    BY <2>3, TruthfulKeeps DEF DisconnectStopped, Goto, reports, TypeOK
  <2>4. CASE DisconnectSettle(c)
    <3>1. \A s \in Calls : ~Busy(s)
      BY <2>4 DEF DisconnectSettle, At, Attended
    <3>2. \A d \in Calls : pc'[d] # "spawn"
      BY <2>4 DEF DisconnectSettle, At, Goto, Alone, InFlight, TypeOK
    <3> QED
      BY <2>4, <3>1, <3>2 DEF DisconnectSettle, To, Legal, watch, Truthful, Busy
  <2> QED
    BY <1>4, <2>1, <2>2, <2>3, <2>4 DEF Disconnect
<1>5. CASE Shutdown
  <2>1. CASE MainQuit
    BY <2>1, TruthfulKeeps DEF MainQuit, Goto, reports, TypeOK
  <2>2. CASE MainTake
    BY <2>2, TruthfulKeeps DEF MainTake, Take, Goto, reports, TypeOK
  <2>3. CASE MainStopped
    BY <2>3, TruthfulKeeps DEF MainStopped, Goto, reports, TypeOK
  <2>4. CASE MainExit
    BY <2>4 DEF MainExit, Goto, reports, Truthful, Busy, TypeOK
  <2> QED
    BY <1>5, <2>1, <2>2, <2>3, <2>4 DEF Shutdown
<1>6. ASSUME NEW s \in Calls, WatcherStep(s) \/ WatcherPrompted(s) PROVE Truthful'
  <2>0. \A c \in Calls : pc[c] = "spawn" => ~Busy(s)
    BY DEF Attended
  <2>1. CASE WatcherTerm(s) \/ WatcherReap(s) \/ WatcherExit(s) \/ WatcherGiveUp(s)
             \/ WatcherPrompted(s)
    BY <2>1 DEF WatcherTerm, WatcherReap, WatcherExit, WatcherGiveUp, WatcherPrompted,
      Watcher, calls, reports, Truthful, Busy, TypeOK
  <2>2. CASE WatcherRelaunch(s)
    BY <2>2 DEF WatcherRelaunch, Watcher, calls, reports, Truthful, Busy, TypeOK
  <2>3. CASE WatcherClean(s) \/ WatcherFail(s)
    <3>1. \A t \in Calls : ~Busy(t)'
      BY <2>3 DEF WatcherClean, WatcherFail, Watcher, Attended, Busy, TypeOK
    <3>2. svc' = svc \/ svc' = "Stopped"
      BY <2>3 DEF WatcherClean, WatcherFail, To, Failed
    <3>3. \A c \in Calls : pc'[c] # "spawn"
      BY <2>0, <2>3 DEF WatcherClean, WatcherFail, Watcher, calls, Busy
    <3> QED
      BY <3>1, <3>2, <3>3 DEF Truthful, Busy
  <2>4. CASE WatcherClassify(s)
    <3>1. /\ UNCHANGED <<svc, pc, ip4>> /\ watcher[s] = "drain"
          /\ \A t \in Calls \ {s} : watcher'[t] = watcher[t] /\ retries'[t] = retries[t]
      BY <2>4 DEF WatcherClassify, Watcher, calls, reports, TypeOK
    <3>2. \/ watcher'[s] \in {"backoff", "prompt"} /\ svc = "Starting"
          \/ watcher'[s] = "failing" /\ retries'[s] = retries[s]
      BY <2>4 DEF WatcherClassify, ClassifyExit, Watcher, TypeOK
    <3> QED
      BY <3>1, <3>2 DEF Truthful, Busy
  <2> QED
    BY <1>6, <2>1, <2>2, <2>3, <2>4 DEF WatcherStep
<1>7. ASSUME NEW s \in Calls, ChildExit(s) PROVE Truthful'
  BY <1>7 DEF ChildExit, calls, reports, Truthful, Busy
<1>8. ASSUME NEW s \in Calls, NEW n \in 0 .. MaxRetries, IpUp(s, n) \/ Handle(s, n), ~Exited
      PROVE  Truthful'
  <2>1. CASE SetIp4Config(s, n)
    <3>1. Live(s) /\ retries[s] = n
      BY <1>8, <2>1, ReportAtWork DEF SetIp4Config
    <3>2. watcher[s] \in {"run", "term"} /\ \A t \in Calls : Busy(t) => t = s
      BY <3>1, LiveAtWork
    <3>3. \A c \in Calls : pc[c] # "spawn"
      BY <3>2 DEF Attended, Busy
    <3>4. UNCHANGED <<watcher, retries, pc>> /\ ip4'[<<s, n>>] = "done"
      BY <2>1 DEF SetIp4Config, calls, watch, TypeOK, Runs
    <3>5. svc' = svc \/ svc' = "Started"
      BY <2>1 DEF SetIp4Config, To
    <3> QED
      BY <3>1, <3>2, <3>3, <3>4, <3>5 DEF Truthful, Busy
  <2>2. CASE IpUpAddress(s, n)
    BY <2>2 DEF IpUpAddress, calls, watch, Truthful, Busy, TypeOK, Runs
  <2>3. CASE IpUp(s, n) \/ SetConfigBegin(s, n) \/ SetConfigEnd(s, n)
    BY <2>3, TruthfulKeeps DEF IpUp, SetConfigBegin, SetConfigEnd, calls
  <2> QED
    BY <1>8, <2>1, <2>2, <2>3 DEF Handle
<1> QED
  BY <1>1, <1>2, <1>3, <1>4, <1>5, <1>6, <1>7, <1>8 DEF Next

LEMMA SerialInvariant ==
  ASSUME Serial
  PROVE  Spec => [](TypeOK /\ StopInv /\ SingleInv /\ AccountInv /\ SerialInv)
<1>1. Overlap # "any" /\ ~LateReports
  BY DEF Serial
<1>2. Init => SerialInv
  BY ServiceAssumption DEF Init, SerialInv, Alone, Attended, Truthful, InFlight, Busy, Actors
<1>3. TypeOK /\ StopInv /\ SingleInv /\ AccountInv /\ SerialInv /\ [Next]_vars => SerialInv'
  BY AloneStep, AttendedStep, TruthfulStep DEF SerialInv
<1> QED
  BY <1>1, <1>2, <1>3, AccountInvariant, PTL DEF Spec

------------------------------------------------------------------------------
(* "Connected" is the truth when no call is in flight: the session in the  *)
(* slot has reported its address in its present launch, and its watcher is *)
(* at work (state.rs: emissions track the real tunnel state).              *)
THEOREM StartedTrue ==
  ASSUME Serial
  PROVE  Spec => []StartedIsTrue
<1>1. TypeOK /\ SingleInv /\ AccountInv /\ SerialInv => StartedIsTrue
  <2> SUFFICES ASSUME TypeOK, SingleInv, AccountInv, SerialInv,
                      svc = "Started", Settled, At(Main, "serve")
               PROVE  \E s \in Calls :
                        /\ slot = s
                        /\ ip4[<<s, retries[s]>>] = "done"
                        /\ watcher[s] \in {"run", "clean", "drain", "failing"}
    BY DEF StartedIsTrue
  <2>1. \A c \in Calls : pc[c] \in {"idle", "done"}
    BY DEF Settled, InFlight
  <2>2. PICK s \in Calls : Busy(s)
    BY <2>1 DEF AccountInv, Claimed, Owing, Active, At
  <2>3. \A a \in Actors : stopping[a] = None
    BY <2>1 DEF AccountInv, Requested, Actors, At
  <2>4. slot = s
    BY <2>1, <2>2, <2>3, ServiceAssumption DEF SerialInv, Attended, HandleHeld
  <2>5. watcher[s] # "term"
    BY <2>2, <2>4, ServiceAssumption DEF AccountInv, Requested
  <2>6. watcher[s] \in {"run", "clean", "drain", "failing"}
    BY <2>2, <2>5 DEF SerialInv, Truthful, Busy, TypeOK
  <2> QED
    BY <2>2, <2>4, <2>6 DEF SerialInv, Truthful
<1> QED
  BY <1>1, SerialInvariant, PTL

(* A shutdown with no call in flight ends every crosswire by SIGTERM, and  *)
(* kill_on_drop finds nothing to kill (main after its select).             *)
KilledInv == \A s \in Calls : child[s] # "killed"

THEOREM ExitTornDown ==
  ASSUME Serial
  PROVE  Spec => []ExitTearsDown
<1>1. Init => KilledInv
  BY DEF Init, KilledInv
<1>2. TypeOK /\ StopInv /\ SerialInv /\ KilledInv /\ [Next]_vars => KilledInv'
  <2> SUFFICES ASSUME TypeOK, StopInv, SerialInv, KilledInv, [Next]_vars PROVE KilledInv'
    OBVIOUS
  <2>1. CASE UNCHANGED child
    BY <2>1 DEF KilledInv
  <2>2. CASE MainExit
    <3>1. \A s \in Calls : ~Live(s)
      BY <2>2 DEF MainExit, At, SerialInv, Attended, StopInv, Busy
    <3> QED
      BY <2>2, <3>1 DEF MainExit, KilledInv
  <2>3. ASSUME NEW s \in Calls,
               \E end \in {"alive", "stopped", "ok", "failed", "cert"} :
                 child' = [child EXCEPT ![s] = end]
        PROVE  KilledInv'
    BY <2>3 DEF KilledInv, TypeOK
  <2>4. ASSUME NEW c \in Calls, Connect(c) \/ Disconnect(c) \/ Arrive(c) PROVE KilledInv'
    <3>1. CASE ConnectSpawn(c)
      BY <2>3, <3>1 DEF ConnectSpawn
    <3>2. CASE ~ConnectSpawn(c)
      BY <2>1, <2>4, <3>2 DEF Connect, ConnectEnter, ConnectReplace, ConnectReplaced,
        ConnectArm, ConnectAbort, ConnectStore, Disconnect, DisconnectHalt,
        DisconnectTake, DisconnectStopped, DisconnectSettle, Arrive, watch
    <3> QED
      BY <3>1, <3>2
  <2>5. CASE MainQuit \/ MainTake \/ MainStopped
    BY <2>1, <2>5 DEF MainQuit, MainTake, MainStopped, watch
  <2>6. ASSUME NEW s \in Calls, WatcherStep(s) \/ WatcherPrompted(s) \/ ChildExit(s)
        PROVE  KilledInv'
    <3>1. CASE WatcherReap(s)
      BY <3>1 DEF WatcherReap, KilledInv, TypeOK
    <3>2. CASE WatcherRelaunch(s)
      BY <2>1, <2>3, <3>2 DEF WatcherRelaunch
    <3>3. CASE ChildExit(s)
      BY <2>3, <3>3 DEF ChildExit
    <3>4. CASE WatcherTerm(s) \/ WatcherExit(s) \/ WatcherClean(s) \/ WatcherClassify(s)
               \/ WatcherGiveUp(s) \/ WatcherFail(s) \/ WatcherPrompted(s)
      BY <2>1, <3>4 DEF WatcherTerm, WatcherExit, WatcherClean, WatcherClassify,
        WatcherGiveUp, WatcherFail, WatcherPrompted
    <3> QED
      BY <2>6, <3>1, <3>2, <3>3, <3>4 DEF WatcherStep
  <2>7. ASSUME NEW s \in Calls, NEW n \in 0 .. MaxRetries, IpUp(s, n) \/ Handle(s, n)
        PROVE  KilledInv'
    BY <2>1, <2>7 DEF IpUp, Handle, IpUpAddress, SetConfigBegin, SetConfigEnd,
      SetIp4Config, watch
  <2>8. CASE UNCHANGED vars
    BY <2>1, <2>8 DEF vars, watch
  <2> QED
    BY <2>2, <2>4, <2>5, <2>6, <2>7, <2>8 DEF Next, Shutdown
<1>3. KilledInv => ExitTearsDown
  BY DEF KilledInv, ExitTearsDown
<1> QED
  BY <1>1, <1>2, <1>3, SerialInvariant, PTL DEF Spec

(* A watcher that ends the connection ends its own: there is no other at   *)
(* work (State::fail, the watcher of Supervisor::start).                   *)
THEOREM FailureOwn ==
  ASSUME Serial
  PROVE  Spec => FailureIsOwn
<1>1. SerialInv /\ TypeOK =>
        \A s \in Calls : watcher[s] \in {"failing", "clean"} =>
          \A t \in Calls \ {s} : watcher[t] \in {"none", "done"}
  BY DEF SerialInv, Attended, Busy
<1>2. SerialInv /\ TypeOK /\ [Next]_vars =>
        [\A s \in Calls :
           /\ watcher[s] \in {"failing", "clean"} /\ watcher'[s] = "done"
           /\ svc' # svc
           => \A t \in Calls \ {s} : watcher[t] \in {"none", "done"}]_vars
  BY <1>1
<1> QED
  BY <1>2, SerialInvariant, PTL DEF Spec, FailureIsOwn

------------------------------------------------------------------------------
Tunnels == {s \in Calls : Live(s)}

(* Where no watcher is at work, or only one that has reaped its crosswire, *)
(* nothing runs.                                                           *)
LEMMA NothingRuns ==
  ASSUME StopInv, Attended,
         \/ \A s \in Calls : ~Busy(s)
         \/ \E s \in Calls : Busy(s) /\ watcher[s] \notin {"run", "term"}
  PROVE  Tunnels = {}
BY DEF StopInv, Attended, Busy, Tunnels

(* A step that settles an idle connection, or finds it settled. *)
LEMMA SettleMaps ==
  ASSUME TypeOK, Truthful, Tunnels = {}, UNCHANGED child,
         svc' \in {svc, "Stopped"}
  PROVE  Abstract!Settle \/ UNCHANGED <<svc, Tunnels>>
BY DEF Abstract!Settle, Tunnels, Live

(* Every step of the service is one of Lifecycle, or none. *)
LEMMA StepMaps ==
  ASSUME Serial, TypeOK, StopInv, SingleInv, AccountInv, SerialInv, [Next]_vars
  PROVE  Abstract!Next \/ UNCHANGED <<svc, Tunnels>>
<1> USE ServiceAssumption DEF Actors, SerialInv
<1>1. CASE UNCHANGED <<svc, child>>
  BY <1>1 DEF Tunnels, Live
<1>2. ASSUME NEW c \in Calls, Connect(c) \/ Disconnect(c) \/ Arrive(c)
      PROVE  Abstract!Next \/ UNCHANGED <<svc, Tunnels>>
  <2>1. CASE ConnectReplaced(c)
    <3>1. \A s \in Calls : ~Busy(s)
      BY <2>1, StoppedAtWork DEF ConnectReplaced, At, SingleInv
    <3>2. svc' \in {svc, "Stopped"} /\ UNCHANGED child
      BY <2>1 DEF ConnectReplaced, To, watch
    <3> QED
      BY <3>1, <3>2, NothingRuns, SettleMaps DEF Abstract!Next
  <2>2. CASE ConnectArm(c)
    <3>1. svc = "Stopped" /\ \A s \in Calls : ~Busy(s)
      BY <2>2, InactiveAtArm DEF ConnectArm, At, Attended
    <3>2. svc' = "Starting" /\ UNCHANGED child
      BY <2>2, <3>1 DEF ConnectArm, To, Legal, watch
    <3> QED
      BY <3>1, <3>2, NothingRuns DEF Abstract!Next, Abstract!Begin, Tunnels, Live
  <2>3. CASE ConnectSpawn(c)
    <3>1. svc = "Starting" /\ \A s \in Calls : ~Busy(s)
      BY <2>3 DEF ConnectSpawn, At, Attended, Truthful
    <3>2. svc' = svc /\ child' = [child EXCEPT ![c] = "alive"]
      BY <2>3 DEF ConnectSpawn
    <3>3. Tunnels = {} /\ Tunnels' = {c}
      BY <3>1, <3>2, NothingRuns DEF Tunnels, Live, TypeOK
    <3> QED
      BY <3>1, <3>2, <3>3 DEF Abstract!Next, Abstract!Launch, Tunnels
  <2>4. CASE ConnectAbort(c)
    <3>1. \A s \in Calls : ~Busy(s)
      BY <2>4 DEF ConnectAbort, At, Attended
    <3>2. svc' \in {svc, "Stopped"} /\ UNCHANGED child
      BY <2>4 DEF ConnectAbort, Failed, watch
    <3> QED
      BY <3>1, <3>2, NothingRuns, SettleMaps DEF Abstract!Next
  <2>5. CASE DisconnectHalt(c)
    <3>1. UNCHANGED child /\ (svc' = svc \/ (svc' = "Stopping" /\ svc # "Stopped"))
      BY <2>5 DEF DisconnectHalt, To, Legal, watch
    <3> QED
      BY <3>1 DEF Abstract!Next, Abstract!Halt, Truthful, Tunnels, Live
  <2>6. CASE DisconnectSettle(c)
    <3>1. \A s \in Calls : ~Busy(s)
      BY <2>6 DEF DisconnectSettle, At, Attended
    <3>2. svc' \in {svc, "Stopped"} /\ UNCHANGED child
      BY <2>6 DEF DisconnectSettle, To, watch
    <3> QED
      BY <3>1, <3>2, NothingRuns, SettleMaps DEF Abstract!Next
  <2>7. CASE \/ ConnectEnter(c) \/ ConnectReplace(c) \/ ConnectStore(c)
             \/ DisconnectTake(c) \/ DisconnectStopped(c) \/ Arrive(c)
    BY <1>1, <2>7 DEF ConnectEnter, ConnectReplace, ConnectStore, DisconnectTake,
      DisconnectStopped, Arrive, watch
  <2> QED
    BY <1>2, <2>1, <2>2, <2>3, <2>4, <2>5, <2>6, <2>7 DEF Connect, Disconnect
<1>3. CASE Shutdown
  <2>1. CASE MainExit
    <3>1. \A s \in Calls : ~Live(s)
      BY <2>1 DEF MainExit, At, Attended, StopInv, Busy
    <3>2. \A s \in Calls : ~Live(s)'
      BY <2>1, <3>1 DEF MainExit, Live
    <3> QED
      BY <2>1, <3>1, <3>2 DEF MainExit, Tunnels
  <2>2. CASE MainQuit \/ MainTake \/ MainStopped
    BY <1>1, <2>2 DEF MainQuit, MainTake, MainStopped, watch
  <2> QED
    BY <1>3, <2>1, <2>2 DEF Shutdown
<1>4. ASSUME NEW s \in Calls, Live(s), NEW end \in {"stopped", "ok", "failed", "cert"},
             child' = [child EXCEPT ![s] = end], svc' = svc
      PROVE  Abstract!Next
  <2>1. Tunnels = {s} /\ Tunnels' = {}
    BY <1>4, LiveAtWork DEF Tunnels, Live, TypeOK
  <2> QED
    BY <1>4, <2>1 DEF Abstract!Next, Abstract!End, Tunnels
<1>5. ASSUME NEW s \in Calls, WatcherStep(s) \/ WatcherPrompted(s) \/ ChildExit(s)
      PROVE  Abstract!Next \/ UNCHANGED <<svc, Tunnels>>
  <2>1. CASE WatcherReap(s)
    <3>1. CASE Live(s)
      BY <1>4, <2>1, <3>1 DEF WatcherReap
    <3>2. CASE ~Live(s)
      BY <1>1, <2>1, <3>2 DEF WatcherReap, TypeOK
    <3> QED
      BY <3>1, <3>2
  <2>2. CASE ChildExit(s)
    BY <1>4, <2>2 DEF ChildExit
  <2>3. CASE WatcherRelaunch(s)
    <3>1. svc \in {"Starting", "Stopping"} /\ Busy(s) /\ watcher[s] = "backoff" /\ svc' = svc
      BY <2>3 DEF WatcherRelaunch, Watcher, Truthful, Busy
    <3>2. Tunnels = {}
      BY <3>1, NothingRuns
    <3>3. CASE child' = [child EXCEPT ![s] = "alive"]
      <4>1. Tunnels' = {s}
        BY <3>2, <3>3 DEF Tunnels, Live, TypeOK
      <4> QED
        BY <3>1, <3>2, <4>1 DEF Abstract!Next, Abstract!Launch, Tunnels
    <3> QED
      BY <1>1, <2>3, <3>3 DEF WatcherRelaunch
  <2>4. CASE WatcherClean(s) \/ WatcherFail(s)
    <3>1. Busy(s) /\ watcher[s] \notin {"run", "term"}
      BY <2>4 DEF WatcherClean, WatcherFail, Watcher, Busy
    <3>2. svc' \in {svc, "Stopped"} /\ UNCHANGED child
      BY <2>4 DEF WatcherClean, WatcherFail, To, Failed
    <3> QED
      BY <3>1, <3>2, NothingRuns, SettleMaps DEF Abstract!Next
  <2>5. CASE \/ WatcherTerm(s) \/ WatcherExit(s) \/ WatcherClassify(s)
             \/ WatcherGiveUp(s) \/ WatcherPrompted(s)
    BY <1>1, <2>5 DEF WatcherTerm, WatcherExit, WatcherClassify, WatcherGiveUp,
      WatcherPrompted
  <2> QED
    BY <1>5, <2>1, <2>2, <2>3, <2>4, <2>5 DEF WatcherStep
<1>6. ASSUME NEW s \in Calls, NEW n \in 0 .. MaxRetries, IpUp(s, n) \/ Handle(s, n),
             ~Exited
      PROVE  Abstract!Next \/ UNCHANGED <<svc, Tunnels>>
  <2>1. CASE SetIp4Config(s, n)
    <3>1. Live(s)
      BY <1>6, <2>1, ReportAtWork DEF SetIp4Config
    <3>2. UNCHANGED child /\ (svc' = svc \/ (svc = "Starting" /\ svc' = "Started"))
      BY <2>1 DEF SetIp4Config, To, Legal, watch, Truthful
    <3> QED
      BY <3>1, <3>2 DEF Abstract!Next, Abstract!Up, Tunnels, Live
  <2>2. CASE IpUp(s, n) \/ IpUpAddress(s, n) \/ SetConfigBegin(s, n) \/ SetConfigEnd(s, n)
    BY <1>1, <2>2 DEF IpUp, IpUpAddress, SetConfigBegin, SetConfigEnd, watch
  <2> QED
    BY <1>6, <2>1, <2>2 DEF Handle
<1> QED
  BY <1>1, <1>2, <1>3, <1>5, <1>6 DEF Next, vars, watch

(* The service implements Lifecycle: one connection whose state tells the  *)
(* truth about at most one crosswire (plugin.rs, state.rs, supervisor.rs). *)
THEOREM ImplementsLifecycle ==
  ASSUME Serial
  PROVE  Spec => Implements
<1>1. Init => Abstract!Init
  BY DEF Init, Abstract!Init, Live
<1>2. TypeOK /\ StopInv /\ SingleInv /\ AccountInv /\ SerialInv /\ [Next]_vars
        => [Abstract!Next]_<<svc, {s \in Calls : Live(s)}>>
  BY StepMaps DEF Tunnels
<1> QED
  BY <1>1, <1>2, SerialInvariant, PTL DEF Spec, Implements, Abstract!Spec
==============================================================================
