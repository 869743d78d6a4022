------------------------------- MODULE Service -------------------------------
(***************************************************************************)
(* nm-crosswire-service at run time: the D-Bus handlers of plugin.rs, the  *)
(* supervisor and its watcher tasks, the shutdown path of main.rs and the  *)
(* reports of the pppd plugin.                                             *)
(*                                                                         *)
(* zbus runs every method call in a task of its own and every handler      *)
(* takes &self, so handlers interleave at their await points: an action    *)
(* below is the code between two of them.  A session is named by the       *)
(* Connect call that launches it.                                          *)
(*                                                                         *)
(* The two tokio mutexes need no variable: the supervisor mutex is held    *)
(* exactly while some actor awaits stop() (the guard of                    *)
(* `if let Some(sup) = supervisor.lock().await.take()' lives to the end    *)
(* of the block), the gateway mutex exactly while a SetConfig resolves     *)
(* the host it read under it.                                              *)
(***************************************************************************)
EXTENDS ConnState, CertTrust

CONSTANTS
  Calls,        \* the D-Bus calls NetworkManager makes (bounds their number)
  Main,         \* the main task
  None,         \* no session, no gateway
  MaxRetries,   \* MAX_RETRIES of supervisor.rs
  Overlap,      \* what may run into a call in flight: "none", "disconnect"
                \* (a Disconnect or the quit signal) or "any" call
  SlowPrompt,   \* the certificate prompt may outlast the 10 s of stop()
  LateReports,  \* a pppd report may be handled after its crosswire is gone
  SlowCalls     \* SetConfig may outlast the plugin's D-Bus call timeout

ASSUME ServiceAssumption ==
  /\ None \notin Calls \cup {Main}
  /\ Main \notin Calls
  /\ MaxRetries \in Nat
  /\ Overlap \in {"none", "disconnect", "any"}
  /\ {SlowPrompt, LateReports, SlowCalls} \subseteq BOOLEAN

Actors == Calls \cup {Main}
Runs   == Calls \X (0 .. MaxRetries)     \* the launches of each session

VARIABLES
  svc,       \* Inner.state
  gateway,   \* Shared.gateway: the Connect call whose host it holds
  slot,      \* Shared.supervisor: the session whose handle is stored
  pc,        \* where each handler, and main, stands
  stopping,  \* the session whose stop() each actor awaits
  asked,     \* asked[s]: stop() has put its request on s's channel
  watcher,   \* where the watcher task of each session stands
  child,     \* the crosswire process of each session
  retries,   \* the watcher's retries counter
  cfg,       \* SetConfig of each run
  ip4        \* SetIp4Config of each run

calls   == <<pc, stopping, asked, slot, gateway>>
watch   == <<watcher, child, retries>>
reports == <<cfg, ip4>>
vars    == <<svc, calls, watch, reports>>

Label ==
  {"idle", "enter", "replace", "replacing", "arm", "spawn", "store",    \* Connect
   "halt", "end", "ending", "settle", "done",                          \* Disconnect
   "serve", "quit", "quitting", "exit", "exited"}                      \* main

TypeOK ==
  /\ svc \in ServiceState
  /\ gateway \in Calls \cup {None}
  /\ slot \in Calls \cup {None}
  /\ pc \in [Actors -> Label]
  /\ stopping \in [Actors -> Calls \cup {None}]
  /\ asked \in [Calls -> BOOLEAN]
  /\ watcher \in [Calls -> {"none", "run", "clean", "drain", "backoff",
                            "prompt", "failing", "term", "done"}]
  /\ child \in [Calls -> {"none", "alive", "ok", "failed", "cert",
                          "stopped", "killed"}]
  /\ retries \in [Calls -> 0 .. MaxRetries]
  /\ cfg \in [Runs -> {"none", "queued", "resolving", "done"}]
  /\ ip4 \in [Runs -> {"none", "queued", "done"}]

Init ==
  /\ svc = "Stopped"
  /\ gateway = None
  /\ slot = None
  /\ pc = [a \in Actors |-> IF a = Main THEN "serve" ELSE "idle"]
  /\ stopping = [a \in Actors |-> None]
  /\ asked = [s \in Calls |-> FALSE]
  /\ watcher = [s \in Calls |-> "none"]
  /\ child = [s \in Calls |-> "none"]
  /\ retries = [s \in Calls |-> 0]
  /\ cfg = [r \in Runs |-> "none"]
  /\ ip4 = [r \in Runs |-> "none"]

------------------------------------------------------------------------------
InFlight(c) == pc[c] \notin {"idle", "done"}
Connecting(c) ==
  pc[c] \in {"enter", "replace", "replacing", "arm", "spawn", "store"}
Settled     == \A c \in Calls : ~InFlight(c)
Exited      == pc[Main] = "exited"
Live(s)     == child[s] = "alive"

At(a, from)    == pc[a] = from
Goto(a, label) == pc' = [pc EXCEPT ![a] = label]

SupervisorFree == \A a \in Actors : stopping[a] = None
GatewayFree    == \A r \in Runs : cfg[r] # "resolving"

(* The handle of s is in the slot, in the hands of the Connect that is     *)
(* about to store it, or in those of an actor that stops it.               *)
HandleHeld(s) ==
  slot = s \/ pc[s] = "store" \/ \E a \in Actors : stopping[a] = s

(* Broken variant: the watcher does not notice a dropped handle. *)
StopReadyAskedOnly(s) == asked[s]

(* stop_rx.recv() is ready: a request is on the channel, or the only       *)
(* sender was dropped.                                                     *)
StopReady(s) == asked[s] \/ ~HandleHeld(s)

(* supervisor.lock().await.take(), and the request stop() sends at once.   *)
(* With nothing to take the lock is released and the actor goes to next.   *)
Take(a, waiting, next) ==
  /\ SupervisorFree
  /\ \/ /\ slot = None
        /\ Goto(a, next)
        /\ UNCHANGED <<slot, stopping, asked>>
     \/ /\ slot # None
        /\ Goto(a, waiting)
        /\ stopping' = [stopping EXCEPT ![a] = slot]
        /\ asked' = [asked EXCEPT ![slot] = TRUE]
        /\ slot' = None

(* Broken variants: stop() gives up during the teardown or the draining,   *)
(* or has no timeout.                                                      *)
StopOverTearing(a)  == watcher[stopping[a]] \in {"done", "term"}
StopOverDraining(a) == watcher[stopping[a]] \in {"done", "drain"}
StopOverForever(a)  == watcher[stopping[a]] = "done"

(* stop() returns: the watcher acked or is gone, or the 10 s ran out.  Only *)
(* the prompt can hold a watcher that long: teardown is bounded by 8 s and  *)
(* SIGKILL, draining by 6 s, and the backoff is cut short by the request.   *)
StopOver(a) ==
  \/ watcher[stopping[a]] = "done"
  \/ (SlowPrompt /\ watcher[stopping[a]] = "prompt")

Release(a) == stopping' = [stopping EXCEPT ![a] = None]

------------------------------------------------------------------------------
(* A call of Connect, ConnectInteractive, NewSecrets or Disconnect arrives. *)
Arrive(c) ==
  /\ At(c, "idle")
  /\ Overlap = "none" => Settled /\ At(Main, "serve")
  /\ \/ /\ Overlap = "disconnect" => \A d \in Calls : ~Connecting(d)
        /\ Goto(c, "enter")
     \/ Goto(c, "halt")
  /\ UNCHANGED <<svc, stopping, asked, slot, gateway, watch, reports>>

(* do_connect records the gateway the profile names, if any, then returns  *)
(* early on a missing secret.                                              *)
ConnectEnter(c) ==
  /\ At(c, "enter")
  /\ GatewayFree
  /\ gateway' \in {c, None}
  /\ \E label \in {"done", "replace"} : Goto(c, label)
  /\ UNCHANGED <<svc, stopping, asked, slot, watch, reports>>

ConnectReplace(c) ==
  /\ At(c, "replace")
  /\ Take(c, "replacing", "arm")
  /\ UNCHANGED <<svc, gateway, watch, reports>>

(* Broken variant: the old session's teardown is not awaited. *)
ConnectReplacedNoWait(c) ==
  /\ At(c, "replacing")
  /\ Release(c)
  /\ svc' = To(svc, "Stopped")
  /\ Goto(c, "arm")
  /\ UNCHANGED <<asked, slot, gateway, watch, reports>>

(* The old session is stopped; Stopped is set before the lock is released. *)
ConnectReplaced(c) ==
  /\ At(c, "replacing")
  /\ StopOver(c)
  /\ Release(c)
  /\ svc' = To(svc, "Stopped")
  /\ Goto(c, "arm")
  /\ UNCHANGED <<asked, slot, gateway, watch, reports>>

ConnectArm(c) ==
  /\ At(c, "arm")
  /\ svc' = To(svc, "Starting")
  /\ Goto(c, "spawn")
  /\ UNCHANGED <<stopping, asked, slot, gateway, watch, reports>>

(* Supervisor::start: the child and its watcher exist, the handle is not   *)
(* stored yet.                                                             *)
ConnectSpawn(c) ==
  /\ At(c, "spawn")
  /\ child' = [child EXCEPT ![c] = "alive"]
  /\ watcher' = [watcher EXCEPT ![c] = "run"]
  /\ Goto(c, "store")
  /\ UNCHANGED <<svc, stopping, asked, slot, gateway, retries, reports>>

(* Broken variant: a failed spawn is only replied, not reported. *)
ConnectAbortSilent(c) ==
  /\ At(c, "spawn")
  /\ Goto(c, "done")
  /\ UNCHANGED <<svc, stopping, asked, slot, gateway, watch, reports>>

(* The first spawn failed: Failure, and an error reply. *)
ConnectAbort(c) ==
  /\ At(c, "spawn")
  /\ svc' = Failed(svc)
  /\ Goto(c, "done")
  /\ UNCHANGED <<stopping, asked, slot, gateway, watch, reports>>

(* Broken variant: the handle is kept only if still Starting. *)
ConnectStoreIfStarting(c) ==
  /\ At(c, "store")
  /\ SupervisorFree
  /\ slot' = IF svc = "Starting" THEN c ELSE slot
  /\ Goto(c, "done")
  /\ UNCHANGED <<svc, stopping, asked, gateway, watch, reports>>

(* The assignment drops whatever handle the slot held. *)
ConnectStore(c) ==
  /\ At(c, "store")
  /\ SupervisorFree
  /\ slot' = c
  /\ Goto(c, "done")
  /\ UNCHANGED <<svc, stopping, asked, gateway, watch, reports>>

DisconnectHalt(c) ==
  /\ At(c, "halt")
  /\ svc' = To(svc, "Stopping")
  /\ Goto(c, "end")
  /\ UNCHANGED <<stopping, asked, slot, gateway, watch, reports>>

DisconnectTake(c) ==
  /\ At(c, "end")
  /\ Take(c, "ending", "settle")
  /\ UNCHANGED <<svc, gateway, watch, reports>>

DisconnectStopped(c) ==
  /\ At(c, "ending")
  /\ StopOver(c)
  /\ Release(c)
  /\ Goto(c, "settle")
  /\ UNCHANGED <<svc, asked, slot, gateway, watch, reports>>

DisconnectSettle(c) ==
  /\ At(c, "settle")
  /\ svc' = To(svc, "Stopped")
  /\ Goto(c, "done")
  /\ UNCHANGED <<stopping, asked, slot, gateway, watch, reports>>

Connect(c) ==
  \/ ConnectEnter(c) \/ ConnectReplace(c) \/ ConnectReplaced(c)
  \/ ConnectArm(c) \/ ConnectSpawn(c) \/ ConnectAbort(c) \/ ConnectStore(c)

Disconnect(c) ==
  \/ DisconnectHalt(c) \/ DisconnectTake(c)
  \/ DisconnectStopped(c) \/ DisconnectSettle(c)

------------------------------------------------------------------------------
(* main leaves its select on SIGTERM, SIGINT or the idle timer. *)
MainQuit ==
  /\ At(Main, "serve")
  /\ Overlap = "none" => Settled
  /\ Goto(Main, "quit")
  /\ UNCHANGED <<svc, stopping, asked, slot, gateway, watch, reports>>

(* Broken variant: main exits without stopping the session. *)
MainTakeNoStop ==
  /\ At(Main, "quit")
  /\ Goto(Main, "exit")
  /\ UNCHANGED <<svc, stopping, asked, slot, gateway, watch, reports>>

MainTake ==
  /\ At(Main, "quit")
  /\ Take(Main, "quitting", "exit")
  /\ UNCHANGED <<svc, gateway, watch, reports>>

MainStopped ==
  /\ At(Main, "quitting")
  /\ StopOver(Main)
  /\ Release(Main)
  /\ Goto(Main, "exit")
  /\ UNCHANGED <<svc, asked, slot, gateway, watch, reports>>

(* The runtime is dropped with every task in it; kill_on_drop kills what   *)
(* is still running.                                                       *)
MainExit ==
  /\ At(Main, "exit")
  /\ child' = [s \in Calls |-> IF Live(s) THEN "killed" ELSE child[s]]
  /\ Goto(Main, "exited")
  /\ UNCHANGED <<svc, stopping, asked, slot, gateway, watcher, retries, reports>>

Shutdown == MainQuit \/ MainTake \/ MainStopped \/ MainExit

------------------------------------------------------------------------------
Watcher(s, from, to) ==
  watcher[s] = from /\ watcher' = [watcher EXCEPT ![s] = to]

(* The report of run r is not half delivered. *)
ReportWhole(r) == cfg[r] \in {"none", "done"} /\ (ip4[r] = "done" <=> cfg[r] = "done")
MayDie(s) == LateReports \/ ReportWhole(<<s, retries[s]>>)

(* The select is biased: a ready stop request wins over the child's exit. *)
WatcherTerm(s) ==
  /\ StopReady(s)
  /\ Watcher(s, "run", "term")
  /\ UNCHANGED <<svc, calls, child, retries, reports>>

(* SIGTERM, at most 8 s, then SIGKILL; the child is reaped, then the ack. *)
WatcherReap(s) ==
  /\ MayDie(s)
  /\ Watcher(s, "term", "done")
  /\ child' = [child EXCEPT ![s] = IF Live(s) THEN "stopped" ELSE @]
  /\ UNCHANGED <<svc, calls, retries, reports>>

WatcherExit(s) ==
  /\ ~StopReady(s)
  /\ \/ child[s] = "ok" /\ Watcher(s, "run", "clean")
     \/ child[s] \in {"failed", "cert"} /\ Watcher(s, "run", "drain")
  /\ UNCHANGED <<svc, calls, child, retries, reports>>

WatcherClean(s) ==
  /\ Watcher(s, "clean", "done")
  /\ svc' = To(svc, "Stopped")
  /\ UNCHANGED <<calls, child, retries, reports>>

(* The readers are drained and the state is read; what is decided here is  *)
(* carried out later.  A run is fast or not by the clock, drain included.  *)
WatcherClassify(s) ==
  \E fast \in BOOLEAN :
    LET action == ClassifyExit(child[s] = "cert", fast, svc = "Starting",
                               retries[s], MaxRetries)
        phase  == [Retry |-> "backoff", PromptCert |-> "prompt", Fail |-> "failing"]
    IN /\ Watcher(s, "drain", phase[action])
       /\ retries' = [retries EXCEPT ![s] = IF action = "Retry" THEN @ + 1 ELSE @]
       /\ UNCHANGED <<svc, calls, child, reports>>

(* A stop during RETRY_DELAY wins. *)
WatcherGiveUp(s) ==
  /\ StopReady(s)
  /\ Watcher(s, "backoff", "done")
  /\ UNCHANGED <<svc, calls, child, retries, reports>>

(* Broken variant: a failed relaunch is not reported. *)
WatcherRelaunchSilent(s) ==
  /\ ~StopReady(s)
  /\ \/ Watcher(s, "backoff", "run") /\ child' = [child EXCEPT ![s] = "alive"]
     \/ Watcher(s, "backoff", "done") /\ UNCHANGED child
  /\ UNCHANGED <<svc, calls, retries, reports>>

WatcherRelaunch(s) ==
  /\ ~StopReady(s)
  /\ \/ /\ Watcher(s, "backoff", "run")
        /\ child' = [child EXCEPT ![s] = "alive"]
     \/ /\ Watcher(s, "backoff", "failing")
        /\ UNCHANGED child
  /\ UNCHANGED <<svc, calls, retries, reports>>

(* prompt_cert_trust returns. *)
WatcherPrompted(s) ==
  /\ Watcher(s, "prompt", "failing")
  /\ UNCHANGED <<svc, calls, child, retries, reports>>

WatcherFail(s) ==
  /\ Watcher(s, "failing", "done")
  /\ svc' = Failed(svc)
  /\ UNCHANGED <<calls, child, retries, reports>>

WatcherStep(s) ==
  \/ WatcherTerm(s) \/ WatcherReap(s) \/ WatcherExit(s) \/ WatcherClean(s)
  \/ WatcherClassify(s) \/ WatcherGiveUp(s) \/ WatcherRelaunch(s)
  \/ WatcherFail(s)

------------------------------------------------------------------------------
(* crosswire ends on its own: cleanly, with a failure, or with a rejected  *)
(* certificate whose digest the scanner recovers.                          *)
ChildExit(s) ==
  /\ Live(s)
  /\ MayDie(s)
  /\ \E how \in {"ok", "failed", "cert"} : child' = [child EXCEPT ![s] = how]
  /\ UNCHANGED <<svc, calls, watcher, retries, reports>>

(* nm_ip_up: pppd has an address and the plugin calls SetConfig... *)
IpUp(s, n) ==
  /\ Live(s) /\ retries[s] = n
  /\ cfg[<<s, n>>] = "none"
  /\ cfg' = [cfg EXCEPT ![<<s, n>>] = "queued"]
  /\ UNCHANGED <<svc, calls, watch, ip4>>

(* ... and SetIp4Config once that call returned or timed out. *)
IpUpAddress(s, n) ==
  /\ ip4[<<s, n>>] = "none"
  /\ cfg[<<s, n>>] \in IF SlowCalls THEN {"queued", "resolving", "done"} ELSE {"done"}
  /\ ip4' = [ip4 EXCEPT ![<<s, n>>] = "queued"]
  /\ UNCHANGED <<svc, calls, watch, cfg>>

(* set_config reads the gateway and resolves it with the mutex held. *)
SetConfigBegin(s, n) ==
  /\ cfg[<<s, n>>] = "queued"
  /\ GatewayFree
  /\ cfg' = [cfg EXCEPT ![<<s, n>>] = IF gateway = None THEN "done" ELSE "resolving"]
  /\ UNCHANGED <<svc, calls, watch, ip4>>

(* The mutex is released and Config emitted. *)
SetConfigEnd(s, n) ==
  /\ cfg[<<s, n>>] = "resolving"
  /\ cfg' = [cfg EXCEPT ![<<s, n>>] = "done"]
  /\ UNCHANGED <<svc, calls, watch, ip4>>

(* set_ip4_config emits Ip4Config, then asks for Started. *)
SetIp4Config(s, n) ==
  /\ ip4[<<s, n>>] = "queued"
  /\ ip4' = [ip4 EXCEPT ![<<s, n>>] = "done"]
  /\ svc' = To(svc, "Started")
  /\ UNCHANGED <<calls, watch, cfg>>

Handle(s, n) ==
  IpUpAddress(s, n) \/ SetConfigBegin(s, n) \/ SetConfigEnd(s, n) \/ SetIp4Config(s, n)

------------------------------------------------------------------------------
(* After the process has exited nothing moves. *)
Next ==
  \/ /\ ~Exited
     /\ \/ \E c \in Calls : Arrive(c) \/ Connect(c) \/ Disconnect(c)
        \/ Shutdown
        \/ \E s \in Calls : WatcherStep(s) \/ WatcherPrompted(s) \/ ChildExit(s)
        \/ \E s \in Calls, n \in 0 .. MaxRetries : IpUp(s, n) \/ Handle(s, n)
  \/ Exited /\ UNCHANGED vars

Spec == Init /\ [][Next]_vars

(* tokio runs every ready task, its mutexes are FIFO and the timers fire;  *)
(* NetworkManager, the user and crosswire owe us nothing.  The prompt      *)
(* returns unless it waits for the dialog.                                 *)
Fairness ==
  /\ \A c \in Calls : WF_vars(~Exited /\ (Connect(c) \/ Disconnect(c)))
  /\ WF_vars(MainTake \/ MainStopped \/ MainExit)
  /\ \A s \in Calls : WF_vars(~Exited /\ WatcherStep(s))
  /\ \A s \in Calls : SlowPrompt \/ WF_vars(~Exited /\ WatcherPrompted(s))
  /\ \A s \in Calls, n \in 0 .. MaxRetries : WF_vars(~Exited /\ Handle(s, n))

FairSpec == Spec /\ Fairness

------------------------------------------------------------------------------
(* Safety, whatever the order of calls and reports.                        *)

(* Once stop() has returned to its caller, the session it stopped has no   *)
(* crosswire and never gets one again -- not even when the 10 s ran out or *)
(* a retry was pending (Supervisor::stop, the watcher's select and backoff).*)
StopIsFinal ==
  \A s \in Calls :
    asked[s] /\ (\A a \in Actors : stopping[a] # s) => ~Live(s)

(* With no call in flight the service is not left Stopping, and when it    *)
(* claims a connection some watcher is still there to take the claim back: *)
(* no crosswire dies silently (the comment of Supervisor::start).          *)
ActivityAccounted ==
  Settled /\ At(Main, "serve") =>
    /\ svc # "Stopping"
    /\ Active(svc) => \E s \in Calls : watcher[s] \notin {"none", "done"}

(* Whatever Disconnect runs into a Connect, a second crosswire is never    *)
(* started next to a running one: both would bring up the one interface    *)
(* the service configures (Shared.ifname, "single connection").            *)
OneCrosswire == \A s, t \in Calls : Live(s) /\ Live(t) => s = t

(* ... and a running crosswire is never lost: the next Disconnect, Connect *)
(* or shutdown finds its handle.                                           *)
LiveIsOwned == \A s \in Calls : Live(s) => HandleHeld(s)

------------------------------------------------------------------------------
(* Safety when NetworkManager waits for each reply (Overlap = "none").     *)

(* "Connected" is the truth: the session in the slot reported its address  *)
(* in its present launch, and its watcher runs or is about to report its   *)
(* end (state.rs: emissions track the real tunnel state).                  *)
StartedIsTrue ==
  svc = "Started" /\ Settled /\ At(Main, "serve") =>
    \E s \in Calls :
      /\ slot = s
      /\ ip4[<<s, retries[s]>>] = "done"
      /\ watcher[s] \in {"run", "clean", "drain", "failing"}

(* "Disconnected" is the truth: with no call in flight no crosswire runs   *)
(* while the service is Stopped.                                           *)
StoppedIsTrue == svc = "Stopped" /\ Settled => \A s \in Calls : ~Live(s)

(* A watcher that ends the connection ends its own: no other session has a *)
(* watcher at work (State::fail reports a failure of the active connection).*)
FailureIsOwn ==
  [][\A s \in Calls :
       /\ watcher[s] \in {"failing", "clean"} /\ watcher'[s] = "done"
       /\ svc' # svc
       => \A t \in Calls \ {s} : watcher[t] \in {"none", "done"}]_vars

(* A shutdown with no call in flight ends every crosswire by SIGTERM, so   *)
(* that it can clean up, never by kill_on_drop (main after its select).    *)
ExitTearsDown ==
  Exited /\ Settled => \A s \in Calls : child[s] # "killed"

(* A Config pins the route to the server of the session it reports for     *)
(* (the doc of Shared.gateway).                                            *)
ConfigPinsOwnGateway ==
  [][\A s \in Calls, n \in 0 .. MaxRetries :
       cfg[<<s, n>>] = "queued" /\ cfg'[<<s, n>>] = "resolving"
       => gateway = s]_vars

(* The connection NetworkManager sees and the crosswires behind it. *)
Abstract == INSTANCE Lifecycle
  WITH Sessions <- Calls, state <- svc, tunnels <- {s \in Calls : Live(s)}

Implements == Abstract!Spec

------------------------------------------------------------------------------
(* Liveness, under Fairness.                                               *)

(* Every D-Bus call is answered while the service lives, however long the  *)
(* certificate prompt takes.                                               *)
CallsReturn == \A c \in Calls : InFlight(c) ~> (~InFlight(c) \/ Exited)

(* A crosswire whose handle nobody holds is torn down. *)
UnownedIsTornDown ==
  \A s \in Calls : Live(s) /\ ~HandleHeld(s) ~> ~Live(s)

(* A crosswire that dies while connecting is relaunched, reported, or put  *)
(* to the user as a rejected certificate; the connection does not hang in  *)
(* Starting (Supervisor::start).                                           *)
Died(s) == child[s] \in {"ok", "failed", "cert"} /\ slot = s /\ svc = "Starting"
Answered(s) == svc # "Starting" \/ Live(s) \/ slot # s \/ Exited

DeathIsHandled ==
  \A s \in Calls : Died(s) ~> (Answered(s) \/ watcher[s] = "prompt")
=============================================================================
