------------------------------ MODULE CertScan ------------------------------
(***************************************************************************)
(* How the watcher learns that a crosswire was refused for its gateway's   *)
(* certificate: two logger tasks per run read its stdout and stderr and    *)
(* feed one CertScanner; after the exit the watcher drains the loggers and *)
(* asks the scanner (supervisor.rs, cert_trust.rs).  A retry starts a new  *)
(* run with a scanner of its own while loggers of the old run may still    *)
(* read.                                                                   *)
(***************************************************************************)
EXTENDS Naturals, Sequences

CONSTANTS
  Digests,   \* SHA-256 digests in lowercase hex
  None,      \* no digest
  Scripts,   \* what crosswire may write on one stream in one run
  LastRun    \* the runs are 0 .. LastRun

Streams == {"stdout", "stderr"}
Runs    == 0 .. LastRun

(* A line: whether it is UTF-8, whether it holds UNTRUSTED_MARKER, whether *)
(* it mentions a digest or the --trusted-cert hint, and the first 64-digit *)
(* lowercase hex token extract_sha256 finds in it.                         *)
Line ==
  [text : BOOLEAN, marker : BOOLEAN, hint : BOOLEAN, hex : Digests \cup {None}]

ASSUME ScanAssumption ==
  /\ None \notin Digests
  /\ Scripts \subseteq Seq(Line)
  /\ LastRun \in Nat

VARIABLES
  wedged,    \* a pipe may stay open past DRAIN_TIMEOUT (a child of crosswire
             \* has inherited it)
  run,       \* the run the watcher is at
  script,    \* the lines of each stream of each run
  read,      \* how many of them its logger has observed
  scanner,   \* the CertScanner of each run
  drained,   \* the streams of this run whose logger was awaited
  phase,     \* of the watcher: "wait", "drain", "judged"
  verdict    \* cert_change() as the watcher read it, per run

vars == <<wedged, run, script, read, scanner, drained, phase, verdict>>

Fresh == [untrusted |-> FALSE, digest |-> None]

TypeOK ==
  /\ wedged \in BOOLEAN
  /\ run \in Runs
  /\ script \in [Runs -> [Streams -> Scripts]]
  /\ read \in [Runs -> [Streams -> Nat]]
  /\ \A n \in Runs, x \in Streams : read[n][x] <= Len(script[n][x])
  /\ scanner \in [Runs -> [untrusted : BOOLEAN, digest : Digests \cup {None}]]
  /\ drained \subseteq Streams
  /\ phase \in {"wait", "drain", "judged"}
  /\ verdict \in [Runs -> Digests \cup {None}]

Init ==
  /\ wedged \in BOOLEAN
  /\ run = 0
  /\ script \in [Runs -> [Streams -> Scripts]]
  /\ read = [n \in Runs |-> [x \in Streams |-> 0]]
  /\ scanner = [n \in Runs |-> Fresh]
  /\ drained = {}
  /\ phase = "wait"
  /\ verdict = [n \in Runs |-> None]

(* Broken variant: a digest counts only once the rejection was seen. *)
ObserveInOrder(s, line) ==
  [untrusted |-> s.untrusted \/ line.marker,
   digest    |-> IF s.untrusted /\ s.digest = None /\ line.hint
                 THEN line.hex ELSE s.digest]

(* CertScanner::observe *)
Observe(s, line) ==
  [untrusted |-> s.untrusted \/ line.marker,
   digest    |-> IF s.digest = None /\ line.hint THEN line.hex ELSE s.digest]

(* CertScanner::cert_change *)
CertChange(s) == IF s.untrusted THEN s.digest ELSE None

(* The logger of a stream has ended: at the end of the stream, or at a     *)
(* line next_line() cannot decode.                                         *)
LoggerDone(n, x) ==
  read[n][x] < Len(script[n][x]) => ~script[n][x][read[n][x] + 1].text

(* Broken variants: all loggers feed the scanner of the present run; a     *)
(* logger loses every second line.                                         *)
LogShared(n, x) ==
  /\ n <= run
  /\ ~LoggerDone(n, x)
  /\ read' = [read EXCEPT ![n][x] = @ + 1]
  /\ scanner' = [scanner EXCEPT ![run] = Observe(@, script[n][x][read'[n][x]])]
  /\ UNCHANGED <<wedged, run, script, drained, phase, verdict>>
LogSkipping(n, x) ==
  /\ n <= run
  /\ ~LoggerDone(n, x)
  /\ read' = [read EXCEPT ![n][x] = @ + 2]
  /\ scanner' = [scanner EXCEPT ![n] = Observe(@, script[n][x][read[n][x] + 1])]
  /\ UNCHANGED <<wedged, run, script, drained, phase, verdict>>

(* spawn_logger: one more line of a stream. *)
Log(n, x) ==
  /\ n <= run
  /\ ~LoggerDone(n, x)
  /\ read' = [read EXCEPT ![n][x] = @ + 1]
  /\ scanner' = [scanner EXCEPT ![n] = Observe(@, script[n][x][read'[n][x]])]
  /\ UNCHANGED <<wedged, run, script, drained, phase, verdict>>

(* The child has exited; its pipes may still hold lines. *)
Exit ==
  /\ phase = "wait"
  /\ phase' = "drain"
  /\ drained' = {}
  /\ UNCHANGED <<wedged, run, script, read, scanner, verdict>>

(* drain_loggers: stdout's logger, then stderr's, each to its end or for   *)
(* DRAIN_TIMEOUT.                                                          *)
Drain(x) ==
  /\ phase = "drain"
  /\ x \notin drained
  /\ x = "stderr" => "stdout" \in drained
  /\ wedged \/ LoggerDone(run, x)
  /\ drained' = drained \cup {x}
  /\ UNCHANGED <<wedged, run, script, read, scanner, phase, verdict>>

Judge ==
  /\ phase = "drain"
  /\ drained = Streams
  /\ verdict' = [verdict EXCEPT ![run] = CertChange(scanner[run])]
  /\ phase' = "judged"
  /\ UNCHANGED <<wedged, run, script, read, scanner, drained>>

(* Without a verdict the run may be retried, with a scanner of its own. *)
Relaunch ==
  /\ phase = "judged"
  /\ verdict[run] = None
  /\ run < LastRun
  /\ run' = run + 1
  /\ phase' = "wait"
  /\ UNCHANGED <<wedged, script, read, scanner, drained, verdict>>

Next ==
  \/ \E n \in Runs, x \in Streams : Log(n, x)
  \/ Exit \/ \E x \in Streams : Drain(x)
  \/ Judge \/ Relaunch

Spec == Init /\ [][Next]_vars

------------------------------------------------------------------------------
Lines(n) ==
  UNION {{script[n][x][i] : i \in DOMAIN script[n][x]} : x \in Streams}
Rejected(n) == \E l \in Lines(n) : l.marker
Offered(n)  == {l.hex : l \in {k \in Lines(n) : k.hint}} \ {None}
Judged(n)   == n < run \/ (n = run /\ phase = "judged")

(* The user is only asked to trust a digest this very run printed as the   *)
(* presented one, and only when this run was refused -- never one left by  *)
(* an earlier run, or any other hex string (cert_change, observe).         *)
PromptIsFounded ==
  \A n \in Runs : verdict[n] # None => Rejected(n) /\ verdict[n] \in Offered(n)

(* With pipes that close in time and lines that decode, the verdict never  *)
(* misses a rejection, in whatever order and on whichever stream the two   *)
(* facts come (the doc of CertScanner, the wait of drain_loggers).         *)
RejectionIsSeen ==
  \A n \in Runs :
    /\ Judged(n) /\ ~wedged
    /\ \A l \in Lines(n) : l.text
    /\ Rejected(n) /\ Offered(n) # {}
    => verdict[n] # None
==============================================================================
