--------------------------- MODULE CertPromptProofs ---------------------------
(***************************************************************************)
(* Theorems about CertScan, for any digests, scripts and number of runs,   *)
(* and about CertPrompt: what is proved of the watcher and of the prompt   *)
(* holds of the two together, and the dialog has its reason.               *)
(***************************************************************************)
EXTENDS CertPrompt, UserSessionProofs

LEMMA RunFacts == Runs \subseteq Nat /\ 0 \in Runs
  BY ScanAssumption DEF Runs

------------------------------------------------------------------------------
(* Every variable keeps its type; in particular no logger observes more    *)
(* lines than its stream has (spawn_logger).                               *)
THEOREM TypeCorrect == Spec => []TypeOK
<1> USE RunFacts DEF TypeOK
<1>1. Init => TypeOK
  <2> SUFFICES ASSUME Init PROVE TypeOK
    OBVIOUS
  <2>1. \A n \in Runs, x \in Streams : script[n][x] \in Seq(Line)
    BY ScanAssumption DEF Init
  <2>2. \A n \in Runs, x \in Streams : read[n][x] <= Len(script[n][x])
    BY <2>1 DEF Init
  <2> QED
    BY <2>2 DEF Init, Fresh
<1>2. TypeOK /\ [Next]_vars => TypeOK'
  <2> SUFFICES ASSUME TypeOK, [Next]_vars PROVE TypeOK'
    OBVIOUS
  <2>1. ASSUME NEW n \in Runs, NEW x \in Streams, Log(n, x) PROVE TypeOK'
    <3>1. read[n][x] \in Nat /\ script[n][x] \in Seq(Line)
      BY ScanAssumption
    <3>2. read[n][x] + 1 <= Len(script[n][x])
      BY <2>1, <3>1 DEF Log, LoggerDone
    <3>3. script[n][x][read[n][x] + 1] \in Line
      BY <3>1, <3>2
    <3>4. read' \in [Runs -> [Streams -> Nat]] /\ read'[n][x] = read[n][x] + 1
      <4>1. [read[n] EXCEPT ![x] = @ + 1] \in [Streams -> Nat]
        BY <3>1
      <4>2. read' = [read EXCEPT ![n] = [read[n] EXCEPT ![x] = @ + 1]]
        BY <2>1 DEF Log
      <4> QED
        BY <4>1, <4>2
    <3>5. \A m \in Runs, y \in Streams : read'[m][y] <= Len(script'[m][y])
      BY <2>1, <3>1, <3>2 DEF Log
    <3>6. Observe(scanner[n], script[n][x][read[n][x] + 1])
            \in [untrusted : BOOLEAN, digest : Digests \cup {None}]
      BY <3>3 DEF Observe, Line
    <3>7. scanner' \in [Runs -> [untrusted : BOOLEAN, digest : Digests \cup {None}]]
      BY <2>1, <3>4, <3>6 DEF Log
    <3> QED
      BY <2>1, <3>4, <3>5, <3>7 DEF Log
  <2>2. CASE Exit
    BY <2>2 DEF Exit
  <2>3. ASSUME NEW x \in Streams, Drain(x) PROVE TypeOK'
    BY <2>3 DEF Drain
  <2>4. CASE Judge
    <3>1. CertChange(scanner[run]) \in Digests \cup {None}
      BY DEF CertChange
    <3> QED
      BY <2>4, <3>1 DEF Judge
  <2>5. CASE Relaunch
    <3>1. run + 1 \in Runs
      BY <2>5, ScanAssumption DEF Relaunch, Runs
    <3> QED
      BY <2>5, <3>1 DEF Relaunch
  <2>6. CASE UNCHANGED vars
    BY <2>6 DEF vars
  <2> QED
    BY <2>1, <2>2, <2>3, <2>4, <2>5, <2>6 DEF Next
<1> QED
  BY <1>1, <1>2, PTL DEF Spec

------------------------------------------------------------------------------
(* The strengthening of PromptIsFounded and RejectionIsSeen.               *)

(* The lines of a run its loggers have fed to the scanner. *)
Observed(n) ==
  UNION {{script[n][x][i] : i \in 1 .. read[n][x]} : x \in Streams}

(* A scanner knows of its own run's lines all that was observed, and       *)
(* nothing else.                                                           *)
Exact(n) ==
  /\ scanner[n].untrusted => \E l \in Observed(n) : l.marker
  /\ (\E l \in Observed(n) : l.marker) => scanner[n].untrusted
  /\ scanner[n].digest # None =>
       \E l \in Observed(n) : l.hint /\ l.hex = scanner[n].digest
  /\ scanner[n].digest = None => \A l \in Observed(n) : l.hint => l.hex = None

(* Unless a pipe stays open, the loggers have ended when the watcher goes  *)
(* on, so a verdict is the scanner's last word.                            *)
Final(n) ==
  /\ n = run /\ phase = "drain" => \A x \in drained : LoggerDone(n, x)
  /\ Judged(n) => /\ \A x \in Streams : LoggerDone(n, x)
                  /\ verdict[n] = CertChange(scanner[n])

ScanInv ==
  /\ TypeOK
  /\ PromptIsFounded
  /\ \A n \in Runs : Exact(n)
  /\ ~wedged => \A n \in Runs : Final(n)

(* What was observed was written. *)
LEMMA ObservedIsWritten ==
  ASSUME TypeOK, NEW n \in Runs
  PROVE  Observed(n) \subseteq Lines(n)
<1> SUFFICES ASSUME NEW x \in Streams, NEW i \in 1 .. read[n][x]
             PROVE  i \in DOMAIN script[n][x]
  BY DEF Observed, Lines
<1>1. script[n][x] \in Seq(Line) /\ read[n][x] \in Nat /\ read[n][x] <= Len(script[n][x])
  BY ScanAssumption DEF TypeOK
<1> QED
  BY <1>1

(* When the loggers of a run have ended and every line decodes, all of     *)
(* what was written has been observed.                                     *)
LEMMA AllIsObserved ==
  ASSUME TypeOK, NEW n \in Runs,
         \A x \in Streams : LoggerDone(n, x),
         \A l \in Lines(n) : l.text
  PROVE  Lines(n) \subseteq Observed(n)
<1> SUFFICES ASSUME NEW x \in Streams, NEW i \in DOMAIN script[n][x]
             PROVE  i \in 1 .. read[n][x]
  BY DEF Observed, Lines
<1>1. script[n][x] \in Seq(Line) /\ read[n][x] \in Nat /\ read[n][x] <= Len(script[n][x])
  BY ScanAssumption DEF TypeOK
<1>2. ~(read[n][x] < Len(script[n][x]))
  <2> SUFFICES ASSUME read[n][x] < Len(script[n][x]) PROVE FALSE
    OBVIOUS
  <2>1. read[n][x] + 1 \in DOMAIN script[n][x]
    BY <1>1
  <2>2. script[n][x][read[n][x] + 1].text
    BY <2>1 DEF Lines
  <2> QED
    BY <2>2 DEF LoggerDone
<1> QED
  BY <1>1, <1>2

(* A logger's step adds one line to what is observed of its run. *)
LEMMA LogObserves ==
  ASSUME TypeOK, NEW n \in Runs, NEW x \in Streams, Log(n, x)
  PROVE  \E line \in Line :
           /\ Observed(n)' = Observed(n) \cup {line}
           /\ \A m \in Runs \ {n} : Observed(m)' = Observed(m)
           /\ scanner' = [scanner EXCEPT ![n] = Observe(@, line)]
           /\ ~LoggerDone(n, x)
<1> DEFINE line == script[n][x][read[n][x] + 1]
<1>1. /\ script[n][x] \in Seq(Line) /\ read[n][x] \in Nat
      /\ read \in [Runs -> [Streams -> Nat]]
  BY ScanAssumption DEF TypeOK
<1>2. read[n][x] + 1 <= Len(script[n][x])
  BY <1>1 DEF Log, LoggerDone
<1>3. line \in Line
  BY <1>1, <1>2
<1>4. read' = [read EXCEPT ![n] = [read[n] EXCEPT ![x] = @ + 1]]
  BY DEF Log
<1>5. /\ read'[n][x] = read[n][x] + 1
      /\ \A y \in Streams \ {x} : read'[n][y] = read[n][y]
      /\ \A m \in Runs \ {n} : read'[m] = read[m]
  <2>1. read'[n] = [read[n] EXCEPT ![x] = @ + 1]
    BY <1>1, <1>4
  <2>2. \A m \in Runs \ {n} : read'[m] = read[m]
    BY <1>1, <1>4
  <2>3. read[n] \in [Streams -> Nat]
    BY <1>1
  <2> QED
    BY <2>1, <2>2, <2>3
<1>6. script' = script
  BY DEF Log
<1>7. Observed(n)' = Observed(n) \cup {line}
  <2>1. ASSUME NEW l \in Observed(n)' PROVE l \in Observed(n) \cup {line}
    <3>1. PICK y \in Streams : \E i \in 1 .. read'[n][y] : l = script[n][y][i]
      BY <2>1, <1>6 DEF Observed
    <3>2. PICK i \in 1 .. read'[n][y] : l = script[n][y][i]
      BY <3>1
    <3>3. CASE i \in 1 .. read[n][y]
      BY <3>2, <3>3 DEF Observed
    <3>4. CASE i \notin 1 .. read[n][y]
      <4>1. y = x /\ i = read[n][x] + 1
        BY <3>4, <1>1, <1>5
      <4> QED
        BY <4>1, <3>2
    <3> QED
      BY <3>3, <3>4
  <2>2. ASSUME NEW l \in Observed(n) PROVE l \in Observed(n)'
    <3>1. PICK y \in Streams : \E i \in 1 .. read[n][y] : l = script[n][y][i]
      BY <2>2 DEF Observed
    <3>2. PICK i \in 1 .. read[n][y] : l = script[n][y][i]
      BY <3>1
    <3>3. i \in 1 .. read'[n][y]
      <4>1. read[n][y] \in Nat
        BY <1>1
      <4> QED
        BY <4>1, <1>5
    <3> QED
      BY <3>2, <3>3, <1>6 DEF Observed
  <2>3. line \in Observed(n)'
    <3>1. read[n][x] + 1 \in 1 .. read'[n][x]
      BY <1>1, <1>5
    <3> QED
      BY <3>1, <1>6 DEF Observed
  <2> QED
    BY <2>1, <2>2, <2>3
<1>8. \A m \in Runs \ {n} : Observed(m)' = Observed(m)
  BY <1>5, <1>6 DEF Observed
<1>9. scanner' = [scanner EXCEPT ![n] = Observe(@, line)]
  BY <1>5 DEF Log
<1> QED
  BY <1>3, <1>7, <1>8, <1>9 DEF Log

(* Observe keeps a scanner exact. *)
LEMMA LogKeepsExact ==
  ASSUME TypeOK, \A m \in Runs : Exact(m), NEW n \in Runs, NEW x \in Streams, Log(n, x)
  PROVE  \A m \in Runs : Exact(m)'
<1>1. PICK line \in Line :
        /\ Observed(n)' = Observed(n) \cup {line}
        /\ \A m \in Runs \ {n} : Observed(m)' = Observed(m)
        /\ scanner' = [scanner EXCEPT ![n] = Observe(@, line)]
  BY LogObserves
<1>2. scanner'[n] = Observe(scanner[n], line)
  BY <1>1 DEF TypeOK
<1>3. ASSUME NEW m \in Runs \ {n} PROVE Exact(m)'
  <2>1. scanner'[m] = scanner[m] /\ Observed(m)' = Observed(m)
    BY <1>1 DEF TypeOK
  <2> QED
    BY <2>1 DEF Exact
<1>4. Exact(n)'
  <2> DEFINE s == scanner[n]
  <2>1. /\ scanner'[n].untrusted = (s.untrusted \/ line.marker)
        /\ scanner'[n].digest = IF s.digest = None /\ line.hint THEN line.hex ELSE s.digest
    BY <1>2 DEF Observe
  <2>2. Exact(n)
    OBVIOUS
  <2> QED
    BY <1>1, <2>1, <2>2 DEF Exact
<1> QED
  BY <1>3, <1>4

(* A logger that has ended stays so. *)
LEMMA DoneStaysDone ==
  ASSUME TypeOK, NEW n \in Runs, NEW x \in Streams, Log(n, x),
         NEW m \in Runs, NEW y \in Streams, LoggerDone(m, y)
  PROVE  LoggerDone(m, y)'
<1>1. m # n \/ y # x
  BY DEF Log
<1>2. read \in [Runs -> [Streams -> Nat]]
  BY DEF TypeOK
<1>3. read' = [read EXCEPT ![n] = [read[n] EXCEPT ![x] = @ + 1]]
  BY DEF Log
<1>4. read'[m][y] = read[m][y]
  <2>1. CASE m # n
    BY <2>1, <1>2, <1>3
  <2>2. CASE m = n /\ y # x
    <3>1. read'[n] = [read[n] EXCEPT ![x] = @ + 1] /\ read[n] \in [Streams -> Nat]
      BY <1>2, <1>3
    <3> QED
      BY <2>2, <3>1
  <2> QED
    BY <1>1, <2>1, <2>2
<1> QED
  BY <1>4 DEF LoggerDone, Log

(* What depends on the scripts and what was read of them is left alone by  *)
(* the steps of the watcher.                                               *)
LEMMA WatcherReadsNothing ==
  ASSUME UNCHANGED <<script, read, scanner>>
  PROVE  /\ \A n \in Runs : (Exact(n) => Exact(n)') /\ (Rejected(n)' <=> Rejected(n))
         /\ \A n \in Runs : Offered(n)' = Offered(n)
         /\ \A n \in Runs, x \in Streams : LoggerDone(n, x)' <=> LoggerDone(n, x)
BY DEF Exact, Observed, Rejected, Offered, Lines, LoggerDone

LEMMA ScanInvStep ==
  ASSUME TypeOK', ScanInv, [Next]_vars
  PROVE  ScanInv'
<1> USE RunFacts
<1>0. TypeOK /\ PromptIsFounded /\ (\A n \in Runs : Exact(n))
  BY DEF ScanInv
<1>1. ASSUME NEW n \in Runs, NEW x \in Streams, Log(n, x) PROVE ScanInv'
  <2>1. \A m \in Runs : Exact(m)'
    BY <1>0, <1>1, LogKeepsExact
  <2>2. PromptIsFounded'
    BY <1>0, <1>1 DEF Log, PromptIsFounded, Rejected, Offered, Lines
  <2>3. ASSUME ~wedged', NEW m \in Runs PROVE Final(m)'
    <3>1. Final(m) /\ ~LoggerDone(n, x)
      BY <1>1, <2>3 DEF ScanInv, Log
    <3>2. \A y \in Streams : LoggerDone(m, y) => LoggerDone(m, y)'
      BY <1>0, <1>1, DoneStaysDone
    <3>3. Judged(m)' <=> Judged(m)
      BY <1>1 DEF Log, Judged
    <3>4. CASE ~Judged(m)
      BY <1>0, <1>1, <3>1, <3>2, <3>3, <3>4 DEF Final, Log, TypeOK
    <3>5. CASE Judged(m)
      <4>1. m # n
        BY <3>1, <3>5 DEF Final
      <4>2. scanner'[m] = scanner[m]
        BY <1>0, <1>1, <4>1 DEF Log, TypeOK
      <4>3. verdict'[m] = CertChange(scanner'[m])
        BY <1>1, <3>1, <3>5, <4>2 DEF Final, Log
      <4> QED
        BY <1>0, <1>1, <3>1, <3>2, <3>5, <4>3 DEF Final, Log, TypeOK
    <3> QED
      BY <3>4, <3>5
  <2> QED
    BY <2>1, <2>2, <2>3 DEF ScanInv
<1>2. CASE Exit
  <2>1. UNCHANGED <<script, read, scanner, verdict, run, wedged>>
    BY <1>2 DEF Exit
  <2>2. \A m \in Runs : Judged(m)' <=> Judged(m)
    BY <1>2 DEF Exit, Judged
  <2>3. ASSUME ~wedged', NEW m \in Runs PROVE Final(m)'
    BY <1>2, <2>1, <2>2, <2>3, WatcherReadsNothing DEF ScanInv, Final, Exit
  <2> QED
    BY <1>0, <2>1, <2>3, WatcherReadsNothing DEF ScanInv, PromptIsFounded
<1>3. ASSUME NEW x \in Streams, Drain(x) PROVE ScanInv'
  <2>1. UNCHANGED <<script, read, scanner, verdict, run, wedged, phase>>
    BY <1>3 DEF Drain
  <2>2. \A m \in Runs : Judged(m)' <=> Judged(m)
    BY <2>1 DEF Judged
  <2>3. ASSUME ~wedged', NEW m \in Runs PROVE Final(m)'
    <3>1. m = run => \A y \in drained' : LoggerDone(m, y)'
      BY <1>0, <1>3, <2>1, <2>3, WatcherReadsNothing DEF ScanInv, Final, Drain, TypeOK
    <3> QED
      BY <2>1, <2>2, <2>3, <3>1, WatcherReadsNothing DEF ScanInv, Final
  <2> QED
    BY <1>0, <2>1, <2>3, WatcherReadsNothing DEF ScanInv, PromptIsFounded
<1>4. CASE Judge
  <2>1. UNCHANGED <<script, read, scanner, run, wedged>>
    BY <1>4 DEF Judge
  <2>2. /\ verdict'[run] = CertChange(scanner[run])
        /\ \A m \in Runs \ {run} : verdict'[m] = verdict[m]
    BY <1>0, <1>4 DEF Judge, TypeOK
  <2>3. CertChange(scanner[run]) # None =>
          Rejected(run) /\ CertChange(scanner[run]) \in Offered(run)
    <3>1. Observed(run) \subseteq Lines(run) /\ Exact(run)
      BY <1>0, ObservedIsWritten DEF TypeOK
    <3> QED
      BY <3>1 DEF Exact, CertChange, Rejected, Offered
  <2>4. PromptIsFounded'
    BY <1>0, <2>1, <2>2, <2>3, WatcherReadsNothing DEF PromptIsFounded
  <2>5. ASSUME ~wedged', NEW m \in Runs PROVE Final(m)'
    <3>1. CASE m = run
      <4>0. Final(m)
        BY <2>1, <2>5 DEF ScanInv
      <4>1. \A y \in Streams : LoggerDone(m, y)
        BY <1>4, <3>1, <4>0 DEF Judge, Final
      <4> QED
        BY <1>4, <2>1, <2>2, <3>1, <4>1, WatcherReadsNothing DEF Judge, Final
    <3>2. CASE m # run
      <4>1. Judged(m)' <=> Judged(m)
        BY <2>1, <3>2 DEF Judged
      <4> QED
        BY <2>1, <2>2, <2>5, <3>2, <4>1, WatcherReadsNothing DEF ScanInv, Final
    <3> QED
      BY <3>1, <3>2
  <2> QED
    BY <1>0, <2>1, <2>4, <2>5, WatcherReadsNothing DEF ScanInv
<1>5. CASE Relaunch
  <2>1. UNCHANGED <<script, read, scanner, verdict, wedged>>
    BY <1>5 DEF Relaunch
  <2>2. \A m \in Runs : Judged(m)' => Judged(m)
    BY <1>0, <1>5 DEF Relaunch, Judged, TypeOK
  <2>3. ASSUME ~wedged', NEW m \in Runs PROVE Final(m)'
    BY <1>5, <2>1, <2>2, <2>3, WatcherReadsNothing DEF ScanInv, Final, Relaunch
  <2> QED
    BY <1>0, <2>1, <2>3, WatcherReadsNothing DEF ScanInv, PromptIsFounded
<1>6. CASE UNCHANGED vars
  <2>1. UNCHANGED <<script, read, scanner, verdict, run, wedged, phase, drained>>
    BY <1>6 DEF vars
  <2>2. \A m \in Runs : Judged(m)' <=> Judged(m)
    BY <2>1 DEF Judged
  <2>3. ASSUME ~wedged', NEW m \in Runs PROVE Final(m)'
    <3>1. Final(m)
      BY <2>1, <2>3 DEF ScanInv
    <3>2. \A x \in Streams : LoggerDone(m, x)' <=> LoggerDone(m, x)
      BY <2>1, WatcherReadsNothing
    <3>3. m = run' /\ phase' = "drain" => \A x \in drained' : LoggerDone(m, x)'
      BY <1>0, <2>1, <3>1, <3>2 DEF Final, TypeOK
    <3>4. Judged(m)' => /\ \A x \in Streams : LoggerDone(m, x)'
                       /\ verdict'[m] = CertChange(scanner'[m])
      BY <2>1, <2>2, <3>1, <3>2 DEF Final
    <3> QED
      BY <3>3, <3>4 DEF Final
  <2> QED
    BY <1>0, <2>1, <2>3, WatcherReadsNothing DEF ScanInv, PromptIsFounded
<1> QED
  BY <1>1, <1>2, <1>3, <1>4, <1>5, <1>6 DEF Next

LEMMA ScanInvariant == Spec => []ScanInv
<1>1. Init /\ TypeOK => ScanInv
  <2> SUFFICES ASSUME Init, TypeOK PROVE ScanInv
    OBVIOUS
  <2>1. PromptIsFounded
    BY DEF Init, PromptIsFounded
  <2>2. ASSUME NEW n \in Runs PROVE Exact(n)
    <3>1. Observed(n) = {}
      <4>1. \A x \in Streams : read[n][x] = 0
        BY DEF Init
      <4> QED
        BY <4>1 DEF Observed
    <3> QED
      BY <3>1 DEF Init, Exact, Fresh
  <2>3. ASSUME NEW n \in Runs PROVE Final(n)
    BY RunFacts DEF Init, Final, Judged, Runs
  <2> QED
    BY <2>1, <2>2, <2>3 DEF ScanInv
<1>2. TypeOK' /\ ScanInv /\ [Next]_vars => ScanInv'
  BY ScanInvStep
<1> QED
  BY <1>1, <1>2, TypeCorrect, PTL DEF Spec

(* The user is only asked to trust a digest that the very run presented,   *)
(* and only when it was refused (cert_change, observe).                    *)
THEOREM PromptFounded == Spec => []PromptIsFounded
<1>1. ScanInv => PromptIsFounded
  BY DEF ScanInv
<1> QED
  BY <1>1, ScanInvariant, PTL

(* With pipes that close and lines that decode no rejection is missed,     *)
(* however the two streams are read (CertScanner, drain_loggers).          *)
THEOREM RejectionSeen == Spec => []RejectionIsSeen
<1>1. ScanInv => RejectionIsSeen
  <2> SUFFICES ASSUME ScanInv,
                      NEW n \in Runs, Judged(n), ~wedged,
                      \A l \in Lines(n) : l.text,
                      Rejected(n), Offered(n) # {}
               PROVE  verdict[n] # None
    BY DEF RejectionIsSeen
  <2>1. /\ Lines(n) \subseteq Observed(n)
        /\ Exact(n)
        /\ verdict[n] = CertChange(scanner[n])
    <3>1. TypeOK /\ Exact(n) /\ Final(n)
      BY DEF ScanInv
    <3>2. \A x \in Streams : LoggerDone(n, x)
      BY <3>1 DEF Final
    <3> QED
      BY <3>1, <3>2, AllIsObserved DEF Final
  <2>2. scanner[n].untrusted
    BY <2>1 DEF Exact, Rejected
  <2>3. scanner[n].digest # None
    BY <2>1 DEF Exact, Offered
  <2> QED
    BY <2>1, <2>2, <2>3 DEF CertChange
<1> QED
  BY <1>1, ScanInvariant, PTL

------------------------------------------------------------------------------
(* A step of the whole is a step, or a stutter, of each part. *)
LEMMA StepOfParts ==
  ASSUME [PromptNext]_<<vars, sessionVars>>
  PROVE  [Next]_vars /\ [SessionNext]_sessionVars
<1>1. CASE Next /\ UNCHANGED sessionVars
  BY <1>1
<1>2. CASE Prompt
  BY <1>2 DEF Prompt, SessionNext
<1>3. CASE (LogindChange \/ Spawn \/ Answer) /\ UNCHANGED vars
  BY <1>3 DEF SessionNext
<1>4. CASE UNCHANGED <<vars, sessionVars>>
  BY <1>4
<1> QED
  BY <1>1, <1>2, <1>3, <1>4 DEF PromptNext

LEMMA ImplementsParts ==
  PromptSpec => Spec /\ SessionInit /\ [][SessionNext]_sessionVars
<1>1. PromptSpec => Init /\ [][Next]_vars
  BY StepOfParts, PTL DEF PromptSpec, PromptInit
<1>2. PromptSpec => SessionInit /\ [][SessionNext]_sessionVars
  BY StepOfParts, PTL DEF PromptSpec, PromptInit
<1> QED
  BY <1>1, <1>2 DEF Spec

LEMMA PartsInvariant == PromptSpec => [](ScanInv /\ SessionInv)
  BY ImplementsParts, ScanInvariant, SessionInvariant, PTL

(* The prompt runs in a thread of its own while the loggers read on        *)
(* (prompt_cert_trust, spawn_logger): neither disturbs what is proved of   *)
(* the other.                                                              *)
THEOREM PartsUndisturbed ==
  PromptSpec => []( /\ PromptIsFounded /\ RejectionIsSeen
                    /\ SeatIsPrompted /\ OnlySeatIsPrompted /\ AskedOnceAndHeard
                    /\ DialogReadsRequest)
  BY ImplementsParts, PartsInvariant, PromptFounded, RejectionSeen, SessionInvImplies,
     RequestInvariant, RequestReachesDialog, PTL

------------------------------------------------------------------------------
(* While a prompt is on, the watcher stays where it judged the run, and    *)
(* the digest shown is its verdict.                                        *)
PromptInv ==
  prompt # "none" =>
    /\ phase = "judged" /\ verdict[run] # None
    /\ request.digest = <<verdict[run]>>

LEMMA PromptInvStep ==
  ASSUME PromptInv, [PromptNext]_<<vars, sessionVars>>
  PROVE  PromptInv'
<1>1. CASE Next /\ UNCHANGED sessionVars
  <2> SUFFICES ASSUME prompt # "none"
               PROVE  UNCHANGED <<phase, verdict, run, request>>
    BY <1>1 DEF PromptInv, sessionVars
  <2>1. phase = "judged" /\ verdict[run] # None
    BY DEF PromptInv
  <2>2. PICK n \in Runs, x \in Streams : Log(n, x)
    BY <1>1, <2>1 DEF Next, Exit, Drain, Judge, Relaunch
  <2> QED
    BY <1>1, <2>2 DEF Log, sessionVars
<1>2. CASE Prompt
  BY <1>2 DEF Prompt, PromptStart, PromptInv, vars
<1>3. CASE (LogindChange \/ Spawn \/ Answer) /\ UNCHANGED vars
  <2>1. UNCHANGED <<phase, verdict, run, request>> /\ (prompt' # "none" => prompt # "none")
    <3>1. CASE LogindChange
      BY <1>3, <3>1 DEF LogindChange, vars
    <3>2. CASE Spawn
      BY <1>3, <3>2 DEF Spawn, ListSessions, ShowSession, ShowFault, NoSession, UidName,
        SystemdRun, Su, SuReturns, vars
    <3>3. CASE Answer
      BY <1>3, <3>3 DEF Answer, vars
    <3> QED
      BY <1>3, <3>1, <3>2, <3>3
  <2> QED
    BY <2>1 DEF PromptInv
<1>4. CASE UNCHANGED <<vars, sessionVars>>
  BY <1>4 DEF PromptInv, vars, sessionVars
<1> QED
  BY <1>1, <1>2, <1>3, <1>4 DEF PromptNext

(* The digest before the user is one that the very run that was refused    *)
(* presented (cert_change, classify_exit, prompt_cert_trust).              *)
THEOREM DialogFounded == PromptSpec => []DialogIsFounded
<1>1. PromptInit => PromptInv
  BY DEF PromptInit, SessionInit, PromptInv
<1>2. ScanInv /\ SessionInv /\ PromptInv => DialogIsFounded
  <2> SUFFICES ASSUME ScanInv, SessionInv, PromptInv, dialogs # <<>>
               PROVE  Rejected(run) /\ \E d \in Offered(run) : request.digest = <<d>>
    BY DEF DialogIsFounded
  <2>1. prompt # "none"
    BY DEF SessionInv, DialogInv
  <2>2. verdict[run] # None /\ request.digest = <<verdict[run]>>
    BY <2>1 DEF PromptInv
  <2>3. Rejected(run) /\ verdict[run] \in Offered(run)
    BY <2>2 DEF ScanInv, TypeOK, PromptIsFounded
  <2> QED
    BY <2>2, <2>3
<1>3. PromptSpec => []PromptInv
  BY <1>1, PromptInvStep, PTL DEF PromptSpec
<1> QED
  BY <1>2, <1>3, PartsInvariant, PTL
==============================================================================
