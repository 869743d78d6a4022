-------------------------- MODULE UserSessionProofs --------------------------
(***************************************************************************)
(* Theorems about UserSession, whatever sessions there are and however     *)
(* often they change.                                                      *)
(***************************************************************************)
EXTENDS UserSession, TextProofs, FiniteSetTheorems

(* The text of show-session is read line by line. *)
LEMMA FourLines ==
  ASSUME NEW start, NEW lines, Len(lines) = 4
  PROVE  Along(ReadLine, start, lines) =
           ReadLine(ReadLine(ReadLine(ReadLine(start, lines[1]), lines[2]),
                             lines[3]), lines[4])
<1> DEFINE one   == ReadLine(start, lines[1])
           two   == ReadLine(one, lines[2])
           three == ReadLine(two, lines[3])
           four  == ReadLine(three, lines[4])
           made[i \in 0 .. 4] ==
             IF i = 0 THEN start ELSE ReadLine(made[i - 1], lines[i])
           shown == [i \in 0 .. 4 |-> CASE i = 0 -> start [] i = 1 -> one
                       [] i = 2 -> two [] i = 3 -> three [] OTHER -> four]
<1>1. shown = [i \in 0 .. 4 |-> IF i = 0 THEN start ELSE ReadLine(shown[i - 1], lines[i])]
  <2> SUFFICES ASSUME NEW i \in 0 .. 4
               PROVE  shown[i] = IF i = 0 THEN start ELSE ReadLine(shown[i - 1], lines[i])
    OBVIOUS
  <2>1. i \in {0, 1, 2, 3, 4}
    OBVIOUS
  <2> QED
    BY <2>1
<1> HIDE DEF shown
<1>2. Along(ReadLine, start, lines) = made[4]
  BY DEF Along
<1>3. made = [i \in 0 .. 4 |-> IF i = 0 THEN start ELSE ReadLine(made[i - 1], lines[i])]
  BY <1>1
<1> HIDE DEF made
<1>4. made[0] = start
  BY <1>3
<1>5. \A i \in 1 .. 4 : made[i] = ReadLine(made[i - 1], lines[i])
  BY <1>3
<1>6. /\ made[1] = ReadLine(made[0], lines[1]) /\ made[2] = ReadLine(made[1], lines[2])
      /\ made[3] = ReadLine(made[2], lines[3]) /\ made[4] = ReadLine(made[3], lines[4])
  BY <1>5
<1> QED
  BY <1>2, <1>4, <1>6

Properties(active, remote, type, user) ==
  [Active |-> active, Remote |-> remote, Type |-> type, User |-> user]

(* Each line changes the property it names. *)
LEMMA FourProperties ==
  ASSUME NEW a, NEW r, NEW t, NEW u
  PROVE  /\ ReadLine(ReadLine(ReadLine(ReadLine(NoProperties, <<"Active", a>>),
                  <<"Remote", r>>), <<"Type", t>>), <<"User", u>>) = Properties(a, r, t, u)
         /\ ReadLine(ReadLine(ReadLine(ReadLine(NoProperties, <<"User", u>>),
                  <<"Type", t>>), <<"Remote", r>>), <<"Active", a>>) = Properties(a, r, t, u)
<1>1. PICK no, empty : NoProperties = Properties(no, no, empty, Unknown)
  BY DEF NoProperties, Properties
<1>2. ReadLine(Properties(no, no, empty, Unknown), <<"Active", a>>)
        = Properties(a, no, empty, Unknown)
  BY DEF ReadLine, Properties
<1>3. ReadLine(Properties(a, no, empty, Unknown), <<"Remote", r>>)
        = Properties(a, r, empty, Unknown)
  BY DEF ReadLine, Properties
<1>4. ReadLine(Properties(a, r, empty, Unknown), <<"Type", t>>) = Properties(a, r, t, Unknown)
  BY DEF ReadLine, Properties
<1>5. ReadLine(Properties(a, r, t, Unknown), <<"User", u>>) = Properties(a, r, t, u)
  BY DEF ReadLine, Properties
<1>6. ReadLine(Properties(no, no, empty, Unknown), <<"User", u>>)
        = Properties(no, no, empty, u)
  BY DEF ReadLine, Properties
<1>7. ReadLine(Properties(no, no, empty, u), <<"Type", t>>) = Properties(no, no, t, u)
  BY DEF ReadLine, Properties
<1>8. ReadLine(Properties(no, no, t, u), <<"Remote", r>>) = Properties(no, r, t, u)
  BY DEF ReadLine, Properties
<1>9. ReadLine(Properties(no, r, t, u), <<"Active", a>>) = Properties(a, r, t, u)
  BY DEF ReadLine, Properties
<1> QED
  BY <1>1, <1>2, <1>3, <1>4, <1>5, <1>6, <1>7, <1>8, <1>9

(* In whichever order logind shows the properties, the session yields its  *)
(* user when he is at the keyboard, and nobody otherwise.                  *)
LEMMA ShownIsAtKeyboard ==
  ASSUME logind \in Worlds, NEW s, NEW keys \in Keys
  PROVE  Shown(s, keys) = IF s \in AtKeyboard(logind) THEN logind[s]["User"] ELSE Unknown
<1>1. CASE s \notin DOMAIN logind
  BY <1>1 DEF Shown, AtKeyboard
<1>2. CASE s \in DOMAIN logind
  <2> DEFINE lines == [i \in DOMAIN keys |-> <<keys[i], logind[s][keys[i]]>>]
             p     == Properties(logind[s]["Active"], logind[s]["Remote"],
                                 logind[s]["Type"], logind[s]["User"])
             all   == Along(ReadLine, NoProperties, lines)
  <2>1. Shown(s, keys) = parse_graphical_session_uid(lines)
    BY <1>2 DEF Shown
  <2>2. DOMAIN keys = 1 .. 4 /\ Len(lines) = 4
    BY DEF Keys
  <2>3. all =
          ReadLine(ReadLine(ReadLine(ReadLine(NoProperties, lines[1]), lines[2]),
                            lines[3]), lines[4])
    <3> HIDE DEF lines
    <3> QED
      BY <2>2, FourLines
  <2>4. all = p
    <3>1. CASE keys = <<"Active", "Remote", "Type", "User">>
      <4>1. /\ lines[1] = <<"Active", logind[s]["Active"]>>
            /\ lines[2] = <<"Remote", logind[s]["Remote"]>>
            /\ lines[3] = <<"Type", logind[s]["Type"]>>
            /\ lines[4] = <<"User", logind[s]["User"]>>
        BY <3>1
      <4> HIDE DEF lines, all
      <4> QED
        BY <2>3, <4>1, FourProperties
    <3>2. CASE keys = <<"User", "Type", "Remote", "Active">>
      <4>1. /\ lines[4] = <<"Active", logind[s]["Active"]>>
            /\ lines[3] = <<"Remote", logind[s]["Remote"]>>
            /\ lines[2] = <<"Type", logind[s]["Type"]>>
            /\ lines[1] = <<"User", logind[s]["User"]>>
        BY <3>2
      <4> HIDE DEF lines, all
      <4> QED
        BY <2>3, <4>1, FourProperties
    <3> QED
      BY <3>1, <3>2 DEF Keys
  <2>5. logind[s]["Remote"] \in {"yes", "no"}
    BY <1>2, SessionAssumption
  <2> HIDE DEF lines
  <2> QED
    BY <1>2, <2>1, <2>4, <2>5 DEF parse_graphical_session_uid, AtKeyboard,
       Properties
<1> QED
  BY <1>1, <1>2

(* list-sessions names every session there is. *)
LEMMA AllAreListed ==
  ASSUME logind \in Worlds, NEW listed \in SetToSeqs(DOMAIN logind)
  PROVE  /\ listed \in Seq(DOMAIN logind)
         /\ \A s \in DOMAIN logind : \E i \in DOMAIN listed : listed[i] = s
<1> DEFINE n == Cardinality(DOMAIN logind)
<1>1. IsFiniteSet(DOMAIN logind)
  BY SessionAssumption
<1>2. n \in Nat
  BY <1>1, FS_CardinalityType
<1>3. IsFiniteSet(1 .. n) /\ Cardinality(1 .. n) = n
  BY <1>2, FS_Interval
<1>4. listed \in [1 .. n -> DOMAIN logind]
  BY DEF SetToSeqs
<1>5. listed \in Injection(1 .. n, DOMAIN logind)
  BY <1>4 DEF SetToSeqs, Injection, IsInjective
<1>6. listed \in Surjection(1 .. n, DOMAIN logind)
  BY <1>1, <1>3, <1>5, FS_Injection
<1> QED
  BY <1>2, <1>4, <1>6 DEF Surjection

------------------------------------------------------------------------------
(* The invariant behind the properties.                                    *)
Commands == {"list", "show", "name", "systemd-run", "su", "wait"}
Sessions == UNION {DOMAIN world : world \in Worlds}
Answers  == {"trusted", "declined", "failed"}

(* A dialog that somebody who sat at the keyboard got. *)
DialogType ==
  [user : owners, under : {"unit", "su"}, answer : Answers \cup {Unknown}]

SessionData ==
  /\ logind \in Worlds
  /\ changes \in 0 .. MaxChanges
  /\ prompt \in Commands \cup {"none", "done"}
  /\ request \in Requests \cup {Unknown}
  /\ queue \in Seq(Sessions)
  /\ fault \in BOOLEAN
  /\ dialogs \in Seq(DialogType)
  /\ result \in BOOLEAN \cup {Unknown}
  /\ prompt = "done" <=> result # Unknown

(* Who has been at the keyboard all the while is there now, and who is     *)
(* there now is an owner; the user the dialog is meant for is one of them. *)
HistoryInv ==
  /\ lasting \subseteq AtKeyboard(logind)
  /\ prompt # "none" => UsersOf(logind, AtKeyboard(logind)) \subseteq owners
  /\ prompt \in {"name", "systemd-run", "su", "wait"} => uid \in owners
  /\ Unknown \notin owners

(* The dialogs there are: none up to systemd-run, and, when no command     *)
(* fails, none for su either, and one at most after that.  The search      *)
(* passes nobody over, and a FALSE is returned over an answer that was no. *)
DialogInv ==
  /\ prompt \in {"none", "list", "show", "name", "systemd-run"} => dialogs = <<>>
  /\ prompt = "wait" => dialogs # <<>>
  /\ ~fault =>
       /\ prompt = "show" => \A s \in lasting : \E i \in DOMAIN queue : queue[i] = s
       /\ prompt = "su" => dialogs = <<>>
       /\ Len(dialogs) <= 1
       /\ prompt = "done" /\ lasting # {} => dialogs # <<>>
       /\ prompt = "done" /\ result = FALSE =>
            \A i \in DOMAIN dialogs : dialogs[i].answer \notin {"trusted", Unknown}

SessionInv == SessionData /\ HistoryInv /\ DialogInv

LEMMA SessionInvImplies ==
  SessionInv => /\ SessionTypeOK /\ SeatIsPrompted /\ OnlySeatIsPrompted
                /\ AskedOnceAndHeard
<1> SUFFICES ASSUME SessionInv
             PROVE  /\ SessionTypeOK /\ SeatIsPrompted /\ OnlySeatIsPrompted
                    /\ AskedOnceAndHeard
  OBVIOUS
<1>1. \A i \in DOMAIN dialogs : dialogs[i] \in DialogType
  BY DEF SessionInv, SessionData
<1>2. \A i \in DOMAIN dialogs : dialogs[i].user \in owners
  BY <1>1 DEF DialogType
<1>3. SessionTypeOK
  BY <1>2 DEF SessionInv, SessionData, HistoryInv, SessionTypeOK, AtKeyboard
<1>4. SeatIsPrompted /\ OnlySeatIsPrompted
  BY <1>2 DEF SessionInv, DialogInv, SeatIsPrompted, OnlySeatIsPrompted
<1>5. result = FALSE => prompt = "done"
  BY SessionAssumption DEF SessionInv, SessionData
<1>6. AskedOnceAndHeard
  BY <1>5 DEF SessionInv, DialogInv, AskedOnceAndHeard
<1> QED
  BY <1>3, <1>4, <1>6

LEMMA SessionInvStart == SessionInit => SessionInv
<1> SUFFICES ASSUME SessionInit PROVE SessionInv
  OBVIOUS
<1>1. SessionData
  <2>1. queue \in Seq(Sessions) /\ dialogs \in Seq(DialogType)
    BY DEF SessionInit
  <2>2. changes \in 0 .. MaxChanges
    BY SessionAssumption DEF SessionInit
  <2>3. prompt = "done" <=> result # Unknown
    BY DEF SessionInit
  <2> QED
    BY <2>1, <2>2, <2>3 DEF SessionInit, SessionData
<1>2. HistoryInv /\ DialogInv
  BY DEF SessionInit, HistoryInv, DialogInv
<1> QED
  BY <1>1, <1>2 DEF SessionInv

(* Dialogs keep their type as owners are added. *)
LEMMA DialogsKeepType ==
  ASSUME dialogs \in Seq(DialogType), owners \subseteq owners'
  PROVE  dialogs \in Seq(DialogType')
<1>1. DialogType \subseteq DialogType'
  BY DEF DialogType
<1> QED
  BY <1>1

LEMMA DialogAppended ==
  ASSUME dialogs \in Seq(DialogType), uid \in owners, UNCHANGED owners,
         NEW under \in {"unit", "su"}, dialogs' = Append(dialogs, Dialog(under))
  PROVE  /\ dialogs' \in Seq(DialogType') /\ dialogs' # <<>>
         /\ Len(dialogs') = Len(dialogs) + 1
         /\ dialogs' [Len(dialogs) + 1] = Dialog(under)
<1>1. Dialog(under) \in DialogType /\ DialogType' = DialogType
  BY DEF Dialog, DialogType
<1> QED
  BY <1>1

LEMMA SessionInvStep ==
  ASSUME SessionInv, [SessionNext]_sessionVars
  PROVE  SessionInv'
<1> USE DEF SessionInv
<1>1. ASSUME NEW r \in Requests, PromptStart(r) PROVE SessionInv'
  <2>1. SessionData'
    BY <1>1 DEF PromptStart, SessionData, DialogInv, Commands
  <2>2. HistoryInv'
    BY <1>1, SessionAssumption
    DEF PromptStart, SessionData, HistoryInv, UsersOf, AtKeyboard
  <2>3. DialogInv'
    BY <1>1 DEF PromptStart, DialogInv
  <2> QED
    BY <2>1, <2>2, <2>3
<1>2. CASE LogindChange
  <2>1. SessionData'
    BY <1>2, DialogsKeepType, SessionAssumption DEF LogindChange, SessionData
  <2>2. HistoryInv'
    BY <1>2, SessionAssumption
    DEF LogindChange, SessionData, HistoryInv, UsersOf, AtKeyboard
  <2>3. DialogInv'
    BY <1>2 DEF LogindChange, DialogInv
  <2> QED
    BY <2>1, <2>2, <2>3
<1>3. CASE ListSessions
  <2>1. SessionData'
    <3>1. dialogs' \in Seq(DialogType')
      BY <1>3, DialogsKeepType DEF ListSessions, SessionData, history
    <3>2. queue' \in Seq(Sessions)
      <4>1. DOMAIN logind \subseteq Sessions
        BY DEF SessionData, Sessions
      <4>2. queue' \in Seq(DOMAIN logind) \/ queue' = queue
        BY <1>3, AllAreListed DEF ListSessions, SessionData
      <4> QED
        BY <4>1, <4>2 DEF SessionData
    <3> QED
      BY <1>3, <3>1, <3>2, SessionAssumption
      DEF ListSessions, SessionData, Return, Commands
  <2>2. HistoryInv'
    BY <1>3 DEF ListSessions, SessionData, HistoryInv, history, Return
  <2>3. DialogInv'
    <3>1. prompt' = "show" => \A s \in lasting' : \E i \in DOMAIN queue' : queue'[i] = s
      BY <1>3, AllAreListed
      DEF ListSessions, SessionData, HistoryInv, history, Return, AtKeyboard
    <3> QED
      BY <1>3, <3>1 DEF ListSessions, DialogInv, history, Return
  <2> QED
    BY <2>1, <2>2, <2>3
<1>4. CASE ShowSession
  <2>1. PICK keys \in Keys :
          /\ uid' = Shown(Head(queue), keys)
          /\ IF uid' # Unknown THEN prompt' = "name" /\ UNCHANGED queue
             ELSE queue' = Tail(queue) /\ UNCHANGED prompt
    BY <1>4 DEF ShowSession
  <2>2. uid' = IF Head(queue) \in AtKeyboard(logind) THEN logind[Head(queue)]["User"]
               ELSE Unknown
    BY <2>1, ShownIsAtKeyboard DEF SessionData
  <2>3. /\ prompt = "show" /\ queue # <<>>
        /\ UNCHANGED <<logind, changes, request, fault, dialogs, result, lasting, owners>>
    BY <1>4 DEF ShowSession, history
  <2>4. SessionData'
    <3>1. dialogs' \in Seq(DialogType')
      BY <2>3, DialogsKeepType DEF SessionData
    <3>2. queue' \in Seq(Sessions)
      BY <2>1, <2>3, SMTT(30) DEF SessionData
    <3> QED
      BY <2>1, <2>3, <3>1, <3>2, SMTT(30) DEF SessionData, Commands
  <2>5. HistoryInv'
    <3>1. prompt' = "name" => uid' \in owners
      BY <2>1, <2>2, <2>3 DEF HistoryInv, UsersOf
    <3> QED
      BY <2>1, <2>3, <3>1 DEF HistoryInv
  <2>6. DialogInv'
    <3>1. ASSUME ~fault, uid' = Unknown, NEW s \in lasting
          PROVE  \E i \in DOMAIN Tail(queue) : Tail(queue)[i] = s
      <4>1. PICK i \in DOMAIN queue : queue[i] = s
        BY <2>3, <3>1 DEF DialogInv
      <4>2. Head(queue) \notin AtKeyboard(logind)
        BY <2>2, <3>1, SessionAssumption DEF SessionData, AtKeyboard
      <4>3. i # 1
        BY <4>1, <4>2, <2>3, <3>1 DEF HistoryInv, SessionData
      <4>4. i - 1 \in DOMAIN Tail(queue) /\ Tail(queue)[i - 1] = s
        BY <4>1, <4>3, <2>3 DEF SessionData
      <4> QED
        BY <4>4
    <3>2. ~fault' /\ prompt' = "show" =>
            \A s \in lasting' : \E i \in DOMAIN queue' : queue'[i] = s
      BY <2>1, <2>3, <3>1
    <3> QED
      BY <2>1, <2>3, <3>2 DEF DialogInv
  <2> QED
    BY <2>4, <2>5, <2>6
<1>5. CASE ShowFault
  <2>1. SessionData'
    <3>1. dialogs' \in Seq(DialogType')
      BY <1>5, DialogsKeepType DEF ShowFault, SessionData, history
    <3>2. queue' \in Seq(Sessions)
      BY <1>5 DEF ShowFault, SessionData, Return
    <3> QED
      BY <1>5, <3>1, <3>2, SessionAssumption DEF ShowFault, SessionData, Return, Commands
  <2>2. HistoryInv'
    BY <1>5 DEF ShowFault, HistoryInv, history, Return
  <2>3. DialogInv'
    BY <1>5 DEF ShowFault, DialogInv, Return
  <2> QED
    BY <2>1, <2>2, <2>3
<1>6. CASE NoSession
  <2>1. SessionData'
    <3>1. dialogs' \in Seq(DialogType')
      BY <1>6, DialogsKeepType DEF NoSession, SessionData, history
    <3> QED
      BY <1>6, <3>1, SessionAssumption DEF NoSession, SessionData, Return, Commands
  <2>2. HistoryInv'
    BY <1>6 DEF NoSession, HistoryInv, history, Return
  <2>3. DialogInv'
    BY <1>6 DEF NoSession, DialogInv, history, Return
  <2> QED
    BY <2>1, <2>2, <2>3
<1>7. CASE UidName
  <2>1. SessionData'
    <3>1. dialogs' \in Seq(DialogType')
      BY <1>7, DialogsKeepType DEF UidName, SessionData, history
    <3> QED
      BY <1>7, <3>1, SessionAssumption DEF UidName, SessionData, Return, Commands
  <2>2. HistoryInv'
    BY <1>7 DEF UidName, HistoryInv, history, Return
  <2>3. DialogInv'
    BY <1>7 DEF UidName, DialogInv, history, Return
  <2> QED
    BY <2>1, <2>2, <2>3
<1>8. CASE SystemdRun
  <2>1. UNCHANGED <<logind, changes, request, queue, uid, lasting, owners>>
    BY <1>8 DEF SystemdRun, history
  <2>2. dialogs = <<>> /\ prompt = "systemd-run" /\ uid \in owners
    BY <1>8 DEF SystemdRun, DialogInv, HistoryInv
  <2>3. CASE dialogs' = Append(dialogs, Dialog("unit"))
    <3>1. /\ dialogs' \in Seq(DialogType') /\ dialogs' # <<>> /\ Len(dialogs') = 1
      BY <2>1, <2>2, <2>3, DialogAppended DEF SessionData
    <3>2. \/ prompt' = "done" /\ result' = TRUE /\ fault' = fault
          \/ prompt' = "su" /\ fault' = TRUE /\ result' = result
          \/ prompt' = "su" /\ dialogs' = dialogs
      BY <1>8 DEF SystemdRun, Return
    <3>3. SessionData'
      BY <2>1, <2>2, <3>1, <3>2, SessionAssumption DEF SessionData, Commands
    <3>4. HistoryInv'
      BY <2>1, <2>2, <3>1, <3>2 DEF HistoryInv
    <3>5. DialogInv'
      BY <2>1, <2>2, <3>1, <3>2 DEF DialogInv
    <3> QED
      BY <3>3, <3>4, <3>5
  <2>4. CASE prompt' = "su" /\ fault' \in {fault, TRUE} /\ UNCHANGED <<dialogs, result>>
    <3>1. dialogs' \in Seq(DialogType')
      BY <2>1, <2>4, DialogsKeepType DEF SessionData
    <3>2. SessionData'
      BY <2>1, <2>2, <2>4, <3>1 DEF SessionData, Commands
    <3>3. HistoryInv'
      BY <2>1, <2>2, <2>4 DEF HistoryInv
    <3>4. DialogInv'
      BY <2>1, <2>2, <2>4 DEF DialogInv
    <3> QED
      BY <3>2, <3>3, <3>4
  <2> QED
    BY <1>8, <2>3, <2>4 DEF SystemdRun
<1>9. CASE Su
  <2>1. UNCHANGED <<logind, changes, request, queue, uid, lasting, owners>>
    BY <1>9 DEF Su, history
  <2>2. prompt = "su" /\ uid \in owners
    BY <1>9 DEF Su, HistoryInv
  <2>3. CASE /\ dialogs' = Append(dialogs, Dialog("su")) /\ prompt' = "wait"
             /\ UNCHANGED <<fault, result>>
    <3>1. /\ dialogs' \in Seq(DialogType') /\ dialogs' # <<>>
          /\ Len(dialogs') = Len(dialogs) + 1
      BY <2>1, <2>2, <2>3, DialogAppended DEF SessionData
    <3>2. SessionData'
      BY <2>1, <2>2, <2>3, <3>1 DEF SessionData, Commands
    <3>3. HistoryInv'
      BY <2>1, <2>2, <2>3 DEF HistoryInv
    <3>4. DialogInv'
      BY <2>1, <2>2, <2>3, <3>1 DEF DialogInv
    <3> QED
      BY <3>2, <3>3, <3>4
  <2>4. CASE fault' = TRUE /\ Return(FALSE) /\ UNCHANGED dialogs
    <3>1. dialogs' \in Seq(DialogType')
      BY <2>1, <2>4, DialogsKeepType DEF SessionData
    <3>2. SessionData'
      BY <2>1, <2>2, <2>4, <3>1, SessionAssumption DEF SessionData, Return, Commands
    <3>3. HistoryInv'
      BY <2>1, <2>2, <2>4 DEF HistoryInv, Return
    <3>4. DialogInv'
      BY <2>1, <2>2, <2>4 DEF DialogInv, Return
    <3> QED
      BY <3>2, <3>3, <3>4
  <2> QED
    BY <1>9, <2>3, <2>4 DEF Su
<1>10. CASE SuReturns
  <2>1. /\ prompt = "wait" /\ prompt' = "done" /\ dialogs # <<>>
        /\ result' = (Last(dialogs).answer = "trusted") /\ Last(dialogs).answer # Unknown
        /\ UNCHANGED <<logind, changes, request, queue, uid, fault, dialogs, lasting, owners>>
    BY <1>10 DEF SuReturns, Return, history, DialogInv
  <2>2. SessionData'
    <3>1. dialogs' \in Seq(DialogType')
      BY <2>1, DialogsKeepType DEF SessionData
    <3>2. result' \in BOOLEAN /\ result' # Unknown
      BY <2>1, SessionAssumption
    <3> QED
      BY <2>1, <3>1, <3>2 DEF SessionData, Commands
  <2>3. HistoryInv'
    BY <2>1 DEF HistoryInv
  <2>4. DialogInv'
    <3>1. ASSUME ~fault, NEW i \in DOMAIN dialogs PROVE dialogs[i] = Last(dialogs)
      <4>1. Len(dialogs) <= 1
        BY <3>1 DEF DialogInv
      <4>2. dialogs \in Seq(DialogType)
        BY DEF SessionData
      <4>3. DOMAIN dialogs = 1 .. Len(dialogs) /\ Len(dialogs) \in Nat
        BY <4>2
      <4>4. i = Len(dialogs)
        BY <4>1, <4>3
      <4> QED
        BY <4>4 DEF Last
    <3>2. ~fault /\ result' = FALSE =>
            \A i \in DOMAIN dialogs : dialogs[i].answer \notin {"trusted", Unknown}
      BY <2>1, <3>1
    <3> QED
      BY <2>1, <3>2 DEF DialogInv
  <2> QED
    BY <2>2, <2>3, <2>4
<1>11. CASE Answer
  <2>1. PICK i \in DOMAIN dialogs, a \in Answers :
          /\ dialogs[i].answer = Unknown
          /\ dialogs' = [dialogs EXCEPT ![i].answer = a]
    BY <1>11 DEF Answer, Answers
  <2>2. UNCHANGED <<logind, changes, prompt, request, queue, uid, fault, result,
                    lasting, owners>>
    BY <1>11 DEF Answer, history
  <2>3. dialogs \in Seq(DialogType) /\ DialogType' = DialogType
    BY <2>2 DEF SessionData, DialogType
  <2>4. dialogs' \in Seq(DialogType) /\ Len(dialogs') = Len(dialogs)
    <3>1. dialogs[i] \in DialogType
      BY <2>3
    <3>2. [dialogs[i] EXCEPT !.answer = a] \in DialogType
      BY <3>1 DEF DialogType
    <3>3. dialogs' = [dialogs EXCEPT ![i] = [dialogs[i] EXCEPT !.answer = a]]
      BY <2>1
    <3> QED
      BY <2>3, <3>2, <3>3
  <2>5. SessionData'
    BY <2>2, <2>3, <2>4 DEF SessionData
  <2>6. HistoryInv'
    BY <2>2 DEF HistoryInv
  <2>7. DialogInv'
    <3>1. dialogs # <<>> /\ dialogs' # <<>>
      BY <2>1, <2>3, <2>4
    <3>2. ~fault => ~(prompt = "done" /\ result = FALSE)
      <4> SUFFICES ASSUME ~fault, prompt = "done", result = FALSE PROVE FALSE
        OBVIOUS
      <4>1. dialogs[i].answer \notin {"trusted", Unknown}
        BY DEF DialogInv
      <4> QED
        BY <4>1, <2>1
    <3> QED
      BY <2>2, <2>4, <3>1, <3>2 DEF DialogInv
  <2> QED
    BY <2>5, <2>6, <2>7
<1>12. CASE UNCHANGED sessionVars
  <2>1. SessionData'
    <3>1. dialogs' \in Seq(DialogType')
      BY <1>12, DialogsKeepType DEF sessionVars, SessionData
    <3> QED
      BY <1>12, <3>1 DEF sessionVars, SessionData
  <2>2. HistoryInv' /\ DialogInv'
    BY <1>12 DEF sessionVars, HistoryInv, DialogInv
  <2> QED
    BY <2>1, <2>2
<1> QED
  BY <1>1, <1>2, <1>3, <1>4, <1>5, <1>6, <1>7, <1>8, <1>9, <1>10, <1>11, <1>12
  DEF SessionNext, Spawn

LEMMA SessionInvariant == SessionInit /\ [][SessionNext]_sessionVars => []SessionInv
  BY SessionInvStart, SessionInvStep, PTL

(* Every variable keeps its type, and the prompt is done exactly when it   *)
(* has returned something (spawn_in_user_session).                         *)
THEOREM SessionTypeCorrect == SessionSpec => []SessionTypeOK
  BY SessionInvariant, SessionInvImplies, PTL DEF SessionSpec

(* Whoever sits at the keyboard all the while is asked, however many other *)
(* sessions there are and however often they change between the commands,  *)
(* unless a command fails (active_graphical_uid).                          *)
THEOREM SeatPrompted == SessionSpec => []SeatIsPrompted
  BY SessionInvariant, SessionInvImplies, PTL DEF SessionSpec

(* No dialog opens for a user who had no active, local, graphical session  *)
(* at any moment of the prompt, also when commands fail                    *)
(* (parse_graphical_session_uid, active_graphical_uid).                    *)
THEOREM OnlySeatPrompted == SessionSpec => []OnlySeatIsPrompted
  BY SessionInvariant, SessionInvImplies, PTL DEF SessionSpec

(* While no command fails there is one dialog at most, and no FALSE over a *)
(* certificate the user trusted (spawn_in_user_session).                   *)
THEOREM AskedOnce == SessionSpec => []AskedOnceAndHeard
  BY SessionInvariant, SessionInvImplies, PTL DEF SessionSpec
------------------------------------------------------------------------------
(* What the shell has made of a part of a command line. *)
ShellStates(C) ==
  [words : Seq(Seq(C)), word : Seq(C), open : BOOLEAN,
   mode : {"plain", "quoted", "escaped"}]

State(words, word, open, mode) ==
  [words |-> words, word |-> word, open |-> open, mode |-> mode]

(* What the shell makes of a character, by where it stands. *)
LEMMA ShellCases ==
  ASSUME NEW words, NEW word, NEW open, NEW c
  PROVE  /\ ShellStep(State(words, word, open, "escaped"), c)
              = State(words, Append(word, c), TRUE, "plain")
         /\ c # "'" => ShellStep(State(words, word, open, "quoted"), c)
              = State(words, Append(word, c), TRUE, "quoted")
         /\ ShellStep(State(words, word, open, "quoted"), "'")
              = State(words, word, TRUE, "plain")
         /\ ShellStep(State(words, word, open, "plain"), "'")
              = State(words, word, TRUE, "quoted")
         /\ ShellStep(State(words, word, open, "plain"), "\\")
              = State(words, word, open, "escaped")
         /\ ShellStep(State(words, word, open, "plain"), " ")
              = State(IF open THEN Append(words, word) ELSE words, <<>>, FALSE, "plain")
         /\ c \notin {"'", "\\", " "} => ShellStep(State(words, word, open, "plain"), c)
              = State(words, Append(word, c), TRUE, "plain")
<1>1. ShellStep(State(words, word, open, "escaped"), c)
        = State(words, Append(word, c), TRUE, "plain")
  BY DEF ShellStep, State
<1>2. c # "'" => ShellStep(State(words, word, open, "quoted"), c)
                   = State(words, Append(word, c), TRUE, "quoted")
  BY DEF ShellStep, State
<1>3. ShellStep(State(words, word, open, "quoted"), "'")
        = State(words, word, TRUE, "plain")
  BY DEF ShellStep, State
<1>4. ShellStep(State(words, word, open, "plain"), "'")
        = State(words, word, TRUE, "quoted")
  BY DEF ShellStep, State
<1>5. ShellStep(State(words, word, open, "plain"), "\\")
        = State(words, word, open, "escaped")
  BY DEF ShellStep, State
<1>6. ShellStep(State(words, word, open, "plain"), " ")
        = State(IF open THEN Append(words, word) ELSE words, <<>>, FALSE, "plain")
  BY DEF ShellStep, State
<1>7. c \notin {"'", "\\", " "} => ShellStep(State(words, word, open, "plain"), c)
        = State(words, Append(word, c), TRUE, "plain")
  BY DEF ShellStep, State
<1> QED
  BY <1>1, <1>2, <1>3, <1>4, <1>5, <1>6, <1>7

LEMMA ShellStepType ==
  ASSUME NEW C, NEW sh \in ShellStates(C), NEW c \in C
  PROVE  ShellStep(sh, c) \in ShellStates(C)
<1>1. PICK words \in Seq(Seq(C)), word \in Seq(C), open \in BOOLEAN,
           mode \in {"plain", "quoted", "escaped"} : sh = State(words, word, open, mode)
  BY DEF ShellStates, State
<1>2. Append(words, word) \in Seq(Seq(C)) /\ Append(word, c) \in Seq(C) /\ <<>> \in Seq(C)
  OBVIOUS
<1>3. /\ State(words, Append(word, c), TRUE, "plain") \in ShellStates(C)
      /\ State(words, Append(word, c), TRUE, "quoted") \in ShellStates(C)
      /\ State(words, word, TRUE, "plain") \in ShellStates(C)
      /\ State(words, word, TRUE, "quoted") \in ShellStates(C)
      /\ State(words, word, open, "escaped") \in ShellStates(C)
      /\ State(words, <<>>, FALSE, "plain") \in ShellStates(C)
      /\ State(Append(words, word), <<>>, FALSE, "plain") \in ShellStates(C)
  BY <1>2 DEF State, ShellStates
<1>4. CASE mode = "escaped"
  <2>1. sh = State(words, word, open, "escaped")
    BY <1>1, <1>4
  <2>2. ShellStep(State(words, word, open, "escaped"), c)
          = State(words, Append(word, c), TRUE, "plain")
    BY DEF ShellStep, State
  <2>3. ShellStep(sh, c) = State(words, Append(word, c), TRUE, "plain")
    BY <2>1, <2>2
  <2> QED
    BY <1>3, <2>3, Zenon
<1>5. CASE mode = "quoted"
  <2>1. sh = State(words, word, open, "quoted")
    BY <1>1, <1>5
  <2>2. \/ ShellStep(State(words, word, open, "quoted"), c)
             = State(words, Append(word, c), TRUE, "quoted")
        \/ ShellStep(State(words, word, open, "quoted"), c)
             = State(words, word, TRUE, "plain")
    <3>1. CASE c = "'"
      BY <3>1 DEF ShellStep, State
    <3>2. CASE c # "'"
      BY <3>2 DEF ShellStep, State
    <3> QED
      BY <3>1, <3>2
  <2>3. \/ ShellStep(sh, c) = State(words, Append(word, c), TRUE, "quoted")
        \/ ShellStep(sh, c) = State(words, word, TRUE, "plain")
    BY <2>1, <2>2, Zenon
  <2> QED
    BY <1>3, <2>3, Zenon
<1>6. CASE mode = "plain"
  <2>1. CASE c = "'"
    <3>1. ShellStep(sh, c) = State(words, word, TRUE, "quoted")
      BY <1>1, <1>6, <2>1, ShellCases, ZenonT(60)
    <3> QED
      BY <1>3, <3>1, Zenon
  <2>2. CASE c = "\\"
    <3>1. ShellStep(sh, c) = State(words, word, open, "escaped")
      BY <1>1, <1>6, <2>2, ShellCases, ZenonT(60)
    <3> QED
      BY <1>3, <3>1, Zenon
  <2>3. CASE c = " "
    <3>1. State(IF open THEN Append(words, word) ELSE words, <<>>, FALSE, "plain")
            \in ShellStates(C)
      <4>1. CASE open
        BY <1>3, <4>1
      <4>2. CASE ~open
        BY <1>3, <4>2
      <4> QED
        BY <4>1, <4>2
    <3>2. ShellStep(sh, c) =
            State(IF open THEN Append(words, word) ELSE words, <<>>, FALSE, "plain")
      BY <1>1, <1>6, <2>3, ShellCases, ZenonT(60)
    <3> QED
      BY <3>1, <3>2
  <2>4. CASE c \notin {"'", "\\", " "}
    <3>0. ShellStep(State(words, word, open, "plain"), c)
            = State(words, Append(word, c), TRUE, "plain")
      BY <2>4 DEF ShellStep, State
    <3>1. ShellStep(sh, c) = State(words, Append(word, c), TRUE, "plain")
      BY <1>1, <1>6, <3>0, Zenon
    <3> QED
      BY <1>3, <3>1, Zenon
  <2> QED
    BY <2>1, <2>2, <2>3, <2>4
<1> QED
  BY <1>4, <1>5, <1>6

ShellMachine(C) == [c \in C |-> [sh \in ShellStates(C) |-> ShellStep(sh, c)]]

LEMMA ShellMachineType ==
  ASSUME NEW C
  PROVE  /\ ShellMachine(C) \in Machines(C, ShellStates(C))
         /\ \A c \in C, sh \in ShellStates(C) : ShellMachine(C)[c][sh] = ShellStep(sh, c)
<1>1. \A c \in C, sh \in ShellStates(C) : ShellStep(sh, c) \in ShellStates(C)
  BY ShellStepType
<1> QED
  BY <1>1 DEF ShellMachine, Machines

LEMMA ShellAlong ==
  ASSUME NEW C, NEW start \in ShellStates(C), NEW text \in Seq(C)
  PROVE  Along(ShellStep, start, text) = Drive(ShellMachine(C), start, text)
<1> DEFINE n  == Len(text)
           A  == ShellStates(C)
           op == ShellMachine(C)
           made[i \in 0 .. n] ==
             IF i = 0 THEN start ELSE ShellStep(made[i - 1], text[i])
<1>1. n \in Nat /\ \A i \in 1 .. n : text[i] \in C
  OBVIOUS
<1>2. Along(ShellStep, start, text) = made[n]
  BY DEF Along
<1>3. op \in Machines(C, A) /\ \A c \in C, sh \in A : op[c][sh] = ShellStep(sh, c)
  BY ShellMachineType
<1> HIDE DEF op
<1>4. PICK g \in [0 .. n -> A] :
        /\ g[0] = start
        /\ \A i \in 1 .. n : g[i] = op[text[i]][g[i - 1]]
  <2> HIDE DEF A
  <2> QED
    BY <1>3, DriveTrace DEF A
<1> HIDE DEF A, n
<1>5. g = [i \in 0 .. n |-> IF i = 0 THEN start ELSE ShellStep(g[i - 1], text[i])]
  <2>1. ASSUME NEW i \in 1 .. n PROVE g[i] = ShellStep(g[i - 1], text[i])
    <3>1. i - 1 \in 0 .. n
      BY <1>1
    <3>2. g[i - 1] \in A /\ text[i] \in C
      BY <1>1, <1>4, <3>1
    <3>3. g[i] = op[text[i]][g[i - 1]]
      BY <1>4
    <3> QED
      BY <1>3, <3>2, <3>3
  <2>2. \A i \in 0 .. n : i # 0 => i \in 1 .. n
    BY <1>1
  <2>3. g = [i \in 0 .. n |-> g[i]]
    BY <1>4
  <2> QED
    BY <1>4, <2>1, <2>2, <2>3
<1>6. made = [i \in 0 .. n |-> IF i = 0 THEN start ELSE ShellStep(made[i - 1], text[i])]
  BY <1>5
<1> HIDE DEF made
<1>7. made[0] = start
  <2>1. 0 \in 0 .. n
    BY <1>1
  <2> QED
    BY <1>6, <2>1
<1>8. ASSUME NEW i \in 1 .. n, made[i - 1] \in A PROVE made[i] = op[text[i]][made[i - 1]]
  <2>1. i \in 0 .. n /\ i # 0
    BY <1>1
  <2>2. made[i] = ShellStep(made[i - 1], text[i])
    BY <1>6, <2>1
  <2> QED
    BY <1>1, <1>3, <1>8, <2>2
<1>9. made[n] = Drive(op, start, text)
  BY <1>3, <1>7, <1>8, DriveUnique DEF A, n
<1> QED
  BY <1>2, <1>9 DEF op

(* What the shell makes of a part of a command line, from where it stands. *)
Marks == {"'", "\\", " "}

LEMMA ShellDrive ==
  ASSUME NEW C, NEW start \in ShellStates(C)
  PROVE  /\ Drive(ShellMachine(C), start, <<>>) = start
         /\ \A text \in Seq(C), c \in C :
              Drive(ShellMachine(C), start, Append(text, c))
                = ShellStep(Drive(ShellMachine(C), start, text), c)
         /\ \A text \in Seq(C) : Drive(ShellMachine(C), start, text) \in ShellStates(C)
         /\ \A text, rest \in Seq(C) :
              Drive(ShellMachine(C), start, text \o rest)
                = Drive(ShellMachine(C), Drive(ShellMachine(C), start, text), rest)
<1> DEFINE A  == ShellStates(C)
           op == ShellMachine(C)
<1>1. op \in Machines(C, A) /\ \A c \in C, sh \in A : op[c][sh] = ShellStep(sh, c)
  BY ShellMachineType
<1> HIDE DEF A, op
<1>2. start \in A
  BY DEF A
<1>3. Drive(op, start, <<>>) = start
  BY <1>1, <1>2, DriveEmpty
<1>4. ASSUME NEW text \in Seq(C)
      PROVE  Drive(op, start, text) \in A
  <2>1. PICK g \in [0 .. Len(text) -> A] : Drive(op, start, text) = g[Len(text)]
    BY <1>1, <1>2, DriveTrace
  <2>2. Len(text) \in 0 .. Len(text)
    OBVIOUS
  <2> QED
    BY <2>1, <2>2
<1>5. ASSUME NEW text \in Seq(C), NEW c \in C
      PROVE  Drive(op, start, Append(text, c)) = ShellStep(Drive(op, start, text), c)
  <2>1. Drive(op, start, Append(text, c)) = op[c][Drive(op, start, text)]
    BY <1>1, <1>2, DriveAppend
  <2> QED
    BY <1>1, <1>4, <2>1
<1>6. ASSUME NEW text \in Seq(C), NEW rest \in Seq(C)
      PROVE  Drive(op, start, text \o rest) = Drive(op, Drive(op, start, text), rest)
  BY <1>1, <1>2, DriveConcat
<1> QED
  BY <1>3, <1>4, <1>5, <1>6 DEF A, op

LEMMA StateType ==
  ASSUME NEW C, NEW words \in Seq(Seq(C)), NEW word \in Seq(C), NEW open \in BOOLEAN,
         NEW mode \in {"plain", "quoted", "escaped"}
  PROVE  State(words, word, open, mode) \in ShellStates(C)
BY DEF State, ShellStates

(* A character in quotes, as the service writes it. *)
Escape(c) == IF c = "'" THEN <<"'", "\\", "'", "'">> ELSE <<c>>

LEMMA EscapeDriven ==
  ASSUME NEW C, Marks \subseteq C, NEW words \in Seq(Seq(C)), NEW word \in Seq(C), NEW c \in C
  PROVE  /\ Escape(c) \in Seq(C)
         /\ Drive(ShellMachine(C), State(words, word, TRUE, "quoted"), Escape(c))
              = State(words, Append(word, c), TRUE, "quoted")
<1> DEFINE op    == ShellMachine(C)
           start == State(words, word, TRUE, "quoted")
<1>1. start \in ShellStates(C)
  BY StateType
<1> HIDE DEF op, start
<1>2. /\ Drive(op, start, <<>>) = start
      /\ \A text \in Seq(C), d \in C :
           Drive(op, start, Append(text, d)) = ShellStep(Drive(op, start, text), d)
  BY <1>1, ShellDrive DEF op
<1>3. CASE c = "'"
  <2>1. "'" \in C /\ "\\" \in C
    BY DEF Marks
  <2>2. /\ <<>> \in Seq(C) /\ <<"'">> \in Seq(C) /\ <<"'", "\\">> \in Seq(C)
        /\ <<"'", "\\", "'">> \in Seq(C) /\ <<"'", "\\", "'", "'">> \in Seq(C)
    BY <2>1
  <2>3. /\ <<"'">> = Append(<<>>, "'") /\ <<"'", "\\">> = Append(<<"'">>, "\\")
        /\ <<"'", "\\", "'">> = Append(<<"'", "\\">>, "'")
        /\ <<"'", "\\", "'", "'">> = Append(<<"'", "\\", "'">>, "'")
    OBVIOUS
  <2>4. Drive(op, start, <<"'">>) = State(words, word, TRUE, "plain")
    <3>1. Drive(op, start, <<"'">>) = ShellStep(start, "'")
      BY <1>2, <2>1, <2>2, <2>3
    <3> QED
      BY <3>1 DEF ShellStep, State, start
  <2>5. Drive(op, start, <<"'", "\\">>) = State(words, word, TRUE, "escaped")
    <3>1. Drive(op, start, <<"'", "\\">>) = ShellStep(State(words, word, TRUE, "plain"), "\\")
      BY <1>2, <2>1, <2>2, <2>3, <2>4
    <3> QED
      BY <3>1 DEF ShellStep, State
  <2>6. Drive(op, start, <<"'", "\\", "'">>) = State(words, Append(word, "'"), TRUE, "plain")
    <3>1. Drive(op, start, <<"'", "\\", "'">>)
            = ShellStep(State(words, word, TRUE, "escaped"), "'")
      BY <1>2, <2>1, <2>2, <2>3, <2>5
    <3> QED
      BY <3>1 DEF ShellStep, State
  <2>7. Drive(op, start, <<"'", "\\", "'", "'">>)
          = State(words, Append(word, "'"), TRUE, "quoted")
    <3>1. Drive(op, start, <<"'", "\\", "'", "'">>)
            = ShellStep(State(words, Append(word, "'"), TRUE, "plain"), "'")
      BY <1>2, <2>1, <2>2, <2>3, <2>6
    <3> QED
      BY <3>1 DEF ShellStep, State
  <2> QED
    BY <1>3, <2>2, <2>7 DEF Escape, op, start
<1>4. CASE c # "'"
  <2>1. <<c>> = Append(<<>>, c) /\ <<>> \in Seq(C) /\ <<c>> \in Seq(C)
    OBVIOUS
  <2>2. Drive(op, start, <<c>>) = ShellStep(start, c)
    BY <1>2, <2>1
  <2>3. ShellStep(start, c) = State(words, Append(word, c), TRUE, "quoted")
    BY <1>4 DEF ShellStep, State, start
  <2> QED
    BY <1>4, <2>1, <2>2, <2>3 DEF Escape, op, start
<1> QED
  BY <1>3, <1>4

Escaped(text) == [i \in DOMAIN text |-> Escape(text[i])]

LEMMA QuoteDriven ==
  ASSUME NEW C, Marks \subseteq C, NEW words \in Seq(Seq(C)), NEW word \in Seq(C),
         NEW open \in BOOLEAN
  PROVE  /\ shell_single_quote(word) \in Seq(C)
         /\ Drive(ShellMachine(C), State(words, <<>>, open, "plain"), shell_single_quote(word))
              = State(words, word, TRUE, "plain")
<1> DEFINE op == ShellMachine(C)
           S  == {w \in Seq(C) :
                    /\ FlattenSeq(Escaped(w)) \in Seq(C)
                    /\ Drive(op, State(words, <<>>, TRUE, "quoted"), FlattenSeq(Escaped(w)))
                         = State(words, w, TRUE, "quoted")}
<1>1. <<>> \in Seq(C) /\ "'" \in C /\ <<"'">> \in Seq(C)
  <2>1. "'" \in C
    BY DEF Marks
  <2> QED
    BY <2>1
<1>2. State(words, <<>>, TRUE, "quoted") \in ShellStates(C)
  BY <1>1, StateType
<1>3. <<>> \in S
  <2>1. Escaped(<<>>) = <<>>
    BY DEF Escaped
  <2>2. FlattenSeq(Escaped(<<>>)) = <<>>
    BY <2>1, FlattenEmpty
  <2>3. Drive(op, State(words, <<>>, TRUE, "quoted"), <<>>) = State(words, <<>>, TRUE, "quoted")
    BY <1>2, ShellDrive, Zenon
  <2> QED
    BY <1>1, <2>2, <2>3
<1>4. ASSUME NEW w \in Seq(C), NEW c \in C, w \in S PROVE Append(w, c) \in S
  <2>1. Escaped(Append(w, c)) = Append(Escaped(w), Escape(c))
    BY DEF Escaped
  <2>2. \A d \in C : Escape(d) \in Seq(C)
    BY <1>1, EscapeDriven
  <2>3. Escaped(w) \in Seq(Seq(C))
    <3>1. \A i \in 1 .. Len(w) : Escape(w[i]) \in Seq(C)
      BY <2>2
    <3>2. Escaped(w) = [i \in 1 .. Len(w) |-> Escape(w[i])] /\ Len(w) \in Nat
      BY DEF Escaped
    <3> QED
      BY <3>1, <3>2
  <2>4. /\ FlattenSeq(Append(Escaped(w), Escape(c))) = FlattenSeq(Escaped(w)) \o Escape(c)
    BY <2>2, <2>3, FlattenAppend
  <2>5. FlattenSeq(Escaped(w)) \in Seq(C) /\ Escape(c) \in Seq(C)
    BY <1>4, <2>2
  <2>6. Drive(op, State(words, <<>>, TRUE, "quoted"), FlattenSeq(Escaped(w)) \o Escape(c))
          = Drive(op, State(words, w, TRUE, "quoted"), Escape(c))
    <3> DEFINE before == FlattenSeq(Escaped(w))
               more   == Escape(c)
               start  == State(words, <<>>, TRUE, "quoted")
    <3>1. /\ before \in Seq(C) /\ more \in Seq(C) /\ start \in ShellStates(C)
          /\ Drive(op, start, before) = State(words, w, TRUE, "quoted")
      BY <1>2, <1>4, <2>5
    <3> HIDE DEF before, more, start, op
    <3>2. Drive(op, start, before \o more) = Drive(op, Drive(op, start, before), more)
      BY <3>1, ShellDrive DEF op
    <3> QED
      BY <3>1, <3>2 DEF before, more, start
  <2>7. Drive(op, State(words, w, TRUE, "quoted"), Escape(c))
          = State(words, Append(w, c), TRUE, "quoted")
    BY EscapeDriven
  <2>8. FlattenSeq(Escaped(w)) \o Escape(c) \in Seq(C) /\ Append(w, c) \in Seq(C)
    BY <2>5
  <2> QED
    BY <2>1, <2>4, <2>6, <2>7, <2>8
<1>5. Seq(C) \subseteq S
  <2> HIDE DEF S
  <2> QED
    BY <1>3, <1>4, TextInduction
<1> DEFINE body == FlattenSeq(Escaped(word))
<1>6. /\ body \in Seq(C)
      /\ Drive(op, State(words, <<>>, TRUE, "quoted"), body) = State(words, word, TRUE, "quoted")
  BY <1>5
<1>7. shell_single_quote(word) = (<<"'">> \o body) \o <<"'">>
  <2>1. Escaped(word) = [i \in DOMAIN word |-> IF word[i] = "'" THEN <<"'", "\\", "'", "'">>
                                               ELSE <<word[i]>>]
    BY DEF Escaped, Escape
  <2> QED
    BY <2>1 DEF shell_single_quote
<1> HIDE DEF body, op, S
<1> DEFINE start == State(words, <<>>, open, "plain")
<1>8. start \in ShellStates(C)
  BY <1>1, StateType
<1>9. Drive(op, start, <<"'">>) = State(words, <<>>, TRUE, "quoted")
  <2>1. <<"'">> = Append(<<>>, "'")
    OBVIOUS
  <2> HIDE DEF start
  <2>2. Drive(op, start, Append(<<>>, "'")) = ShellStep(Drive(op, start, <<>>), "'")
    BY <1>1, <1>8, ShellDrive DEF op
  <2>3. Drive(op, start, <<>>) = start
    BY <1>8, ShellDrive, Zenon DEF op
  <2>4. ShellStep(start, "'") = State(words, <<>>, TRUE, "quoted")
    BY DEF ShellStep, State, start
  <2> QED
    BY <2>1, <2>2, <2>3, <2>4
<1> HIDE DEF start
<1>10. Drive(op, start, <<"'">> \o body) = State(words, word, TRUE, "quoted")
  <2>1. Drive(op, start, <<"'">> \o body) = Drive(op, Drive(op, start, <<"'">>), body)
    BY <1>1, <1>6, <1>8, ShellDrive DEF op
  <2> QED
    BY <1>6, <1>9, <2>1
<1> DEFINE opened == <<"'">> \o body
<1>11. opened \in Seq(C)
  BY <1>1, <1>6
<1>12. opened \o <<"'">> = Append(opened, "'")
  BY <1>11
<1> HIDE DEF opened
<1>13. Drive(op, start, Append(opened, "'")) = State(words, word, TRUE, "plain")
  <2>1. Drive(op, start, Append(opened, "'")) = ShellStep(Drive(op, start, opened), "'")
    BY <1>1, <1>8, <1>11, ShellDrive DEF op
  <2>2. ShellStep(State(words, word, TRUE, "quoted"), "'") = State(words, word, TRUE, "plain")
    BY DEF ShellStep, State
  <2> QED
    BY <1>10, <2>1, <2>2 DEF opened
<1>14. Append(opened, "'") \in Seq(C)
  BY <1>1, <1>11
<1> QED
  BY <1>7, <1>12, <1>13, <1>14 DEF opened, op, start

(* The quoted words, each with a blank before it. *)
Quoted(words) == [i \in DOMAIN words |-> <<" ">> \o shell_single_quote(words[i])]
Idle(words)   == State(words, <<>>, FALSE, "plain")

LEMMA BlankDriven ==
  ASSUME NEW C, Marks \subseteq C, NEW words \in Seq(Seq(C)), NEW word \in Seq(C)
  PROVE  /\ " " \in C /\ <<" ">> \in Seq(C)
         /\ Idle(words) \in ShellStates(C)
         /\ Drive(ShellMachine(C), Idle(words), <<" ">>) = Idle(words)
         /\ ShellStep(State(words, word, TRUE, "plain"), " ") = Idle(Append(words, word))
<1>1. <<>> \in Seq(C) /\ <<" ">> = Append(<<>>, " ")
  OBVIOUS
<1>2. " " \in C
  BY DEF Marks
<1>3. <<" ">> \in Seq(C)
  <2>1. \A c \in C : <<c>> \in Seq(C)
    OBVIOUS
  <2> QED
    BY <1>2, <2>1
<1>4. Idle(words) \in ShellStates(C)
  BY <1>1, StateType DEF Idle
<1>5. Drive(ShellMachine(C), Idle(words), Append(<<>>, " "))
        = ShellStep(Drive(ShellMachine(C), Idle(words), <<>>), " ")
  BY <1>1, <1>2, <1>4, ShellDrive
<1>6. Drive(ShellMachine(C), Idle(words), <<>>) = Idle(words)
  BY <1>4, ShellDrive, Zenon
<1>7. ShellStep(Idle(words), " ") = Idle(words)
  BY DEF ShellStep, State, Idle
<1>8. ShellStep(State(words, word, TRUE, "plain"), " ") = Idle(Append(words, word))
  BY DEF ShellStep, State, Idle
<1> QED
  BY <1>1, <1>2, <1>3, <1>4, <1>5, <1>6, <1>7, <1>8

LEMMA WordDriven ==
  ASSUME NEW C, Marks \subseteq C, NEW words \in Seq(Seq(C)), NEW word \in Seq(C)
  PROVE  /\ <<" ">> \o shell_single_quote(word) \in Seq(C)
         /\ Drive(ShellMachine(C), Idle(words), <<" ">> \o shell_single_quote(word))
              = State(words, word, TRUE, "plain")
<1> DEFINE quote == shell_single_quote(word)
           start == Idle(words)
           blank == <<" ">>
<1>1. /\ quote \in Seq(C)
      /\ Drive(ShellMachine(C), start, quote) = State(words, word, TRUE, "plain")
  BY QuoteDriven DEF Idle
<1>2. /\ blank \in Seq(C) /\ start \in ShellStates(C)
      /\ Drive(ShellMachine(C), start, blank) = start
  BY BlankDriven
<1> HIDE DEF quote, start, blank
<1>3. Drive(ShellMachine(C), start, blank \o quote)
        = Drive(ShellMachine(C), Drive(ShellMachine(C), start, blank), quote)
  BY <1>1, <1>2, ShellDrive
<1>4. blank \o quote \in Seq(C)
  BY <1>1, <1>2
<1> QED
  BY <1>1, <1>2, <1>3, <1>4 DEF quote, start, blank

LEMMA QuotedDriven ==
  ASSUME NEW C, Marks \subseteq C, NEW words \in Seq(Seq(C))
  PROVE  LET line == FlattenSeq(Quoted(words))
         IN /\ line \in Seq(C)
            /\ words # <<>> => line # <<>> /\ Head(line) = " "
            /\ Drive(ShellMachine(C), Idle(<<>>), Append(line, " ")) = Idle(words)
<1> DEFINE op      == ShellMachine(C)
           Line(w) == FlattenSeq(Quoted(w))
           S == {w \in Seq(Seq(C)) :
                   /\ Line(w) \in Seq(C)
                   /\ w # <<>> => Line(w) # <<>> /\ Head(Line(w)) = " "
                   /\ Drive(op, Idle(<<>>), Append(Line(w), " ")) = Idle(w)}
<1>1. <<>> \in Seq(C) /\ <<>> \in Seq(Seq(C)) /\ " " \in C
  <2>1. " " \in C
    BY DEF Marks
  <2>2. <<>> \in Seq(C) /\ <<>> \in Seq(Seq(C))
    OBVIOUS
  <2> QED
    BY <2>1, <2>2
<1>2. Idle(<<>>) \in ShellStates(C)
  BY <1>1, BlankDriven
<1>3. <<>> \in S
  <2>1. Quoted(<<>>) = <<>>
    BY DEF Quoted
  <2>2. Line(<<>>) = <<>>
    BY <2>1, FlattenEmpty
  <2>3. Append(<<>>, " ") = <<" ">>
    OBVIOUS
  <2>4. Drive(op, Idle(<<>>), <<" ">>) = Idle(<<>>)
    BY <1>1, BlankDriven
  <2> QED
    BY <1>1, <2>2, <2>3, <2>4
<1>4. ASSUME NEW w \in Seq(Seq(C)), NEW word \in Seq(C), w \in S
      PROVE  Append(w, word) \in S
  <2> DEFINE before == Line(w)
             part   == <<" ">> \o shell_single_quote(word)
  <2>1. \A v \in Seq(C) : <<" ">> \o shell_single_quote(v) \in Seq(C)
    BY <1>1, WordDriven
  <2>2. Quoted(w) \in Seq(Seq(C)) /\ Len(Quoted(w)) = Len(w) /\ part \in Seq(C)
    <3>1. Len(w) \in Nat /\ \A i \in 1 .. Len(w) : w[i] \in Seq(C)
      OBVIOUS
    <3>2. \A i \in 1 .. Len(w) : <<" ">> \o shell_single_quote(w[i]) \in Seq(C)
      BY <2>1, <3>1
    <3>3. Quoted(w) = [i \in 1 .. Len(w) |-> <<" ">> \o shell_single_quote(w[i])]
      BY DEF Quoted
    <3>4. Quoted(w) \in Seq(Seq(C)) /\ Len(Quoted(w)) = Len(w)
      <4> DEFINE f == Quoted(w)
      <4>1. f = [i \in 1 .. Len(w) |-> f[i]] /\ \A i \in 1 .. Len(w) : f[i] \in Seq(C)
        BY <3>2, <3>3
      <4> HIDE DEF f
      <4>2. f \in Seq(Seq(C)) /\ Len(f) = Len(w)
        BY <3>1, <4>1, Mapped
      <4> QED
        BY <4>2 DEF f
    <3> QED
      BY <2>1, <3>4
  <2>3. Quoted(Append(w, word)) = Append(Quoted(w), part)
    <3> DEFINE n    == Len(w)
               more == Append(w, word)
               f    == Quoted(w)
               g    == Quoted(more)
    <3>1. /\ n \in Nat /\ DOMAIN w = 1 .. n /\ DOMAIN more = 1 .. n + 1 /\ more[n + 1] = word
          /\ \A i \in 1 .. n : more[i] = w[i]
      OBVIOUS
    <3> HIDE DEF n, more
    <3>2. /\ \A i \in 1 .. n : f[i] = <<" ">> \o shell_single_quote(w[i])
          /\ \A i \in 1 .. n + 1 : g[i] = <<" ">> \o shell_single_quote(more[i])
          /\ g = [i \in 1 .. n + 1 |-> g[i]]
      BY <3>1 DEF Quoted
    <3>3. /\ \A i \in 1 .. n : g[i] = f[i]
          /\ g[n + 1] = part
      <4>1. n + 1 \in 1 .. n + 1 /\ \A i \in 1 .. n : i \in 1 .. n + 1
        BY <3>1
      <4> HIDE DEF f, g
      <4> QED
        BY <3>1, <3>2, <4>1
    <3>4. f \in Seq(Seq(C)) /\ Len(f) = n /\ part \in Seq(C)
      BY <2>2 DEF n
    <3> HIDE DEF f, g, part
    <3>5. g = Append(f, part)
      <4> DEFINE h == Append(f, part)
      <4>1. /\ h = [i \in 1 .. n + 1 |-> h[i]] /\ h[n + 1] = part
            /\ \A i \in 1 .. n : h[i] = f[i]
        <5>1. /\ h = [i \in 1 .. Len(f) + 1 |-> h[i]] /\ h[Len(f) + 1] = part
              /\ \A i \in 1 .. Len(f) : h[i] = f[i]
          <6> DEFINE A == Seq(C)
          <6>1. f \in Seq(A) /\ part \in A
            BY <3>4
          <6> HIDE DEF A
          <6>2. /\ Append(f, part) = [i \in 1 .. Len(f) + 1 |-> Append(f, part)[i]]
                /\ Append(f, part)[Len(f) + 1] = part
                /\ \A i \in 1 .. Len(f) : Append(f, part)[i] = f[i]
            BY ONLY <6>1, AppendParts
          <6> QED
            BY <6>2 DEF h
        <5> QED
          BY <3>4, <5>1
      <4> HIDE DEF h
      <4>2. \A i \in 1 .. n + 1 : i # n + 1 => i \in 1 .. n
        BY <3>1
      <4>3. \A i \in 1 .. n + 1 : g[i] = h[i]
        BY <3>3, <4>1, <4>2
      <4> QED
        BY <3>2, <4>1, <4>3 DEF h
    <3> QED
      BY <3>5 DEF f, g, more, part
  <2> HIDE DEF part
  <2>4. FlattenSeq(Append(Quoted(w), part)) = FlattenSeq(Quoted(w)) \o part
    BY <2>2, FlattenAppend
  <2>5. Line(Append(w, word)) = before \o part
    BY <2>3, <2>4
  <2>6. /\ before \in Seq(C) /\ Drive(op, Idle(<<>>), Append(before, " ")) = Idle(w)
        /\ w # <<>> => before # <<>> /\ Head(before) = " "
        /\ w = <<>> => before = <<>>
    <3>1. w = <<>> => Quoted(w) = <<>>
      BY DEF Quoted
    <3> QED
      BY <1>4, <3>1, FlattenEmpty
  <2> DEFINE quote == shell_single_quote(word)
  <2>7. /\ quote \in Seq(C)
        /\ Drive(op, Idle(w), quote) = State(w, word, TRUE, "plain")
    BY QuoteDriven DEF Idle
  <2>8. part = <<" ">> \o quote /\ <<" ">> \in Seq(C)
    BY BlankDriven, <1>1 DEF part
  <2> HIDE DEF quote, before, op, S
  <2>9. /\ Append(before, " ") \in Seq(C) /\ Append(before, " ") \o quote \in Seq(C)
        /\ Append(before \o part, " ") = Append(Append(before, " ") \o quote, " ")
    <3>1. Append(before, " ") \in Seq(C) /\ Append(before, " ") = before \o <<" ">>
      BY <1>1, <2>6, AppendConcat
    <3>2. before \o part = Append(before, " ") \o quote
      <4> DEFINE blank == <<" ">>
      <4>0. before \in Seq(C) /\ blank \in Seq(C) /\ quote \in Seq(C)
        BY <2>6, <2>7, <2>8
      <4> HIDE DEF blank
      <4>1. (before \o blank) \o quote = before \o (blank \o quote)
        BY <4>0, ConcatAssociates, SMTT(30)
      <4> QED
        BY <2>8, <3>1, <4>1 DEF blank
    <3>3. Append(before, " ") \o quote \in Seq(C)
      BY <2>7, <3>1, ConcatIn
    <3> QED
      BY <3>1, <3>2, <3>3
  <2>10. Drive(op, Idle(<<>>), Append(before, " ") \o quote) = State(w, word, TRUE, "plain")
    <3> DEFINE first == Append(before, " ")
               start == Idle(<<>>)
    <3>1. first \in Seq(C) /\ Drive(op, start, first) = Idle(w) /\ start \in ShellStates(C)
      BY <1>2, <2>6, <2>9
    <3> HIDE DEF first, start
    <3>2. Drive(op, start, first \o quote) = Drive(op, Drive(op, start, first), quote)
      BY <2>7, <3>1, ShellDrive DEF op
    <3> QED
      BY <2>7, <3>1, <3>2 DEF first, start
  <2>11. Drive(op, Idle(<<>>), Append(before \o part, " ")) = Idle(Append(w, word))
    <3> DEFINE most == Append(before, " ") \o quote
    <3>1. most \in Seq(C) /\ Append(before \o part, " ") = Append(most, " ")
          /\ Drive(op, Idle(<<>>), most) = State(w, word, TRUE, "plain")
      BY <2>9, <2>10
    <3> HIDE DEF most
    <3>2. Drive(op, Idle(<<>>), Append(most, " "))
            = ShellStep(Drive(op, Idle(<<>>), most), " ")
      BY <1>1, <1>2, <3>1, ShellDrive DEF op
    <3>3. ShellStep(State(w, word, TRUE, "plain"), " ") = Idle(Append(w, word))
      BY BlankDriven
    <3> QED
      BY <3>1, <3>2, <3>3
  <2>12. before \o part \in Seq(C) /\ before \o part # <<>> /\ Head(before \o part) = " "
    <3>1. part # <<>> /\ Head(part) = " "
      BY <1>1, <2>7, <2>8, ConcatFirst
    <3>2. CASE before = <<>>
      BY <2>2, <3>1, <3>2, ConcatEmpty
    <3>3. CASE before # <<>>
      BY <2>2, <2>6, <3>3, ConcatIn
    <3>4. before \o part \in Seq(C)
      BY <2>2, <2>6, ConcatIn
    <3> QED
      BY <3>2, <3>3, <3>4
  <2> QED
    <3>1. Append(w, word) \in Seq(Seq(C))
      OBVIOUS
    <3> QED
      BY <2>5, <2>11, <2>12, <3>1 DEF S
<1>5. Seq(Seq(C)) \subseteq S
  <2> HIDE DEF S
  <2> QED
    BY <1>3, <1>4, TextInduction
<1> QED
  BY <1>5

(* The shell gives back the words that were quoted. *)
LEMMA WordsReachDialog ==
  ASSUME NEW C, Marks \subseteq C, NEW words \in Seq(Seq(C)), words # <<>>
  PROVE  Shell(Cmdline(words)) = words
<1> DEFINE line  == FlattenSeq(Quoted(words))
           op    == ShellMachine(C)
           start == Idle(<<>>)
           blank == <<" ">>
           rest  == Tail(line)
<1>1. /\ line \in Seq(C) /\ line # <<>> /\ Head(line) = " "
      /\ Drive(op, start, Append(line, " ")) = Idle(words)
  BY QuotedDriven
<1>2. " " \in C /\ blank \in Seq(C) /\ start \in ShellStates(C)
      /\ Drive(op, start, blank) = start
  <2>1. <<>> \in Seq(Seq(C)) /\ <<>> \in Seq(C)
    OBVIOUS
  <2> QED
    BY <2>1, BlankDriven
<1>3. Cmdline(words) = rest
  BY DEF Cmdline, Quoted
<1> HIDE DEF line
<1>4. rest \in Seq(C) /\ line = blank \o rest
  BY <1>1, HeadAndTail
<1>5. Append(rest, " ") \in Seq(C) /\ Append(line, " ") = blank \o Append(rest, " ")
  <2> HIDE DEF rest, blank
  <2> QED
    <3> DEFINE c == " "
    <3>1. rest \in Seq(C) /\ blank \in Seq(C) /\ c \in C
      BY <1>2, <1>4
    <3> HIDE DEF c
    <3>2. Append(rest, c) \in Seq(C) /\ Append(blank \o rest, c) = blank \o Append(rest, c)
      BY ONLY <3>1, ConcatAppend, SMTT(30)
    <3> QED
      BY <1>4, <3>2 DEF c
<1>6. Drive(op, start, Append(rest, " ")) = Idle(words)
  <2> DEFINE more == Append(rest, " ")
  <2>1. more \in Seq(C) /\ Append(line, " ") = blank \o more
    BY <1>5
  <2> HIDE DEF more, op, start, blank, rest
  <2>2. Drive(op, start, blank \o more) = Drive(op, Drive(op, start, blank), more)
    BY <1>2, <2>1, ShellDrive DEF op
  <2> QED
    BY <1>1, <1>2, <2>1, <2>2 DEF more
<1>7. Along(ShellStep, start, Append(rest, " ")) = Idle(words)
  BY <1>2, <1>5, <1>6, ShellAlong
<1>8. start = [words |-> <<>>, word |-> <<>>, open |-> FALSE, mode |-> "plain"]
  BY DEF Idle, State
<1> HIDE DEF start
<1>9. Shell(rest) = words
  <2> HIDE DEF rest
  <2>1. Along(ShellStep, [words |-> <<>>, word |-> <<>>, open |-> FALSE, mode |-> "plain"],
              Append(rest, " ")) = Idle(words)
    BY <1>7, <1>8
  <2>2. Idle(words).mode = "plain" /\ Idle(words).words = words
    BY DEF Idle, State
  <2> QED
    BY <2>1, <2>2 DEF Shell
<1> QED
  BY <1>3, <1>9

(* The arguments of the dialog are texts. *)
LEMMA ArgumentsAreTexts ==
  ASSUME NEW r \in Requests
  PROVE  \E C : Marks \subseteq C /\ DialogArgs(r) \in Seq(Seq(C)) /\ DialogArgs(r) # <<>>
<1> DEFINE T == {t \in {<<"cert-dialog">>, <<"--digest">>, <<"--gateway">>, <<"--uuid">>,
                        r.digest, r.gateway, r.uuid} : SomeText(t)}
           C == Marks \cup UNION {{t[i] : i \in 1 .. Len(t)} : t \in T}
           gateway == IF r.gateway = Unknown THEN <<>> ELSE <<<<"--gateway">>, r.gateway>>
           uuid    == IF r.uuid = Unknown THEN <<>> ELSE <<<<"--uuid">>, r.uuid>>
           first   == <<<<"cert-dialog">>, <<"--digest">>, r.digest>>
<1>1. \A c : SomeText(<<c>>)
  BY DEF SomeText
<1>2. /\ <<"cert-dialog">> \in T /\ <<"--digest">> \in T /\ r.digest \in T
      /\ r.gateway # Unknown => <<"--gateway">> \in T /\ r.gateway \in T
      /\ r.uuid # Unknown => <<"--uuid">> \in T /\ r.uuid \in T
  BY <1>1, SessionAssumption
<1>3. ASSUME NEW t \in T PROVE t \in Seq(C)
  <2>1. Len(t) \in Nat /\ t = [i \in 1 .. Len(t) |-> t[i]]
    BY DEF SomeText
  <2>2. \A i \in 1 .. Len(t) : t[i] \in C
    OBVIOUS
  <2> HIDE DEF C
  <2> QED
    BY <2>1, <2>2, Mapped
<1>4. Seq(T) \subseteq Seq(Seq(C)) /\ Marks \subseteq C
  <2>1. Marks \subseteq C
    OBVIOUS
  <2> HIDE DEF T, C
  <2>2. T \subseteq Seq(C)
    BY <1>3
  <2>3. Seq(T) \subseteq Seq(Seq(C))
    <3> DEFINE A == Seq(C)
    <3>1. T \subseteq A
      BY <2>2
    <3> HIDE DEF A
    <3>2. Seq(T) \subseteq Seq(A)
      BY <3>1
    <3> QED
      BY <3>2 DEF A
  <2> QED
    BY <2>1, <2>3
<1> HIDE DEF T, C
<1>5. first \in Seq(T) /\ first # <<>> /\ gateway \in Seq(T) /\ uuid \in Seq(T)
  BY <1>2
<1>6. DialogArgs(r) = (first \o gateway) \o uuid
  BY DEF DialogArgs
<1> HIDE DEF first, gateway, uuid
<1>7. first \o gateway \in Seq(T) /\ first \o gateway # <<>>
  BY <1>5, ConcatIn
<1>8. (first \o gateway) \o uuid \in Seq(T) /\ (first \o gateway) \o uuid # <<>>
  BY <1>5, <1>7, ConcatIn
<1>9. DialogArgs(r) \in Seq(Seq(C)) /\ DialogArgs(r) # <<>>
  BY <1>4, <1>6, <1>8
<1> QED
  BY <1>4, <1>9

(* While a prompt is on there is something to show. *)
RequestInv == prompt # "none" => request \in Requests

LEMMA RequestInvStep ==
  ASSUME RequestInv, [SessionNext]_sessionVars
  PROVE  RequestInv'
<1>1. ASSUME NEW r \in Requests, PromptStart(r) PROVE RequestInv'
  BY <1>1 DEF PromptStart, RequestInv
<1>2. CASE LogindChange \/ Answer
  BY <1>2 DEF LogindChange, Answer, RequestInv
<1>3. CASE Spawn
  BY <1>3 DEF Spawn, ListSessions, ShowSession, ShowFault, NoSession, UidName,
    SystemdRun, Su, SuReturns, RequestInv
<1>4. CASE UNCHANGED sessionVars
  BY <1>4 DEF sessionVars, RequestInv
<1> QED
  BY <1>1, <1>2, <1>3, <1>4 DEF SessionNext

LEMMA RequestInvariant == SessionInit /\ [][SessionNext]_sessionVars => []RequestInv
<1>1. SessionInit => RequestInv
  BY DEF SessionInit, RequestInv
<1> QED
  BY <1>1, RequestInvStep, PTL

LEMMA RequestReachesDialog ==
  ASSUME SessionInv, RequestInv
  PROVE  DialogReadsRequest
<1> SUFFICES ASSUME NEW i \in DOMAIN dialogs
             PROVE  Received(dialogs[i]) = DialogArgs(request)
  BY DEF DialogReadsRequest
<1>1. dialogs # <<>>
  OBVIOUS
<1>2. request \in Requests
  BY <1>1 DEF SessionInv, DialogInv, RequestInv
<1>3. PICK C : Marks \subseteq C /\ DialogArgs(request) \in Seq(Seq(C))
                 /\ DialogArgs(request) # <<>>
  BY <1>2, ArgumentsAreTexts
<1>4. Shell(Cmdline(DialogArgs(request))) = DialogArgs(request)
  BY <1>3, WordsReachDialog
<1> QED
  BY <1>4 DEF Received

(* The dialog gets the very words the service gave it, whatever characters *)
(* the host name or the uuid is made of, also through the shell of su      *)
(* (shell_single_quote).                                                   *)
THEOREM RequestIsRead == SessionSpec => []DialogReadsRequest
  BY SessionInvariant, RequestInvariant, RequestReachesDialog, PTL DEF SessionSpec
==============================================================================
