------------------------------ MODULE UserSession ------------------------------
(***************************************************************************)
(* How the service puts the certificate dialog before the user: the        *)
(* prompt_cert_trust of supervisor.rs and user_session.rs.  The prompt     *)
(* runs one command after the other in a thread of its own, while users    *)
(* log in, log out and switch.  A fault is a command that cannot be run or *)
(* fails for a reason of its own.                                          *)
(***************************************************************************)
EXTENDS Text

CONSTANTS
  Worlds,       \* what logind may know: session -> properties
  Requests,     \* what the dialog may be asked to show
  Unknown,      \* no session, no user, no text
  MaxChanges    \* bound on the changes of logind during a prompt

(* A text, of whatever characters. *)
SomeText(t) == Len(t) \in Nat /\ t = [i \in 1 .. Len(t) |-> t[i]]

ASSUME SessionAssumption ==
  /\ MaxChanges \in Nat
  /\ Unknown \notin BOOLEAN
  /\ Unknown \notin {"trusted", "declined", "failed"}
  /\ \A world \in Worlds :
       /\ IsFiniteSet(DOMAIN world)
       /\ \A s \in DOMAIN world :
            world[s]["Remote"] \in {"yes", "no"} /\ world[s]["User"] # Unknown
  /\ \A r \in Requests :
       /\ SomeText(r.digest)
       /\ r.gateway # Unknown => SomeText(r.gateway)
       /\ r.uuid # Unknown => SomeText(r.uuid)

VARIABLES
  logind,     \* the sessions there are, and their properties
  changes,    \* how often logind has changed since the prompt began
  prompt,     \* the command the prompt is at
  request,    \* the digest, gateway and uuid to show
  queue,      \* the sessions list-sessions named that are not looked at yet
  uid,        \* the user the dialog is meant for
  fault,      \* a command has failed
  dialogs,    \* the dialogs that were started
  result,     \* what spawn_in_user_session returned
  lasting,    \* the sessions a dialog could open in ever since the prompt began
  owners      \* the users of all those it could open in at some time since

sessionVars ==
  <<logind, changes, prompt, request, queue, uid, fault, dialogs, result,
    lasting, owners>>
history == <<lasting, owners>>

(* A user is at the keyboard of an active, local, graphical session. *)
Graphical == {"wayland", "x11", "mir"}
AtKeyboard(world) ==
  {s \in DOMAIN world :
     /\ world[s]["Active"] = "yes" /\ world[s]["Remote"] = "no"
     /\ world[s]["Type"] \in Graphical}
UsersOf(world, sessions) == {world[s]["User"] : s \in sessions}

SessionInit ==
  /\ logind \in Worlds
  /\ changes = 0
  /\ prompt = "none"
  /\ request = Unknown /\ queue = <<>> /\ uid = Unknown
  /\ fault = FALSE /\ dialogs = <<>> /\ result = Unknown
  /\ lasting = {} /\ owners = {}

------------------------------------------------------------------------------
ReadLine(p, line) == [p EXCEPT ![line[1]] = line[2]]
NoProperties == [Active |-> "no", Remote |-> "no", Type |-> "", User |-> Unknown]

(* Broken variant: a session is as good as its last property. *)
parse_graphical_session_uid_lax(lines) ==
  LET p == Along(ReadLine, NoProperties, lines)
  IN IF p.Active = "yes" /\ p.Type \in Graphical THEN p.User ELSE Unknown

(* The lines come in any order; the last of a key counts. *)
parse_graphical_session_uid(lines) ==
  LET p == Along(ReadLine, NoProperties, lines)
  IN IF p.Active = "yes" /\ p.Remote # "yes" /\ p.Type \in Graphical
     THEN p.User ELSE Unknown

(* Broken variant: a quote in a word ends it. *)
shell_single_quote_bare(text) == <<"'">> \o text \o <<"'">>

shell_single_quote(text) ==
  <<"'">>
  \o FlattenSeq([i \in DOMAIN text |->
                   IF text[i] = "'" THEN <<"'", "\\", "'", "'">> ELSE <<text[i]>>])
  \o <<"'">>

(* The command line of su: the quoted words, with a blank between them. *)
Cmdline(words) ==
  Tail(FlattenSeq([i \in DOMAIN words |-> <<" ">> \o shell_single_quote(words[i])]))

(* How a POSIX shell splits it: quotes keep every character, a backslash   *)
(* outside of them the next one, a blank outside of them ends a word.      *)
ShellStep(sh, c) ==
  IF sh.mode = "escaped" \/ (sh.mode = "quoted" /\ c # "'")
    THEN [sh EXCEPT !.word = Append(@, c), !.open = TRUE,
                    !.mode = IF @ = "quoted" THEN @ ELSE "plain"]
  ELSE IF c = "'" THEN [sh EXCEPT !.mode = IF @ = "quoted" THEN "plain" ELSE "quoted",
                                  !.open = TRUE]
  ELSE IF c = "\\" THEN [sh EXCEPT !.mode = "escaped"]
  ELSE IF c = " "
    THEN [sh EXCEPT !.words = IF sh.open THEN Append(@, sh.word) ELSE @,
                    !.word = <<>>, !.open = FALSE]
  ELSE [sh EXCEPT !.word = Append(@, c), !.open = TRUE]
Shell(text) ==
  LET sh == Along(ShellStep,
                     [words |-> <<>>, word |-> <<>>, open |-> FALSE, mode |-> "plain"],
                     Append(text, " "))
  IN IF sh.mode = "plain" THEN sh.words ELSE Unknown

(* The dialog and its arguments, and what reaches it. *)
DialogArgs(r) ==
  <<<<"cert-dialog">>, <<"--digest">>, r.digest>>
  \o (IF r.gateway = Unknown THEN <<>> ELSE <<<<"--gateway">>, r.gateway>>)
  \o (IF r.uuid = Unknown THEN <<>> ELSE <<<<"--uuid">>, r.uuid>>)

Received(dialog) ==
  IF dialog.under = "su" THEN Shell(Cmdline(DialogArgs(request))) ELSE DialogArgs(request)

------------------------------------------------------------------------------
Return(value) == prompt' = "done" /\ result' = value

PromptStart(r) ==
  /\ prompt = "none"
  /\ prompt' = "list"
  /\ request' = r
  /\ lasting' = AtKeyboard(logind)
  /\ owners' = UsersOf(logind, lasting')
  /\ UNCHANGED <<logind, changes, queue, uid, fault, dialogs, result>>

(* Users log in and out, or switch. *)
LogindChange ==
  /\ prompt \notin {"none", "done"}
  /\ changes < MaxChanges
  /\ changes' = changes + 1
  /\ logind' \in Worlds \ {logind}
  /\ lasting' = lasting \cap AtKeyboard(logind')
  /\ owners' = owners \cup UsersOf(logind', AtKeyboard(logind'))
  /\ UNCHANGED <<prompt, request, queue, uid, fault, dialogs, result>>

(* loginctl list-sessions, in its own order. *)
ListSessions ==
  /\ prompt = "list"
  /\ \/ /\ queue' \in SetToSeqs(DOMAIN logind)
        /\ prompt' = "show"
        /\ UNCHANGED <<fault, result>>
     \/ /\ fault' = TRUE /\ Return(FALSE)
        /\ UNCHANGED queue
  /\ UNCHANGED <<logind, changes, request, uid, dialogs, history>>

(* The lines of show-session; logind may have forgotten the session. *)
Keys == {<<"Active", "Remote", "Type", "User">>, <<"User", "Type", "Remote", "Active">>}
Shown(s, keys) ==
  IF s \in DOMAIN logind
  THEN parse_graphical_session_uid([i \in DOMAIN keys |-> <<keys[i], logind[s][keys[i]]>>])
  ELSE Unknown

(* Broken variant: a session that is gone ends the search. *)
ShowSessionOnce ==
  /\ prompt = "show" /\ queue # <<>>
  /\ \E keys \in Keys :
       LET owner == Shown(Head(queue), keys)
       IN /\ uid' = owner
          /\ IF owner # Unknown THEN prompt' = "name" /\ UNCHANGED <<queue, result>>
             ELSE Return(FALSE) /\ UNCHANGED queue
  /\ UNCHANGED <<logind, changes, request, fault, dialogs, history>>

(* loginctl show-session: a session that is not at the keyboard, that is   *)
(* gone, or that cannot be shown, is passed over ...                       *)
ShowSession ==
  /\ prompt = "show" /\ queue # <<>>
  /\ \E keys \in Keys :
       LET owner == Shown(Head(queue), keys)
       IN /\ uid' = owner
          /\ IF owner # Unknown THEN prompt' = "name" /\ UNCHANGED queue
             ELSE queue' = Tail(queue) /\ UNCHANGED prompt
  /\ UNCHANGED <<logind, changes, request, fault, dialogs, result, history>>

(* ... but a loginctl that cannot even be started ends the search. *)
ShowFault ==
  /\ prompt = "show" /\ queue # <<>>
  /\ fault' = TRUE
  /\ \/ queue' = Tail(queue) /\ UNCHANGED <<prompt, result>>
     \/ Return(FALSE) /\ UNCHANGED queue
  /\ UNCHANGED <<logind, changes, request, uid, dialogs, history>>

(* Broken variant: the prompt goes on without a user. *)
NoSessionOn ==
  /\ prompt = "show" /\ queue = <<>>
  /\ prompt' = "name"
  /\ UNCHANGED <<logind, changes, request, queue, uid, fault, dialogs, result, history>>

NoSession ==
  /\ prompt = "show" /\ queue = <<>>
  /\ Return(FALSE)
  /\ UNCHANGED <<logind, changes, request, queue, uid, fault, dialogs, history>>

(* uid_name: getent, or id. *)
UidName ==
  /\ prompt = "name"
  /\ \/ prompt' = "systemd-run" /\ UNCHANGED <<fault, result>>
     \/ fault' = TRUE /\ Return(FALSE)
  /\ UNCHANGED <<logind, changes, request, queue, uid, dialogs, history>>

Dialog(under) == [user |-> uid, under |-> under, answer |-> Unknown]

(* Broken variant: systemd-run waits for the dialog. *)
SystemdRunWaiting ==
  /\ prompt = "systemd-run"
  /\ dialogs' = Append(dialogs, Dialog("unit"))
  /\ prompt' = "wait"
  /\ UNCHANGED <<logind, changes, request, queue, uid, fault, result, history>>

(* systemd-run returns once the unit is started.  Without it, and when it  *)
(* fails -- before or after the dialog is there -- su is tried.            *)
SystemdRun ==
  /\ prompt = "systemd-run"
  /\ \/ /\ dialogs' = Append(dialogs, Dialog("unit"))
        /\ \/ Return(TRUE) /\ UNCHANGED fault
           \/ fault' = TRUE /\ prompt' = "su" /\ UNCHANGED result
     \/ /\ prompt' = "su"
        /\ fault' \in {fault, TRUE}
        /\ UNCHANGED <<dialogs, result>>
  /\ UNCHANGED <<logind, changes, request, queue, uid, history>>

(* su runs the dialog to its end. *)
Su ==
  /\ prompt = "su"
  /\ \/ /\ dialogs' = Append(dialogs, Dialog("su"))
        /\ prompt' = "wait"
        /\ UNCHANGED <<fault, result>>
     \/ /\ fault' = TRUE /\ Return(FALSE)
        /\ UNCHANGED dialogs
  /\ UNCHANGED <<logind, changes, request, queue, uid, history>>

(* Broken variant: su's status is not looked at. *)
SuReturnsBlind ==
  /\ prompt = "wait"
  /\ Last(dialogs).answer # Unknown
  /\ Return(FALSE)
  /\ UNCHANGED <<logind, changes, request, queue, uid, fault, dialogs, history>>

SuReturns ==
  /\ prompt = "wait"
  /\ Last(dialogs).answer # Unknown
  /\ Return(Last(dialogs).answer = "trusted")
  /\ UNCHANGED <<logind, changes, request, queue, uid, fault, dialogs, history>>

(* The user answers; without a uuid there is nothing to trust, and the     *)
(* profile may be gone.                                                    *)
Answer ==
  /\ \E i \in DOMAIN dialogs :
       /\ dialogs[i].answer = Unknown
       /\ \E a \in {"trusted", "declined", "failed"} :
            /\ a = "trusted" => request.uuid # Unknown
            /\ dialogs' = [dialogs EXCEPT ![i].answer = a]
  /\ UNCHANGED <<logind, changes, prompt, request, queue, uid, fault, result, history>>

Spawn ==
  \/ ListSessions \/ ShowSession \/ ShowFault \/ NoSession \/ UidName
  \/ SystemdRun \/ Su \/ SuReturns

SessionNext ==
  \/ \E r \in Requests : PromptStart(r)
  \/ LogindChange \/ Spawn \/ Answer

(* The commands end; the user owes no answer. *)
SessionSpec == SessionInit /\ [][SessionNext]_sessionVars /\ WF_sessionVars(Spawn)

------------------------------------------------------------------------------
SessionTypeOK ==
  /\ logind \in Worlds
  /\ changes \in 0 .. MaxChanges
  /\ request \in Requests \cup {Unknown}
  /\ lasting \subseteq DOMAIN logind
  /\ result \in BOOLEAN \cup {Unknown}
  /\ prompt = "done" <=> result # Unknown
  /\ \A i \in DOMAIN dialogs : dialogs[i].user # Unknown

(* Whoever sits at the keyboard all the while is asked, whatever other     *)
(* sessions come and go between the commands, unless a command fails       *)
(* (active_graphical_uid).                                                 *)
SeatIsPrompted ==
  prompt = "done" /\ ~fault /\ lasting # {} => dialogs # <<>>

(* Nobody else is ever shown the dialog: only a user whose active, local,  *)
(* graphical session logind knew at some moment of the prompt              *)
(* (parse_graphical_session_uid).                                          *)
OnlySeatIsPrompted == \A i \in DOMAIN dialogs : dialogs[i].user \in owners

(* The dialog gets the very words the service gave it, also through the    *)
(* shell of su (shell_single_quote).                                       *)
DialogReadsRequest ==
  \A i \in DOMAIN dialogs : Received(dialogs[i]) = DialogArgs(request)

(* While no command fails the user is asked once, and one who trusted the  *)
(* certificate is not told in the log to pin it by hand                    *)
(* (spawn_in_user_session, prompt_cert_trust).                             *)
AskedOnceAndHeard ==
  ~fault =>
    /\ Len(dialogs) <= 1
    /\ result = FALSE => \A i \in DOMAIN dialogs : dialogs[i].answer # "trusted"

(* The prompt comes back without an answer of the user, unless it is su    *)
(* that runs the dialog (the doc of spawn_in_user_session).                *)
PromptReturns ==
  prompt # "none" ~>
    \/ prompt = "done"
    \/ \E i \in DOMAIN dialogs : dialogs[i].under = "su" /\ dialogs[i].answer = Unknown
==============================================================================
