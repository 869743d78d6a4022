------------------------------ MODULE CertPrompt ------------------------------
(***************************************************************************)
(* From a line of crosswire's output to the dialog before the user: the    *)
(* watcher's verdict of CertScan starts the prompt of UserSession.  The    *)
(* loggers read on while the prompt runs.                                  *)
(***************************************************************************)
EXTENDS CertScan, UserSession

(* The first token of 64 lowercase hex digits.  In a text of output a      *)
(* digest stands for its 64 digits, "f" and "F" for other hex digits, and  *)
(* every other character for text without any.                             *)
extract_sha256(text) ==
  LET tokens == Words(text, {c \in ToSet(text) : c \notin Digests \cup {"f", "F"}})
      i == SelectInSeq(tokens, LAMBDA t : Len(t) = 1 /\ t[1] \in Digests)
  IN IF i = 0 THEN None ELSE tokens[i][1]

(* What CertScanner::observe sees in a text: "!" is UNTRUSTED_MARKER, "#"  *)
(* a mention of a digest or of --trusted-cert, "?" a byte that is no UTF-8. *)
LineOf(text) ==
  [text |-> ~Contains(text, "?"), marker |-> Contains(text, "!"),
   hint |-> Contains(text, "#"), hex |-> extract_sha256(text)]

PromptInit == Init /\ SessionInit

(* Broken variant: a rejection of any earlier run counts. *)
PromptAny ==
  /\ phase = "judged"
  /\ \E r \in Requests, n \in Runs :
       /\ scanner[n].digest # None /\ r.digest = <<scanner[n].digest>>
       /\ PromptStart(r)
  /\ UNCHANGED vars

(* classify_exit's PromptCert, while the connection is being made. *)
Prompt ==
  /\ phase = "judged" /\ verdict[run] # None
  /\ \E r \in Requests : r.digest = <<verdict[run]>> /\ PromptStart(r)
  /\ UNCHANGED vars

PromptNext ==
  \/ Next /\ UNCHANGED sessionVars
  \/ Prompt
  \/ (LogindChange \/ Spawn \/ Answer) /\ UNCHANGED vars

(* The commands end; the user and crosswire owe us nothing. *)
PromptSpec ==
  PromptInit /\ [][PromptNext]_<<vars, sessionVars>> /\ WF_sessionVars(Spawn /\ UNCHANGED vars)

------------------------------------------------------------------------------
(* The digest before the user is one that the very run that was refused    *)
(* presented, and no run is started anew while he is being asked           *)
(* (cert_change, classify_exit, prompt_cert_trust).                        *)
DialogIsFounded ==
  dialogs # <<>> =>
    /\ Rejected(run)
    /\ \E d \in Offered(run) : request.digest = <<d>>
==============================================================================
