------------------------------- MODULE Profile -------------------------------
(***************************************************************************)
(* The life of one connection profile: written by another tool or by the   *)
(* importer, shown and saved by the editor, re-pinned by the certificate   *)
(* dialog, and mapped by the service to a launch of crosswire.  The four   *)
(* are processes of their own that share nothing but the profile, which    *)
(* NetworkManager stores.                                                  *)
(*                                                                         *)
(* A profile is vpn.data and vpn.secrets as one record: texts are          *)
(* sequences, <<>> when absent (the editor and libnm store no empty item), *)
(* with a digest as a character of the pins.  port stands for the entries  *)
(* the editor and the service treat the same way: realm and ca-file.  own  *)
(* marks a profile that the editor or the importer wrote last; the code    *)
(* has no such mark.                                                       *)
(***************************************************************************)
EXTENDS FortinetImport, Text

CONSTANTS
  Profiles,   \* the profiles another tool may have written
  OtherAuths, \* authentications the service does not know
  Digests,    \* the digests of the gateway's certificates
  MaxEdits,   \* bound on the user's changes in the editor
  MaxLeaves   \* bound on the certificates the gateway goes through

(* The options of crosswire: without a value, and with one. *)
Switches == {"--insecure-ssl", "--cookie-on-stdin"}
Valued   ==
  {"--set-routes", "--set-dns", "--set-ip", "--pppd-ifname", "--pppd-plugin",
   "--port", "--trusted-cert", "--username", "--password", "--otp", "--saml-login"}
Options  == Switches \cup Valued \cup {"--"}

Auths  == <<"password", "saml", "cookie">>        \* AUTH_VALUES
Secret == {"password", "otp", "cookie"}

(* Digests with something between them; any other text; but for the host,  *)
(* no text begins with a hyphen.                                           *)
PinTexts ==
  {t \in Seq(Digests \cup {",", " "}) :
     \A i \in 1 .. Len(t) - 1 : t[i] \notin Digests \/ t[i + 1] \notin Digests}
ProfileType ==
  [gateway : Seq(Chars \cup Options), port : Seq(Chars), user : Seq(Chars), pins : PinTexts,
   auth : {Auths[i] : i \in DOMAIN Auths} \cup OtherAuths, insecure : BOOLEAN,
   password : Seq(Chars), otp : Seq(Chars), cookie : Seq(Chars), own : BOOLEAN]

ASSUME ProfileAssumption ==
  /\ MaxEdits \in Nat /\ MaxLeaves \in Nat \ {0}
  /\ Profiles \subseteq ProfileType /\ \A r \in Profiles : r.own = FALSE
  /\ None \notin ProfileType \cup Digests \cup Options \cup Secret
  /\ {"new", "given"} \subseteq Chars
  /\ Options \cap (Chars \cup Digests) = {} /\ Digests \cap {",", " "} = {}

VARIABLES
  profile,    \* the stored profile, None before there is one
  editor,     \* the editor's widgets, None when it is closed
  edits,      \* changes the user has made in the editor
  applied,    \* NetworkManager's copy of the profile it is activating, with
              \* the secrets the user was asked for; None when it is not
  asked,      \* the secret the user is being asked for
  answered,   \* the secrets he has been asked for in this activation
  leaf,       \* the digest of the certificate the gateway presents
  leaves,     \* how many it has presented
  dialog,     \* the certificate dialog: the digest it shows, what it has read
  trusted     \* the digest the user trusted, until a certificate or a save
              \* of the editor comes after it

profileVars ==
  <<profile, editor, edits, applied, asked, answered, leaf, leaves, dialog,
    trusted>>
vars == <<importVars, profileVars>>
user       == <<profile, editor, edits>>
activation == <<applied, asked, answered>>
gateway    == <<leaf, leaves>>
trust      == <<dialog, trusted>>

Closed == [digest |-> None, read |-> None]

Init ==
  /\ \/ ImportInit /\ profile = None
     \/ /\ profile \in Profiles
        /\ doc = None /\ todo = <<>> /\ p = Fresh /\ imported = None
  /\ editor = None /\ edits = 0
  /\ applied = None /\ asked = None /\ answered = {}
  /\ leaf \in Digests /\ leaves = 1
  /\ dialog = Closed /\ trusted = None

------------------------------------------------------------------------------
(* crosswire_import_from_file hands NetworkManager a new connection. *)
Imported(r) ==
  [gateway |-> r.gateway, port |-> r.port, user |-> r.user, pins |-> <<>>,
   auth |-> r.auth, insecure |-> FALSE,
   password |-> <<>>, otp |-> <<>>, cookie |-> <<>>, own |-> TRUE]

Import == ImportStep /\ UNCHANGED profileVars

Adopt ==
  /\ imported \notin {None, Failed}
  /\ profile' = Imported(imported)
  /\ doc' = None /\ p' = Fresh /\ imported' = None
  /\ UNCHANGED <<todo, editor, edits, activation, gateway, trust>>

------------------------------------------------------------------------------
(* Broken variant: the pin is not shown. *)
FillUnpinned(r) ==
  [r EXCEPT !.auth = IF \E i \in DOMAIN Auths : Auths[i] = @ THEN @ ELSE Auths[1],
            !.otp  = <<>>, !.pins = <<>>, !.own = TRUE]

(* fill_from_connection: the widgets, by the keys they stand for.  An       *)
(* authentication the editor does not know shows as the first one; the     *)
(* one-time code is not shown.                                             *)
Fill(r) ==
  [r EXCEPT !.auth = IF \E i \in DOMAIN Auths : Auths[i] = @ THEN @ ELSE Auths[1],
            !.otp  = <<>>, !.own = TRUE]

(* Broken variant: every secret in a widget is stored. *)
UpdateKeepsSecrets(w) == w

(* update_connection: a new VPN setting, with the secrets of the chosen    *)
(* authentication only.                                                    *)
Update(w) ==
  [w EXCEPT !.password = IF w.auth = "password" THEN @ ELSE <<>>,
            !.otp      = IF w.auth = "password" THEN @ ELSE <<>>,
            !.cookie   = IF w.auth = "cookie" THEN @ ELSE <<>>]

EditorOpen ==
  /\ profile # None /\ editor = None
  /\ editor' = Fill(profile)
  /\ UNCHANGED <<importVars, profile, edits, activation, gateway, trust>>

(* The user changes a widget. *)
EditorChange ==
  /\ editor # None /\ edits < MaxEdits
  /\ edits' = edits + 1
  /\ \/ \E i \in DOMAIN Auths : editor' = [editor EXCEPT !.auth = Auths[i]]
     \/ \E s \in Secret : editor' = [editor EXCEPT ![s] = <<"new">>]
     \/ editor' = [editor EXCEPT !.gateway = <<>>]
     \/ \E d \in Digests \ ToSet(editor.pins) : editor' = [editor EXCEPT !.pins = @ \o <<",", d>>]
  /\ UNCHANGED <<importVars, profile, activation, gateway, trust>>

(* Broken variant: a profile without a gateway is stored. *)
EditorSaveUnchecked ==
  /\ editor # None
  /\ profile' = Update(editor)
  /\ editor' = None
  /\ trusted' = None
  /\ UNCHANGED <<importVars, edits, activation, gateway, dialog>>

(* A profile without a gateway is refused, and the editor stays open. *)
EditorSave ==
  /\ editor # None
  /\ editor.gateway # <<>>
  /\ profile' = Update(editor)
  /\ editor' = None
  /\ trusted' = None
  /\ UNCHANGED <<importVars, edits, activation, gateway, dialog>>

Editor == EditorOpen \/ EditorChange \/ EditorSave

------------------------------------------------------------------------------
(* Broken variant: cookie authentication checks for a password. *)
MissingPassword(r) ==
  IF r.auth = "saml" THEN None
  ELSE IF r.auth = "cookie" /\ r.password = <<>> THEN "cookie"
  ELSE IF r.password = <<>> /\ r.cookie = <<>> THEN "password"
  ELSE None

(* map_connection: the secret that is missing... *)
Missing(r) ==
  IF r.auth = "saml" THEN None
  ELSE IF r.auth = "cookie" /\ r.cookie = <<>> THEN "cookie"
  ELSE IF r.password = <<>> /\ r.cookie = <<>> THEN "password"
  ELSE None

(* ... and the launch: the arguments, and what goes to stdin.  An           *)
(* authentication it does not know is a password.                          *)
Option(name, text) == IF text = <<>> THEN <<>> ELSE <<<<name>>, text>>
Delegated ==
  <<"--set-routes", "false", "--set-dns", "false", "--set-ip", "false",
    "--pppd-ifname", "ppp0", "--pppd-plugin", "plugin.so">>
Pins(r) == Words(r.pins, {",", " "})

Credential(r) ==
  IF r.auth = "saml" THEN <<<<"--saml-login">>>>
  ELSE IF r.auth = "cookie" THEN <<<<"--cookie-on-stdin">>>>
  ELSE Option("--username", r.user) \o Option("--password", r.password)
         \o Option("--otp", r.otp)

(* Broken variant: the host is not set apart from the options. *)
ArgumentsBare(r) ==
  [i \in DOMAIN Delegated |-> <<Delegated[i]>>] \o Option("--port", r.port)
  \o FlattenSeq([i \in DOMAIN Pins(r) |-> Option("--trusted-cert", Pins(r)[i])])
  \o (IF r.insecure THEN <<<<"--insecure-ssl">>>> ELSE <<>>)
  \o Credential(r) \o <<r.gateway>>

Arguments(r) ==
  [i \in DOMAIN Delegated |-> <<Delegated[i]>>] \o Option("--port", r.port)
  \o FlattenSeq([i \in DOMAIN Pins(r) |-> Option("--trusted-cert", Pins(r)[i])])
  \o (IF r.insecure THEN <<<<"--insecure-ssl">>>> ELSE <<>>)
  \o Credential(r) \o <<<<"--">>, r.gateway>>

Launch(r) ==
  [args |-> Arguments(r), stdin |-> IF r.auth = "cookie" THEN r.cookie ELSE <<>>]

(* crosswire's reading of its arguments: options with a value, options     *)
(* without, --saml-login, whose value is optional, and the host.  What     *)
(* follows `--' is no option, and no value of one.                         *)
ReadArgument(read, arg) ==
  IF read.wants # None /\ Head(arg) \notin Options
    THEN [read EXCEPT !.options = @ \cup {<<read.wants, arg>>}, !.wants = None]
  ELSE IF ~read.rest /\ Head(arg) \in Switches \cup {"--saml-login"}
    THEN [read EXCEPT !.options = @ \cup {<<Head(arg), <<>>>>},
                      !.wants = IF Head(arg) \in Valued THEN Head(arg) ELSE None]
  ELSE IF ~read.rest /\ Head(arg) \in Valued THEN [read EXCEPT !.wants = Head(arg)]
  ELSE IF ~read.rest /\ Head(arg) = "--" THEN [read EXCEPT !.rest = TRUE, !.wants = None]
  ELSE [read EXCEPT !.host = arg]

Read(args) ==
  Along(ReadArgument, [options |-> {}, host |-> None, wants |-> None, rest |-> FALSE],
        args)

(* crosswire goes ahead with a certificate that is pinned, or if it may go *)
(* without a pin; it refuses one that is not pinned.                       *)
Accepts(options, digest) ==
  \/ <<"--trusted-cert", <<digest>>>> \in options
  \/ <<"--insecure-ssl", <<>>>> \in options
Pinned(options) == \E o \in options : o[1] = "--trusted-cert"

(* NetworkManager takes a copy of the profile to activate it. *)
Activate ==
  /\ profile # None /\ applied = None
  /\ applied' = profile /\ asked' = None /\ answered' = {}
  /\ UNCHANGED <<importVars, user, gateway, trust>>

(* NeedSecrets, or SecretsRequired of a Connect that came too early. *)
NeedSecrets ==
  /\ applied # None /\ asked = None
  /\ Missing(applied) # None
  /\ asked' = Missing(applied)
  /\ UNCHANGED <<importVars, user, applied, answered, gateway, trust>>

(* NewSecrets brings what the user typed in. *)
SupplySecret ==
  /\ asked # None
  /\ applied' = [applied EXCEPT ![asked] = <<"given">>]
  /\ answered' = answered \cup {asked}
  /\ asked' = None
  /\ UNCHANGED <<importVars, user, gateway, trust>>

(* do_connect with all it needs launches crosswire; after a refusal the    *)
(* service opens the dialog (one at a time here).                          *)
Connect ==
  /\ applied # None /\ asked = None
  /\ Missing(applied) = None
  /\ LET options == Read(Launch(applied).args).options
     IN \/ /\ Accepts(options, leaf) \/ ~Pinned(options)
           /\ UNCHANGED dialog
        \/ /\ ~Accepts(options, leaf)
           /\ dialog' = IF dialog = Closed THEN [Closed EXCEPT !.digest = leaf]
                                           ELSE dialog
  /\ applied' = None
  /\ UNCHANGED <<importVars, user, asked, answered, gateway, trusted>>

(* The gateway rotates its certificate. *)
Rotate ==
  /\ leaves < MaxLeaves
  /\ leaf' \in Digests \ {leaf}
  /\ leaves' = leaves + 1
  /\ trusted' = None
  /\ UNCHANGED <<importVars, user, activation, dialog>>

(* trust_and_reconnect, once the user accepts: nm_client_new reads the      *)
(* profile ...                                                             *)
DialogRead ==
  /\ dialog.digest # None /\ dialog.read = None
  /\ dialog' = [dialog EXCEPT !.read = profile]
  /\ UNCHANGED <<importVars, user, activation, gateway, trusted>>

(* Broken variant: a profile that has a pin keeps it. *)
DialogCommitOnce ==
  /\ dialog.read # None
  /\ profile' = [dialog.read EXCEPT !.pins = IF @ = <<>> THEN <<dialog.digest>> ELSE @]
  /\ trusted' = IF dialog.digest = leaf THEN leaf ELSE None
  /\ dialog' = Closed
  /\ applied' = profile' /\ asked' = None /\ answered' = {}
  /\ UNCHANGED <<importVars, editor, edits, gateway>>

(* ... commit_changes stores it with the pin replaced, and the connection  *)
(* is activated anew, in place of an activation under way.                 *)
DialogCommit ==
  /\ dialog.read # None
  /\ profile' = [dialog.read EXCEPT !.pins = <<dialog.digest>>]
  /\ trusted' = IF dialog.digest = leaf THEN leaf ELSE None
  /\ dialog' = Closed
  /\ applied' = profile' /\ asked' = None /\ answered' = {}
  /\ UNCHANGED <<importVars, editor, edits, gateway>>

DialogCancel ==
  /\ dialog.digest # None /\ dialog.read = None
  /\ dialog' = Closed
  /\ UNCHANGED <<importVars, user, activation, gateway, trusted>>

Dialog == DialogRead \/ DialogCommit \/ DialogCancel

Next ==
  \/ Import \/ Adopt \/ Editor
  \/ Activate \/ NeedSecrets \/ SupplySecret \/ Connect
  \/ Rotate \/ Dialog

Spec == Init /\ [][Next]_vars

------------------------------------------------------------------------------
(* Types; and a profile of our own that is stored has a gateway, but for   *)
(* an import of a server that is a port alone.                             *)
TypeOK ==
  /\ {profile, editor, applied} \subseteq ProfileType \cup {None}
  /\ dialog \in [digest : Digests \cup {None}, read : ProfileType \cup {None}]
  /\ editor # None =>
       profile # None /\ editor.own /\ editor.auth \in {Auths[i] : i \in DOMAIN Auths}
  /\ edits \in 0 .. MaxEdits
  /\ asked \in Secret \cup {None}
  /\ answered \subseteq Secret
  /\ leaf \in Digests
  /\ leaves \in 1 .. MaxLeaves
  /\ trusted \in Digests \cup {None}
  /\ \A r \in {profile, applied, dialog.read} \ {None} :
       r.own /\ r.gateway = <<>> => r.port # <<>>

(* Opening a profile and saving it as it is shown changes nothing crosswire *)
(* is launched with, but for the one-time code; and of a profile of our    *)
(* own no secret is lost or asked for anew (fill_from_connection,          *)
(* update_connection, map_connection).                                     *)
SaveKeepsLaunch ==
  profile # None /\ editor = Fill(profile) =>
    /\ Launch(Update(editor)) = Launch([profile EXCEPT !.otp = <<>>])
    /\ profile.own => Missing(Update(editor)) = Missing(profile)

(* One activation does not ask twice for the same secret: what NeedSecrets *)
(* asked for satisfies it (map_connection, need_secrets, new_secrets).     *)
SecretAskedOnce == asked # None => asked \notin answered

(* What a profile asks of crosswire, by the names of its options. *)
Asks(r) ==
  LET login == r.auth \notin {"saml", "cookie"}
      Value(name, text, holds) == IF holds /\ text # <<>> THEN {<<name, text>>} ELSE {}
      Switch(name, holds)      == IF holds THEN {<<name, <<>>>>} ELSE {}
  IN {<<Delegated[i], <<Delegated[i + 1]>>>> : i \in {1, 3, 5, 7, 9}}
     \cup {<<"--trusted-cert", <<d>>>> : d \in Digests \cap ToSet(r.pins)}
     \cup Value("--port", r.port, TRUE) \cup Value("--username", r.user, login)
     \cup Value("--password", r.password, login) \cup Value("--otp", r.otp, login)
     \cup Switch("--insecure-ssl", r.insecure) \cup Switch("--saml-login", r.auth = "saml")
     \cup Switch("--cookie-on-stdin", r.auth = "cookie")

(* crosswire reads from its arguments what the profile says and nothing    *)
(* else: no option takes the host or another option for its value          *)
(* (map_connection, and its comment on the separator).  But for the host,  *)
(* no value of a profile begins with a hyphen here.                        *)
ArgumentsAreRead ==
  applied # None /\ Missing(applied) = None =>
    LET read == Read(Launch(applied).args)
    IN read.host = applied.gateway /\ read.options = Asks(applied)

HasCredential(l) ==
  \/ <<"--saml-login", <<>>>> \in Read(l.args).options
  \/ <<"--cookie-on-stdin", <<>>>> \in Read(l.args).options /\ l.stdin # <<>>
  \/ \E o \in Read(l.args).options : o[1] = "--password"

(* crosswire is never launched without a credential from a profile the     *)
(* editor or the importer wrote, whatever the user had typed under another *)
(* authentication before he saved (update_connection, map_connection); an  *)
(* activation ends by a launch.                                            *)
OwnLaunchHasCredential ==
  [][applied # None /\ applied' = None /\ applied.own
       => HasCredential(Launch(applied))]_vars

(* A certificate the user has trusted is not put to him again, unless the  *)
(* gateway rotates it or an editor opened earlier is saved over it         *)
(* (nm-crosswire-cert-dialog.c: "the next connect matches the pin").       *)
TrustIsNotAskedAgain ==
  [][dialog = Closed /\ dialog' # Closed => trusted # dialog'.digest]_vars
==============================================================================
