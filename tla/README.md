# crosswire-network-manager in TLA+

This directory holds the formal model of the NetworkManager VPN plugin for
crosswire: TLA+ modules translated from the sources under `src/`, the TLC
configurations that check them on small instances, and proofs that TLAPS checks
for every value of the constants.  Paths below are relative to `src/`.

## 1. The system

NetworkManager (NM) activates `nm-crosswire-service`, a D-Bus service that runs
as root.  The service launches the `crosswire` VPN client, which runs `pppd`,
which loads a plugin of this repository that reports the address back to the
service over D-Bus.  A second family of libraries and programs, in C, lets the
user edit, import and re-pin connection profiles.

| component | source | state it keeps | operations |
|---|---|---|---|
| connection state machine | `service/src/state.rs`, `nm.rs` | one `ServiceState` behind a mutex; a watch channel "active" | `to`, `fail`, `current` |
| D-Bus service | `service/src/plugin.rs` | the supervisor's slot, the gateway of the current connection (two tokio mutexes) | `Connect`, `ConnectInteractive`, `NewSecrets`, `NeedSecrets`, `Disconnect`, `SetConfig`, `SetIp4Config`, `SetIp6Config`, `SetFailure` |
| supervisor and watcher | `service/src/supervisor.rs` | the child, its retry count, the stop channel, two output readers | `start`, `stop`, the watcher task, `spawn_child`, `drain_loggers`, `prompt_cert_trust` |
| certificate rejection | `service/src/cert_trust.rs` | one `CertScanner` per launch | `observe`, `cert_change`, `classify_exit` |
| main, idle quit | `service/src/main.rs` | - | setup, the shutdown `select!`, `idle_quit` |
| profile mapping | `service/src/config.rs` | none | `map_connection` (argument list, stdin, the missing secret) |
| user session | `service/src/user_session.rs` | none | finds the graphical session, launches a command in it |
| pppd plugin | `pppd-plugin/nm-crosswire-pppd-plugin.c` | none | `nm_ip_up`: `SetConfig`, then `SetIp4Config` |
| net parameters | `pppd-plugin/nm-crosswire-netparams.c` | none | parses `CROSSWIRE_ROUTES`, `CROSSWIRE_DNS` |
| connection editor | `properties/nm-crosswire-editor.c`, `-editor-plugin.c` | the widgets | fill from a profile, update a profile |
| import | `properties/nm-crosswire-import*.c` | the parser's context | XML events to a profile |
| certificate dialog | `properties/nm-crosswire-cert-dialog.c` | the dialog | re-pin the profile, re-activate it |

How they interact:

* NM calls the service; zbus runs each call as a task of its own on a
  multi-threaded runtime and every handler takes `&self`, so handlers
  interleave wherever they await.
* `Connect` asks the state machine for `Starting`, calls `Supervisor::start`,
  and only then stores the supervisor's handle; `Disconnect`, the next
  `Connect` and `main` take the handle out again and call `stop()`, which asks
  the watcher over a channel of capacity one and waits 10 s at most.
* The watcher owns the child.  It hears of a stop request or of a dropped
  handle (the channel closes) or of the child's exit, and drives the state
  machine on its own.
* The pppd plugin's calls carry no name of the session they belong to.
* `idle_quit` follows the state machine's watch channel.
* A rejected certificate opens the certificate dialog in the user's session,
  which changes the profile and activates it again through NM.

What is hard here: the window between the spawn and the slot; a watcher that
decides on a state it read earlier; a `stop()` that times out; reports that
outlive their crosswire; two output streams and a verdict that must wait for
both; a timer that races a connection; sessions that come
and go between two commands of a search; texts from a gateway or a user that
pass through a parser or a shell.  `PROJECT.json` lists every such hazard
at its line, with the properties that watch it.

What makes each component correct:

* state machine: what is announced is what runs; no claim of activity without
  a watcher behind it.
* service and supervisor: one crosswire at a time, each with an owner; a
  stopped session stays stopped; every call is answered; a death is handled.
* certificate rejection: the user is asked about a digest this launch
  presented, and is asked whenever there is one.
* idle quit: quits after the full timeout without a connection, and does quit.
* pppd plugin and net parameters: every well-formed entry reaches NM, in order,
  up to the size of the arrays.
* profile (editor, importer, dialog, `map_connection`): what one component
  writes the others read; saving an unchanged profile changes nothing;
  `NeedSecrets` and `Connect` agree.
* user session: whoever is at the keyboard is asked, nobody else, and once; the
  dialog gets the words the service gave.

## 2. The modules

| module | models | kind |
|---|---|---|
| `ConnState` | `ServiceState`, `legal`, `State::to`, `State::fail`, "active" | operators |
| `CertTrust` | `classify_exit` | operators |
| `Text` | characters and words: what `strtok_r`, `split` and `strtol` do with a text | operators |
| `Service` | handlers, supervisor, watcher, shutdown, pppd reports, composed | state machine |
| `Lifecycle` | what NM is promised of one connection at a time | abstract specification |
| `MCService` | symmetry for TLC | model |
| `IdleQuit` | `idle_quit` and the watch channel | state machine |
| `CertScan` | the output readers, the scanner, the drain, the verdict | state machine |
| `UserSession` | `prompt_cert_trust` and `user_session.rs`: who is at the keyboard, and how the dialog gets there | state machine |
| `CertPrompt`, `MCCertPrompt` | `CertScan` and `UserSession` composed, from a line of output to the dialog | composition, model |
| `NetParams` | the parsers of the pppd plugin, `add_dns`, `add_split_routes` | operators |
| `IpReport`, `MCIpReport` | `nm_ip_up`, `set_config` and `set_ip4_config`: the contents of the report | state machine, model |
| `FortinetImport` | the FortiClient importer over the XML reader's events | state machine |
| `Profile`, `MCProfile` | one profile among importer, editor, service and certificate dialog | state machine, model |
| `ServiceProofs` | theorems about `Service` when calls may overlap | proofs |
| `SerialProofs` | theorems about `Service` when they do not, and that it implements `Lifecycle` | proofs |
| `TextProofs` | lemmas about texts: induction over their characters, and what the machines of `Text` make of them | proofs |
| `CertPromptProofs` | theorems about `CertScan`, and about `CertPrompt` | proofs |
| `IdleQuitProofs`, `UserSessionProofs`, `ProfileProofs`, `IpReportProofs` | theorems about the module each is named for | proofs |

`Service` extends `ConnState` and `CertTrust`; `IdleQuit` extends `ConnState`;
`Service` implements `Lifecycle` through `Abstract`; `CertPrompt` extends
`CertScan` and `UserSession` and joins the watcher's verdict to the prompt's
start; `Profile` extends `FortinetImport`, whose result it adopts, and `Text`;
`IpReport` extends `NetParams`.  `Service` and `IpReport` have the two calls of
`nm_ip_up` in common: `Service` their order among all others, `IpReport` what
they carry.  `Service` and `CertPrompt` have the prompt in common: in `Service`
it is one state of the watcher and its length (`SlowPrompt`).

### Service and the code

An action is the code between two await points at which another task can change
what the code reads next.

* `svc` is `Inner.state`.  `To` and `Failed` run under the state's mutex, so
  each is one step.  The signals `StateChanged` and `Failure` are sent under the
  same mutex, so their order is the order of the changes of `svc`.
* `slot` is `Shared.supervisor`; a session is named by the `Connect` call that
  started it.  `gateway` holds the name of the `Connect` call whose profile's
  host is in `Shared.gateway`, or `None`.
* The supervisor mutex is held exactly while an actor awaits `stop()`, because
  the guard of `lock().await.take()` lives to the end of the `if let` block:
  `SupervisorFree`.  The gateway mutex is held while `set_config` resolves the
  host: `GatewayFree`.
* `pc[c]` is where a handler stands; labels are named for what comes next.
  `Take` is the lock, the `take()` and the request `stop()` sends first: with
  one request at most on a channel of capacity one the send does not wait.
* `watcher[s]` is where the watcher task stands: `run` (its `select!`), `clean`,
  `drain`, `backoff`, `prompt`, `failing` (about to call `fail`), `term`, `done`.
  `WatcherClassify` reads the state and decides; the step that carries the
  decision out is another one.
* `StopReady` is `stop_rx.recv()` being ready: a request, or no sender left.
* `StopOver` is the return of `stop()`.  The 10 s run out only on a watcher in
  the prompt: the teardown takes 8 s and a SIGKILL, the two drains 3 s each, and
  a backoff ends with the request.
* `ConnectSpawn` makes the child and the watcher; `ConnectStore` stores the
  handle and drops the one that was there.
* `MainExit` drops the runtime, and `kill_on_drop` kills what is left.
* `cfg` and `ip4` are the two calls of `nm_ip_up` for each launch.

Merged, because nothing another actor does in between is told apart: the take
and the request; the return of `stop()` and the `Stopped` after it, which
`do_connect` does under the mutex; a failed relaunch and the watcher's `fail`,
which is the step `failing`.

Assumptions, each a constant:

* `Overlap`: which calls run into a call in flight.  NM waits for the reply to
  `Connect` but may call `Disconnect` when its own timeout strikes:
  `"disconnect"`.  `"none"` waits for every reply, `"any"` never waits.
* `SlowPrompt`: `prompt_cert_trust` may take longer than `stop()` waits.  It
  does without `systemd-run`, where `su` waits for the dialog.
* `LateReports`: a report may be handled after its crosswire is gone.
* `SlowCalls`: `SetConfig` may outlast the plugin's D-Bus timeout, so that
  `SetIp4Config` is sent behind it.
* `Calls` and `MaxRetries` (2 in the code) bound the number of calls and of
  relaunches.

Fairness (`Fairness`): tokio runs every ready task, its mutexes are FIFO, its
timers fire and a killed child is reaped; so the handlers, `main` after its
select, the watchers and the handling of a report each get weak fairness.
Nothing is assumed of NM, of the user, or of crosswire exiting or reporting.
The prompt returns only when it does not wait for the dialog (`~SlowPrompt`).

### IdleQuit and the code

A watch channel is a value and a version; `seen` says whether the receiver has
seen the last version.  `Borrow` looks at the value without marking it seen,
`Changed` is `changed().await`.  Time is counted in ticks of which `QuitTimer`
make 180 s; a tick passes only when the loop waits.  `loop = "pending"` is
`--persist`.

### CertScan and the code

`script` is what crosswire writes on each stream in each launch, a sequence of
lines reduced to what `observe` tells apart.  `Log` is one turn of
`spawn_logger`, which ends at the end of the stream or at a line that is not
UTF-8.  `Drain` awaits the readers one after the other; with `wedged` a process
that inherited the pipe keeps it open and `DRAIN_TIMEOUT` ends the wait.  A
relaunch gets a scanner of its own while old readers go on.

### UserSession, CertPrompt and the code

The prompt is a thread that runs one command after the other: `list-sessions`,
a `show-session` for each session, `getent` or `id`, `systemd-run`, and `su`.
`prompt` is the command it is at; between two commands users log in, log out
and switch (`LogindChange`), so a session of the list may be gone when it is
shown.  What logind prints is a sequence of lines in either order, read by
`parse_graphical_session_uid` line by line.

Commands fail as the code tells failures apart: one that cannot be started ends
the search (`?` and `.ok()?` on the `Command`), one that exits with an error
is passed over, and `systemd-run` may fail after the unit was started.  `fault`
remembers that one did.  `systemd-run` returns when the unit is started;
`su` stays in the foreground until the user has answered (`Answer`), which is
the exit status of `nm-crosswire-cert-dialog`.

The command line of `su` is made of characters: `shell_single_quote` quotes the
words and `Shell` is how a POSIX shell splits them again.  A name, a digest and
any run of harmless letters are one character; quote, backslash and blank are
themselves.

`lasting` and `owners` are history: the sessions at the keyboard ever since the
prompt began, and the users of those at some time since.  The properties speak
of them, no guard does.

In `CertPrompt` a line of crosswire's output is a text, and `extract_sha256`
cuts it into tokens; a digest stands for its 64 digits.  `Prompt` is the
`PromptCert` branch of the watcher, which gives the digest of its verdict to
`prompt_cert_trust`.

Fairness: the commands end (`WF(Spawn)`).  Nothing is assumed of the user, so
that nothing is promised once `su` waits for him.

### NetParams, IpReport and the code

Texts are sequences over `Chars`; an address is one character (`InetPton`
reads exactly one), the others stand for themselves.  `Route` and `Parse` are the loop of `nmo_parse_routes`;
`Strtol` skips blanks, takes a sign, reads leading zeros and stops at what is
no digit.  `IpReport` is `nm_ip_up` with its early returns (no bus, no
address), and its two calls, each of which may fail and is then skipped;
`resolve_gateway` takes the first IPv4 address of the host.  The arrays of 256
routes and 16 servers are `MaxRoutes` and `MaxServers`; `Negotiated` are the
servers pppd agreed on, which count only when the environment names none that
can be read.

### FortinetImport, Profile and the code

`FortinetImport` delivers the events of a file one by one; `StartElement`,
`Text` and `EndElement` are the callbacks and `p` is their `FParse`.  A text is
the chunks GMarkup may split it into, so a server with a port is the chunks of
host and port.  An empty string and an absent one are both `<<>>`: the code
tests `server && *server` and its like throughout.

`Profile` holds one profile as a record.  `Adopt` stores what an import
yielded; `EditorOpen`, `EditorChange`, `EditorSave` are
`fill_from_connection`, the user, and `update_connection` with its check;
`NeedSecrets`, `SupplySecret`, `Connect` are the service's calls on the copy of
the profile that NM took (`Activate`); `DialogRead` and `DialogCommit` are the
two ends of `trust_and_reconnect`, between which the profile may change.

`Arguments` is the whole vector `map_connection` builds, in its order: what is
delegated to NM, port, a `--trusted-cert` for each pin, `--insecure-ssl`, the
credential, `--` and the host.  `Read` is external: how crosswire reads such a
vector, with an option that takes a value, one that takes none, and
`--saml-login`, whose value is optional, so that it would swallow the host but
for the `--`.  A host may begin with a hyphen, as an option does (`Options`); the
other values of a profile are texts over `Chars`, which holds no option.

`realm` and `ca-file` are treated everywhere as `port` is, and `port` stands
for them; `provider` has one value.  What crosswire does with a pin is external:
it accepts a pinned certificate, refuses another, and may do either without a
pin.  One dialog at a time: a second one for the same digest tells nothing new.

## 3. The runs

All finish within two minutes.

| run | instance | shows |
|---|---|---|
| `Overlap` | 2 calls, any overlap, slow prompt and calls, no relaunch | `CallsReturn`, `UnownedIsTornDown` |
| `Interrupt` | 2 calls, a Disconnect or shutdown anywhere, slow prompt and calls, 2 relaunches | `TypeOK`, `StopIsFinal`, `ActivityAccounted`, `OneCrosswire`, `LiveIsOwned`, `DeathIsHandled` |
| `Serial` | 3 calls one after the other, 1 relaunch | `StartedIsTrue`, `ExitTearsDown`, `FailureIsOwn`, and `Implements`: Service refines Lifecycle |
| `IdleQuit` | a timer of 6 ticks | `TypeOK`, `QuitsOnlyWhenQuiet`, `QuitsWhenIdle` |
| `CertPrompt` | 2 launches, 4 outputs per stream, 2 digests, 2 worlds of sessions, 1 change | `TypeOK`, `PromptIsFounded`, `RejectionIsSeen`; `SessionTypeOK`, `SeatIsPrompted`, `OnlySeatIsPrompted`, `DialogReadsRequest`, `AskedOnceAndHeard`, `PromptReturns`; `DialogIsFounded` |
| `IpReport` | every text of up to 4 characters, every list of up to 4 entries of 8 kinds, arrays of 2 | `TypeOK`, `RoutesAreInstalled`, `SplitStaysSplit`, `ServersAreTheGateways`, `ServerIsPinned` |
| `Profile` | files with 2 connections, 136 foreign profiles, 2 edits, 2 certificates | `TypeOK`, `ImportsFirst`, `SaveKeepsLaunch`, `SecretAskedOnce`, `ArgumentsAreRead`, `OwnLaunchHasCredential`, `TrustIsNotAskedAgain` |

Two calls make every pair of handlers meet, and with a shutdown three actors
run into one session; the theorems cover every number of calls and relaunches.
Two relaunches are those of the code, so the last one, after which a failure is
reported, is in the run.  `Serial` has three calls: a session is started, ended and
followed by another, which would meet whatever the first left behind.  With
`Overlap = "any"`, `OneCrosswire`, `LiveIsOwned`, `ActivityAccounted` and
`DeathIsHandled` do not hold: of two overlapping Connects the later assignment
of the slot wins, whichever session is the live one.  NM never overlaps two
Connects, so the runs of these properties assume so.

In `CertPrompt` the outputs of two streams hold the two facts of a rejection on
either one, in either order, an unrelated run of hex digits before the digest,
and a line that is not UTF-8 in front of the marker.  One of the two worlds has
a remote session next to the one at the keyboard, and the change of worlds is
a switch of users at any command.  The host to show has a blank, a quote and a
backslash.  Digests are interchangeable, so that two show every mistake of one
for the other.

In `IpReport` an array of two elements is full after two, and lists of up to
four run past it with malformed entries at each place.  The texts of up to four
characters hold every way of writing a prefix that the parser treats
differently.  `RoutePlaces` and `ServerPlaces` are the reference: they find the
entries by their places in the text (`Starts`, `EntryAt`) and the prefix by the
ways to write it (`Spells`), and never read one character after the other.
`ToSet(link.ipcp)` stands for the negotiated servers there, in whatever order.

Two connections per file show what one leaves behind for the next, one file
names a server that is nothing but a port, and eight of the foreign profiles
have a host that reads like an option.  Two
edits let the user type a secret and then change the authentication it belongs
to.  `ImportsFirst` is about files in which no connection with a field is
skipped; `OwnLaunchHasCredential` is about profiles of the editor and the
importer, because the service launches a foreign profile with password
authentication and only a cookie, and passes neither.
`DeathIsHandled` allows for the certificate prompt, which holds the report of a
failure back for as long as it lasts.

Five more runs end in a violation; each shows a disagreement of the code with
its own comments (`findings` in `PROJECT.json` quotes them).

| run | what happens |
|---|---|
| `OrphanFinding` | Disconnect finds the slot still empty, announces Stopped and returns; crosswire runs on until the next call |
| `StaleFailureFinding` | `stop()` times out on a watcher in the prompt; that watcher later fails the next connection |
| `LateReportFinding` | a `SetIp4Config` of a crosswire that died is handled during its relaunch and marks it Started |
| `GatewayFinding` | a Connect that returns early for a missing secret has already overwritten the gateway of the running session |
| `ImportFinding` | a connection without a server is skipped, and its user name or SSO flag is imported with the next one |

Every property of a passing run has a mutant in `PROJECT.json`: a broken variant
of one definition, written just above it, that makes the property fail.

## 4. The theorems

Every invariant and every action property of the passing runs is stated by a
theorem; only the liveness properties are not.  Each theorem rests on the
assumptions of the modules it is about (`ServiceAssumption`, `ScanAssumption`,
`IdleAssumption`, `SessionAssumption`, `ImportAssumption`, `ProfileAssumption`,
`ParamsAssumption`, `LinksAssumption`) and on what its own statement assumes.
The assumptions type the constants and keep apart what the models tell apart: no
value is `None`, no address is a digit or a mark of punctuation, no value of a
profile but the host is an option.

`ServiceProofs`, for any set of calls and any `MaxRetries`:

* `TypeCorrect`: `Spec => []TypeOK`.  `TypeOK` is inductive.
* `StopFinal`: `Spec => []StopIsFinal`, with any overlap and any prompt.
  `StopIsFinal` is not inductive: nothing in it says that a session whose stop
  was requested cannot be started, nor that the watcher which `stop()` gave up
  on cannot relaunch.  `StopInv` adds that a child lives only under a watcher in
  `run` or `term`; that a Connect before its spawn (`Early`) has no watcher yet,
  while a handle about to be stored, in the slot, or asked to stop belongs to a
  watcher that exists; and that once a stop was asked for and nobody waits for
  it any more, the watcher is done or on the way there from the prompt
  (`prompt`, `failing`, `done`), from which there is no way back to `run`.
* `SingleCrosswire`: unless `Overlap = "any"`,
  `Spec => [](OneCrosswire /\ LiveIsOwned)`.  `SingleInv` says that one Connect
  is in flight at most; that one actor at most is stopping, and the slot is
  empty while it is and while a Connect is past the replacing; and that at most
  one session is a `Threat` (its watcher could run a crosswire: `run`, `term`,
  `drain`, `backoff`), its handle is held, and there is none when a Connect
  reaches the spawn.  The mutual exclusion of the supervisor mutex is part of it.

* `NothingDiesSilently`: unless `Overlap = "any"` or reports are late,
  `Spec => []ActivityAccounted`.  `AccountInv` names who owes the end of a claim
  of activity (`Claimed`): a watcher that has not ended, or a call on its way
  from Starting or Stopping to Stopped.  For the watcher's own end it needs that
  a request goes only to a session that has left the slot and comes from an
  actor that waits for it (`Requested`), and for the half-delivered report that
  its crosswire still runs (`Reported`).  A watcher that ends by a request hands
  the debt to the actor that made it; one that ends by itself pays.

`SerialProofs`, when NM waits for each reply, reports are not late and the
prompt does not outlast `stop()` (`Serial`: the constants of the run of that
name), for any set of calls and any `MaxRetries`:

* `ImplementsLifecycle`: `Spec => Implements`, the refinement.  Every step of
  `Service` is a step of `Lifecycle` or changes neither `svc` nor which
  crosswires run (`StepMaps`).  `Lifecycle` allows Begin, Launch and Settle only
  with nothing running and Up only with something, so each needs to know what
  runs: `SerialInv` says that a call is alone in flight and none is when main
  leaves (`Alone`); that one watcher at most is at work, its handle held, and
  none where a Connect is past the old session, a Disconnect past its teardown
  or main past its own (`Attended`); and what `svc` says of that watcher
  (`Truthful`): before a relaunch it is Starting or Stopping, and Started only
  when the present launch has reported.  It builds on `StopInv`, `SingleInv` and
  `AccountInv`.
* `StartedTrue`, `ExitTornDown`, `FailureOwn`: `StartedIsTrue`, `ExitTearsDown`
  and the action property `FailureIsOwn` from the same invariant.
  `ExitTearsDown` needs one more fact, that no child is ever `killed`.

The findings show that each assumption is needed: `OrphanFinding` drops the
first, `LateReportFinding` the second, `StaleFailureFinding` the third.

`CertPromptProofs`, first of `CertScan`, for any scripts, digests and number of launches:

* `TypeCorrect`: `Spec => []TypeOK`.
* `PromptFounded` and `RejectionSeen`: `Spec => []PromptIsFounded` and
  `Spec => []RejectionIsSeen`.  Neither is inductive, because neither speaks of
  the scanner.  `ScanInv` says that a scanner knows of its launch's lines
  exactly what its readers have observed (`Exact`), and that, unless a pipe
  stays open, the readers of a judged launch have ended and its verdict is the
  scanner's last word (`Final`).  `LogObserves` is the lemma that a reader's
  step adds one line; `AllIsObserved` that ended readers have observed every
  line when all decode.

`UserSessionProofs`, for any worlds of sessions and any number of changes:

* `SeatPrompted`, `OnlySeatPrompted`, `AskedOnce`, `SessionTypeCorrect`, for
  `SeatIsPrompted`, `OnlySeatIsPrompted`, `AskedOnceAndHeard`, `SessionTypeOK`.
  `SessionInv` adds where the search stands: a session that has been at the
  keyboard all the while is still in the queue, as long as none was found and no command failed;
  who was found is among `owners`; and how many dialogs there are at each
  command.  `ShownIsAtKeyboard` is the lemma about
  `parse_graphical_session_uid`: in whichever order the lines come it yields the
  user of a session at the keyboard and nobody else; `AllAreListed` that the
  queue holds every session.
* `RequestIsRead`: `SessionSpec => []DialogReadsRequest`, for texts of any
  length over any alphabet.  `EscapeDriven`, `QuoteDriven` and `QuotedDriven`
  follow the shell through one character, one quoted word and the whole command
  line: whatever the word, a quote in it included, the shell ends outside of
  quotes with exactly that word added.

`CertPromptProofs`, then of the two together:

* `PartsUndisturbed`: a step of the whole is a step or a stutter of each part
  (`ImplementsParts`), so what is proved of `CertScan` and `UserSession` holds
  of `CertPrompt`.
* `DialogFounded`: `PromptSpec => []DialogIsFounded`.  `PromptInv` says that
  while a prompt is on, the launch is judged and the digest shown is its verdict;
  `PromptIsFounded` does the rest.

`ProfileProofs`, for any file and any profile another tool may write:

* `TypeCorrect`: `Spec => []TypeOK`, the importer's texts included.
* `SaveKept`: `Spec => []SaveKeepsLaunch`.  `SaveLaunch` and `SaveMissing` are
  about the operators alone: fill, update and map, for every record.  That the
  second applies to profiles of our own is `StoredInv`: the editor and the
  importer store a known authentication, and a cookie only where it is the
  credential.
* `SecretOnce`: `Spec => []SecretAskedOnce`.  `ActiveInv` says that what has been
  asked for is in the copy NM activates, and that what is being asked for is
  what that copy lacks.
* `ArgumentsCorrect`: `Spec => []ArgumentsAreRead`, for any number of pins and
  of words.  `Adds` says of a stretch of the vector that reading it, from
  wherever options are still expected, adds its options and stops there again;
  each piece `map_connection` appends is shown to (`AddsDelegated`, `AddsPins`,
  `CredentialRead`), and `LaunchRead` puts them together with the `--` and the
  host.
* `OwnLaunched`, `TrustKept`: the action properties `OwnLaunchHasCredential` and
  `TrustIsNotAskedAgain`.  `TrustInv` says that a trusted certificate is the
  gateway's and is the pin of the profile and of the copy being activated, and
  that nothing is imported once there is a profile.
* `ImportCorrect`: `Spec => []ImportsFirst`, for files with any number of
  sections, connections and leaves.  `ReadInv` says that the parser's state,
  driven by the events still to come, ends where a fresh parser driven by the
  whole file ends.  `LeafRead`, `ConnectionRead`, `SectionRead` then
  say what the parser makes of each element as a whole, by induction over the
  parts of the next larger one.

`IpReportProofs`, for any links, any sizes of the arrays and texts of any length:

* `TypeCorrect`, `RoutesCorrect`, `SplitCorrect`, `ServersCorrect`,
  `ServerPinned`, for the five invariants of the run.  `ReportInv` is the
  invariant of the steps: the link stays the one that was found, and each of the
  two reports is absent or exactly what `Configured` and `Reported` make of it.
  The rest is about the parsers.  `Parsed` says of the loop of `nmo_parse_routes`
  that it keeps the first well-formed tokens, as many as fit; `EntryFound` and
  `InPlaceOfText` that the tokens are the entries found by their places; `StrtolTo` and `StrtolOf`
  that `Strtol` reads a whole text as a number of at most 32 exactly when the text
  spells it, with any number of blanks and leading zeros and a sign.

`IdleQuitProofs`, for any timer:

* `QuitsQuietly`: `Spec => [](TypeOK /\ QuitsOnlyWhenQuiet)`.  `QuietInv` adds
  that a sleeping loop which has seen the last change knows that nobody is
  connected and that its timer is no older than the quiet.

Induction over data.  The library's induction theorems take a predicate as a
parameter, which no installed prover instantiates.  `TextProofs` does without:
`Induction` and `TextInduction` take a set instead and come from the
well-founded minimum of `WellFoundedInduction`, which is about sets.  What is
computed character by character is a recursive function in the models (`Along`
and the folds over it); `DriveTrace` shows that such a function exists for a text of
any length, `DriveUnique` that it is the only one, `DriveAppend` and
`DriveConcat` how it goes on.  A loop of the code thus becomes a machine, a
function from characters to functions on states, and a proof about a text one
about a step.

Only model-checked: the liveness properties (`CallsReturn`, `UnownedIsTornDown`,
`DeathIsHandled`, `QuitsWhenIdle`, `PromptReturns`), because fairness and
`ENABLED` are out of the prover's reach.

## 5. What is not modelled

* `SetIp6Config` re-emits its argument and `SetFailure` logs its own: neither
  reads nor changes a state.
* The start of the service: argument parsing, the connection to the bus, and the
  moments between serving the object and installing the signal handlers.  A call
  that arrives in them panics in an `expect`, a SIGTERM in them ends the process.
  `PROJECT.json` lists it as a hazard; `Service` begins where the start ends.
* A display manager's greeter, whose session logind also calls active, local and
  graphical: `Class` is not asked for, so nothing in the code or the model tells
  it apart (a hazard without a property).
* A user name, password or code that begins with a hyphen: what crosswire makes
  of it is up to a declaration that is not in this repository (a hazard without a
  property).
* What NM does with `Config` behind `Ip4Config` when `SetConfig` is slow: the
  order occurs in `Overlap`, its effect is outside.
* `nm-crosswire-editor-plugin.c` loads the editor and dispatches imports, with no
  state of its own; the layout of the editor and the visibility of its rows;
  the manual driver `service/examples/nm_sim.rs`; the packaging scripts and the
  D-Bus policy.

What could still be added: the start of the service as a state machine before
`Init`, so that its hazard gets a property; and `Profile` composed with
`Service`, so that the activation by the dialog meets the attempt that opened
it (both sides of the meeting are in the modules, `DialogCommit` as a new
activation in `Profile`, the second Connect in `Service`).
