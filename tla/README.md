# Verification of xitbox

TLA+ models of `xb`, its guardian proxy, its configuration, its sandboxes and their
state directories, the TLC configurations that check them on small instances, and
TLAPS proofs of the results that should hold for every size. `src/` paths below are
those of the repository. `PROJECT.json` lists every run, every definition with the
lines it translates, the hazards and the findings.

## 1. The system

`xb <command>` runs a command in a sandbox. One `xb` process holds everything:
the main goroutine (`cmd/sandbox.go`, `pkg/sandbox`), a *guardian*
(`pkg/guardian`: a proxy that allows or denies connections by host), and a
*watcher* that reloads the guardian's rules when a configuration file changes.
Other `xb` processes (`--allow`, `--init`, `--list`, `--logs`) meet it through
files and through the guardian's control socket.

| component | state | operations | talks to | correct when |
|---|---|---|---|---|
| rule engine `guardian/rules.go` | `allowList`, `denyList` under an `RWMutex` | `Check`, `List`, `AddAllow`, `AddDeny`, `Replace`, `NewRules` | called by connections, control requests, the watcher | each call takes effect at one instant and returns; a verdict is the documented one |
| guardian server `guardian/proxy.go`, `control.go` | listeners, `stopCh`, `wg`, log file, connections, tunnels | `Start`, `SetMeta`, `AddProxySock`, `Stop`, accept loops, `handleConnection`, `handleControl` | clients and destinations (TCP), `xb --allow` (Unix socket) | Stop leaves nothing and returns; the log tells what was done, as far as it could be written; bytes arrive in order and completely |
| configuration `config/config.go` | user file, project file | `Load`, `LoadUserOnly`, `SaveDefault` | read by xb and the watcher, written by `--allow`, `--init`, editors | what is written back changes nothing else |
| watcher `sandbox.go: watchConfig` | known modification times | a tick every 2 s: stat, load, replace | the files, the rule engine | no missed change |
| `xb --allow`, `--init`, `--logs` | none of their own | read, save, live update; last denial of the log | files, control sockets, audit log | no lost save; the last denial can be allowed |
| runner `sandbox_linux.go`, `sandbox.go: runDarwin` | mode, `sandbox-pid`, `network-ready`, profile, child, network tool | `runLinux` and the attempts it makes, `runDarwin` | bwrap, pasta, slirp4netns, sandbox-exec, the shell in the sandbox | one attempt at a time, no leftovers, one execution, an end |
| signals and terminal `sandbox.go` | a channel of one signal; the saved settings | `forwardSignals`, `saveTTY`, `restoreTTY` | the user, the child | a kill ends the command; the terminal is restored |
| state directories `sandbox.go: ListRunning` | one directory per sandbox | create, register, prune, remove | other xb processes | live ones kept, leftovers removed |
| relay `cmd/xb/main.go` | one tunnel per connection | accept, copy both ways | the command, the guardian's proxy socket | as the guardian's tunnels |
| mounts and environment `fs/mounts.go`, `sandbox.go: sandboxEnv` | none that outlives a call | `PrepareMounts`, `BuildBwrapArgs` | bwrap | the command sees what is configured |
| cgroups, Seatbelt profile, platform, doctor, flags | none | construction of arguments, printing | the operating system | - |

What is hard in it:

- **Concurrency.** A verdict scans two lists that a reload empties and refills; a
  control request adds to them meanwhile. Stop closes listeners while accept loops
  start handlers. The watcher stats, then reads, files that others replace in two
  steps. A lister removes directories that sandboxes are making.
- **Ordering.** A decision is logged before it is acted on, in two writes that must not
  meet those of another; the recorded
  modification time must never be newer than the content that was read; the shell
  in the sandbox must wait for its network; mounts hide each other.
- **Failure.** Each step of the handshake may fail, a save may stop between
  truncation and write, a dial may never be answered, a process may crash and its id
  be given again, signals come at any time, a connection is reset, a write to the log fails, the
  network tool exits, a file has an error in it.
- **Termination.** Stop waits for every handler, xb for the child, the child for a
  file of xb, each half of a tunnel for the other end.

## 2. Modules

| module | models |
|---|---|
| `RuleDecision` | the verdict as a function of the two lists, and `addRule` with parsing and matching as parameters |
| `RuleMatch` | these two parameters: what a pattern means, and a reference definition from the documentation (`Denotes`) |
| `RuleCalls` | which goroutine makes which call on the rules |
| `RuleStore` | **abstract**: a store of two sets where each call takes effect at one instant |
| `RulesLock` | **detailed**: mutex, slices, one rule per scan step, one string per append |
| `Guardian` | life of the server and of its connections; uses the atomic rules that `RulesLock` justifies |
| `Tunnel` | the bytes of one connection through relay, guardian and upstream proxy, over sockets with bounded buffers, half-close and reset |
| `HotReload` | files, their writers, the watcher, the rules in force |
| `ConfigMerge` | `config.go` as operators on contents |
| `Mounts` | `mounts.go`, `sandboxEnv` as operators: from a configuration to the view and the environments of both systems |
| `ConfigUse` | **composes** `ConfigMerge`, `RuleMatch`, `RuleDecision` and `Mounts`: commands, an editor, a sandbox and the audit logs |
| `SandboxRun` | the attempts on Linux and macOS, the handshake, terminal, signals, clean-up |
| `StateDirs` | state directories of several sandboxes and listers |
| `RulesLockProofs`, `GuardianProofs`, `TunnelProofs` with `TunnelSockets`, `HotReloadProofs`, `SandboxRunProofs`, `StateDirsProofs`, `ConfigUseProofs` | the theorems |
| `MCRulesLock`, `MCGuardian`, `MCTunnel`, `MCHotReload`, `MCConfigUse`, `MCSandboxRun`, `MCStateDirs` | the constants of TLC's instances |

Definitions whose name contains an underscore (`Replace_KeepsOld`, ...) are mutants:
the definition named before the underscore with one plausible mistake, used to
see that each property can fail.

**Rules.** `pc[p]` is where goroutine `p` is inside `Check`, `List`, `AddAllow`,
`AddDeny` or `Replace`. The `RWMutex` is modelled by its contract: `Announce` (a
writer that waits keeps new readers out), `Acquire` (it has drained the readers),
`Unlock` (it admits the readers that wait). `NewRules` is the `Replace` of a
goroutine nobody can race with. `Parse` and `MatchRel` are constants: the module is
about the order of reads and writes whatever the patterns mean. The refinement
mapping counts a string that the writer has still to add as added (`StoreAllow`),
so the abstract call takes effect at `Reset` or `Acquire`.

In `RuleMatch` a text is its labels between dots and, behind the last colon, its tail. A
star is the only wildcard; `?` and character classes of `path.Match` are left out.
`LabelsMatch` walks the host as `path.Match` does; the reference `Denoted` says instead that the
labels of the host can be dealt out to those of the pattern.

**Guardian.** `main` is the goroutine that calls `Start`, `SetMeta`, `AddProxySock`,
`Stop`, one value per step that others can see. `st[c]` is where the handler of
connection `c` is; `mine[c]` which of its two connections it holds open; `up` and
`down` are the two `io.Copy`: in `"read"` they wait for data, in `"write"` for the other
end to take it. `ReadFirst` lets the first segment hold the whole request or too
little of it. `Accept` and `Spawn` are the two halves of an accept loop: between them the loop
holds a connection that the wait group does not count. `Log` and `LogNewline` are the two writes of
`logDecision` under `logMu`: no entry when there is no file or marshalling fails, and the errors of
both writes are ignored, as in the code; `unwritten` is history, the connections of which something
was lost. Failures: of `Start`, of `AddProxySock`, of the log, of the dial, of the write to the
destination. What clients and destinations do is never fair.

**Tunnel.** Each hop has a socket towards the client and one towards the destination;
`queue[s]` is what is under way to a socket. The behaviour of the operating system is
part of the model, because what arrives depends on it: `Close` of a socket with unread
bytes resets the connection, a write to a closed peer is answered by a reset, and a
reset destroys any part of what is under way. `phase` follows `handleConnection` and
`runRelay` up to the copying (an upstream proxy may answer, refuse or say nothing), `held` is what an `io.Copy` has read and not yet written, and
`ended` how it has returned: at the end of what it read, by a reset, because the other
one closed its socket, or because it could not write. `read` and `written` count the pieces that each
socket gave and took; `early` counts the bytes of each end that the guardian reads too early and drops.
These three are history: no guard depends on them but "no" in `ended` and the place of an end in what it sends.

**HotReload.** A file has a content and a modification time; `Grain` changes share one time.
`Truncate` and `Write` are the two halves of `os.WriteFile`; `holds` tells whether an
open file still is the one under its name; when two saves overlap, the rest of a longer
one may stay (`Garbled`). An editor may also delete a file. A configuration is the set of
its allow and deny entries, because the merge only adds. `seen` is the map `mtimes`,
`got` what the last read of each file contributed; `missed` is history: the files that
hold something else than what was read when they had the time the watcher knows.

**ConfigUse.** One user at one terminal: each command is one step, because their
interleavings are `HotReload`'s subject. `sb` is the running sandbox with the
configuration it was started with, the rules in force and the strings they come from. A file is absent,
holds a document, has a slip in its syntax (`Malformed`: nothing is decoded) or values of a wrong
type (`Mistyped`: the rest is, beside the error); the merge passes over both, `LoadUserOnly` keeps
what was decoded. Of
the two lists of rules `sb` keeps the sets, because nothing else counts for a verdict
(`RulesLock` has the order). `logs` maps each path to its entries, because the guardian uses
the path as it is written and the readers expand "~"; each entry says whether it is of this sandbox or of
another, because all sandboxes share one log by default (`OtherDenies`). `Start` chooses an order of the map
of agents, and `View` keeps of the mounts those that no later one hides. A persistence path is looked for
as it is written, "~" included, so one that begins with "~" is not found. An environment maps each
variable to whose value it has: `LinuxEnv` is what `--clearenv` and the setup script leave,
`DarwinEnv` what `sandboxEnv` makes, with its telemetry and CA variables.

**SandboxRun.** `xb` walks through an attempt; `child[m]` is bwrap or sandbox-exec and what
runs in it, `Begin` is the shell that sees `network-ready` and execs the command.
`handler[m]` is the goroutine of `forwardSignals`, `pending` its channel; `saved` and `tty`
are what `saveTTY` returned and how the terminal is set; `Return` is the return of an
attempt with its deferred calls. A signal without a registered channel kills xb. `net` is the network
tool, which may exit by itself at any moment (`ToolExits`); `served` is history, the attempts for which
one was started. `Cleanup` calls the guardian's Stop, `StopReturns` is what follows if Stop returns.
pasta may put itself in the background: the process that xb kills is then gone already, and the
other leaves with its network namespace, which is outside the model.

**StateDirs.** `there`, `sock`, `relay` and `files` are the directories and who made what is in
them. A sandbox goes from `Begin` (a process with an id no live one has) through the
listeners and the three documents to the command and `Cleanup`, or crashes. A lister
reads the names once, then dials, removes in two steps (`Unlink`, `Rmdir`) or reads each;
`Tell` is `liveUpdateRunning`, which dials again; `told` is whom it has updated. `exposed`, `fresh`,
`dead` and `due` (the sandboxes of the lister's directory that were registered when it read the names)
are history, for what the properties say.

## 3. Runs

| run | instance | shows |
|---|---|---|
| `rules` | 1 connection, 1 control goroutine, the watcher; 2 rules, a blank string and a blank host; lists of up to 2 rules when an addition starts | types, exclusion, the inductive invariant, **refinement of `RuleStore`**, and that every call returns |
| `guardian` | a proxy connection that may ask for anything beside a control connection, or two proxy connections whose requests are refused, over the two listeners (`FirstOf`, `Together`); a rule that the control connection may deny and a reload restores | `StopQuiesces`, `Audited` with a log that may fail, the inductive invariant; handlers end with their clients, Stop returns |
| `tunnel` | 6 shapes (relay, CONNECT, upstream proxy or not; not relay and upstream together), 2 pieces up after a request of 2, 2 down, buffers of 3 | `InOrder`, `AnswerComplete`, `UploadComplete`, the inductive invariant; every goroutine ends (`AllEnd`) |
| `reload` | a built-in entry and two more, one `--allow`, one `--init`, an editor, two changes per clock tick | the inductive invariant, `NoMissedChange`, `Converges` |
| `config` | 11 strings as entries, of every kind, 5 destinations, 5 user files (one malformed, one mistyped) and 3 project files that add, repeat, override; a persistence path with "~"; one edit, one `--allow`, two log entries, of this sandbox or another | `DocumentedVerdict`, `FromLogOffers`, `FromLogUnblocks`, `InitNeutral`, `AllowKeepsRest`, `SandboxAsConfigured`, the inductive invariant |
| `run` | Linux with both tools and macOS, two signals | attempts never overlap, no leftovers, the handshake is with the own sandbox, the inductive invariant, xb comes to its clean-up (`ComesToCleanup`) |
| `dirs` | two sandboxes with one process id and two listers, or two sandboxes with two ids and one lister (constraint `Small`); two directories | `LiveKept`, `PruneComplete`, `OwnDirTold`, `EndsClean`, the inductive invariant |
| `reload_lost`, `run_twice`, `run_kill`, `run_tty`, `config_filter` | small ones | five disagreements, below |

Bounds and why they are enough: two rules of which both match one destination let a
scan stop at the first, pass to the second list, and be raced by a reload between the
two; three goroutines are a reader, a writer, and a second writer. Connections of
the guardian interact only through the counter, the log and the rules: one that is served beside one
that changes the rules, and two that log at the same time, are the pairs there are. `MaxClock = 4` lets an editor save twice around the
saves of `--allow` and `--init`, which are not bounded by it, and `Grain = 2` puts every
second change at a time already used. Buffers of three pieces hold a request of two with
one of the two pieces that follow it, so that one read can take the first of these and
leave the second, and they fill with "200" and the two pieces of the answer; one relay is
enough for hops to wait for each other. Two sandboxes with one id are an earlier one and one that begins in what it left,
and two listers may prune one directory; two with different ids are a leftover and one to be updated after it. One edit, one `--allow` and two log entries are enough to have any file replaced
while a sandbox of another configuration runs, a denial followed by one without a
destination or by one of another sandbox, and an entry added live before a reload. Two signals are one forwarded and
one that finds the handler gone. For safety the proofs remove the bounds, in all seven
systems.

Deadlock is checked where the system never stops (rules, reload); the other
configurations say `CHECK_DEADLOCK FALSE` because the server, xb, a connection, the
listers end, and because `ConfigUse` bounds what its user does.

**Fairness.** Go schedules every goroutine that can run: weak fairness of each handler,
loop, copy and of xb's own steps. `CodeFair` of `Guardian` joins the steps of a connection and those of
Start, Stop and the loops in one condition each, because none of them can happen over and over. `RulesLock` assumes strong fairness of `Announce` only,
which is the hand-over of Go's mutex to the writer that waits longest. `PoliteSpec` of
`Guardian` adds that clients of an ended command go away, destinations read and dials
are answered: without the last two handlers need not end (section 4). `Tunnel` assumes
nothing of the ends, so `AllEnd` names the waits that never end. In `HotReload` only the
watcher is fair: writers may stop in the middle of a save. In `SandboxRun` a signalled
child exits, the five-second deadline passes, and, for `ComesToCleanup` only, the command ends; nothing makes
the guardian's Stop return, because that is a matter of its clients (`Guardian`'s `StopReturns`): `ComesToCleanup` and
`KillEnds` speak of the moment at which Stop is called.
`ConfigUse` and `StateDirs` have safety properties only and no fairness.

What the properties except is what the code does not do: `exposed` (the 100 ms of
`ListRunning`, and a dial just before the socket listens), `fresh` (process ids that come again), `missed` (changes before the
first stat or within one clock tick), `early` (early bytes), `Misread`
(hosts that end in a colon and a number), `LogElsewhere` (a log path of the project or with "~"), `unwritten`
(a write to the log that failed), a later denial of another sandbox in the shared log, `AbortLost` (the file that
would release the shell could not be written). Each is as small as it can be: the runs fail when it is left out.

## 4. Where code and documentation disagree

1. `reload_lost` - of two `xb --allow` at once one loses its entry after reporting it
   (`allow.go:63`, `ARCHITECTURE.md:275`).
2. `run_twice` - any error of an attempt, such as a non-zero exit of the command, runs the
   command again in the next mode (`ARCHITECTURE.md:111`); "abort" releases the shell like
   "ready" does.
3. `run_kill` - a signal before `cmd.Start` is lost (`sandbox.go:157`).
4. `run_tty` - `stty -g` gets no terminal to read from, so nothing is ever restored
   (`sandbox.go:377`).
5. `config_filter` - the first `xb --allow` writes `env.filter: false` and so turns the filter of
   the environment off (`config.go:192`, `config.go:242`).

Seen without a run:

- A direction blocked in `Write`, or a silent upstream proxy, keeps the goroutines of a tunnel, and with them
  `Stop` and the clean-up of xb (`proxy.go:276`, `ARCHITECTURE.md:244`); the fairness of `PoliteSpec` and the
  exception of `AllEnd` are there for it.
- `ARCHITECTURE.md:247-255` sends the 403 before the log is written; `proxy.go:246-251` logs first, which `Audited` states.
- A log entry is two writes (`proxy.go:362-363`) to a file that every sandbox opens for itself, so the lines of two
  guardians may run together, and readers skip what is not JSON; errors of marshalling and writing are ignored.
  `CONFIG.md:57` has one object on each line.
- `CONFIG.md:58-59` gives a `log_file` with "~"; the guardian opens it as it is written (`sandbox.go:70`, `proxy.go:58`),
  the readers replace the "~". `LogElsewhere` has it.
- `CONFIG.md:110-115` gives persistence paths with "~"; `mounts.go:42-44` looks for them as they are written and
  passes over what it does not find, so on Linux nothing is mounted. `SandboxAsConfigured` says so.
- `CONFIG.md:65-75` has `ca_bundle` injected into the sandbox; only `sandboxEnv` does it, which only `runDarwin` calls.
- A user file with a value of a wrong type is passed over by the merge, but the rest of it is decoded, written back
  and thus comes into force with the first `xb --allow` (`config.go:199`, `config.go:213`). `AllowKeepsRest` says so.
- `NETWORKING.md:140` has `xb --allow` update all running guardians, and it and `ARCHITECTURE.md:269-275` have the file
  written afterwards; `allow.go:57-66` writes it first, and `allow.go:91-94` updates the sandboxes of the current directory,
  as its comment (`allow.go:73`) says. With a process id
  that was used before, a sandbox of another directory may be updated too; no property forbids it.
- `SetMeta` writes without a lock after handlers may read (`proxy.go:151`).
- A change between the load and the watcher's first stat is never loaded (`NETWORKING.md:144`; counted in `missed`).
- `ARCHITECTURE.md:29` speaks of a random port, `sandbox.go:66` computes it from the process id.
- Nobody looks whether the network tool still runs (`sandbox_linux.go:151-169`): when it exits, the command goes on
  without a network.

## 5. Theorems

All theorems hold for every value of the constants that meets the named assumptions
(`DecisionAssumption`, `StoreAssumption`, `NothingAssumption`, `LockAssumption`,
`GuardianAssumption`, `TunnelAssumption`, `ReloadAssumption`, `RunAssumption`, `DirsAssumption`, `MatchAssumption`,
`MountsAssumption`, `ConfigAssumption`), which TLC evaluates in the runs. The last three say more
than what type a constant has:

- `MatchAssumption`: `strings.ToLower` leaves the star and the empty label alone and makes no other label one
  of them.
- `MountsAssumption`: two agents have different directories (`agentHomePath`), and the places of agents, of shares
  (all under `/mnt/shared`) and of the rest are different (`mounts.go:22-96`). That two *shares* have the same
  place is not excluded. Shares `/` and `..`, which `filepath.Join` puts at `/mnt/shared` itself and above it,
  are left out.
- `ConfigAssumption`: `DefaultConfig` names a log file and variables and has no shares. Files, entries,
  destinations, agents and what `expandPath` does are arbitrary.


- **`RulesLockProofs`**: `TypeCorrect`, `MutualExclusion`, `AlwaysIInv`, `Linearizable`
  (`Spec => Store!Spec`). Exclusion is not inductive: it needs who is in `readers` and
  `writer` for each `pc` (`LockInv`). The refinement also needs that a call, its result and the
  strings left fit the `pc` (`CallInv`, `TodoInv`), and that a scan has seen no match so far
  and a copied allow list is still current (`ScanInv`): a verdict given at the end of
  a scan is then the verdict of the lists of that instant. `NextRefines` has one step
  per action.
- **`GuardianProofs`**: `TypeCorrect`, `StopLeavesNothing`, `AuditComplete`, `AlwaysIInv`. The
  counter equals the loops and live handlers (`FiniteSetTheorems` for the cardinalities);
  the phases of `main` say what may run when (`PhaseInv`), and a connection between `Accept` and `wg.Add` has a loop
  that still counts (`AcceptInv`); `AuditOf` ties the log to the state of each handler and to what could not be
  written, and `LinesInv` says that one goroutine at most is between the two writes of a line.
- **`TunnelProofs`**: `AlwaysIInv`, `TypeCorrect`, `ReceivedInOrder`, `AnswersComplete`, `UploadsComplete`,
  for any number of pieces and any size of the buffers. That the pieces arrive in order is not
  inductive: the invariant gives every piece a place, that in what its sender sends, wherever it is. What is
  under way to a socket continues what was read from it (`LinkInv`), what a hop holds
  continues what it has written (`HeldInv`), and the guardian moves what follows its own answers by what it
  keeps (`Shift`, `SetUpInv`). So the counts of the sockets on the way decrease from the sender to the receiver, and
  `ReceivedLemma` reads the prefix off the places. That an end which reads the end has everything needs
  the converse: where no count is smaller, why did each `io.Copy` end (`EndedInv`)? Not for a reset nor a failed
  write, because each leaves something unread behind (`ConnectionInv`), and not because its hop
  closed its socket, because the other `io.Copy` did that for one of the same reasons; so it read the end
  itself, and then so did the hop before it (`ChainInv`, `CompleteLemma`). `TunnelSockets` has what
  the operations of sockets preserve, whoever uses them (`TakeNet`, `WriteNet`, `CloseNet`, `ConnectNet`): the
  step of an action is one of these and what it changes in its hop.
- **`HotReloadProofs`**: `AlwaysIInv`, `NeverStale`. `NoMissedChange` speaks of the time
  between ticks; the invariant adds what is known inside one: until a tick finds a change, a
  file with the known time that is not in `missed` holds what was read last (`Quiet`, `ReadInv`),
  and the rules are the last merge and what was added live (`RulesInv`).
- **`SandboxRunProofs`**: `AlwaysIInv`, `AlwaysTypeOK`, `NeverOverlap`, `HandshakeIsOwn`, `NothingLeft`.
  Attempts do not overlap because the modes still to come were never started
  (`Untried`), which with "the one that is tried has been waited for" is inductive; the pid
  that is read is of this attempt (`PidInv`), so a tool that runs serves it (`NetInv`), and whoever is told "ready"
  had one started (`ServedInv`). The tool may have exited since, and no theorem says that it runs.
- **`StateDirsProofs`**: `AlwaysIInv`, `TypeCorrect`, `LiveStaysRegistered`, `OwnDirIsTold`,
  `EndLeavesNothing`, `PruningIsComplete`. A live process is the last with its id
  (`LastInv`) and what is in its directory is its own (`OwnInv`); a lister that removes has looked
  at nobody who listens (`PruneInv`); a sandbox of its directory that was registered is still to be looked at, or
  found with the directory it wrote, or updated (`FoundInv`); and every leftover it began with is still before it, gone, or in use again (`DeadInv`).
- **`ConfigUseProofs`**: `AlwaysIInv`, `TypeCorrect`, `VerdictAsDocumented`, `LogOffersLast`, `ViewAsConfigured`,
  `InitIsNeutral`, `AllowOnlyTouches`, `FromLogAllows`. What the code says about contents is shown in lemmas about the operators:
  - `MatchLemma`: the walk of `path.Match` succeeds exactly when the labels can be dealt out (`Denoted`), for
    patterns and hosts of any length; `RuleDenotes`: `addRule` and `matches` together give what
    the documentation says of a string (`Denotes`), and `VerdictLemma` lifts it to lists.
  - `AppendUniqueLemma`, `AppendUniqueSame`: a merge has the entries of both, and one whose entries are all there changes
    nothing, from which `DefaultTwice`: to merge the defaults with themselves is to do nothing.
  - `MountsLemma`: which mounts no later one hides, for any order of the agents.

  The invariant ties the running sandbox to the contents: the rules are those that `addRule` makes of the strings
  in force, the strings include those of the files that it has read, view and environment are of one
  configuration (`SandboxOK`); and of the denials in its log that are its own and name a destination, the last is
  the command's (`DenialOK`), whoever else writes to the log. With
  the strings of the files in force, an entry that is new for `xb --allow` is new for the sandbox or
  harmless, so `FromLogAllows` follows.

`AppendUnique` and `LabelsMatch` are recursive functions. They are proved for every input without the library's
induction theorems: `Least` and `Induction` are drawn from `WFMin` and the well-foundedness of `<`, with
a *set* of numbers in the place of a predicate.

Only model-checked: liveness (`EveryCallReturns`, `HandlersEnd`, `StopReturns`, `Converges`,
`ComesToCleanup`, `AllEnd`), which is beyond the prover. Every invariant and every other property of the
passing runs is a theorem.

## 6. Not modelled

- The text of the Seatbelt profile, of the setup scripts beyond the handshake, and of the
  arguments for cgroups: constructed once, interpreted by other programs.
- Platform detection, doctor, flags, the stand-alone `xit-guardian`: look-ups, output, and the calls
  `Start` and `Stop` that `Guardian` has.
- Parsing of HTTP and TLS, the text of the log and of the control protocol: what is found is a choice.
- Of the configuration the scalars but four (all are merged alike, `env.filter` apart), and of the lists those that are merged like `allow`.
- `xb --logs --since` and `--follow`: output only. The listener of the relay: the first 0.1 s.

## 7. Plan

1. An abstract guardian (accept, decide, tunnel, stop) that `Guardian` implements, checked and proved.
2. Two guardians that write to one log file, write by write, and the reader of their lines.
