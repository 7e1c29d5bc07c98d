# Formal models of sir

`sir` sits between an AI coding agent and the developer's machine. Every tool
call of the agent starts a short-lived hook process, `PreToolUse`, that answers
*allow*, *ask* or *deny*; what ran is reported to a second one, `PostToolUse`,
which reads the output and updates the session. Around them are the commands of
the developer (`sir install`, `sir mcp`, `sir provider`, `sir doctor`, ...), a
boundary the agent can be started in (`sir run`) and a second decision engine
(`sir kernel`). This directory holds TLA+ models of the parts that make
decisions and keep their state, the TLC runs that check them and the TLAPS
proofs about them. The lines every definition stands for are in `PROJECT.json`
(`map`).

## 1. The system

| Part | State it keeps | Operations | Modelled in |
|---|---|---|---|
| Decision ledger (`pkg/ledger`) | hash-chained `ledger.jsonl`, its lock file | `Append`, `ReadAll`, `Verify` | `Ledger` |
| Session store (`pkg/session/session_io.go`, `session_lock_unix.go`, `pkg/hooks/evaluate_io.go`) | `session.json`, its lock file, `lease.json` | lock, load, mutate, save by rename | `SessionStore`, `AtomicSession` |
| `sir doctor` (`cmd/sir/doctor*.go`) | a copy of the session | load, repair, merge | `SessionStore` |
| Posture and hook files (`pkg/posture`, `pkg/hooks/lifecycle`, `cmd/sir/install*.go`) | the agents' settings files, sir's canonical copies, hashes in every session, deny-all | checks of `PostToolUse`, `ConfigChange` and `SessionEnd`; install, uninstall, rebaseline | `HookFiles` |
| Policy oracle (`mister-core`, Rust) | none: one request, one verdict | `evaluate` | `Policy`, `Oracle`, `Core` |
| Policy client and Go fallback (`pkg/core`) | the state of the `mister-core` binary | `Evaluate`, `localEvaluate` | `Fallback`, `Core` |
| Session security state (`pkg/session`) | turn, secret flag, taint, lineage, grants, marks | the methods of `State` | `SessionState` |
| `PreToolUse`, `PostToolUse`, sub-agents, prompts, elicitation (`pkg/hooks`) | one session record | 17 gates, oracle, transport rules; output analysis | `HookGate` |
| `sir approve`, `unlock`, `declassify`, `allow-host` | the session, the lease | one locked update each | `HookGate`, `SessionStore` |
| Provider plug-ins (`pkg/provider`, `cmd/sir/provider.go`, `pkg/hooks/policy_providers.go`, `authoritative.go`, `effect_dispatch.go`) | `providers.json` | eleven commands; advice, authority and effects of a hook | `Providers`, `ProviderWire` |
| MCP servers (`pkg/mcp`, `cmd/sir/mcp_*.go`) | the agents' MCP configs, approvals and pins in the lease, acknowledgements in the session | discover, approve, revoke, scan, wrap, install; drift gate | `Mcp` |
| `sir mcp-proxy` | a child process group, its stderr, interrupts | launch, drain, escalate, bury | `McpProxy` (with `Mcp`: `McpServers`) |
| Contained runtime `sir run` (`pkg/runtime`, `pkg/session/runtime*.go`) | `runtime.json`, a shadow session, proxy connections, pins, packet filter, write guards | launch, heartbeat, prune, finish, die; connect, dial, tear down | `Contained`, `Proxy` |
| Kernel engine (`pkg/kernel`, `sir-core`, `cmd/sir/kernel_cmd.go`, `harness.go`) | taint and friction of scopes, the kernel's ledger | `Process`, replay, harness, explain, provider test | `Kernel`, `KernelRun`, `ProviderWire` |
| Classification of commands and paths, secret scanners | none | string matching | inputs of `HookGate` |
| Agent adapters, relay, telemetry, reports | various | | not modelled (section 8) |

How they interact. The agent host calls the hooks; several tool calls may be
under way at once, and each hook is a process of its own. Hooks share three
files of their project: `session.json` (under an exclusive `flock`), `lease.json`
(whose hash the session keeps) and `ledger.jsonl` (under its own `flock`). They
share more with the hooks of *other* projects and with the commands, and there
nothing is locked: the agents' settings and MCP configs, sir's canonical copies,
`providers.json`, `runtime.json`. `PreToolUse` asks the oracle through a pipe to
`mister-core` (without that binary the Go fallback answers) and then the
providers of the registry. The developer answers prompts in the agent and
changes the session through `sir` commands, most of which use the session lock;
`sir doctor` and parts of `sir install` do not. Inside `sir run` the hooks work on
a shadow copy of the session, which the local proxy reads to decide what may
leave.

What is hard here. (a) Races of processes on files, with and without locks, and
their death between two writes. (b) Decisions that depend on what earlier calls
*did*: the verdict is given before the call runs, the taint is set after it ran,
and other calls are judged in between. (c) State of different lifetime: a secret
flag that lasts for a turn, signals for a turn or for the session, lineage until it
is declassified, grants that are used once, acknowledgements of one hash. (d) A
fixed order of gates, each with its own opinion on whether it saves the session,
logs, is a floor in observe mode, or repeats a pending alert. (e) The same
decision computed twice: oracle and fallback, Go kernel and Rust kernel, replay
and explain. (f) Values read, shown or cached, and used later: the registry, a
plan of rewrites, the hash of a binary, an address, a modification time. (g)
Processes that hang, ignore signals, leave children behind, or sleep.

`PROJECT.json` lists forty hazards with the line at which each one bites and the
properties that watch it; those that go wrong in the code are in sections 6
and 7.

## 2. Modules

```
Policy ── Oracle ──┬── Core ──┬── CoreProofs       Ledger ──┬── LedgerProofs
   │               │          └── MCCore                    └── MCLedger
   ├── Fallback ───┘
   └── SessionState ── HookGate ──┬── HookGateProofs
                         └ Oracle └── MCHookGate

AtomicSession ◁── SessionStore ──┬── SessionStoreProofs      HookFiles ──┬── HookFileProofs
              (refinement)       └── MCSessionStore                      └── MCHookFiles
ProviderWire ──┬── Providers ──┬─ Plugins ──┬── ProviderProofs    Proxy ── Contained ──┬── ContainedProofs
               │               │            └── MCPlugins                              └── MCContained
Kernel ────────┴── KernelRun ──┘                    Mcp ──────┬─ McpServers ──┬── McpProofs
                                                    McpProxy ─┘               └── MCMcp
```

* **Ledger**: one action per step of `Append` (lock, read the tail and build the
  entry, begin the write, write the line, terminate it), a failure or death at
  each of them (`Fail`), a reader (`LockShared`, `ReadAndVerify`), and edits by
  something other than sir. A line is an entry, the torn part of one, or a torn
  part with later bytes glued to it. SHA-256 over length-prefixed fields is
  injective, so a hash is the tuple of its inputs. `Hashed` is what
  `computeHashV4`, the version `Append` stamps, covers; `audit` stands for
  `base_verdict`, `provider_verdicts` and `provider_failures`, which are written and
  not hashed. Redaction happens before hashing, as in `sanitizeEntry`.
* **AtomicSession** is what the session store promises: each hook and command
  is one atomic read-modify-write, of the state its predecessor left or, beside an
  install, of the state that the install replaced under it. **SessionStore** is how
  it is done: lock, load the lease (which may widen it), load the session, run,
  write a temporary file, rename. `sir install` is there with all its saves: hook
  files (`InstallFiles`), lease and fresh session without the lock (`InstallLease`,
  `InstallFresh`, `InstallSave`), rebaseline under it. A session is abstracted to the set of mutations it holds (one
  per process), the reason of its deny-all, the two baselines and whether its
  seal is valid. Every process may die at every step and every save may fail,
  with the roll-backs that the code has. `Mint` and `MintSaveFails` are the
  auto-lease inside `PostToolUse`, which saves lease and session in the middle of
  the hook. `sir doctor` loads without the lock, repairs its copy, and merges it
  later; `torn` remembers that a process stopped between the two saves, or was under way while an install made them.
* **Policy** has verbs, labels, verdicts, leases and requests. **Oracle** is
  `mister-core`: each guard returns a verdict or nothing, and the first verdict
  in the order of `evaluate_inner` counts, then the advice of providers is
  composed. **Fallback** is the Go engine with its own guards and order.
  **Core** is the client: which engine answers, depending on the binary
  (installed, missing, modified, failing, garbled), which may change between
  calls like the profile of the lease.
* **SessionState** has the methods of `pkg/session.State`, as operators from a
  state to a state. Timestamps are kept as what they are compared for: the last
  call is recent or more than thirty seconds ago; a grant and a lease of a host
  may run out.
* **HookGate** is the life of a tool call. `PreToolUse` advances the turn,
  consumes a pending injection alert, finds the first gate that fires (`Gates`
  is the order of `evaluatePayload`, `Fires` their conditions), computes the answer,
  the session afterwards and what is logged, and applies the thinking guard and
  observe mode. Then the developer approves, the host drops or runs the call,
  and `PostToolUse` does the analyses in the order of the code. The session
  lock is held throughout each hook, so a hook is one step: that is what
  `SessionStore` shows. A call arrives already classified (tool, verb, file,
  server, whether it spells out a credential, and a *shape* that some gate looks
  at); `MapToolToIntent` keeps the one classification that depends on state, the
  verb of a request to a host the lease approves. `seen` is history: it records
  what really happened and is read by no hook.
* **ProviderWire** is what sir makes of a provider's process: how it ended, what
  it printed, line by line, and what each caller (hook, health check, test tool)
  accepts of that. **Providers** has the registry file, commands that load,
  work or prompt, and save in separate steps, and a hook that loads the registry
  once, asks advisory and policy providers, lets an authoritative one replace the
  decision, answers, and dispatches effects in a goroutine that may lose the race
  against the end of the process. `Damage` leaves an unreadable file. **Plugins** sets
  the registry and the kernel's tools side by side: they ask the same processes and
  share no state (`SideBySide`).
* **Mcp** has a config entry per server (`absent`, `raw`, `wrapped`, `twice`), a
  version for its binary and one for its tools (0 is no hash), the three parts of
  the lease that concern servers, and commands in the steps the code has: read,
  plan, probe, review, ask, write. Between any two of them the world may change (`Edit`)
  and calls go through the auto-approval every hook performs and the drift gate, which
  looks at dry-run calls only (`Verbs`), takes a binary it cannot read for unchanged, and
  leaves a URL among the arguments to an ask that a scoped server may be spared (`Quiet`).
  The hash of a review is taken before the prompt (`Review`), the pin after it
  (`UpdateApprove`). Whether the session is a safe context is an input here.
  **McpProxy** has the proxy's goroutines (stderr reader, signal forwarder, the
  waiter) as separate actions and a process group of the server and what it
  forked; `Reached` is whom `kill(2)` reaches by the sign of an id. **McpServers** puts them together: a proxy is launched for a wrapped entry.
* **Proxy** has the allowlist, the pins, the posture gate with its cache, the
  packet filter and the write guards as operators; **Contained** has launchers,
  which prune, start, persist, beat, finish and may be killed at any step, and
  connections (HTTP, CONNECT, SOCKS, direct sockets in the namespace) that are
  admitted, gated, dialled and watched. Two steps where the code has two: the
  gate reads the modification time, then the session; a heartbeat loads the
  descriptor, then saves it.
* **HookFiles** has the settings files as groups of commands plus the rest of the
  file, which may be garbled or absent; sessions of several projects with a
  hash per posture file and one over all hook files; a check as the steps look,
  hash, detect, restore, record, lock down, save; install and uninstall as
  the steps read, write settings, write canonical copy, start the session,
  rebaseline project by project. A hash is the content it was taken of. On a faulty
  machine (`w.faulty`) a ledger entry, a session save and the rebaseline of a project
  may fail; `leased` has the projects whose lease loads, and a project whose session a
  hook created has none until an install is run in it.
* **Kernel** is the decision of `pkg/kernel` and of `sir-core`: one operator where
  the port repeats the original, two where they were written apart. **KernelRun**
  has `Process` with the taint of its scopes, and what replay, the harness,
  explain and the provider tools report.

An operator preceded by a comment `Mutant:` is a plausible bug; it is not part
of any specification and is used only to show that a property can fail.

## 3. Runs

A passing run takes between a few seconds and about two minutes with two
workers.

| Run | Bounds | Distinct states | What it shows |
|---|---|---|---|
| `ledger` | 2 processes, 1 content, 3 lines | 1,606,000 | acknowledged entries stay, edits show, verdicts of readers are true |
| `session_store` | 2 hooks, 1 command, 1 lease entry | 1,503,000 | the store implements `AtomicSession`; a lockdown has a cause and stays |
| `session_doctor` | 1 hook, 1 doctor, edits of the session | 119,000 | what doctor saves under the lock keeps the hook's mutations |
| `core` | 2 leases, 4 label sets, 3 kinds of advice, 5 states of the binary | 369,000 | secrets gate egress in every profile; with the default lease the fallback is never looser; advice only asks |
| `gate` | 7 scenarios; 3 calls (secrets, written files, MCP) or 2, 1 or 2 turns, up to 2 grants, ring of 2 | 222,000 | what secrets, derived files and foreign content close, and what no approval or provider opens |
| `contained` | 8 worlds; 2 launches, or 1 launch with 1 or 2 connections; 2 saves by hooks | 308,000 | pruning, reporting, guards, gate, pins and teardown of `sir run` |
| `plugins` | 5 providers, 2 commands of 12 kinds, 1 hook; or 2 signals per case, 6 calls, 2 replays | 554,000 | one authority, one role, only an allow grants; parity of the engines, taint across calls, truthful evidence |
| `mcp` | 2 servers, 2 commands of 6 kinds, 2 edits, 2 calls; a proxy with 2 writes and 3 interrupts | 732,000 | approvals, swaps of binaries, wrapping; draining and ending a server |
| `hook_files` | 6 worlds; 2 projects on 1 file or 1 project on 3 files, 1 command, up to 2 edits, 1 death, failing writes, a session without a lease | 1,270,000 | edits are answered, installs raise no alarm, sweeps bless nothing, the developer's hooks stay |
| `core_strict_fallback`, `escalation`, `other_deny_lifted` | as above | | section 6 |

The properties, with the code they are about, are commented where they are
defined. All of them but three are also proved for every value of the constants; the
three, and the hypotheses some of the proofs have, are in section 4. What each of them
says, in short:

* Ledger. `AckedDurable`: a ledger that `Verify` accepts contains every
  acknowledged decision at its index, whatever crashed; the entry is whole unless
  somebody retouched the fields no hash covers. `TamperEvident`: what others
  changed of the hashed fields, or removed, is rejected, whatever was appended
  since. `ReaderVerdictSound`: a reader
  beside writers never takes half a line for a break. After a torn line `Append`
  starts again at index 0 with the zero hash, and `Verify` rejects the file for
  good.
* Session store. `AtomicUpdates`: `SessionStore` refines `AtomicSession` under the
  mapping `exists <- session # Absent`, `marks <- session.marks`,
  `deny <- session.deny`, `lost <- lost`, crashes and failed saves included; `lost` is
  the state that an install replaced while an operation on it was under way.
  `NoSpuriousLockdown`: without a foreign edit a session locks down only after a process
  stopped between its saves of lease and session, or worked while an install made
  these two saves (`torn` notes both). `LockdownSticky`, `LockedSaveKeeps`: who may lift a lockdown, and
  what doctor's save may not lose.
* Core. `SecretStaysIn`: no engine, lease or state of the binary lets secrets out.
  `DefaultLeaseParity`: with the default lease the fallback is never looser than the
  oracle. `AdviceOnlyAsks`: advice turns an allow into an ask and nothing else.
* Gate. `SecretFloorHolds`: after the Read tool delivered a secret, every call
  judged later in the turn that goes to an unapproved place is denied, in observe
  mode too. `DerivedStaysGated`: files keep what the turn forgets; the
  asks that a profile settles by itself (`Spared`) are excepted, see section 7.
  `ForeignStaysGated`, `LeaseOnlyWhenClean`: content from outside closes what
  earlier approvals and profile rules opened. `GrantOnce`: parallel calls cannot use
  one grant twice. `ProviderAskSurvives`, `FloorsNotDelegable`: an authoritative
  provider has the last word on policy and none on sir's own floors.
  `DeniedRunLocksDown`: a host that runs what was denied is noticed.
* Contained. `LiveShadowKept`: no launch removes the state of a living agent, even
  after the machine slept. `NoGhostBoundary`: a heartbeat that loses the race
  against the clean-up writes a descriptor, but never one that is reported as a
  boundary in force. `GuardsHold`: what the Linux script skips as missing was
  required to exist or lies in a guarded directory, links included.
  `FloorStopsNewEgress`, `FloorTearsDown`: the cached gate is never older than the
  session, and an open tunnel does not outlive a floor. `PinsHold`: a name is reached
  at the addresses it had, and a namespace is left for exact destinations only, in each
  family the filter of which is in force. The cache and the watcher are compared with a
  counter of saves, see section 5.
* Kernel. `EnginesAgreeUntied`, `TaintedEgressDenied`, `EvidenceTruthful`,
  `TestedIsUnderstood`: see the comments in `KernelRun`; where the engines do not
  agree is in section 7.
* Providers. `AtMostOneAuthority` holds although the commands take no
  lock, since every registry a command can save is sound by itself. `OneRole` holds
  because a hook loads the registry once. `OnlyAllowGrants` goes through every
  way a process can end.
* MCP. `ExplicitNeedsApproval`: in strict posture no refresh, re-install or stale
  save approves a server that needs an operator. `NoUnseenSwap`: a call that the drift
  gate checked and let go reaches a binary the operator has been shown, or one that came
  in between the review of an approval and its pin (`slipped`; section 7).
  `WrappedOnce`: old plans carried out in parallel never wrap a wrapper.
  `StderrScanned`, `SecondInterruptEnds`: the proxy drains what was written and two
  interrupts end any server, though not what it started (section 6).
* Hook files. `UndoneIsAnswered`: unless a process was killed on the way, an edit that
  sir undid is on a ledger, but for the entries that could not be written, and its
  session locked, but for the sessions that could not be saved; so it takes two failed
  writes for an edit to stay without an answer. `NoFalseAlarm`: installing
  and upgrading lock no session down, but for the cases the property names, and the
  sessions that the rebaseline skipped (section 7).
  `SweepNeverBlesses`: the sweep at the end of a session does not store what it
  found as the new baseline; an edit that falls between its restore and its hash
  is excused (`again`), a restore that fails is not. `DeveloperHooksKept`: merge and
  removal keep the developer's commands, in order, and every other setting, in a file
  that parses.

**Scenarios and worlds.** `HookGate` explores *scenarios* (profiles of the session,
calls the agent may try, grants, elicitation), `Contained` and `HookFiles` *worlds*
(the machine, what is on it, who acts). Each keeps together what interacts in the
question asked; within it all orders, parallelism, failures and outputs are
explored. One run holds them all, so that its properties are checked in each.

**Why the bounds suffice.** Three calls are what the longest argument needs (a
call in flight, one that changes the session, one that is judged after it), and
what fills the ring of denied ids; where a copy, a grant or a provider makes one
call enough to change the session, the scenario has two.
Two turns show a boundary and what outlives it; a third starts in a state
the second can start in, except for its number. One MCP server in `gate`: servers do
not influence each other but through the sets the gates test for emptiness. The
ring of denied ids holds 256 in the code and 2 in the run, so that it overflows.
Two hooks and one command are two competitors of each kind of update, and an install
beside a hook; one lease entry lets one side of a race widen the lease the other side
has read, and what is compared is only whether baseline and lease agree. The ledger needs three lines
for a break, a line after it and a line before it. Two launches are one that prunes
and one that is pruned; two connections share the one cache of the gate. Two
registry commands are the shortest lost update, and the hook between them loads
either result. Two versions of a binary are enough to swap and to swap back; two
edits and two commands allow a change before and after each read. Two projects on
one hook file are the check that restores and the one that has hashed before it;
three kinds of files (with a canonical copy, without, not a hook file) are all
that the code tells apart. Call ids, and the hooks of `session_store`, are
interchangeable (symmetry in these two runs, which have no liveness property).

**Deadlock** is checked in the runs of `SessionStore` and `Core`. The other systems
really may stop: the ledger's bound is reached, the agent has made its calls, the
commands have ended, the launchers have left.

**Fairness.** `Contained` gives the watcher of each tunnel weak fairness
(`watchTaintTeardown` is a goroutine with a ticker that nothing blocks), and
nothing else: agents, hooks and launchers may stop at any time. `McpServers` gives it
to the proxy's three goroutines (the stderr reader, the signal forwarder, the waiter
with its clean-up), each of which waits only on channels and pipes; the server itself
may ignore everything but `SIGKILL`. Nothing else in the code obliges an agent, a
developer or a provider to go on, and the other specifications have no fairness.

## 4. Proofs

The eight proof modules are checked by TLAPS for every value of the constants: any
number of processes, calls, servers, providers, launches and connections, any worlds,
scenarios and inputs. `PROJECT.json` lists their theorems. Each component has one
inductive invariant or a few, and a lemma per action.

**Ledger** (`LedgerProofs`). `LedgerTypes` needs `TypeInv`: `TypeOK` (with the lock
discipline: one exclusive holder, no reader beside a writer) plus the facts that a
process about to write has a well-formed entry and that the file is a sequence. The
three properties follow from `ChainInv`. Its centre is `Solid`, the number of lines
that no write in progress can still change: the entry a writer has prepared continues
the solid lines (`InSequence`), so acknowledging it keeps the chain (`AckedKept`);
what others changed of the hashed fields breaks a solid line and no append mends it
(`TamperKept`), while an edit of the others leaves every line the same decision
(`ChainRetouch`); and without torn writes and edits nothing solid is broken (`Sound`), so a reader, who
excludes writers, never sees half a line.

**Core** (`CoreProofs`). `CoreInv` says that the answer at hand is the engine's answer to
the request at hand. The rest is about the operators: `OracleDecides` and
`FallbackDecides` (the last guard of each engine always decides), `OracleKeepsSecrets`
and `FallbackKeepsSecrets` (the guards in order, up to the one that denies),
`BaseParity` (both engines compared guard by guard, for every verb) and the lemmas on
composed advice.

**Hooks around a call** (`HookGateProofs`). The properties speak of a judged call and of
what had really happened when it was judged. `GateInv` ties the two together: the
session is well formed (`Formed`) and knows what happened (`Agree`: a secret that came in
is in the flag and in the evidence, each file that secrets went to is in the lineage,
grants given cover those used and those left); every open call is judged as the
properties say (`Upheld`); and a denied call is in the ring unless the ring is full
(`Remembered`). `PreToolUse` answers by the least index among the gates that fire, hence
`LeastElement`; `JudgedUpheld` goes through the verdicts of that gate and, where it is
the oracle, uses `OracleKeepsSecrets`, `OracleKeepsForeign` and `OracleAsks`.
`PostToolUse` is a chain of analyses, each with a lemma that it keeps `Agree`.
`SecretsStayGated`, `DerivedStaysIn` and `ForeignIsAsked` have the hypothesis
`SendsAlone`: no scenario has a call that sends data and is also asked about by a gate
that comes before the oracle. Without it the properties fail in the code (section 7).
The module of the run assumes that its scenarios satisfy it, so TLC evaluates it.

**Session store** (`SessionStoreProofs`). `StoreInv`: whoever works on the session holds
the lock, and the mutations of the session on disk are in the copy of the holder. It
gives `SavesKeep`, doctors included. `StoreIsAtomic` is the refinement of
`AtomicSession`, step by step: `Plans` says that the copy of a process at work differs
from the state it applies to (`Bases`: the session, or what an install replaced under it)
by at most one step of the abstract specification, so a rename is that step, an install's
save is `Replace`, and everything else stutters or gives up what was lost.
`LockdownsStay` follows from the same invariant.
`LockdownsHaveCause` needs `CauseInv`: while nothing was edited and nothing torn, whoever
works is alone (`Exclusive`), every copy at hand is clean and its baseline is
`lease.json` at the moment it will be compared. The last three assume that there is no doctor, the first two of them also that
nobody but sir writes `session.json`; with either the properties fail in the code
(section 7).

**Hook files** (`HookFileProofs`). `RestoreInv`: a file that a process put back agrees with
its baseline until somebody writes one of the two again, which `Rewritten` notes for
everyone; hence `SweepsBlessNothing`. `AnswerInv` counts: the edits of a file that were
undone and are not recorded are as many as the processes between restore and ledger
entry (`Owing`) and the entries that failed, and a lockdown that is due is in the session, or in the copy that its
process will save (`Locking`), which every step of a check passes on until a save
fails. A death breaks the chain, so the count holds until the first one. `CalmInv` speaks of the time in which
nobody but sir writes: every file agrees with its baseline, but for the one that an
install has written and not yet copied, which agrees with what will be copied
(`Agreed`); and a session that no install under way may still visit and that the last
one did not skip (`Settled`), or the copy its process works on, has the hashes of the
files (`UpToDate`). A check of such a session
finds nothing, one of any other may lock it down, and the install that is under way
then lifts that before it ends. Under a managed policy an install must generate what
the policy pins, and `MergedAgain` shows that merging that into itself changes nothing.

**Contained runtime** (`ContainedProofs`). `BoundaryInv` says of each launch how far launcher
and agent are relative to each other (`Stage`), that the boundary is complete as long as
an agent runs or is about to (`Boundary`), that only what is over is pruned
(`Descriptors`), that the cache of the gate is not older than its time says (`Cached`),
and how lists and pins hang together (`Listed`); of each connection, whose it is
(`Owned`), what was checked (`Checked`) and where it may go (`Pinned`). A step of one
launch leaves the others' conditions alone unless it prunes, which is where
`Descriptors` is needed.

**Kernel** (`ProviderProofs`). `EnginesMeet` compares the two engines on lists of any
length. Both pick a signal of the highest rank, one the first and one the last
(`SensitivityAgrees`), so they differ at most in a sensitivity on which nothing depends.
`UsableKept` and `UsableUnchanged` are what normalization does to a list. `TaintInv`: a scope in which a
credential was read is tainted, and the cross-action rule denies egress from it.
`ReportInv` and `ReplayInv` say of each report and each case judged, but not yet
recorded, that the verdict is the base verdict composed with the advice;
`EvidenceOfAdvice` shows that the evidence then names who moved it.

**Providers** (`ProviderProofs` too; the kernel asks the same plug-ins). `AtMostOneAuthority` speaks of the file and is not inductive, since
a command saves what it loaded long ago: `RegistryInv` adds that every copy in a
command's memory is sound too, and that a command about to grant authority has its
operator's word. `HookInv` says that whom a hook asked and whom it delegated to belong to the
registry it loaded, and that its verdict is what became of the reply.

**MCP** (`McpProofs`). `TrustInv`: in strict posture the operator has confirmed each approved
server that needs it, and each binary that is pinned, pending or acknowledged was shown
to them or slipped in behind a review: in the lease, in the session and in the copy an install will save later.
Its types leave no room for an entry wrapped twice, in a config file or in what a
rewrite is about to write. `ProxyInv` counts what the server wrote: it is in the pipe or was passed
on, and a reader that has ended left nobody who could write.

**Assumptions.** A process is not `NoProc` and a provider is not named `"none"`; bounds
are natural numbers and the ring has room for one id; profiles are leases, requests
are requests, grants are grants; providers, their replies and commands have the kinds
the code knows (`KindAssumption`, `ReplyAssumption`, `OpAssumption`); an intent has a tool
that can have its verb (`IntentAssumption`); `McpAssumption`, `WorldsAssumption`,
`InputsAssumption` and `TriedAssumption` say what a world or an input consists of.
`OrderAssumption` says that a machine starts with files that agree with its policy and
with what is installed: a hook runs only where sir's hooks are in the file. Of the
theorems only `InstallsAlarmNobody` needs it. All are evaluated by TLC in the runs.

**Only model-checked.** `FloorTearsDown` and `SecondInterruptEnds` are liveness under
fairness, which is out of the prover's reach. `DeveloperHooksKept` compares lists that
merge and removal filter, and needs induction over sequences, which cannot be done
either. The runs of section 6 end in counterexamples and have nothing to prove.

## 5. Abstractions to know about

* Strings are classified before they enter the models: parsing of shell commands,
  regular expressions and entropy of the scanners are inputs, and all outcomes
  a scanner may have for an output are explored.
* All remotes of a kind, and all hosts that are not approved, are one.
* `ReuseSessionApprovals` and `AutoLeaseApprovedRemotes` are one profile flag
  (`reuse`), as the profiles set them together.
* The tripwire flag of a request is never set by the hooks, and
  `evaluateElevatedPosture` changes nothing; `Oracle` keeps the first, `HookGate`
  omits the second. `PermissionRequest` runs the function of `PreToolUse`.
* `exposed`, the history fact of `SecretFloorHolds`, counts files read by the
  Read tool, dumps of the environment and recognised credentials. A file read by a
  shell command whose output holds no recognisable credential is not noticed by
  the hooks, and no scenario of the passing runs contains one (section 7).
* A gap of thirty seconds ends a turn and with it the secret flag, as documented;
  the model lets the gap occur at any moment. Likewise a heartbeat may expire at any
  moment (`BeatExpires`), and a modification time is a counter of saves: two saves within
  one tick of the clock of the file system, which the cache of the gate cannot tell apart,
  are outside the model. Each HTTP request is a connection of its own; that the proxy's
  transport may keep one alive is outside it too.
* A managed lease turns the hold of a failing authoritative provider into a deny;
  `Providers` has it as a constant, the run checks the unmanaged case.
* In `HookFiles` the hooks of one project are serialised by its session lock, which
  `SessionStore` shows; of a project's lease only whether it loads is part of it, and
  `sir doctor`, which lifts a lockdown too, is not. A restore that cannot write
  leaves the file as it is, like one without a baseline, and is not a case of its own.
* In `SessionStore` the step that discovers MCP servers and saves the lease
  (`LoadLease`) is one, so a lease that an install saves between its read and its
  save is not lost there. An install of another project only rebaselines.
* A process may die at any step, but what it wrote stays: neither the ledger nor the
  session store is modelled under a loss of power (nothing calls `fsync`).
* In `McpServers` the proxy is explored once the commands have come to rest: the two
  share the config entry only.

## 6. Disagreements shown by a run

Each of these runs checks one statement of a document or comment and ends in a
counterexample; `PROJECT.json` quotes the line.

* `core_strict_fallback`: with the strict lease and no `mister-core` binary the
  fallback allows a push to origin in a clean session. The lease lists the verb among
  those to ask about, which the oracle does (`mister-core/src/policy.rs:94`); the
  fallback never consults that list (`pkg/core/local_fallback_network.go:80-95`,
  `local_fallback.go:31`).
* `escalation`: the second interrupt is to kill the process group of an MCP server, but
  the id is negated twice on its way (`cmd/sir/mcp_proxy.go:483`,
  `mcp_proxy_proc_unix.go:23`), so that a process the server started lives on; the first
  interrupt is passed on to the server alone for the same reason. The test of the
  forwarder has a stub where the second negation is.
* `other_deny_lifted`: a session is locked down for a cause of its own, a hook-file
  alarm overwrites the reason (`SetDenyAll`), and the next `sir install`, which lifts
  hook-file lockdowns, opens it.

## 7. Other disagreements met while modelling

They were met in the models or in the code next to them; where a property that is
defined and not run states the expectation, its name is given. No run is spent on
them.

Ledger.

* The verdicts of providers, the base verdict and the failures of providers are not
  hashed (`pkg/ledger/ledger.go:57-74`): whoever edits them, to hide that an
  authoritative provider replaced a deny for instance, breaks no chain, although the
  comment at `pkg/ledger/ledger.go:88` calls that trail the safety net of delegation. Entries
  of hash version 1 cover fewer fields still; `Append` writes no more of them.

Session and gates.

* Doctor reads a healthy session, a hook locks it down, doctor saves its
  `DenyAll = false` over it (`cmd/sir/doctor.go:142`; `LockdownSticky` with doctors).
* `mintAutoHostLease` (`pkg/hooks/auto_lease.go:145`) rolls the lease back when
  the session save fails but leaves the new hash in the state that `PostEvaluate`
  saves afterwards; the next call finds a mismatch and locks the session down.
  `NoSpuriousLockdown` names this as one of its exceptions (`torn`).
* Saves that come before the integrity check (`pkg/hooks/evaluate_io.go:171`,
  lifecycle hooks, `sir approve`, doctor) seal an edited `session.json` again.
* The bootstrap of doctor (`cmd/sir/doctor_recovery.go:79`) writes without the
  lock and may overwrite a session that a hook created meanwhile.
* The injection alert is cleared before the gates run, and some gates answer without
  mentioning it (`AlertShown`).
* A call that was cleared before its server turned hostile completes afterwards with
  a clean output and acknowledges the server (`AckMeansApproved`).
* Observe mode lets a secret-derived file be uploaded, although the comment on the
  floor promises the opposite (`ObserveKeepsFloor`).
* Every MCP call sets the session-scoped untrusted signal before anything was
  read (`pkg/hooks/evaluate_postprocess.go:31`), although `session.go:55-56` says
  that only a detected injection or an external package does. One consequence:
  the auto-lease for hosts of MCP calls never applies.
* In the turn after a secret was read `push_origin` is silent again; the threat
  model (`docs/research/sir-threat-model.md:72`) says it never is. The
  re-prompt is in an example provider that is not installed by default.
* A pushed remote is redeemed by the `PostToolUse` of any push to it, also of one
  that needed no approval (`pkg/hooks/post_evaluate.go:251`), and an earlier
  approval settles the ask for secret-derived data
  (`pkg/hooks/evaluate.go:436`, against `sir-threat-model.md:73`).
* On a clean session the default profile answers the oracle's ask about secret-derived
  content on its way to an approved host with a silent allow
  (`pkg/hooks/evaluate.go:374`). The comment there calls the prompt redundant
  because "the oracle's IFC flow check already ran"; for a derived file that ask is
  the result of the check (`mister-core/src/policy_sinks.rs:34`). `DerivedStaysGated`
  without `Spared` shows it in two calls: a copy, then an upload.
* Observe mode leases hosts nobody was asked about (`pkg/hooks/auto_lease.go:59`).
* A parallel shell command ends the watch over an install
  (`pkg/hooks/post_evaluate.go:189`).
* The asks of the tainted-server, tainted-input and install gates and the deny-all
  answer leave no ledger entry, although `docs/architecture.md:250` says every
  decision does. In observe mode the enforced sir-self floor is recorded as
  hypothetical (`pkg/hooks/evaluate.go:267`), and a capability-scope ask as real
  (`pkg/hooks/evaluate_mcp_scope.go:36`), although the comment at
  `pkg/hooks/thinking_guard.go:65` has callers rewrite it. The ledger records the
  verdict before the injection overlay.
* A deny by which an evaluation ended in an error (`pkg/hooks/evaluate.go:342-345`,
  `472-474`) is not noted among the denied ids, since `evaluate.go:71` does so only where
  there was no error: a host that runs such a call is not noticed. The model has no such
  errors; `DeniedRunLocksDown` is about verdicts that were reached.
* An approved shell read of a sensitive file does not restrict the network
  (`pkg/hooks/internal/postflight/payload.go:31`), although the prompt says so.
* The alert condition of `mcpOnboardingHeightened` cannot hold: the alert is
  consumed before. `sir approve` before the first hook makes a session without a
  lease baseline. A secret session allows requests to approved hosts that a clean one
  asks about.

* The gates before the oracle ask before it can deny: a compound command that sends
  data and also installs a package the lockfile does not name is asked about by the
  install gate (`pkg/hooks/toolmap_shell.go:94` keeps `IsInstall` across the
  segments), and MCP calls by the scope and onboarding gates. An approval there lets
  the call through in a secret session. `SendsAlone` names what the proofs exclude.

Hook files.

* A hash is taken, another project's check restores the file, and the comparison that
  follows finds nothing: the hash of the edited file is adopted without an alert
  (`pkg/hooks/post_evaluate_checks.go:119`; `AdoptedIsClean`).
* A check between install's two writes restores the old hooks, and install reports
  success (`InstallLands`); canonical copies outlive uninstall, so that a session that
  is still running puts the hooks back (`UninstallSticks`).
* Install saves the lease and a fresh session without the session lock
  (`cmd/sir/install.go:285`, `291`), and so does `sir setup` for a repository without
  a lease (`cmd/sir/wizard.go:215`). Over a running session the fresh one drops marks,
  grants and a lockdown of any reason, also one that the rebaseline would keep; a hook
  that had loaded the old session saves it back, so that of the two saves one is lost
  whole. A hook that works while install saves the lease finds a lease its baseline does
  not know and locks the session down although nobody edited anything, which the
  rebaseline then keeps, since hook files are not the reason. `AtomicUpdates`,
  `LockdownSticky` and `NoSpuriousLockdown` say what holds beside that.
* A ledger entry that cannot be written, and in `PostToolUse` a session that cannot be
  saved, is only printed, when the file has already been put back
  (`pkg/hooks/post_evaluate_checks.go:77-79`, `140-142`, `pkg/hooks/config_change.go:157`,
  `pkg/hooks/session_end.go:111`, `pkg/hooks/post_evaluate.go:74-76`). The next check
  finds nothing to undo: the entry, or the lockdown, is not made up for, and if both
  fail the edit leaves no trace. `UndoneIsAnswered` counts the failures.
* `RebaselineAllProjects` skips a project whose lease does not load
  (`pkg/hooks/lifecycle/rebaseline.go:107-115`), and the hooks of a project nobody ran
  `sir install` in create a session and no lease (`pkg/hooks/evaluate_io.go:75-89`).
  After an upgrade such a session has the old hashes, and its next check locks it down
  though nobody tampered with anything; so has a session whose recorded root or update
  fails. `NoFalseAlarm` leaves the skipped sessions out.
* A settings file that does not parse is treated as empty by install, and the
  developer's settings in it are lost (`cmd/sir/install_merge.go:117`);
  `DeveloperHooksKept` is about files that parse.

MCP servers.

* A failed probe of `sir mcp scan` has the zero outcome, which is `scanCapture`: the
  pin is overwritten with an empty digest, against the comment "Probe failures change
  nothing" (`cmd/sir/mcp_scan.go:202`; `ProbeKeepsPin`).
* A server whose approval a scan revoked is approved again by the next hook's
  auto-approval, unless it needs an explicit one.
* The mark of a declined drift question is redeemed by the next call that runs;
  after a call with an output the acknowledgement is lost instead.
* `sir mcp approve` prints the hash of the binary before the prompt
  (`cmd/sir/mcp_approve.go:119`) and pins what it hashes after the answer (`:160`), so
  that a binary swapped during the prompt is pinned unseen, although the review screen
  is there "so the user can see what they are approving" (`PinsWereShown`).
* A binary that is there and cannot be read counts as unchanged
  (`pkg/hooks/evaluate_preflight.go:338-343`, a documented choice), and a call with a URL
  among its arguments passes the drift gate by, because its verb is said to have
  "already surfaced a more specific concern"; for a server with a capability scope the
  ask of that verb is answered silently (`pkg/hooks/evaluate.go:390-396`). Both reach a
  swapped binary in silence (`DriftSurfaced`).
* The pinned command of a wrapped server is `sir`, so that its own binary is not
  watched.
* Status reports an `.app` helper, or a profile that could not be written, as
  sandboxed (`AssessmentHonest`). A process the server left behind keeps the proxy,
  since the group is cleaned up after the drain (`ServerEndEnds`).

Contained runtime, providers, kernel.

* The IPv6 commands of the Linux bootstrap script end in `|| true`
  (`pkg/runtime/linux_bootstrap.go:85-93`), and the launch only looks for `ip6tables`
  (`pkg/runtime/linux_policy.go:13`): where the program is there and fails, IPv6 stays
  open (`IPv6Filtered` in the world `failing`; `PinsHold` excepts it).
* A host that had no address at launch is not denied, as the warning says, but
  resolved when it is dialled (`UnresolvedDenied` in `UnresolvedWorld`).
* A damaged registry turns a native deny into an ask (`CorruptKeepsDeny`); a verdict
  that is none of the three is dropped rather than held, if another one is left
  (`TypoFailsClosed`); effects run in a goroutine of a process that is about to exit, so that a block may come
  after the answer or never (`BlockBeforeAnswer`, `pkg/hooks/evaluate.go:487`).
* The Go and the Rust kernel differ on ties of sensitivity, on unranked ones, on
  signals of a wrong schema and on `mcp_trust` (`EnginesAgree`, `pkg/kernel/kernel.go:17`).
* `sir provider test` of a source of signals validates each fixture as an event
  (`cmd/sir/provider.go:759`), a policy fixture too, so that its success says nothing
  about verdicts; `TestedIsUnderstood` excepts such providers.
* The kernel's evidence says a clean developer action was "protected from advisory
  escalation", and `sir policy explain` that the advice was "suppressed by the
  developer-workflow floor", whenever there was advice, advice of nothing but `allow`
  included (`ClaimedWhereNeeded`, `pkg/kernel/provider_evidence.go:54`,
  `policy_provider_cmd.go:227`). `EvidenceTruthful` keeps to what holds: what was held
  off is on record.
* Two replays append to the kernel's ledger without a lock and may chain to the same
  entry (`pkg/kernel/ledger.go:62`). The capability handshake of a provider has no
  deadline (`cmd/sir/provider.go:1260`).

## 8. Not modelled

Argument parsing, reports and formatting of the command line; agent adapters
(payload formats); wire codecs (generated); scanners and classification (string
matching); telemetry and relay (no decision depends on them); statistics
and detection names; signatures of managed policy; the Windows variants of lock,
runtime and proxy; environment and unix-socket policy of `sir run`; queries and
archive of the ledger. Of the lifecycle hooks, `InstructionsLoaded` and compaction are
present only as saves of the session.

## 9. Plan

1. **Composition** of store, ledger and hook files: the order of ledger entry,
   session save and answer, with a death in between.
2. **Ledger archive** against concurrent appenders; `InstructionsLoaded`; the shadow
   session of `sir unlock` together with `Contained`.
