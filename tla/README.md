# Verification of the remote coding agent (browser, relay, daemon)

TLA+ specifications of the system under `packages/`, their TLC configurations, and
theorems proved with TLAPS. `PROJECT.json` lists components, runs, the source lines
each definition stands for, the hazards and the findings.

## 1. The system

A browser drives a coding agent that runs on the user's machine. Commands travel
browser → relay → daemon as signed envelopes; events travel back as a numbered log.
The relay is not trusted: it routes by device and reads nothing else. The daemon owns
the sessions; a journal per session is the record, windows in memory serve
reconnecting pages.

    page (Connection, SessionModel)          relay (RelayServer)          daemon
      send(): number, sign  ───────────────►  to the device's daemon ──►  Daemon.handleInbound
                                                                            CommandVerifier.verify
                                                                            SessionManager | Session.handleCommand
      applyEnvelope(): order, dedup  ◄──────  to all browsers  ◄────────  Session.push → SessionStorage.append
      resume{sinceSeq}  ─────────────────────────────────────────────────►  Session.backfill
                                                                            Session ⇄ ClaudeAgentEngine ⇄ agent SDK

### Inventory

| Component | State | Operations | Correct when |
|---|---|---|---|
| Session (`daemon/src/session/Session.ts`) | current turn, state, pending prompts with timers, one-shot context | commands, engine callbacks, timers, start, dispose, backfill | one turn at a time; every turn ends and is journaled so; every tool call is settled, once, by its first word |
| Policy | mode, allow-list | decide, update, allowForSession | only policy or an approval allows a call |
| ClaudeAgentEngine | blocked calls, interrupt flag, pending restart, pending context, the query | send, configure, approve, deny, interrupt, query loop | flags and contexts apply to the turn they are for |
| SessionStorage, journal | numbers, replay window, stream windows, records | append, load, eventsSince, toolStreamSince | the windows hold the newest; load restores what was appended |
| SessionManager, meta files | mutex, active id, files | new, open, delete, rename, touch, initialize | no lost update; disk agrees with memory; a restart finds its session |
| Summarizer, IdleSweeper | runs under way; a timer | run, tick | leave alone what changed since they looked |
| Daemon, DaemonClient | the current Session, the transport slot | handleInbound, route, emit, connect, close | frames reach whom they are for |
| RelayServer | per device: its daemon and browsers | register, route, presence, close | one live daemon per device, no ghosts |
| Connection (`web/src/protocol-client.ts`) | outgoing counter, cursor, offsets | send, applyEnvelope, hello, resume, reconnect | the transcript is in order, complete, without repetition |
| SessionModel, shell | transcript, prompt, session list, queued message | apply, sendMessage | shows the daemon's state; a message goes to the session it was written for |
| CommandVerifier, ReplayGuard, EnrolledKeyStore | last number per client; keys | verify, enroll, revoke, open | nothing runs twice, out of order, or under a revoked key |
| EnrollmentManager, PairingCodeStore | codes, enrollments | mint, handle, consume | a code enrolls one browser; a retry gets the same answer |

### What makes it hard

- **Awaits.** JavaScript runs to the next `await`, and state read before one is used
  after it: `send()` restarting the query, `verify()`, every file operation of the
  manager. A step of the models is such a run, no more.
- **Races for one outcome.** Policy, answer, timer, interrupt and end of session for a
  tool call; a broadcast and a resume's answer for a page's cursor.
- **Crashes.** The journal is a buffered stream, and may end inside a line; `meta.json`
  and `active.json` are separate files.
- **Links.** Both links break and return separately; frames on a dead one are lost, a
  restarted daemon reuses numbers, a reloaded page reads answers meant for its past.
- **Shared identity.** All tabs of a browser have one client id and one counter.

## 2. Modules

| Module | Models | Notes |
|---|---|---|
| `Policy` | `Policy.ts` | mode, allow-list, `AutoApproves` |
| `AgentEngine` | `ClaudeAgentEngine.ts` | effects of the engine's methods on its fields; the SDK is external |
| `Session` | `Session.ts`, turn markers of the journal | extends both; a step is one run of the event loop |
| `SessionProofs` | theorems about `Session` | |
| `EventLog` | `SessionStorage.ts` | append, load, windows as functions of a log record |
| `EventDelivery` | `Session.push/backfill`, `Daemon` framing, `DaemonClient`, relay routing, inbound half of `Connection` | extends `EventLog` |
| `EventDeliveryProofs` | theorems about `EventDelivery` and the functions of `EventLog` | |
| `SessionStore` | what the manager promises of the sessions on disk | abstract specification |
| `SessionManager` | `SessionManager.ts`, `Summarizer.ts`, `IdleSweeper.ts`, `meta.ts`, `journal.ts` | a step is one file operation; implements `SessionStore` |
| `SessionManagerProofs` | theorems about `SessionManager`, the refinement included | |
| `SessionSwitch` | `Daemon.dispatch/rebindSession`, `SessionManager.attach` with the engine at work | several `Session` objects on one engine |
| `SessionSwitchProofs` | theorems about `SessionSwitch` | |
| `SessionView` | `session-model.ts` (session list), `Phase1Shell.tsx`, `Daemon.dispatch` | which session a page shows and where a message goes |
| `SessionViewProofs` | theorems about `SessionView` | |
| `MockEngine` | `MockEngine.ts` | `runTurn()` and what it emits, step by step |
| `Transcript` | `session-model.ts` (reducer), the events `Session` pushes, `Composer`, cards, downloads | extends `MockEngine`; one model per page |
| `TranscriptProofs` | theorems about `Transcript` | |
| `CommandVerifier` | outbound half of `Connection`, `CommandVerifier.ts`, `ReplayGuard`, `EnrolledKeyStore.ts` | |
| `PairingCodes` | what pairing promises | abstract specification |
| `Pairing` | `pairing-flow.ts`, `pairing.ts`, `EnrollmentManager.ts`, `PairingCodeStore.ts`, `EnrolledKeyStore.ts` | implements `PairingCodes` |
| `PairingProofs` | theorems about `Pairing`, the refinement included | |
| `RelayServer` | `RelayServer.ts`, what `auth` decides | a step is one callback of the relay |
| `CommandPathProofs` | theorems about `CommandVerifier` and `RelayServer` | |
| `MC*` | instances for TLC | |

Definitions whose comment starts with *Slip* are plausible mistakes in the definition
that follows them; the specifications do not use them. Each is put in the place of the
real one to see that a property notices.

**Session.** `promise[r]` is the promise that `canUseTool` returned for call `r`:
`blocked` while it is in the engine's `pending`. `armed` is `Session.pending`: prompts
with a running timer. `sending` marks a `startTurn()` suspended in `engine.send()`
because a restart of the query is due (`BeginRestart` … `FinishRestart` or
`FailRestart`); everything else is one step. `log` is what was written to
the journal's file: the `turn_start` and `turn_end` records, the status that a start ends
with, and what is left of their lines. A crash keeps a prefix not shorter than `flushed`,
which may end between two lines, inside one (`Fragment`, which may be of an event) or
before its newline (`Bare`). What is written next continues that line, for the file is
opened to append; `Legible` gives the records that `readAll()` then finds.
`firstWord`, `dropped`, `stopped`, `outcome`, `carried` and `applied` are history. What
the SDK does is read off how it is used: it answers one turn at a time, calls
`canUseTool` within a turn, ends an uninterrupted turn only when its calls are
settled, may end an interrupted one at once, and its loop may throw.

**EventDelivery.** A page's socket is `inbox` and `toDaemon`; `link` is the daemon's
socket: `registering` when the relay knows it but the transport is not yet installed,
`stale` when it is dead and the relay has not noticed. A resume waits in `verifying`.
Breaking a page's socket keeps any prefix of what it had sent. Contents are ids in the
order of production, so order and repetition can be read off what a page has applied.
`awaiting`, `raced`, `doubled` and `misled` are history: who waits for the answer to a
resume, and which pages met one of the three disturbances the properties name.

**SessionManager.** `queue` is the chain of promises behind `withLock`; its head works
through stages between file operations. `Write` records in `clobbers` when it drops what
somebody wrote since the read it is based on. Journals are `none`, `empty`,
`buffered` (written to the stream, not in the file) or `events`. An I/O error within a command
is an unhandled rejection and ends the process, so it is `Crash`.

**SessionSwitch.** `binds` lists what `attach()` made, one entry per binding: storage,
journal stream and, once `rebindSession()` ran, a `Session`. `bound` is
`Daemon.session`. An engine event runs the listeners of all live entries, oldest first;
each gives it a number of its own storage. `switch` follows the manager's command over
its awaits (`EndJournal`, `JournalEnded`, `Attach`, `Rebind`). A write to a stream that
is ending raises an error nobody handles: `up` becomes false and `Restart` follows.

**SessionView.** Per page `current`, `displayed` and `overlay` are the three fields that
`SessionModel` keeps about sessions, `queued` is `pendingSendRef`. The daemon handles a
command in one step; links keep order and may lose everything under way. A message
remembers in `aimed` the session on screen when it was typed, in `got` the one whose
journal it reached.

**MockEngine, Transcript.** `MockEngine` gives the effect of each piece of `runTurn()`
between awaits and, beside it, the sequence of events it emits. `Transcript` pushes them
through the session into `log` and from there to the pages; `Reduce` is
`SessionModel.apply`, one case per event, and `ItemsOf` is `reduceEventsToItems`. Pages
type, answer, interrupt and download whenever the user interface offers it. A turn's
request and tool call have the turn's name. Its file is at `PathOf[t]`, and turns may name
one path: `file` says whose content is there and whether all of it. A write replaces what
it finds, so a read meanwhile, and what a failed write leaves, may be part of it
(`Readable`); what is sent of it depends on the size of what was found, not of what the
turn wrote (`Served`). A read that a write overlaps in part counts as one made during the
write.

**Pairing.** `stage` is how far `handle()` has come for an attempt: comparing tags
(`matching`), `deriving` the channel key, and the three awaits of `persist()`. Files are
inodes named by the attempt that made them, `torn` until written in full; `file` and
`tmp` say which inode has which name, so that two `persist()` calls can write into one
temporary file. A channel key is the pair of the two keys it is derived from.

**RelayServer.** `conns`, `daemonOf`, `browsersOf` are the relay's tables,
`authorizing` the registrations that wait for `authorize()`, `timed` and `alive` the
timers. A peer may close, or vanish without closing, at any moment. `ghosts` marks
sockets that were registered after their close event.

**CommandVerifier.** `signing` holds envelopes whose signature is awaited; they reach
the socket in any order. `verifying` holds `verify()` calls with the keys they started
with; they end in any order. `Reject` stands for a failed check and for a clock window
that has passed. The awaits for several keys within one `verify()` are one step.

## 3. What is checked

Passing runs:

| Run | Shows | Instance |
|---|---|---|
| `session_turns` | `JournalMatchesTurn`: the journal leaves the running turn open, and no other but one whose `turn_end` is on the line that the last crash has torn. `TurnsAgree`: the engine answers the current turn, idle is shown exactly without one. `InterruptsAreHonest`: a turn ends as interrupted if and only if it was, with the one window named | 2 turns, 1 call, commands, query and restart failures, 2 crashes that cut the file anywhere; no policy updates |
| `session_calls` | `FirstWordDecides`: nothing overturns the first word on a call. `OnlyEndDropsTimers`. Liveness: `TurnsComplete`, `CallsAreSettled` | 1 turn, 2 calls (a shell and an edit tool), the same commands and failures, policy updates, 1 crash |
| `delivery` | `InOrderOnce`, `HolesAreExplained`, `StatusIsCurrent`, liveness `CatchesUp` | 1 page, 3 events of two kinds, windows of 2, 1 break, 1 restart losing 1 record |
| `manager` | `MutexKeepsWrites`, `DiskInvariant` (disk and memory agree, a restart finds its session), `CommandsAreAtomic` (the refinement of `SessionStore`), liveness `CallsReturn` | 2 commands with 2 calls at once, 4 sessions, 1 crash |
| `verifier` | `GuardFollowsRuns`: commands run in the order of their numbers, none twice, and one that is turned away moves no guard. `RevocationIsFinal` | 2 tabs of 1 client, 3 commands, 1 reload, 1 restart |
| `relay` | `RoutesAreExact`: frames reach exactly the live peers. `PresenceIsTrue`. `SocketInvariant`: nothing closed stays in the table. Liveness `DeadSocketsClose` | 2 daemon sockets and 1 browser socket of one device |
| `pairing` | `AckedIsDurable`: what was acknowledged survives a crash. `PairedMatchesRecord`. `RefinesCodes`: the abstract specification | 2 browsers, 2 codes, 3 attempts, 1 crash |
| `switch` | `JournalInvariant`: journals in order. `QuietSwitchLosesNothing`, `EngineIsHeard`, liveness `TurnsEnd` | 2 sessions, 3 bindings, 2 turns, 1 call, 1 restart |
| `view` | `DisplayInvariant`: a past transcript is the one displayed. `MessageReachesItsSession`, liveness `MessagesArrive` | 2 pages, 2 sessions at the start and 1 made, 2 messages, 3 moves |
| `transcript` | `LiveViewIsJournalView`: what a page lived through equals what the journal gives. `FinishedTurnsAreWhole`: no bubble left streaming, one card per turn that wrote. `CardsGiveFinishedFiles`: a card brings the whole file as its turn or a later one left it, or an error for one over the cap, unless a later turn at the same path spoils it. `PromptsAgree`: a prompt is on screen exactly while the engine waits | 2 pages, 2 turns that write one path, 2 messages, the second content over the cap, 1 disturbance |

Runs that find a disagreement between the code and what it says of itself (the
findings in `PROJECT.json` quote the lines):

| Run | Property refuted | What happens |
|---|---|---|
| `session_context` | `ContextForItsTurnOnly` | a resume context waits for the next restart of the query, in a later turn |
| `transcript_prompt` | `PromptSurvivesResume` | a resume repeats an old status, which takes a prompt off the page that the engine still waits for |

### Disagreements the passing properties name

The passing properties are stated with their exceptions, and claim that nothing else
breaks them. Each exception is something the code does against what it says, seen in a
counterexample while the property was written without it:

- Ending a session drops the timers of calls that stay blocked, although a prompt is
  said to be default-denied when it expires (`shared/src/protocol/messages.ts:278`).
  `OnlyEndDropsTimers` exempts calls `dropped` so.
- A crash may leave part of a line in the journal. The file is opened to append and
  nothing ends that line, so the first record of the next start is lost with it
  (`daemon/src/storage/journal.ts:51`), which is the `turn_end` of the turn it recovers
  (`daemon/src/session/Session.ts:224`); the next start aborts that turn once more.
  `JournalMatchesTurn` exempts a `turn_end` on the line that the last crash has torn.
- A turn may rewrite the file of an earlier one. While it writes
  (`daemon/src/engine/MockEngine.ts:99` empties the file first), or when its write failed
  halfway, the card of the earlier turn brings part of a file and nothing says so, or an
  error where the new content is over the cap (`daemon/src/session/Session.ts:443`).
  `CardsGiveFinishedFiles` exempts what a later turn at the same path has spoilt so, and
  takes the later turn's whole content for an answer.
- After the query loop throws, an interrupted turn never completes, and no later
  message is taken (`shared/src/engine/IAgentEngine.ts:80`). `TurnsComplete` exempts
  `Abandoned` turns.
- A broadcast that reaches a page between registering and the answer to its resume
  moves its cursor past what it missed (`web/src/protocol-client.ts:4-5`), and the
  journal is loaded twice into one storage, so the replay window holds half of what it
  should (`daemon/src/storage/SessionStorage.ts:4`). `HolesAreExplained` exempts pages
  that were `raced` or answered from a `doubled` window, and crashes that lost records.
- `backfill()` recovers tool output that was evicted from the window
  (`daemon/src/session/Session.ts:331-333`), under a number the page has seen, so the
  page drops it. A page that was reloaded has not seen that number: when the resume it
  had sent before is verified late (`daemon/src/Daemon.ts:287`), the answer goes to the
  new page, which applies the output without the events it follows, and applies the same
  output again if a crash takes the number back (`web/src/session-model.ts:6`, "in seq
  order with no duplicates"). `InOrderOnce` exempts such pages (`misled`). The shortest
  trace has 27 steps and needs a window of eight events and two breaks, beyond the
  instance of the run; it was found when the invariant of the proof did not hold.
- The switch that flushes a queued message may be one that was on its way before the
  message was typed. When the resume the message asked for fails, because the session was
  deleted meanwhile, the message then runs in the active session.
  `MessageReachesItsSession` exempts messages typed with such a switch under way
  (`UpToDate`). This too lies beyond the run's instance, and was found while the property
  was proved.
- The Summarizer writes a deleted session back, where the design says that its write is
  a no-op (`docs/superpowers/specs/2026-07-06-session-history-sidebar-design.md:192`).
  `DiskInvariant` exempts what it dropped or discarded, and in `SessionStore` a command
  may undo what it did.
- After a retry of pairing the two ends hold different channel keys
  (`daemon/src/security/EnrollmentManager.ts:122-124`). `PairedMatchesRecord` compares
  keys of browsers that made one attempt.
- `session_switched` is compared with the active session after replacing it, so a page
  that watches the session that was left does not follow
  (`web/src/session-model.ts:210-212`). The message it types next resumes that session.
- After a switch at work, each engine event is handled by the old and the new
  `Session`, and a page gets it twice under two numbers
  (`web/src/session-model.ts:6`). `EngineIsHeard` says that it gets it once at
  least, completions excepted.

Smaller observations, made with the same models: a page that was reloaded has no
session list until something changes, and sends to whichever session is active; a
queued message is overwritten by a second one, and is flushed by an unrelated switch
when its own failed; an interrupt that falls into a write of the MockEngine ends the
turn `ok`; an interrupted request keeps its timer, so a line "timed out" appears
minutes later; a message typed into a running turn leaves that page's bubble streaming
and its turn without a bundle card; a bundle of one file over the cap is answered with
"all paths were invalid or unreadable"; a file downloaded from a tool's card while it is
being written may be missing or half there.

### Bounds

Each bound is a constant: `MaxTurns`, `MaxRestarts`, `MaxReplay`, `MaxStream`,
`MaxEvents`, `MaxDrops`, `MaxLost`, `MaxSessions`, `MaxCommands`, `MaxCrashes`,
`MaxReloads`, `MaxAttempts`, `MaxBinds`, `MaxMessages`, `MaxMoves`, `MaxInterrupts`,
`MaxDownloads`, and the sets of requests, pages, calls, sockets, browsers and codes.

- `Session`: two turns are needed for a flag to leak from one to the next, two calls
  for an answer to reach the wrong one. Two crashes
  are a torn line, the record lost with it, the load that misses it, and a repair that may
  be torn in turn. Updates of the policy change no turn and are left to `session_calls`.
- `EventDelivery`: a window of two with three events evicts; one break or restart at
  any point meets every race of the handshake. One page suffices because the daemon
  keeps nothing per page.
- `SessionManager`: two commands meet behind the mutex; four sessions are never used up
  by two commands, the first start and one restart.
- `RelayServer`: two daemon sockets replace one another in either order around their
  authorizations and closes; a browser joins in. Several devices and users are proved.
- `Pairing`: three attempts of two browsers contain a retry, two browsers on one code
  and two overlapping `persist()` calls. Browsers and codes are symmetric; no liveness
  is checked there.
- `SessionSwitch`: three bindings leave a session and come back to it during a turn.
- `SessionView`: three moves are a switch by one page, one by the other and a break.
- `Transcript`: two turns, so that files and bubbles may leak into the next, and the
  second rewrites the file of the first; two pages,
  one of which (`EagerPages`) reads at once, because what matters is how far one lags
  behind the other. `OneDisturbance` allows one interrupt, broken socket, download or
  message sent into a turn per behaviour, and stops at pages with a hole, which
  `EventDelivery` treats, and when a download has come, on which nothing depends. `EagerPagesFirst` is a bound on schedules. The `VIEW Relevant` drops
  answers to requests gone by, which no action and no property reads, and the files once
  no download can follow. The
  proofs make none of these cuts.

What is proved (section 4) depends on none of these bounds: the types let ids, numbers
and sessions be any numbers, and the bounds only guard the actions.

`Session` always has a step (a daemon that is down starts) and is checked for deadlock.
In the others nothing need happen once bounds are used up, frames read and sockets
closed, and in `SessionSwitch` the daemon may be down with its restarts used up; they
are run without deadlock checking.

### Fairness

- `Session`: timers fire, `startQuery()` returns or throws, the SDK answers a turn
  whose calls are settled, a daemon that is down is started. Clients owe nothing: a call
  nobody answers is settled by its timer alone. A turn the SDK never finishes is not the
  session's to end.
- `EventDelivery`: both ends reconnect after a close (`protocol-client.ts:266`,
  `DaemonClient.ts:153`), frames of live sockets are read, `verify()` ends. No event is
  owed. Breaks are bounded.
- `SessionManager`: file operations of a call return; nothing is assumed of commands,
  Summarizers or crashes.
- `RelayServer`: the register timer and the heartbeat interval fire, and a socket on
  which `close()` or `terminate()` was called gets its close event. Peers owe nothing.
- `SessionSwitch`: timers fire, and the SDK ends a turn whose calls are settled.
- `SessionView`: the daemon and an open page take the frames that reach them. Users owe
  nothing; a link need not come back.
- `Pairing`, `Transcript` and `CommandVerifier` are checked for safety.

### Refinement

`Pairing` implements `PairingCodes` under the mapping `Promise`: a code is live while it
is in the daemon's map, its owner is `consumedBy`, and the keys are the records. The
abstract machine claims a code and enrolls a browser in one step each; the code does so
in requests that interleave at their awaits, with retries, expiry and crashes. TLC
checks it on the instance, TLAPS for all (`Refines`).

`SessionManager` implements `SessionStore` under its mapping `Promise`: ids used are the
ids minted, a session is stored while it has a `meta.json`, its title is the one in that
file, and `active.json` names the current one. In the abstract machine a command takes
effect at once; the manager's calls are several file operations long, and write at the
end what they read at the beginning. Opening, closing and touching a session are no
steps there, and so must not change which sessions there are or what they are called;
the rename is its write, the deletion its `rm`, an activation the write of
`active.json`. The Summarizer works outside the mutex, so a call may put back what it
read before the Summarizer wrote: `PutBack`, possible only while the Summarizer was the
last to write (`disturbed`).

## 4. What is proved

For all values of the constants that satisfy the named assumptions beside their
declarations, which say that bounds are numbers and that sets are finite where they
are.

`SessionProofs`:

- `TypeCorrect`: `Spec => []TypeOK`, one lemma per part of `TypeOK`. The journal part
  needs that recovery appends records (`OrdersGiveLines`) and that there are finitely
  many turns (`OpenTurnsFinite`).
- `DefaultDeny` and `TimersGuardCalls`, from `CallInvariant`. The properties alone are
  not inductive: to know that a settlement is the first word, one must know that
  nothing has spoken on a blocked call unless its prompt was dropped, that a call not
  yet asked has no history, and that an armed prompt was not dropped.
- `TurnsAreTracked` and `InterruptsAreReported`, from `TurnInvariant`: in
  addition, while `send()` is suspended the SDK has no turn, a turn not yet started has
  no interrupt, and the engine's flag says exactly whether the running SDK turn was
  interrupted.
- `JournalRecovered`, from `JournalInvariant` relative to those: in addition, the last line
  of the journal is complete while the daemon runs, for a start always writes the status,
  which ends the line that the crash has torn. Lemmas say what a complete line makes
  legible and leaves so (`LegibleAfterLine`, `LegibleOfLonger`), what appending a
  `turn_start` or `turn_end` does to the open turns, that all a crash leaves is writes
  again (`RemainsAreWrites`), and that recovery in any order writes a `turn_end` for every
  open turn, which is legible but for the first (`RecoveryCloses`).

`CommandPathProofs`, on the verifier: `TypeCorrect` (a page's sockets carry only envelopes that were
sent and are no longer being signed) and `CommandsRunInOrder` and
`RevokedKeysStayOut`, from `VerifierInvariant`: the guard's number is the last one run, the cached keys are the
enrolled ones, and a `verify()` that began after a revocation does not hold the key.

`CommandPathProofs`, on the relay: `ExactRoutes`, `TruePresence` and `ClosedLeave`
(`SocketInvariant`), from `RelayInvariance`. The properties are not inductive: besides
the types one must know that every registered socket that is open stands in its place in
the table (a replaced daemon is closing at once), that what a table holds is registered
there, and that a browser's last presence agrees with the table even while its daemon
is closing.

`PairingProofs`: `PairingTypes`, `AckedKeysAreDurable`, `PairedMatches` and `Refines`,
from `PairingInvariance`, the conjunction of: codes and who used them (`CodesInv`); a
request is handled once, so ids and inodes are fresh (`FreshInv`); records are what
their attempts made them, one per browser (`RecordsInv`); answers and stored results
come from attempts of that browser (`PairsInv`); no file has more records than memory
(`SizesInv`); and, while no two `persist()` calls have overlapped, there is one
writer, and it writes a file other than the registry that includes all of it
(`DurableInv`). The last is what makes the rename safe; with an overlap it is false.
`Refines` takes one step of `Next` to a step of `PairingCodes` or a stutter, action by
action.

`SessionManagerProofs`: `MutexLosesNoWrite`, `DiskAgreesWithMemory`,
`ActiveSessionSurvives` and `CommandsTakeEffectAtOnce`, from `ManagerStaysConsistent`. The properties speak of files
and of moments between calls; in between one must know what the call at the head of the
queue is doing. So the invariant says: only the head has gone past its start, and each
kind of call through stages of its own (`HolderInv`); what calls and Summarizer runs
name was minted (`IdsInv`); what the call holds to write back is what is on disk, unless
the Summarizer wrote since (`ReadsInv`, from which a lost write follows); stage by stage,
which of `activeId`, `active.json` and the session directory are already new, and that
`active.json` names a session that is there, also between the two writes of a call
(`FilesInv`); which sessions are marked active while the Summarizer has dropped no write
(`MarksInv`); and that the first start finds nothing (`FirstInv`).
`CommandsTakeEffectAtOnce` is the refinement: by `ReadsInv` a write that keeps the title
is a stutter or a `PutBack` (`WriteBackRefines`), and by `FilesInv` the session a
deletion finds inactive in memory is not the one `active.json` names.

`SessionSwitchProofs`: `JournalsInOrder`, `QuietSwitchIsSafe` and `EngineSpeaksUp`, from
`SwitchInvariant`. Stage by stage of a switch, which binding is `Daemon.session` and what
state its journal is in (`StageInv`), and that only the last binding's journal may be open:
so of all the objects that number an event one at most writes it (`AppendedFacts`), and its
number is not below the last in its journal (`NumbersInv`). While `rash` is false and the
session is being left, the engine has no turn and no object a timer, so only a command could
speak, and that would be rash (`QuietInv`). And some object that is subscribed has counted as
far as the page (`HeardInv`); the one that has counted furthest, the oldest if there are
several (`Loudest`), then says everything under a number that is news. For the last event of a
step that is enough; the `turn_complete` is not the last, and can be lost.

`SessionViewProofs`: `TranscriptIsTheOneDisplayed` and `MessagesFindTheirSession`, from
the conjunction of: the message that waits on a page was typed there and has not arrived
(`QueuedInv`); a message is carried by one command at most, and by none while it waits
(`CommandsInv`); what is not typed has not arrived (`FreshInv`); and when an undisturbed
message is on its way, or its switch is answered and not yet applied, the active session
is the one it is aimed at (`AimsInv`).

`EventDeliveryProofs`: `TypesHold`, `TranscriptsAreInOrder`, `PagesShowTheStatus` and
`HolesHaveACause`, from `DeliveryStaysConsistent`.

- About the functions of `EventLog`, for windows of any size: appending keeps the newest
  records in the window (`WindowStep`), loading a journal into a log that holds it
  already leaves a window that still ends with its newest records (`LoadAgain`), and the
  answer to a resume is made of later records in their order, at most one piece of
  recovered output and the status (`AnswerFacts`). `Load` and `EventsSince` are
  recursive functions; that they are defined, and what they do, is proved by the least
  index at which it fails (`UpTo`).
- `OrderInv` is what makes `InOrderOnce` inductive. It is not enough that a page's
  transcript is in order, nor is it true that the frames on their way are: answers
  overlap with broadcasts, and after a crash frames with reused numbers follow frames of
  the lost end. True is that those frames which the page is going to apply (`Applies`:
  neither seen nor overtaken) continue its transcript, and that what the journal holds
  beyond the page's number is newer than all the page has.
- `StatusInv`: a page of a connected daemon has greeted it and awaits a snapshot, or the
  last status on its way to it, else the one it shows, is the current one.
- `HolesInv`, for `HolesAreExplained`, follows one record at a time. While the window
  holds it and a page has not applied it, the page's number is below it; it is in the
  page's inbox, or the page awaits a snapshot; and whatever would move the page past it
  comes behind it in the inbox, or races with that snapshot. It rests on two more parts.
  `NumbersInv`: while no record was lost, nobody has seen, or is sent, a number that the
  journal has not reached, so a new record is ahead of every page. `CommandsInv`: a
  resume of the present connection asks for no more than the page lacks, so its answer,
  drawn from a window in which no event is twice (`WindowIncreases`), brings the record
  before anything newer; a resume of an earlier connection asks for anything, but it is
  answered while the page still awaits the snapshot, for the commands of a browser are
  verified in their order.

`TranscriptProofs`: `TypeCorrectness`, `LiveView`, `FinishedTurns`, `CardsAreServed` and
`Prompts`, from `Invariance`. What a page shows is at the end of a long way, and the invariant follows it:

- `PhaseInv`: the model that the whole journal makes is the one of the engine's step: a
  prompt when it asks, a file not known to be written when it writes, no streaming bubble
  when it is idle, and a bundle for each file written. It needs what the reducer makes of
  each event, field by field (`ReduceFacts`), what the session pushes for each piece of a
  turn (`PushedWritten` and its like), and that a journal can be reduced event by event
  (`ModelOfAppend`). `ModelOf` and the flattening of what the session forwards are
  recursive functions: that they are defined is proved by the least index at which they
  are not.
- `AgreeInv`: each page agrees with the model of the journal up to its cursor, apart from
  what it answered, what an old status took and the bubble it cut. A frame advances both by
  the same event (`SameStep`); one that was seen changes no item, and a prompt only to none.
  This holds with frames on their way, too (`PagesFollowTheJournal`), which TLC checks only
  where they are all read, since it builds a transcript anew in each state.
- `CatchInv`: a connected page that is not at the end of the journal has the frame that
  ends it, or a resume, on its way. So a page that has caught up is at the end, where
  `PhaseInv` says what it shows.

- `FilesInv`: the path of a turn whose write succeeded holds its content, all of it, or
  that of a later turn that names the same path, and the turn that runs is later than all
  of them. A bundle card exists for written turns only, so what is read for it is finished
  or of a later turn (`ReadableFacts`, `ServedFacts`), and stays so on its way to the page.

Looking for that invariant corrected the model. A page that loses its socket, comes back and
loses it again may have the answer to a resume of an earlier connection end with a status
under a number just one above its cursor, whose event it never got. The page counted as one
without a hole until then; `SkipsAnEvent` now compares the frame with the journal, and not
its number alone. It takes more drops than the run allows.

Only model-checked: all liveness, which TLAPS does not do, and the runs that refute.

## 5. What is not modelled

Rendering, login, start-up and shutdown, the device's key file, cryptography (a
signature verifies under the key that made it, a tag with its code, a channel key is
named by the two keys it comes from). Version negotiation compares two constants of
this build. In the relay `stop()` and the limits on frame sizes; in the manager the
index of sessions with its file watcher, which `SessionView` takes to be current
whenever a list is sent, as all its callers await; the idle sweeper's clock, whose roll
is a choice. `machine_state`, titles, the model and effort shown. The migration of
journals of an older layout. In `EventDelivery`, `SessionSwitch` and `SessionManager` a crash
loses whole records; what a torn line costs is in `Session`. The relay's shared-token mode;
and a daemon is taken to be its owner's (`Permitted`), which follows from how device tokens
are issued: `authorize()` compares only the device. Envelope session ids agree on both
sides, as the configuration sets them; several tools with output at once are one tool;
`MockEngine` has one tool call per turn, and so a page's prompt is never replaced by a
second one.

## 6. Plan

1. An abstract specification of delivery (a page's transcript is a prefix of the log,
   with named holes) that `EventDelivery` implements.
2. `Transcript` with `AgentEngine` in the place of `MockEngine`: several prompts at
   once on a page that has one slot for them.
3. `SessionIndex`: concurrent refreshes, the watcher, and which list a page is left
   with.
