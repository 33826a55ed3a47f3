# A verification project for the GitHub CLI

TLA+ modules for the parts of `gh` where steps of several goroutines, processes
and servers meet. TLC checks small instances, TLAPS proves the main results for
all values of the constants. Line references are to the repository's files.

## 1. Inventory

`gh` is a command line client: each command is a short-lived process that reads
its configuration, talks to the GitHub API and prints. Most command groups
(`pr`, `issue`, `repo`, `run`, `search`, ...) hold no state of their own. What
is kept between processes, or shared between goroutines, is this:

| component | state | operations | what makes it hard |
|---|---|---|---|
| **Token refresh** `internal/config/refreshable.go`, `internal/authflow/refresh.go` | a refreshable credential per user (keyring item `gh:_refreshable:host`), `refreshMu`, `refresh.lock`; at the server: which refresh tokens are good | `TokenForUserWithRefresh`, `refreshCredentialForUser`, `withFreshConfigForRefresh`, `LoginRefreshable` | refresh tokens are single use; many processes renew at once; the file lock is given up after 60 s; answers and stores fail half-way |
| **Account store** `internal/config/config.go` | `hosts.yml` (users, active user), keyring items `gh:host/user` and `gh:host` | `Login`, `LoginRefreshable`, `Logout`, `SwitchUser`, `ActiveToken`, `TokenForUser` | three keyring items and a file that must agree, whole-file writes from a copy in memory, ignored errors of deletions |
| **Keyring wrapper** `internal/keyring` | none of its own | `Set`, `Get`, `Delete` with a timeout of 5 minutes | an abandoned call goes on and lands later |
| **File lock** `internal/flock` | the lock of one file | `Lock` (polls `TryLock` until a deadline), unlock | death of the holder, platforms without locks |
| **API client** `api/http_client.go` | none | attaches the token, asks for a refresh | calls the token refresh from many goroutines |
| **Auth commands** `pkg/cmd/auth/*`, `pkg/cmd/config/set` | their copy of the configuration | login, logout, switch, refresh, `config set --host` | decide on what they read before the lock |
| **Port forwarding** `internal/codespaces/portforwarder` | the ports of a tunnel and their visibility (at the server), one `ManagerMu` per connection, the keep-alive reasons | `ForwardPort`, `ForwardPortToListener`, `UpdatePortVisibility`, `GetKeepAliveReason` | a change of visibility deletes the port and makes it again; contexts end in between |
| **RPC invoker** `internal/codespaces/rpc` | the client connection, the channel of `connect`, the heartbeat | `CreateInvoker`, `connect`, `heartbeat`, `Close` | two goroutines race to one channel; who cancels what |
| **Release upload** `pkg/cmd/release/{create,upload,delete,shared}` | the release and its assets at the server | draft, concurrent upload with retry, publish, clean up, delete | lost answers, cancelled workers, delete-then-upload |
| **Skills** `internal/skills`, `pkg/cmd/skills/update` | `.skill-lock.json`, installed directories | install in parallel, record under a file lock, update by swapping directories | truncate-then-write, two renames per file, ignored errors |
| **Telemetry** `internal/telemetry`, `internal/ghcmd` | device ID file, recorded events and facts | create the ID, record, upsert, sample, disable, flush | processes race for the ID; the order of calls |
| **Extensions** `pkg/cmd/extension` | directories of extensions | install, upgrade, remove | remove-then-install |
| **Update checker** `internal/update` | a time stamp file | check once in 24 hours | nothing interacts |

Interactions: the auth commands and the API client call the account store; the
store calls the keyring, go-gh's configuration file and, for refreshes, logins
and logouts, `withFreshConfigForRefresh`; that calls the file lock, then the
refresher, which calls the server's token endpoint. Processes interact through
the keyring, `hosts.yml`, `refresh.lock` and the server only. The RPC invoker runs
the port forwarder in a goroutine, on the connection the command uses for its own
calls, and its heartbeat asks it for keep-alive reasons; commands meet in the
ports of the tunnel. Release commands meet at the server, skill commands in the
skills' directory and in their lock file, and all commands in the device ID. None
of these three touches the account store except to read a token.

What makes each component correct:

* *Token refresh*: a refresh token is spent once; a rejection removes only a
  credential that is really dead; a logout is final; a login or a peer's renewal
  is never overwritten; nobody waits for ever.
* *Account store*: the host's own item belongs to the active user or is empty; a
  write touches one account; a login or logout that reports success did what it
  says; a failed switch changes nothing.
* *Port forwarding*: a port is not lost, and keeps its visibility, when a change
  of visibility fails; a change reported as made is made; a call whose context
  has ended returns and does not keep the mutex.
* *RPC invoker*: a connect that returns without an error has a connection, one
  that fails leaves nothing running, and the heartbeat can be stopped.
* *Release upload*: a published release has all its assets, clean-up never
  deletes a published release, an asset that was there is not lost, and what is
  reported as uploaded is there.
* *Skills*: no record of a concurrent process is lost, what is recorded is
  installed, and an update leaves the new skill or the old one.
* *Telemetry*: one device ID wins and all use it; what is sent is what was
  recorded, at the rate it states, and nothing after it was disabled.

The hazards behind these, each at its line, are in `PROJECT.json`.

## 2. Plan

| | modules | question |
|---|---|---|
| done | `TokenRefresh`, `RotatingCredential`, `TokenRefreshContract`, `TokenRefreshProofs` | the life of one rotating credential among processes |
| done | `AccountStore`, `Accounts`, `AccountStoreProofs` | users, active user, keyring items and `hosts.yml`; what each command does to the file at once |
| done | `ReleaseUpload`, `ReleaseUploadProofs` | draft, upload with retries and lost answers, publish, clean up |
| done | `PortForwarding`, `PortForwardingProofs` | visibility change, `ManagerMu`, calls whose context ends |
| done | `Invoker`, `InvokerProofs` | start-up race, cancellation, heartbeat; extends the former |
| done | `SkillStore`, `SkillStoreProofs` | partial installs, the lock file, swaps with crashes |
| done | `Telemetry`, `DeviceElection`, `TelemetryProofs` | the election of a device ID; the service around it |
| done | `AtomicStoreProofs` | `TokenRefresh` implements `RotatingCredential` |
| next | `SkillStore` | its lock file as the implementation of an atomic map |
| next | `ReleaseUpload` | the life of a release (draft, public, gone) as an abstract specification |
| next | `AccountStore` | credentials in `hosts.yml` (`--insecure-storage`) |

`AccountStore` abstracts the token's life to "has a record"; `TokenRefresh`
abstracts the host to one user. They meet in what a refresh may do: the record
of its user stays, is replaced or is removed under the lock. Both are written
without recursion, so that both can be proved about.

## 3. TokenRefresh

One user on one host; `Threads` (goroutines, each running one call at a time)
in `Procs` (`ProcOf`).

| variable | in the code |
|---|---|
| `keyring["plain"]`, `keyring["refreshable"]` | the user's keyring items under `keyringServiceName` and `refreshableServiceName` |
| `late` | keyring calls whose `select` took the timeout branch (keyring.go:24-41) while their goroutine runs on |
| `valid`, `spent`, `next` | the server: tokens it accepts, tokens it has rotated away, serial numbers |
| `refreshMu`, `flock`, `lockHeld` | `AuthConfig.refreshMu`, `refresh.lock`, the argument `lockHeld` |
| `pc`, `op`, `current`, `renewed` | where a call is, which it is, and its local variables |
| `orphaned`, `loggedOut` | history: the stored token is spent and its successor lost; a logout has removed the items |
| `disturbed` | history: refreshes that have met another call between the locks (the file lock given up), or an abandoned keyring call that landed |
| `beside` | history: refreshes that found a plain token next to the record they re-read |

A credential is the serial number of its refresh token and what the recorded
expiry says: `fresh`, `expiring` (within `refreshExpiryLeeway`) or `none`.
`PlainCred` stands for any token that cannot be refreshed.

One action is one access to shared state. `LockMutex`, then `LockFile` or
`ProceedWithoutLock`, then the steps of the call, then `Unlock`, is
`withFreshConfigForRefresh`; a failing reload goes straight to `leave`. A
refresh re-reads (`Reread`), asks the server (`ServerRotates`,
`ServerKeepsToken`, `ServerRejects`, `ExchangeFails`) and stores (`Persist`,
`PersistFails`) or, rejected and holding the file lock, removes
(`DropRefreshable`, `DropPlain`). A logout does the same two removals. The two
logins store and then purge the other form; here the check after the purge has
no effect and is left to `AccountStore`. `Crash`, `Expire`, `Revoke` and
`LateLands` are the environment.

`RotatingCredential` is the promise: one stored token that changes in single
steps (exchange and store at once, install, remove, lose). `TokenRefreshContract`
maps the detailed states to it: while a call has an answer in hand and has not
stored it, the mapping takes back what the server did. `AtomicStore` is the
abstract specification under that mapping.

## 4. AccountStore

Several users of one host, several processes, each with its own copy `mem` of
the host's entry in `hosts.yml` (`disk`). `plain` and `refreshable` are the
users with a keyring item of that form, `hostToken` is whose token the host's
own item `gh:host` holds.

* `Begin...` is the start of a command: `NewConfig` reads the file, the command
  decides on a user. `Lock` takes the lock and reloads.
* Logins: `Store`, `Purge`, `Recheck` (the purge is verified by a read), then the
  activation. Logout: `DropRefreshable`, `DropPlain` (with the decision of
  config.go:604-629), `ClearHost` or the activation of another user, `Write`.
  Rejected refresh: the same two removals. It writes no file: with the keyring in
  use nothing in `hosts.yml` has changed, and go-gh skips a file that has not.
* Activation (`activateUser`): `Clear` deletes the host's item with its error
  ignored, `Copy` fills it again, `Write` writes the file.
* Switch takes no lock: `CheckSource`, activation, and after a failure
  `RestoreClear`, `RestoreCopy`. `config set --host` takes none either and
  writes back what it read.
* With `Faults`, each keyring call, reload and write may fail and a process may
  die at any step. `missed` and `torn` are history: which calls had a removal
  fail unnoticed, and what may be wrong with the host's item since.

The lock is always obtained here; what happens without it is in `TokenRefresh`.

`Accounts` is the promise of `hosts.yml`: a command is called, takes effect at
once or not at all, and returns. `Stage` maps a call to these (idle, under way,
leaving), and `disk` is its own image, so that the step that writes the file must
be the abstract login, logout or switch, computed from what the file says at that
moment and not from the copy the command has read. That a successful login is not
one of those without effect is `LoginTakesEffect`.

## 5. ReleaseUpload

Commands on one tag, each a process: `create` (as a draft, or public), `upload`,
`upload --clobber`, `delete`. One action is one request: its effect at the
server and the answer the command sees. With `Faults` a request may fail with
or without its effect, and a command may be killed between two requests.

| variable | in the code |
|---|---|
| `status`, `assets` | the server: each release and the asset under each name, which says who uploaded it in which attempt |
| `pc`, `command`, `files`, `release` | where a command is, its arguments, the release it got or found |
| `existing` | `AssetForUpload.ExistingURL`, taken when the release was fetched |
| `job`, `tries` | the goroutine of each file in the error group, its attempts |
| `hitches`, `clobbered` | history: requests unanswered or failed, assets deleted by a clobber |

`Check`, `CreateRelease`/`CreateRefused`, the workers, `UploadsEnd`,
`PublishRelease`/`PublishFails` and `Cleanup` are `createRun`. `FetchForUpload`
is `FetchRelease` with the look for names in use; since it takes whichever of
two lookups answers first, any release of the tag may be the one found. A worker
is `StartJob`, perhaps `DeleteAsset`, then attempts: `UploadAsset`,
`UploadRefused` (the name is taken, or the release gone: permanent),
`UploadFails` (retried up to `MaxAttempts`), `UploadCancelled`. The server is
external: a name is used once, and one release of a tag is public.

Files are names: two arguments of one base name are not modelled. A request has
no deadline, so that nothing here need ever end, and there is no liveness.

## 6. PortForwarding and Invoker

`PortForwarding` has the ports of one tunnel (`ports`: visibility, or none), the
connections to it with their `ManagerMu` and `connected` flag (`Connect`; `Close`
whenever the flag is set, whatever calls still use the connection), and calls:
`ForwardPort`, `ForwardPortToListener` (`Listeners`), `UpdatePortVisibility`
(`Changers`). A request of a call whose context has ended fails, though its
effect may have happened; a context may end at any time of its call
(`EndContext`). `Lock`, `GetOld`, `Delete` are the first half of a
change; then its goroutine reconnects and forwards the port again (phase
`change`), while the caller may leave (`ChangeGivenUp`); an error makes a caller
that is still there forward the port with the original visibility (phase
`restore`). `Lock`, `Get`, `Create`, `Connect`, `Refresh` are one `ForwardPort`,
in each of the phases. `meddled` and `slipped` are history: after the change's
own last action another call has acted on its port; its deletion went unanswered
or the restore failed.

`Invoker` extends it with `CreateInvoker`: the goroutine that forwards the
internal port (the call `Inner`), the one that dials, the channel `ch` with
their outcomes, the deferred cancellation (`CancelsIf`), which looks at the
variable the dialing goroutine sets and not at the error returned; then the
heartbeat, and the command's own calls on the same connection. A call of
another connection stands for a command in another terminal. A command defers the
close of its connection before it creates the invoker (ssh.go:204), so that the
invoker is closed first (`Forwarding`).

What the code does and the model keeps: a 409 of the re-creation is tolerated, so
that a port another command has created meanwhile keeps *its* visibility (so the
properties leave `meddled` changes out); a restore to a visibility that is no
longer allowed loses the port (`slipped`); a heartbeat without a reason stays in
`GetKeepAliveReason` for ever after `Close`. Left out: a change of visibility also
resets the port's protocol to http and its label; traffic is only the keep-alive
reasons it leaves.

## 7. SkillStore

Processes that install skills into a directory (`BeginInstall`, one worker per
skill, `WriteFile` for each file) and record what succeeded in the lock file
(`AcquireLock`, `ReadFrom`, `Truncate`, `WriteTo`), and processes that update
one: install into a staging directory, which records too, then
`swapDirectoryContents` rename by rename (`MakeBackup`, `MoveOut`, `ReadStaging`,
`MoveIn`, `DropBackup`) or back (`Restore`, `RemoveIn`, `MoveBack`).

| variable | in the code |
|---|---|
| `content` | the files of each skill's directory and of each process's staging and backup directory, by the version they come from |
| `entries`, `lock`, `mem` | `.skill-lock.json`, the file lock on it, what the holder has read |
| `left`, `broken`, `unrecorded` | the workers' progress, their errors, what is still to record |
| `toMove`, `movedOut`, `movedIn` | the loops of the swap |
| `recorded`, `before`, `disturbed`, `unrestored` | history |

With `Faults` every file operation may fail and every process may die anywhere,
the file lock being released with it. Nothing in the code keeps two updates from
swapping one skill at once; then files of both versions can remain, and the two
properties of the swap leave these updates (`disturbed`) out. They also leave out
swaps in which a file could not be moved back, an error `restoreBackup` ignores
(`unrestored`). A scan may take a staging or backup directory that a dead
process has left for a skill (`SkillIn`). The lock file names the new version
before the swap, and keeps it when the swap fails; `gh skill update` decides by
SKILL.md, so that it tries again.

## 8. Telemetry

`getOrCreateDeviceID` in every process (`ReadID`, `CreateTemp`, `WriteTemp`,
`LinkTemp`, `RemoveTemp`, `RereadID`), and in one of them the service, whose
methods are atomic under its mutex: `Record`, `Begin`, `Upsert` (both maps),
`SetSampleRate`, `Disable` (called for requests to an enterprise host), `Finish`,
and after the mutex is released `Flush`. An ID is the process that made it, an
event is its set of facts. `atFinish` is history. `DeviceElection` is the promise
of the first part: one process is elected, by the link of its file, and each is
told the ID of that one or that it is unknown. `SpawnSendTelemetry`, which
starts the sending process and drops payloads over 16 KB, is not modelled.

## 9. Runs

States are distinct states found; every run takes less than three minutes.

| run | bounds | shows |
|---|---|---|
| `refresh_locked` | 3 goroutines, 2 processes, 3 tokens; 805 352 states | all safety properties and the refinement, the file lock always obtained |
| `refresh_goroutines` | 3 goroutines of 1 process, 3 tokens; 269 006 | the mutex alone keeps a spent token from being presented, the file lock given up at any time |
| `refresh_fallback` | 2 processes, 1 token, 1 late call; 853 927 | lock given up and keyring calls landing late: what a refresh removes and overwrites; a waiting logout returns whatever its peer does (fairness, no symmetry) |
| `refresh_logout_fallback` | 2 processes, 2 tokens | *violation*: lock given up, logout undone |
| `accounts_locked` | 2 users, 2 processes, all faults; 521 141 | under the lock commands take effect on `hosts.yml` at once (refinement of `Accounts`), logins and logouts do what they say |
| `accounts_sequential` | 3 users, 1 process, all faults, every command; 111 860 | the host's item, and `hosts.yml` as `Accounts` says, over any sequence of commands, failed switches among them |
| `accounts_logout_twice` | 2 users, 2 processes, no fault | *violation*: the second logout of a user forgets the other |
| `release_faults` | 2 commands, 2 files, 2 attempts, all faults; 3 373 933 | what is public, stored, deleted or left behind |
| `codespace_session` | a session with 2 ports and another terminal; 583 462 | start-up race, cancellation, visibility change, mutex, heartbeat (fairness, no symmetry) |
| `codespace_visibility` | one change, no fault but the end of its context | *violation*: success reported, port deleted |
| `skills_faults` | 2 processes, 2 skills, 2 versions, all faults; 764 028 | lock file and swaps |
| `telemetry` | 3 processes, 2 events with 2 facts, 3 rates, all faults; 735 654 | election of the device ID (refinement of `DeviceElection`), payload |

What the properties say:

* `NoReplay`: a refresh token the server has used up is not presented again,
  unless its successor was lost (crash, lost answer, failed store): then the code
  cannot know, and the exception is exactly that.
* `RemovalSafe`: the removal after a rejection is under the file lock, and neither
  of its two deletions hits what was stored since the re-read: the record is one
  the server has rejected, and no plain token is there but one already `beside`
  the record at the re-read. A refresh that is `disturbed` has no such promise.
* `LogoutWins`: after a logout that removed the items, no refresh puts one back.
* `NoLostUpdate`: a refresh that is not `disturbed` overwrites only the credential
  it re-read.
* `AtomicStore`: all of this at once, as an implementation of the abstract store.
* `LogoutReturns`: a logout at the file lock gets through.
* `HostTokenAgrees`: between calls, and once a later activation has repaired what
  a failure left, the host's item is the active user's plain token or empty.
* `CallsAreAtomic`: under the lock each command is one step of `Accounts` on
  `hosts.yml`, between its start and its end: no whole-file write carries a stale
  account, or an account of somebody else, into the file.
* `SequentialCalls`: in one process switches and `config set --host` do so as
  well, and a logout never forgets more than its user. Between processes it may,
  which is the violation of `NoAccountLost`.
* `LoginTakesEffect`, `LogoutLeavesNothing`: what a reported success means.
* `PublicHasItsFiles`: a release that `create` made public has all its files.
* `SuccessIsStored`: a reported success is at the server, unless a clobber deleted
  that asset, or somebody the release.
* `LostOnlyByFailure`: an asset deleted and not replaced has a clobber that did
  not succeed behind it, which the help of `upload` announces.
* `UploadFailsForACause`: all files there and a failure reported means that an
  answer was lost, and the retry was refused as a duplicate of its own upload.
* `PublicIsDeletedOnPurpose`: a public release is deleted by `delete`, or by a
  clean-up after a publication whose answer was lost. This second case is real:
  the code deletes a release users may have seen.
* `FailedCreateLeavesNothing`: no draft stays behind a failed `create`, unless
  the creation went unanswered or the clean-up failed.
* `PortIsKept`, `ChangeIsMade`, `SuccessIsChange`: any end, success under a live
  context, and success in general of a change of visibility. A port on which
  nobody else has acted since keeps the old visibility or has the new one; it is
  lost only if the context has ended, the deletion went unanswered or the restore
  failed.
* `HeldInside`: whoever has `ManagerMu` is between its `Lock` and its `Unlock`, on
  each of the early returns, too.
* `LeftOnlyByTimeout`, `ConnIsSet`: a connect that fails cancels its forwarder
  unless it timed out; one that goes on has a connection.
* `InterruptedCallsReturn`: once the contexts of all calls under way on a
  connection have ended, these calls return (or others come), so `ManagerMu` is
  never kept.
* `HeartbeatStops`: after `Close` the heartbeat ends, or is blocked for want of a
  reason and sends nothing.
* `RecordIsAtomic`, `RecordedIsInstalled`: the lock file loses nothing but by a
  write that was cut off, and records only what was written.
* `AllOrNothing`, `OldFilesSurvive`: a swap ends with the new skill or the old
  one, and until then, or after a crash, every old file is in one of two places.
* `DeviceIsElected`: the first ID linked into place stays, and every process has
  that one or none.
* `PayloadIsExact`: what is sent is what was recorded, and states the rate it was
  sampled with.

**Why the bounds are enough.** The races on a token need two calls on one
credential and one that changes it; a third goroutine adds "two in one process
and one outside", the only shape in which mutex and file lock play different
parts. Three tokens allow a login and two rotations, so a token can be rotated,
be lost and be replaced. `AccountStore` needs a user, another one to activate
instead and, for "two are left", a third. Two release commands give every pair,
two files one that fails beside one that succeeds, two attempts one retry; the
limit of workers does not bind there, and the theorems hold for every limit and
every number of attempts. The session has one call of each kind, and the change
comes from another connection, so that ports and mutexes are shared separately.
Two skills give a partial install, two versions of which one has a file more
give stale files and missing ones. Three processes give a winner of the device ID
and two losers. Every mutant in `PROJECT.json` (a lock taken shared, a missing
reload, an unchecked error of the workers, a rename in place of a link, ...) is
found within these bounds.

**Deadlock** is not checked where the commands of a run come to an end
(`CHECK_DEADLOCK FALSE`): a process that has done its command stops.

**Fairness.** `TokenRefresh`: weak fairness of the steps whose wait the code
bounds: the file lock by `refreshLockTimeout`, keyring calls by `keyringTimeout`.
The token endpoint gets none (no timeout is set on that request), nor does the
mutex, the user, time or the server. So a refresh may hang for ever with both
locks held, and a logout of another process still returns. `Invoker`: weak
fairness of the work of calls whose context has ended (a request under such a
context returns; requests of live ones have no deadline and get none), of the
end of the heartbeat's RPC, which has a timeout, and strong fairness of the
`ctx.Done()` case of its select, which is ready at each turn and which Go chooses
at random. `ReleaseUpload`, `SkillStore` and `Telemetry` state none.

## 10. Disagreements

Between the code and what it says of itself; `PROJECT.json` quotes the lines of
the three that are violation runs. The others were met while modelling:

* The gate of the removal after a rejection (refreshable.go:432-440) looks at
  its own lock only: a peer that timed out of the lock can have stored a valid
  credential, which the removal then deletes. `RemovalSafe` excepts such refreshes
  (`disturbed`); without the exception TLC refutes it with the bounds of
  `refresh_fallback`.
* The comment there (refreshable.go:438) says that the stored credential is
  discarded because it was rejected; the removal deletes both forms
  (refreshable.go:478-480). After a login whose purge of the record failed unseen, a
  refresh that waited for the lock re-reads only the record, is rejected, and
  deletes the token of the login too. This is the exception `beside`.
* authflow/refresh.go:84 says that a credential without a lifetime counts as
  non-expiring; refreshable.go:336 renews it at every use.
* refreshable.go:126-128 says that a login cannot interleave with another
  read-modify-write of the configuration; `SwitchUser` and `config set --host`
  take no lock and write back the file as they read it. `CallsAreAtomic` and
  `NoAccountLost` fail with switches beside logins of another process.
* refreshable.go:429-430 says that an active user without a token counts as
  unauthenticated; `activeCredentialWithError` answers with the host's own item,
  which a failed deletion or a crash leaves holding another user's token.
* refreshable.go:174-175 and config.go:526-529 say that a refreshable record
  outranks a plain token; activation and lookup (config.go:659-670, 696-719) take
  the plain token first.
* rpc/invoker.go:89-90 and 100 say that background tasks are cancelled, and the
  port forwarder closed, when connecting fails; after a timeout neither is, which
  is the exception in `LeftOnlyByTimeout`.
* update.go:415-417 says that a failure at any point leaves the skill untouched;
  `restoreBackup` ignores its errors and then removes the backup, which is the
  exception `unrestored`.

## 11. Proofs

`TokenRefreshProofs`, from the five assumptions `TokenRefresh` names about its
constants (`ProcOf` is a function, `NoThread` is no thread, bounds are numbers):

* `TypeCorrect`: `TypeOK` holds always, fallback and late calls included.
* Without any condition on the locks, too (`HoldInv`: each lock names the call
  that has it, and a refresh that removes has the file lock): `NoLockCycle`, no
  calls wait for each other's locks; `MutexSeparatesGoroutines`, the mutex is
  enough within a process when the file lock is given up; `RemovalHasTheLock`;
  and `EveryCallAdvances`, a call is over after seven steps of its own at most.
* Without any condition as well: `RemovalIsSafe` (`RemovalSafe`) and
  `RefreshReplacesItsOwn` (`NoLostUpdate`), for the refreshes not `disturbed`.
* Given `Serialized` (the file lock is never given up, or there is one process)
  and `MaxLate = 0`: `SingleSpend` (`NoReplay`), `LogoutIsFinal` (`LogoutWins`),
  and `NoneDisturbed`: then no refresh is, and the two above hold of all.

The first two of these rest on an inductive invariant `CompanyInv`, in which each
undisturbed refresh is alone between the locks (`MeetInv`), so that both items are
as it has re-read them (`AloneInv`): a store by anybody else is a step between the
locks, and that call has met this one; and a rejected token stays rejected,
because the server issues new ones only (`AgeInv`). The last three rest on the
invariant `Inv`, for which the stored credential is the one re-read by whoever is
between the locks (`CurrentInv`), since nobody else is (`LockInv`); that a
presented token is unspent needs that a stored token is spent only while its
successor is under way (`StoredInv`), which needs that tokens on their way are
unknown to others (`HandInv`, `AnswerInv`) and newer than all the server has used
(`TokenInv`). `MutualExclusion` draws from `LockInv` that two calls are never
between the locks at once; `NextInv` has one step per action, with lemmas for the
re-read, the rotation and the store of a login, and `SpecInv` puts them together.

The two conditions cannot be dropped: `refresh_logout_fallback` refutes
`LogoutWins` without the first, and a write that lands late breaks it by itself.

`AtomicStoreProofs` adds, under the same two conditions, the refinement
`StoreIsAtomic` (`AtomicStore`): `TokenRefresh` implements `RotatingCredential`. A
refresh acts on the server when the token endpoint answers and on the store when
the successor is written, and the abstract step happens once. The mapping puts it
at the second: until then `Accepted` and `Exchanged` undo what the server has
done. `Completion` says that doing it at last is exactly one abstract `Exchange`
of the stored token, which needs that a single exchange is under way
(`MutualExclusion`), that it presented what is stored (`CurrentInv`) and that its
successor is accepted and unknown to the store (`CallInv`, which also ties
control points to calls). Every other action maps to one abstract action or to a
stutter: a give-up or a crash after the answer to `Strand` or `End`, the removal
after a rejection to `Reject`, whose guard is that the stored token is rejected.

`AccountStoreProofs`, for any finite set of users, any processes, and whatever
steps may fail:

* `TypeCorrect` (`TypeOK`), `LoginIsEffective` (`LoginTakesEffect`) and
  `ActiveUserIsKnown` (the active user is one of those in `hosts.yml`) whatever
  commands run, the unlocked `SwitchUser` and `gh config set --host` included.
* Given `OnlyLocked` (every command takes the refresh lock): `HostTokenIsActive`
  (`HostTokenAgrees`), `WritesAreLocal` (a write leaves all other users of the
  file as they are, except that a logout whose user is gone removes the last one
  left), `LogoutIsComplete` (`LogoutLeavesNothing`), and the refinement
  `LockedCallsAreAtomic` (`CallsAreAtomic`).

`TypeOK` is not inductive: that a call stores for a real user needs to know which
calls have one, and so which points belong to which command (`PathInv`). That a
login takes effect needs that nobody else undoes what it has stored, hence that
locked calls exclude each other (`LockInv`), and that what it has stored and purged
is carried to the write (`LoginInv`). `Inv` is these three. Under `OnlyLocked`
only the holder writes (`AloneInside`), so its copy of `hosts.yml` differs from the
file by its own user alone (`MemoryInv`), the host's item can be followed through
clear, copy and write (`ItemInv`), and what a logout removed stays away
(`LogoutInv`). `OnlyLocked` cannot be dropped: with switches of one process beside
logins of another, TLC refutes `HostTokenAgrees` and `CallsAreAtomic`, and
with logouts added `LogoutLeavesNothing`. `ActiveUserIsKnown` does without it
because every file a command has read or is to write satisfies it by itself
(`KnownInv`), stale as it may be.

The refinement has one lemma per kind of step. Beginnings map to `Call`, the steps
up to the write to stutters, a give-up or a crash to `NoEffect` or `Return`. The
write is the one abstract step that counts: the copy a command writes differs from
the file by exactly its own change, and the user it makes active is the one the
abstract step allows (`MemoryInv`, with `Exclusive`). A logout that finds its user
gone, after another process has logged it out, is `LogOutAgain`, which forgets the
host if no more than one user is left: an exception the abstract specification has
to name.

Given `OneProcess` instead, three properties hold of every command, the unlocked
ones included. `SoleCallsAreAtomic` (`SequentialCalls`) is the refinement without
that exception. `AccountsStay` (`NoAccountLost`): what a call has read is what is in the
file until it changes it, and then lacks at most the user it logs out
(`CarryInv`). `HostTokenIsRestored` (`HostTokenAgrees`): `SoleInv` follows the
host's item through an activation and, when that fails, through its restoration,
which returns to the user `hosts.yml` still names.

`ReleaseUploadProofs`, for any commands, files, number of workers and attempts:
all seven properties of the run. The invariant follows what a command has
uploaded from the answer to the end (`KeptInv`: it is there, or a clobber took
it), which needs that nobody has assets of a release or command that does not
exist yet (`EarlyInv`). `LossInv` says who owes a lost asset: it is preserved
because only the job that deletes an asset can be the one to end done without
replacing it, for which `JobInv` knows that a job that is not over has an attempt
left. `DraftInv` (a draft is public only after its publication went
unanswered), `CauseInv` and `UndoneInv` (a failed upload has a job that is not
done, and an asset that arrived behind such a job was not answered) give the rest;
`CommandInv` ties control points to commands.

`PortForwardingProofs`, for any calls, connections and ports, whenever contexts
end: `ManagerMuIsGivenUp` (`HeldInside`), `NoCallsWaitForEachOther` (the holder of
a mutex waits for none) and `EveryCallAdvances` (`CallsAdvance`: each step of a
call lowers its `Distance` to the return, and no other step raises it;
`FirstPhase` rules out that a change starts anew), by one case per step. They are
the safety half of `InterruptedCallsReturn`: what is left to fairness is that each
request ends.

`InvokerProofs` extends it. A session's calls take the steps of `PortForwarding`,
so that the theorems about them carry over (`SessionGivesMutexUp`,
`SessionCallsAdvance`). Also for any calls, connections and ports: type
correctness, `ConnIsSet`, `LeftOnlyByTimeout`, `PortIsKept`
(`EndedChangeKeepsPort`) and `ChangeIsMade`. `ChangeInv` says for each point of a
change that no other call has meddled with what its port is, through deletion,
re-creation and restore. `InnerInv` says that the forwarder of the internal port
returns without an error only when it has been cancelled, and `ConnectInv` that
the channel holds at most one outcome of each goroutine, which says what has
happened: so the first `nil` on the channel is the dial's.

`SkillStoreProofs`, for any processes, skills, versions and files: type
correctness, `RecordIsAtomic` (`LockInv`: only the holder reads and writes, what
it has read is all that was recorded, and the file is empty while it is written),
`RecordedIsInstalled` (`WaitingInv`: what is still to record has nothing left
to write), and the two promises of an update, `SwapKeepsOldFiles`
(`OldFilesSurvive`) and `SwapIsAllOrNothing` (`AllOrNothing`). `SwapInv` says, for
each stage of a swap (staging, out, in, removal of the backup, back, dead), which
files are in the staging directory, the skill's and the backup. It is local to
the three directories of one update (`DirsFacts`: they differ, and no one else
works in them unless the update counts as disturbed), so that the steps of others
are one frame lemma (`OutsideStep`).

`TelemetryProofs`: type correctness, `DeviceIDIsUnique` (`WinnerOf`: whose link has
succeeded is the one in the file, and an ID in use is the file's), with it the
refinement `ElectionIsImplemented` (`DeviceIsElected`: the link is `Elect`, which
needs that a process links before it has an ID; each way to return is a `Tell`),
and `PayloadIsExact` (`FlushInv`: a snapshot to be flushed already is what a payload
must be, and the rate stated is the rate in force).

Only model-checked: liveness (`LogoutReturns`, `InterruptedCallsReturn`,
`HeartbeatStops`), which is out of the prover's reach (as is `ENABLED`); of the
first two the safety half is proved, as said above. Every other property of a
passing run is a theorem, under the conditions named here. `CallsAdvance` is proved
only.

## 12. Not modelled, and why

* Credentials in `hosts.yml` (`--insecure-storage`) and tokens from the
  environment: the second is never stored; the first follows the same paths with
  the file in place of the keyring and is left for later.
* The debug overrides of lifetimes and `simulateRefreshTokenExpired`; validation,
  encoding and decoding of the record (a record that cannot be decoded is one
  that cannot be read).
* The polling of the file lock and the writing of `hosts.yml` by go-gh: a write is
  atomic here.
* The start-up poll of a codespace, its RPCs other than the heartbeat, and its API
  client; notes, tags and edits of releases; discovery and publishing of skills.
* `internal/config/migration`, the update checker, the extension manager and the
  command groups (`pr`, `issue`, `repo`, `project`, `discussion`, ...), which are
  by far most of the repository: sequences of requests, prompts and formatting
  in one goroutine, with no state that outlives a request. See the components in
  `PROJECT.json`.
