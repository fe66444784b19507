# A formal model of Fleetbase's own code

This directory keeps TLA+ specifications of the parts of `fleetbase/fleetbase` whose
correctness depends on order, time and failure, the TLC configurations that check them on
small instances, and proofs of the most important results that the TLA+ proof system checks
for instances of every size.

Paths are relative to the repository, which is `src/` here. The API's domain packages and the
console's engines are git submodules whose contents are not in the repository; what is left is
the realtime server (`socket/`), the console application (`console/app`) and the addon that
builds its extensions in (`console/lib`), the tool that links packages
(`scripts/package-linker.mjs`), the installer (`scripts/docker-install.sh`) and a thin API
application shell (`api/`). The realtime server carries the most intricate concurrent logic and
was modelled first; then the ways into the console, its screens, and the scripts.

## 1. Inventory

### The realtime server (`src/socket`)

| Part | State | Operations | Interacts with |
|---|---|---|---|
| Subscription policy, `lib/middleware.js` | `mode`, `identities` (socket to `sub`,`cid`), SocketCluster's tokens and subscriptions | `handleAuthenticate`, `handleSubscribe` (awaits), the two listeners of `attach`, `kickOutAll` (schedules), `update` | asks the authorizer; told by `runtime.onChange` |
| Authorizer, `lib/authorizer.js` | decision cache, `inflight` requests by key | `authorize`, `requestDecision`, `normalizeDecision` | `rules.js`, `cache.js`, the API |
| Decision cache, `lib/cache.js` | entries in Map order | `get`, `set`, `delete`, `clear` | the authorizer |
| Rules, `lib/rules.js` | none | `validateClaims`, `isValidChannel`, `localDecision` | middleware, authorizer, publish |
| Runtime configuration, `lib/runtime.js`, `lib/config-poller.js`, the listener in `lib/app.js` | the configuration in force, its source, the last failure; copies of it in the policy, in `allowClientPublish` and in `origins`; the poll under way and the next timer | `start`, `tick`, `poll`, `applyRemote`, `recordFailure`, `stop`, `disconnectAll` | the API; every socket |
| Internal endpoint, `lib/internal.js`, `lib/signing.js` | per request: bytes read, whether it is done; counters | `readBody`, `authenticate`, `parsePublishBody`, `handlePublish` | the API; SocketCluster's exchange |
| Denial log, `lib/denials.js` | rows in Map order | `record`, `evict`, `top` | middleware, `/stats` |
| Process, `server.js`, `lib/app.js` | listeners, the forced-exit timer | start, `shutdown`, `stop` | signals |
| Configuration parsing, `lib/config.js` | none | `loadConfig`, `buildServerOptions` | the environment |

What makes it hard: a subscription is decided across an `await`, and meanwhile the token may
expire or be replaced, the mode may change, the socket may close; auth events are consumed
later than the token changes; a kick-out runs later than it is ordered; one API call serves
several callers; polls time out, fail and answer late; a request body comes in pieces; a
publish to several channels succeeds in part; a stop may hang.

What makes each part correct:

* policy: in `enforce` a channel is held only on the strength of an allow for the credential
  the socket had when the answer was applied; nothing granted in a looser mode survives into
  `enforce`; channels of a former principal go; every subscription is answered;
* authorizer: an answer is the API's answer to this caller's own question, and not too old;
  a failure is a denial nobody remembers; nobody waits longer than the timeout;
* cache: it returns what was last set and not past its lifetime, and gives up the least
  recently used;
* rules: they allow what `socket/README.md` lists, and no token outlives its maximum;
* runtime configuration: what is in force is the last good answer, soon, and in every copy;
* internal endpoint: only a verified and fresh request publishes; 202 means every channel got
  it once; every request is answered;
* denial log: no count is too high and what occurs often is not lost;
* process and parsing: a stop ends, no option overrides what the process controls, auth needs a
  key, the two listeners never share a port.

### The console (`src/console`)

| Part | State | Operations | Correct when |
|---|---|---|---|
| Login, second factor, providers: `controllers/auth`, `routes/auth`, `services/oauth.js` | the route, session storage, controllers that outlive their page, requests under way | login, `verifyCode`, `resendCode`, cancel, the provider's callback, reload | a page asks for the code of the account it is for; a handoff code is redeemed once; every exchange leads somewhere |
| Consent, `routes/oauth`, `services/oauth-authorization.js` | the kept request and its age | approve, deny, switch account, resume | the request is kept until it is decided, and in one place |
| Sign-up, `components/onboarding/form.js`, `verify-email.js`, `services/onboarding-verification.js` | the form, the provider's intent, the session of the code | create account, resend, verify | a spent identity is not used again, a verified e-mail stays, a resent code is for this sign-up |
| Onboarding, `services/onboarding-orchestrator.js`, `onboarding-context.js` | step, history, context in memory, in storage and in the fallback | `start`, `goto`, `next`, `back`; `merge`, `persist`, `del`, `reset`, `restore` | history is a path and is what is stored; what is deleted stays deleted; calls end |
| Installation, `services/installation.js` | status, listener, retry timer | check, listen, retry, stop | one listener |
| Boot, `utils/runtime-config.js` | cached configuration with version and age, shared by tabs | load, cache, clear | what is applied is recent |
| Settings: `components/configure`, `components/admin/sms-guard.js`, two-factor pages | the form, the dialog, the channel under test | load, save, reset, test, confirm | what is shown is stored; saving changes only what was edited |
| OAuth providers, OAuth apps, platform token | credentials, check results, secrets that are shown once | save, check, register, rotate, revoke | a blank box keeps the secret; a secret that is shown works |
| Organizations, account and admin | lists, selections, dialogs, the session's organization | leave, hand over, delete, switch, verify, remove, impersonate, search, export | the owner stays; what is announced is so; a list shows what was asked for |
| Notifications | list, selection | delete, mark read, received | what is announced as read or deleted is |
| API consumers | window, order, the numbers shown | choose, reload, clear a limit | numbers are of the window that was chosen |
| Report model, `models/report.js` | a query | add columns, joins, conditions | every condition counts once; more is never simpler |
| Extensions generator, `lib/fleetbase-extensions-generator` | shims, loaders, router, the watcher | run, change, install, remove | what is imported is there, what is mounted is mounted once |
| Other forms, routes, models, templates | none of their own | rendering and forwarding | |

The hard behaviour is a second action during the `await` of the first, a controller that outlives
its page, an answer that is late or lost, and browser storage that fails half way.

### The scripts (`src/scripts`)

`package-linker.mjs` keeps links in `console/package.json`, `api/composer.json`, the pnpm
workspace file and its own state file, and moves settings from `.npmrc`. It is hard because each
command rewrites several files one after the other, because a sequence of commands has to restore
what was there before the first, and because it reads and writes YAML by itself. It is correct
when a package that is unlinked has its ranges, pin and repository back, a linked one resolves, a
reset finds every link, an install installs what is linked, and a dry run foretells its command.

`docker-install.sh` asks, generates, writes files and starts a stack. It is hard because a run may
stop anywhere and another run, with other answers, builds on what it left. It is correct when a run
that ends well leaves files, containers and database that agree, and none loses a key.

### Not the subject of models

The API application shell (`src/api`) configures packages that are not in the repository.
Deployment (`src/infra`, `src/docker`, `src/builds`), CI and load tests are descriptions and
scripts around the program.

## 2. Modules

```
ChannelAccess <-- implemented by -- SocketAuth
TtlLruCache   <- Authorizer, CacheUse          ChannelRules <- TokenUse, MCServer

MCServer      Authorizer (with the cache and the rules), ConfigSync
MCParts       InternalPublish, CacheUse, TokenUse, DenialLog, ServerProcess
MCEntry       Consent <- SignIn, Installation, Onboarding, OnboardingContext, SignUp
MCConsole     Organizations, SettingsForms, SocketSettings (twice), TwoFactorSettings,
              OauthSettings, RuntimeConfig, Notifications, OauthApps, PlatformToken,
              OrganizationList, OrganizationDetails, ApiConsumers, ReportQuery,
              ExtensionsGenerator, LinkerYaml, LinkerCli,
              PackageLinker (twice), Installer

proofs        SocketAuth <- SocketAuthProofs     MCServer <- ServerProofs     MCParts <- PartsProofs
              MCEntry <- EntryProofs             PackageLinker <- LinkerProofs
              MCConsole <- ConsoleProofs (INSTANCE LinkerProofs) <- EditsProofs
              MCConsole <- PagesProofs
```

The `MC...` modules, and SocketAuthProofs for the policy, hold the instances that TLC checks; the
configurations give their constants small values. Where one holds several components
that share no state, `part` says which of them a behaviour is of: it picks one at first and stays
with it, and the variables of the others hold `"unused"`. A property of such a module is a
conjunction of one claim for each part it concerns, and a run explores the union of the parts'
state spaces, not their product. `Authorizer` and `ConfigSync` know the API each by itself: no
decision depends on a poll. `Consent` extends `SignIn` because the kept request and the sign-in
do interact, and `Authorizer` is checked with the real cache and the real rules, not with
abstractions of them.

An operator named `X_Something` next to an operator `X` is a faulty variant of `X`, as a
plausible bug would make it; no specification uses it. Putting it in the place of `X` must make
TLC find a property violated, which shows that the property depends on that piece of code.

One turn of the event loop is one action: the program is single-threaded, so code between
two awaits is atomic. Everything awaited, queued or scheduled is an action of its own. A request
is a record in `calls`: the API handles it at some time (`Handle`, which changes `db`) and its
answer is applied at some later time, or it fails before or after it was handled. The linker is
synchronous; there a step is the write of one file, between which it may be killed. The installer
is a shell script; a step is a file it writes or a command it runs.

### ChannelAccess and SocketAuth

`ChannelAccess` says what the server promises in three variables: whether it enforces, each
socket's credential, and how each channel is held. `SocketAuth` is the policy as the code
does it.

| SocketAuth | Code |
|---|---|
| `mode`, `OnChange` | `policy.mode`; `runtime.onChange` and `disconnectAll` in `app.js:119-139` |
| `conn`, `Connect`, `FinishHandshake`, `Disconnect` | SocketCluster's connection object; it is never reused |
| `authToken`, `accepted`, `HandleAuthenticate`, `Deauthenticate` | `socket.authToken`, compared by object identity in `middleware.js:228`; the serial number tells two objects of one token apart |
| `events`, `ConsumeAuthentication`, `ConsumeDeauthentication`, `identity` | the listeners of `attach` and `policy.identities` |
| `kicks`, `KickOut` | the `kickOut` call that `kickOutAll` schedules |
| `pending`, `HandleSubscribe`, `SettleSubscribe`, `FailSubscribe` | `handleSubscribe` before and after its `await`, and where it throws |
| `granted` | SocketCluster's subscriptions, with the credential of the allow (or `Unchecked`) as history |

Decisions worth knowing. A deauthentication stands for all its causes (expiry seen on a packet or a
pong, the client's removal, a re-authentication with a bad token). A refreshed token of the same
`(sub, cid)` keeps its subscriptions, and so does a channel granted to an anonymous socket that
authenticates later; both are the code's behaviour, and `HeldByItsPrincipal` says so.
`disconnectAll` does not reach a socket in its handshake, which holds nothing yet. The authorizer's
answer is any answer `Authorized` permits, at any later time. Where `handleSubscribe` throws, in the
authorizer or while it logs a denial, the mode of that moment decides, in the `catch` or in the
`finally` (`middleware.js:137-160`): nothing is granted in `enforce`. That each path settles the
action is how the model is written, and no property of it. Without a key there is no authorizer and
the mode is always `off`, which `ConfigSync` checks. Counters, the deny log and messages to the
client change no authorization state and are left out.

### The rest of the server

`TtlLruCache` is `cache.js` as functions of a sequence of entries (a Map iterates in insertion
order); `CacheUse` calls them in any order while time passes and remembers the last value set for
each key and which keys were used since. `ChannelRules` is `rules.js` as operators; a channel name
is the sequence of its dot-separated parts, because every rule looks at whole parts, and a missing
claim is its empty value. `TokenUse` is the way `middleware.js` uses them: one validation when the
token comes, then questions at any later time.

`Authorizer`: `authorize` has three outcomes: decided locally, from the cache, or by an API call
that callers with the same key share. The clock has two ticks a second in the instances because
lifetimes and expiries are in seconds and the cache counts milliseconds. The API is external: it
decides when it handles the call and may change its mind. `ApiReplies` and `Respond` are two
steps, so an answer may be on its way while the API changes its mind or the timer fires. Two
tokens do not share a `jti`.

`ConfigSync`: the poller sends one request at a time; the answer carries the API's settings of the
moment it was written; the end of a poll sets the next timer unless the server stops.
`ApplyRemote` does what `applyRemote` and its listener do in one turn. Timers fire on time.
`enteredAs`, `applied` and `stableSince` are history.

`InternalPublish`: a request arrives, is read chunk by chunk, aborted or ended; at its end it is
verified and parsed; a publish then succeeds or fails channel by channel, in any order, and the
last success or the first failure answers. The signature is an attribute of the request
(`genuine`). As in the code, a request that answered 500 may leave some channels published, and
the publishes still under way go on. Nothing is remembered between requests.

`DenialLog`: `record` with its eviction; a channel name is reduced to its parts.

`ServerProcess`: what `loadConfig` makes of each kind of value of each variable, what
`buildServerOptions` hands to SocketCluster, what `parseRemoteConfig` takes from an answer, and the
start and stop of the process, in which a listener may fail and a socket or a connection may
keep `stop` from ending. Text is a member of a small set, a number is a number.

### The ways into the console

`SignIn` is one browser tab: the route, the address bar, the session store that survives a page
load, the two controllers that Ember creates once and keeps, and the requests. Two accounts sign in one
after the other at the same browser, so that anything left over belongs to somebody else.
Linking a provider to the account that is signed in takes the same way out and back (`StartLink`,
`Redeem`, `LinkCompleted`).
`Consent` adds an app's request, which is kept while its person signs in, signs out, or in again as
somebody else; it ends when the browser leaves for the app, when the error is shown, when it grows
stale, or when an app asks anew. That `localStorage` takes what is written is assumed: `save()`
passes over a failure (`oauth-authorization.js:42`) and the request is then gone. `Onboarding` runs two
calls of the orchestrator side by side; a hook or guard is awaited and returns when it likes, and
a storage may refuse any write of the history (`Persist`), which is only warned of.
`OnboardingContext` has storage that is full for any of the keys it is to write: a write is the
set of the states it may lead to (`SafeSetAll`), so that `del` and `reset`, which write several
times in one turn, are compositions of such sets. `SignUp` is the form, the intent of
a confirmed identity, which the API takes once, and the code that is sent again. `Installation` has
timers whose ids may be 0, since the code tells "no timer" from a timer.

### The console's screens

Each module is a page with its requests: `ui` is what the component or controller holds, `calls`
the requests, `db` what the API has. `SettingsForms` covers eight settings screens, each with its
own tasks, its own idea of when it is busy and its own conversions between settings and form, over
values that the conversions tell apart (null, blank, zero, false and a value). `SocketSettings` is
used twice, for its settings and for the test channel, which have nothing in common.
`OrganizationDetails` has controllers that outlive the page, so an answer may be applied to another
organization's page. `RuntimeConfig` has two tabs that share the storage and a server that is
deployed anew. `ReportQuery` builds a query step by step; the code walks a nested condition
recursively, the model asks which conditions are within which (`Within`), since no condition is
nested deeper than the query has conditions.

### The scripts and the build

`PackageLinker`: `files` is what the five files hold of each package: `Original` for what was there
before the linker, `Version` for the `^version` it falls back to, `Local` for a link. A command is
a `script` of parts (`enable m --shared p` links the shared packages of the API after everything
else is written; `reset` unlinks one package after the other); a part reads the files and
becomes the list of its writes (`Begin`), and `WriteFile` makes the next of them. A write
is complete or not made. `Crash` ends the command between two writes. Two histories say for which
packages nothing is promised: `lost` are those whose link was killed before the state file was
written (what the manifest said before is known nowhere), `stray` those disabled without having
been enabled.

`--install`, `install` and `doctor` are used by a second instance of the module (`Install`): pnpm
makes `node_modules` what `package.json` says, composer prefers a path repository to the registry,
either may fail. `LinkerYaml` has somebody write the workspace file line by line in any of several
styles and defines beside each other what it means and what the linker takes it for. `LinkerCli` has
what is found under `packages/`, which package a name stands for, what a command does to several
names in turn, and the copy on which a dry run works.

`ExtensionsGenerator`: a run removes the directory, awaits the list of packages and writes; in
development a change starts another run whatever is under way. `Installer`: the script's answers, its
files in the order it writes them, the database's volume, which is initialised once, and the operator
between the runs. What the containers were given is kept for each kind: the application, the workers
(queue and scheduler) and the socket server, since the override speaks to the first and the last only.
`ContainersAgree` says what all of them have in common (key and switch), what each has of the files,
and that the application reaches the database that was answered, and the workers do not: see
Observations.

## 3. Runs

Every passing run explores all reachable states of its instance.

| Run | Module | What it shows |
|---|---|---|
| `socket_auth` | SocketAuthProofs | `TypeOK`; `NoUncheckedInEnforce`; `HeldByItsPrincipal`; `FollowsAccessRules`: each step is a step of ChannelAccess; `RevokesStaleChannels` |
| `server` | MCServer | authorizer: `AnswersAreTheApis`, `ExpiredTokensDenied`, `WaitersAreServed`; configuration: `InForceEverywhere`, `AppliedInTime`, `EnforceStartsClean`, `PollsStayInOrder`; `ServerTypeOK` |
| `socket_parts` | MCParts | `AnswersAreTrue`, `OnlyVerifiedIsPublished`, `EveryRequestAnswered` (with the process: a stop ends), `RulesAsDocumented` (with the options, the key and the ports), `CountsAreHonest`, `ServesLastSet`, `EvictionSpares`, `PartsTypeOK` |
| `console_entry` | MCEntry | `PagesKnowWhoTheyAreFor`, `CodesRedeemedOnce`, `RequestIsKept`, `ListensOnce`, `OnboardingRemembers`, `ExchangeEnds`, `CallsEnd`, `TypeOK` |
| `console_screens` | MCConsole | `ShownIsStored`, `OnlyEditsAreStored`, `OneTestChannel`, `OrganizationsHold`, `PagesAreTruthful`, `ComputedAsMeant`, `OriginalsRestored`, `LinksResolve`, `InstallsHold`, `TypeOK` |
| `authorizer_expiry`, `sign_in_provider`, `socket_enforce`, `oauth_check`, `installer_origin`, `package_linker_hoist` | | a violation each, see Findings |

Which claim of a joint property is about which component:

| Property | Claims |
|---|---|
| `OnboardingRemembers` | `Onboarding!HistoryIsKept`, `OnboardingContext!DeletedStaysDeleted`, `SignUp!SpentIntentsAreGone`, `SignUp!VouchedEmailsStay` |
| `PagesKnowWhoTheyAreFor` | the second factor's and the verification's page; `SignUp!ResendsAreForThePage` |
| `ShownIsStored` | `SettingsForms!ShownIsStored`, `TwoFactorSettings!ShownIsSent` |
| `OnlyEditsAreStored` | `SettingsForms!UntouchedStays`, `OauthSettings!SecretsStay`, `SocketSettings!ChosenEnforceIsConfirmed`, `OauthApps!UpdatesStayWithTheirApp` |
| `PagesAreTruthful` | `RuntimeConfig!BootsWithRecent`, `Notifications!AnnouncedIsSo`, `OauthApps!ShownSecretWorks`, `PlatformToken!ShownTokenWorks`, `OrganizationList!ListShowsWhatMatches`, `OrganizationDetails!AnnouncedIsImpersonated`, `OrganizationDetails!RemovedAreGone`, `ApiConsumers!NumbersAreOfTheWindow` |
| `ComputedAsMeant` | `ReportQuery!EveryConditionCounts`, `ReportQuery!MoreIsNoSimpler`, `LinkerYaml!RewritesKeepMeaning`, `LinkerYaml!LinkingTwiceIsOnce`, `LinkerCli!DryRunsForetell`, `LinkerCli!LinkedWereFound`, `ExtensionsGenerator!ImportsHaveTheirShims`, `ExtensionsGenerator!MountedOnce`, `ExtensionsGenerator!GeneratedWereFound` |
| `OrganizationsHold` | `Organizations!OwnersStay`, `Organizations!PageIsTheSessions` |
| `LinksResolve` | `PackageLinker!LinksResolve`, `PackageLinker!ResetUnlinks`, `PackageLinker!InstalledAsLinked` |
| `InstallsHold` | `Installer!InstalledIsOne`, `Installer!ChoicesKept` |
| `RulesAsDocumented` | `TokenUse!AllowsAsDocumented`, `TokenUse!TokensAreShortLived`, `ServerProcess!OptionsStayOurs`, `AuthNeedsKey`, `ListenersApart` |
| `EvictionSpares` | `CacheUse!RecentKeysKept`, `DenialLog!FrequentRowsStay` |

### Instances and bounds

Why the bounds are enough:

* `SocketAuth`: 1 socket, tokens alice1, alice2, bob1 and a bad one, 2 channels; `MaxTokens` 2
  accepted tokens, `MaxBacklog` 3 queued events. Sockets share nothing but the mode, so one shows
  every interleaving of a socket with the mode. Two tokens are one person twice, or one person and
  then another; three events let a grant fall between any two of them. The safety properties are
  proved for any number of sockets, tokens and events, so that the bounds only limit what is said
  of `RevokesStaleChannels`.
* `Authorizer`: 2 callers, 2 tokens (one without `jti`), anonymous, 2 channels, a cache of 1, allow
  2 s, deny 1 s, timeout 1 tick, times 0-8, 1 change of mind. One entry forces evictions between
  two keys; a token expires (3 s), an allow and a denial run out, and a call starts after each;
  `MaxNow` cuts calls that could not end within it.
* `ConfigSync`: 1 socket, 5 environments, 4 settings of the API, 2 changes, interval 1, timeout 2,
  times 0-7. The timeout is longer than the interval, so a poll may be under way when another
  would have been due; two changes give an old answer a newer one to overtake.
* `InternalPublish`: 2 requests out of 10 kinds, 2 channels, limit 2 chunks, skew 1, times 0-2:
  sizes at and over the limit, stamps before, at and after the skew, a channel named twice, two
  requests whose publishes interleave.
* `CacheUse`: 3 keys, 2 values, room for 2, lifetimes 0-1, times 0-2: a third key forces an
  eviction, and a lifetime ends before, at and after it.
* `TokenUse`: every kind of token, with and without company, subject, ids and scope, good and bad
  claims, 14 channel names, times 0-3, a maximum lifetime of 2.
* `DenialLog`: 8 kinds of denials, 3 rows, 5 denials: they fill the rows and evict twice.
* `ServerProcess`: every combination of key, switch and mode; options that name what is reserved;
  ports from 0 to beyond the largest; 36 kinds of answers.
* `SignIn`, `Consent`: 2 accounts, `MaxHandshakes` 2 returns from a provider (one is reloaded while
  another begins), `MaxVisits` 1 request of 1 app, 1 organization. `MayCall` and `MayResend`: one
  request at a time, with a resend beside it, which is the pair of which each answer changes what
  the other is about. That is a bound of the model's: `resendCode` is a plain async action
  (`two-fa.js:213`), which nothing in the code keeps from running twice at once. `MayLeave`: nobody
  leaves while a route is being entered.
* `Onboarding`: a flow of 4 steps, one with a guard that rejects and one that cannot be left
  backwards, 2 concurrent calls, `MaxReloads` 1. `OnboardingContext`: 3 keys, one of them sensitive,
  2 values; no bound on time. `SignUp`: 2 identities, one with a verified e-mail, `MaxSubmits` 2,
  `MaxResends` 1. `Installation`: timers 0 and 1, `MaxListens` 3 (a listener, its retry, and one
  after the page was left).
* The screens: `MaxOps` 2 requests by a person (3 for the platform token, which needs an issue, a
  rotation and a revocation; `MaxTests` 3 for the test channel), so that each may overtake the
  other; `MaxMoves` 1 change by somebody else; `MaxSaves` 1 and `MaxAsks` 4 for the authenticator's
  dialog (ask, confirm, disable, codes). `OrganizationList` has 3 rows, 1 a page, and no bound. Two
  objects of each kind tell "this one" from "the other".
* `RuntimeConfig`: 2 tabs, lifetime 1, `MaxTime` 2, `MaxDeploys` 2.
* `ReportQuery`: 10 columns, 3 joins and 3 conditions pass every threshold that the scores compare
  with, and nest groups twice.
* `ExtensionsGenerator`: an extension of the console in two places and one of the root, 2 changes,
  so that three runs overlap.
* `PackageLinker`: an extension with both parts, a shared package of the console and one of the API;
  `MaxCommands` 3 give enable, enable again with something shared, then disable or reset;
  `MaxCrashes` 1 falls before, between and after each write. The manifests name nothing, the
  extension or every package at first, and all path repositories are there by hand or none; a
  command that is refused links nothing and is not counted. `Hoisting` says whether `.npmrc` has
  patterns at first and only matters to the run that needs it. The instance with installs: 2
  commands, no crash, `MaxInstalls` 2. `LinkerYaml`: files of up to `MaxLines` 3 lines (a key, a
  child, a nested one or another key), `MaxRewrites` 2. `LinkerCli`: `MaxTurns` 3 commands or dry
  runs of `MaxNames` 2 names.
* `Installer`: this machine and another host, a bundled and an external database, `MaxRuns` 2.

`CHECK_DEADLOCK FALSE` appears where the system stops: a closed server, callers once time has
stopped, a process that has exited, requests that were all answered, a screen whose requests are
spent, an installed console, a finished onboarding, a linker or an installer after its last run.
`socket_auth` checks deadlock.

### Fairness

`socket_auth` assumes weak fairness of each socket's event consumption and of each scheduled
kick-out. The code justifies it: `for await` loops over the event streams never stop while the
process runs, and a queued microtask runs. A subscription need not be settled. Nothing is assumed of
clients, connections or the mode. `RevokesStaleChannels` therefore says: a stale channel goes,
or stops being stale because the socket becomes that principal again or the mode leaves `enforce`.

`socket_parts` (`EveryRequestAnswered`) assumes that a request being read makes progress (a client
sends, ends or goes away; Node's own request timeout ends a client that does neither), that a
`transmitPublish` settles, and that the timer of the forced exit fires. It does not assume that a
socket or a connection lets `stop` end.

`console_entry` assumes that the exchange is answered or fails and its follow-up routes are entered
(`ExchangeEnds`), and that each hook, guard and transition of the onboarding returns (`CallsEnd`):
`Going(i)` is the continuation of one call. Nothing is assumed of the person.

`server` states its times as invariants over the clock (`WaitersAreServed`, `AppliedInTime`): timers
fire when they are due, so nothing need be assumed.

### Findings

`authorizer_expiry` violates `CachedAllowEndsWithToken`. `socket/README.md` and the comment at
`authorizer.js:174` say an allow is never cached past the token's expiry. The lifetime is the
expiry minus the clock rounded *down* to the second (`authorizer.js:60`, `:182`), and
`cache.js:49` counts it from the clock in milliseconds, so an entry may outlive its token by less
than a second. No caller sees it, since `localDecision` denies an expired token before the
cache is asked: `ExpiredTokensDenied` holds.

`sign_in_provider` violates `ChallengedAreAsked`. `controllers/auth/oauth-callback.js:136` says
"2FA is not waived for a provider sign-in". On a challenge the controller goes to `auth.two-fa` with
a token and keeps no identity; the route finds none in `session.store` and goes back to the login
page (`routes/auth/two-fa.js:31-36`). Nobody is let in, but nobody is asked for the code either.

`socket_enforce` violates `EnforcingIsConfirmed`, the title of a test of the component:
"entersEnforce covers every way a save can start enforcing"
(`tests/integration/components/configure/socket-test.js:589`). `entersEnforce`
(`configure/socket.js:279-288`) takes a mode left to the environment for not enforcing, so setting
the mode back to an environment that says `enforce`, or nothing, saves without the confirmation.
`ChosenEnforceIsConfirmed`, in `OnlyEditsAreStored`, says what does hold.

`oauth_check` violates `ChecksDescribeTheForm`. The comment at `configure/oauth.js:49-50` says a
result is cleared when the credentials are edited. A check that is answered after the edit puts
it back (`:255-266`), and the provider can then be switched on with credentials nobody checked.

`installer_origin` violates `PublisherIsAllowed`. The comment at `docker-install.sh:416` says of
`SOCKETCLUSTER_ORIGIN` that it "has to be an origin SOCKET_ORIGINS allows". The origins are those of
the host answered in this run, the publisher's is the one `.env` has from an earlier run, even one
that was stopped before it started anything; when the host differs, the socket server refuses the
API's broadcasts while socket auth is off.

`package_linker_hoist` violates `HoistPatternsMove`. `scripts/README.md:151` says the linker
moves the `public-hoist-pattern[]` settings from `.npmrc` to the workspace file. `enableModule`
rewrites `.npmrc` while it prepares the workspace (`package-linker.mjs:489`, `:311`); a name in
`--shared` that is no shared package then throws (`:398`), before the workspace file is written
(`:545`), and the settings are in neither file. The same happens when the process is killed in
between.

Observations without a run; where a property has an exception, it is one of these.

* Linker: disabling a package that is not recorded, which a second `disable` does, replaces its
  range by `^version` and removes a path repository somebody added; a package that was absent from
  the manifest stays in it as `^version` after it is disabled, as the tests expect; a module's own
  path repository does not come back (`originalRepository: null`, `package-linker.mjs:511`); after a
  kill between the first write and the state file the original range is lost, and linking again
  records the link's own `workspace:*` as the original pin. Two kills may leave a recorded package
  linked in `package.json` and not listed in the workspace; `LinksResolve` is about one.
* Linker's YAML: an inline list, an unindented list and levels deeper than two are taken apart or
  lost, a quoted `"true"` becomes a boolean, comments go. `RewritesKeepMeaning` is about the style
  that the linker itself writes.
* Configuration: `socket/README.md` says changes apply "within one poll interval". The next poll is
  due an interval after the previous one *ended*, and a poll may take its timeout to answer with
  the settings from before the change; `AppliedInTime` holds with an interval and two timeouts.
* Settings: on screens that can save before their load has ended, the load's late answer may
  overwrite the form; `ShownIsStored` is about those that wait. A save of an untouched form does not
  keep everything (`NotSent`): a bucket is dropped with a disk other than S3, the maximum of one who
  is unlimited becomes null, the rules by which messages are routed to providers are left out
  (`smsConfigForSave`, `services.js:165-180`), and what is stored as null may come back as the
  form's blank or default.
* Two-factor settings: the organization's page loads the user's own settings too, into the same field
  (`settings/two-fa.js:163-170`). Once they are answered the form goes on showing the organization's
  settings and a save sends the user's. `ShownIsSent` says nothing of that page from then on.
* Socket settings: a test that is answered after the page was left opens its channel
  (`configure/socket.js:337-344`), which stays until the next transition.
* Report: the model sets `query_config` anew at each step. Most of `report.js`'s `@computed` values
  depend on top-level arrays only (`:100`, `:136`, `:239`), so if somebody changed a nested value in
  place, say a join's columns, they would keep their old values.
* Organizations: a list is what it was when it was loaded, so an organization that somebody joined since
  may be deleted as if it had no other member; `OrganizationsHold` is about a list that is fresh.
* Onboarding: `_safeGet`, with which `restore` reads, takes the older value in the storage before
  the fallback's newer one; `DeletedStaysDeleted` is about deletions only.
* Installer: `queue` and `scheduler` keep `mysql://root@database/fleetbase` (`docker-compose.yml:62`,
  `:88`), since the override gives `DATABASE_URL` to `application` only (`docker-install.sh:455-466`).
  The bundled database has a root password and takes no empty one (`:512-518`), and an external one is
  never named to them, so after a run that ended well they reach no database; `InstalledIsOne` says
  so. The comment at `:361` has the key, the switch and the mode in all four containers; the mode is
  given to the socket server alone (`docker-compose.yml:50`).
* Pages: a notification picked while a deletion is under way is announced as deleted
  (`notifications.js:128`); the announced name of an impersonated owner may be that of the owner
  shown by then (`details.js:236`).

## 4. Proofs

The theorems hold for every value of the constants that satisfies the stated assumptions: any
number of sockets, callers, tokens, channels, requests, keys, accounts and steps, any lifetimes,
sizes and bounds. Each states a property of a run, except four (`OriginalsComeBack`,
`LinksComeToResolve`, `InstalledComesAsLinked`, `ListenerCorrect`) that say of a component by itself
what the joint modules say of it as a part.

| Module | Theorem | States |
|---|---|---|
| SocketAuthProofs | `TypeCorrect` | `[]TypeOK` |
| | `NothingUnchecked` | `[]NoUncheckedInEnforce` |
| | `PrincipalsKeepTheirChannels` | `[]HeldByItsPrincipal` |
| | `AccessRulesFollowed` | `FollowsAccessRules`: the policy implements ChannelAccess |
| ServerProofs | `ServerTypeCorrect` | `[]ServerTypeOK` |
| | `NobodyWaitsForLong` | `[]WaitersAreServed` |
| | `AnswersAreHonest` | `AnswersAreTheApis`, an action property |
| | `ExpiredMeansDenied` | `ExpiredTokensDenied`, an action property |
| | `OneConfigurationInForce` | `[]InForceEverywhere` |
| | `EnforceIsClean` | `[]EnforceStartsClean` |
| | `ChangesAppliedInTime` | `[]AppliedInTime` |
| | `PollsInOrder` | `PollsStayInOrder`, an action property |
| PartsProofs | `PartsTypeCorrect` | `[]PartsTypeOK` |
| | `AnswersTrue` | `[]AnswersAreTrue` |
| | `OnlyVerifiedPublished` | `[]OnlyVerifiedIsPublished` |
| | `DocumentedRules` | `[]RulesAsDocumented` |
| | `HonestCounts` | `[]CountsAreHonest` |
| | `LastSetIsServed` | `ServesLastSet`, an action property |
| | `EvictionSparesTheUsed` | `EvictionSpares`, an action property |
| | `ListenerCorrect` | the internal listener by itself |
| EntryProofs | `EntryIsTyped` | `[]TypeOK` |
| | `PagesAskTheRightPerson` | `[]PagesKnowWhoTheyAreFor` |
| | `NoCodeIsReplayed` | `[]CodesRedeemedOnce` |
| | `RequestsAreKept` | `RequestIsKept`: an invariant and an action property |
| | `OneLoopListens` | `[]ListensOnce` |
| | `OnboardingIsRemembered` | `[]OnboardingRemembers` |
| ConsoleProofs | `OneTestChannelAlways` | `OneTestChannel`: an invariant and an action property |
| | `OrganizationsAlwaysHold` | `[]OrganizationsHold` |
| | `SettingsShownAreStored` | `[]ShownIsStored` |
| | `InstallationsHold` | `InstallsHold`, an action property |
| | `OriginalsAlwaysRestored` | `[]OriginalsRestored` |
| | `LinksAlwaysResolve` | `[]LinksResolve` |
| EditsProofs | `EditsAloneAreStored` | `OnlyEditsAreStored`, an action property |
| PagesProofs | `PagesAlwaysTruthful` | `[]PagesAreTruthful` |
| LinkerProofs | `OriginalsComeBack` | the package linker by itself: originals come back |
| | `LinksComeToResolve` | the same: links resolve, a reset leaves none |
| | `InstalledComesAsLinked` | the same with installs, for any number of commands none of which is killed |

So every safety property of `socket_auth`, `server`, `socket_parts` and `console_entry` is proved,
and of `console_screens` all but `TypeOK` and `ComputedAsMeant`.

### Assumptions

They are the named `...Assumption` definitions of the components, assumed by the component itself or
by the `MC...` module that holds it (`PollingAssumptions`, `CacheAssumptions`, `RulesAssumptions`,
`DenialsAssumptions`, `ProcessAssumptions`, `SignInAssumptions`, `OtherAssumptions`, and MCConsole's
own). TLC evaluates each. They say that distinguished values are distinct, that lifetimes and limits
are natural numbers and a size at least one, that every token has one principal and no two tokens
share a `jti`, and of the external data only what the code relies on: what `environment` may hold
(`EnvAssumption`), what a well-formed answer of the API is (`ApiAssumption`), that a channel's name
is a sequence of strings. Of the console they say that an organization has finitely many other
members, that the page opens on a company there is, that rows are numbered up to a last one (the
number is the order), and of the linker that there are finitely many packages, extensions among
them, that a shared package is npm's or composer's, not both, and that its bounds are natural
numbers; of the installer that `localhost` is among the names of this machine and that there is at
least one run. The `MC...` modules take the components' constants from the configuration or hand
them on. What MCConsole itself fixes is also in the theorems: the console's eight settings screens,
the OAuth page with one provider, two ids and one secret beside none, the modes a person can choose
of the socket, and the installs after two commands, of which `InstalledComesAsLinked` is free.

### The argument

Almost none of the properties is inductive. Where a module holds several parts, its invariant
(`ServerInv`, `PartsInv`, `EntryInv`, and in ConsoleProofs one invariant for each property) says
that the invariant of the part the behaviour is of holds, and, in MCEntry, where the parts share
variables, what the others hold. TLC checked each invariant on the run's instance before it was
proved. Under each there is one lemma per action (or per group of actions that leave the same state
alone), one step per part of the invariant it can disturb.

**Policy** (`IInv`): `TypeOK`, `NoUncheckedInEnforce` and

* `HeldOnlyWhenOpen`: only an open socket holds channels, so entering `enforce`, which
  disconnects the open ones, takes every channel back and a socket in its handshake has none
  to keep;
* `GrantsAuthorized`: a credential is recorded as a grant only for a pair the authorizer
  allows;
* `EventsLeadToHolder`: following the queue of auth events from the recorded identity ends at
  the socket's present principal, so an identity that differs from the holder's always has an
  event on its way;
* `GrantsInSight`: in `enforce`, the principal of each grant is anonymous, or the recorded
  identity, or one in the queue, or its channel is scheduled to be kicked: each event that
  moves away from a principal finds its channels still listed and schedules their kick-out.

With the queue empty and nothing scheduled, the last two give `HeldByItsPrincipal`. The refinement
maps `enforcing` to `mode = "enforce"`, `cred` to the signed token and `held` to `granted`; each
action maps to a step of ChannelAccess or to a stutter, using `IInv` for `OnChange` (channels only
on open sockets) and for `SettleSubscribe` (the token object is still the one asked about).

**Authorizer** (`ServerProofs!IInv`): `Typed`; `RequestsInOrder` (a request under way is kept under
the key of its own question, was sent at most a timeout ago and before its token expired, and an
answer that arrived says what the API said when or after it was sent); `CacheJustified` (what is
cached for a key is what the API says of every pair with that key, or was said before its last
change, and then expires within its lifetime and a timeout of it); `WaitersHaveARequest`. Lemmas
about the operators of `TtlLruCache` (what `get`, `set`, `delete` keep, for a cache of any size) carry
`CacheJustified` through each call.

**Configuration** (`ServerProofs!PollInv`): `PollTyped`; `OnePoll` (a poll is under way, or one is due,
never both, and while the server runs never neither); `AnswersAreNew` (an answer on its way is not
older than the one in force; if it is older than the API's settings it was asked for before they
changed); `DueInTime`; `LastGood` (what is in force is the environment with the last good answer over
it); `Copied`; `EnforceStartsClean`; `Underway` (while settings that stay are not in force, the poll
that brings them was sent, or is due, at most an interval and a timeout after the change). `OnePoll`
gives the order of answers, `Underway` the bound of `AppliedInTime`.

**Internal listener** (`PartsProofs!IInv`): `Typed`; `RequestsInStep` (until it is verified a request
has asked for nothing; then each channel it names is asked for, delivered once, or failed; only what
was signed, recent and small gets so far); `AnsweredAreFinite`, without which a cardinality says
nothing; `CountersMatchAnswers`.

**Cache** (`CacheInv`): `Typed`; `Distinct` (no key twice); `AsSet` (an entry is what was set
last); `InOrderOfUse` (Map order is the order of use); `GivenUp` (what was set and is no longer there
has expired, was deleted, or as many others as there is room for were used since). `InOrderOfUse`
makes the entry that is evicted the least recently used, which is what `GivenUp` needs.

**Rules** (`RulesInv`): a decision that was given is what the rules say of those claims at that time.
`AllowsAsDocumented` and `TokensAreShortLived` follow from comparing the code's order of cases with
the documented list, case by case, by the number of a name's parts.

**Denial log** (`DenialsInv`): `RowsTyped` (the rows are within the cap, each about another kind) and
`CountsHonest` (a row counts no more than what happened, and exactly that while no more kinds than the
cap were seen). The second needs that a full log which has to evict has seen more kinds than the cap,
a pigeonhole argument (`TooManyKinds`).

**Process** (`ProcessInv`): in a process that lives, what was attached is what the environment was
understood as, and auth has a key.

**Sign-in** (`SignInInv`): `TabTyped`; `CodesInOrder` (a code in the address bar was never sent, so a
reload of the callback page cannot send one twice); `RequestsKnow` (of the requests that lead to the
verification page there is one at a time, and the one that validates its session is for the e-mail in
the store); `PagesKnow` (the account of the page's token is the one the controller knows, whether or
not the controller outlived an earlier sign-in); `RequestKept` (an app's request is in the address bar
of the consent page, or kept; in both only while the session ends, and then it is one request);
`ConsentIsQuiet` (nobody is signing in while the consent page is shown). `RequestsAreKept` goes through
the actions once more with these: each leaves the undecided request as it is or is one of the ends.

**Sign-up** (`SignUpInv`): an intent is issued, then spent, then known to be spent, and each of the
form, the store, the requests and the API is at one of these (`IntentsInOrder`, `RequestInOrder`); the
e-mail of a form or a request with a vouched identity is the vouched one (`EmailsInOrder`,
`RequestInOrder`); the session of a code is that of the page's sign-up (`SessionsInOrder`).

**Onboarding** (`FlowInv`): `HistoryInOrder` (each step once in the orchestrator's history and in
the stored one, and the stored one equal or cleared unless a write was refused) and `CallsInOrder`
(a call that waits at a step has one). **Context** (`ContextInv`): `Nowhere`, what was deleted is in
none of the three places, through any writes that the storage refuses. **Installation**
(`InstallInv`): `OneListener`: a loop has its channel, the only timer that is due is the one the
service knows of, and neither is left once the page is.

**Test channel** (`TestIInv`): that one is open at most is inductive once the page is known to have the
fields of a new one (`TestPage`); a transition closes the one that is shown, so with that it closes all
(`TestCloses`).

**Organizations** (`CompanyInv`): `CompanyTyped` (a number of members that the page shows is not zero);
`DialogAsLoaded` (a dialog to leave says what the page has loaded of that organization); `OneCall`
(there is one request at most, and none that reloads while the dialog to leave is open); `InStep` (the
page's organization is the session's, or something that is under way will tell); and `OwnersStay`. The
handlers check again what the dialog assumed, so what somebody else did meanwhile refuses the request.

**Settings** (`FormsInv`): on a screen that waits for its load there is one request at a time, its
answer is what is stored, a save is about what was sent, and once loaded the form matches
(`OneAtATime`). Of the second factor (`TwoFactorInv`): `TwoFactorTyped` (which settings, forms and
dialogs go together); `CallsSound` (what a request carries there and back); `FormFollows` (the form
is there when its loads are not, agrees with the settings unless the dialog changed them under it,
and the dialog asks for one thing at a time); `OrganizationSound` (until the user's own settings are
answered, the organization's name no method that its form does not have). On that page the form and
what will be sent agree until the user's own settings are answered (`Current`); later they need not.

**Edits** (`EditsIInv`): what the requests under way carry. Of the settings (`EditsInv`): a form is
converted to a payload and back without loss where there are no blanks (`EditsTyped`, and a lemma
for each screen); a save of an untouched form that is still to be handled carries the conversion of
what is stored (`SentAsLoaded`), which on a screen that can save before its load ended needs that
the first save is alone (`FirstSave`). Of OAuth (`OauthTyped`): a secret that is sent was typed or
is left out, and the API keeps the one it has for the latter. Of the apps (`FormOfItsApp`): the form
of a dialog, and the update it sends, is of the app it was opened on. Of the socket (`SocketInv`):
the page shows the environment under the settings it loaded, the dialog is open only while nothing
is under way, and a save that nobody confirmed chooses no enforcement that was not in force
(`MayEnforce`).

**Pages** (`PagesIInv`): one invariant for each. Boot (`BootInv`): a configuration in the storage is
sound, and was stored with the version beside it unless a write was torn. Notifications (`BellInv`):
`OnlySent` (the page knows only of what was sent) and `AnsweredIsSo` (what an answered request read or
deleted is read or deleted; a selection is what is being deleted, save for what was picked meanwhile).
OAuth apps (`AppsInv`): one dialog's request is under way at most (`OneDialog`) and is about an app
there is (`AppsKnown`); a secret that is on its way or shown is the API's, unless an answer to a
rotation was lost (`SecretsKnown`). Platform token (`TokenInv`): the page has one request of its own
(`TokenRequests`), and an answer still to be shown, or the token shown while there is none, is the API's
unless the page is unsure (`TokensAgree`). The administrators' list (`ListInv`): a request under way is
for the parameters chosen, so its rows are what is shown once none is. That a page within the bounds
has a row (`PageHasRow`) is about order: a finite set of numbers has a k-th member for each k up to its
size (`NthOf`), in either direction. An organization's page (`DetailsInv`): who was removed is a member
no more, nor in any load of this page that was answered since (`RemovedTakenOut`); the request to
impersonate is for the owner shown (`NamesAreTheSessions`). API consumers (`ConsumersInv`): a load that
is under way is for what is chosen.

**Linker** (`LinkerProofs!LinkerInv`): `LinkerTyped`; `InOrder` (the files of a command's writes are
distinct and the one that remembers the originals comes last); and of each package about which the
histories promise something, `LinkerSafe`: the files as they will be when all writes are made are
settled (`SettledIn`: a package with a record has its originals in the record, one without has them
in the files); a recorded one keeps its record and what unlinking looks at through each single write;
and one that is neither recorded nor being linked is touched by no write. So a kill between two
writes leaves a recorded package one that can be unlinked, and one that was being linked is in `lost`.
A command is several parts, each of which becomes its writes in one step; the lemmas about
`Enable`, `EnableShared`, `Disable` and `DisableShared` say what each adds to the writes of a package it
is about and that it leaves alone what is any other's. OriginalsRestored needs that final state
because only a settled package without a record is what the property speaks of.

**Links** (`LinkerProofs!ResolveInv`, beside `LinkerInv`): no single file says whether a package is
linked, so the invariant speaks of the files there are, of those the command's writes will leave, and of
the writes in between. While nothing was killed a package will be linked everywhere or nowhere (`Whole`),
and until then `Unbroken`: one that is being linked is listed by each write of the workspace, and
one that is unlinked leaves `package.json` before it leaves the workspace. After a kill only `Resolved`
can be said. `NoLinkIsPinned`: no link takes its own pin for the original; `Styled`: a shared package in
the workspace is pinned there; `Resetting`: what a reset has not unlinked is still in its script, so
that an empty script leaves nothing. **Installs** (`InstallInv`): while an install runs, the files stay
as they are, and what it left is so until the next command. The lemma `LinkedIsRecorded` joins the two:
the installer reads the state file, `pnpm` reads `package.json`.

`OriginalsAlwaysRestored` and `LinksAlwaysResolve` carry these lemmas from PackageLinker to its two
instances in MCConsole, whose definitions are the same over the same variables (`SameLinker`,
`SameInstall`).

**Installer** (`StackInv`): what a run has written by a step stays until it ends, so at its end each
file has this run's host, the override this run's secrets, each kind of container what it is given
of the files, and a bundled database the root password in the override, which is the application's;
that earlier runs with other answers were stopped anywhere is in the state each step starts from.

### What is only model-checked

* Of the run `console_screens`: `TypeOK` (of 20 parts at once; what the proofs need of the types is
  in their invariants), and `ComputedAsMeant`, whose claims are about the value of folds and
  recursive functions over the lines of a file, sequences of names, lists of packages and nested
  conditions.
* Liveness: `RevokesStaleChannels`, `EveryRequestAnswered`, `ExchangeEnds`,
  `CallsEnd`. Fairness of an action is about `ENABLED`, which this version of the prover does not
  reason about.
* What a recursive function or a fold computes for every input, which takes induction over data.

`MayCall` and `MayResend` (one request at a time, with a resend beside it) are guards of `SignIn`, a
bound of the model's, and the theorems about it hold under them.

## 5. Plan

Done, in this order: the policy and its abstract specification; the cache, the rules, the
authorizer, the configuration, the internal endpoint, the denial log; the proofs about the policy; the
package linker; then the process and its configuration; the ways into the console; its
screens; the linker's installs, YAML and command line; the installer; the extensions generator; the
proofs about the server, its parts, the ways into the console, the console's screens and the linker.

Next:

1. A composition of policy and configuration, where the poller drives the mode of the policy.
2. More screens: branding, changing the password and the e-mail, the users' overlay of the
   administrators' list, the impersonation from that list.

## 6. Not modelled

* The API shell, deployment, CI and load tests, and the console's forms, routes, models and
  templates that only render, forward a value, or put the answer of one request into a model.
* Of modelled screens: column layouts, charts and their options, uploads other than an app's logo,
  override rows and pauses of the SMS guard, which field of a form is invalid, the offer of hosted
  routing, and the texts that commands and dialogs print.
* The install wizard and everything else in the engines, which are not part of the repository.
* SocketCluster, the API, pnpm, composer, bash, Docker and MySQL are external: the models say what
  the code relies on. SocketCluster's cluster mode (`SCC_*`) is configuration passed through.
* A file that is cut off while it is written, in the linker; the installer's are modelled (`Torn`).
* Whether the API sends a publish again after its answer was lost: the server remembers no request,
  and would publish it again; the sender is in a submodule.
* Message authentication codes are attributes of a message; the byte-level work of JSON and HTTP,
  logging and statistics are left out.
