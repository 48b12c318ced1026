# TLA+ specifications of AV

AV is an OIDC-authenticated credential broker and proxy. These modules model
its server, its command line wrapper and the policy crate, check them with TLC
on small instances, and prove most safety properties with TLAPS.

## The system and its modules

| Part | Source | Module |
|---|---|---|
| Instance roles, owner bootstrap | `store.rs`, `server.rs` | `PrincipalRoles` |
| Agents, grants, proxy sessions | `store.rs`, `server.rs`, `auth.rs` | `ProxySessions`, which implements `SessionCapability` |
| Dynamic leases | `server.rs`, `connector.rs`, `openbao.rs`, `infisical.rs` | `DynamicLeases` |
| Transparent and named proxy handlers, WebSocket relay | `server.rs` | `TransparentProxy` |
| Configuration file | `config.rs` | `Configuration` |
| Routes, destinations, request policy | `policy.rs`, `catalog.rs` | `RoutePolicy`, `RouteCatalog` |
| From a configuration to what is sent upstream | `server.rs` | `RequestPipeline`, over the three above |
| Response bodies | `redaction.rs`, `server.rs` | `ResponseRedaction` |
| Control calls, owner forms, audit trail | `server.rs`, `store.rs` | `ControlPlane` |
| GitHub login of the browser interface | `server.rs` | `BrowserLogin` |
| OIDC tokens and the key cache | `auth.rs` | `SigningKeys` |
| Basic authentication | `auth.rs` | `PasswordSlots` |
| Backend tokens and secrets | `connector.rs`, `infisical.rs`, `openbao.rs`, `google_secret_manager.rs` | `SecretBackends` |
| PostgreSQL credential reload | `store.rs` | `CredentialReload` |
| Transport certificate | `transport_tls.rs` | `TransportTls` |
| Rate limit | `server.rs` | `RateLimiter` |
| `av <profile>`, `av run`, `av run --container` | `main.rs` | `RunWrapper` |
| Loopback helper | `main.rs` | `LocalHelper` |
| `av login`, `av logout`, keyring | `main.rs`, `keyring.rs` | `DeviceLogin` |

`WireValues` declares what stands for absent and refused text, `WaitQueues` how
a dropped waiter leaves the queue of a tokio lock. The `MC_*` modules choose
instances.

The parts meet in the handlers. A proxy request looks its session up, checks
the grant, applies the route's policy, acquires a lease or secrets, and
releases the lease when the response ends. What makes them hard is the same
everywhere: a handler may be interleaved or dropped at every await; PostgreSQL
runs transactions at READ COMMITTED on a pool of eight while SQLite has one
connection; a store call reads the clock before it waits for a connection; and
spawned tasks are not awaited at shutdown.

So an action is what happens between two awaits, or one SQL statement where
another transaction can commit before the next. Notes on single modules:

* **PrincipalRoles.** An `INSERT ... SELECT` is two actions, its SELECT and its
  upsert, because on PostgreSQL another transaction can commit in between. On
  SQLite `DbFree` keeps a transaction together.
* **ProxySessions.** `call.at` is the clock a store call read. `BeginAgentTx`
  stands for the statements of a control transaction up to its last UPDATE or
  DELETE; `tx` holds its row locks until `CommitAgentTx`. `GrantProfile` is the
  moment its row is written: the expiry was compared with a clock read at any
  moment since the process started, so the row may have expired by then.
* **DynamicLeases.** A task is a handler, a relay or a spawned cleanup.
  `Faults` selects what may go wrong, so that a run can say under which faults
  a property holds.
* **TransparentProxy.** Access is the session and the grant, read one after the
  other; `conn.missing` has the parts that have been absent since the current
  check began.
* **RequestPipeline.** One request, tunnel or upgrade at a time goes through
  `Config::load`, the catalog and the policy as operators. Texts are reduced to
  the shapes the checks tell apart.
* **ResponseRedaction.** The encodings of a credential are a parameter. The
  marker's bytes are taken not to occur in a body or a credential.
* **TransportTls.** The two files are replaced at once or one by one, in either
  order, and do not parse while they are written.
* **ControlPlane.** Every call and form that changes the database, on SQLite,
  where a store call is one step.
* **RunWrapper.** Seconds are counted down. A renewal is answered within
  `RenewalLatency` or fails. Three latencies and a second fit into a lease, and a
  lease lasts more than a second: renewal waits half the remaining time but at
  least a second, so it cannot keep a lease of one second alive. An answer to
  the request for a capability may be lost, refused by the wrapper or accepted,
  and docker may fail to remove either container.
* **SecretBackends.** Both margins of the token caches exceed the client's
  timeout, as the constants of the code do.

History variables and fields (`decision`, `decided`, `witnessed`, `began`,
`call.late`, `conn.missing`, `acceptor.undisturbed` and the like) record what a property
compares with and guard no action.

## Runs

Passing:

| Run | Shows |
|---|---|
| `roles_sqlite` | Two processes and two role changes on SQLite: the last owner is kept, and owners come from the bootstrap or a decision only. |
| `roles_postgres_singleton` | One process and one role change at a time on PostgreSQL, with crashes at every statement: an instance that serves has an owner. |
| `sessions_postgres` | An agent's session while statements of two handlers run inside an open control transaction: the abstract capability is implemented, late requests are refused, nothing is served without a grant that expires after the request began, withdrawals end the sessions they found, and an expired session returns only through a renewal in flight. |
| `sessions_subjects` | Two subjects who name each other's session change only their own, and every session ends. |
| `leases_faults` | Under every fault a lease is in one place, is gone once revoked, and the registry exceeds its limit by less than the number of tasks. |
| `leases_shutdown` | Where owners may be dropped and nothing else fails, no live lease is unowned, owners release theirs, and those of the main listener do not survive a graceful shutdown. |
| `runtime` | Seven long-lived parts under fairness, see below. |
| `service` | Seven parts of the server, see below. |

`MC_Runtime` and `MC_Service` check parts that share no state, each on its own
instance: the variable `component` is chosen in the initial state, and only
that part moves. It saves a run per part and hides no interaction, since there
is none.

| Run | Part | Property | Promise |
|---|---|---|---|
| `runtime` | TransparentProxy | `CheckedAndAudited` | Nothing is done for a caller without access, or given to them before its audit event, though access is withdrawn and the audit store fails between any two awaits. |
| | | `RelaysTerminate` | A WebSocket relay ends when its session is gone, when its grant is gone and stays so, and at its lifetime limit, however busy. |
| | RunWrapper | `NothingLeftBehind` | A wrapper that ends by itself has asked for revocation of what it accepted, and left no child, listener or container, but for a container docker failed to remove. |
| | | `KeptAlive` | Renewals answered in time keep the capability live for its whole absolute lifetime. |
| | | `ChildEndsWithLease` | A child does not outlive its capability for ever. |
| | | `ChildEnvironmentClean` | The child is started without the wrapper's credentials and, where it is proxied, with the helper as its only proxy. |
| | LocalHelper | `HelperFaithful` | Bytes pass unchanged wherever reads split them, one authorisation is injected, and relays stop with the helper. |
| | DeviceLogin | `LoginsSettle` | Logins end, and a successful one leaves a token although others run beside it. |
| | SigningKeys | `KeysFollowIssuer` | Fetches keep their distance, and the cache catches up with a rotation, although requests are dropped. |
| | SecretBackends | `AuthenticationSound` | A token that lives longer than the margin still has the margin, less one client timeout, when it is returned; no fetch waits for ever. |
| | | `AcquiredWithinProfile` | A fetch returns the profile's exports or allowed keys only, with a lease of bounded duration exactly if the profile is dynamic. |
| | CredentialReload | `PoolFollowsFile` | The current pool is open, and ends up on the credentials of the file once the database accepts them. |
| `service` | RequestPipeline | `SentWithinPolicy` | What goes upstream is within the route's policy: path, headers, body, host, upgrade. |
| | | `InjectedIsRedacted` | Every injected credential is among those redacted from the answer. |
| | | `TunnelsWhereConfigured` | Tunnels go to configured hosts and to addresses outside the special ranges of IPv4 and IPv6, the private ones excepted where the tunnel allows them. |
| | ResponseRedaction | `NoCredentialReturned` | No encoding of a credential is returned, however the body is cut. |
| | | `StreamingFaithful` | The output does not depend on how the body is cut into chunks, and only what may begin a credential is retained. |
| | ControlPlane | `AuthorizedWithinCall` | A change is made only if, at moments of the call, the caller's credential was accepted and their role was sufficient. |
| | | `AuditTrailMatches` | A change answered with success has its event, and every event is of a committed change. |
| | | `PanelFaithful` | Whoever did not change while the owner panel was read is on it exactly once, with their role and grants, and nobody else is. |
| | BrowserLogin | `BrowserSessionsRightful` | A browser is logged in as who approved its own login, admitted, and once per login. |
| | PasswordSlots | `BasicSound` | A caller is accepted with their own password only, and permits are conserved. |
| | TransportTls | `TransportPairSound` | A connection serves a matching pair, and the one on disk if it starts alone. |
| | RateLimiter | `BucketExact` | No interval admits more than burst and rate allow, and a request is refused only when they are spent. |

Violations, where the code does not do what a document or test says. The
quotations are in PROJECT.json.

| Run | Shows |
|---|---|
| `roles_postgres_last_owner` | Two owners who demote each other at once both succeed. |
| `roles_sqlite_bootstrap` | A crash inside the SQLite bootstrap leaves an instance without an owner for good. |
| `sessions_legacy_grants` | A restart restores a revoked legacy grant. |
| `leases_child_exit` | A revocation that races a renewal finds nothing, and the renewal restores the lease. |

More disagreements appear when a listed configuration is changed. They have no
run of their own:

| Change | Violated | What the code does |
|---|---|---|
| `sessions_postgres` with one call, `SessionTtl = 1`, `SessionMaxLifetime = 2`, `MaxMint = 1`, and without the condition on `Backend` in the property | `WithdrawalEndsSessions` | A session inserted before the COMMIT of a rotation, disable or deletion survives it (`store.rs:568`; `docs/access-control.md:57-59`). |
| `sessions_subjects` with `Spec`, SQLite, one user and one call | `RestartEndsSessions` | Sessions survive a restart (`store.rs:237`; `docs/transparent-proxy-design.md:232-233`). |
| `leases_shutdown` with one lease, one task, `Faults <- Cancels` | `LiveLeasesOwned` | A handler dropped with a lease in hand loses it (`server.rs:211`; `SECURITY.md:24-26`). |
| `leases_shutdown` with one lease and one task, of the transparent listener, and without the exception for `Tunnel` | `ShutdownRevokesAll` | Leases of the transparent listener's tasks can outlive the process (`server.rs:2259`; `docs/secret-backends.md:161`). |
| `leases_shutdown` with two leases, `Tasks = {t1, t2}`, `Tunnel = {t2}`, no faults | `RegistryBounded` | A renewal returns its lease to a registry filled meanwhile (`server.rs:176`; `docs/secret-backends.md:147`). |
| `service` | `VerificationBounded` | A dropped request gives its permit back while its verification goes on (`README.md:122`: "password verification is limited to two concurrent jobs"). |
| `service` | `NeverGoesBack` | A connection that read the old pair may install it over the new one (`transport_tls.rs:38`: "A valid replacement is used immediately"). |
| `runtime` with `unremoved` left out of the property | `NothingLeftRunning` | A container that docker fails to remove stays, and the wrapper reports the child's status all the same (`main.rs:1195`; `docs/using-av-with-coding-agents.md:191-193`: "normal exit, helper failure, or renewal failure removes both containers and revokes the session"). |

Two more results are no disagreement. `WithdrawalEndsTunnel` fails in `runtime`:
the documents promise an end to live WebSockets, not to credentialless tunnels.
"The singleton row makes the first-owner bootstrap safe when two AV pods happen
to start against an empty shared database at once" (`store.rs:1360`), and so it
does: in `roles_postgres_singleton` with two pods and no calls,
`OwnersAreBootstrappedOrAppointed` holds, and so does `ServingMeansOwned` for
pods that name the same subject. With a call it does not reach as far: a pod
whose `MIGRATE_OWNERS` has read `av_owners` before another pod commits a
demotion makes the demoted owner an owner again
(`OwnersAreBootstrappedOrAppointed` is violated), and a pod that names another
subject may serve before the first has written the owner's role
(`ServingMeansOwned`). The chart refuses a second replica.

An answer that the wrapper refuses, with a name that is no variable's, say, or
without a token, names a capability that nobody revokes (`LeaseRefused`,
`main.rs:750`). The documents promise a revocation when the child exits, and
here no child was started; the time to live is the bound.

### Bounds

Two subjects and two concurrent handlers reach every race between two
transactions on one row; a third subject lets a demotion leave a bystander. A
session lives 2 seconds and at most 3, so that a first renewal extends it and a
second is capped. Three leases with a limit of one let the registry fill while
a lease is in a renewal. In `runtime` one proxy connection suffices, since
connections meet only in `access`, which changes freely; the proofs cover any
number. A lease of 4 seconds and a life of 5 reach the capped last renewals of
one second. Two requests for the key cache and two fetches of a backend token
queue on the lock, two terminals interleave their keyring commands, and the
helper's reads split the streams anywhere, the end of a header included.

In `service`, redaction takes bodies of up to six bytes of three values, cut in
every way, and credentials that overlap themselves and one another; three Basic
requests compete for two permits; pair issues go to three, so that two
rotations happen during one connection; the pipeline takes configurations,
requests and destinations one or two changes away from accepted ones, so that
the checks refuse one thing at a time. The limiter's refill is not a
whole token per unit of time, so fractions add up.

`MaxTime`, `MaxMint`, `MaxStarts`, `MaxCalls`, `MaxBrowserTime`,
`MaxGeneration`, `MaxIssue`, `MaxSlowDowns` and `MaxLimiterTime` bound the state
space only. Symmetry is used for safety only. Deadlock is not checked for
leases, since the process exits, and not in the two sums, whose parts end.

### Fairness

* `ProxySessions`: time passes.
* `DynamicLeases`: a task that can take its next step does, because the runtime
  polls woken tasks and backend calls return. Nothing is assumed of callers, of
  the clock or of shutdown.
* `TransparentProxy`: strong fairness for the deadline and the check of a
  relay. They are branches of a `select!`, which polls its branches in random
  order, so that one which is ready again and again is taken. Store and backend
  calls return. Nothing is assumed of the traffic.
* `RunWrapper`: the wrapper's own steps and time. The child may run for ever.
* `LocalHelper`: a relay sees the stop signal.
* `DeviceLogin`: time passes and a terminal's command goes on. Nobody need
  approve.
* `SigningKeys`: requests keep arriving, and some request gets the lock, an
  answer and to the end of its refresh again and again, though others are
  dropped. A key that nobody presents is not fetched.
* `SecretBackends`: time passes, a waiting fetch gets the lock, and a login
  times out. The backend need not answer.
* `CredentialReload`: the reloader ticks, and a database that keeps accepting
  the credentials is reached in the end.

## Proofs

Each holds for every value of the constants under the named assumptions of its
module.

| Module | About | Theorems |
|---|---|---|
| `PrincipalRolesProofs` | roles | `TypeCorrect` on both databases; on SQLite `SqliteOwnerNeverLost`, `SqliteOwnersAreBootstrappedOrAppointed`, `SqliteRolesBackedByOwnersTable`; on PostgreSQL, with one process and one role change at a time, `PostgresServingMeansOwned` |
| `ProxySessionsProofs` | sessions | `SessionTypes`, `SessionRefinement`, `SessionLifetime`, `SessionsAudited`, `LateRequestsRefused` |
| `SessionGrantsProofs` | steps of sessions, grants, browser login | `SessionsBelong`, `WithdrawalHolds`, `ExpiryHolds`, `ServedHaveGrants`; without legacy grants `GrantsHold`; `BrowserSessionsAreRightful` |
| `DynamicLeasesProofs` | leases | `LeaseTypes`, `LeasesInOnePlace`, `RevokedLeasesLeave`, `LeasesOfTheirSubject`, `RegistryRemembers`, `OvershootIsBounded`; without failing calls and cancelled handlers `LiveLeasesHaveOwners`, `ShutdownLeavesUnawaited` |
| `ControlPlaneProofs` | control calls, owner panel | `ChangesAuthorized`, `AnswersAudited`, `PanelsFaithful` |
| `RequestPipelineProofs` | configuration, catalog, policy, rate limit | `BucketsExact`, `TunnelsEndWhereConfigured`, `CallersHeadersAreHarmless`, `UpgradesAreAllowed` |
| `WaitQueuesProofs` | queues, Basic authentication, secret backends | `PasswordsSound`, `AcquisitionsWithinProfile`, `TokensLiveWhenReturned`, `LoginsAreExclusive` |
| `RuntimeProofs` | transport certificate, proxy handlers, wrapper, key cache, credential reload | `ServedPairsSound`, `AccessCheckedAndAudited`, `WrapperCleansUp`, `RenewalsInTime`, `ChildStartsClean`, `FetchesAreSpaced`, `CurrentPoolStaysOpen` |

Hardly any of the properties is inductive as it stands.

* **Roles.** The last-owner check counts in one step and writes in another.
  `SqliteInv` says that at most one transaction is open (`Serial`), that what it
  read still holds (`SnapshotFresh`, `CountReadsOwner`, `WriteKeepsOne`), and
  where the rows of `av_owners` come from (`BootstrapFirst`, `OwnersDecided`).
  On PostgreSQL `Serial` fails, which is the violation above. With one process
  and one call, `PostgresInv` says instead what a start still owes at each
  statement of `Store::connect` (`StartupCatchesUp`): a crash leaves `av_owners`
  ahead of the roles, never behind.
* **Sessions.** A handler writes what it computed before an await. `SessionInv`
  relates each row to its absolute end, each handler to the row it read and to
  the clock it read, and each open control transaction to the sessions it
  found. The refinement maps the row of a session to the capability and the
  clock to the clock. `GrantedInv` adds that a handler past its grant check has
  been witnessed under a grant (`WitnessOK`), and that it began before the moment
  it compares the grant with (`BeganOK`), `GrantInv` that grants and decisions agree during a
  transaction.
* **Leases.** `LeaseInv` says that registry, drain and the hands of tasks are
  disjoint and hold no revoked lease. For the limit, `CountInv` counts the
  leases that tasks may still return together with the registry; for ownership
  (`OwnedInv`), a lapsed lease has ended at the backend, so that the registry
  may drop it, and the drain takes all leases at once. For shutdown, `DrainInv`
  says what is left when the process exits: the drain begins when no awaited
  task is at work, and from then on only tasks that are not awaited get a lease.
* **Control calls.** `ControlInv` says that a call past its role check has seen
  a sufficient role, that calls have different numbers, and what its position
  tells of its commit and its event. `PanelInv` says how far a page is read,
  and that what was read of a subject is in the database unless the subject was
  touched since.
* **Requests.** `PipelineInv` says that the routes in force are valid, that a
  connection has an entry of their catalog, and that what is sent was computed
  from one route. `LoadChecks`, `CatalogHosts` and `AddressAllowed` carry the
  facts about validation, about the catalog and about addresses: octet by octet
  and segment by segment, `AddressAllowed` compares the tests of the code with
  the ranges they stand for.
* **Queues.** Nobody is twice in a queue, and who leaves or is served is no
  longer in it (`LeavingQueue`, `ServedFirst`). `PasswordInv` counts free
  permits and verifications. `LockFits` puts the fetch that logs in at the head
  of the lock. `CacheFits` and `FetchFits` relate the time a token will still be
  used to the time it will live, from the start of the login on.
* **Browser login.** `CallbacksFit` says that a handler has consumed the pending
  login it holds, so that no other handler has it, and that the login is of its
  own browser. `SessionsFit` carries this to sessions and cookies.
* **Rate limit.** `NeverAbove` and `NeverBelow` balance bucket, time and the
  requests admitted since each of them; they are an equation for some request
  unless the bucket is full.
* **Proxy.** `ProxyInv` says that a part counted as missing is absent now, that
  between the two reads of a check only the grant can be missing, and what
  follows from that for the steps after it.
* **Wrapper.** `StagesFit` says what may be running at each step and that only an
  accepted answer leads past the first, `ReceiptsFit` what AV was asked, `RenewalFits` that the time left exceeds what the renewal
  under way may still take.
* **Transport certificate.** `TlsInv` says that the installed pair matches and
  that, as long as a connection which began alone is undisturbed, what any
  connection has read is what the files hold: whoever installs last installs
  the pair on disk.
* **Key cache, credential reload.** The last attempt is the last fetch
  (`AttemptsAreFetches`). What is closed, or will be, is older than the current
  pool (`PoolsFit`).

The assumptions say what the code guarantees elsewhere. `SourcesAssumption`: a
dynamic profile has exports, which `Config::validate` demands and without which
a missing secret would pass for an acquisition that has no lease. `NamesAssumption`:
routes and operations are tables, so a name occurs once. `TrafficAssumption`:
addresses have four octets or eight segments. `AnswersAssumption`: a
value that was decoded as text is not the mark of text that is none. `RunWrapperAssumption`: see
above. Others say that the value for absence is no proper value, or that a set
is finite.

Some theorems are about definitions that no passing run lists by themselves:
the type invariants, `AbsoluteLifetime`, `DeliveredSessionsAudited`,
`GrantsFollowDecisions`, `HeldForItsSubject`, `RegistryForgetsNothing` and
`RolesBackedByOwnersTable`; and `CallerHeadersHarmless`,
`UpgradesOnlyWhereAllowed`, `TokenLiveWhenReturned`, `LoginsExclusive`,
`FetchesSpaced` and `CurrentPoolOpen`, the parts of listed properties that can
be proved.

Only model-checked:

* Liveness, which is out of the prover's reach: `SessionsEnd`, `OwnersRelease`,
  `RelaysTerminate`, `ChildEndsWithLease`, `LoginsSettle`, and the parts of
  `HelperFaithful`, `KeysFollowIssuer`, `AuthenticationSound` and
  `PoolFollowsFile` that say something happens in the end.
* What needs induction over data, also out of reach: `NoCredentialReturned` and
  `StreamingFaithful`, whose redaction is recursive; the path and the body in
  `SentWithinPolicy` and the body in `InjectedIsRedacted`, which are folds over
  text; the bytes of `HelperFaithful`.

## Not modelled

* **Server startup and command line.** `run()` of the server and the dispatch,
  role and agent commands of `main.rs` connect, parse and send one request.
  `local_init` writes the files of a new local instance once. Readiness, status,
  profile listings and the lists of audit events and grants change nothing.
* **Certificate authority** (`ca.rs`, `proxy_ca.rs`): library calls, whose
  result does not change after startup. The CA bundle of a wrapper is a file
  written once.
* **Authentication.** OIDC discovery and the Basic credential file are read
  once at startup. Signature, password and token digests are library code: the
  modules model which key, hash or row they are given.
* **Wrapper.** The flags of `docker run`, the digest checks of an image and the
  relay process inside a container. A wrapper that is killed runs no cleanup,
  and the capability then ends by its time to live. A listener task of the
  helper that ends with an error (`main.rs:1606`) is noticed by nobody until the
  child's connections fail.
* **Wording, rendering and logging** everywhere.
