# Verification of the VPN control panel

This directory holds TLA+ models of the panel's control API, the TLC
configurations that check them on small instances, and proofs that the TLA+
proof system (TLAPS) checks for every instance. Paths below are relative to the
repository's root (`src/` here); `C/` stands for `apps/control_api/` and
`models.py` for `packages/common/vpnpanel_common/db/models.py`.

## 1. The system

The panel is a FastAPI application (`C/`) over one relational database. Every
HTTP request is a coroutine with a session of its own (`C/db.py:22-24`), so all
interaction between requests goes through the tables. The older panel under
`app/`, which the compose file still starts, has a database of its own that its
workers fill when they start. Nothing else has state that changes: the collector,
the scheduler and the node agent are loops that sleep and log.

| Component | State | Operations | What is hard | What makes it correct |
|---|---|---|---|---|
| Directory tables (`models.py:39-84, 249-260`) | tenants, users, roles, memberships, audit rows | inserts, updates, deletes with cascades | deletes against inserts that refer to the deleted row | no dangling key, nothing twice |
| Access gate (`C/security.py`) | none of its own; reads users, roles, memberships | `get_current_user`, `require_admin` | four queries, four snapshots; bootstrap bypass; decision used later | whoever is admitted was entitled; who is entitled is admitted |
| Directory routers (`C/routers/auth, users, tenants, roles, memberships`) | the directory | create, update, delete, register | check-then-insert; stale loads; `delete_role`'s flush | every change authorised and on record |
| Engine settings (`C/routers/users.py:71-121`) | `user_engines` | update, configs, QR | column-wise write of a stale load; two-SELECT read; missing row means all | an update takes effect; a filter is honoured |
| Nodes and assignments (`C/routers/nodes, assignments`) | nodes, assignments | create, rename, delete, move | a move onto a node being deleted or already assigned | a relation between live users and nodes |
| Plans and subscriptions (`C/routers/plans, subscriptions`) | plans, subscriptions | create, update, delete | one active subscription per user is an index's alone; plan of another tenant | quota of the right tenant, at most one active |
| Traffic (`C/routers/traffic.py`) | append-only events | ingest a batch, summarise | lost answers, overlapping retries, deletions meanwhile; one bad event in a batch | what is acknowledged is and stays counted, whole; a batch is acknowledged in the end |
| Audit listing (`C/routers/audit.py`) | reads audit rows | list the last 100 | nothing | newest first |
| Tokens, passwords | none | issue, verify | library code | outside the models |
| Legacy panel (`app/`) | its tables and users | create the tables, bootstrap the superuser, register, log in | workers that start together, crash and start again | one superuser whom no registration precedes; the panel comes up |
| WireGuard addresses (`app/services/wireguard.py`) | none | `allocate_ip` | arithmetic on the user id | distinct addresses |
| Migrations (`alembic/`) | partitions | seed partitions | nothing runs yet | a partition for every day |
| Collector, scheduler, node agent | none | health, a sleep loop | nothing yet | outside the models |
| Configuration, logging, metrics, proto, OpenAPI, deployment | none | | nothing | outside the models |

Interaction: the gate runs in front of almost every writing handler and in the
same session; the handlers meet only in the database. Deleting a user reaches
memberships, engine rows, assignments and subscriptions (cascade) and audit and
traffic rows (set to NULL); deleting a tenant, a role or a node has the same
kind of reach.

### The program as committed

As committed the program does not start: `AuditLog.metadata` (`models.py:260`) is
a name SQLAlchemy reserves, `BaseSettings` is imported from a package that no
longer has it (`packages/common/vpnpanel_common/config.py:2`), the legacy
`app/main.py:15` uses `async with` in a plain function, `app/schemas.py:1`
begins with stray characters and `app/api/routes/accounts.py` has no router, so
that `allocate_ip` has no caller. On PostgreSQL `init_db` would stop at
`models.py:238-241`, whose primary key lacks the column the table is partitioned by.
The models describe what the code does
once these obstacles are out of the way, on PostgreSQL, which the
documents and the compose files name, at its default isolation level READ
COMMITTED and with foreign keys enforced. (The fallback of `C/db.py:12` and `app/core/config.py:10`, SQLite,
serialises writers and does not enforce foreign keys unless told to.)

## 2. How the code is read

* **Slots.** A request is a slot of the constant `Requests`: `pc` says how far
  it has come, `job` what its handler has read and is about to write. A slot is
  reused when its request is over.
* **Reads.** Every SELECT of the gate is an action of its own, because what the
  gate decides depends on the combination of answers. The SELECTs of one
  handler are one action (`Load...`). They can only turn the request away, and the
  constraints decide the same questions again at the commit. The exception is
  `user_configs`, whose two SELECTs are two actions, since there is no commit
  after them.
* **Writes.** The writes of a request become visible together, at its commit, as
  one action. A uniqueness, foreign-key or NOT NULL constraint is a guard of it.
  Where it fails the request can only be abandoned.
* **Abandon.** HTTP errors, constraint failures, a lost connection and a crash of
  the worker all end in the rollback at `C/db.py:23`. One action, always enabled
  for a running request, stands for them.
* **ORM.** Only columns whose value differs from the loaded one are written; an
  UPDATE that finds no row raises, a DELETE that finds none does not; the
  session hands the actor's own row back as the gate read it; `delete_role`
  loads the role's memberships at the flush and would set their `role_id` to
  NULL, which the column forbids, so the request fails if there are any, while
  a membership inserted after that load is deleted by the foreign key.
* **Keys.** Primary keys are uuid4. Keys come from small pools, so a key may be
  used again, but only when no row and no running request mentions it. In
  `Traffic` users and nodes only go. In `PanelStartup` ids come from a sequence: they
  grow, and skip values, as a failed insert makes a sequence do.
* **Answers.** Answers to clients are state in `Traffic` only, where a client
  decides by them whether to repeat. Elsewhere the refresh after a commit can fail
  with a 500 when the row is deleted at once, and what a client makes of that is not
  in the code.
* **Start.** The look of `create_all` at what exists and its CREATE TABLE are two
  actions of a worker, and so are the look for the superuser and its insertion. A
  start that raises ends the worker; nothing in the repository restarts it.

## 3. The modules

`Directory` holds the tables and what one committed transaction does to them.
`AccessControl` extends it with the gate and the handlers of the routers `auth`,
`users`, `tenants`, `roles` and `memberships`; an action is named after its
handler, with `Load` in front for the reading part. Routers that leave the
directory alone write an audit row, so they are in it too
(`CommitElsewhere`, `IngestTraffic`; the latter needs no admin role).

`EngineSettings` is about `user_engines`. A row is the set of engines it allows;
`dirty` is the set of columns the ORM will write.

`PlacementMap` is an abstract specification: a relation between users and nodes
that changes by one operation at a time. `Placement` is the two routers and their
tables; the property `MapSpec` says it implements `PlacementMap` with
`nodes <- LiveNodes` (keys with a row) and `placed <- Placed` (rows as pairs).

`CurrentSubscription` is an abstract specification too: which subscription of a
user is in force. One begins when no other of the user is, and several may end
together. `Billing` is the routers `plans` and `subscriptions` with the tenants and
users their rows hang on; the property `OneAtATime` says it implements
`CurrentSubscription` with `current <- InForce` (active rows as pairs of user and
key). Creations and updates keep their two steps, because the first look things up
and the second merge into a row that may have changed. A deletion is one step: a
DELETE that no longer finds its row changes nothing. What a deletion takes along
is `Cascade`: subscriptions go with their tenant or user and lose a plan that goes
(`models.py:133-135`). Creating a plan does not look for its tenant, creating a
subscription looks for plan and user only, and an update looks for nothing, as in
the code. The index of `models.py:143` is modelled as PostgreSQL's; SQLite ignores
its `postgresql_where` and would allow a user one subscription, active or not.

`AtLeastOnce` is what the ingestion of traffic promises a client that repeats a batch
until it is acknowledged: attempts are sent, counted and acknowledged, in this order, and
what is counted stays so. `Traffic` is `ingest_events` from the look-up of its
sender to its answer, with that client, with requests and answers that are lost, and
with the changes of users and nodes that meet it (`DropUser`, `DropNode`,
`UpdateUser`). A row of `traffic_events` has the key <<batch, sending, event>>, so that
a repetition adds rows, as in the code, which identifies no event. Byte counts are
left out: a sum is the set of rows it adds up, and `Unfit` are the events whose counts
a BIGINT does not hold (`C/schemas.py:130` bounds them not at all). The property
`IngestsAtLeastOnce` says that it implements `AtLeastOnce`, where an attempt is
counted when all of its rows are there.

`Addresses` is `allocate_ip`. `PanelStartup` extends it with the start of the older
panel: workers on one database that create the tables and the superuser, serve
registrations, crash and are started again.

`MCAccessControl`, `MCEngineSettings`, `MCPlacement`, `MCBilling`, `MCTraffic` and
`MCPanelStartup` name model values, the batches of the instance and symmetry for TLC.
`AccessControlProofs`, `EngineSettingsProofs`, `PlacementProofs`, `BillingProofs`,
`TrafficProofs`, `AddressProofs` and `PanelStartupProofs` hold the theorems.

History variables: `entitled` in `AccessControl` records whether a request's
actor was entitled at some instant since the request began; `met`, `whole` and
`seen` in `EngineSettings` record which flags were as an update asks at some
instant, whether all were at one instant, and which engines a user was
allowed while a configuration was being served. They are written by `Observe`
only and no guard reads them.

## 4. What the runs show

| Run | Instance | Result |
|---|---|---|
| `access_control` | 2 users, tenants, roles and requests, 3 memberships, names admin and support | `TypeOK`, `ReferentialIntegrity`, `RowsAreUnique`, `WritesAreAuthorised`, `LockoutIsPermanent`, `AuditForgetsTheDeleted` hold |
| `registration` | 2 users, 1 tenant, 2 roles, 1 membership, 2 requests | `RegistrationOnlyBootstraps` is violated |
| `two_tenant_admin` | 1 user, 2 tenants, 2 roles, 2 memberships, 2 requests | `AdminsAreAdmitted` is violated |
| `audit_trail` | as `registration` | `AuditIsAppendOnly` is violated |
| `engine_settings` | 2 users, 2 requests, both engines | `TypeOK`, `EveryFlagTookEffect`, `ServedWasAllowed` hold |
| `engine_merge` | 1 user, 2 requests, both engines | `SubsetTookEffect` is violated |
| `config_race` | as `engine_merge` | `ConfigsHonourFilter` is violated |
| `placement` | 2 users, nodes and names, 3 assignments, 3 requests | `TypeOK`, `AssignmentsSound`, `MapSpec` hold |
| `billing` | 2 users, tenants, plans, names, subscriptions and requests | `TypeOK`, `NothingDangles`, `RowsAreUnique`, `OneAtATime`, `ForeignPlansAreAskedFor` hold |
| `foreign_plan` | as `billing` | `PlansStayInTenant` is violated |
| `traffic` | 2 users, 1 node, 3 batches of 4 events, 2 slots, 2 sendings of a batch, 1 loss | `TypeOK`, `NothingDangles`, `BatchesAreWhole`, `SummaryKeepsCounting`, `IngestsAtLeastOnce`, `DoomIsPermanent`, `EveryBatchSettles` hold |
| `startup` | 3 workers, 2 registrations at a time, 3 names, 5 ids, 2 crashes | `TypeOK`, `NamesAreUnique`, `SuperuserIsBootstrapped`, `SomeoneSurvives`, `AddressesAreDistinct`, `HopeIsKept`, `BootServes` hold |

*Bounds.* Two of each key suffice for every two-party race, for the two-tenant
admin and for a row and its replacement; a third membership allows one user two
admin rows while another row keeps the tables from being empty. Two requests are
the actor and the disturber; `Placement` is small enough for a third, so that
a node can go while two requests race for the same pair. In `billing` two
subscriptions are enough for one to be re-activated while the other begins, and two
tenants for a foreign plan.

In `traffic` one batch has events of two users on one node, one is sent by a user
about itself and names no node, and one has an event no column holds, so a batch can be
stored, can become unstorable through its sender, through somebody else or through a
node, and can be unstorable from the start. `MaxSends` bounds how often a batch is sent
and `MaxFaults` how many requests are lost; one sending more than losses is what
`EveryBatchSettles` needs, and two sendings overlap. In `startup` three workers give a
race a winner and two losers; `MaxCrashes` allows the winner and a later one to
crash; the ids lie on both sides of the ends of the blocks of 253 in `allocate_ip` (1,
253, 254, 506) and at the end of its range (64514), and three of them are in use at most.

There are no other counters and bounds. The theorems below lift all of them, except for
the two liveness properties and for the
violated properties, which need no more than a witness. States that were
checked to be reachable in the `access_control` instance: a locked-out
directory, a commit of a request whose actor has lost the admin role, and a
`delete_role` that takes a membership inserted after its flush.

*Symmetry* is declared over interchangeable keys and slots in the runs that check
safety properties only, for which it is sound. `traffic` and `startup` check
liveness and declare none.

*Deadlock* is checked in every run but two: users can always register or be deleted, so
the control API never stops. In `traffic` it does when nothing is left to
send and everybody has gone, in `startup` when all workers serve, all names are
taken and no crash is left.

*Fairness.* The handlers of the directory may be abandoned at any time and promise
nothing but an answer, so no liveness is stated of them. In `traffic` fairness is weak,
of two kinds: of the steps of a handler, because the event loop runs a coroutine that
is ready and the database answers or its connection breaks, which is a loss and not
the handler's step; and of the sendings of a batch, which is the premise that the client
keeps sending, the client being outside the repository. Deletions, losses and switching users
off or on are not fair. In `startup` it is weak fairness of the steps of each worker
between its start and its serving, which is straight-line code. Starts, crashes and
registrations are not fair: nothing in the repository starts a worker again.

What the properties say:

* `WritesAreAuthorised`: each change of the directory is a registration, or comes
  with the end of an admitted request whose actor was entitled at some instant while
  the request ran, still has a row, and is named in the audit log. The log is kept
  as the set of names in it, so it may have named the actor before. It does not say that
  the actor is *still* an admin at the commit. That is false: the gate's answer is
  used after further awaits.
* `LockoutIsPermanent`: when memberships exist, no active user holds exactly one
  admin membership, and no running request may still pass, then nobody ever
  passes again; registering does not reopen the bootstrap. That such states are
  reachable (for instance by making the first membership a non-admin one) is a
  consequence of `C/security.py:70` an operator should know.
* `AuditForgetsTheDeleted`: what is left of the audit log's immutability. A name leaves
  it only with its user's row, and the entry stays without a name, also when the
  deletion commits in between another request's gate and commit, or deletes its own actor.
* `AdmittedWereEntitled` (proved, not in a run): whoever the gate lets through
  was entitled at one instant, in spite of the separate snapshots. The converse
  is false: a request may be refused although its actor was entitled
  throughout, if the last memberships vanish between count and query.
* `ReferentialIntegrity`, `RowsAreUnique`, `AssignmentsSound`, `NothingDangles`: hold through the
  constraints alone. The mutants drop one constraint at a time and leave the
  router's look-ups, which shows that the look-ups do not suffice.
* `OneAtATime`: no step makes one active subscription replace another. It fails as soon
  as a handler retires the old one itself, or an update may re-activate unchecked.
* `ForeignPlansAreAskedFor`: what is left of `PlansStayInTenant`, which is false. A
  subscription comes to another tenant's plan only by the commit of a request that names
  the plan, and only if it was another tenant's when that request loaded. A rename, a cascade or a new
  row never makes a plan foreign, and a stale update of the active flag never brings back a
  plan that was replaced: its mutant writes the whole row as loaded, and does.
* `EveryFlagTookEffect`: an acknowledged update had its way with each flag,
  although columns that looked unchanged are not written.
* `ServedWasAllowed`: of a user who still exists, no engine is served that was
  forbidden all the time the request ran. It says nothing of users without a row, to whom
  `C/routers/users.py:115` serves a QR code too.

* `BatchesAreWhole`: no sending is ever counted in part, although one event can fail all
  of them. The mutant that skips such events breaks it.
* `SummaryKeepsCounting`: the rows summed up for a user who stays never become fewer, and
  neither do those summed up for nobody: whatever the order of deletions, traffic of deleted
  users stays in the sums.
* `IngestsAtLeastOnce`: a client that has seen a 202 has its batch in the sums for
  good. That a batch is counted *once* is not promised (`docs/architecture.md:81`) and is false:
  a repetition of a batch whose answer was lost, or is late, counts again.
* `DoomIsPermanent`: a batch that cannot be stored, and that no request has stored while
  it could, is never acknowledged, and nothing of it is ever counted by a later sending.
  The mutant is the handler that skips the events that fail.
* `EveryBatchSettles`: a batch that is repeated long enough is acknowledged, unless its
  sender is switched off at some time, or the database cannot take it: an event
  of a deleted user or node, or one with a count too large, fails the batch at every
  repetition, and a client that does not split it repeats it for ever. A unique key on
  events, which would make ingestion exactly-once, breaks this property unless the handler
  treats the conflict as success; that is its mutant.
* `SuperuserIsBootstrapped`: nobody can register the superuser's name before the
  bootstrap, in any interleaving of starts, crashes and registrations, and no
  worker serves without a superuser.
* `SomeoneSurvives`, `BootServes`: workers that start together fail on each other's tables and
  on each other's superuser, but not all of them, and a start leads to service. Both hold
  only up to the next crash. `BootServes` speaks of starts that begin after the last
  one, because without that it is false: a worker that saw no tables fails when
  another has created them meanwhile, and when that other one, serving by then,
  crashes, nobody is left and nothing starts anybody again.
* `HopeIsKept`: while somebody serves, or a worker is at a step it will not fail at, every
  step but a crash leaves it so. This is the step-by-step form of what `BootServes` says
  of whole runs.
* `AddressesAreDistinct`: between the ids 253 and 64514. Ids below 253 have the addresses
  of the next 253 ids (theorem `LowIdsCollide`), and after 64514 the third octet starts
  again, although `app/core/config.py:14` allows 100000 users.

### Disagreements with the repository's own words

1. `C/routers/auth.py:27` promises registration for bootstrap only; the code
   registers anybody whose address is not taken (`registration`).
2. `tests/test_control_api_endpoints.py:30` says an admin membership makes a user
   an admin; with a second one, in another tenant, `scalar_one_or_none`
   (`C/security.py:78`) raises and the user is turned away everywhere
   (`two_tenant_admin`).
3. `docs/architecture.md:42` and `docs/security_observability.md:16` call the audit
   log immutable and append-only; deleting a user sets `actor_user_id` of
   the user's rows to NULL (`models.py:254`, run `audit_trail`).
4. `docs/architecture.md:79` says the engines endpoint sets the allowed subset;
   two racing calls leave a mixture (`engine_merge`).
5. `docs/architecture.md:28` says configurations honour the filter; a deletion
   between two SELECTs lifts it (`config_race`).
6. `docs/architecture.md:26` puts plans and subscriptions "per tenant"; a
   subscription can be given another tenant's plan, since `C/routers/subscriptions.py:18`
   looks it up by id alone and line 47 not at all (`foreign_plan`). When that tenant
   goes, the subscription is left without a plan, which means without the plan's quota.

## 5. What is proved

All theorems hold for any finite or infinite pools of keys and any set of
requests, but for `Exhaustion`, whose set of requests is finite. The assumptions are the named ones of the modules: `Null` is not a key,
a name or a row, `Admin` is a role name, `NoRow` is not a set of engines and
`Wireguard` is an engine.

`AccessControlProofs`: the inductive invariant `IInv` joins `TypeOK`,
`ReferentialIntegrity`, `RowsAreUnique`, `RequestsConsistent` (what `pc` says
about `actor`, `noRoles` and `job`) and `GateInv`. `RequestsConsistent` is needed
because `DeleteRole` commits from `flushed` without looking at its job
again. `GateInv` says that a request that was admitted, *or that counted no
roles*, has been entitled: the count of roles is the one partial answer the gate
carries from one snapshot to the next, and it alone admits. The theorems are `TypeCorrect`,
`IntegrityHolds`, `UniquenessHolds`, `GateSound`, `WritesAuthorised`,
`LockoutPermanent` and `AuditForgets`. `LockoutPermanent` rests on: a locked-out state admits no request,
so only registration, a gate step and the audit row of a traffic batch are
possible, and a new user has no memberships because none dangles.

`EngineSettingsProofs`: `TypeCorrect`, `EachFlagAtomic` and `ServedAllowed`, for any users,
engines and requests. The invariant
says of a running update that a flag it will not write was met already (it was
as asked when loaded), and of an acknowledged one that every flag was met.

Four of the promises that the code breaks have a theorem of the form
`Spec /\ premise => promise`, which shows that there is one reason only (see the table
at the end of this section).

`PlacementProofs`: `TypeCorrect`, `Soundness` and `Refinement` (every step of
`Placement` is a step of `PlacementMap` or a stutter). The refinement needs
soundness: a move or a deletion of one row takes its pair out of the relation only
because no other row holds the pair, and deleting a node that is gone changes
nothing only because none of its rows is left.

`BillingProofs`: `TypeCorrect`, `Integrity`, `Uniqueness`, `Refinement` and `ForeignPlansAskedFor`. The
invariant is the conjunction of the first three; it is inductive because each commit
checks the whole row it writes. Two lemmas carry it, one on writing a row the
constraints accept and one on what a cascade leaves. `Refinement` needs uniqueness
at the commit and the fact that an update never changes a subscription's user.
`ForeignPlansAskedFor` rests on `KeepsTenants`: plans and subscriptions keep their
tenants and a key that a request mentions is not used again, so what a request asks for
belongs at its commit to the tenant it belonged to at its load. One look in the handler
would therefore be repair enough for `PlansStayInTenant`.

`TrafficProofs`: `TypeCorrect`, `Integrity`, `Wholeness`, `SumsGrow` and `Refinement`,
for any batches, any number of slots and any bounds. The first four are inductive on the
types, because a commit checks the foreign keys of all it inserts and two sendings share no
key (`KeysDisjoint`). `Refinement` needs `RequestsConsistent` besides: a slot serves a
sending that its client has made, and one that has stored its batch finds it counted, also
after deletions, which rewrite columns and keep rows. Without it an answer could
acknowledge what was never counted. `AckedCounted` is an invariant of `AtLeastOnce`
(what is acknowledged is counted), proved of the abstract specification and carried over by the
refinement. `DoomPermanent` rests on the fact that a batch once refused by the tables
is refused for good (`RefusedStays`): rows only go.

`Exhaustion` is the part of `EveryBatchSettles` that does not need fairness. Its premise is
that the sender of the batch is not switched off while it exists. The invariant
`Accounted` counts: each sending of a batch that can be stored and is not acknowledged is
in a slot or among the losses, because the look-up of an active sender succeeds, `Reject`
needs a batch that cannot be stored, and every other end of a request is an acknowledgement
or a loss. So a batch sent more
often than requests get lost is acknowledged as soon as its slots are free. The number of slots must be
finite (`IsFiniteSet(Requests)`), since they are counted; connections to a server are.

`AddressProofs`: `WellFormed` (octets between 1 and 254, for every id), `Distinct` (on
`OneToOne`), `LowIdsCollide`, `Periodic` (64515 ids later the addresses start again) and
`RangeIsMaximal` (every id has an address of some id of `OneToOne`, so no larger range would
do and the panel cannot give more than 64262 users addresses of their own). They rest on what division by 253 and 255 does, in
lemmas of their own.

`PanelStartupProofs`: `TypeCorrect`, `UniqueNames`, `Bootstrapped`, `Survival`, `HopeKept` and
`OwnAddresses`, for any workers and names and any set of ids. The inductive invariant adds to
the properties that ids grow (`IdsInOrder`, so that an insertion never meets a row), that a
registration in progress is not of the superuser's name, since a superuser exists whenever
anybody serves (`RequestsConsistent`), and that, as long as nobody has crashed, tables, a superuser or a failed worker mean
that some worker is past the tables (`WinnersStay`): whoever loses a race has a
winner that lives. `HopeKept` looks at `CanComeUp` worker by worker: a worker that takes a
step keeps the hope it had, and the hope of another is taken only by a worker that
has created the tables or the superuser and thereby has hope itself.

Promises of the repository that are false in general, and the premise under which
they are theorems. Each premise is met by runs in which requests race, retry and fail in
every other way. None of them is guaranteed by the code:

| Promise (run that violates it) | Premise | Theorem and argument |
|---|---|---|
| `SubsetTookEffect` (`engine_merge`) | `OneUpdatePerUser`: no two updates of a user overlap | `SerialUpdatesTakeEffect`: until it commits, the flags an update will not write stay as loaded, or the row goes and then a commit that writes fails (`SubsetInv`) |
| `ConfigsHonourFilter` (`config_race`) | `ServedUsersStay`: nobody is deleted between the two SELECTs | `FilterHonouredWhileUsersStay`: the user still exists at the second SELECT, so what is granted is what is in force (`FilterInv`) |
| `AuditIsAppendOnly` (`audit_trail`) | no user is deleted | `AppendOnlyWhileUsersStay`, from `AuditForgets` |
| `AdminsAreAdmitted` (`two_tenant_admin`) | `OneAdminRowEach`: nobody is an admin in two tenants | `AdminsAdmittedWhileInOneTenant`: only the gate's last query turns a request away there |

Only model-checked: the liveness properties `EveryBatchSettles` and `BootServes` (their
safety halves are `Exhaustion` with `DoomPermanent`, and `HopeKept`), and the
violated properties. Out of the prover's reach in general are liveness, ENABLED and what a
recursive definition computes for every input.

## 6. What is not modelled

* Byte counts, quotas, durations, expiry and consumed bytes: nothing reads them but the sums,
  which are modelled as the rows they add up.
* Tokens, passwords and their expiry: library code. A request begins with the user
  its token names. (The older panel signs with a key that every process draws at random
  unless one is configured, `app/core/config.py:8`, so its workers refuse each other's
  tokens; that is a matter of configuration.)
* Row locks and PostgreSQL's deadlock detection: the order in which a flush takes its
  locks is decided by the ORM and by the database and not by this code. An abort is an
  `Abandon` or a loss.
* De-duplication of traffic: the unique key the notes plan belongs to the collector, a
  stub.
* Partitions of the roll-ups (`alembic/`): nothing writes roll-ups, and the migration
  cannot run: the first revision is empty, so the parent table is not there, and
  line 48 passes timestamps (`CURRENT_DATE - INTERVAL`) to a function of dates, which
  PostgreSQL does not find.
* Log-in, `/me` and the lists of the older panel, the audit listing and the other reading
  endpoints: one query each, of rows the models have.
* Key generation and client configurations: an external program, randomness and
  text.
* Columns no property looks at, and tables no code writes (credentials, inbounds, peers, tags,
  accounts of the older panel).
* Stubs, configuration, logging, metrics, interface descriptions and deployment.

RBAC is not per tenant in the code (an admin of one tenant is an admin of all), and
the models follow the code; `docs/security_observability.md:9` says otherwise.

## 7. Plan

All modules of the plan are written: `Directory`, `AccessControl`, `EngineSettings`,
`PlacementMap`, `Placement`, `CurrentSubscription`, `Billing`, `AtLeastOnce`, `Traffic`,
`Addresses` and `PanelStartup`, with their runs and proofs. A module of row locks
was planned and dropped, for the reason in section 6.

When the code grows, these come next: the collector with its unique key (then
`IngestsAtLeastOnce` should become exactly-once, and `EveryBatchSettles` stay), the scheduler's
roll-ups and partitions, and the accounts of the older panel, which would give
`allocate_ip` a caller and `AddressesAreDistinct` users below 253.
