# Formal model of floonet-strfry

TLA+ modules of the concurrent and stateful parts of this repository, TLC
configurations that check them on small instances, and machine-checked proofs
of what matters most. Line numbers refer to the sources as they are in this
repository.

## 1. The system

`floonet-strfry` packages a stock strfry relay with two programs of its own.
The **name authority** (`name-authority/`, Rust, axum on tokio, SQLite) binds
names to nostr keys, sells them for GRIN against payment proofs, and
optionally charges for names or for write access through a GoblinPay server.
The **write-policy plugin** (`plugin/floonet_writepolicy.py`) answers the
relay's question whether to store an event; in paid mode it asks the authority
whether the publisher has paid.

| Part | State | Operations | Talks to |
| --- | --- | --- | --- |
| Name registry (`handlers/registry.rs`) | table `names` | register, unregister, availability | database, rate map, paid layer |
| Name transfers (`handlers/transfer.rs`) | tables `offers`, `transfers` | lodge, read, revoke an offer; claim | database, Grin node, rate map |
| Database and shared state (`db.rs`) | one SQLite connection under a mutex; in-memory maps | queries, statements, schema constraints, open | every handler |
| Grin node client (`node.rs`) | none | `kernel`, `tip_height` over a list of endpoints | Grin nodes |
| Payment proofs (`proof.rs`) | none | parse, verify two signatures | transfers |
| Paid layer (`paid.rs`) | table `paid_grants`, poll throttle | `ensure_paid`, `mark_grant_paid`, `consume_grant` | GoblinPay |
| Paid API (`handlers/paidapi.rs`) | none | quote, paid_status, webhook | paid layer, plugin |
| NIP-98 (`auth.rs`) | none | verify an auth event | every authenticated handler |
| Rate map and replay table (`ratelimit.rs`) | `rate`, `seen_auth`, in memory | allow, cooldown_active, record_op, auth_event_fresh | every handler |
| Name rules (`names.rs`) | the list of reserved names | valid_name, is_reserved, domain_reserved | registry |
| Configuration (`config.rs`) | none once started | from_env, validate, secrets from files, amounts | entry point |
| Setup wizard (`setup.rs`) | the env file; a directory with the token and the webhook secret beside it | config_present, run_wizard | entry point |
| Server entry point (`main.rs`, `lib.rs`) | none | serve, setup, setup --reconfigure, routes | setup, configuration, handlers |
| Read-only handlers (`profile.rs`, `wellknown.rs`, `misc.rs`) | none | profile, by-pubkey, nostr.json, health | rate map, database |
| Write-policy plugin (`plugin/`) | verdict cache | decide, check_paid, reload | strfry, paid_status |
| Deployment (`install.sh`, `deploy/`, `scripts/`) | the systemd unit and its credential drop-in | install, start | setup, entry point |
| Relay core (strfry) | outside the programs | | plugin |

How they interact, and what is hard about it:

* **Handlers interleave between any two statements.** The database mutex is
  taken per statement, never for a whole request. A handler that checks and
  then acts relies on a constraint of the schema, or on nothing.
* **Handlers wait.** A claim makes two requests to a Grin node after it has
  read its offer, `ensure_paid` makes two to GoblinPay. The offer, the name
  and the grant may change meanwhile.
* **Errors read as "no row".** `lookup`, `name_of` and most other queries turn
  a failed query into `None`, so that a check passes.
* **A crash loses the in-memory maps and the requests in flight, never a
  committed statement.** Cooldowns, rate limits, seen event ids and the poll
  throttle start empty.
* **The outside repeats and lags.** Webhooks come late or twice, invoices
  expire, create calls succeed without an answer, node endpoints are at
  different heights, clients hang up.
* **Caches and windows.** The plugin's verdicts, the replay table and the rate
  map each decide by age, and each has a boundary.
* **Setups are cut short, and share.** The wizard changes a directory and up to
  three files, one call at a time, beside a service that systemd may start in
  between. Env files of one directory share the files of their secrets, which
  env file counts depends on who starts the binary, where, and one that cannot
  be read counts as empty.
* **Chains reorganise.** A kernel is read from an endpoint that lags, follows
  or loses a branch, and may be replaced by the next endpoint of the list.

What makes each part correct: a key has at most one active name; a name moves
only by release or by a recorded, fully paid, confirmed sale; an offer and a
payment serve once; a dead offer stays dead and only payments made before its
death count; a grant is paid only if its own invoice is; a free name in
paid mode costs a payment; an auth event is not used twice while it is
remembered; a limit is neither exceeded nor tightened; a kernel reported as
confirmed stays on the chain, and a lookup gives up only when every endpoint
has failed it; the plugin accepts only who has paid and does not refuse a payer
for longer than its caches explain; a token is never readable to others; a
setup, once finished, takes effect as typed for as long as no setup touches its
files, and a later launch that can read them asks nothing again.

## 2. Modules

| Module | Models | Extends / uses |
| --- | --- | --- |
| `AuthorityState` | what every handler shares (`App`), the task of a request, restart | |
| `Registry` | register and unregister | AuthorityState |
| `Transfer` | lodge, read, revoke, claim, the chain and the clock | AuthorityState |
| `NameBook` | the abstract promise: a book of names and a ledger of sales | |
| `NameAuthority` | composition of Registry and Transfer; implements NameBook | Registry, Transfer, NameBook |
| `NodeClient` | `kernel` and `tip_height` over the endpoints, a chain that reorganises | |
| `PaidGrants` | `ensure_paid`, quote, paid_status, webhook, GoblinPay | AuthorityState |
| `PaidRegistry` | composition of Registry and PaidGrants: names for sale | Registry, PaidGrants |
| `WritePolicy` | the plugin: decide, the verdict cache, a lookup | |
| `PaidAccess` | composition of PaidGrants and WritePolicy: the plugin asks the modelled authority | PaidGrants, WritePolicy |
| `AuthReplay` | the age check of NIP-98 and the replay table | |
| `RateLimit` | allow, cooldowns, cleanup of the rate map | |
| `NameRules` | valid_name, look-alikes, reserved names and labels | |
| `RequestGuards` | the order of limiter, NIP-98, replay table, name rules and cooldown in front of the handlers | AuthReplay, RateLimit, NameRules |
| `GrinAmount` | GRIN amounts as digits, both conversions | |
| `Startup` | env files, the wizard, from_env and validate, the service, the drop-in | GrinAmount |
| `*Proofs` | theorems about the module they are named after | that module |
| `Induction` | no code: induction and recursion over numbers, and what it says of sequences, for the proofs | |
| `MC*` | finite instances for TLC | the module they are named after |

**Names and requests.** `owner[n]` is the key of the active row of name `n`;
`offers[o]` holds the mutable columns of the row of offer `o` (an offer is the
hash of its signed event, so the terms are a constant record); `transfers` is
the table of completed sales; `grant[p]` the row of a key in `paid_grants`,
`bill[i]` what GoblinPay knows of an invoice. `cooldown` and `polled` are the
keys of the rate map with a hit in the window of their bucket. `now`, `tip`
and `mined` are the clock and the chain. `task[w]` is the request worker `w`
handles: its program counter and the locals the handler still needs; `Idle`
when there is none.

Handlers have one action per section under a mutex and per call to another
server, in the order of the source. The program counter is named for the
statement that comes next: `claim_kernel` is a claim about to ask the node for
the kernel. A check that returns early is `Check(w, cond, next)`; `Return(w)`
is an answer, whatever its status. A whole transaction (`run_claim_txn`) is
one action. Pure checks of the request alone, made before the first statement,
decide which requests start.

**Nodes.** `chain` is the best branch anybody has, `view[e]` what endpoint `e`
follows, both as the height and the height of one kernel. A branch replaces at
most the last `ReorgDepth` blocks; an endpoint gains at most `Burst` blocks
between two answers of one lookup. `node.rs` asks for the kernel first and the
tip after it, so a block in between counts as a confirmation the kernel did
not have when it was seen; a kernel with at least `MinConf` confirmations is
therefore settled only if `MinConf > ReorgDepth + Burst`, and this bound is
tight (`MCNodeShallow.cfg`). `call.failed` is history: the endpoints that were
asked and failed, added one at a time, which no action reads. Above the bound `ConfirmedStays` justifies the chain of
`Transfer`, which only grows, for the kernels a claim is granted on. Endpoints
differ in height: `Transfer` lets every answer be any earlier tip.

**Paid access.** The composition adds what neither side has: `req` of the
plugin reaches a worker of the authority, which may answer late, to nobody, or
not at all. `paidFor`, `yesAge` and `excused` are history: how long a key's
grant has been paid, how old the authority's last yes is, how long a failed
lookup or a failed read excuses a refusal. Each ages with the clock and none
is read by an action of the code.

**Guards.** A request passes limiter, age check, replay table, name rules and
cooldown as steps of its own, others in between. `uses[e]` is the history of
an event, `log[k]` that of a limit or cooldown: the admitted calls that its
window still holds, which no action of the code reads.

**Startup.** `file[f]` is the environment an env file sets; `f` is the file
`FLOONET_ENV_FILE` names (`custom`), the one in /etc or ./.env. `secret[d]` is
the token file with its mode and `dir[d]` its directory, where `d` is what
`secrets_dir_for` makes of the directory of an env file: /etc, the working
directory, or one of its own. `CustomDir` says where the file of
`FLOONET_ENV_FILE` lies; in the run `startup` in /etc, so that it shares its
token file with /etc/floonet-authority.env. `proc[x]` is the process of the
operator or of systemd: its place in main, what it has loaded and what was
typed.

Every file operation is a step that may fail (`Fail`) or be the last (`Crash`).
An env file that exists may be unreadable or no text: `load_first_existing`
ignores that, no other candidate is tried, and the process goes on `blind`.
Files are truncated and then written, and a launch in between reads an empty
file. The webhook secret is written and read as the token is, and the token
stands for both. The environment systemd hands to the service follows
systemd.exec(5): EnvironmentFile= wins over Environment=.

Who may do what: root everything, the service's dynamic user nothing with a
secret. A user may set `FLOONET_ENV_FILE`, writes nothing in /etc, and gets at
the secrets of a directory unless root made it (`MayUse`). Where the true owner
is not told, an operation may succeed or fail: a write of an env file outside
/etc that root may have left, and a read of a token or an env file by anybody.

`finished[f]` and `settled` are history. `finished[f]` is the answers file `f`
was last written with, until a setup changes `f` or the token `f` names;
`settled` is the last launch that could read its env file, asked and came up,
until a setup changes anything.

**What the abstraction leaves out.** Wording, HTTP statuses, JSON, logging.
Cryptography is one Boolean: a proof verifies or it does not. The modules of
the handlers have no limiter and no NIP-98 in front: a request one of them
refuses leaves no trace there, and RequestGuards models them. `DbFaults` makes
any statement fail where the code has a path for it: a query then reads as "no
row", a write writes nothing and the handler takes its error path, or ignores
the error where the code does. The clocks only go forward; in AuthReplay one
clock stands for wall clock and `Instant`, and reading `Instant` and taking
the lock is one step. The price is a number up to twice `MaxI64`, so that the
cast of the `u64` to the `i64` column is the two's complement one.

## 3. Runs

Bounds: two workers reach every race of two requests; a third request, such as
the re-registration between the steps of a release, reuses a worker that has
answered. Times and heights go one past the last boundary the code compares
with (expiry, grace, confirmation depth, cache expiry).

| Run | Configuration | Shows |
| --- | --- | --- |
| `names` | two names, two keys, two live offers of one name (a lost race or a failed query lets them be), one payment that fits both, failing queries (2,704,468 states) | One active name per key although the checks of register and claim race and may be blind; an offer and a payment serve once; only sales move names; the authority implements NameBook |
| `sale` | one offer, a good proof of one payment and an unsigned one of another, time past expiry and grace, three blocks, depth 2 | Every recorded sale was paid in full and confirmed; a dead offer stays dead and its death record is written once; late claims stand on the recorded death height |
| `answered` | one worker, an offer that fits the price column and one that does not, failing statements, under `FairSpec` (327,706 states) | Every request is answered or lost in a restart; the offer with the huge price never sells at another price |
| `node` | two endpoints, reorganisations of one block, one block between two calls, three confirmations, height 4, under `FairSpec` (103,597 states) | A kernel reported as confirmed stays where it was reported; a lookup fails only when every endpoint has been asked and has failed; every lookup ends |
| `paid_name` | `PayMode = "name"`, one name, two keys, two invoices, failing statements | A paid grant has its own settled invoice; a free name is taken only by a payer |
| `paid_access` | `PayMode = "write"`, one key, one invoice, two workers, six gift wraps of which each static check denies one, cache 2 s, failed lookup 1 s, lookups of up to 1 s (704,000 states) | Accepted only who has paid, on a verdict no older than cache and lookup explain; a payer is refused as briefly, or after a failed lookup or read |
| `guards` | two requests, an event dated now and one post-dated by all the age check admits, one caller, windows of 1, 2 and 3 s, six spellings of which four are look-alikes of the domain (718,179 states) | Two uses of one event are a whole window apart; a limit holds in every window and refusals cost nothing; a cooldown is exact below the cleanup size |
| `startup` | two launches by hand beside the service, of a user, root, root with a second env file in /etc, and docker compose; three sets of answers, env files and tokens that cannot be read, under `FairSpec` (41,518 states) | The token is never readable to others; a finished setup is whole, takes effect to the nanogrin, also where setups share a token file, and is not asked again; the wizard writes over the setup of its own env file only in a reconfiguration or when it could not read it; every launch comes up or ends |
| `release_by_owner` | no offers, two keys | Violated: see 5 |
| `late_payment` | one offer, a good proof, one revocation, no faults | Violated: see 5 |
| `fresh_payment` | one key, one invoice, two workers | Violated: see 5 |
| `paid_service` | install.sh, the wizard and the service after them | Violated: see 5 |

`names` passes as well with the second offer made to a third key and one name
(2,339,460 states). A `paid_access` with two invoices and two gift wraps passes
as well (4.3 million states, 3 minutes); one invoice is enough for what the
plugin adds, and `paid_name` has two. Two launches reach a setup cut short and
the next one, a setup and its repetition, and a setup beside the one whose
token it takes, with the service started again in between; without
`StartupSettles`, which is slow, `startup` passes as well with three launches
and the second env file in the working directory of the user (900,876 states).
The runs of Startup stop for good when the launches are used up and nothing is
left to do, so they do not check for deadlock. A question of the wizard is
asked 3 times instead of 5, amounts have 2 decimals instead of 9 and overflow
at 9000: the same boundaries, closer.

Each passing property has a mutant in `PROJECT.json`: a bug the code could
have, written as an operator marked `MUTANT` next to the one it replaces, with
which TLC finds that property violated.

Symmetry is used for workers (and, in the paid runs, invoices), which no
definition tells apart, and never in a run with a liveness property.

**Fairness.**
* `NameAuthority!FairSpec`: weak fairness of each worker's next handler step.
  tokio polls a ready task, a statement on SQLite returns or fails, and a node
  request ends after its 20 s timeout (`node.rs`). No new request, block, tick
  or crash is assumed to happen. In particular no payment need ever confirm: a
  claim that is not confirmed is answered, not held.
* `NodeClient!FairSpec`: weak fairness of a step of the lookup, by the same
  timeout. Nothing is assumed of the chain, and no endpoint need ever answer.
* `Startup!FairSpec`: weak fairness of the steps of each process. System calls
  return, and at a question the operator types or the stream ends; an answer
  that is not understood is such a step.

## 4. Proofs

All for every value of the constants, under the assumptions named where the
constants are declared (`None` is no key, no proof and no invoice; bounds and
times are naturals; offers, proofs, events and answers are well typed; an
answer of the wizard is never the empty domain, as each question has a default;
`Unset` is none of the values a variable can have). An assumption beyond these
is part of the theorem it belongs to.

| Module | Theorem | Statement |
| --- | --- | --- |
| NameAuthorityProofs | `TypeCorrect` | `Spec => []TypeOK` |
| | `OneName` | `Spec => []OneNamePerKey` |
| | `SingleUse` | `Spec => []SoldOnce` |
| | `SalesMoveNames` | `Spec => OnlySalesMoveNames` |
| | `Refinement` | `Spec => ImplementsBook` |
| | `DeathFinal` | `Spec => DeathIsFinal` |
| | `PaymentInvariant` | `Spec => []PaymentInv`, the inductive invariant below |
| | `Paid` | `Spec => []TransfersPaid` |
| | `PriceExact` | `Spec => []RecordedPriceExact` |
| | `LateClaims` | `Spec => []LateClaimsSettled` |
| NodeClientProofs | `NodeTypeCorrect` | `Spec => []TypeOK` |
| | `KernelConfirmedStays` | `DepthSuffices => (Spec => []ConfirmedStays)` |
| | `LookupFailsOnlyAfterAll` | `Spec => []FailsOnlyAfterAll` |
| RequestGuardsProofs | `GuardsTypeCorrect` | `Spec => []TypeOK` |
| | `ReplaysRefused` | `Spec => []UsesApart` |
| | `ShortestLimitKept` | `Spec => []WithinLimit(b)` for a limit `b` whose window is the shortest |
| | `RateKept` | `Spec /\ []LimitsSheltered => []WithinRate` |
| | `LimiterCounts` | `Spec /\ []LimitsSheltered => []LimiterExact` |
| | `CooldownCounts` | `Spec /\ []CooldownSheltered => []CooldownExact` |
| | `FewCallersSuffice` | `FewCallers => (Spec => [](LimitsSheltered /\ CooldownSheltered))` |
| PaidRegistryProofs | `PaidRegistryTyped` | `Spec => []TypeOK` |
| | `PaidGrantsSettle` | `Spec => []PaidGrantSettled` |
| | `ClaimsArePaidFor` | `Spec => NamesArePaidFor` |
| PaidAccessProofs | `AcceptedHavePaid` | `Spec => []PublishersHavePaid` |
| | `VerdictsAreFresh` | `Spec => []AcceptedOnFreshVerdict` |
| | `PaidAreHonoured` | `Spec => []PaidIsHonoured` |
| StartupProofs | `TokenStaysPrivate` | `Spec => []TokenPrivate` |
| | `SetupsAreWhole` | `Spec => []SetupWhole` |
| | `StartupTypeCorrect` | `Spec => []TypeOK` |
| | `AnswersTake` | `Spec => []AnswersTakeEffect` |
| | `SameAgain` | `Spec => []FirstRunThenSame` |
| | `NeverClobbered` | `NoEmptyDomain => (Spec => NeverClobbers)` |
| | `ReadExactly` | an amount that is read is worth exactly its digits |
| | `WrittenExactly` | an amount that is written is exact and reads back |

**Names and sales.** (1) `BookStep`: whatever action is taken, the `names` and
`transfers` tables stay, or a free name is inserted, or a name is released, or
a `Sale` happens, each under the constraint the schema gives. One name per
key, single use, the moves of names and the refinement follow from that case
split alone, which says that the checks in the handlers are advice and the
constraints decide. (2) Death is final because every UPDATE that can reach a
dead row keeps its height and its time. (3) `TransfersPaid` is not inductive:
nothing in a state with an empty ledger says that a claim about to run its
transaction has a payment. `PaymentInv` adds `Evidence`, what a claim in
flight knows at each program counter: past `claim_owner` its proof matches;
past `claim_kernel` the kernel is on chain and the height it read is the real
one or missing; past `claim_depth` the kernel is deep enough and, for a dead
offer, no higher than its death height. Evidence outlives the steps of others
because the chain only grows and death is final; a claim's own step adds the
next piece. `RowPaid` is evidence handed over to the ledger.

**Nodes.** Every endpoint's view agrees with the chain below its last
`ReorgDepth` blocks (`ViewsBehind`); between the two calls of a lookup the
kernel found is settled if it lay deep enough then, and the endpoint has
gained at most `Burst` (`FoundSettled`); so what is reported deep enough is
settled (`ReportedSettled`). While a lookup asks endpoint `at`, the endpoints
that have failed it are those before `at`; the lookup errs at the last one, so
that all have.

**Guards.** `Remembers`: every use of an event is at most as old as what the
table holds for it, or a whole window old already. Pruning drops only the
latter, so the next use is a window later.

**Limits.** The map and the history are different sequences: an operation is
recorded without pruning, a refused call prunes without recording, the cleanup
drops whole keys. `RateAgrees` says that nevertheless the two count the same,
in the window now and in the window of every later time, which is what a step
of the clock needs. From it a call is admitted exactly if the history has room
(`LimiterCounts`), so the history never outgrows the ceiling (`RateKept`). The
hypothesis is about the cleanup of a map of more than 50,000 keys, which goes
by the window of the bucket that is called, whichever bucket a key is of: a
bucket is *sheltered* if the map is not that large or no limit has a shorter
window. The one with the shortest window, by default that of reads with 60 s, is
always sheltered (`ShortestLimitKept`). By default the write limit of an hour
and the cooldown of a release are sheltered while the map is small; without the
hypothesis `MCCleanup.cfg` refutes the statement for the cooldown.
`FewCallersSuffice` derives it from the number of buckets and callers.

**Payments** (`PaidGrantsProofs` holds the lemmas, `PayInv` the invariant). A
grant's invoice was made out to its key, and is settled if the grant is paid;
a request that is about to mark a grant, or to insert a name in name mode, has
seen such an invoice settled. Each step of the paid layer keeps both for the
table and for every other request, because an invoice keeps its key and, once
paid, stays paid.

**Paid access.** `PayInv`, and what the plugin holds in terms of bills and
clocks: at most one ensure_paid serves the plugin, for the key it waits for
(`LookupServed`); a cached yes is a settled invoice, and its age and what is
left of it make at most a cache time, and the like for a cached no or its
excuse (`CacheSound`); an answer on its way is no older than the lookup
(`LookupSound`); the last reply follows (`ReplySound`).

**Startup.** `Knows`: a wizard between protecting the directory and setting the
mode of the token has a private directory, unless it does not own it and then
cannot write the token either; one about to write the env file has its token
where the file will look for it. Everything else a process does leaves the
files of a finished setup alone, or takes every setup whose env file or token
it touches out of `finished`. `SetupsAreWhole` and `AnswersTake` are about what
remains, for every place `FLOONET_ENV_FILE` may name: that a setup can be taken
out by one of another env file is the disagreement `SetupsApart` shows.

What a launch comes up with is a second invariant over the first (`Loading`).
Only the wizard writes an env file, and only the operator's process runs it, so
what a process has loaded is still what the files say (`Found`), or nothing, if
the file could not be read (`Current`). An environment that comes from a
finished file alone *shows* its answers, through render_env and the
non-overriding load to the variables `from_env` reads (`ConfigShown`,
`TokenShown`). What the wizard accepts as well answered passes `validate`
(`WellAnsweredValid`), and the values are those that were typed (`ValidFits`).
`SettledSound` carries the first launch over to the next one: the file it
finished is the one that is found, the configuration is a function of it, and
whoever made the directory of its token then gets at it again.

`NeverClobbers` needs that an env file is seen as present, so that the wizard
does not run. Four things can hide it, and each is excluded by name: an env
file in the way that no setup finished (`AllWhole`), a file that cannot be read
(`blind`; `MCConfigKept.cfg` is the launch that then writes over it), the file
being that of another setup (`MCSetupsApart.cfg`), and a domain set to nothing
in the environment of the caller (`NoEmptyDomain`; `MCEmptyDomain.cfg`).

**Amounts.** The price passes through both conversions. `ReadExactly` and
`WrittenExactly` hold for any number of digits, by induction over them: the
number of a sequence joined from two is that of the first, scaled by the length
of the second, and that of the second (`NumberJoin`); digits of a number give
it back; zeros at the end of the places change neither side.

`Induction` is what makes this and the limits provable. A theorem schema
over a statement of its own is out of the provers' reach, so induction is
stated of a *set* of numbers and recursion of a *function* that makes a step,
which first-order provers instantiate; both follow from the well-foundedness of
the order of the naturals. The model therefore writes `Retain`, `Number` and
`TenTo` as recursive functions.

Model-checked only: liveness (`RequestsAnswered`, `LookupEnds`,
`StartupSettles`), which needs fairness and ENABLED and is outside the prover's
reach. Every other property of a passing run is a theorem above.

## 5. Where code and documentation disagree

Four runs keep a counterexample:

* `ReleaseByOwner` (`registry.rs:303`): a release that read the owner before
  its name was released and taken by another key, or sold, takes the name from
  its new owner; the UPDATE names no owner. README.md:232 says owner only.
* `LatePaymentRefused` (`transfer.rs:464`): a claim is held to the height an
  offer died at only if it read the offer as dead. One that read it live goes
  on while a revocation records the death, and buys with a kernel above that
  height, against transfer.rs:540-541 and tests/transfer.rs:616-637. In the run
  the kernel is mined after the revocation asked for the tip; with the depth of
  ten blocks that is the default this takes minutes within one claim. It needs
  no time at all if the height of death came from an endpoint that lags
  (`MCTipsFall.cfg`): the kernel may then be old and deep.
* `FreshPaymentPerClaim` (`registry.rs:217`): two registrations of one key in
  flight pass the paywall on one grant; when the first name is released before
  the second insert, the second claim is free, against README.md:190-192. A
  restart between insert and consume_grant has the same effect and is in the
  model, but no run shows it alone.
* `PaidServiceStarts` (`install.sh:142`): the env file the wizard wrote names
  the token in a directory only root may enter and wins over the drop-in's
  credential, so the service of a paid authority does not start, against
  floonet-authority.service:27-29.

The following were met as well. Each is stated as a property in the module
named, and the configuration given produces its counterexample.

| Property | Configuration | Disagreement |
| --- | --- | --- |
| `NameAuthority!LateClaimFailsClosed` | `MCSale.cfg` with this property | if the UPDATE that expires an offer or the reload after it fails, the claim that caused it goes on with the offer as live, without grace or death height (`transfer.rs:109-110`); `transfer.rs:97-100` says that a late claim without a recorded height fails closed |
| `NameAuthority!ConsumedStays` | `MCConsumed.cfg` | a revocation that read "expired" overwrites the "consumed" a late claim wrote in between (`transfer.rs:330`); ledger and name are right |
| `NameAuthority!CooldownRespected` | `MCCooldown.cfg` | register reads the cooldown before its queries; a release in between does not block it (`registry.rs:100-104`) |
| `NameAuthority!OneLiveOffer` | `MCOneLiveOffer.cfg` | "At most one live offer per name" (`transfer.rs:201`) is checked and not enforced: two lodgings race |
| `NodeClient!ConfirmedStays` | `MCNodeShallow.cfg` | with a depth of `ReorgDepth + Burst` a reorganisation undoes a kernel reported as confirmed |
| `NodeClient!TipsNeverFall` | `MCTipsFall.cfg` | after a fail-over the tip may be lower than the one before (`node.rs:143-159`) |
| `PaidRegistry!SettledInvoiceKept` | `MCSettledKept.cfg` | two first requests of a key make two invoices; whoever pays the replaced one is not recognised (`paid.rs:326`) |
| `PaidAccess!StatusMintsNothing` | `MCStatusMints.cfg` | a status read of a pending grant whose invoice expired creates one (`paidapi.rs:65-73`) |
| `RequestGuards!UsedOnce` | `MCReplayOnce.cfg` | an event post-dated by 5 s passes the age check at the very second the table forgets it (`ratelimit.rs:13`) |
| `RequestGuards!CooldownExact` | `MCCleanup.cfg` | above 50,000 keys the cleanup drops cooldowns by the window of the call that triggers it (`ratelimit.rs:54`) |
| `RequestGuards!NoLookalikes` | `MCGuards.cfg` with this property | "Fold a name to catch separator/digit look-alikes of reserved terms" (`names.rs:101-104`, README.md:223-224): a `1` folds to an `i` and not to an `l` (`names.rs:110`), so a reserved name with a `1` for its `l` is given away. `LooksLike` says what a reader takes for the same, letter by letter, and is not the table of the code |
| `PaidAccess!WrapHasOneTag` | `MCWrapOneTag.cfg` | "rejects any tag other than that single `p` tag" (`floonet_writepolicy.py:26-30`): p tags without a value are neither counted nor refused (`floonet_writepolicy.py:396-428`), so a gift wrap may carry any number of them |
| `PaidAccess!RecipientIsHex` | `MCWrapOneTag.cfg` with this property | `$` matches before a final newline, so the pattern is not anchored at the end (`floonet_writepolicy.py:145`) |
| `Startup!WizardStaysAway` | `MCWizardAgain.cfg` | "On the next run that file is found" (`setup.rs:21-22`): not if a reconfiguration cut short has left an empty file that is looked at before it; a launch by hand then asks again and writes over the file that was finished |
| `Startup!ConfigKept` | `MCConfigKept.cfg` | "Refuses to clobber an existing config unless --reconfigure is given" (`main.rs:95`), "it never clobbers an existing config" (README.md:36): an env file that cannot be read counts as one that sets nothing (`setup.rs:53-55`), so a second `setup` asks again and writes over the finished file |
| `Startup!SetupsApart` | `MCSetupsApart.cfg` | "the wizard's env file overwrite is the only destructive step" (`main.rs:96`): the directory of the secrets follows from the directory of the env file alone (`setup.rs:394-401`), so setting up a second authority beside the first replaces the token the first one's env file names |
| `Startup!NeverClobbers` | `MCEmptyDomain.cfg` | "Refuses to clobber an existing config" (`main.rs:95`): a `FLOONET_DOMAIN` set to nothing counts as set when the env file is loaded and as not set when it is looked for (`setup.rs:65-69`, `155-158`), so a setup asks again and writes over the file |
| `Startup!WizardValidates` | `MCDomainPort.cfg` | "always satisfies validate" (`setup.rs:188-195`): a domain typed with its port, and a price that fits no u64, do not |

WrapHasOneTag and RecipientIsHex are about the plugin alone: strfry may refuse
an event before.
Two smaller ones have no property: `sudo setup` in a directory whose ./.env
holds a domain exits without writing /etc; and `main.rs:96` calls overwriting
the env file the only destructive step, but a reconfiguration removes its own
old token before it.

## 6. Not modelled, and the plan

* Payment proofs (`proof.rs`): the 73-byte message, ed25519, bech32 and
  slatepack addresses are pure cryptography and encoding, with no state.
* NIP-98: signature, kind, url, method and payload binding depend on the
  request alone; they decide which events are presented in RequestGuards.
* Read-only handlers after the limiter: one query each, and an answer.
* Quoting and comments in env files, terminal echo, wording of the wizard.
* The relay core is not part of the repository. Building, TLS and service
  accounts in `install.sh`, the purge and the smoke test are shell and I/O.

The order of work was: registry and transfers, because they decide ownership;
the paid layer; the guards; the plugin; then the compositions (PaidAccess,
RequestGuards), the node client and the startup, each with its proofs. What
is left: liveness of the paid layer, where a client that keeps asking finds its
settled invoice.

## 7. Running

    tlc -workers 2 -config MCSale.cfg MCNameAuthority
    tlc -workers 2 -config MCPaidAccess.cfg MCPaidAccess
    tlc -workers 2 -config MCStartup.cfg MCStartup
    tlapm NameAuthorityProofs.tla

The other configurations go with the MC module of their component: MCNames,
MCAnswered, MCReleaseByOwner, MCLatePayment, MCConsumed, MCCooldown and
MCOneLiveOffer with MCNameAuthority; MCPaidName, MCFreshPayment and
MCSettledKept with MCPaidRegistry; MCStatusMints and MCWrapOneTag with
MCPaidAccess; MCGuards, MCReplayOnce and MCCleanup with MCRequestGuards;
MCNodeShallow and MCTipsFall with MCNodeClient; MCPaidService, MCWizardAgain,
MCConfigKept, MCSetupsApart, MCEmptyDomain and MCDomainPort with MCStartup.
Where section 5 says "with this property", it takes the place of the INVARIANTS
and PROPERTIES of that file.
