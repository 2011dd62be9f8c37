# A TLA+ model of OpenSecret

OpenSecret is a multi-tenant backend that runs in an AWS Nitro enclave. Clients attest the enclave, agree on a
session key, and send every request encrypted under it. Behind that channel the program keeps user accounts whose
data is encrypted under a per-user seed, streams language-model responses into an encrypted transcript, relays model
and web-search providers, and lets platform developers manage organizations and projects.

This directory holds TLA+ modules for the parts of the program whose correctness depends on interleaving, failure,
ordering or a limit; TLC configurations that check them on small instances; and TLAPS proofs, free of
those bounds, for the caches of secrets, the response stream, user accounts and sign-in, conversations, the developer
platform, the provider transport and the start of the program. `PROJECT.json` maps every definition to the lines it models. Paths below are relative to
the crate's `src/` directory.

## 1. Inventory

### 1.1 Parts, their state and how they interact

| Part | State | Operations | Interacts with |
|---|---|---|---|
| Encryption sessions (`lease_aware_cache.rs`, `encryption_middleware.rs`, `secret_cache_maintenance.rs`) | LRU map from session id to key, with deadline and lease counter | insert, acquire, touch, release, scan, retire a batch | every HTTP request pins its session; filled by key exchange |
| Attestation handshake (`bounded_ttl_cache.rs`, `attestation_routes.rs`) | LRU map from nonce to ephemeral secret | park, take, retire | produces encryption sessions |
| Responses (`web/responses/handlers.rs`, `storage.rs`, `models/responses.rs`) | response row, item rows, three channels, five tasks | create, stream, store, cancel, delete | model provider, tools, conversations, billing |
| Context builder (`web/responses/context_builder.rs`) | none of its own | choose and cut the rows of a prompt | responses, the item tables |
| Tools and web search (`web/responses/tools.rs`, `web_routes.rs`, `web_safety.rs`, `kagi.rs`, `brave.rs`) | the URLs a response may open | search, open, collect; paid search and extraction | responses, billing, search providers |
| Conversations, projects, instructions, lists (`web/responses/*.rs`, `db.rs`) | rows, one default instruction | CRUD, batches, moves, paginated lists | responses |
| User accounts (`main.rs`, `db.rs`, `login_routes.rs`, `protected_routes.rs`) | users row, seed wrappings, verification, reset and deletion requests | register, log in, verify, change password, destructive reset, delete | key-value store, every authenticated route |
| Tokens and API keys (`jwt.rs`, `openai_auth.rs`, `user_api_keys.rs`) | signed tokens, key rows | mint, refresh, present, create, delete | accounts |
| Third-party sign-in (`oauth.rs`, `oauth_routes.rs`, `apple_signin.rs`, `models/oauth.rs`) | bounded store of states, connections, cache of Apple's keys | authorize, call back, sign in, refresh | accounts |
| Key-value store (`kv.rs`) | rows encrypted under the user's seed | put, delete, delete all | accounts |
| Organizations (`web/platform/*_routes.rs`, `models/org*.rs`, `models/invite_codes.rs`) | orgs, memberships, invitations | create, delete, change role, remove, invite, revoke, accept | platform accounts, projects |
| Platform accounts (`web/platform/login_routes.rs`, `me_routes.rs`) | users, verification rows, reset rows | register, log in, verify, change and reset a password | organizations |
| Projects, secrets and settings (`project_routes.rs`) | rows | CRUD gated by the membership role | organizations, sign-in, mail |
| Provider transport (`provider_client.rs`) | one attested client, an initialisation claim, a refresh gate | discover, refresh, send, replay | every provider call |
| Model access and routing (`model_config.rs`, `provider_routing.rs`, `proxy_config.rs`, `billing.rs`, `os_flags.rs`) | model tables, cache of flags | resolve, gate, choose a provider | billing and flags services |
| Completions (`web/openai.rs`, `token_usage.rs`, `sqs.rs`) | relay task, channel, usage so far | call, relay, bill, record, publish | transport, responses |
| Audio (`audio_utils.rs`, `openai.rs`) | chunks and their tasks | split, send with retries, merge | transport |
| Start-up (`main.rs`, `aws_credentials.rs`, `migrations.rs`, `../entrypoint.sh`) | enclave key, JWT secret, AWS credentials, required and third-party secrets | make once, read later, refresh, migrate | the whole program; the Maple project |
| Mail, health, signing | none that others read | fire and forget, read | - |

### 1.2 What is hard

* Concurrency. Handlers run on a multi-threaded runtime and are preempted at every `await`. A handler typically
  reads a row, awaits, and writes later; whether it then acts on a stale copy decides most of the properties below.
  Transactions run at READ COMMITTED, so other requests act between two statements of one.
* Lock-free release. A session lease is dropped outside the cache's mutex, in two steps.
* Bounded channels, stores and caches: one channel with back-pressure and one without in a response, a store of
  sign-in states that must refuse, caches that must evict.
* Cancellation. `tokio::select!` drops the response loop at whatever `await` it is in; a client leaves at any time.
* Failure of one of several steps: a database call inside the storage task, an insert before an update.
* Time: sliding deadlines, expiring codes, clock readings taken before waiting for a lock, answers that overtake
  one another, caches that outlive what they copied.
* Services that fail: billing, flags, Apple, search and model providers, KMS, the parent instance.

The list, each hazard at its line, is under `hazards` in `PROJECT.json`.

### 1.3 What makes each part correct

* Sessions: a pinned session survives, whatever the cache is doing; an abandoned key is dropped.
* Handshake: an ephemeral secret makes at most one session; a burst of strangers displaces only older secrets.
* Responses: the stored transcript has the order the client saw, only moves forward, is never left open, and a
  response marked completed is whole. A prompt keeps the order and the pairs of what is stored.
* Tools: only a URL that the user or a search result surfaced is opened, and a later response judges alike.
* Conversations: limits, ownership, one default instruction, batches that move together, lists without gaps.
* Accounts: the password and the wrappings of the seed never come apart; a stale reset code destroys nothing; a
  replaced credential opens nothing; a token of one kind does not open another door.
* Sign-in: a state serves one callback; a subject reaches its own account, or none; a withdrawn key expires.
* Platform: an invitation admits once, while it is live; an organization keeps an owner; nobody writes in another
  organization's project; a reset code writes one password.
* Providers: one discovery at a time and one owner of the recovery; a body is written once; usage is billed once,
  as stated; an outage opens nothing that is paid for.
* Start-up: nothing is ever encrypted under a key that a later process could not find.

## 2. Modules

| Module | Models | Run; proofs |
|---|---|---|
| `RecencyOrder` | the order of the external `clru` map, as a relation | through the two caches |
| `SessionCache` | encryption sessions | `secrets`, `live`; `SessionCacheProofs` |
| `PendingAttestations` | attestation handshake | `live`; `PendingAttestationsProofs` |
| `ResponseRecord` | abstract: what is promised of one stored response | refined by `ResponseStream`; `ResponseStreamProofs` |
| `ResponseStream` | the five tasks behind one streamed response | `response_stream`, `response_hang`; `ResponseStreamProofs` |
| `Credentials` | one user account and its key-value rows | `accounts`; `CredentialsProofs` |
| `EmailVerification` | codes that verify a user's address | `accounts`; `CredentialsProofs` |
| `UserAccess` | tokens, third-party tokens, API keys | `accounts`; `CredentialsProofs` |
| `OAuthFlow` | OAuth states, callbacks, accounts and connections | `sign_in`; `SignInProofs` |
| `AppleKeys` | the cache of Apple's signing keys | `sign_in`; `SignInProofs` |
| `Organizations` | organizations, memberships, invitations | `platform`, `organizations_owner`; `OrganizationsProofs` |
| `PlatformAccounts` | accounts of platform developers | `platform`; `OrganizationsProofs` |
| `Projects` | projects, secrets, settings | `platform`; `OrganizationsProofs` |
| `Conversations` | conversations and their projects | `conversations`; `ConversationsProofs` |
| `Instructions` | instructions and the default one | `conversations`; `ConversationsProofs` |
| `Pagination` | lists walked page by page while they change | `conversations` |
| `ContextBuilder` | the prompt of a model turn | `conversations`, `context_query_lost` |
| `ProviderTransport` | the attested client and its recovery | `providers`, `live`; `ProvidersProofs` |
| `ModelAccess` | model tables, gates, routing, flags cache | `providers`; `ProvidersProofs` |
| `Completions` | call, relay, usage, recording | `providers`, `live`; `ProvidersProofs` |
| `SseFrames` | cutting a byte stream into events | `providers` |
| `Transcription` | splitting, sending and merging audio | `providers`, `live` |
| `WebTools` | which URLs a response may open | `web` |
| `WebRoutes` | paid search and extraction routes | `web` |
| `Startup` | enclave secrets, AWS credentials, migration | `live`; `PendingAttestationsProofs` |

Definitions whose comment starts with "Mutant" are plausible bugs. They are not part of any specification;
`PROJECT.json` says which definition each replaces and which property must then fail.

### The MC modules

`MCSecrets` gives `SessionCache` its symmetries. Components that live side by side are checked by one run. `MCAccounts`, `MCSignIn`, `MCPlatform`,
`MCConversations`, `MCProviders`, `MCWeb` and `MCLive` hold the variables of several components and a variable `part`,
chosen in `PartInit`. Only the chosen part moves in `PartNext`; the others stay as they began, so a run explores the
disjoint union of its parts and every property is checked on the part it is about. A part is an instance of
a component with its own bounds; where a component appears twice, one instance is wide and short, the other narrow
and long. Beside the parts, an MC module names the unrestricted instance of each component (`Email`, `Access`, `Notes`,
`Accounts`, `Hosting`, `Apple`, `Program`, `Gates`, `Relay`), with all of its constants: the properties are stated of it, and the theorems
are about it, so the two speak of the same formula. A part restricts the constants of that instance, so its steps are
steps of it. The parts named *serial* have one request in flight: they check what the code guarantees only then (section 4 says
what goes wrong otherwise). The assumptions of the instances are assumed again in the MC module, so that TLC
evaluates them.

A component states its properties one by one, next to its specification. The MC modules join those that are facets of
one statement into the property a run checks (`TablesAgree`, `AuthorityIsEarned`, ...), a type invariant among
them; the comment above each says what its parts are. TLC reports the violated conjunct by name for action properties and
by its values for invariants.

Some parts use fewer members of a set than the run has. The others then stay in their initial state throughout, so a
permutation of the whole set maps a behaviour to a behaviour of the same part, up to which members take part, and no
property tells members apart: the symmetry sets remain sound. `MCLive` and `response_stream` use none, as TLC's
liveness checking requires.

### SessionCache and RecencyOrder

`clru` orders its keys by use. `older` is the set of pairs (k, l) with k less recently used than l, which is easier
to prove about than a list. Each method of the map runs under one mutex and is one step. `slotOf[k]` is the
heap slot of the entry, so a session that was replaced under the same id is a different slot.

A request's life is `Admit` (decrypt_request acquires), `TouchSession`, optionally `EncryptAcquire` and
`EncryptTouch` (encrypt_session_data holds a second lease for a moment), `Finish`. Dropping a lease is `DropCount`
(Drop decrements the counter) and then `DropArc` (the compiler drops the Arc); either may be interleaved with
anything, and `HasExternalLease` is true while either is outstanding, as in the code. `StoreSession` evicts the
least recently used unleased entry, or refuses. The maintenance task is `PurgeTick` (clock), `PurgeScan` (the
snapshot, stopping at the first live entry), `PurgeBatch` (re-checks each key; yields between batches).

A request that was admitted and does not find its session ends in `pc = "lost"`; `AdmittedNeverLost` says it does
not happen. `LeaseLimit` is `usize::MAX`, where `checked_add` refuses.

### PendingAttestations

`CreateEphemeralKey` parks a numbered secret under a nonce; `TakeSecret` and `FinishExchange` are the two halves of
key_exchange around its cryptography. `PurgeTick` reads the clock and `PurgeRetire` uses that reading after the
write lock was obtained, when newer entries may have arrived. The nonce is hashed before use; the hash is taken to
be injective.

### ResponseStream and ResponseRecord

One response, from `Accept` (the row is created) and `PersistUserMessage` to the end of the storage task. `Spawn` is
the SSE generator starting the storage task and the orchestrator. `Loop` is the assistant/tool loop, one step per
provider chunk and per message sent; `Send` waits for room in the storage channel and offers the message to the
client with `try_send`. `Listener` is the cancellation branch of `select!`, which abandons the loop between any two
steps. `Storage` is the storage task: one action per message type with its database calls, then the status and the
stragglers, in the order the end requires (`StoreEnd`, `StoreStatus`, `StoreSettle`). `Endpoints` are the cancel and
delete handlers. The client may `Disconnect`, and may read as slowly as it likes.

Text is the number of deltas it is made of. `created_at` is the logical time the storage task assigns. A database
call may fail, at most `DbFaults` times. Items are numbered as their UUIDs are drawn.

`ResponseRecord` is what a reader of the tables may rely on: a response opens, items are stored with increasing
times while it exists, open items are closed once, a terminal status is never replaced, deletion removes
everything. `RecordSpec` is the refinement, with the item rows projected on status and time.

### Credentials

One account, as every question is about one account's rows. A handler is split at its database statements; a
transaction is one step. Verifiers and seeds are random in the code and are numbered here as they are stored. A
wrapping is opened by exactly the credential it is bound to, a token is the credential it carries. `ChangeRead`,
`ChangeVerify`, `ChangeUnwrap`, `ChangeCommit`, `ChangeReissue` are change_password; `ResetRead`, `ResetCommit` the
destructive reset, which gives the account a new seed; `DeriveKey` followed by `KvPut` shows a write whose key was
derived earlier. The account starts absent, or as an older one with both a password and a linked provider.

### EmailVerification, UserAccess

`EmailVerification`: one row per code; reading, deleting, inserting and updating are separate statements.
`Register` makes an account whose first row may not get inserted; `RegisterOAuth` inserts a row that is verified from the
start, with the account. `VerifyUpdate` updates by id and succeeds even if no row was changed, as Diesel's `execute` does;
a user to whom success was reported is in `told`, and one whose request for a code overlapped another of theirs in `crossed`.

`UserAccess`: a token is its door (audience), user, signer and the credential it is bound to. `Present` and `Enter` are the
two halves of a middleware: the signature and audience are checked first, the account later. `ThirdParty` mints
a token for an audience of the caller's choice, signed with the project's secret or the server's. API keys are
created in two steps and found by hash. Expiry is left out: it only makes fewer tokens valid.

### OAuthFlow, AppleKeys

`OAuthFlow`: `Ttl` and `Capacity` bound the store of states. Authorization inserts after dropping what expired or
refuses; a callback takes the state under the lock, checks its client id, calls the provider, and then finds or
creates the account in statements that interleave with those of other callbacks. Native Apple sign-in uses no state, and
takes its address from the token or, where that has none, from the client, verified or not; `EmailsOf` has both.

`AppleKeys`: a sign-in looks in the cache, fetches, installs, decides and decodes; the answer is what Apple published
when it answered and may arrive after a later one. `Latency` bounds how long a sign-in stays in flight: the
verifier's client has no timeout of its own, and without a bound an old answer may be installed arbitrarily late.

### Organizations

Three steps per handler: the caller's role (`Authorize`, under the name of its route), the row to change
(`ReadTarget`, `ReadInvite`, `AcceptRead`), the transaction (`...Commit`). Where the code takes `FOR UPDATE` locks on
the owners, a second transaction that waited re-evaluates its rows when it resumes, so counting and writing are one
step. Ids are the number of times the user joined, so a stale id is told from a new one. Expiry is a flag that flips
once. `Fail` is any statement failing. update_membership reads the row again after its commit, for the response
only; that read is left out.

### PlatformAccounts, Projects

`PlatformAccounts`: none of these handlers opens a transaction, so every statement is a step. Codes are unguessable
and named by their rows. `CodeWritesOnce` and `PasswordAuthority` are about the reset whose two statements (write the
password, mark the request) may be separated by another confirmation.

`Projects`: a handler reads the organization, the role, the project and the row, then writes by id. `RoleIn` is fixed
here; `Organizations` has the changes of roles. Unique indexes and cascades are those of the schema.

### Conversations, Instructions, Pagination, ContextBuilder

`Conversations`: row locks follow from how far a transaction has come; `LockUser`/`CountProjects`/`InsertProject` is
the limit on projects, `LockTarget`/`LockConversations`/`Move` the batch move. `Instructions` has READ COMMITTED in
detail: `StartClear` fixes the rows an UPDATE saw, `Clear` waits for those another transaction has written, and what
a transaction wrote becomes visible when its last statement commits.

`Pagination` walks a list whose rows are inserted, moved, hidden and deleted between two pages. A row that existed,
unmoved, during the whole walk is seen once.

`ContextBuilder` is a pure algorithm over a conversation that grows as the service lets it: `Needed` is the first pass (over token
counts), `Chat` the second (over messages), `Fallback` what happens when the head alone does not fit.

### ProviderTransport, ModelAccess, Completions, SseFrames, Transcription

`ProviderTransport`: clients are named by the attempt that installed them. A step ends at every await and between
the two reads of start_background_initialization. A refresh is a task of its own and outlives its request.

`ModelAccess`: the model table and its aliases are data, translated as they stand. The services answer what holds
when they read it, fail or time out. `Lookup`, `PurgeExpired` and `StoreFlags` take the cache's lock separately, as
`os_flags.rs` does. `SelectWeighted` is checked against the shares its weights define.

`Completions`: a frame is its kind and the counts it states. `Observe` is the accumulation of usage, `Finalize` the
decision to bill, then the background job stores and publishes with its retries. `SseFrames` checks that however
the network splits the bytes, the events are those of the whole text. `Transcription` checks the windows of split_wav against
"the chunks cover the audio" and the retry cycles against "every provider was tried in every cycle". `finished` is the
order in which the chunks answered; `Merged` sorts it, as merge_transcriptions does.

### WebTools, WebRoutes, Startup

`WebTools`: tool outputs are stored as text and parsed again later, so a text is a sequence of lines: what a line looks like
to the parser, and the URL on it. The formatters and the parsers are both modelled; texts of pages and snippets
imitate every line the parsers look for. `WebRoutes`: validation, the plan under a timeout, one provider
call, and the matching of its answer to what was asked.

`Startup`: one process, which may stop between any two statements. `entrypoint.sh` launches it once, outside of its
`run_forever`, so `Start` is a step of the operator that may never be taken. Making a secret, encrypting it under KMS and
storing it are separate steps. `needed` are the secrets without which no start succeeds: the database URL (`GetUrl`), the
OpenAI key where the API base is OpenAI's, and the Tinfoil key (`RequireKeys`); the operator may `Provide` one that is
missing. `maple` says that the Maple project is found by its name, which `CheckMigration` insists on: `RenameProject` and
`DeleteProject`, of an administrator, take it away while the program serves. The local mode, which has none of this, is
left out.

## 3. Runs

| Run | Distinct states | Parts | What it shows |
|---|---|---|---|
| `secrets` | 59 thousand | - | Pinned sessions are safe, the scan's early stop misses nothing, a stale batch takes only what is expired |
| `response_stream` | 532 thousand | - | Order, completeness, nothing left open, durable tool outputs, refinement of `ResponseRecord`, and the storage task ends whatever the client does |
| `accounts` | 1.5 million | credentials racing and long, email, tokens, API keys | Verifier and wrappings agree; deletion leaves nothing; a reset erases only the seed it was issued for; an address is verified for a reason; replaced credentials and foreign tokens are refused |
| `sign_in` | 2.5 million | states, shared and changed addresses, Apple's keys | A state serves one callback, a subject reaches its own account, a withdrawn key expires |
| `platform` | 1.5 million | organizations racing and serial, accounts, verification, tenants, rows, names, renames | Invitations, stale requests, reset codes, tenant boundaries, unique names and rows |
| `conversations` | 1.6 million | two users, batches, instructions racing and serial, lists, context | Limits, ownership, batches, the default instruction, pages without gaps, prompts in order |
| `providers` | 1.3 million | transport, access, split, flags, relay, frames, audio windows, retries | Single discovery, one write of a body, gates under outages, shares of providers, billing, framing, splitting, every try before a failure |
| `web` | 1.05 million | short and long conversations, routes | Only surfaced URLs are opened; a caller gets its own paid-for results |
| `live` | 121 thousand | sessions, attestations, transport, relay, retries, program | One session per ephemeral secret, and what must happen in the end, below |
| `response_hang` | stops at the counterexample | - | finding 1 |
| `organizations_owner` | stops at the counterexample | - | finding 2 |
| `context_query_lost` | stops at the counterexample | - | finding 3 |

What the runs check, run by run:

* `secrets`: `LeasedStaysResident`, `AdmittedNeverLost` (a request never loses the session it was admitted with),
  `ScanMissesNothing`, `PurgeTakesOnlyExpired`.
* `response_stream`: `TranscriptIsWhole`, `RetrievalOrderIsStreamOrder`, `ToolOutputIsDurable`, the refinement
  `RecordSpec`, and `Settles`.
* `accounts`: `WrapsMatchCredentials`, `ResetOnlyIssuedSeed`, `AccountRowsAgree`, `OnlyLiveCredentialsOpen`.
* `sign_in`: `SignInsAreSeparate`, `CallbacksKeepToTheirOwn`, `AppleKeysAreCurrent`.
* `platform`: `RowsAreConsistent`, `CodeWritesOnce`, `AuthorityIsEarned`, `CheckedChangeKeepsAnOwner`,
  `StaleWritesAreHarmless`.
* `conversations`: `TablesAgree`, `ChangesAreAsked`, `PagesAreExact`, `PromptIsSound`.
* `providers`: `TransportInv`, `GatesHold`, `FlagsStayCurrent`, `RelayIsExact`, `DivisionsAreExact` (events, shares of
  providers, audio and its retries).
* `web`: `OpensWhatWasSurfaced`, `RoutesServeTheirCaller`.
* `live`: `PendingInv` (capacity, order of expiry, one use of a secret), `LiveSecretDisplacedOnlyByNewer`,
  `SecretsAreRetired`, `TransportRecovers`, `AnswersEnd`, `ProgramComesUp`, `DataSurvivesRestart`.

### Bounds and why they are enough

* `secrets`: capacity 2 with three ids, so that eviction must choose and can fail; three slots, so that an id can
  come back in another slot; two requests, each with up to two leases; TTL 1 and three ticks, so that an
  entry expires, is refreshed and expires again; batches of 1, so that the purge yields between any two entries. The
  proofs remove these bounds.
* `live`, attestations: three nonces for two places, so that an insertion must displace; four secrets, so that a nonce
  comes back; two exchanges that may race for one nonce; TTL 1 and two ticks, so that a purge holds a reading that is
  one tick old when an entry drawn since then is live. The proofs remove these bounds as well.
* `response_stream`: one tool turn gives two assistant turns, with six items (reasoning and message for each, a call
  and an output). A storage buffer of 2 lets the call and its output be queued together, a client buffer of 1 is
  soon full; one database call may fail anywhere.
* `accounts`: two requests, two reset codes and three verifiers: a change racing a change, a reset or a deletion, with
  a third password still to come; one after another, two keys and four verifiers. Four tokens of one account are a pair from
  before and a pair from after a change; four API keys of two accounts let a name be given again.
* `sign_in`: two callbacks and two projects for one state; a store of one place that is full with the second; two
  subjects with one address, and one subject with two; two sign-ins that fetch Apple's keys while a key is withdrawn.
* `platform`: two users are the least that promote and demote each other; two codes let a removed member join again
  while an older acceptance is pending; owner and admin are the roles the routes tell apart (developer and viewer are refused
  alike). Serially there are two organizations, so that owners of one must not count for the other. Reset and
  verification have two or three rows, so that a new one replaces one that is being used.
* `conversations`: two creations at a limit of one; batches of two over two conversations; three instructions
  and two requests; three rows over two times walked one by one; conversations of six rows with a budget of 9 and
  rows of 1, 3 and 6 tokens, so that one row, the head, or everything fails to fit.
* `providers`: three requests and two initializers; delays double up to a cap of 5, which the doubling passes; flags
  live for 2 ticks of 5; three frames in a channel of 2; all texts of up to seven bytes of the five
  kinds, in chunks of one or two, which splits every delimiter. Audio: the windows of every combination of frame size,
  rate and tail, with one cycle of attempts; and three cycles, as in the code, for files of one and several chunks, large
  and small, that fail anywhere and answer in any order.
* `live`, program: two faults and one expiry at any statement; none, one or all of the third-party secrets, and at most one
  required secret missing at first; the project renamed or deleted at any time while the program serves.
* `web`: three URLs and six messages, or two URLs and seven messages with two responses after one another; a
  collection of two URLs, which is full before all are collected.

Deadlock is not checked where the system may rightly stop: after a response is over, after an account is deleted,
when all codes are spent. `secrets` checks it: the cache never stops.

### Fairness

Each condition is that of the module's own `FairSpec`; `MCLive` applies it to the part that moves.

* `SessionCache`, `PendingAttestations`: weak fairness of the maintenance task alone. `secret_cache_maintenance.rs`
  runs it for ever on an interval; nothing is assumed of requests, which may hold a lease for ever.
* `ResponseStream`: the spawned tasks run. The loop always gets a next chunk, an error or the end, because the
  provider's stream is read with a timeout per chunk (`STREAM_CHUNK_TIMEOUT_SECS` in `web/openai.rs`); storage
  drains its channel; the cancel endpoint finishes. Nothing is assumed of the client.
* `AttentiveSpec`, for `StreamEnds` only, adds a client that stays connected and reads, and that a broadcast
  cancellation is received. It makes the property as easy to satisfy as possible.
* `ProviderTransport`: the spawned tasks run; an initializer that keeps asking for the gate gets it (Tokio's mutex is
  fair), and a discovery that is tried for ever succeeds some time, without which `Recovers` is about the network.
* `Completions`: the call, the relay, the consumer and the recording task run; reads from the
  provider have a timeout. That a client reads or leaves is an assumption about the environment: the program sets no
  timeout on a connection that does neither.
* `Transcription`: every task runs and every attempt ends, as a request has a timeout (`REQUEST_TIMEOUT_SECS`).
* `Startup`: main goes on and its refresh task runs while there is a process; failures are finitely many (`MaxFaults`).
  Nothing is assumed of the operator: that the program is launched again whenever it is down, and that time and again nothing
  it needs is missing, are hypotheses of `ComesUpAgain`, and `LaunchEnds` holds without them. A deployment without a required
  secret, or whose Maple project was renamed or deleted, does not start until that is repaired, outside of the program.

## 4. Findings

1. `response_hang`: the terminal event of a stream is offered with `try_send`. When the client channel is full it is
   dropped, and as the SSE generator itself keeps a sender of that channel alive, its receive never returns `None`:
   a client that was slow for a while and reads on gets keep-alives for ever. The repository asks of streams for "one
   terminal condition".
2. `organizations_owner`: the last-owner check of a role change or removal is made only if the target was an owner
   when the handler read it, before the transaction. An owner's request reads a member as admin; the member is
   promoted by a second request, and the first owner demoted by a third; the first request now commits without the
   check and demotes the only owner. Serially the rule holds (`RowsAreConsistent`), and a request that did read its
   target as an owner keeps it even when requests overlap (`CheckedChangeKeepsAnOwner`).
3. `context_query_lost`: after a tool turn the most recent message is the tool's output. When it does not fit it is
   kept first and dropped later, because a tail has to start with a user message, and the message being answered was
   never reached: the prompt has the first user message and not the current one. The comment says it is "never lost".

Other places where overlapping requests or a crash leave something behind that no document promises away. The
models have these steps, except for conversation metadata and the headers of audio pieces, which are payload. Where
a property is affected, it excepts exactly the row or the user that lost the race, or is checked in a serial part.

* `kv.rs:74`: a put whose key was derived before a destructive reset stores a row that the new seed cannot open, and
  a list of the rows then fails. `DataIsReadable` (in `AccountRowsAgree`) excepts the seeds that a reset replaced while a
  put held a key of theirs (`outrun`); every other row is readable.
* `models/email_verification.rs:60`: an update of a row deleted meanwhile changes nothing and is reported as success
  (`ToldIsVerified`, in `AccountRowsAgree`, excepts users whose own request for a code overlapped another, `crossed`); on
  the platform a fresh row may replace a verified one (`StaleWritesAreHarmless`).
* `instructions.rs:365` and `project_routes.rs:258`: fields that were not asked for are written back from an older copy
  (`ChangesAreAsked`, `StaleWritesAreHarmless`). update_project also stores a name that was never validated.
* `handlers.rs:2040`: the title task writes back conversation metadata it read before the model call.
* `context_builder.rs:742`: a prompt may exceed its budget by the one message that must be kept
  (`OverBudgetOnlyByOneMessage`, in `PromptIsSound`, is the bound the code does keep).
* `audio_utils.rs:206`: the header of a piece ends where the data of the file began, so a format that stands after
  the data is missing in every piece.
* `main.rs:2256`: two confirmations of one platform reset code that overlap both write a password, and one that is cut
  off after the password leaves its code usable (`CodeWritesOnce` excepts these two).
* `migrations.rs:42`: a start panics when the OpenSecret organization or its Maple project is not found by name, which
  delete_project and update_project can bring about; nothing in the program restores it (`Startup`).
* `migrations.rs:143`: a crash between a settings row and its secrets leaves the secrets out for good.
* `handlers.rs:3127`: a disconnect between the insert of a response row and the spawn of its tasks leaves the
  row in progress, and no start-up pass settles it.

## 5. Proofs

Eight modules hold theorems; each extends the module it is about, or the MC module that joins the properties of several
components, so the proofs are about the very definitions that the runs check. Every property was checked by TLC before
it was proved, and the largest inductive invariants too (`CredInv` on 0.47 million states, `OrgInv` on 5 million,
`WholeInv` on 0.5 to 0.75 million with one tool turn, two tool turns, and three chunks without tools). The proofs remove the bounds of section 3 from what they state: sets are
arbitrary (finite where the code counts them), limits are any positive number, and behaviours are of any length.

| Module | Theorem | States |
|---|---|---|
| `SessionCacheProofs` | `TypeCorrect`, `LeaseSafety`, `AdmittedSafety`, `ScanSafety`, `OrderSafety`, `CapacitySafety` | invariants of the session cache |
| | `PurgeSafety` | action property `PurgeTakesOnlyExpired` |
| `PendingAttestationsProofs` | `PendingSafety` | `PendingInv`: capacity, order of expiry, single use |
| | `LiveSecretSafety` | action property `LiveSecretDisplacedOnlyByNewer` |
| | `RestartSafety` | `DataSurvivesRestart` |
| | `SecretRowSafety` | action property `StoredSecretsAreForever` |
| `ResponseStreamProofs` | `RetrievalSafety` | `RetrievalOrderIsStreamOrder` |
| | `ToolSafety` | `ToolOutputIsDurable` |
| | `RecordSafety` | `RecordSpec`: `ResponseStream` implements `ResponseRecord` |
| | `TranscriptSafety` | `TranscriptIsWhole` |
| `CredentialsProofs` | `CredentialSafety`, `CredentialsTypeSafety`, `DeletionSafety` | `WrapsMatchCredentials`, `TypeOK`, `DeletedIsGone` |
| | `ResetSafety` | action property `ResetOnlyIssuedSeed` |
| | `AccessSafety` | `OnlyLiveCredentialsOpen` |
| | `AccountSafety` | `AccountRowsAgree` |
| `SignInProofs` | `SignInSafety`, `OneAddressSafety` | `SignInsAreSeparate`; one account for a subject with one address |
| | `CallbackSafety`, `AppleKeySafety` | action properties `CallbacksKeepToTheirOwn`, `AppleKeysAreCurrent` |
| `OrganizationsProofs` | `OwnerCheckSafety` | action property `CheckedChangeKeepsAnOwner` |
| | `InviteSafety`, `RowSafety` | action properties `JoinsByLiveInvite`, `SpentMeansJoined`, `ChangesOnlyTheRowRead` |
| | `OrganizationSafety` | `TypeOK`, `NothingOutlivesOrg` |
| | `SerialOwnerSafety` | `OwnerRemains`, one request at a time |
| | `CodeSafety` | `CodeWritesOnce` |
| | `PlatformSafety` | `RowsAreConsistent`; that an owner remains, one request at a time |
| | `AuthoritySafety` | action property `AuthorityIsEarned` |
| | `StaleWriteSafety` | action property `StaleWritesAreHarmless`; its serial conjuncts, one request at a time |
| `ConversationsProofs` | `TablesSafety` | `TablesAgree` |
| | `ChangesSafety` | action property `ChangesAreAsked`; its serial conjunct, one request at a time |
| `ProvidersProofs` | `TransportSafety` | `TransportInv` |
| | `GateSafety` | `GatesHold` |
| | `FlagSafety` | action property `FlagsStayCurrent` |
| | `RelaySafety` | `RelayIsExact` |

Each proof has the same shape: the initial states satisfy the invariant, a lemma per action (or per family of actions
with one effect) shows that it is kept, and the theorem joins them by temporal logic. Action properties are shown for
one step from a state that satisfies the invariant.

### Assumptions

* `CacheAssumption`: capacity, TTL and batch size are positive, the sets of ids and requests are finite, and twice
  the number of requests does not exceed `LeaseLimit`. The last says that the counter cannot reach `usize::MAX`;
  without it `Admit` could succeed and the second lease of the same request be refused.
* `PendingAssumption`: capacity and TTL are positive, the bounds of the run are numbers, the nonces in use are finitely many.
* `StreamAssumption`: both channels have room for a message, and `MaxItems` is at least what the tool turns can draw
  (four in a tool turn, two in the last), so that drawing an item never fails for a reason the code does not have.
* `CredentialsAssumption`, `OrganizationsAssumption`: requests or users are finitely many, requested roles are roles.
* `TransportAssumption`: requests are finitely many, there is a task, the delay's cap is positive; tasks and requests
  have different names, none of which is "free". The last is about names only: the holder of the gate is written down
  as its name, and a request must not pass for an initializer.
* `PartsAssumption` of `MCProviders`: cache lifetime and lookup timeout are positive; endpoints, callers, flags and fields of the
  account are those the code has; frames carry a kind and counts; the channel, an answer and the attempts to publish
  have room for one. The models asked for are arbitrary, known or not.
* `SignInAssumption`, `AccountsAssumption`, `PlatformAssumption`, `ConversationsAssumption`, `InstructionsAssumption` and the
  like: bounds and limits are numbers, functions have their domains, values that stand for "none" are not among the
  others. `AppleKeys` keeps its `Latency`, the longest a sign-in is in flight, as a parameter: the code gives no bound, and
  `WithdrawnKeyExpires` says by how much an answer under way delays the end of a key.
* One request at a time (`OneAtATime`, `OneForm`, `OneEdit`): at most one request of the component is
  past its first step. These are hypotheses of theorems and not assumptions, as the code does not serialize requests:
  they appear in `SerialOwnerSafety`, and in `PlatformSafety`, `StaleWriteSafety` and `ChangesSafety` only
  for the behaviours whose `part` is a serial one. The other conjuncts of those theorems hold for overlapping
  requests. That such behaviours exist is what the serial parts of the runs show.

### SessionCacheProofs

The inductive invariant `CacheInv` has three parts, along what the actions touch:

* `EntriesOK`: types; `older` is a total order of the resident keys along which deadlines grow; no deadline is later
  than now + TTL (`Deadlines`); the map is within capacity. `Deadlines` is the strengthening that makes the order
  inductive: a touched entry moves in front of all others, and must not get an earlier deadline than they have.
* `RequestsOK`: types; which leases a request holds at each program point (`HandleDiscipline`); a leased slot is the
  slot of a resident entry; no request is lost. Discipline is needed because "the session is resident" only follows
  where the request still holds a lease on it, and because the counter's bound counts two leases per request.
* `PurgeType`: the snapshot's keys are session ids and its clock reading is not in the future. Nothing relates the
  snapshot to the map, which is the point: each batch re-checks.

Each action has a lemma per part it can disturb. Insertion and removal of keys are handled once by lemmas about
`RecencyOrder`, and evicting before inserting by a cardinality argument. `ScanMissesNothing` needs no induction of
its own: it follows from the order of the deadlines. `RecencyOrdersExpiry` and `WithinCapacity` rest on the proofs alone.

### PendingAttestationsProofs

`PendingIInv` adds to the property: clock readings held by entries and by the maintenance task are past
(`ReadingsArePast`), the list is the order of the draws (`ListIsDrawOrder`), and each secret drawn is in one place
(`Custody`): under one nonce, with one exchange, or spent in one session. Order and custody need each other: draws
order the list only because no two nonces hold the same draw. `SecretUsedOnce` counts sessions and holders; `Custody` says the same
without counting, which is what the induction needs. That an eviction has an oldest entry to take is the
well-foundedness of the numbers. `LiveSecretSafety` argues that a secret the purge takes expired before the stale
reading, and one that insertion takes is the oldest of a full cache, so Capacity - 1 others and the new one are younger.

The same module proves about the start of the program (`StartupIInv`). Past the statement that stores it, or reads it,
the enclave key in memory is the one in the row, and before that nothing is encrypted (`KeyInv`); likewise for the JWT
secret, whose row exists only under a stored key (`JwtInv`). A stop, of whatever cause, empties the memory and leaves the
rows, so the next process is at the beginning of the same argument; what operators and administrators do touches neither row.

### ResponseStreamProofs

Five tasks share the rows, two bounded channels and a queue of acknowledgements, so every property here depends on
what is in flight. The invariants are stacked; each uses those before it.

* `StreamInv` = `Base` (types, where the loop is, how many items a response can draw), `OrderInv` and `BegunInv`.
  `OrderInv` orders all items in flight: what is stored is older than what is queued, and that is older than what the
  loop has yet to send. `BegunInv` says that a delta or an end follows its start, or the start is stored. Retrieval
  order follows, whatever the client channel drops and whichever inserts fail.
* `ToolInv`: the acknowledgements, the messages queued about the call, and its two rows agree. The loop takes the first
  acknowledgement as the outcome of the current call. This is sound because nothing is acknowledged before the call is
  taken from the channel, a failed call is acknowledged first and makes its output fail, and an Ok is the only
  acknowledgement of its call.
* `RecordInv`: once an end is queued or stored, nothing about its item follows (`ClosingInv`), and what is pending is open
  (`PendInv`). With it, every step of the five tasks is a step of `ResponseRecord` or leaves the tables alone: a delta
  finds its row open, an end closes it once, settling touches only what is open, and the guarded updates leave a
  terminal or deleted row as it is.
* `WholeInv`: the end of the response is queued last (`DoneInv`), and behind the end of every item that is pending or
  queued, unless the loop stopped early (`OwedInv`); stored and queued deltas of an item add up to what was sent
  (`TextInv`); without a database fault every item drawn is queued or stored (`StoredInv`). `EndInv` is what the
  storage task leaves behind, from which `NothingLeftOpen` and `CompletedIsWhole` follow.

Counting the deltas in a channel would be a recursive definition, about which induction over data is needed. `TextInv` says instead that
some function on the positions of the channel counts them, step by step; appending and taking a message extend or
shift that function.

### CredentialsProofs

`CredInv` adds three facts to `WrapsMatchCredentials`. A password change wraps a seed that it unwrapped some awaits
earlier; it commits only over the verifier it read before that, and whatever replaces the seed replaces the verifier
by one that nobody has read, so the seed it holds is the latest (`SwapHoldsSeed`). A code that is open was issued for
the seed in force, since a reset spends every open code (`OpenCodesAreCurrent`). Without a users row there is
nothing that refers to it (`NoRowNothing`), which keeps a late insert from reviving a deleted account.

`AccessInv` is about the two halves of a middleware. Between them the credential may be replaced; what the second half
finds is then later than what the first read, so a session that is opened is opened by the credential in force or
not at all (`DoorOk`). A token for a door of the server names that door as its audience, which a third-party token
cannot (`TokenOk`). The rows of API keys are those that were shown, less the deleted ones (`KeysOk`), though creation and
deletion overlap and names are given again.

For the key-value rows, `KeyIsCurrent` says that a request about to store one holds the seed in force or one that a reset
has overtaken meanwhile, which is then in `outrun` (`Legible` is the same of the rows). No more is needed: the only step that
replaces the seed is the reset, which empties the table and writes down whom it outran.

`MailInv` says, of any overlapping requests, what a row is (`RowOk`: verified for a reason, and verified if the account came
by OAuth) and what a request about codes relies on between its statements (`Faithful`): its user did not come by OAuth, as a
verified row lets no such request begin; a confirmation's code was in time; and a row with the id it read, if there
still is one, is that user's. `Uncrossed` is about the users whose requests for codes did not overlap others of theirs
(`Orderly`): such a user has one row at most, the row a confirmation read is still there, and a row is deleted or inserted
only for a user who has not been told of success (`Undisturbed`), so that the row of one who has been stays.

### SignInProofs

`StoreInv` relates the stores to what was issued: an entry is the state issued with its token, and no token that is
still in a store has passed; so taking it under the lock is the only way to pass, once. The capacity needs no more than
that an insertion first looks. For the accounts, `AccountInv` has the unique index on address and project, and that a
connection comes with an address that a sign-in of its subject brought. `CallbackInv` is what a callback carries across its awaits:
the account it found stays connected to its subject, as accounts and connections are only added. Two sessions
of one subject with one address are then for the same row, whichever of them created it.

For Apple's keys, `CacheInv` bounds how much later than its withdrawal a key can be in a cache, and `RequestInv` what a
sign-in has in hand: an answer in flight is at most `Latency` old, and one that was installed holds the published
keys unless another answer was installed since (`raced`).

### OrganizationsProofs

`OrgInv` says what a request may rely on after its checks (`CallsAreWhole`): the arguments of its operation, and that
the invitation it is about to accept, if it is still stored, is addressed to its caller. Nothing else that the handler read
is relied on, which is the point: the rest is decided in the transaction. Membership rows change in four ways only
(`WhoChangesMembers`), and each action property is shown for those. `SerialOwnerSafety` shows where finding 2 comes
from: with one request at a time the row about to change is the row that was read (`ReadIsCurrent`), and then the
check that is skipped for members who are not owners is rightly skipped.

Platform accounts. `AccountsInv` says what each handler relies on between its statements (`FormOk`): the account exists,
the current password it presented was current while it ran, and the reset it found is of its account and has the
secret it was compared with. All of this outlasts the steps of others because rows are never taken away and keep
their account and secret (`TablesGrow`). `CodesInv` counts the writes of a reset code: unless two confirmations
shared it or one was cut off, it has written nothing as long as one is about to write, and once, when it is used or
about to be marked. That a verified account stays verified is about one request at a time: the account then has
one live row, and the row about to be replaced is not verified (`VerifiedInv`).

Projects. `HostingInv` has the unique indexes and the cascades as facts about the tables, and what a request relies on
(`EditOk`): its caller manages the organization of its path, and the project, secret or settings it read are of that
organization if they are still there. An id is not used again and a project keeps its organization (`RowsMove`), so
this outlasts every step of the others. `OwnOrganizationOnly` and `DeletionTakesWhatItFound` follow for overlapping requests;
that update_project undoes nothing needs that the project it read is as it was (`ReadProjectIsCurrent`), one request
at a time.

### ConversationsProofs

A request reads, waits and writes, and `ConvIInv` separates two reasons for which that is sound. `Loose` facts need no
lock: the user of a row does not change and its id is not used again, so what was read is true of the row if it is
still there. `Strict` facts are true only under a lock: that a user's projects are below the limit when one is inserted,
that the target of a batch exists, that all of its conversations are there when they are moved. `UserLocks` and
`ConversationLocks` say that no two requests hold the same lock, and a lemma per action that it leaves alone what others
have locked (`Respects`).

Instructions rely on unique indexes where conversations rely on locks. A transaction at READ COMMITTED clears the
defaults it saw; if another has set one since, its own insert or update is refused (`GoodNotes`, `EditOk`). Hence
there is one default, and it is handed over in one step, never lost. That an update changes only what was asked needs
that the copy it completes the body from is still the row (`CopiesAreFresh`), which is so for one request at a time.

### ProvidersProofs

Transport. No part of `TransportInv` is inductive alone. One discovery at a time needs where the gate's holder is (`HeldWhere`);
that recovery has an owner needs that initialization_started is set only while a task holds the claim and goes on
(`ClaimIsHeld`); that a refresh is of the installed client needs that refreshes belong to requests past their snapshot
(`TaskFollowsSnapshot`) and that the client bears the number of the current attempt (`ClientIsCurrent`).

Gates. `GatesIInv` says for each request what it has passed at its place (`Passed`) and how old its reading is (`Recent`).
A guest has a paid plan from the billing gate on; an alias, overridden by flags or not, stands for a model of the table, so
that the plan check at the gate is about the model that is sent (`RoutedIsServed`: what has no entry has no route). That a
revoked flag ends within `Ttl + FlagsTimeout` goes through three places: an answer read before the revocation is
stored at most one timeout after its request began, the entry then lives for one `Ttl`, and a hit is before the entry's end.
No step of another request can prolong it, as a purge or a store writes only its own answer (`CacheOK`).

Relay. `RelayIInv` is types and two relations. `Accounted` is about billing: until the finalization the accumulator
equals the latest statements field by field (`Accumulated`), then there is a job exactly if the end was confirmed and
tokens were used. `LastStated` takes a maximum of positions; the proof carries the position as a witness (`IsLatest`) and
needs no induction over the frames. `Delivered` is about the client: while it reads, what it has and what the channel
holds make up the frames up to the one being sent, and only notes follow (`Following`); after it stopped, it has a
prefix and at most one closing event (`LeftWith`), and Done only if the prefix is everything.

### Only model-checked

* All liveness: `Settles`, `SecretsAreRetired`, `TransportRecovers`, `AnswersEnd`, `ProgramComesUp`. Liveness under
  fairness, and ENABLED, are beyond this prover.
* What recursive definitions and folds compute: the event parser of `SseFrames`, the shares of providers and the windows of
  `Transcription` (`DivisionsAreExact`), the cutting of `ContextBuilder` (`PromptIsSound`), the formatters and parsers of
  `WebTools` (`OpensWhatWasSurfaced`), the matching of answers in `WebRoutes` (`RoutesServeTheirCaller`), the sorted lists of
  `Pagination` (`PagesAreExact`). Their correctness is an induction over data, which is beyond it as well. That every
  offered model is served (`ListedIsServed`) is about tables that are data of the program, over which TLC's enumeration
  is exhaustive.

## 6. Not modelled

* Ciphers, hashes, signatures, key derivation and attestation documents are abstracted to who can open what
  (`private_key.rs`, `message_signing.rs`, `encrypt.rs`): pure functions without state.
* Mail and the wire protocols of queue, search and model providers are I/O on which no other state depends; where
  their outcome matters it is a choice.
* Read-only routes, health endpoints, record construction, JSON conversion, error texts (`builders.rs`,
  `conversions.rs`, `errors.rs`, `types.rs`), prompt rewriting and the generated schema.
* Token counting and the classes of refused addresses: counts are given, URLs accepted or refused.
* The composition of `Conversations` with `ResponseStream` (a conversation deleted under its stream) is in
  `ResponseStream` as the deletion of the response; of `Organizations` with `Projects` as fixed roles.

## 7. Plan

The system's parts are modelled, and the safety properties that do not rest on recursion are proved. What is left:

1. The walk of `Pagination`, with its order stated as a relation, as in `RecencyOrder`, instead of a sorted list.
2. Abstract specifications: a secret map with leases that `SessionCache` and `PendingAttestations` both implement; a
   single-use code, which reset codes, deletion codes, invitations and OAuth states implement.
