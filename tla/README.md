# glyphp-hermes in TLA+

`glyphp-hermes` is a Hermes plugin that offers the tools ("glyphs") of Glyph
servers to a model and puts a chain of checks around every call: signature and
trust decision on the tool's card, attestation policy, user confirmation,
execution, receipt verification, audit. This directory holds TLA+ modules of
the parts whose behaviour depends on order, interleaving and failure, the TLC
configurations that check them on small instances, and TLAPS proofs of the
properties that matter most.

Source paths below are relative to `src/src/glyphp_hermes/` unless they start
with `src/` themselves. The `glyph_protocol` SDK (signatures, canonical ids,
HTTP client, pin store) and Hermes (approval queue, prompts, tool registry,
worker threads) are external: they are modelled from how the code uses them.

    cd tla
    tlc -workers 2 -config trust_serial.cfg MCTrustManager.tla    # any run of PROJECT.json
    tlapm ServerBridgeProofs.tla                                  # any *Proofs.tla

## The system

| Component | State | Operations | Correct when |
|---|---|---|---|
| Card comparison, policies (`trust.py` `diff_cards`, `config.py` `TofuPolicy`, `attestation.py` `enforce_policy`, `audit.py` `check_envelope`) | none | pure functions of cards and policies | "same contract" is an equivalence; an absent or unknown tier never slips under TOFU |
| Trust manager (`trust.py`) | pin store, `_pending`, queue file and its `.tmp` | `evaluate`, `approve`, `revoke`, restart | a pin crosses a breaking change only with an approval; a revocation holds until re-approval; the queue shows what is pending and survives restarts |
| Server bridge (`bridge.py`) | `bindings` (card, blocked code) | `sync`, `trust_tool`, `revoke_tool`, handler (`_confirm`, call, `_seal`) | what is callable is endorsed and passes policy; nothing needing consent runs without it; nothing unverified is released |
| Confirmation seam (`_hermes.py`) | capabilities, one-shot grants, Hermes' queue | `request_user_confirmation`, `post_approval_response` hook | one consent covers one call; a refusal is final; no channel means no |
| Runtime (`plugin.py`) | bridges, `registered_tools`, `registered_schemas`, Hermes' registry | `register`, `sync_all`, `register_tools`, `reconcile` | the model's tool list is the bound tools with their current schemas; a failing server loses nothing; commands reach the tool the model calls |
| Slash commands (`commands.py`) | none of its own | `/glyph status, sync, trust, revoke, diff, audit` | as the bridge and the runtime; what trust approves is what it shows |
| Console script (`setup.py`) | `config.yaml`, its backup | `enable`, `disable`, `status` | the file stays loadable, everything but glyph's entry is kept, a success is true |
| Server list (`config.py`) | `glyph.yaml` | load, save, add, remove | the file always loads; an update changes exactly what was asked for |
| CLI (`cli.py`) | none of its own; a second process on pins, queue and audit log | add, remove, list, sync, trust, audit, call | as the parts it calls |
| Audit log (`audit.py`) | JSONL file | record, tail, verify_all | every answered call is in it, nothing is taken out, evidence outlives key rotations |
| Attestation verifiers (`attestation.py`) | none | registry, digest and keyless verifiers, Sigstore backend, `enforce_policy` | a card is trusted only through a proof bound to it and an allowed identity |
| Error mapping (`errors.py`), package data, demo, CI | none | | not modelled |

How they interact: `GlyphRuntime` owns a `ServerBridge` per configured server;
a bridge owns a `TrustManager`, an audit log and an HTTP client; handlers run
in Hermes' worker threads, slash commands in others, `on_session_start`
reconciles under the runtime's lock, which commands and handlers do not take.
Handlers share the binding objects with `trust_tool` and `revoke_tool`, which
mutate them in place, while `sync` builds a new dict and publishes it in one
assignment. Confirmation goes out to Hermes and comes back, possibly after the
call has returned, through a hook. The CLI is another process on the same
`glyph.yaml`, pin, queue and audit files.

What is hard here: state read before a wait or a file write and used after it
(the pin in `evaluate`, `blocked_code` in the handler, the card in a binding);
operations of several steps that may fail in the middle (pin stored, queue not
saved; registry half reconciled); approvals that arrive late, twice or never;
servers that redeploy or remove a glyph between any two requests; files several
threads and processes write without a lock, and writes that are cut short;
edits of a text file that must remain YAML. PROJECT.json lists these as hazards, each at
its line and with the properties that cover it.

## Modules

| Module | Models | Main correspondence |
|---|---|---|
| `Cards` | cards and the decisions about them | a card is a record of the fields the decisions tell apart (`terms` stands for every other breaking field, `blurb` for every review field); `RequiresApproval`, `TofuAllows`, `AttestationCode`, `CheckEnvelope` |
| `TrustLedger` | abstract: what the trust engine promises about pins | four atomic changes of a pin: first use, review change, approval, revocation; each operator command makes one of the last two, once |
| `TrustManager` (EXTENDS `Cards`) | `trust.py`, any number of threads and processes | `op[a]` is the frame of the call actor `a` is in: what `evaluate` read from the store stays there while others act. Steps: read the pin, decide, change the queue, then a save in four steps (`Dump`, `Open`, `Write`, `Rename`) through the one `.tmp` all share, any of which may raise, return. `where` is what the file a writer has open is called by now; `mixed` is history: saves overlapped and none has run alone since. `Restart` reloads the queue |
| `ServerBridge` (EXTENDS `TrustManager`) | `bridge.py` | `heap` holds every published bindings dict, since calls and commands keep references into old ones; `sync`, `cmd[o]`, `call[h]` are frames. A sync's trust decision is a `TrustManager` call of the actor `Syncer`, step by step. The attestation gate answers a code or raises: `SyncAborts` in a sync, the end of the command in `GateAttestation` |
| `Confirmation` | `_hermes.py` | `call[c]` is the frame of a call, `grants` the one-shot store, `queue[c]` Hermes' side of a queued question; `said` is history |
| `ConsentLedger` | abstract: what consents are for | a counter of consents given and one of executions, for each tool and input |
| `ConsentedCalls` (EXTENDS `Confirmation`) | the handler of `bridge.py` around the seam, the server's tokens | `tool[c]` is where the handler of call `c` is; the seam's steps are `Confirmation`'s own; `runs` counts executions |
| `Attestation` (EXTENDS `Cards`) | `attestation.py`; the publisher after `scripts/record_sigstore_fixture.py` and `.github/scripts/attestation_e2e.py` | an id or digest is the value it is a hash of; `enforce_policy`, `KeylessVerifier`, `SigstoreTrusts`, `Matches` are the functions of those names, exceptions included; the state is the card being deployed |
| `ServerList` | `config.py`, `add` and `remove` of `cli.py` | `file` is `glyph.yaml`, `op[p]` a command: loaded, temporary file written, replaced; a setting stands for one leaf of the policies |
| `AuditLog` | `audit.py`, `_seal` of `bridge.py` | `log` is the file, a sequence of lines; a line is the entries written into it and whether its newline was; `call[h]` is a call in `_seal` |
| `Runtime` | `plugin.py`, tool naming of `bridge.py` | names are strings, `Plain` and `Suffixed` what the code makes of a glyph's name; `rec` is the reconcile under way, one registry operation a step; a bridge's sync is one step; `known`, `quiet` are history |
| `PluginSetup` | `setup.py` | a text is a sequence of lines with indentation; `InsertIntoEnabled`, `RemoveGlyphLine` and `AppendPluginsBlock` edit lines; `Valid`, `Load`, `Dump` are YAML, external |
| `MC*` | instances | card versions, server lists, config texts, identities, symmetry |
| `*Proofs` | theorems | see below |

Operators named `X_Y` beside an operator `X` (as `Verdict_RevokedLast`) are
plausible bugs in `X`, used by no specification: PROJECT.json pairs each with
the property that catches it.

### Abstractions

- A save of the queue is dump, open (which empties the file), write and rename. The
  write of the text is one step: it gives the whole text or, where another save has
  written into the same file meanwhile or the write fails, one that does not parse.
  `json.dumps` copies the dict in one step, or raises if another thread of the process
  is in the middle of its own operation (`Overtaken`, which allows more than the
  code: only an addition or removal during the walk raises); a text that
  mixes the entries of two moments is left out. `FilePinStore` reads and writes
  atomically.
- `Cards.AttestationCode` takes a card's attestation as none, untrusted, trusted or
  one the gate raises on; that what the gate does depends on no more than this is
  `GateAsAssumed` of `Attestation`. An attestation is a mapping of one of three types
  with a payload that is well-formed, malformed or no text at all, or it is no mapping.
  `verify_glyph`, of the SDK, is assumed to accept or refuse these cards without
  raising. Cards whose `cost` is not a mapping are left out.
- In `ConsentedCalls` the run starts with every Hermes capability present and both
  kinds of session possible: a route that a missing capability closes is a
  behaviour in which that route's step fails, and both are explored.
- `AuditLog` writes an entry in one step or not whole: CPython hands a record of
  any size to one `write`, appends of which do not interleave.
- `ServerList` takes files that are mappings with lists and strings where load
  expects them; others make load raise something else than `ConfigError`.
- The server answers a card request with a card of the requested name.
- A tool name and its suffixed form are strings given by the constants `Plain` and
  `Suffixed`, so that names may coincide in any way, a plain one with a suffixed one
  included.
- A registry operation that raises has had no effect. Startup is taken as the
  first reconcile: Hermes opens no session before its plugins are loaded.
- A grant past its TTL is a value of its own, time does not appear.
- `session`, `approved` and `yes` are treated as `once` and `approve` are.
- Config texts are block mappings; a document that is a list or a scalar, anchors,
  multi-line strings and keys given twice are left out.

## Runs

| Run | Checks | Shows |
|---|---|---|
| `trust_serial` | `TypeOK`, `ImplementsLedger`, `QueueIntact` | one thread with failing saves and restarts at any step changes pins only as `TrustLedger` allows, and the queue file only as a whole |
| `bridge_calls` | `BridgeTypeOK`, `PinsEndorsed`, `AnswersEndorsed`, `QueueDurable`, `QueueIntact`, `RaisesOnlyWhenMixed`, `CallableEndorsed`, `CallableMatchesStore`, `ConfirmedExecution`, `ReleasedIsEndorsed`, `ShownIsApproved` | a call and an operator command against resyncs, redeployments, an unsigned card, one the gate raises on, and an attestation policy: stale reads never carry a pin over a breaking change, the queue is kept by saves that do not overlap, `/glyph trust` approves the card whose diff it shows, and where syncs and commands did not overlap, what is callable is what store and policy say |
| `bridge_returns` | `EverythingReturns` | every call, command and sync ends, with a server that vanishes, saves that fail at any step and a gate that raises |
| `consent` | `ConsentTypeOK`, `OneShot`, `AskedOnce`, `OneConsentOneExecution` | three calls through all tiers to the server and back: consents are one-shot, refusals final, and `ConsentedCalls` implements `ConsentLedger` |
| `attest` | `TypeOK`, `TrustedIsAllowed`, `GateAsAssumed` | whatever a publisher puts together: what the gate lets through as keyless is bound to its card and within the owner's policy; the gate answers and raises as the bridge's model assumes |
| `server_list` | `TypeOK`, `LoadsOrOwners`, `UpdatesAreExact` | two commands at a time, failing anywhere, on files their owner edits |
| `audit` | `TypeOK`, `EvidenceHolds`, `AlwaysAudited`, `OneLostPerTear` | concurrent records, torn writes, key rotations, and reading the log back |
| `runtime` | `TypeOK`, `RegistryRecorded`, `InStep`, `NoShadow`, `StaleNotGone` | two servers with colliding names; failing syncs and registry operations |
| `setup` | `TypeOK`, `SettingsKept`, `AnswersTrue`, `ListedOnce`, `OwnersTextSurvives` | any sequence of enable and disable, interrupted anywhere |
| `bridge_revoke_race` | `RevokedNotCallable` **violated** | below |
| `setup_enable` | `SettingsKept` **violated** | below |
| `attest_keyless` | `KeylessUsable` **violated** | below |

Bounds, and why they are enough:

- Trust: one glyph, since calls on different glyphs meet only in the queue file,
  which is saved whole. Five card versions in `trust_serial` take every
  branch of `evaluate` (same id, review-only, another key, breaking, forged).
  Nothing else is bounded there. Threads interleave in `bridge_calls`, where a sync
  and a command are two of them: enough for two saves to overlap.
- Bridge: one call suffices, since calls do not change what another sees except
  through tickets, which are per call. One command races the syncs; two commands
  beside them, each save being four steps, are out of TLC's reach within minutes and
  are left to the theorems, which hold for any number. `MaxSync` = 2 publications and
  `MaxDeploy` redeployments (2, and none in `bridge_returns`, where a request may fail
  at any time) bound the runs: a race needs one old and one new dict. Five cards in
  `bridge_calls`: a first one, two breaking changes that the gate blocks or raises
  on, an attested one that asks for confirmation, and a forgery. `overlapped` is set
  of every command that ran beside a sync or another command, of both when two
  commands meet. Calls and commands run once each, so these runs end:
  `CHECK_DEADLOCK FALSE`.
- Consent: three calls of two keys: a grant can be left by one call, taken
  by a second and wanted by a third; `MaxDeploy` = 1 lets what the card requires
  change once. Each call is made once and retries are other calls, so the run
  ends: `CHECK_DEADLOCK FALSE`. Symmetry over calls and keys; no liveness is
  checked there.
- Attestation: one content beside the revision of its tier, attestations of each type
  with each payload and one that is no mapping, two issuers, two
  identities of which one only starts like the allowed tool, three policies;
  one keyless signature and one revision are enough for a bundle that
  is stale, replayed or signed before it was attached.
- Server list: two commands over up to two aliases, with and without token and
  flag, on files with defaults, overrides, a bad value, a duplicate; `MaxEdits`
  edits by the owner.
- Audit log: three calls, two keys, up to `MaxRotate` rotations: a torn line, the
  record that continues it, and one after that.
- Runtime: two servers, three glyphs, two versions: a collision within a
  lexicon and one across two. Unbounded in length.
- Setup: nine texts, from `src/tests/test_setup.py` and variations of it. The
  run's documents indent list items below their key and have no other plugin in a
  one-line list: outside these, `SettingsKept` fails (`setup_enable`).
  `backups` counts to `MaxBackups` = 2, first or later.

Fairness (`bridge_returns` only): weak fairness of each sync's, each command's
and each call's next step. Source: `src/README.md`, "Concurrency model": every
dispatch has a worker thread of its own, HTTP requests have `timeout_seconds`,
confirmation waits are bounded by Hermes' gateway timeout. None is assumed of
the server, the operator or Hermes' side; in particular a request may fail
each time.

### What the violated runs show

- `bridge_revoke_race`: `sync` evaluates a card, `revoke_tool` then revokes the
  pin and blocks the old binding, and `sync` publishes (`bridge.py:230`) a new
  binding that is callable. It stays so until the next sync. With
  `WriteFaults = TRUE` it fails with no concurrency either: if the queue cannot be
  saved after the pin was stored, `revoke_tool` raises before it blocks the binding.
- `setup_enable`: `enabled: [other]`, enabled, disabled, enabled again. The
  first enable re-serializes the file, and PyYAML writes list items at the depth of
  their key; after the disable the last enable, which expects them deeper
  (`setup.py:134`), puts `- glyph` before them at another depth. The file no
  longer loads. `Nested` of `MCPluginSetup` gives another way: an `enabled:` of
  another plugin's options that comes first gets the item.
- `attest_keyless`: the documentation says that with the `sigstore` extra "a default
  bridge can actually mark keyless attestations trusted" (`src/CHANGELOG.md:35`; also
  `src/README.md:185` and the docstring at `attestation.py:278`). `KeylessUsable` says
  so of a card that verifies, with a bundle for its content, signed over an id of that
  content by a publisher the owner allows. The counterexample signs, attaches and seals:
  `verify_bundle` wants the signed artifact to be `card["id"]` (`attestation.py:265`),
  `verify_glyph` wants the id to cover the attestation the signature is in, and sealing
  changed the id that was signed. No order of the three steps does better, which is
  the theorem `KeylessStaysOut`. The repository knows: the comment at
  `attestation.py:173` explains the problem for the subject digest, and the docstring at
  `src/tests/test_attestation.py:412` says that cards with a bundle attached after their
  id "do not pass verify_glyph content integrity" and calls it a "Spec-level issue,
  tracked upstream". The gate alone, asked of such a card as that test does, lets it
  through; a bridge asks `verify_glyph` first. The README and the changelog make no such
  reservation.

### Limits

Behaviour met while modelling that the properties of the passing runs allow and
no run is spent on. Each was reproduced with TLC by changing what is named.

- A breaking change is parked; the server then ships a review-only change of the
  pinned card, which `evaluate` re-pins (`trust.py:229`) without taking the parked
  card off the queue, as its match branch does: `/glyph diff` goes on showing, and
  `/glyph trust` would approve, a card the server no longer offers
  (`PinnedMeansNothingParked` of `TrustManager` as an invariant of `trust_serial`).
- Aliases `a` and `a_b` with glyphs `b_c` and `c` both give `glyph_a_b_c`. Names are
  made unique within a lexicon only; `all_bindings` lets the last bridge win,
  `find_bridge_for_tool` (`plugin.py:96`) the first: `/glyph revoke` blocks one
  tool, the model calls the other (`CommandsReachTool` of `Runtime` as an invariant
  of `runtime`).
- A re-pin that had read the pin before a revocation overwrites it
  (`trust.py:230`; the contract stays endorsed, the revocation is lost).
- A call waiting for its confirmation is still sent after `revoke_tool` has
  returned (`bridge.py:288`); a call may pass between `trust_tool`'s unblocking and
  its attestation gate (`bridge.py:247`).
- `/glyph trust` looks the parked card up twice, once to show its diff and once to
  approve it (`commands.py:90`, `bridge.py:241`): a sync in between may park another
  (`ShownIsApproved` without `overlapped`). `hermes glyph trust` syncs and
  approves without showing anything.
- Saves of the queue share one `.tmp` file and nothing locks (`trust.py:162`). Of two
  that overlap, in one process or in the plugin and the CLI:
  the one with the older dump may be renamed last, so that a card parked since is not
  in the file and gone after a restart, with a disk that works (`ParkedIsSaved` of
  `TrustManager` as an invariant of `bridge_calls`);
  one may rename the other's file while it is still empty or being written, and a
  queue that does not parse is loaded as an empty one (`QueueIntact` without `mixed`);
  the other's rename then raises `FileNotFoundError`, and `json.dumps` of a dict that
  another thread changes raises `RuntimeError`, out of `evaluate`, `approve` or `revoke`.
  The next save that runs alone repairs the file.
- The attestation gate raises on an attestation that is not a mapping
  (`attestation.py:327`) and on a keyless payload that is no text
  (`attestation.py:159`: `b64decode`'s `TypeError` is not among the caught). In
  `trust_tool` the binding has been unblocked by then (`bridge.py:247`), and the slash
  command answers with the exception's text (`commands.py:26`): the tool is callable
  although the policy does not let it through, after one `/glyph trust` that overlaps
  nothing (`CallablePassesPolicy` of `ServerBridge` as an invariant of
  `bridge_calls`). `CallableMatchesStore` leaves such cards out by name. In `sync` it
  ends the sync, and every later one of that server while the card is deployed: the old
  bindings stay (`plugin.py:82`).
- Nobody checks that a suffixed tool name is free: glyphs `a-b`, `a.b` and one called
  `a_b_` followed by the first eight hexadecimal digits of SHA-256 of `a.b` have two
  names between them, and the last in the lexicon shadows the other
  (`bridge.py:50`, whose docstring says "unique"; `NamesUnique` of `Runtime` with
  constants that spell it out). `NoShadow` leaves out glyphs another one of the server
  is mistakable for (`Unmistakable`).
- With `receipts.verify` off the audit log says "verified" of what nobody checked
  (`bridge.py:376`; `ReceiptsVerify = FALSE` and `EvidenceHolds` without its
  premise). `audit --verify` looks at the receipt's signature and key only: an
  entry whose other checks failed counts as ok, and lines that do not parse do
  not change the exit status (`cli.py:193`).
- A record cut short by a full disk has no newline, so the next one continues
  its line and is lost with it (`audit.py:86`): `OneLostPerTear` is the bound.
- If Hermes fired its hook for blocking decisions as well, the grant would cover
  a second call (`HookOnBlocking = TRUE` violates `OneShot`).
- A consent belongs to a tool and an input, not to a card or a session
  (`bridge.py:329`): one given before a redeployment covers the call after it.
- `hermes glyph add demo ""` (or `/`) saves a server that load refuses
  (`config.py:198`): every command and the plugin then stop with a `ConfigError`
  until the file is edited. `LoadsOrOwners` leaves this case out by name.
- `hermes glyph add` gives its server the built-in policy, not the `defaults` of
  the file (`cli.py:88`), and `save` writes every setting of every server out, so
  that later edits of `defaults` reach none of them. Two commands at a time, or a
  command and an edit: the last to replace the file wins (`config.py:217`).
- `disable` takes every `- glyph` line for its entry (`setup.py:152`). Where the list
  is on one line and such an item stands elsewhere (`enabled: [glyph]` and, under
  another key, `- glyph`), the other item goes, glyph stays listed, and the exit
  status is 0: neither `AnswersTrue` nor `SettingsKept` holds of such a file.
- An edit of `config.yaml` while `enable` runs is lost, and if it falls after the
  backup it is in no file.

## Proofs

All theorems hold for every value of the constants under the named
assumptions of the modules.

- `ServerBridgeProofs`, first part, on cards: "same contract" is an equivalence (so a chain of
  review-only changes cannot add up to a breaking one), the fast path of
  `evaluate` implies it, and it fixes what TOFU and confirmation look at.
  On the manager: `TypeCorrect`, `PinsStayEndorsed`, `AnswersStayEndorsed`
  from the inductive invariant `IInv`. `PinsEndorsed` alone is not inductive: a
  call may write a pin it decided on long ago, so `SnapshotsEndorsed` says that
  what a frame read from the store is endorsed however stale (approvals and first
  uses are never forgotten), and `Frames` what a frame at each step
  contains. On the queue file: `Savers` says that a save that runs alone has the name
  `<alias>.tmp` to itself, that the name holds what it has written so far, and that an
  overlap is on record (`mixed`) until a lone save has been renamed. From it
  `LoneSaveFindsItsFile` and `QueueStaysIntact`, for any number of threads and processes,
  failing saves and restarts. `QueueStaysDurable` assumes one process and saves that do
  not fail and is about times at which saves have come one after the other; it adds
  `DumpsFresh`: a lone save writes the queue there is, unless a call that changed it has
  its own save to come. Of overlapping saves it says nothing, and nothing can be said
  (see "Limits").
  `OneThreadImplementsLedger` is the refinement of `TrustLedger`, whose `operator`
  is mapped to `OperatorActed` (an approve or revoke that has written its pin and
  not returned), so that a pin change is an operator's only once per command: it
  adds `SnapshotsFresh`, that a single thread's snapshot is what the store holds,
  which is what several threads lack (the lost revocation above is a behaviour the
  assumption excludes, the stale queue one the ledger does not speak of).
- `ConsentedCallsProofs`, on the seam: `TypeCorrect`; `AsksOnce` by `Frames`;
  `ConsentsAreOneShot`, for any finite set of calls, from `OneShotInv`: approved calls
  plus answers whose hook has not run plus the stored grant are at most the
  consents, key by key. The lemmas count: each step moves one call between these
  sets. It assumes `~HookOnBlocking`, without which TLC finds it violated.
  On the calls: `ConsentTypeCorrect`, and `CallsImplementLedger`, the
  refinement of `ConsentLedger`. The calls run `Confirmation`'s `Spec`, so that
  `OneShot` holds of them; `CallsInv` adds that the seam is asked about the call's
  own glyph and input, that tokens are held by approved calls that are still to
  be sent or done, and that the executions of a key are at most its spent
  approvals (done, no token left). An execution then is below the consents of
  its key, which is `Use`'s guard; the user speaks once about each call, which is
  `Give`. It assumes `~HookOnBlocking` too. TLC finds `CallsInv` an invariant of the
  `consent` instance.
- `ServerBridgeProofs`, second part, for any glyphs, cards, commands and calls, and for any
  number of syncs and redeployments (`MaxSync` and `MaxDeploy` are any numbers).
  A bridge step is a step of `TrustManager` or leaves its variables alone
  (`ManagerStep`), so `BridgeSpec` implements `TrustSpec` (`BridgeUsesTrust`), and
  `BridgePinsEndorsed`, `BridgeAnswersEndorsed`, `BridgeQueueIntact`, `BridgeLoneSave` and
  `BridgeQueueDurable` (one process, saves that do not fail or overlap) follow from the
  theorems of the first part.
  `BridgeTypeCorrect`, `CallableStaysEndorsed`, `OnlyConfirmedExecute` and
  `ReleasedStaysEndorsed` come from the inductive invariant `BridgeInv`.
  `CallableEndorsed` alone is not inductive, since three kinds of frame hold what may
  become or stay callable while others act: the dict a sync is building
  (`SyncFrame`, `DictEndorsed`), the card a command approved and is going to put
  into a binding before it unblocks it (`CommandFrame`, `CommandCall`), and the
  binding a call looked up before it was blocked (`CallFrame`). What makes these
  stable is that an endorsement is never taken back. `ReleasedStaysEndorsed`
  assumes that receipts are verified (`receipts.verify`, on by default): without
  it a result is handed out unchecked.
  `ShownStaysApproved` adds `ShownFrame`: between the diff and the approval of a
  command that overlaps nothing, the queue still holds what was shown.
  `CallableStaysInStep` (that where syncs and commands came one after the other,
  what is callable has a live pin and passes the policy, unless the gate raises on its
  card) adds `NamesInv`, that every card is filed under its own glyph, in the queue, the
  files and the dumps under way, and `SerialInv`, which says for each step of a lone sync
  or command which single binding may differ from the store and how. It assumes saves
  that do not fail: one that raises after the pin was written leaves the binding
  behind, as `bridge_revoke_race` shows.
- `AuditLogProofs`, for any finite set of calls: `AuditTypeCorrect`, `EvidenceStays`,
  `EveryAnswerAudited`, `TearsLoseOneEach` from `AuditInv`, which describes the file:
  a line is the entries of calls whose write was cut short and, once it has its
  newline, one more, of a call that went on (`Lines`); no call is filed twice
  (`FiledOnce`); what was verified was signed with the key in the entry
  (`Checked`); and whoever returned is filed (`Filed`). `OneLostPerTear` compares two
  counts: an answered call whose entry cannot be read shares its line with a torn
  one, and choosing that one is an injection, lines having at most one whole entry.
- `RuntimeProofs`, for any list of servers, glyphs and spellings:
  `RecordIsRegistry`, and `ReconcileKeepsInStep` from
  `Progress`: while a reconcile is applying its diff, what is left to do is
  exactly what is not in step. `quiet` is in it because a failed registry
  operation or a `/glyph trust` meanwhile breaks the claim until the next
  reconcile. `RuntimeTypeCorrect` and `NoGlyphShadows` from `RuntimeInv`, and
  `StaleStaysListed`, the action property, from both invariants. `NoShadow` rests on
  `NamesDiffer`, that two glyphs of one lexicon never get one name however alike they
  sanitize, unless one is called what the other's suffix makes; `StaleNotGone` on `WorkFrame`, that what a reconcile is going to remove is
  bound nowhere while it does so. That a bound tool has a first and a last bridge,
  which `find_bridge_for_tool` and `all_bindings` take, is `LeastNat` and `GreatestNat`,
  from the well-foundedness of the numbers.

- `AttestationProofs`, for any contents, names, policies and any number of signatures
  and revisions: `AttestationTypeCorrect` (three codes, and exceptions on two forms
  of attestation only), `GateIsAsAssumed`, and
  `TrustedStaysAllowed`, which rests on `MatchesWithin` (the prefix-and-delimiter
  test of the code implies containment by whole segments) and on `BlankMatchesNone`
  (a bundle that leaves the identity blank matches no entry, so that the identity
  the owner allowed is the certificate's own). `KeylessStaysOut`, that no card
  with a keyless attestation both verifies and passes the gate where it asks for one (why
  `KeylessUsable` fails), is an argument about age: a bundle is signed over an id that is there already, so every
  id is younger than the one its bundle was signed for, and none is its own
  (`AgeInv`, which says that there is a numbering of the ids in that order).

- `ServerListProofs`, for any number of commands, servers, settings and edits:
  `ListTypeCorrect`, `ListStaysLoadable`, `UpdatesStayExact` from `ListInv`. Loading,
  changing and saving is exact: a saved list loads, and to the same servers,
  though its settings are spelled out under defaults that stay as they were
  (`SaveLoads`, `MergeFull`); `AddExact` and `RemoveExact` say what a change does to the
  set of servers and that no alias comes up twice. What is going to be put in
  place is fixed when the file has been read, and `Pending` carries it to the
  rename: a list that loads, or has the blank URL, and is what was asked for of
  the list that was read. `LoadsOrOwners` is not inductive without it.
  `remove_server` takes one server out where the code filters by alias, which the
  provers cannot compute with; of a loaded list, whose aliases differ, that is the
  same (TLC compared the two on every list of the instance).

- `PluginSetupProofs`, for any set of texts the owner may give `config.yaml`:
  `SetupTypeCorrect` and `OwnersTextStays` from `SetupInv`: a command writes the edit
  of the text it read (`CommandInv`); unless the owner edits meanwhile that text is
  still the file's, and it is the owner's or was backed up (`OwnerInv`).
  `OwnersTextSurvives` alone is not inductive, since what `Write` writes was decided
  on at `Backup`. `InvalidStaysUntouched` is the part of `SettingsKept` about files
  that are not YAML. `AnswersStayTrue` adds `AnswerInv`, that a disable under way
  read a text that lists glyph, and an enable one that does not. It assumes
  `OwnersPlain`: a text that loads names glyph in lists on lines of their own only, or
  on the line of `plugins.enabled` only (`enabled: [glyph]`). Every text of the runs
  is such; of one that does both the claim is false (above).
  The lemmas are about texts: `Ascending` enumerates a set in order
  (`AscendingFacts`), and sets whose members correspond in order are enumerated
  alike (`Renumbered`), so that inserting or appending a line keeps the others
  (`NoGlyphInserted`, `NoGlyphAppended`); `Load` and `Dump` have their types
  (`LoadType`, `DumpType`). Deleting glyph's lines leaves a loadable text loadable
  (`NoGlyphValid`): items are nobody's parent, and lines that are can be taken out
  without moving another under a new one (`ParentKept`, `PlacedKept`). That glyph is
  then listed nowhere is `NotListed`. `enabled: [glyph]` takes `disable` to
  re-serializing: in the data of a valid text a key is at most one deeper than the one
  before it, and that only below a mapping (`LoadNested`); `WithoutGlyph` keeps this
  (`WithoutGlyphNested`); and data of this shape are dumped to a text in which each
  line belongs under the key it was written for (`LaidFacts`, `LineRooted`), which is
  then valid (`DumpValid`) and has no line for glyph (`DumpNoGlyph`). Inductions over the lines go by the least number
  for which a claim fails (`LeastNat`).

`BridgeInv` and the invariants of the other modules were checked by TLC on the
instances of the runs before they were proved; the exception is `AgeInv`, which quantifies over all numberings.

Only model-checked: liveness (`EverythingReturns`, which is about fairness), and of
the `setup` run `SettingsKept` beyond its part on files that are not YAML,
and `ListedOnce`. They need what loading an edited or re-serialized text gives back,
for texts in which the code's edits are right:
`SettingsKept` is false of others, as `setup_enable` shows, and `ListedOnce` of a list
its owner already wrote glyph into twice.

## Plan

Done in this order: `Cards`, `TrustManager` with its ledger and proofs (the
decision everything else trusts), `ServerBridge` on top of it, `Confirmation`,
`Runtime`, `PluginSetup`; then `ConsentedCalls` with `ConsentLedger`, `ServerList`,
`AuditLog`, `Attestation`, what `/glyph trust` shows, and
`ConsentedCallsProofs`; then the rest of `ServerBridgeProofs`,
`AuditLogProofs`, the rest of `RuntimeProofs`, `AttestationProofs`,
`ServerListProofs`, `PluginSetupProofs`; then the steps of a save within `TrustManager`
and the exceptions of the attestation gate. Left: that `Load` of `Dump` gives the data
back, and with it `SettingsKept` for lists indented below their key.

## Not modelled

`errors.py` maps one answer to another and keeps no state. Of `commands.py`, status,
diff and audit print what other parts hold; of `cli.py`, argument parsing and
printing, and `trust` and `call`, which run a bridge of their own and go through
`sanitize_tool_name` instead of the sync's names (`cli.py:171`: a glyph whose name
collides is unknown to them, and `trust` exits 0 all the same). Certificate
chains, log proofs, hashes and signatures belong to `sigstore` and
`glyph_protocol`. `demo/run_demo.py` asserts over the plugin from outside.
