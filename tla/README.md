# pricewatch in TLA+

TLA+ modules for the parts of pricewatch that keep state: the browser profile and its lock,
the exported session and its key, the commands that share them, the capture that `discover`
makes and what is told of it, redaction, the accounts table, the migration runner, the config
file, and the commands from the config to the exit code. TLC checks the modules on small
instances; TLAPS proves the theorems in the `*Proofs` modules for every value of the constants.

    tlc -config ProfileLock.cfg ProfileLock.tla      # the runs are listed in PROJECT.json
    tlapm ProfileLockProofs.tla

Source paths below are relative to `src/pricewatch/`.

## 1. The system

pricewatch is a command-line program. Every command is a process of its own; at this commit
there is no daemon (`run`, `check` and the commands on items answer that they are not
implemented). What makes the program hard is that several commands may run on the same files
and the same database at once, that a person at a browser decides how long a command takes,
and that any of them can be killed between two system calls.

| Component | State it keeps | Operations | Talks to |
|---|---|---|---|
| Profile lock (`session/lock.py`) | `<account>.lock`: an flock and a line with pid and purpose | `profile_lock` enter, exit, time-out | taken by `login` and `discover` around their browser |
| Session store (`session/store.py`) | `sessions/<account>.json.enc`, its temporary file, the profile directory | `save`, `load`, `try_load`, `delete` | the key; `login` saves, `session status` loads, `session clear` deletes |
| Stored session (`StoredSession` in `session/store.py`) | a decrypted export in memory | names, keys, expiry, staleness, `summary` | printed by `session status` |
| Session key (`session/crypto.py`) | `session.key` or an environment variable | `load_or_create`, `encrypt`, `decrypt` | every opening of the store |
| Browser (`browser.py`) | Chromium on the profile directory | `persistent_context` enter, exit | inside the lock |
| `login` (`commands/login.py`) | storage state in memory | wait for an identity or the operator, snapshot, save, record | lock, browser, store, database, adapter |
| `discover`, capture (`commands/discover.py`, `capture.py`) | recorded exchanges, a count of skipped ones | handler of a response event, `_settle`, `write`, `summary` | lock, browser, redaction; Playwright calls it back |
| Redaction (`redaction.py`, `logging.py`) | none (a pure function) | `redact`, `redact_text`, `is_sensitive_key` | the log processor and the capture |
| Accounts (`accounts.py`) | the `accounts` table | `sync_accounts`, `list_accounts`, the updates in `login` and `session clear` | config, database |
| Migrations (`db/__init__.py`) | the schema, `schema_migrations` | `migrate`, `_apply` | every command that opens the database |
| Configuration (`config.py`) | none after loading | `load`, validation, `account` | all commands |
| Adapters (`adapters/`) | a registry filled at import | `register`, `get`, `available` | `login` (`probe_identity`) |
| Command line (`cli.py`) | `AppContext`: the config once it is loaded | the commands, their order of checks, their exit codes | all of the above |

The hard behaviours, with their lines, are the `hazards` of PROJECT.json. In short:

* flock and the line in the lock file change in separate steps, and a killed holder leaves its
  line behind (`lock.py:50-72`);
* `login` saves and records after it has given the lock back, `session clear` never takes it
  (`login.py:98-99`, `cli.py:417`);
* every save of an account goes through one temporary name (`store.py:174`), so that two logins
  that overlap can rename each other's files;
* the key file exists before it has a key, and two first commands can race for it
  (`crypto.py:65-75`);
* a migration runner plans from a record that it read outside any transaction (`db/__init__.py:135-155`);
* a sync of the accounts is many statements, made from a config that may have been edited since
  (`accounts.py:37-61`);
* handlers of response events interleave at their Playwright calls, and the context is closed
  under those that have not ended (`capture.py:85-107`, `discover.py:81`);
* a captured body is redacted twice, as a structure and as the text that `json.dumps` makes of it,
  with its field names, numbers and escapes (`capture.py:107`, `190`);
* the summary of a capture takes urls apart after they have been redacted (`capture.py:107`, `113`);
* a command asks for many things one after the other (config, account, key, schema, operator), and
  each may refuse when something has been changed already (`cli.py:284`, `417-418`);
* commands of an older build go on after a newer one has upgraded the database (`db/__init__.py:145`);
* what the operator is told of a session or a capture is computed in several places from the same
  data, with different roundings and cuts (`store.py:79-118`, `capture.py:109-137`).

## 2. Modules

| Module | Models | Is composed of / implements |
|---|---|---|
| `ProfileMutex` | what a profile lock promises: one holder; a refusal or an entry for each request | abstract |
| `ProfileLock` | `profile_lock` step by step | implements `ProfileMutex` |
| `ExportStore` | what the exported session promises: a save replaces it at once by a whole session, unless two saves have been under way at once | abstract |
| `SessionExport` | `save`, `load`, `delete` on names, inodes, descriptors and blocks | implements `ExportStore` |
| `SessionKey` | `load_or_create` step by step, and the key of the export | |
| `SessionCommands` | `login`, `discover`, `session clear`, `accounts`/`init` on one account, with the steps of a save | uses `ProfileMutex` as its lock |
| `CaptureRecorder` | one `discover`: event handlers, operator, settling, close, capture | |
| `Redaction` | `redact` and `redact_text`, and their use on log events and on captured bodies, parsed or not | |
| `AccountRoster` | the accounts table as a config and two updates decide it at once | abstract |
| `AccountRows` | the transaction of `sync_accounts` beside other writers | implements `AccountRoster` |
| `SchemaLog` | a record of migrations that grows by the next one of a build | abstract |
| `Migrations` | `migrate` and `_apply` in several processes and builds | implements `SchemaLog` |
| `Configuration` | which config files load, secrets in an environment, what `config check` looks at | definitions only |
| `CommandLine` | every command as a script of stages, in several shells and builds, up to its exit code and what it leaves on the disk | uses `Configuration`; implements `AccountRoster`; its stages are one step each, which is what `Migrations`, `AccountRows`, `SessionExport` and `SessionCommands` are about |
| `StoredSession` | names, keys, expiry, staleness and summary of a session | definitions only |
| `CaptureSummary` | the table of endpoints of a capture, exchange by exchange, from redacted urls, its order, and when it fails | definitions only |
| `Reports` | `session status` and the table of `discover`, as sessions age and exchanges are recorded | uses `StoredSession` and `CaptureSummary` |
| `MC*` | model values, symmetry and bounded inputs for TLC | |
| `DiscoverProofs` | the theorems about `CaptureRecorder`, `Reports` and `Redaction`, and induction | |
| other `*Proofs` | the theorems about the module of that name | |

Reading a module: one action per step of the code between two points where another process, a
callback or a kill can come in; `pc[p]` is the place in the code. PROJECT.json maps each action
to its lines. Operators with a comment that starts with `Bug:` are not part of any
specification: each is a definition as a plausible mistake would have it, and is there to show
that the properties notice.

How state and actions correspond to the code:

* **ProfileLock.** `flock` is the kernel's lock, `note` the line in the file (a pid stands for the
  line), `expired` the monotonic deadline. `Open`, `TryFlock`, `Refused`, `Truncate`, `Stamp`, `Sync`
  are the statements of the `with` entry; `Clear` and `Unlock` the two `finally`s; `IOError` is an
  exception of any of them with what the `finally`s then do; `Crash` is a kill, after which the
  kernel closes the descriptor. `seen` and `named` are history: who had the lock while a process
  wanted it, and whom its `ProfileBusyError` named.
* **SessionExport.** `path` and `temp` map the two names to inodes; a write fills a file block by
  block; a rename moves the name; a delete leaves the inode to whoever has it open. `overlap` is
  history: two saves were under way at once.
* **SessionKey.** A generated key has the name of the process that generated it. `Create` is the
  `O_EXCL`, `WriteKey` the write; `NotAKey` is the content of the file between them. Two errors escape
  from `load_or_create`: `CreateFails` (the other command was first) and `EnvKeyEscapes` (a variable
  that is not ASCII).
* **SessionCommands.** A session is the number of its sign-in, 0 for a browser nobody signed in.
  `profileJar` is what Chromium has on disk, `jar[p]` what p's browser has, `snapshot[p]` the
  storage state in memory. `temp` and `export` are the contents of the two names, where `Empty` is a
  file that was created or truncated and `Broken` one that was written in part or by two at once;
  `target[p]` says under which name, if any, the file is by now that p has touched or opened. A save is
  `Touch`, `Open`, `Write`, `Replace`: what a rename moves is the file that has the temporary name
  then, and a login that has the moved file open goes on writing to it. `fileBy`, `rowBy` and
  `overtaken` are history: which command was the last to change the export and to update the row, and
  which logins had yet to save when another command got the lock.
* **CaptureRecorder.** A response is queued, taken up by a handler and goes through its Playwright
  calls (`header_value`, `body`, the two `all_headers`); between them other handlers run. Handlers
  move only while `run_discover` is in a Playwright call itself: Playwright's synchronous API has
  one thread. A body is `whole`, `none` or `lost`.
* **Redaction.** A value is a tree of scalars, texts, bytes, other objects, maps, lists and sets; a
  map is the sequence of its pairs. A text is the set of the pieces the patterns tell apart; the
  regular expressions are not modelled, only that each piece is matched by its pattern and that a
  `key=value` pair keeps its key. `Log` redacts an event; a JSON body goes through `DumpBody` and
  `AppendExchange`, a body that is too long, does not parse or is no JSON through `ScrubBody` and
  `AppendExchange`. `Scrub` is `redact_text` on the text that `json.dumps` makes: it sees field names
  (`ShapedKey`), numbers (`ShapedNumber`) and escapes: a `glyph` is what only its escape makes match,
  as the `u00ae` of a registered sign looks like a postcode. Where it leaves no JSON the place is
  `Garbled`. `Value` is every tree with up to `MaxNesting` containers around a leaf, `Json(n)` those of
  scalars, texts, maps and lists; `redact(value, _depth=d)` is `Redact[d][value]`. `Redact` and `Scrub`
  are recursive functions of the depth, not operators that call themselves, since the prover can
  reason about functions only.
* **AccountRows.** `rows` is the committed table, `newRows` the table as the open transaction has
  it, `writer` SQLite's write lock (`BEGIN IMMEDIATE`), `loaded[p]` the config that p read at its
  start, while `file` goes on changing. `synced` is history: the config of the last commit.
* **Migrations.** A script is its checksum; a version is its place in the build. `ran` counts how
  often a version's script has run on the schema, `log` is `schema_migrations`; `newRan` and
  `newLog` belong to the open transaction.
* **CommandLine.** A script is the sequence of the calls that a command makes and that can refuse,
  fail or change something; `at[p]` is the next one. `version` counts the applied migrations, `rows` is
  the accounts table, `files` says which of the state directory, `session.key` and the database are
  there, `export`, `profiles` and `captures` are the accounts that have one, `config[p]` is the config
  that `AppContext` keeps. The `...Partly` actions are stages that fail half-way and what they leave:
  a state directory without a key, a database without migrations, a deleted export with a profile.
  `outcome[p]` is the exit code by its cause: `ok` 0, `unbuilt` 3, and 1 for a `PricewatchError`
  (`refused`) and for an answer such as "no stored session" (`told`); `failed` is everything else,
  kills included. `run` stands for all commands that are not implemented yet. `solo` and `before` are
  history: a command that has had no other beside it and no edit of the config since it began, and
  what it found. The database and the captures are where they are by default, in the state directory;
  directories within it and lock files are left out.
* **Configuration.** A document is its accounts and notifiers; what makes a TOML file unreadable or a
  key unknown is one value, `Absent`.
* **Reports.** A session is its cookies, each with a name and an expiry or -1, and its origins with
  their keys; an exchange is what the summary reads of it, its path as segments. `RedactedPath` is the path as `redact_text` leaves it (`ShapedSegment`), and a url of
  `ShapedHost` is one of which a match takes a part of the host: `urlsplit` refuses the brackets that are
  left there, and `Failed` says that there is no table. `StartOver` is the next `discover`, which
  starts with a recorder of its own; `MaxTime` and `MaxCalls` are bounds of the run. Names are
  numbers in their alphabetical order. Time is counted in ticks, several to a second, because the report prints whole seconds.

## 3. Runs

Every property has a mutated definition in PROJECT.json under which TLC finds it violated.

| Run | Bounds | Shows |
|---|---|---|
| `ProfileLock` | 3 processes, one attempt each | the line names the holder while it is inside; a refusal names somebody who had the lock meanwhile, or who died or failed inside; the code implements the mutex; every attempt ends |
| `SessionExport` | 4 calls, 5 inodes, 2 blocks | without overlapping saves the export is the whole session of the last rename, and so is what a load reads, wherever a save is killed and whatever is deleted under it; saves that overlap leave a truncated export only if one is killed |
| `SessionKey` | 4 commands, each with or without the variable | an export under a generated key has that key in the file; what cannot be decrypted is explained by the variable |
| `SessionCommands` | 2 commands, 2 sign-ins, with and without adapter | browsers run inside the lock; row and export agree while one command was the last to change both; an export that nobody can read takes a login that was overtaken and one that has not come to the end of its save; an older session is put back only by a login that was overtaken; a login with an adapter gives the profile back |
| `CaptureRecorder` | 3 responses, cap of 2 | by how much the cap can be passed; a capture that was not cut off is complete or full |
| `Redaction` | values one level deeper than the limit, with `MAX_DEPTH` = 2 | redaction keeps the structure as far as the limit and leaves nothing that a pattern matches; the second redaction of a body takes only what the JSON text has and its values have not |
| `AccountRows` | 3 commands, 2 accounts, 2 sites, 4 contents of the config | the table has the switches of one config at every moment; a sync is one step of a table that forgets no account |
| `Migrations` | 3 processes, 4 builds of up to 3 migrations, one of them edited | recorded scripts ran exactly once and no other did; who has a connection has all of its migrations; the record grows by one build's next script at a time |
| `CommandLine` | 2 shells, of builds with 2 and 3 migrations, 5 contents of the config, 1 account in the table and 2 in the configs | a statement finds its table and columns; a login is not refused once somebody has signed in; a config check that ends well has resolved every secret; exit code 0 means that all that the command is for has been done to what it found, and nothing else; a refused command leaves the little that `RefusedLeaves` lists |
| `Reports` | up to 2 cookies with shared names, 2 origins, 5 times, 3 exchanges, 2 rows shown of the code's 15 | hint and date of `session status` agree; no cookie or key is left out; when there is a table, a row tells of all calls of its endpoint; what is cut off is less likely than what is shown |
| `SessionClearBrowser` | 3 commands, 2 sign-ins | a finding |
| `RedactionKeys` | as `Redaction` | a finding |

Why the bounds are enough to be of interest. Two processes suffice for each race, a third lets a
bystander act between them (a holder dies while two others wait; a third runner works with a plan that two
others have overtaken). Two commands on one account are two logins that overlap, or a login and a clear
that comes between its save and its record; for more the theorems stand. Two blocks
are the least with a half-written file. A cap of two with three responses is reached and passed.
Four builds have a prefix, an extension and a conflict among them. Four configs switch an account
off, drop it, move it to another site, and are empty. `MAX_DEPTH` is 12 in the code; the
definitions use it only in comparisons with the depth, and the values go one level beyond it.
Two shells with different builds make every pair of commands meet; the configs include a missing file, one that loads with an
unresolved secret, one that passes the check, one with a name twice and one with a secret from two
sources. The exchanges of `Reports` include two paths that redaction makes one and one whose
redacted url does not parse. Two rows shown and three exchanges have one endpoint too many, and an endpoint with a
JSON answer among others. The theorems remove the bounds on processes, inodes, blocks, sign-ins, responses, builds,
accounts and configs; the
runs with two processes rest on them. They also remove those on cookies, origins, exchanges, times and
rows shown, and on the depth and the nesting of values.

`CommandLine` has a VIEW, `Distinct`, which leaves out of the fingerprint what cannot matter. A
command that is alone, and an installation on which nothing runs, are told apart by everything. Once a
command has met another, or the config has been edited under it, `solo` is gone for good, and the
properties that are about such commands (`StatementsFindTheirTables`, `SignInKept`,
`CheckMeansSendable`) depend on the stages, the loaded configs, the config file and the version of the
schema alone: what the stages read beyond that decides only how a command that ends does end. So
`Progress` keeps just these. What follows an overlap is therefore visited from one of the installations
that it may have left; every installation that commands leave one after the other is visited, and the
theorems are about all. There is one account in the table, so that `OthersKept` (a command leaves the rows
of other accounts alone) is exercised by the proof only.

Where every process runs one command, a second command of the same person is another process, so
restarts are covered: a process that starts after another has died finds what that one left.

**Fairness.** Safety properties assume none. `EveryAttemptEnds` needs that a scheduled process
takes its own steps and that its deadline passes (`lock.py:45-60`: a poll every 0.1 s up to a
monotonic deadline); nothing is assumed of the caller's block, which is open as long as the
operator likes. `LoginReleasesProfile` assumes weak fairness of the steps that a `login` with an
adapter takes without being asked (`login.py:113-127`: it polls up to its deadline and then gives
up). Nothing is assumed of the person: no sign-in ever need happen. Without an adapter, and in
`discover`, the command waits for an answer on the terminal that nothing obliges the operator to
give, so nothing is claimed there. A killed process counts as having let go, which the kernel
sees to.

Deadlock is not checked where every process ends (a state with all commands over has no
successor); in `AccountRows`, `CommandLine` and `Reports` something can always happen next and it is checked.

## 4. Proofs

All theorems are about the specifications that TLC checks, with the assumptions that the modules
name (that `NoProc` is no process, that `Response` is finite, that the builds are sequences of
scripts numbered without gaps, and so on).

Eight properties are theorems and in no run: `FlockNotLeaked`, `Exclusion`, `LogIsOneBuild` and
`HistorySurvives`, next to refinements that the runs check; `KeySurvives`, next to the two properties of
keys that rest on it; and the composition of the modules: `RefinesStore` of `SessionExport`, `SavesApart`
of `SessionCommands` and `RefinesRoster` of `CommandLine`. The type invariants of `Reports` and `Redaction` (`ReportsTypeOK`, `RedactionIInv`) are
in no run either: all that can go wrong there is in what is computed of the variables.

* **ProfileLock** (typing, `NoteNamesHolder`, `FlockNotLeaked`, `NamesHolderUnlessDied`, exclusion,
  refinement). The properties are not inductive one by one. A process keeps its line because
  nobody else has the flock; a name in an error is right because a line that is no leftover is the
  flock holder's, and everybody who wants the lock has seen the holder (`WaitersSawHolder`).
* **SessionExport** (typing, `ExportIsLastSave`, `LoadIsWhole`, `QuietExportIsFull`,
  refinement of `ExportStore`). An inode that is the export or is
  being read is never the temporary file; without overlap the one writer writes to the temporary
  file only. So no write touches what a load can see. With overlap, a file that lacks a block is one
  that somebody has open for writing from before that block, or that a killed save left. The
  refinement follows from `ExportIsLastSave` before and after a step: a rename is the abstract `Save`,
  an unlink the `Delete`, and every other step leaves what a load would find. The `Touch` of a second
  save is the abstract `Mix`, after which nothing is promised.
* **SessionKey** (typing, `ExportHasItsKey`, `UndecryptableMeansEnvironment`, `KeySurvives`).
  `O_EXCL` leaves one creator; whoever holds a generated key holds the one in the file.
* **SessionCommands** (typing, `BrowserUnderLock`, `RowMatchesExport`, `ExportNeverOlder`,
  `SavesApart`). Invariants on top of each other: who holds the lock and where its browser is
  (`LockInv`); what each command has done to the row and to the export (`RowInv`); that behind a file
  which nobody can read there is a login with a file that it has not renamed (`TornInv`); the order of
  the sessions in profile, browsers and files (`AgeInv`); that a login which nobody has overtaken has
  the newest session there is (`TurnInv`); and that without an overtaken login each save has the
  temporary file to itself, so that what it renames is what it wrote (`ApartInv`). Until a login is
  overtaken, then, the saves are those of a single writer, for which `SessionExport` shows, block by
  block, that they implement `ExportStore`.
* **CaptureRecorder** (typing, `CapPassedByOverlapOnly`, `CompleteUnlessCutOff`). A handler is taken
  up only while there is room, and later steps leave the sum of recorded exchanges and open
  handlers as it is or make it smaller.
* **Induction** (`DiscoverProofs`: `Least`, `Induction`, `InductionUpTo`, `Recursion`). The library
  states induction with an operator for a parameter, which the provers cannot instantiate. It states
  with sets that the naturals are well founded. From that: a set of naturals has a least member; a set
  with zero and every successor of its members has them all; and for every start and every step there
  is a function that goes by them. A definition by a recursive function is, to the prover, the choice
  of some function that satisfies an equation; only once there is one, the definition is what it says
  (`KeysGrow`, `RowsGrow`, `NestedIs`, `WaysAre`, `RedactIs`, `ScrubIs`).
* **Reports** (`HintAgreesWithDate`, `NothingLeftOut`, `RowsTellOfAllCalls`, `LikeliestShown`, for
  lists of any length). The sorted list has each name as often as it came (`SortedCounts`: the places
  that a name takes are those between the number of smaller names and of those not greater). The hint
  is about lengths, so all persistent cookies have expired, so the earliest has; rounding to whole
  seconds keeps the order of two dates. The keys are counted origin by origin and the calls exchange
  by exchange: after n of them the rows tell of the first n (`Tells`, the induction hypothesis). The
  sort key with the places as tie-breaker is a strict total order, so the ranks are a permutation
  (`Ranks`), and a row that was cut off comes after all that are shown. Where a url
  does not parse there is no table, and nothing is claimed of it.
* **Redaction** (`StructureKept`, `NothingShapedLeft`, for every limit and every value). From the
  deepest level up, redaction maps the values of a nesting with any leaves to values of the same nesting
  with clean leaves (`RedactTyped`), and the second pass maps JSON values to such without shaped field
  names and numbers (`ScrubTyped`). `StructureKept` speaks of places, the code recurses: the ways of
  length n into the result are the ways of length n into the value that lead through nothing closed
  (`WaysRedacted`, by induction over n).
* **AccountRows** (typing, `SwitchesOfOneConfig`, `HistorySurvives`, refinement of `AccountRoster`).
  The writer's copy is at every moment the committed table with the accounts synced that are done,
  since nobody else writes meanwhile; the commit therefore publishes the sync of the table as it is
  then.
* **Migrations** (typing, `SchemaMatchesLog`, `LogIsOneBuild`, `DoneMeansMigrated`, refinement of
  `SchemaLog`). A stale plan stays usable because what a runner does not plan to apply stays
  recorded with its own scripts, and a version that is free when the write transaction begins is
  free when it commits.
* **CommandLine** (typing and the other properties of its run). The invariant says that a command past
  its first stage has a config that loads (`Settled`), that one past `migrate` has a database with all
  of its migrations, since versions only grow (`Migrated`), and that a running command has no outcome
  yet. Facts about the scripts, by cases over the commands, then give that the table is there, that a
  login asks for nothing after the browser, and what precedes a refusal. For exit codes, a second
  invariant (`SoloInv`) says what the stages behind a command that is alone have made of what it
  found: of rows, version, files, export, profile and capture, each as a function of its script. That
  the commands implement `AccountRoster` (`Refinement`) needs `Settled`: a sync is one of a config that loads, also when the file has been edited since.

Only model-checked: `EveryAttemptEnds` and `LoginReleasesProfile`, which are liveness properties (the
prover does not reason about fairness), and `CaptureIntact`, which is about the two passes of redaction
one after the other. Every other property of a passing run is a theorem. The two
properties of the `violation` runs do not hold.

## 5. Where the code and its texts differ

The two `violation` runs:

* **SessionClearBrowser.** `session clear` deletes the profile under a running browser, since it does
  not take the lock (`cli.py:417`; `browser.py:54-55` expects the lock to be held by whoever uses
  the profile).
* **RedactionKeys.** A JSON body is redacted again as a text, which replaces field names that look
  like a credential (32 hex digits, a postcode), several of them by the same `[REDACTED]`.
  `cli.py:360` and the note in the capture itself say that JSON keys are intact.

Others that were met and have no run of their own; the passing properties are stated so that
they allow for them and for nothing else:

* the summary takes apart a url that was redacted before (`capture.py:107`, `113`). Where a match takes a
  part of the host (`user@host`, or a last label that makes 40 letters and slashes with the path, as in
  `https://www.asos.[REDACTED]`), `urlsplit` raises `ValueError`, which nothing catches
  (`discover.py:104`): no table, after the capture was written, against `errors.py:5` and against
  "everything the page fetched is recorded and ranked" (`README.md:76-77` of the repository). This is
  `Failed`, without which `RowsTellOfAllCalls` and `LikeliestShown` promise their table;
* where it takes a segment of the path, endpoints that differ in nothing else share one row, against
  `capture.py:110`. `RowsTellOfAllCalls` is about endpoints as redaction leaves them, and says that a path
  which was left alone shares its row with no other;
* the second redaction of a body sees the escapes of `json.dumps` (`capture.py:190`): the `u00ae` of a
  registered sign looks like a postcode, the title is lost, and the body is no JSON any more, against
  `capture.py:15-16`; numbers of 32 digits and more go the same way. These are the three cases of
  `OnlyAsJson`, which `CaptureIntact` excepts;
* two saves of one account share the temporary file, and `login` saves outside the lock: one can
  rename the file that the other has just truncated; if the other then dies, the export stays
  truncated beside a row that is `ok`, which the comment at `store.py:172-173` excludes. It takes both,
  the overlap and the kill: `QuietExportIsFull`, and the last part of `RowMatchesExport`;
* a first command that is killed between the creation of the key file and the write leaves an empty
  one, which every later command refuses until somebody deletes it by hand (`crypto.py:72-74`; the
  module wants an unattended restart to work, 14-15): `NotAKey` in `SessionKey`;
* `session clear` deletes the export and the profile before it opens the database; when the migration
  is refused or fails, both are gone and the row still tells of them (`cli.py:417-418`): the exception in
  `RefusedLeaves`;
* commands that refuse, or only read, make the state directory and `session.key` (`crypto.py:68-74`) and
  the database (`db version`): `RefusedLeaves` and `Done` list what they may leave;
* the summary ranks endpoints by the length of the recorded text, after redaction and cut, where
  `capture.py:135` speaks of the biggest payloads; `LikeliestShown` is about the recorded bodies;
* a refused process can read the line of a holder that died, in the moment before the new holder
  has written its own (`lock.py:50-63`, against 9-10); `NamesHolderUnlessDied` excludes any other
  wrong name;
* a `session clear` between a login's save and its record leaves an account `ok` without a session
  (`login.py:98-99`), and a login that saves and records while a clear is on its way to the row leaves a
  fresh session beside a row that calls it dead (`cli.py:417-418`, against `001_initial.sql:18`): the
  cases in which `RowMatchesExport` finds another command behind the export than behind the row;
* a login that takes longer from its unlock to its save than the next command takes to get the lock
  can put an older export over a newer one: the `overtaken` of `ExportNeverOlder`;
* `login` on an account that no `init` or `accounts` has synced updates no row and ends with 0, against
  "note the capture" (`login.py:137`): `Done` says that the table is left alone then;
* a variable for the key that is not ASCII ends in a bare `UnicodeEncodeError` (`crypto.py:61`), against
  `errors.py:5`: `EnvKeyEscapes`;
* of two first commands that both found no key file, the later one ends in a bare `FileExistsError`,
  against `errors.py:3-5` (`CreateFails`);
* a body that cannot be read from the closing context is recorded as an exchange without a body,
  against `discover.py:79-80`, and a response whose handler never ends is neither recorded nor
  counted, against `cli.py:333`: the `cutOff` of `CompleteUnlessCutOff`;
* the module docstring of `logging.py` places the redaction processor before exception formatting;
  the chain has it after, as the comment in the chain says it must be;
* `redact` raises `TypeError` on a set that has a frozenset in it, which no caller passes; the run
  has no such value, and the theorems speak of one as if the result could be built.

## 6. Not modelled, and the plan

Done, in this order: the lock and its mutex; the export; the key; the commands that compose them;
migrations; the capture; the accounts; redaction; the configuration and the command line; the stored
session and the summary of a capture.

To come, when the code has it:

1. *Schema*: the tables of items, observations, runs and notifications with their constraints and
   cascades. At this commit no code writes them and one `COUNT` reads them.
2. *Daemon, triggers, notifiers*: only their configuration exists.

Left out of modelled parts: ranges of numbers, patterns of names, the https rule and defaults of the
config, which are declarations that pydantic checks one field at a time; the text of the capture
document and the length at which a body is cut; `version` and `config path`, which print a constant.

Left out: the adapter contract and its registry (data classes and a dictionary filled at import; no
adapter is shipped, so `SessionCommands` takes its presence as a choice made at the start);
formatting, paths and time stamps; the daemon, triggers and notifiers, of which only the
configuration exists; Fernet, SQLite, Chromium and Playwright, which appear as what the code relies
on (`external` in the map).
