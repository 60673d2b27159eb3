# psimeter in TLA+

Models, model-checking runs and machine-checked proofs of
[psimeter](../src/README.md): a server that records micro-PK and precognition
experiments on a hash-chained ledger, with independent witnesses that co-sign
what happens while it happens, pages that drive the sessions, and readers and
verifiers of what was recorded. All modules are translated from the TypeScript
and Python sources (`src/packages/*/src`, `src/analysis`); `PROJECT.json` maps
every definition to its lines.

## 1. The system

| Component | State | Operations | Talks to |
|---|---|---|---|
| Ledger store (`core/ledger.ts`, `server/ledgerStore.ts`) | the JSONL file; `head` in memory | constructor (resume), `append`, `ensureGenesis`, `verifyChain` | the file system, synchronously |
| Server (`server/app.ts`, `session.ts`) | Map of session contexts: `prevHash`, `open`, `started` | create, sign, stream, close, read-only routes | beacon, store, runs |
| Anchor command (`anchorCli.ts`, `anchor.ts`) | a store of its own on the same file | `anchorHead` | the file |
| Micro-PK run (`kinds/microPk.ts`) | windows, checkpoints, Merkle root | `generateAndSeal` | entropy source, witnesses, store |
| Precognition run (`kinds/precog.ts`) | `trialIndex`, `pending`, `closed`, `records` shared by concurrent invocations | `onChoice`, `onSign`, `nextTrial`, `seal`, `fail` | page (socket), beacon, witnesses, store |
| Run pages (`client/pages/run*`, `router.ts`, `api.ts`, `identity.ts`) | view, socket, countdown, trace, current choice, stored key | dispatch, consent, begin, goLive, messages, choose, sign, teardown | server (HTTP, socket) |
| Witness client (`witnessClient.ts`) | calls in flight | `attest`, `attestQuorum`, time-outs | witnesses (HTTP) |
| Witness (`packages/witness`) | feed file, its head, stamps file | `handleAttest`, feed append, restart, `stampHead` | its own beacon, the feed file, a TSA |
| Beacons (`beacon.ts`, twice) | none: public rounds | latest pulse, wait for a round | drand |
| Ledger reader (`ledgerReader.ts`) | parsed ledger under a size-and-mtime key | sessions, summaries, details, statistics, leaderboard | the ledger file |
| Contact route (`contactStore.ts`) | contact file | `saveContact` of a candidate | ledger reader |
| Verifiers (`client/verify.ts`, `analysis/analyze.py`) | none | recompute every commitment | ledger, blobs, feeds |
| Pure core (`canonicalize`, `commitment`, `merkle`, `psi`, `scoring`, `kinds`) | none | functions | |
| Entropy, blobs, configuration | files | single reads and writes | |

What is hard here: Node runs handlers one at a time but every `await` lets others
in, so guards are tested before an await and relied on after it (sign requests of
one session; two sessions on one head; `pending` and `trialIndex` of a
precognition run; `begin()` of a page that is left meanwhile; a feed's head while
it is being time-stamped). Writes are not atomic with the memory that describes
them. The process may stop at any point and keeps its sessions only in memory. A
second process may write the same file, and the read routes parse it while it
grows. Witnesses answer late, twice through two urls, or never, restart, and read
beacons of their own. The complete list, each with its line and the properties
that watch it, is `hazards` in `PROJECT.json`.

What makes each component correct:

* ledger: the file is one chain, whatever interleaves; a failed write loses
  entries and does nothing worse; the store resumes from its file;
* sessions: a session.open is chained on the very head its precommit bound; one
  open and one seal per session; a seal names its own open; runs end, and stay ended;
* micro-PK: no window is generated before a quorum of feeds holds the windows
  before it; the seal's attestations are in the feeds; the blob splits back into
  the committed windows; what is sealed passes both verifiers; what was opened
  and dropped shows in the feeds;
* precognition: a recorded choice was signed before its target was public; every
  record verifies as written; a session is sealed or voided, once; a choice is
  answered; what the verifiers accept is what it claims to be;
* witnesses: rounds of successive stages do not go back; feed numbers name one
  entry; a line of the stamps file names the head its token is over;
* public record: what is served was in the file; every sealed session can be read
  and verified; totals, ranks and trends of different routes agree; contacts come
  from candidates;
* pages: nothing of a session outlives its live view; a trace is the run's; a
  signature is of the commit that the server bound; the page gets its answer.

## 2. The modules

```
SessionLog        abstract: the log of whole sessions that readers rely on
  ^ implemented by
SessionSpine      store + handlers + runs (abstract) + anchor command + crashes
  EXTENDS Ledger  entries, chaining, verifyChain, the file with torn lines
SessionSpineProofs  theorems
  ^ implemented by
PublicRecord      the spine composed with the read routes and the contact route
  EXTENDS LedgerReader  joins, summaries, statistics, board   EXTENDS Scoring
PublicRecordProofs  theorems

CosignedStream    abstract: what live witnessing promises of a micro-PK session
  ^ implemented by
MicroPk           generateAndSeal, one action per stretch between awaits
Precog            streamPrecog with concurrent onChoice/onSign, and what its page sends
  both EXTEND WitnessFeeds   witness client, witnesses, feeds, time-stamps, the beacon
MicroPkAudit, PrecogAudit    the verifiers beside MicroPk and Precog
  both EXTEND Audit          co-signatures and quorum as an auditor counts them
MicroPkProofs     theorems about the feeds and the stages of a run
MicroPkAuditProofs  theorems about its seal, its verifiers and the abstract stream
PrecogProofs      theorems about a precognition session, its seal and its verifiers
  all on WitnessFeedsProofs  lemmas about the calls and feeds, whoever asks

Merkle            the root of the trials of a run
DataProofs        induction over sets, sums, and what a Merkle root tells apart
RunPage           what the pages of a run share; EXTENDED by
MicroPkPage       the micro-PK page with MicroPk as its server
PrecogPage        the precognition page with streamPrecog as it meets it
RunPages          dispatch to one of the two
RunPagesProofs    theorems about the pages
```

`MCSessionSpine`, `MCPublicRecord`, `MCMicroPk`, `MCPrecog` and `MCRunPages` only
give constants their values.

**Ledger, SessionSpine.** `file` is the sequence of lines, `lastHash` the last
hash handed out: a hash is a number that is never reused, so it is injective as
SHA-256 is taken to be. A failed `appendFileSync` leaves the file as it was or,
with `TornWrites`, a "torn" last line (no newline, unparsable) or a complete
"garbled" one after the next append glues onto it. One action is the code between
two awaits: `CreateSession`/`Prepare` around `fetchPulse`, `SignRequest`/
`CommitOpen` around the request body. The head moves in the same action that
writes, whether or not the write succeeds (`CommitOpenFails`, `SealFails`),
because that is the order in `append`. `AnchorOpens`/`AnchorAppends` is the other
process, and `LiveAnchor` says whether it may run beside the server. `Crash` may
come at any time, `CrashInAppend` inside the write, which leaves what a write that
throws may leave (`FailedWrites`). The run itself is abstract:
it seals or fails. `MicroPk` and `Precog` say how; an unhandled rejection in
`Precog` is a `Crash` of the spine.

**LedgerReader, Scoring, PublicRecord.** A reader's view is a function of the
lines of the file: open entries joined with the seals that name them. Rows keep the
places of their opens in the file, so the reversal before a list is sent, and the one
before its trend is drawn, which undo each other, are left out. `ServeGet`
is any read route: it takes the cached parse when size and mtime still fit
(`Stat`: every write adds a line or glues onto a broken one), and parses anew otherwise.
A line that cannot be parsed throws out of the handler, which nothing catches
(`ledgerReader.ts:92`, `app.ts:143-175`), so `GetThrows` ends the process; the
contact route answers 400 instead (`ContactThrows`). Who signed a session, what it
committed and what it came to are constants of the session. They name finitely
many experiments, and a seal has counts that can be scored (`Outcome`: `hitRateZ`
throws at a single option, and no experiment has one). A z is counted in
tenths and ln W in two-hundredths; the wealth mixture over the grid is taken by
its largest component, which is within ln 4 of it. Tiers, candidates, rank and
trend depend on these numbers only through their order.

**WitnessFeeds.** `asks` is `attestQuorum` per caller (whom it waits for, what it
got), `requests` what the witnesses have on their hands. `TimeOut` ends the call
for the client only; the witness may still co-sign. `ReadRequest` asks the
witness's beacon; the pulse that comes back was the latest at some moment
between then and the answer (`PulseRounds`). `CoSign` checks the target, signs
and appends in one step, as there is no await after the pulse. `FeedFails` moves
the head and not the file, as `append` does (`unwritten` remembers the entry), and
`WitnessRestarts` takes it from the last line again. `StampHead` takes the head and
awaits the authority for a token over it; co-signatures, failed writes and restarts
come in between; `StampEnds` adds a line to the stamps file (`stamps`) that names a
head (`NamedHead`) beside the token, and `StampFails` swallows what goes wrong.
`StampsBind` compares what the line names with what the token is over, and looks the
number up in the feed as it is by then.

**MicroPk.** `pc` is where `generateAndSeal` awaits; `windows` the trials of each
window. The Merkle root over n windows is written n; that roots of different
windows differ is checked with the real tree in `Merkle` (`RootsTellWindowsApart`).

**Precog.** `handlers` holds the invocations of `onChoice` and `onSign` that are
in flight and what each read before its await; `trialIndex`, `pending`, `outcome`
(with `closed`) and `records` are shared. `BindChoice` tests nothing again after
its await, and `TrialRecord` takes `trialIndex` as it is by then, as in the code.
`Choose`, `ReceiveTrial` and `ReceivePending` are the page; `SendExtra` is up to
`MaxExtra` messages of a client that is not the page. `void seal()` and
`witness.attestQuorum` inside it: `SealQuorumShort` ends the process, since
nothing handles the rejection.

**Audit, MicroPkAudit, PrecogAudit.** The checks of the browser and of
`analyze.py`, as operators on the artifact that a run has sealed and on the feeds.
An attestation verifies when its signature was made over the statement put
together again from the artifact. `SealedPassesVerify` says what an honest run
seals is accepted by both; `AcceptedIsGenuine` that what is accepted of any client
has its choices before its targets; `DropsAreFlagged` that the cross-check of the
feeds shows a run that was co-signed and never sealed.

**RunPage, MicroPkPage, PrecogPage, RunPages.** `view` is what the page shows or
what `begin()` awaits; `mounted` becomes false when the router runs the disposer,
whatever `begin()` is waiting for. `wire`, `downlink` and `uplink` are the
messages of the socket, in order; a connection may break (`onerror`) and a page
has no `onclose`. The micro-PK page runs against `MicroPk` itself, the
precognition page against `streamPrecog` as a page meets it (`run`): what it
answers and in which order. Runs on the server whose socket the page has let go
of are left out. `signing` is the set of commits that `signPrecommit` has in hand:
nothing waits for those of an earlier session, and `ChoiceSignature` sends each over
the socket of the moment, whichever session it was made in. A key cached when the
shell started and site data cleared since (`ClearStorage`) are both in `storage`.

## 3. The runs

| Run | Question | Bounds | States |
|---|---|---|---|
| `spine` | Is the file one intact chain of whole sessions, and what does a failing disk cost? | 3 sessions (symmetric), 2 sign requests each in flight, 1 anchor run while the server is down, 2 writes that throw, any crashes | 358,629 |
| `public_record` | Is what is served true, do routes agree, is one entry per session safe against everything, is no opened session left hanging? | 2 sessions of 2 operators, one of them attended (precognition), 2 sign requests each, 1 anchor run beside the server, 1 fault, torn writes, 1 contact | 459,303 |
| `micropk_witnessed` | Does the stream of stages hold among faulty witnesses, does its seal verify, and does the run end? | 2 witnesses behind 3 urls, quorum 2, 3 trials in windows of 2, 1 miss, 1 feed fault at any entry | 313,532 |
| `run_page` | Do the pages keep to their session and get their answers? | 7 trials in windows of 2; 3 precognition trials of 2 choices; 3 sessions, 2 broken connections, site data cleared once, leaving at any time, any number of signatures under way | 281,604 |
| `precog_witnessed` | Do the records of the page verify, is the seal fully co-signed, do stamps bind, is every choice answered? | 2 trials, 2 urls of one witness (a time-out loses one answer, a restart both), 3 rounds, 1 feed fault and 1 stamp of the first entry, store may throw, 1 invocation at a time (the page sends nothing while one is in flight) | 612,846 |
| `precog_any_client` | What holds for every client? | 2 trials, 2 extra messages, 2 invocations in flight, 4 rounds, no witnesses | 857,888 |

Why the bounds suffice: the races are between two handlers of one session, two
sessions on one head, or one session and another process; three sessions add the
one that moves the head in between. One faulty write is enough to separate memory
from file, two to do so again after a recovery. Two operators are what a rank
needs, two sessions what a trend does. Two urls with one key and one with another
is the smallest case in which answers and keys differ. A window of 2 in 3 or in 7
trials leaves a short last window, and 4 windows make a tree in which an odd node
is promoted. Two trials are what a stale message of the trial before needs; three
let the page meet one between the first and the last. A third session on a page
follows one that was left and one that broke. Rounds: each trial uses up `Offset`
of them; the last one stands for a beacon that stalls, so that deadlines are met too.
A stamp of the first entry whose write may have failed is what `StampsBind` needs: the
entries after it, and a restart that gives its number to another, come while the token
is awaited and after it is filed. `MinSessions` is 1 in `public_record`, as two
sessions cannot both rank two operators and meet a higher floor: that the floor is
kept is shown for every value by `ContactsAlwaysEarned` alone.

Deadlock is not checked where the system really stops: a session that is over, a
ledger that cannot be opened, a bound that is used up.

Runs that are expected to fail state what a comment or the protocol says and the
code does not do (`findings` in `PROJECT.json`):

* `AnchorBesideServer`, `ChainIntact`: two stores on one file fork the chain.
* `LostWrite`, `ChainIntact`: the head moves before the write that fails.
* `TornWrite`, `ResumesFromItsFile`: a partial last line keeps the server from starting.
* `PrecogResend`, `RecordsVerify`: a repeated signature is recorded as another trial, under an index it does not cover.
* `PrecogSealQuorum`, `ServerSurvives`: the quorum is missed at the seal, and the process ends.
* `PageLeak`, `NothingOutlivesItsPage`: a page left during `begin()` opens its socket and takes the focus mode all the same.

Met while modelling, contained in the models and without a run of their own:

* A second choice for a trial whose first still awaits its pulse is not ignored
  (`precog.ts:98`) but binds the trial anew (`PrecogResend` has such behaviours).
* Both feed and ledger move their head before they write; the witness's feed
  constructor parses its last line, so a torn line keeps it from starting, too.
* A head whose write has failed can still be stamped: its token binds to no prefix of
  the feed (`StampsBind` excepts that entry and no other).
* A signature that outlives its session in `signPrecommit` goes over the socket of the
  next session (`pages/run/precog.ts:193`). When that one awaits the signature of the
  same trial, the server refuses it and voids the session; `RunPage` has this
  behaviour. `SignaturesAreAccepted` is therefore about a session's own signatures.
* The profile page takes its rank and its score from two answers and may show a
  rank of 0 when a session is sealed in between: `RankIsAPlace` is about two
  answers from one ledger.
* The trend a profile draws ends at the score only up to the row limit (1000) of
  the list it is drawn from.
* `experimentStat` pools the sessions of an experiment by its id, over its versions.
* Both verifiers count the keys of a quorum over the union of a session's stages,
  and the browser accepts an empty list at a checkpoint; the threshold it uses is
  the one that the server reports.
* The last image of a precognition session is replaced by the seal at once
  (`prereg/osf-preregistration-precognition.md:144` wants about 4 seconds).
* A socket that closes without an error is not noticed by a page (no `onclose`):
  `LiveViewEnds` assumes that a connection that is lost fires `onerror`.
* `toRef` of the server's beacon does not compare the round that came with the one asked for.

**Fairness.** `SessionSpine!FairSpec` and `PublicRecord!RecordFairSpec`: Node's
event loop finishes what it has received (`SignStep`), and the client is assumed to
connect to the stream once it has been told that the session is open (`StartStream`),
as the run pages do. A run goes on to its end (`RunStep`) only in a session that is
not `Attended`: that a micro-PK run ends is shown by `RunEnds`, while a precognition
run waits for its operator with no deadline and no handler for a socket that closes
(`precog.ts:91-107`, `218-223`, `app.ts:404`). So `OpenSessionsSettle` says that an
opened micro-PK session is over in the end, and that an opened precognition session
is over or does have its run waiting: that it is not refused its stream for good.
Nothing makes anybody create, sign, restart, anchor or read. `MicroPk!FairSpec`: the run goes on,
and a request is served, refused, or ends at its time-out. `Precog!FairSpec`: the
same, the beacon publishes its rounds, a wait for a round that never comes meets
its deadline, and the page shows and signs what it receives; pressing a button is
not fair, and `EveryChoiceIsAnswered` starts at a choice. `RunPages!PageFairSpec`:
requests are answered, a socket connects or fails and delivers in order, timers
run out, and the server runs what is ready; consenting, choosing and leaving are
up to the operator.

Every property has a mutant, a plausible slip in the code (`mutants`), that TLC
finds to violate it. The definitions marked "Variant" exist for that alone.

## 4. The proofs

All of them hold for every value of the constants (any number of sessions,
requests, witnesses, windows, trials, pages' visits, faults, processes and
restarts) that meets the assumptions of the modules: the sets of witnesses and of
their urls are finite, thresholds are within the urls, the run pages meet
`MicroPk` with witnessing off (`PageAssumption`), and sessions have seals that can be
scored, in finitely many experiments (`ReaderAssumption`).

| Module | Theorem | Property | Assumes | Rests on |
|---|---|---|---|---|
| `SessionSpineProofs` | `TypeCorrect` | `TypeOK` | nothing | itself |
| | `ChainStaysIntact` | `IntactUntilAFault` | `SingleWriter`: no live anchor | `ChainInv` |
| | `OneEntryPerSession` | `AtMostOncePerSession` | nothing | `LifeInv` |
| | `RunsStayFinal` | `RunsAreFinal` | nothing | `LifeInv` |
| | `OpenAlwaysBindsHead` | `OpenBindsHead` | nothing | types |
| | `SealsNameTheirOpen` | `SealNamesItsOpen` | no torn writes | `LogInv` |
| | `RefinesSessionLog` | `ImplementsSessionLog` | no torn writes | `LifeInv`, `LogInv` |
| | `FaultsAlwaysOnlyLose` | `FaultsOnlyLoseEntries` | `SingleWriter`, no torn writes | `OrderInv` |
| `MicroPkProofs` | `FeedsAlwaysAscend` | `FeedsAscend` | nothing | `FeedInv` |
| | `SealsAlwaysMatchFeeds` | `SealMatchesFeeds` | nothing | `StageInv`, `FeedInv` |
| | `RoundsAlwaysAscend` | `RoundsAscend` | nothing | `StageInv`, `FeedInv` |
| `MicroPkAuditProofs` | `MicroPkTypes` | `TypeOK` | nothing | `StreamInv`, `BlobInv` |
| | `SealedAlwaysVerifies` | `SealedPassesVerify` | nothing | `BlobInv`, `StageInv` |
| | `DropsAlwaysFlagged` | `DropsAreFlagged` | nothing | `StreamInv` |
| | `MicroPkImplementsStream` | `ImplementsCosignedStream` | `Enabled`: witnessing is on | `StreamInv`, `BlobInv` |
| `PrecogProofs` | `ChoicesAlwaysPrecedeTargets` | `ChoicesPrecedeTargets` | nothing | `TimingInv` |
| | `StampsAlwaysBind` | `StampsBind` | nothing | `FeedInv` |
| | `SealedAlwaysOnceOrVoid` | `SealedOnceOrVoid` | nothing | `ClosedInv` |
| | `PrecogTypes` | `TypeOK` | nothing | `RunInv` |
| | `AcceptedAlwaysGenuine` | `AcceptedIsGenuine` | nothing | `RunInv` |
| | `RecordsAlwaysVerify` | `RecordsVerify` | `MaxExtra = 0`: the page drives | `RunInv`, `PageInv` |
| | `SealAlwaysCarriesWitnesses` | `SealCarriesWitnesses` | `MaxExtra = 0` | `RunInv`, `PageInv` |
| | `SealedAlwaysPassesVerify` | `SealedPassesVerify` | `MaxExtra = 0` | `RunInv`, `PageInv` |
| `PublicRecordProofs` | `ReadersRefineSpine` | `Spec` of the spine | nothing | the steps |
| | `CacheStaysTrue` | `CacheTrue` | nothing | `CacheInv` |
| | `OneEntryAmongReaders` | `AtMostOncePerSession` | nothing | `ReadersRefineSpine`, `OneEntryPerSession` |
| | `SealedAlwaysPublic` | `SealedIsPublic` | nothing | `KeptInv` |
| | `ContactsAlwaysEarned` | `ContactsEarned` | nothing | `ContactsInv`, `CacheInv` |
| | `RecordTypes` | `RecordTypeOK` | nothing | `NamedInv`, `CacheInv`, `ContactsInv` |
| | `RanksAreSound` | `RankIsAPlace` | nothing | `NamedInv` |
| | `TotalsAlwaysAgree` | `TotalsAgree` | nothing | `NamedInv`, `CacheInv`, sums over parts |
| `RunPagesProofs` | `PagesTypes` | `RunPagesTypeOK` | nothing | `PagesInv` |
| | `AlwaysQuietUnlessLive` | `QuietUnlessLive` | nothing | `PagesInv` |
| | `TraceIsAlwaysTheRun` | `TraceIsTheRun` | nothing | `PagesInv` |
| | `SignaturesAlwaysAccepted` | `SignaturesAreAccepted` | nothing | `PagesInv` |
| | `SealAlwaysAfterTrace` | `SealAfterTrace` | nothing | `PagesInv` |
| | `RootsAlwaysApart` | `RootsTellWindowsApart` | nothing | `PagesInv`, `RootsTellApart` |
| `DataProofs` | `RootsTellApart` | roots of any two streams | nothing | heights |

`ChainInv` adds to the chain that the head in memory is the last line of the file
(`HeadsAgree`) and that a stopped server remembers nothing: without these an
append from any other head would break the chain. `LifeInv` explains why two sign
requests cannot both open a session although neither re-tests `ctx.open`: hashes
only grow (`HashesGrow`), so once a session is open the head is past the one it
bound, and `HeadUnmoved` is false for good; `LifeOf` ties each session's Map key,
context, handlers and run to what the file already says of it. `LogInv` adds that
an open session's entry is in the file, which a torn write can falsify: a line
glued onto a torn one is lost though `append` returned. Each step lemma has a step
per action; a lemma on what any write may do to the file (`Extends`) serves all of them.

`OrderInv` is what is left of the chain when writes fail. The head may be an entry
that never reached the file, so the file need not link; but no line continues the
head or anything later than it (`Past`), so the entry made after it may be appended
or lost, and the head moved back to the last line by a restart, without two lines
that continue the same entry.

`FeedInv` adds to `FeedsAscend` that a head's number is never below one in its file:
a failed write leaves it above, a restart takes it back to the last line, and
either way the next number is new. `StampsFit` says that what is or was stamped has
been a head (`WasHead`): an entry of the file, which it stays, or one whose write has
failed; and that the line in the stamps file has its number and names what the token
is over. As numbers go up, no other entry of the feed has that number. Each step of a witness
keeps it (`WitnessesKeepFeeds`, in `WitnessFeedsProofs`), and the runs reach the
feeds through their calls only, so the same lemmas serve both.

`SealMatchesFeeds` is about the end of a run and `RoundsAscend` about two stages of
it; `StageInv` says what holds on the way. `CallInv`: a request that somebody still
waits for is of the present stage (`Current`), was read by its witness after the
stage before was complete, and is the only one of its url; so an answer that is
taken is of the right subject and of a round no earlier than those before, and an
answer that comes too late is not taken. `HeldInv`: the stages that are over hold
co-signatures of their subjects that are in the feeds, of a quorum, with rounds that
do not go back, and there are as many of them as windows, or one less while a
checkpoint is awaited. `SealInv` carries both to the seal. The witnesses' steps only
add to the feeds and to the beacon (`EntriesGrow`, `ClockGrows`), which disturbs
none of it (`HeldStays`).

`ChoicesPrecedeTargets` says nothing of the invocations that have not recorded
yet, so `TimingInv` follows them through their awaits: the signature came before
the guard asked for its pulse (`signedAt <= since`), the pulse is no older than
that question, and the guard lets it pass only when it is older than the target;
what the messages change meanwhile in `pending` and `trialIndex` does not reach
the copies an invocation holds. It holds with any number of invocations in flight
and messages of any client, with or without witnesses.

`SealedOnceOrVoid` would be false if a seal could end in a session that had gone on
or been voided; `ClosedInv` says that its co-signatures are awaited only while the
session is sealing, which `closed`, set before they are asked for, makes true.

`ReadersRefineSpine` is why the readers could be added without another proof of the
spine: each of their steps leaves its variables alone or is a crash of it, so its
theorems hold among them. `CacheInv` adds to `CacheTrue` what a write
could break: the key was taken of no more lines than there are now, and not of a
file with a broken last line, so a write, which lengthens the file or glues onto a
broken line, makes the key stale (`WriteKeepsCache`), and a torn parse leaves the
old key and the old entries together (`RefreshIsTrue`).

`KeptInv` says of `SealedIsPublic` what a step can be asked about: the open of a
session that the server holds as open, and open and seal of one that has sealed, are
in the file, until a line of it has been swallowed by another (`Garbled`), which
nothing undoes (`GarbledStays`): from then on the file does not parse and the property
asks nothing. A write that did not fail either put its entry at the end or glued it
onto a torn line (`PersistedOrSwallowed`). That the two entries are joined with each
other, and verify, takes `AtMostOncePerSession` and `OpenBindsHead` as well.
`ContactsInv` keeps every contact eligible in the lines that its score was read from;
those lines parse, so nothing that is written later changes them (`PrefixStays`), and
`CacheInv` says that the score came from them.

What the routes compute is a matter of the rows, so `RecordTypeOK`, `RankIsAPlace` and
`TotalsAgree` need only that the rows are typed and finitely many (`IsTable`), which
holds of any file whose opens name sessions (`NamedInv`). The order of the board is
strict (`AheadIsOrder`: the place of an operator's first row decides last), so of two
operators one has fewer ahead of it; and a list read earlier can only lack seals
(`ScoredStays`). The totals are sums over functions with a finite domain.
`FoldFunction` takes the elements in an order that is chosen; `DataProofs` shows that
the choice does not matter (`SigmaTake`) and that summing by parts sums the whole
(`SigmaOfParts`, `SizeOfParts`), by induction over the subsets of a finite set. The parts are the operators, the choices and
the experiments, and a row that is not sealed adds nothing (`SigmaRest`). A trend that
ends at the score needs a list that is complete, so both are stated up to the row limit.

What a micro-PK run seals: `BlobInv` ties `windows`, `trial` and the payload of the
seal to the split of the trials that the protocol fixes (`SplitsInWindows`: full
windows and what is left). `StreamInv` says that nobody signs ahead of the run (`Asked`: every
entry of every feed and every pending request is of a stage the run has come to) and
that the run is never ahead of a quorum (`CoSigned` for each stage behind it).
`DropsAreFlagged` needs the second, for a run that failed may have been co-signed for
its open only; `ImplementsCosignedStream` needs both, since a late co-signature of a
stage is a step of the abstract stream only if that stage is the next one or an old
one. It is proved with witnessing on: without it nothing is promised of any quorum.

A precognition session: `RunInv` adds to `TimingInv` and `ClosedInv` what every
invocation, every record and the seal carry: a record's signature is bound
(`IsBound`), older than its target, co-signed between the round it was bound at and
its target (`CoSignedChoice`), and its `commit` is that signature but for the index,
which is the place of the record. That exception is why `RecordsVerify` fails for some
clients (`PrecogResend`) while `AcceptedIsGenuine` holds for all: the verifiers refuse
a record whose index its signature does not cover. `PageInv` removes the exception for
a session that the page drives (`MaxExtra = 0`, no message but the page's own):
`OneTrialInv` lists the places where the one trial under way may be (a message to the
page, the page, a message to the server, or one invocation), so no second invocation
finds a `pending` that is not its own. The hypothesis is a value of the constant that
the run `precog_witnessed` uses.

The pages: `PagesInv` is `ShellInv` for what both share (focus mode and socket go
together, and only with the live view) and one invariant for the page that is there;
the other page's variables are untouched. `TraceInv` says that the points drawn and the
checkpoints under way are the windows of the run, that nothing is under way or counts
down without an open socket, and that the seal is the last message. `DialogueInv`
follows one trial of the precognition page through the callbacks that share
`currentChoice`: what the page is signing in this session (`OwnCommits`) and what it has
said in it that the server has not heard (`Unheard`) are one thing at a time. What an
earlier session left apart from it (`ApartInv`) is only signatures, in `signing` or on
the uplink, that name their own session.

The Merkle tree: the height of a node is the number of steps to its first leaf, and no
term has two (`OneHeight`). All nodes of a level but the last are whole subtrees of
that height (`IsLevel`), the last may be lower, since it may have been promoted; so of
two equal levels the two they came from were of one length, and equal node by node
(`NextLevelApart`). A tree of more than one level is higher than any leaf, so roots of
streams of different lengths differ as well. An odd node that is paired with itself
breaks exactly this step. `RootsAlwaysApart` is the instance that the model
relies on when it writes a root over n windows as n.

Induction over data is done with a set in the place of the predicate
(`NatSetInduction`): the library's induction theorems take operators as parameters,
which the installed provers cannot instantiate.

Only model-checked:

* the liveness properties (`OpenSessionsSettle`, `RunEnds`, `LiveViewEnds`,
  `ChoiceIsAnswered`, `EveryChoiceIsAnswered`): fairness is beyond the prover here;

## 5. Not modelled

* Canonical JSON, hashes and signatures are taken to be injective, BLS checks to
  work. The schema check of the artifacts and the raw-blob and pixel hashes of a
  target are left to them.
* Stouffer z, p-values, sigma and points are numbers that nothing depends on; images,
  charts and layout are presentation. Time is present as rounds and as the order of
  time-outs, not as seconds.
* Entropy sources, blob store, experiment loader and configuration are single reads and
  writes; where they fail, a run fails (`RunFails`, `BeginSeal`).
* The proof files that the anchor command writes for OpenTimestamps are read by no
  other part.
* Known simplifications, none of which a property depends on: `Refresh` reads size,
  mtime and content in one step; a second open of a session, which would drop its seal
  from the join, is left out of `HasSeal`, since `AtMostOncePerSession` excludes it; a
  seal of neither kind (`zDisplay` null) is left out, since the runs write none; the
  statistics have one row per experiment id, where the route has one per id and
  version with the counts pooled by id (`app.ts:299-308`), the same as long as each
  experiment has one version, as at this commit; the ledger's `baseline.seal`,
  `witness.anchor` and `witness.attest` are written to it by nothing; of a broken
  write, an entry that lacks only its newline is left out, and so is a broken line of a
  feed, which keeps its witness from starting.
* Both verifiers derive an image from the beacon value that the record holds, and do not
  compare it with the value of `targetRound` (`verify.ts:227`, `analyze.py:513`). The
  model keeps the round of that value in the record (`beacon`) apart from the target:
  a server writes the value it waited for, and one that writes another is not modelled.
* A server process that dies without the browser reporting an error is modelled after
  the last reveal only (`ServerDies`): a page has no `onclose` and promises nothing then.
* Reading pages, header, contact form and backdrop hold no state that another part
  depends on. The header's score is read once, when the shell starts.
* `Precog` and `MicroPk` are not composed with `SessionSpine` in one state space: the
  spine's runs seal or fail at any moment, which is all that a run does to the store.
* A precognition client that does not wait for the open to be co-signed is part of
  `precog_any_client`, without witnesses; with two witnesses and a client that sends
  what it likes the state space is beyond the bound of a run.
