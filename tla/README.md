# A TLA+ verification project for terminal-interop

terminal-interop is a set of small Rust crates and one command, `term-interop`,
through which programs in a terminal exchange artifacts (`offer`, `preview`),
capability evidence (`probe`, `negotiate`) and clicked links (`intent`). Its
risk is not in any single function: it is in processes that share a socket
path, a registry directory, a file that others rewrite, or a TTY whose answers
carry no mark of the question. This directory models those parts, checks them
with TLC on small instances and proves the central results with TLAPS for every
value of the constants.

## 1. Inventory

| Component | State | Operations | Interacts through | Hard behaviours |
|---|---|---|---|---|
| Intent callback (`terminal-interop-intent`, `listen_for_intents`, `dispatch_callback`) | `ENDPOINT.sock`, accept queue, streams, the listener's stdout | bind, accept, forward, respond, drop; connect, write, read | Unix sockets, stdout of the consumer | two listeners, silent peers, timeout against late receipt, kills, full backlog |
| Artifact registry (`terminal-interop-ref`, `load_artifact`) | `refs/TOKEN.json`, `latest`, the artifact file | register, resolve, resolve_latest, load | files shared with every other process | token collision, crash between two persists, file changed between two calls |
| Capability negotiation (`terminal-interop-core`) | ordered receipts, a document | negotiate, validate | JSON documents from elsewhere | forged or damaged documents, boundaries of the candidate list |
| TTY probe (`main.rs`, `-kgp`, `-sixel`, `-da1`, `-tmux`) | TTY input, line mode, timers, response buffer | prepare transport, exchange, assess | the TTY and every layer to the terminal | late, split, reordered and unmarked answers; deadlines; raw mode under errors |
| Preview session (`preview.rs`, `-geometry`) | viewport, renderer, screen, line mode, pager offset | observe, select, enter, draw, read key, restore | the TTY, the user, the window | resize between readings, typeahead, late answers, failing cleanup |
| Wire parsers and tmux framing (`-kgp`, `-da1`, `-geometry`, `-tmux`) | none: functions of all bytes read so far | parse, assess, stop test; build and wrap a request | the read loop of an exchange | replies cut anywhere, ends of late replies, keys between replies |
| URI, path and contract codecs (`-intent`, `-ref`, `-core`, `contract validate`) | none | from_path, path, uri, parse_uri; validators by schema | documents and links that others keep, change or make | builder and validator that disagree, two platforms, bounds |
| Artifact view (`-artifact`, `wrapped_text_lines`, `render_text_page`) | lines, offset, placement | sanitize, wrap, page, fit | the screen | text limit inside a character, screens of a few cells, one-pixel images |
| Output persistence (`write_output`) | the output name, a temporary file | check, write, sync, persist | a directory shared with others | name made after the check, failing calls, kills, power failure |
| Pixel encoders, contracts bundle, installer and scripts | files | | | see section 8 |

What makes each part correct:

- *Intent callback*: one owner per path; at most one delivery per click;
  `forwarded` means delivered; a consumer reads only intents for its endpoint;
  everyone who starts also ends.
- *Registry*: entries are immutable; a printed token names what its offer saw;
  `latest` is complete and does not go back; a reference that resolves stands
  for one real content of the file.
- *Negotiation*: a consumer acts only on what follows from valid receipts; what
  the program itself derives is accepted.
- *Probe*: a positive claim is true of the terminal; silence is not a claim; the
  line mode is restored; every probe ends.
- *Preview*: pixels and cells belong together; the renderer was probed; a close
  key closes; the caller gets its terminal back.
- *Wire*: a parser sees the whole replies and only those, however the reads cut
  the stream; tmux passes on exactly what was built.
- *Contracts*: what the program writes it also accepts; a link leads back to its
  path; an intent has one URI.
- *View*: no control of a file but a tab or a carriage return inside a line
  reaches the terminal; rows are the file; paging shows every line; an image
  lies inside the free cells and keeps its proportions.
- *Output*: a name never leads to a part of a document and is never taken from
  another file; a failure leaves nothing behind.

## 2. Modules

| Module | Models | Proofs |
|---|---|---|
| `CallbackPromise` | abstract: what one click is promised | |
| `IntentCallback` | listeners, dispatchers, other local peers | `IntentCallbackProofs` |
| `ArtifactRegistry` | offers, previews, other programs on the file | `ArtifactRegistryProofs` |
| `Negotiation` | the loops of `negotiate_capabilities_v1` and `validate` | `NegotiationProofs` |
| `TtyProbe` | `negotiate pixel` over one TTY | `TtyProbeProofs` |
| `PreviewSession` | `preview` after loading | `PreviewSessionProofs` |
| `WireExchange` | the bytes of one exchange: requests, tmux frame, parsers, stop tests | `ArtifactViewProofs` |
| `RasterFit` | `fit_raster` as operators, and what a placement has to be | `ArtifactViewProofs` |
| `ArtifactView` | from a file's bytes to the rows and cells on the screen; uses `RasterFit` | `ArtifactViewProofs` |
| `Contracts` | documents and links as they are built, encoded, decoded and validated | `ContractsProofs` |
| `OutputFile` | `write_output` of several processes | `OutputFileProofs` |

Each `MC…` module only gives values to constants. Operators whose comment starts
with `Fault:` are deliberate faults; they stand for plausible mistakes in the
code and show that a property would notice. They take part in no specification.

### IntentCallback

`lpc` is the position of each listener in `listen_for_intents`, `cpc` that of
each client. `node[e]` is the process that created the socket file, so a file
whose process is gone is visible. `queue` is the kernel's accept queue, `conn`
the stream being served, `frame`/`reply` the two directions of a stream, `stdout`
what the consumer was given. `bind` is three steps (`BindCheck`, `BindSocket`,
`SetPermissions`) because another process can act between them. `ReadRequest` is
`read_frame` and the checks of `accept`; `Forward` the write to the consumer;
`Respond` the receipt, whose failure ends the program as `?` does; `Unlink` and
`Close` are `drop` and the closing of the descriptor. `Timeout` is the read
timeout of a dispatcher. A process runs once: a restart is another element.
`CallbackPromise` says what remains when sockets and queues are forgotten;
`KeepsPromise` is that specification under `copies <- Copies(d)`,
`told <- result[d]`.

### ArtifactRegistry

One canonical path, several inodes. A file is a sequence of chunks, so that the
hash loop and the load take several steps and another program may change the
file between them. An identity is (inode, mtime, size, hash); the hash is the
bytes that were hashed, i.e. SHA-256 is taken to be injective. `written` is a
history variable: the whole content each modification time stands for. `before`
is a history variable for the order of registrations. A process may be killed
between any two steps.

### Negotiation

The document is built and checked one candidate at a time, in the order of the
code's checks. `Receive` lets the document arrive unchanged or replaced by any
document of the right shape, because `deserialize` runs `validate` on whatever
it gets. `FollowsFromReceipts` states the documented rule without loops.

### TtyProbe

The terminal is chosen from all combinations of: KGP absent, working or refusing;
image id echoed or not; KGP answered before or after DA1; Sixel advertised or
not. Queries travel in `asked`, answers come back in `wire` as two pieces each
and reach `input` one piece at a time; a layer may swallow a query (tmux without
passthrough) and an earlier process may have left queries behind. What is at the
far end, the transport, those queries and what the user types included, is the
record `term`, so that one run has them all.
`OpenTty` flushes the input as the code does, but cannot recall what is still on
the wire. `left`, `wait` and `budget` are the exchange deadline, the running
`poll` and the deadline of `prepare_transport`; `Tick` counts them down. A
millisecond is `Millisecond` ticks, because `remaining_timeout` rounds down to
milliseconds (`RemainingTimeout`). `SetRaw` turns on raw mode and makes its
guard, which may fail (the end `unguarded`); a process that ends with an error
or is killed forgets what it knew (`Forget`).
The stop tests and assessments (`StopWhen`, `AssessKgp`, `AssessSixel`) are the
adapters' functions on a response of pieces.

### PreviewSession

A surface has rows and a pixel extent; `pane` is what the TTY reports and
`outer` what the terminal that answers queries reports, which differ under a
multiplexer. The two size readings (`ReadCells`, `ReadPixels`) and the two
answers to the geometry query (`QueryGeometry`, `AnswerCells`) are separate
steps, so a resize fits between them. Each `?` after the terminal has been
changed is a branch guarded by `WritesMayFail`. `ReadKey` takes all input that
waits (the code reads up to 32 bytes) and decides by its first byte.
`why = "none"` on exit means that no guard was ever
complete. How many keys and answers come in all is not bounded, only how many
wait at one time.

### WireExchange

A byte string is a sequence of tokens: delimiters are single bytes, numbers,
control fields and payloads one token each. `Request` builds the KGP, DA1 and
geometry queries and the chunked image; `Payload` wraps them for tmux, and
`Unframe` is tmux's side, written from the framing it documents. The terminal
answers with segments: possibly the end of a reply to an earlier exchange whose
beginning the flush removed, then the replies, with a key anywhere. `Read`
takes any number of bytes and `Test` runs the stop test of the exchange on
everything read, as `execute_tty_exchange` does. The reference definition is
`Complete`: the events of the segments that have arrived whole. What a terminal
and a user may send is bounded by `WireAssumption`: a KGP reply has one control
field and one status, a DA1 reply is numbers with a semicolon between any two,
a report is two numbers, and no token of a key is `_`, `?` or a semicolon, which
is how a key sequence differs from the replies. The tokens `"semi"` and
`"under"` are `;` and `_`. The specification is `WireSpec`, not `Spec`, because
`ArtifactViewProofs` extends this module beside `ArtifactView`.

### ArtifactView and RasterFit

Bytes and characters are tokens, one for each case the code tells apart: a
letter, newline, carriage return, tab, ESC, NUL, the lead byte of a two-byte
character and two continuation bytes, one of which makes a C1 control.
`Prepare` is the end of `load_artifact` with `sanitize_text`, `Layout` is
`show_text` up to its first page, `Turn` one key and its page, `Place` is
`show_raster`. `Seen` takes into account that the footer is written over the
last row. `RasterFit` states `fit_raster` without saturation (no product of a
u32 and a u16 leaves 64 bits) and, apart from it, what a placement has to be.

### Contracts

A path is a sequence of the kinds of byte that matter (`/`, `\`, a letter, `:`,
NUL, a byte that is not UTF-8), Base64 text is its bytes and the form it was
written in. `host` is the platform. `MakeIntent`, `WriteUri`, `ForeignUri`,
`Click` and `Forward` follow a link from `intent uri` or from elsewhere through
`intent dispatch` to the line a listener writes; `Emit` has the documents of
the other commands. `Validates` is `validate_contract`; the negotiation
document is in `Negotiation`.

### OutputFile

`at` is what the output name leads to: nothing, a link to nothing (for which
`exists` is false), another file, or a writer's document. Each system call of
`write_output` is a step that may fail; another program makes or removes the
name at any time; `PowerFails` may lose what was not synced, and the name, since
the directory is not synced.

## 3. Runs

Passing runs:

| Run | Instance | Shows |
|---|---|---|
| `intent_safety` | 2 listeners on one endpoint (one `--once`), 2 dispatchers, 1 peer | `OwnsItsPath`, `ForwardedWasHandedOff`, `ConsumerStream`, `OrderlyExitFreesPath`, `ServesUntilSomeoneLeaves` |
| `intent_live` | the same without the peer, with fairness | `KeepsPromise` (`IntentCallback` implements `CallbackPromise`), `DispatchEnds`, `RequestsAreServed` |
| `registry` | 2 offers, 1 preview, 2 tokens, 2 tries, files up to 2 chunks of 2 values, limit 1, 1 change | `EntriesAreImmutable`, `TokenNamesItsOffer`, `LatestIsComplete`, `LatestNeverGoesBack`, `ResolvedContentWasWhole` |
| `negotiation` | up to 2 candidates from 6 receipts, all documents of that size | `AcceptedFollowsFromReceipts`, `NegotiatedIsNeverRejected` |
| `probe` | all 18 kinds of terminal, reached directly after another process left a KGP query, 2 of them with a key; 2 terminals behind tmux, 2 units of readiness time; limit 5 pieces; with fairness | `SelectedIsSupported`, `SilenceStaysUnknown`, `RawModeIsUndone`, `ProbeEnds` |
| `preview` | texts and images, 2 choices of backend, 3 windows, 1 resize, 2 keys and 1 late answer waiting, failures anywhere, with fairness | `PixelsBelongToCells`, `GuardRestores`, `QuitCloses` |
| `wire` | 4 KGP replies before or after DA1, 4 DA1 replies, 4 reports, every end of 4 late replies, 2 keys, images of up to 3 chunks, direct and tmux, every cut | `PassthroughIsTransparent`, `RepliesAreRecognised`, `SplitDoesNotMatter` |
| `artifact_view` | all files up to 4 bytes, longer ones around a limit of 5, screens of 0 to 3 columns and 1 to 4 rows; 20 images in 192 viewports | `OnlyTabAndReturnPass`, `RowsAreTheFile`, `PagingSkipsNothing`, `ImageFits` |
| `contracts` | all paths up to 5 bytes of 6 kinds and some of 6, 2 platforms, all forms and endings of a foreign link | `EmittedIsValid`, `LinkLeadsBack`, `UriIsCanonical` |
| `output` | 3 writers, 2 names made by others, kills, failing calls, a power failure | `OutputIsWhole`, `SuccessIsExclusive`, `NothingIsReplaced` |

`OrderlyExitFreesPath` says that only a kill, or a failed `set_permissions`
inside `bind`, leaves a path that nobody serves; `ServesUntilSomeoneLeaves` that
a listener without `--once` ends only because its consumer, or the client it was
answering, has gone. The types of the variables are `TypeOK` of each module;
those of `IntentCallback`, `ArtifactRegistry`, `Negotiation`, `TtyProbe`,
`PreviewSession`, `OutputFile`, `ArtifactView` and `WireExchange` (`WireTypeOK`)
are proved (section 6) and no run repeats them, no more than
`RendererWasEligible` and `NoTemporaryLeft`, which are parts of theorems.

Two runs refute a sentence of the repository, which `findings` in `PROJECT.json`
quotes. `registry_replaced`: "Replacing the path target never silently rebinds
an existing token." The path is opened again after it was checked, and may by
then lead to another file. `preview_early_error`: "a drop guard performs the same
cleanup best-effort during unwinding or early error"
(`docs/preview-profile-v1.md:51`). `ScreenGuard::enter` changes the terminal twice
before the guard that would undo the change exists: raw mode is on when the
descriptor is duplicated for its guard, and a write or flush that fails after
the alternate screen was entered has only the raw mode's guard behind it
(`preview.rs:105-109`).

Some statements of the repository that the code does not meet, and that no run
checks in that form:

- "Escape and control bytes are replaced before any artifact-derived bytes reach
  the terminal" (`docs/preview-profile-v1.md:43`): `sanitize_text` keeps a tab and
  a carriage return (`artifact/lib.rs:258`). `OnlyTabAndReturnPass` says that no
  other control passes, and none of a name.
- "`q` and `Esc` close" (`docs/preview-profile-v1.md:50`): `read_key` reads all
  that waits and looks at its first byte (`preview.rs:367`), so of `j` and `q`
  typed before the next read the `q` is lost. `QuitCloses` says that a close key
  closes if it is the first of a read, whatever comes behind it.
- "The configured deadline elapsed" (`core/lib.rs:186`, of the stop reason
  `timeout`): `remaining_timeout` rounds down to milliseconds and caps at 65535 of
  them, and an empty poll ends the exchange (`main.rs:365`, `main.rs:413`). With a
  timeout of 750 ms it can end after 749 and a fraction, with one above 65535 ms
  after 65535. `TimeoutIsNotEarly` bounds how early, and is proved.

Limits of the passing properties, which the models contain and these instances
or statements leave out on purpose:

- A listener without `--once` ends with an error when it cannot write a receipt
  because the dispatcher has gone (`main.rs:834`); the help text of `--once`
  suggests that only that option ends it. `ServesUntilSomeoneLeaves` has this as
  its second case.
- A DA1 answer to a readiness attempt that arrives during the KGP exchange is
  taken for its barrier, and KGP is then reported unavailable (`kgp/lib.rs:383`).
  Positive claims are not affected (`SelectedIsSupported`).
- `DispatchEnds` and `RequestsAreServed` need the absence of a silent peer:
  `accept` reads a connection without a timeout, and `connect` is called before
  any timeout is set, so behind a silent peer and a full backlog it waits.
- A killed listener leaves its socket file (`Kill` keeps `node`), and `bind`
  refuses the path from then on, while `docs/intent-callback-v1.md` says that the
  endpoint disappears with the consumer.
- An offer whose `write_latest` fails leaves its entry (`WriteLatest`), while
  `docs/artifact-ref-v1.md` asks for entry and pointer together.
- A KGP reply with another image id is assessed `available` but nonconformant
  (`AssessKgp`); it is never selected.
- `RawModeIsUndone` leaves out the end `unguarded`: the guard is built after raw
  mode is set (`main.rs:391-392`), and if building it fails raw mode stays on. It is
  the gap that `preview_early_error` shows in `ScreenGuard::enter`.
- Any input that begins with ESC closes the preview (`Closes`), a late answer
  too.
- `PixelsBelongToCells` excepts a resize between the two answers to one geometry
  query (`torn`): the cells may then confirm an extent measured before it.
  Each of the two was still measured on a surface that was there (`ExtentCorrect`).
- The beginning of a KGP reply that never ends swallows what follows up to the
  next ST, a DA1 reply included (`ParseApcAt`). In `WireExchange` a late reply
  lacks its beginning, never its end. `SplitDoesNotMatter` excepts a whole late
  reply, which can end the collection before the exchange's own replies. Of a
  KGP reply after the answer to DA1 it says less, because the cut does decide:
  if the read that completes DA1 ends before the reply, the exchange stops at the
  barrier and KGP is `unavailable`; if it takes the reply along, KGP is `available`
  and nonconformant. Neither is ever selected.
- `PagingSkipsNothing` is about screens of three rows or more: on smaller ones
  the footer covers or scrolls the text, and on one row nothing else is seen
  (`Seen`). Tabs and wide characters count as one
  cell when text is wrapped, as in the code.
- `CellsHoldPixels` speaks of the height only where a cell is at least one pixel
  high.
- `ArtifactRefV1::validate` accepts a token that still has its `@` or URI prefix,
  because `parse_token` does, while the field's published pattern has the bare
  token. `resolve` compares tokens and refuses such an entry.
- On Windows `from_path` makes an intent of a path that is not Unicode, whose
  `uri` then fails (`MakeUri`), `encode_path` replaces such characters, and
  `\\server` without a share passes `validate_portable` but not `path`.
- After a power failure an output that was reported as written may have lost its
  name (`taken`): only the file is synced.

Deadlock checking is off everywhere: every modelled process ends, and a listener
with no client waits by design.

## 4. Bounds

- Every safety property of the passing runs is also proved for all values of the
  constants (section 6); the bounds decide only how much of it TLC sees.
- Processes: two of a kind are what a race needs.
- `Backlog` is 1 (128 in Rust's `bind`): "full" must be reachable.
- `MaxTries` is 2 (16 in the code) with 2 tokens, so that a collision, a retry
  and exhaustion all happen.
- `Limit` is smaller than `MaxChunks`, so a file can outgrow it after the stat.
- `MaxWrites` of 1 is enough to tear one registration or one resolution; that
  no number of changes helps is `ResolveCorrect`. Chunk values, inodes, tokens
  and offers are symmetric: no definition tells two of them apart, and the only
  temporal property of the run is an action property.
- The times of `probe` are one or two units, a unit being a millisecond and the
  longest poll: what matters there is which of poll, exchange and readiness
  deadline ends first, and how often poll is called again. What a clock of finer
  ticks or a longer `Timeout` does to a receipt is `TimeoutCorrect`.
- `MaxResponse` is chosen so that an answer can be cut in half.
- `typing` bounds the keys of a probe, `MaxTypeahead` and `MaxReplies` the keys
  and answers that wait for one read of a preview, two keys so that a close key
  may be first, last or alone, `MaxResizes` the resizes. Of the windows one has no
  pixel extent and one is too low for an image; 4 lines are two pages of the
  others. Replies and resizes are off in `preview_early_error`, which needs neither.
- Wire tokens: each reply is well formed, or fails one check of its parser (no
  parameter, a number over 16 bits, a zero). One late reply and one key are
  enough: a parser goes on from the end of what it recognised.
- `MaxText` is 5 so that the limit cuts a two-byte character, a line and a line
  end; a path is as long as `MaxTarget`, 5, or one longer, which is enough for a
  drive, a server with a share and every mixture of separators.
- Image and viewport sizes are 1, 2 and numbers without common divisors, so that
  every rounding happens.
- Three writers: one that succeeds, one that is refused and one that fails.

## 5. Fairness

Weak fairness on the steps of a listener (from `BindSocket` on), of a dispatcher
(from `Connect` on), of the prober (`Work`) and of the preview (`Work`): the
scheduler runs a process that can run. A read timeout that was set and the
clocks of an exchange do pass (`Timeout`, `Tick`). Nothing is assumed of users,
terminals, peers, consumers or signals, and no call is forced to fail, except
that calls on a TTY that was hung up do not wait for ever.

## 6. Proofs

All theorems are of the form `Spec => []P` or `Spec => [][A]_vars`, and one says
that `Spec` implements an abstract specification. They hold for all constants
that satisfy the named assumptions; these are disjointness of the sets of
processes, types of parameters, and non-zero bounds (the code rejects zero
timeouts and limits before anything else). Every strengthened invariant was
checked by TLC on the instance of the component's run before it was proved.

- `IntentCallbackProofs`. `StalePathsExplained` carries that a listener past
  `bind` has the path of its own endpoint or none. `TypeCorrect` carries `BusyHasConn` (who is reading or
  answering has a connection), needed for types of what is written. For
  `OwnershipHolds`, ownership is inductive: only `BindSocket` of a free path
  and `Unlink` of one's own path change `node`, and two serving listeners of one
  endpoint would both be `node[e]`. `ForwardedCorrect` needs that a `forwarded`
  reply in flight is already in the output of the listener the client is
  connected to, and that the serving listener is that `server`.
  The second half has what consumers and clicks see. A request is in at
  most one place: queued, being served, or printed. So the invariant says that a
  client is queued once and only while it waits (`QueuedOnce`, `Unanswered`), that
  a connection whose frame was checked still holds that frame (`Checked`), and
  that a printed line leaves its client no second way in (`PrintedLeaves`,
  `Lines`). `ConsumerStreamCorrect` follows. `ListenerKeepsServing` rests on it: a
  listener fails after a delivery only if the answer met a closed stream.
  `TransportKeepsPromise` is the refinement of `CallbackPromise`: the deliveries
  of a click are counted over all listeners as a cardinality, a `Forward` is
  `HandOver`, the end of a dispatch is `Tell`, everything else stutters. `rejected`
  is told only by a listener that had not printed (`RejectedByConsumer`), and a
  click is told its outcome once (`ToldOnce`). It holds with other peers and any
  number of listeners, where TLC has two listeners and none.
- `ArtifactRegistryProofs`. `ImmutableEntries` is an action property: each step
  leaves entries alone or fills an empty one. `LatestCorrect` needs that a
  process past `persist` has a token whose entry is its own; `TokenCorrect` names
  that part. `LatestMovesForward` needs that two offers never register the same
  token (`NoTokenTwice`, from `TokenNamesItsOffer` and the free entry that
  `persist_noclobber` insists on) and that `before` holds only tokens of offers
  that have returned (`BeforeIsOffered`): a later write of `latest` is by an offer
  that had not, so its token is in no `before` of one that has. `ResolveCorrect` is
  the interesting one: an identity may well be a mixture when it is recorded.
  The invariant says that a preview which has hashed the same (inode, mtime) as
  recorded has read a prefix of that content as long as the inode still has that
  mtime, that modification times are never reused, and that a confirmed
  identity's time and hash therefore belong together.
- `NegotiationProofs`. `ValidateSound` carries the loop invariant of `validate`:
  all candidates before `index` are canonical, valid and correctly classified,
  and `first` is the first eligible one among them. `NegotiatedAccepted` relates
  the two loops: what the first has derived so far is what the second recomputes,
  so each of its checks passes at each candidate.
- `TtyProbeProofs`. `RawModeCorrect` carries `Modes`: the mode saved by a guard is
  always the one found before the first exchange. `TimeoutCorrect` has a
  clock of any resolution: while poll waits, its time runs with the deadline, so
  when it expires either less than a millisecond is left or a whole longest poll
  has passed.
  `SelectionCorrect` and `SilenceCorrect` rest on what is on its way. `Honest`: each
  piece of an answer is true of the terminal, and carries this process's image id
  only if the terminal echoes ids. `Fresh`: until the KGP query is written nothing
  on its way answers it, whatever an earlier process or the readiness exchanges left.
  `Ordered`: of a terminal that answers KGP after DA1, the concatenation of
  response, input and wire has a whole DA1 answer before any reply, and bytes that
  arrive or are read only move inside it; a hang-up empties the input and stops what
  is on the wire. So a reply found before the first barrier is not late.
  That the first of a set of positions exists is by well-foundedness of `<`.
- `ContractsProofs`. A writer's documents are followed field by field from builder
  to validator. The proof needed `MaxTarget` and `MaxDetail` to be positive, as
  the code's bounds are, and `ContractsAssumption` says so: with a bound of zero no
  receipt could carry its detail. `LinkCorrect` and `UriCorrect` carry what a link
  in flight looks like (`FlowInv`): one that the program made has the endpoint, the
  path in URL form and nothing after it, and of any other link `parse_uri` accepts
  exactly those with that form.
- `PreviewSessionProofs`. `SessionCorrect` carries that cells and extents come
  from surfaces that were really there, and what screen, mode and image are in
  each phase in which no guard exists; it states `PixelsBelongToCells`,
  `EachWasMeasured` (the part that holds through a resize between two answers
  too), `RendererWasEligible` and `GuardRestores`; `ExtentCorrect` names the first
  two. `PreviewTypeCorrect` is the types alone.
- `OutputFileProofs`. `OutputCorrect` rests on `WriterStage`: what a writer's
  file holds, whether it is synced and whether it has a name, by its position.
  With it the three invariants are inductive (`SuccessCorrect` names one);
  `NeverReplaces` follows from one step.
- `ArtifactViewProofs` has both modules that compute rather than interact, in
  three parts. The induction over data they need is written out: a set of naturals
  that holds 0 and every successor is `Nat`, by well-foundedness of `<`
  (`Induction`), and `FlattenSeq` and the recursive functions are unfolded from
  their defining equation, whose solution is shown to exist first.
  - *Images.* `ImageCorrect`: `FitIs` bounds each quotient of `fit_raster`, and an
    image therefore lies inside the free cells and pixels, is not enlarged, reaches
    the limit in one direction and keeps its proportions up to one pixel.
  - *Text.* `TextInv` says what the variables of `show_text` are: the text is the
    sanitized file, the lines are its wrapping, the offset is one of them.
    `RowsCorrect` is an induction over the lines and, in a line, over its chunks;
    which characters of the file are kept is a function of position (`Rank`,
    `Ascending`). `ShownIsSafe` needs that `sanitize_text` keeps no control but tab,
    newline and carriage return. `PagingCorrect` is inductive with `TextInv`: the
    lines seen reach to the end of the page, and the next page begins with one of
    them or right after them.
  - *Wire.* `PassthroughCorrect` undoes the frame from its end towards its
    beginning (`FrameIsUndone`). `RepliesCorrect` has two steps. `SpotIs` decides, for
    every byte of a stream cut anywhere, what a parser that looks there finds: the
    event of a segment at its first byte if all of it has been read, and nothing
    anywhere else (not inside a reply, a key or the end of a late reply, and not in
    a reply that is still open, because what follows in the input is then missing).
    `ParseIs` then follows the scan from the end of the input towards its beginning.
    `SplitCorrect` carries the order of the segments (`OnlyKeysFollow`): the reply
    that closes an exchange is the last one, so when its event has been found every
    other reply lies before it (`StoppedAt`, `NothingFollows`), and all parsers find
    in what was read what they find in the whole stream. If a KGP reply follows the
    DA1 reply, that DA1 reply is the first event in what was read and in the whole
    stream (`BarriersFirst`, `EventPlaces`): no KGP reply lies before it, and both
    verdicts are among the two that `assess` gives then (`LateVerdict`). The proof is why
    `WireAssumption` says what a well-formed reply is: two numbers side by side, or a
    key with a semicolon in it, would be another reply.

Model-checked only: liveness (`DispatchEnds`, `RequestsAreServed`, `ProbeEnds`,
`QuitCloses`), because the prover handles neither fairness nor `ENABLED`. A
theorem states every other property of the passing runs.

## 7. Assumptions of the models

- Every change of a file gives it a new modification time (nanosecond clocks).
- `persist`, `persist_noclobber`, `bind` and `unlink` are atomic, as the file
  system makes them.
- A written frame is small enough not to fill a socket buffer.
- A signal (SIGKILL, SIGTERM, SIGINT: the program installs no handler) runs no
  destructor.
- One program owns the TTY at a time, as `docs/architecture.md` requires; earlier
  programs are seen through the queries they left unanswered and late answers.
- A file system never returns a mixture of synced and lost data, and a rename or
  link is not seen before the data it names was synced, if it was synced first.
- tmux undoes a passthrough frame as its manual says; Base64 decodes exactly the
  text of its own form.

## 8. Not modelled

- `decode_raster` and `resize_rgba`, and the PNG and Sixel encodings: calls into
  the image and icy_sixel crates between two limit checks. A file decodes to an
  image or does not; that the image is drawn and deleted is in `PreviewSession`.
- JSON syntax, unknown fields, and the size limit of a document that is
  validated: serde and one comparison decide.
- The assertions and wording of a receipt, `schema` output, completions and
  formatting of errors.
- The contracts bundle, schemas and examples: generated files without state.
- The installer and the end-to-end scripts: shell around cargo and terminals.
- Redrawing after a resize, which the program does not do.

## 9. Plan

Done: every component that keeps state, the codecs and the parsers, with ten
passing runs and two that refute a document, and a theorem about every safety
and action property that the passing runs check. What could be added:

1. In `WireExchange`, several late replies and replies that never end, with a
   statement of which later replies those may swallow.
2. `TtyProbe` on the bytes of `WireExchange` instead of halves of answers. Its
   parsing steps are what `RepliesAreRecognised` and `SplitDoesNotMatter` state.
3. `decode_raster` and `resize_rgba`, if their limit checks grow beyond two
   comparisons.
