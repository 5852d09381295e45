# TLA+ verification of mctrader-market-bithumb

Models, model-checking runs and machine-checked proofs for the Bithumb market
adapter (`src/mctrader_market_bithumb/`): REST candles and order books over a
rate-limited HTTP client, a WebSocket event stream that reconnects by itself,
and a converter from raw transaction frames to tick rows for a downstream log.

Paths below are relative to the package directory unless they say otherwise.

## 1. The system

| Part | File | State it keeps | Operations |
|---|---|---|---|
| Tick emitter | `subscribers/transaction_ws.py` | reconnect flag, quarantine buffer, and the two parts below | `process`, `mark_reconnect_boundary`, `drain_quarantine` |
| Gap detector | `subscribers/gap_detector.py` | newest event time per symbol | `observe`, `mark_reconnect` |
| Ingest counter | `subscribers/ingest_seq_counter.py` | next number | `next`, `reset` (no caller) |
| WebSocket stream | `ws_client.py` | closed flag, current connection, last event time per symbol, the generator's own `attempt` | `messages()`, `close()` |
| Message normalisation | `ws_mapping.py`, `ws_events.py` | none | `normalize_message`: an event, nothing, or an exception |
| Subscription builder | `ws_subscribe.py` | none | one payload for each channel, refusing channels outside the allowlist |
| HTTP client | `client.py` | token bucket (level, time of last refill), whether it owns its connection pool, retry loop of every call | endpoint methods, `_request_with_retry`, `_send`, `_classify`, `close` |
| REST throttle | `rest_throttle.py` | deque of request times, asyncio lock | `acquire()`, `in_flight_count()` |
| Decoders of REST bodies | `adapter.py`, `mapping.py`, `client.py` | none | `get_candles`, `get_orderbook`, `fetch_assetsstatus_all` |
| Public-only guards | `ws_secret_guard.py`, `client.py` | none | refuse authentication headers and private hosts |

How the parts meet. The providers call the HTTP client, from any thread; the
threads share one token bucket. The owner of a WebSocket feeds raw frames to
the tick emitter and calls `mark_reconnect_boundary` when it reconnected; the
emitter owns one counter and one gap detector. `messages()` and `close()` of
the stream run as two coroutines of one event loop and share `_closed` and
`_connection`. Nothing is persisted: a restart builds every object anew.

`RestThrottle` is exported but no code of the package calls it: the HTTP client
limits itself with its own bucket (30 requests a second by default), although
the throttle's docstring speaks of REST calls going through it. The throttle
is therefore verified as a component of its own, with arbitrary callers.

### What is hard here, and what makes each part correct

- **Tick emitter.** A call of `process` can fail at any entry of a frame, after
  earlier entries took numbers, in ways the code catches and ways it does not;
  marks, drains, repeats of the same bytes and restarts come between calls in
  any order. Correct means: numbers strictly grow within a process and every
  hole has a reason; a frame gives all its rows or none; each malformed frame
  is reported once; a reconnect tags all rows of exactly one frame; `GAP` says exactly what
  the history of emitted rows says; the downstream key tells entries apart.
- **WebSocket stream.** Losses, also between two subscriptions, silent links,
  failed and refused dials, duplicated and reordered messages, messages still
  buffered when the link goes down, a consumer that cancels, and `close()` from
  several coroutines at any await. Correct means: exactly the newer events are
  yielded, every channel is subscribed to on the link in use, no link is left
  open, redials wait, and a closed stream ends.
- **HTTP client.** Threads interleave around a lock that is released during
  sleeps; retries compete with first attempts, and another thread may close the
  client. Correct means: the lazily refilled bucket is a token bucket, the retry
  loop does what it says, and every call ends.
- **REST throttle.** The holder sleeps with the lock; others queue, are
  cancelled, wake early or late; an event exactly one window old neither
  leaves the window nor gives a positive wait. Correct means: never more than
  the limit in a window, and every caller gets through.
- **Decoders.** The boundary arithmetic of the coverage check; a time that may come
  in six forms, epochs told apart by the number of digits, dates in KST; the same transaction frame
  and the same order book read by two separate pieces of code. Correct means: a
  decoder reads what is there, loses nothing, and two decoders of the same data
  agree.

`PROJECT.json` lists these hazards line by line, with the properties aimed at
each.

## 2. The modules

| Module | Models | State and actions |
|---|---|---|
| `GapDetector` | `gap_detector.py` | operators only: `Observe` and `IsJump` are one call of `observe`; `LoopMemory` is the loop over a frame's rows, `Seen`, `JumpAt`, `TrackedAfter` are closed forms of its outcome |
| `TickEmitter` | `transaction_ws.py`, `ingest_seq_counter.py` | `nextSeq`, `last`, `pending`, `quarantine` are the code's fields; `process` is split by its exits: `ProcessSkips`, `ProcessRejectsEnvelope`, `ProcessRejectsEntry`, `ProcessRaises`, `ProcessEmits`; then `MarkReconnectBoundary`, `DrainQuarantine`, `Restart` |
| `MCTickEmitter` | instance for TLC | ten frames, symbols and times |
| `TickEmitterProofs`, `TickHistoryProofs`, `TickCountProofs` | theorems about `TickEmitter` | |
| `WsStream` | `ws_client.py`, `ws_subscribe.py` | the generator's suspension points are `phase`; `closed`, `connRef`, `lastTs`, `attempt`, `channels` are the code's, `unsent` what is left of the subscription loop; `up`, `inbox` and `subs` are the external connection |
| `WsStreamProofs` | theorems about `WsStream` | |
| `WindowLimiter` | abstract sliding-window limiter | `now`, `grants` |
| `RestThrottle` | `rest_throttle.py` | coroutines with a `phase` each; `events`, `holder`, `queue` |
| `RestThrottleProofs` | theorems about `RestThrottle` | |
| `RateBucket` | abstract token bucket | `now`, `level`, `grants` |
| `HttpClient` | `client.py` | threads with a `pc` each; `tokens`, `last` are the bucket's fields, `owned` and `shut` the connection pool's |
| `HttpClientProofs`, `HttpSendProofs` | theorems about `HttpClient` | |
| `Checks` | the pattern of all decoders | operators: the first check that fails decides the exception |
| `WsMapping` | `ws_mapping.py`, `ws_events.py`, and what the emitter makes of the same frame | operators: `TimeOf`, `NormalizeMessage`, `EmitsRows`, `Row` |
| `CandleProvider` | `adapter.py` `get_candles`, `_verify_coverage` | operators: `GetCandles` |
| `RestResponses` | `adapter.py` `get_orderbook`, `client.py` `fetch_assetsstatus_all` | operators: `GetOrderbook`, `FetchAssetsStatus` |
| `Decoding` | the decoders together | one action for each decoder: one call, on any input of a set |
| `MCDecoding` | instance for TLC | the sets of inputs |
| `DecodingProofs` | theorems about `Decoding` | |

`TickEmitter` extends `GapDetector`; `RestThrottle` instantiates
`WindowLimiter` and `HttpClient` instantiates `RateBucket` (with
`level <- Refilled`, the level as it would be if the bucket were refilled now).
`Decoding` extends the three modules of decoders.

### Abstractions

- A frame of the emitter is a model value with the outcome of its envelope
  checks (`Form`) and, per entry, symbol, event time and the **set of checks it
  fails**; `CheckOrder` is the order in which the code makes them, so the first
  failing one decides the reason, whether `process` catches it, and how many
  numbers were taken. The hash prefix of a frame is taken to identify it.
  Entry positions count from 1 where the code's `idx` counts from 0.
- Event times, clocks and waits are integers. What the clients read from
  `time.monotonic()` is `now`, which may advance between any two steps. The
  bucket's float level is counted in units, `Unit` of them to a token, and a
  wait is rounded up to a tick.
- In `WsStream` and `RestThrottle` a step is what runs between two awaits, as
  asyncio guarantees; in `HttpClient` it is what runs under the bucket's lock,
  or between two calls that block. The length of backoffs is left open: a
  sleep may end at any moment.
- `WsStream` has a third outcome of a dial besides success and failure: the
  server may refuse the handshake with an exception that is not one of the
  three the code catches, which ends the generator (`MayRefuse`). A received
  text is an event or one of the outcomes that `normalize_message` has in
  `WsMapping`: nothing, a `SchemaMismatchError`, an exception nobody handles, or
  the `OSError` of a timestamp the platform cannot convert, which the stream
  takes for a lost connection.
- A body or message handed to a decoder is a record of what each lookup finds:
  a value in order, one that is absent, or one of the ways in which it can be
  wrong that the code treats differently. Prices and quantities are opaque
  unless they are wrong. A time is an integer, counted in the unit of its longest
  form (microseconds). What a message holds for it is a record of what that form
  shows: a text of digits is its number and how many digits it has; an `int` or
  `float` is its whole milliseconds and a rest; a date is a day of the calendar and
  a second of that day, in KST, with or without a fraction. `_parse_event_time`
  (`TimeOf`) computes the time from these alone; `Written`, in `Decoding`, is what the
  exchange writes for a time, and is external. An epoch in seconds has `SecDigits`
  digits and each finer unit `StepDigits` more (10 and 3 in the code); a day has
  `DayLength` seconds and KST is `Zone` ahead of UTC. Years and months are not
  modelled: a date is counted in days. Divisions of epochs are exact, as those of
  the code are after the rounding to microseconds that `datetime` makes, for
  numbers of this size (below 2^53).
- `WsStream` has a history variable for `close()`: `dialledClosed` says that it had been
  called when the current connection was dialled. Such a connection may be up
  although `_connection` is empty, because the call that found the previous
  connection empties it when it returns; `NoStrayLink` and `CloseStops` name this
  one case, and `CloseDuringDialEnds` says how a stream in it ends.
- Definitions named `X_Something` with a comment "MUTANT of X" are not part of
  the model: each is a plausible bug of the code that the property named with
  it in `PROJECT.json` detects.

## 3. The runs

`cd` here and run `tlc -config <cfg> <module>`.

| Run | cfg, module | Bounds | Result |
|---|---|---|---|
| `tick_emitter` | `MCTickEmitter` | 2 symbols, 4 times, threshold 1, 10 frames, 3 calls, 1 restart | passes, 163 000 states |
| `tick_emitter_counter` | `TickEmitterCounter` | same | violated: a quarantined frame advances the counter |
| `tick_emitter_vanish` | `TickEmitterVanish` | same | violated: a frame raises and leaves no evidence |
| `tick_emitter_jump` | `TickEmitterJump` | same | violated: a jump right after a boundary frame is not tagged |
| `tick_emitter_flag` | `TickEmitterFlag` | same | violated: a quarantined frame does not use up the boundary flag |
| `ws_stream` | `MCWsStream`, `WsStream` | 1 symbol, 2 times, 3 channels of which 2 are allowed, 2 coroutines that close, 4 names of links, 1 buffered message, overflow at attempt 2, fair | passes, 192 000 states |
| `ws_stream_overflow` | `WsStreamOverflow`, `WsStream` | 1 channel, no refusals | violated: the backoff overflows |
| `ws_stream_drop` | `WsStreamDrop`, `WsStream` | 2 channels, no refusals | violated: an event of another channel is dropped |
| `rest_throttle` | `MCRestThrottle`, `RestThrottle` | 3 coroutines, limit 2, window 3, timers 1 early, calls until 5, lateness until 7, clock to 16, fair | passes, 30 000 states |
| `http_client` | `MCHttpClient`, `HttpClient` | 2 threads, 2 calls, 3 attempts, bucket of 2 tokens of 3 units, 2 units a tick, lateness until 2, clock to 16, fair | passes, 464 000 states |
| `decoding` | `MCDecoding` | candles of 2 ticks, intervals inside 0..9, up to 4 rows; messages of every type with every way a value is wrong, lists of up to 2 entries; order books of up to 2 levels a side, asset lists of up to 3 items | passes, 161 000 states |
| `candles_hole` | `DecodingHole`, `MCDecoding` | up to 3 rows | violated: a hole in the middle is returned |

Why the bounds are enough for the questions asked:

- **Tick emitter.** Every interesting interplay needs at most a frame before, one
  between and one after: a mark, an unusable frame, a usable one; two observed
  rows and a jump; a partial frame between two good ones. Three calls with any
  number of marks and drains in between, and a restart anywhere, cover them. The
  ten frames hold each kind of exit and the frame `twice`, which jumps and steps
  back within itself. Event time 3 is more than the threshold above 1 and 0.
- **WebSocket stream.** Dials, messages, losses and calls of `close()` are not
  counted: a link is a name, and a name that neither the generator nor a call of
  `close()` holds is used again, so the runs have cycles and the liveness
  properties speak of infinite behaviours. Four names suffice for two closers,
  `_connection` and a new link. With one symbol, two times show newer, equal and
  older events; the filter treats symbols separately, and the theorem on it
  (section 4) is for any number of them. Two allowed channels
  allow a loss between two subscriptions, the third a refusal. `ExpLimit` stands
  for the attempt at which `2**attempt` no longer converts to a float (1024); the
  counter is otherwise compared with nothing, so 2 serves as well.
- **REST throttle.** Limit 2 with three callers makes one sleep with the lock while
  another queues. The clock runs past every sleep the calls can need, so that
  `AcquireEnds` is not met by stopping the clock.
- **HTTP client.** A unit of a third of a token and a rate of two thirds make waits
  that are no whole number of ticks, so rounding matters. Six attempts compete
  for a bucket of two tokens, so threads sleep, and are outrun. Until `LateTime`
  threads run as late as they like, afterwards time passes only for sleepers; the
  clock is bounded at 16, past every sleep of six attempts, so no behaviour is
  stuck with a thread asleep.
- **Decoders.** They have no state, so a behaviour is one call. Every check of the
  code is met with its value in order and with every way in which it fails,
  alone and behind a good first entry; some responses have rows off the calendar. Two digits for seconds and one for each
  finer unit keep the thresholds of `_parse_event_time` apart as 10, 13 and 16 do. A day
  of 24 seconds and a zone of 9 put some times on the same day in KST and UTC, and
  some on different ones; times stand on both sides of midnight in either zone.
  Interval ends on and between candles, and up to four of five candles in any
  order and number, exercise both ends of the coverage check and its tolerance.

Deadlock is checked in the emitter's run, where a mark is always possible; the
others really stop (bounds reached, generator ended, answer given).

### Fairness

- `RestThrottle!FairSpec`: weak fairness of each coroutine's `Enter`, `Check` and
  `Wake`, since the event loop runs what can run and the lock is handed out first
  come first served; strong fairness of `Tick`, since time goes on whatever
  coroutines do, even when calls and cancellations keep disabling it. Callers
  are not obliged to call or cancel. After `LateTime` the loop is taken to be
  prompt, otherwise it could be late for ever.
- `WsStream!FairSpec`: weak fairness of the generator's next step as a whole and of
  each `CloseReturns`: awaited dials, sleeps, timeouts and closes end, and the
  consumer keeps asking. Server, network, cancellation and `close()` have none.
- `HttpClient!FairSpec`: weak fairness of `Tick` and of each thread's next step:
  threads are scheduled, a request ends because httpx times out, a backoff is
  slept off. Nothing obliges a thread to call or to close. Which of several
  threads gets a token stays open; that `CallEnds` holds nevertheless is due to
  the number of competing calls being bounded (see section 5).

### What the failing runs show

Each is a disagreement between the code and what it says of itself, quoted in
`PROJECT.json` "findings":

- `tick_emitter_counter`: the comment in `process` that a malformed frame does not
  advance the counter.
- `tick_emitter_vanish`: the docstring of `build_transaction_tick_row` about which
  exception it raises.
- `tick_emitter_jump`: the gap comment in `process`, against rows of a boundary frame
  never being observed.
- `tick_emitter_flag`: "clear the flag once we attempt to emit" in `process`. The flag is
  cleared only when a frame was built; a quarantined or raising frame leaves it up.
  `BoundaryFrameExact` states what the code does, which for a reader of the log is
  the safer of the two: the mark is not lost. The docstrings that say "the very
  next emitted row is tagged" (of the module) and "tag the next emitted row and clear
  gap state" (of `mark_reconnect_boundary`) differ from the code in the same place:
  all rows of the frame are tagged, and the gap state is cleared only then.
- `ws_stream_overflow`: "indefinite reconnect", against the overflow of `2**attempt`
  before it is capped.
- `ws_stream_drop`: "WS duplicate skipped", against a filter that compares times
  across channels.
- `candles_hole`: `InsufficientCoverageError`, against a check that looks at the two
  ends only.

A further disagreement has no run. `normalize_message` and `get_orderbook` promise
`SchemaMismatchError` for malformed data (`ws_mapping.py:73`, `adapter.py:149`), but
exceptions of `Decimal`, `datetime` and plain lookups leave them: the outcomes "os" and
"other" of the models. `BooksAgree` says of one such text that both decoders of an
order book raise on it, and `WsStream` what the stream does with them.

## 4. The proofs

`tlapm <module>.tla` checks each proof module. What is assumed is only what the
`ASSUME`s of the modelled modules say of the constants: positive rates, limits
and windows, natural bounds, well-typed frames, finitely many threads, and `Early < Window` for timers
that fire early. The number of threads, coroutines, symbols, frames and calls
is arbitrary. For the decoders `InputAssumption` says that inputs are records of
the types section 2 describes, of any length: a symbol is none of the tags that
stand for "no symbol"; where the code has checked that it holds a list, it holds
a sequence; and a time has, counted in seconds, `SecDigits` digits (ten, which
is every time from 2001 to 2286). `MappingAssumption` leaves the length of a day and
the zone free. Nothing is assumed of the order, number or
alignment of rows.

**`RestThrottleProofs`.** The window bound is not inductive: whether a grant may
be made is decided on `events`, while the bound speaks of the history `grants`.
The strengthening is `EventsAreSuffix`: the deque is a suffix of the history no
longer than `Limit`, and everything evicted is older than the window. With
`LockMatchesHolder` and `SleeperWatchesOldest` (the sleeper's wait was computed
from a deque that nobody could touch) it gives `WindowCorrect`, `InFlightCorrect`
(the count over the deque equals the count over the history, by a bijection
between the two index sets) and `Implements`, the refinement of `WindowLimiter`.

**`HttpClientProofs`.** `TokensBounded` speaks of pairs of grants. The invariant
`Budget` says of each grant that what was granted since, together with the level
the bucket would have now, costs no more than a full bucket and what came in
since; a grant moves a token from the level to the granted side, a tick adds the
same to both sides unless the bucket is full, where the level only loses. It gives
`TokensCorrect`, and the steps of the level give `Implements`, the refinement of
`RateBucket` under `level <- Refilled`. `Progress` ties the number of outcomes a
call has seen to its attempt and its place in the loop; `RetryCorrect` follows.
`Promise` says what a sleeper was told: unless somebody is granted a token, the
bucket will hold one when the sleep is over; it needs that a wait is rounded up
(lemma `Division`), and gives `WakeCorrect`.

**`TickEmitterProofs`.** `SeqCorrect` needs that rows of the running process have
numbers behind the counter (`RowsBehindCounter`), and that no rejected frame moves
it back. `MemoryCorrect` and `GapTagsCorrect` are proved together: the memory is
the newest time of the open window, so what the loop knows when it comes to an
entry (`Seen`) lies in the window and dominates it (`SeenDominates`), and two
such sets call for the same tag (`SameVerdict`). A boundary frame and a restart
close the window. That `Max` is attained is proved from well-foundedness
(`MaxOfTimes`).

**`TickHistoryProofs`.** What the emitter returned, against the calls made of it.
`HistoryInv` says that every row is that of an entry of a valid frame handed in
(`RowsFromCalls`), that no entry of a valid frame is missing, and that rows are in
the order of calls and entries; `FrameCorrect` and `KeyCorrect` read off it. For
`BoundaryCorrect` the flag `_pending_reconnect` is characterised by the history: it
is up exactly when there was a mark since the last call, or at an earlier call of
this process with no valid frame since (`OpenMark`); `MarkSplit` says how a call
turns one into the other. `EvidenceCorrect` needs that a frame stops at one entry
with one check (`StopIsUnique`, from `CheckOrder` having no repetition): otherwise a
frame could both raise and be quarantined.

**`HttpSendProofs`.** `SendsBounded` is not about the bucket's level: a token leaves
it before the request goes out. The invariant restates `Budget` for the pool of
the level and the tokens that threads hold and have not used; a grant leaves the
pool as it is, a request moves a token out of it, and a full pool is a full
bucket and a token for each thread, of which there are finitely many.

**`WsStreamProofs`.** `TypeInv` adds to the types that a sleep is entered below the
overflowing attempt and that a connection is left for a reason its exit knows.
`PlaceInv` ties links, subscriptions and sleeps to the place where the generator is
suspended: for instance that in the subscription loop what was sent and what is
left make up the channels. It gives `LinkCorrect`, `SubscriptionsCorrect` and
`RestCorrect`. For the first it also says that on a link dialled before any call of
`close()`, `_connection` and every such call hold that link or nothing (`CallsKnown`);
for the last, what `attempt` is in each place (`CounterKept`).
`NewestHeld`, that `_last_ts` holds the newest event taken from this
connection, gives `YieldsCorrect`; `NoDialCorrect` is a theorem about steps.

**`TickCountProofs`.** Induction over data without induction theorems. The fold
`SumFunctionOnSet` and the recursive functions are each a `CHOOSE` of a function that
solves a recursion; a solution is shown to exist (`SumsExist`), solutions agree where
they overlap, and so a sum over a set can be unfolded and extended (`SumStep`, `SumAdd`).
Induction itself is by the least number outside a set (`NatBySteps`). `HolesCorrect`
follows: the counter is the number taken by the calls so far in this process
(`NextCount`), each kind of call takes what `Burned` says (`EmitCounts`,
`RejectCounts`), and what earlier rows say is not disturbed (`EarlierCountsKept`).
It needs `HistoryInv`, for which row stems from which call. `LoopCorrect` shows, entry by
entry, that the memory in the loop holds the newest of what `Seen` collects (`KnownStep`),
so the closed forms that the actions use, and on which `GapTagsCorrect` and
`MemoryCorrect` rest, are the loop of `observe`.

**`DecodingProofs`.** A behaviour is one call, so the content is in the operators.
`FirstErrorBefore` and `FirstErrorBoth` say how the first failing check of a
concatenation is found; on them rest `DecodersCorrect` and `BooksCorrect`.
`StatusCorrect`: after `n` items the dictionary holds the status of the last of them that
names the currency (`StatusLoopIs`). `InOrderIs` says that a finite set in a strict total
order is listed by the number of members before each (`PlacesTaken`, a pigeonhole
argument); sort and filter are such lists, so the rows returned are those of the interval,
each once and in order (`OrderCorrect`). `EndsCorrect` and `RefusalCorrect` are arithmetic
of multiples of the timeframe: two differ by at least one timeframe (`MultiplesApart`), and
next to every time there is one. `FormsCorrect` needs that the number of digits tells the
units apart (`DigitsTell`), which comes from `Ten[a + b] = Ten[a] * Ten[b]` (`TenSum`),
and that day and second in KST give the second of the epoch back (`ClockRead`).

**Model-checked only.** The five liveness properties (`AcquireEnds`, `CallEnds`,
`CloseStops`, `CloseDuringDialEnds`, `SilenceEnds`), as they rest on fairness. Every other
property of a passing run is a theorem.

## 5. Not modelled, and why

- The validators of `OrderBookModel` and of the tick row: they belong to another
  package. That they may refuse a row is one of the emitter's checks; a refusal of
  an order book (a `ValidationError` that `get_orderbook` does not catch) is left out.
- Calendar arithmetic beyond days, white space around the text of a time, and dates
  that `datetime` cannot represent other than as the outcomes "os" and "other".
- The ranges of `Decimal` values in the event classes; a number is in order, absent
  or wrong.
- The checks of URL and headers in the stream's constructor: they run once, before
  there is any state, and raise or do nothing.
- The layout of subscription payloads and `tick_types`, which no caller in the
  package passes.
- `IngestSeqCounter.reset`, which nothing calls, and a counter shared by several
  emitters, which nothing builds: the lock of the counter is never contended.
- Starvation in `_TokenBucket.acquire` and its recursion depth under an unbounded
  stream of competing calls: the run bounds calls, and with a bound every call ends.
- The coupling of a reconnecting socket with `mark_reconnect_boundary`: the code that
  owns both is outside this repository. `TickEmitter` therefore takes marks and
  frames in any order.
- Order books of a stream as they build up from depth events: the package hands the
  events on and keeps no book.
- Exceptions, exports and repository automation: declarations and CI only.

## 6. State of the plan

The components of section 1 that keep state are modelled with every operation a
caller in this package or its owner can make, and their safety is proved for
every value of the constants; the decoders, which keep none, are proved for every input
of the types assumed. What could be added: the abstract specification of the stream
(a sequence of events and what a consumer may see of it) as a refinement, and a model
of the owner that couples stream and emitter if that code comes to live here.
