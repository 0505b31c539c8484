# Verification of GoProject

The repository holds two Go programs. `tffiles` is a small time-series database: a TCP
server in front of a storage engine that keeps one data file and one index file per device
and day, moves old days to a cold directory and deletes expired ones. `gobackendkit` is a
library of helpers (authentication, Redis, SQL, SQL dialects, DDL from spreadsheets). The
hard behaviour (goroutines that share buffers, files and locks, partial failures, crashes
between two file operations, shutdown) is mostly in `tffiles`, which is modelled almost
completely; of `gobackendkit` the three parts with loops, shared state or rules that interact
are modelled: the clearing of the table cache, the notification listener, and the creation
of tables from a workbook.

## Components

| Component | State | Operations | Interacts with | What makes it correct |
|---|---|---|---|---|
| `DayWriter` (`writer.go`) | buffer, flush and close channels, offset, in-memory index; data and index file | `WriteBatch`, `flushLoop`, `flush`, `Sync`, `Close`, `NewDayWriter` | called by `Storage`; a goroutine of its own | no accepted point disappears unaccounted for, order is kept, the index describes the file, durable data stays, `Close` flushes and returns |
| `DayReader` (`reader.go`, `queryFile`, `readIndex`) | one open file, one index slice | `QueryWithIndex`, `Query` (full scan) | reads the writer's files | exactly the points of the range, each once, a damaged block costs only itself |
| `Storage`, write path (`storage.go`) | table of writers, schemas, two locks | `getOrCreateWriter`, `WriteBatch`, `registerSchema`, `Close` | handlers, writers | one writer per file, a success covers the whole batch |
| `Storage`, tiers | hot and cold files, temporary files | `moveColdData`, `recompressCold`, `cleanupExpiredData`, `Query` | open writers, queries, each other, without locks | a day is always found somewhere, expired days go |
| `TCPServer` (`tcp_server.go`) | listener, `stopChan`, counters, one handler per connection | accept, read, handle, answer, `Stop` | `Storage` | answers in order, the counters follow what was done |
| `main` | deferred calls | signal, `Stop`, `Storage.Close`, exit | all | shutdown ends, acknowledged data survives it |
| `Storage.Query` over days | goroutines, answer under a lock | the loop over dates, `queryFile` of both directories | `DayReader`, files that writers extend | each date read once |
| `OptimizedEncoder`, point codecs | none | encode, decode | not called by the engine (`EncodeSimplePoint` is) | decoding inverts encoding |
| Table cache (`redis_cache.go`) | keys in Redis, cursor of a scan | `ScanDeleteByPrefix` and its callers | Redis, other clients | nothing old survives a clearing |
| Notifications (`db_postgres.go`) | a pooled connection, what the server sends to it | `ListenForNotifications`, `Close` | `pgxpool`, PostgreSQL | everything sent is handed on once, with its channel; `Close` returns |
| `excelddl`, `dialect` | the tables of the database | read sheets, build T-SQL, convert, check, create | PostgreSQL | a row becomes the column it asks for; a run can be repeated |
| `gobackendkit` auth, other wrappers, quickstart | almost none | request helpers, wrappers | external services | see "Not modelled" |

The behaviours that are hard to test: `WriteBatch` against the steps of `flush`; a failing
or partial write in the middle of `flush`; a kill or a power failure between any two file
operations; the migration of a day beside a query, an open writer, a cleanup and a kill;
two handlers that need the same writer; a shutdown beside handlers that go on; a scan of keys
beside clients that set and delete them; a connection that is reused with its subscriptions.
`PROJECT.json` lists them one by one, with the line and the property.

## Modules

| Module | Models |
|---|---|
| `PointLog` | what a writer promises: points are accepted, then settled as stored or lost, never both, never twice |
| `DayWriter` | `writer.go`, one file pair over several lives of the process |
| `DayWriterProofs` | its theorems |
| `DayReader` | one query of one file |
| `DayReaderProofs` | its theorems |
| `Tiering` | the files of one device and day in both directories, and everything that works on them |
| `TieringProofs` | its theorems |
| `Server` | connections, handlers, the writer table, shutdown |
| `ServerProofs` | its theorems |
| `IndexFile` | the bytes of an index file and how `readIndex` cuts them into entries |
| `QueryDays` | one query over several dates |
| `Encoder` | `encoder.go`: raw, delta, delta of delta, each with its decoder |
| `EncoderProofs` | its theorem |
| `TableCache` | clearings of the table cache beside other clients of Redis |
| `Notify` | calls of `ListenForNotifications` and the pool |
| `NotifyProofs` | its theorems |
| `SheetDDL` | from a sheet to a PostgreSQL table, and invocations that create tables |
| `PartsProofs` | theorems of `IndexFile`, `QueryDays`, `SheetDDL` and `TableCache` |
| `Sifting` | what a loop keeps of a sequence when it passes over some elements, as a recursive function |
| `SiftingProofs` | induction, and lemmas about `Sifting` and about sequences put together, for the other proofs |
| `MC...` | values for the constants; `MCParts` puts the small components side by side |

Operators whose comment begins with "Mutant" are variants of the definition after them, as a
plausible mistake in the code would have it. They are no part of a specification; they show
that each property can fail.

### DayWriter

The variables are the fields of the struct, the program counter of `flushLoop`, the two
files, and history. A point is its arrival number. The data file is the set of its whole
blocks with their places, plus its size; bytes that belong to no block remain of a write that
did not complete. A block is compressed when it reaches `IndexInterval`. `flush` is six
actions, cut where another goroutine or a crash can come in between: `TakeBuffer` (under
`bufferMu`, with encoding), `WriteData` or `WriteDataFail`, `SyncData`, `WriteIndex`,
`Advance`. `WriteDataFail` returns early as the code does: the points are dropped, the
bytes that reached the file stay, and `currentOffset` does not move. `Close` and
`CloseFiles` are the two halves of `Close` around its wait. `Exit`, `Kill` and
`PowerLoss` end a life; a power failure keeps the synced prefix of each file and any part
of the rest. `NewDayWriter` begins the next one.

A block that is written just before a kill has no index entry, and no later life of the
process gives it one. The second part of `IndexComplete` bounds these blocks: no more
than one for each life, since an entry is synced before the next block is written. With a
failing sync or index write there is no such bound, and the first part is for
behaviours without any fault.

### DayReader

A file is a sequence of blocks with timestamps, format and what reading each one yields; the
index names blocks and may have holes. `SearchStep` to `WalkEnd` are `binarySearchIndex`
step by step (indices start at 1 here), `Collect` the first loop of `QueryWithIndex`,
`ReadGood`, `ReadBad`, `ReadEof`, `ReadLegacy` the outcomes of its second loop.

`FullScan` is `Query`, the scan of a file without an index, as the parse loop it is, byte
offset by byte offset. `ScanOpen` settles which bytes are parsed: all of the file, or what
it decompresses to less four bytes. One round of the loop is `ParsePoint` where a point begins,
and elsewhere `ParseJunk`: at the CRC of a block, inside a compressed or damaged one, or wherever a
misread count has led, any time and any field count may be read. `ParseEnd` is the loop's
condition and its break. Header, fields and CRC keep their proportions as
constants; of these only that a CRC is shorter than a header is assumed.

### Tiering

A data file is a sequence of blocks, an index file the sequence of blocks its entries
describe; an entry is found when the data file agrees with the index up to there. The
migration is cut at every file operation. Each of them may fail (`MigrateFail` to
`MigrateRemoveFail`), and what follows is what the code makes of it: an error of
`recompressCold` or of the rename goes on to the next file, while one of the flush of the temporary
file, of the index copy or of a removal is logged and passed over, so that hot files go although the
cold ones are empty or torn, or stay beside them. `Failing` names the steps that may fail
and `MaxTroubles` bounds failures and kills together. It lists the index as a file of its own, as the
code does. An open writer knows whether its files still have their names. The age of the day
has an "edge": `moveColdData` goes by the calendar and `getOrCreateWriter` by hours, and
they disagree after a change of the clocks. Cleanup of one directory is one action, and its
failures are left out: `os.RemoveAll` tries again at the next tick.

A day whose migration failed at some step can be lost: with an error passed over the
hot files are removed, and after an error of the data file the index file is still migrated alone,
as a data file. So `NeverMissing` is stated for migrations without a failed step.
`CalmOnce` allows failures, except of the removal of the hot data file, after which
both directories hold the day and a query gives it twice.

### Server

One device; a point is `<<connection, request, day>>`. `getOrCreateWriter` is two actions,
`Lookup` under the read lock and `Create` under the write lock; `Locked` is the lock that
`Storage.Close` holds. What a client will send is settled when it connects: a message that
comes late only delays its handler, which is possible anyway. `SlowEmptyWrite` is the panic
in the log line of a slow write without points. An answer is two actions, because the code
sends before it counts: `Send`, in which it may be lost (the client has gone, or the write fails at
its deadline or is cut short; the error is only logged and stays with the `bufio.Writer`,
so that nothing follows), and `Count`. Flushing is a single action here: its steps
and failures are `DayWriter`'s subject.

### IndexFile, QueryDays

`IndexFile` keeps the index as a sequence of units of 4 bytes, each marked with the entry it
belongs to; entries of an earlier version have 8 units, present ones 9, and a torn entry
leaves its first units. `readIndex` guesses the size from the length as the code does.
`DayReader` begins where it ends. `QueryDays` has the loop that starts a goroutine for each
step of 24 hours and the goroutines, cut at the reads of the two files and at the append under
the lock. A calendar gives the midnights, so that a change of the clocks is a date that is
shorter or longer than 24 hours.

### Encoder

Words and bytes are small, but wrap around, split into 7-bit groups and pack into flags as
in the code; the constants are the two widths. A value is counted in steps below a
thousandth, `Fine` of them, and must fit a word as such a count; what `float64` does to it is `Float`,
which rounds to as many digits as `Mantissa` says. Each subtraction, multiplication,
conversion, division and addition of the code is rounded so. How much a rounding costs depends on
the size of the values: `FloatAssumption` says that up to `Reach` it is at most `Slack`, and
the bound of `DecodingFaithful` is one thousandth and five roundings (`Loss`) for every point. For
values of 1e14, where the numbers of a `float64` are further apart than a thousandth, `Slack` is
large and the bound says as little as the code gives. What a coder writes is the codes of the points one after the other
(`Code`, `Joined`); digits, numbers and remainders are recursive functions, so that they can be
proved about. `EncodeBatch` chooses a mode and a batch,
`Truncate` takes bytes off the end (with or without spare capacity behind them, because a
Go slice expression may reach into it), and the decoder takes one step for each point. The
modules of the engine do not use it, as the code does not.

### TableCache, Notify

A clearing is the loop of the code: `Scan` returns any portion of the keys there are, some
perhaps twice or set since it began, and ends only when those there all along have been returned,
which is all that Redis promises; `Del`; `AfterPortion`.
Other clients set keys and keys expire between any two steps. Whether the pattern of one table
matches keys of another with a longer name is a constant (`Extends`), for that is what the
missing separator in two of the patterns decides.

In `Notify` the loop of a call is cut at `Acquire`, `LISTEN`, the `select`, the wait and the sleep.
The pool and the server are external: connections are idle, taken or broken, and each has the
channels it listens to and the notifications not yet read. `Release` changes none of these.

### SheetDDL

A column definition is a sequence of tokens. `BuildMSSQLDDL` is a function from a row to
tokens, `ConvertDDL` the composition of the rewriting rules in the order of the code, each
applied to whatever it matches, and `Render` the second set of rules, which the
connection applies to every statement before it is sent. The rules see only text: most
are blind to case, some to where a word ends, and they match within names and defaults as well.
A text in which any of them finds something is `Touched`; what its column becomes is left
open (`Garbled`). Rows cut short by the spreadsheet, sheets whose names begin with an underscore and
reserved names in capitals are passed over as the reader does. `Run`, `Build`, `Check`, `Exec` are the steps of the program for
each table, and several invocations share the database. `ConversionFaithful` compares the
result with the column the row asks for (`Wanted`, written from the sheet's meaning and not
from the rules) and names the rows for which the rules go wrong (`Spoiled`): certain flags,
a length that is no number, and any `Touched` name or default, but for the calls for the time (`Now`),
which are meant to be renamed. A sheet
comes with the name its table has in the catalogue, since PostgreSQL folds names to lower
case; all that is assumed of folding is that what it gives is folded already.

## Runs

| Run | Shows | Bounds |
|---|---|---|
| `daywriter` | conservation, order, index, close and durability with every kind of fault | 3 points in batches of 1 or 2, 2 lives, threshold 2: several blocks, both formats, a full and a dropped flush request, and a life after a crash |
| `daywriter_live` | every point settles, `Close` returns, refinement of `PointLog` | 3 points, threshold 2, 2 lives: a flush request is dropped because one is pending, and the points depend on the ticker |
| `daywriter_torn` | violation: index out of step after a partial write | as `daywriter` |
| `reader` | search, answer, completeness, scan, termination | all files of up to 4 sound blocks of 7 shapes and of up to 3 blocks of 10 damaged kinds, every increasing index, 3 timestamps, every range: the search turns both ways and walks back over ties; points of 4 bytes, a CRC of 2, field counts up to 27, which leads the parser from any place to any later one |
| `full_scan` | violation: a file of several blocks without an index | up to 3 sound blocks |
| `tiering` | nothing missing, nothing twice in calm, expired days go | one block, one late point, one kill or failed step, at any place |
| `tiering_crash` | violation: kill between the two removals | one kill |
| `tiering_blocks` | violation: a day of two blocks after its migration | no kill, no failure |
| `tiering_late` | violation: a flush after the migration | no kill, no failure |
| `server` | one writer, order of answers, whole successes, durability at exit, statistics | 2 connections, 2 days, 2 requests of 6 kinds, a failing `NewDayWriter`, answers lost at any place; connections are symmetric |
| `server_live` | shutdown ends, writes are answered | 2 connections, 1 day, 2 writes |
| `parts` | the six small components: decoding, index bytes, dates, cache, conversion and creation of tables, notifications | see below |

The bounds of `parts`: bytes of 6 bits and words of two bytes, a radix of 5 for the code's 1000, 4
steps below a thousandth, floats of 7 bits, batches of up to 3 of 5 points whose differences wrap around, need one to
three bytes or are rounded; up to 10 old and 9 present index entries and one torn one, beyond the first
lengths that both sizes divide; three dates of 4 hours, the middle one also of 3 or 5, every
range, 7 stored points and one that is flushed meanwhile; two clearings, keys of two families
of which one belongs to a table with a longer name, one key set by others; a sheet with a
row for every combination of constraints and 13 defaults, touched and untouched, for each type, others for odd names,
lengths and rows cut short, and two invocations; two listeners of different channels, two connections, two
notifications and one lost connection. The variable `part` chooses the component a
behaviour belongs to, so their states add up and do not multiply.

Two processes that meet are enough for the races here, since each involves two goroutines
and one piece of state; the bounds on points, blocks and kills are the smallest with
which every action happens after every other that can affect it. Deadlock is not checked
because a program that has exited, a query that has returned or a day that is gone
may rest.

`parts` shows these facts, written into its properties as the exceptions they state:

- Delta coding loses up to a thousandth, and what `float64` rounds away, with every point and never
  makes it up. Delta of delta
  gives back nothing of a single point and only the first two points of three or more: it
  writes the bases as varints and reads them as two words.
- An index file that holds entries of both sizes is misread, as is one with torn units whose
  number makes up for the difference of the sizes, or a multiple of nine old entries.
- The loop of `Storage.Query` may skip a date of 23 hours and read one of 25 hours twice.
- A callback may be told of its own channel for what was sent to another one, after its
  connection had been used by a call that listened to that. A lost connection is never
  replaced: the call goes on sleeping and trying until it is cancelled.
- A text default `N` becomes the empty string; a flag with the default 1, or unique with any
  default, gets two `DEFAULT`s, one that may be null stays `BIT`, a sheet's own primary key stands beside the
  automatic one, and a column called `datetime` is renamed, as is a default that holds a rule's text. `tableExists` does not find a
  table whose sheet has capitals in its name, so a second run ends at it.

The five violation runs are disagreements between the code and its documentation;
`PROJECT.json` quotes the lines. `IndexSound`, `NeverMissing`, `ScanExact` and
`EarlyIsDurable` state what does hold, with the exceptions as their premises.

## Fairness

- `DayWriter`: weak fairness of `flushLoop` and of the rest of `Close`, because the Go
  scheduler runs every goroutine that can run; strong fairness of the closing case, because
  `select` chooses at random among the ready cases. Callers owe nothing.
- `DayReader`: weak fairness of one sequential call.
- `Tiering`: weak fairness of the two loops, whose tickers keep firing.
- `Server`: weak fairness of each handler and of `main` after the signal. Clients owe
  nothing, not even an end of their connection; a read deadline is possible, not promised.
- `Notify`: weak fairness of each call's own steps (waits and sleeps have time limits) and of
  the pool's close once every connection is back. Cancellation is not promised.
- The other parts of `parts` are safety only.

## Theorems

Proved by TLAPS for every value of the constants that satisfies the named assumptions of the
modules. These are `BoundAssumption`, `SizeAssumption`, `DataAssumption` (`DayWriter`),
`ImageAssumption` (`DayReader`), `RequestAssumption` (`Server`), `DayAssumption` (`Tiering`),
`CacheAssumption` (finitely many keys), `NotifyAssumption`, `IndexFileAssumption`,
`SheetAssumption`, `QueryDaysAssumption` (a calendar begins at 0, its midnights rise and
go beyond the last time) and `EncoderAssumption` (a byte has an even number of bits, more than
one, a varint is shorter than half a byte of flags can count, and differences of values fit an
`int64` of thousandths, beyond which Go leaves the conversion open). They give the constants
their types and little more. Two more say something of the code's data: `FloatAssumption`, what a
rounding costs at most within reach of the values, and `TouchedAssumption`, that the texts
the rules rename are among those in which a rule finds something. (`DayReader` also has a
`SizeAssumption`: a CRC is shorter than the header of a point.) No theorem has a hypothesis of
its own.

- `DayWriterProofs`: `TypeCorrect`, `PointsConserved`, `OrderKept`, `CloseIsComplete`,
  `LossNeedsFault`, `DurableKept`, `IndexIsSound`, `IndexIsComplete` and `Refinement`.
  `TypeOK` is not inductive: that the append position stays inside the file needs the
  size of the block in hand (`FlushInv`). Order needs conservation (new points are
  later than all others) and, within a block, that the buffer itself is in order
  (`InBlocks`). `CloseIsComplete` needs that after the final `select` the buffer holds
  only later points (`FinalInv`). Soundness of the index needs that, as long as no write
  was torn and no sync failed, the offset is the end of the file (`OffsetInv`) and that
  each entry describes a block that a power failure cannot take (`EntriesInv`).
  Completeness (`IndexInv`) adds that the entries in memory are the last ones of the
  file, and that at most one block, that of the flush in hand, has no entry yet. For kills and
  power failures `RiskInv` counts: blocks without an entry, and entries not yet synced, are together
  no more than the lives that have ended, and one while flush is between its writes. A
  power failure turns the one kind into the other (`CutKeeps`). The
  refinement maps stored and lost points to those of `PointLog` and every step to a
  step or a stutter.
- `DayReaderProofs`: `TypeCorrect` (the loops never leave the index); `SearchCorrect`, from
  the loop invariant `SearchInv`: entries left of `left` end before the range, entries
  right of `right` start after its beginning, and collected entries are exactly the
  overlapping ones so far; `AnswerCorrect` (`AnswerInv`: blocks are found and read
  upwards in the file, so that no point comes twice), for any index whatever;
  `AnswerComplete` (`CompleteInv`: the answer has all points of the readable blocks up to
  the one at hand, and a block that was not found has none in the range); and
  `ScanCorrect`, for the parse loop: in a file of one block, or of blocks without CRC, the offset is
  always where a point begins or behind the last one, and what is left there is too short
  for a header.
- `TieringProofs`: `TypeCorrect`; `NoPointTwice`, for every sequence of blocks; and
  `NothingMissing`. The property speaks of any day while the hot file is there, and beyond that of
  a `QuietDay`: one uncompressed block, of any points, too small for the migration to compress. Its invariant `Safe` says that until an exception of
  `NeverMissing` occurs the hot file is gone only when the cold one and its index are there
  (`DayFiles`), what each step of the migration has made sure of for the next
  (`DayMoves`), and that the query has the points or will meet them in cold (`DayAsked`).
  The restriction is needed: a day of more blocks cannot be read after its migration
  (run `tiering_blocks`), nor can a compressed block, which the migration writes anew and
  whose length is then no longer the one in the copied index.
- `ServerProofs`: `TypeCorrect`, `OneWriterEach`, `SuccessCoversWrite`,
  `SuccessSurvivesShutdown`, `StatisticsAgree`, `AnswersOrdered`. The first four come
  from the invariant `SafeInv`. For each handler
  it says where it may be (`PlaceInv`), that the days it has already handed over are held by a
  writer or on disk (`WorkInv`), and that every success given is whole (`AnsweredInv`).
  `WriterInv` ties the table to the files opened, and `EarlyInv` says, phase by phase of
  `Storage.Close`, which acknowledged points are on disk already. The steps share one
  frame, `StoreGrows`: no step of the server takes a point out of buffers and disk. The counters
  are compared with cardinalities of sets (`ActiveInv`, `TotalsInv`): a success that was
  counted may not have been seen, and one that was seen is counted or its handler is about to.
  `OrderInv` follows the answers of each connection up to the first that is lost.
- `EncoderProofs`: `DecodingIsFaithful`, what each of the three decoders gives back of its coder's
  bytes, whole or cut short. First arithmetic: digits of a number give the number again, in
  any radix, so a word is read back as it was written, and a varint too, whatever follows it,
  since only its last byte is without the continuation bit (or has the place of the longest's
  last). Then places: where the code of each point begins in the buffer
  (`Joined`), so that a decoder that has decoded so many points stands at the next one. The
  invariant `CodecInv` says that the points decoded so far are those of the batch, values as far as
  the loss of thousandths lets them (`DecodingFaithful` itself), that the bytes are the first ones
  of the encoding (`BytesKept`), and that the decoder of deltas stands where the code of the next
  point begins (`DecoderAt`). Of a decoder that stopped early it follows that the code of
  the next point is not there as a whole.
- `NotifyProofs`: `WrongLabelsAreInherited` and `NoneIsSkipped`. `HoldingInv` gives each taken
  connection to one call,
  `HeardInv` traces what a connection listens to, and what waits on it, to a call that used
  it, and `LabelInv` does so for each callback. `OwedInv`: what a call has handed on
  and what waits on its connection are together, in order, all that was sent since its `LISTEN`.
- `PartsProofs`: `IndexIsReadable`, from where each entry begins in the file, and that the
  rule of `readIndex` takes a length for the right size; `EveryDateOnce`, from the times at
  which each goroutine reads (24 hours apart, so that a date not longer than that has one
  at most and a date not shorter one at least) and what it has found by then (`DaysInv`);
  `NoTableIsLeftOut`, from what each invocation has passed (`SheetInv`). It needs folding to be
  idempotent: when `tableExists` finds the name of a sheet in the catalogue, that is the
  name the sheet's own table has.
- `PartsProofs`, on the columns of a table: `ColumnsAreAsWanted`, for every row of any strings. A rule is
  described by what it does to a sequence of tokens according to where its pattern stands first
  (`RewriteNone`, `RewriteAt`); a sequence is clear when no pattern of several tokens begins in
  it, and the rules for such patterns leave it alone (`ClearStays`), so that what remains of the
  conversion is the renaming of single tokens.
  The columns of an identity or a flag are rewritten rule by rule; any other is
  clear, and its type and its default are renamed by one rule each at most. `Render` then finds
  nothing more to rename (`SentAsIs`). The default of a unique flag
  ends up in another place than asked for, hence the comparison as bags. The state
  invariant `AllDdlInv` says that what an invocation is about to execute was converted from the
  rows of the table at hand.
- `PartsProofs`, on the table cache: `ClearingIsComplete` and `NoRemovalCountedTwice`. For the
  first: a key that matches the pattern at hand and is not new is still to be scanned or in the
  portion to be deleted, and none is left of the patterns before. For the second, the counts are
  taken as a set whose size, with that of the keys still there, is at most the keys there could
  be at the start and those added.

Several of these are about what a loop keeps of a sequence. The library's induction
theorems take operators as parameters, which the provers cannot instantiate, and `SelectSeq`
is recursive; so the models write such loops with `Sift`, a recursive function, and
`SiftingProofs` gets induction from the well-foundedness of strict inclusion, with a
property as a set of numbers (`SetInduction`), and from it that the recursion has a solution
(`Recursion`). The `Sift` lemmas (its elements, order, and what an `Append` or a concatenation does)
are cited by `DayReaderProofs`, `ServerProofs`, `NotifyProofs` and `PartsProofs`; induction
alone by `EncoderProofs`.

Every safety property and action property of the passing runs is proved. Only model-checked:

- all liveness properties: fairness and `ENABLED` are out of the prover's reach;
- the five properties of the violation runs, which do not hold.

## Not modelled

- Several devices (they share nothing but the locks).
- Byte counters and the layout of message bodies in the server; wording of errors; logs.
- `GetStats` and other getters, which change nothing; `GetIndexCount` reads without a lock.
- `encodePoint` and `decodePoint` of `datapoint.go`, which nothing calls (and which drop the
  fraction of a value).
- `gobackendkit`: auth (functions of one request), the wrappers of single Redis commands and of
  SQL transactions, which pass on their arguments, and those of SQL queries, which run `Render` over every
  statement first: `SheetDDL` has what that does to the statements of `excelddl`, and to others (text in,
  text out) it is not modelled, nor are the rules for `ALTER TABLE`; the sample workbook of `excelddl`, quickstart.

## Plan

1. Done: `PointLog`, `DayWriter`, `DayReader`, `Tiering`, `Server`, `IndexFile`, `QueryDays`,
   `Encoder`, `TableCache`, `Notify`, `SheetDDL`, each with proofs of its safety properties.
2. The day made again in hot at the edge of the hot period, as a run of `Tiering`; files with
   blocks of both formats in `DayReader`.
