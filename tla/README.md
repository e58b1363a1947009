# A TLA+ model of promate

Promate stores Graphite metrics in VictoriaMetrics and reads them back, through
Graphite's own protocol or through PromQL. This directory holds TLA+ models of
its parts, the TLC configurations that check them on small instances, and TLAPS
proofs of the properties that matter most. Line numbers are those of the
repository beside this directory (`src/`).

## 1. The system

| part | source | state it keeps | operations |
|---|---|---|---|
| **mateinsert** | `cmd/mateinsert/main.go` | per connection: two sockets, a borrowed reader, writer and builder; shared: three `sync.Pool`s | accept, dial, read a line, convert it, buffer, flush, deferred clean-up |
| **matecarbon** | `cmd/matecarbon/main.go` | configuration; per request: a slice of metrics, a mutex, a wait group, one goroutine per target | `/metrics/find/`, `/render/`: ask the backend, fill and align the series, append, answer |
| **matequery** | `cmd/matequery/main.go` | none; a reverse proxy whose Director rewrites the query | parse MateQL, rewrite, print |
| **mateql** | `mateql/*.go` | default WITH templates (parsed once); the regexp cache | lexer, parser, template expansion, simplification, printing, `CompileRegexp` |
| **prometheus** | `prometheus/*.go` | none | Graphite targets to label filters, globs to regular expressions, rewriting of an expression tree, types of the backend's answers |

How they interact: clients write Graphite lines to mateinsert, which sends
converted lines to VictoriaMetrics. carbonapi asks matecarbon, and Grafana asks
matequery; both turn Graphite targets into label filters with the same
`prometheus` package, which must mirror what mateinsert wrote. matequery parses a
query with `mateql`, whose filters use the regexp cache, rewrites the tree and
sends the printed tree to the backend. matecarbon asks the backend over HTTP, one
goroutine per target, and combines what comes back. The processes share nothing
but the backend.

What is hard, part by part, and what makes the part correct:

* **matecarbon fan-out.** Several goroutines append to one slice; every early
  return must release the wait group and the response body; the response is
  marshalled without the mutex. Correct: the answer has every entry of every
  target that succeeded, once, and a request is always answered.
* **matecarbon render.** Index arithmetic on the boundaries of a time range, with
  panics that nobody recovers. Correct: no panic (it has one: a reversed range, section
  6), every sample at its own time, none dropped, series that can be combined point by
  point.
* **mateinsert.** Pooled buffers with left-over data and a sticky error; writes
  that fail half way; deferred calls whose order matters. Correct: a stream holds
  its own client's lines only, in order, and all of them after a clean close.
* **regexp cache.** Check, compile and insert are three separate critical
  sections. Correct: no map race, the right expression, a bounded map.
* **parser.** Precedence by rotation of the tree, template scopes, and passes that
  rely on what earlier passes removed. Correct: the tree that precedence asks for,
  expansion that is substitution, a printed form that means the same.
* **lexer.** Two stacks of tokens, an error that is kept, lookaheads of one and two
  tokens, one of which drops the error; globs, windows and filters that begin with
  the same characters. Correct: the parser reads the tokens that were written, in
  order, and accepts nothing that it has not read.
* **conversion.** Three places (mateinsert, `Find`, `Render`) that never meet must
  agree on names, labels and where a path ends. Correct: a target selects the paths
  that its globs mean, and they come back as they were sent.
* **rewriting.** One name is threaded through a tree whose nodes are changed in
  place and may be shared. Correct: the backend reads the client's expression, each
  target as its selector, each `gN` as a label of its own target.

`PROJECT.json` lists the hazards at their lines, with the properties for each.

## 2. The modules

| module | models | role |
|---|---|---|
| `Wrapper` | `Find`, `Render` and the two handlers (main.go 64-150, 181-278, 280-455) | detailed specification |
| `Gather` | what the handlers may rely on | abstract specification of `Wrapper` |
| `WrapperProofs` | | theorems on `Wrapper` |
| `Render` | the arithmetic of one render target (main.go 315-448, 457-463) | sequential algorithm, step by step |
| `RenderProofs` | | theorems on `Render` |
| `MateInsert` | the proxy (mateinsert main.go) | detailed specification |
| `MateInsertProofs` | | theorems on `MateInsert` |
| `LineReader` | its loop over `ReadLine` (mateinsert main.go 92-111), on bytes | detailed specification |
| `LineReaderProofs` | | theorems on `LineReader` |
| `RegexpCache` | `mateql/regexp_cache.go` | detailed specification |
| `RegexpCacheProofs` | | theorems on `RegexpCache` |
| `Lexer` | `Init`, `Next`, `Prev` of `mateql/lexer.go` and the parser's lookaheads | detailed specification |
| `Cursor` | what the parser relies on: a place in a sequence of tokens | abstract specification of `Lexer` |
| `LexerProofs` | | theorems on `Lexer` |
| `Scan` | characters to tokens in `mateql/lexer.go`, and escapes | recursive operators, TLC only |
| `Grammar` | the parse functions of `mateql/parser.go` | recursive operators, TLC only |
| `Printer` | the `AppendString` methods | recursive operators, TLC only |
| `Expand` | template expansion, `removeParensExpr`, `simplifyConstants`, `binaryOpEval` | recursive operators, TLC only |
| `MateQL` | `Parse`, and the client that types queries | state machine over all queries |
| `Converter` | `prometheus/glob.go`, `prometheus/converter.go` | operators |
| `Graphite` | `convertGraphite`, `Find` and `Render` around a store | composes mateinsert, `Converter` and matecarbon |
| `GraphiteProofs` | | theorems on `Graphite` and on the operators of `Converter` |
| `MateQuery` | `prometheus/mateql.go` and matequery's Director | composes `MateQL`, `Converter` and `Scan` |
| `SequenceLemmas` | | induction, sorting of finite sets, parts of sequences, `FlattenSeq`: lemmas the proofs share |
| `MC*` | | instances for TLC |

An operator named `X_Something` with the comment "Mutant" is a plausible wrong
version of `X`. It is used by no specification: replacing `X` by it must make TLC
report the property it is listed with in `PROJECT.json`, which shows that the
property depends on that code.

### Wrapper and Gather

`handler` is the position of the HTTP handler, `pc[w]` that of the goroutine of
the w-th target. One action is one step that other goroutines can observe or that
can fail on its own: `Spawn` is an iteration of the loop with its `wg.Add(1)`,
`Check` the early returns before the request is sent, `GetOk`/`GetFails` and
`ReadOk`/`ReadFails` the backend call and the reading and decoding of its body,
`Skip`, `Build` and `EndReply` the loop over the series (the panic in it of a reversed
range is in `Render`, not here), `Lock`, `Load`, `Store` and `Unlock` the append, split because reading and writing back a slice are two
steps, `Close` and `Exit` the deferred calls. Concurrent HTTP requests share
nothing that changes, so one handler serving one request after another is enough.
Targets are abstracted to what the code tells apart: `*`, too long, other; series
to "ok", without values, without a Graphite name.

`Gather` has no goroutines: a target is decided once, and one step answers with
the accepted entries. `Wrapper` implements it with a request open while the handler
is not idle, and the outcome of a target read off `reply` once `pc` is past the
backend call.

### Render

One action is one statement group of the code: `Query` the step, `FillSlot`,
`SearchMatch`, `SearchBreak`, `FillDone` the two nested loops that put samples
between NaNs, `CutStart`/`PadStart` and `CutEnd`/`PadEnd` the alignment, `Emit`
the append. A sample is represented by its time, so that a value that moves
shows. `Evaluate` is external: the backend evaluates on a grid from the requested
start, or on one rounded to multiples of the step, as its cache does. Both are
allowed; the second is the one in which series can end apart.

Nothing in the code compares the two ends of a range, so `Query` takes reversed ranges
like all others. The backend moves the end of such a range to a default distance after
its start (`Until`, `DefaultRange`: external, any number) and answers. A slice bound or a
length out of range is the state "panic", after which nothing happens (`Dead`), for the
goroutine has no recover. `PanicsOnlyReversed` says of which ranges it can happen.

### MateInsert

`pc[c]` follows the goroutine of client c, deferred calls included. A line is
converted to a number of stream units, more than were read; the writer's buffer
has `BufferSize` units and a low-water mark. `bufio.Writer` is modelled by what its
callers see: a write fits, is sent directly or is split; a flush may send a part
and fail, and the error is sticky. Reset, which `Borrow` does, is the only thing
between one client's left-over data and the next client's stream.

### RegexpCache

One action per critical section or step outside the locks: `Call`, `RLock`,
`Lookup`, `Hit`/`Miss`, `Compile`, `PutLock`, `Evict` (one entry), `Insert`. The
counters of requests and misses are kept; the first also bounds the behaviours. The
result of compiling p is p itself: a wrong entry shows.

### LineReader

`MateInsert` takes lines for granted; `LineReader` is the loop that makes them. A
byte is the number of its place in the stream, so that a line that is handed to
`convertGraphite` shows where each of its bytes came from. `InBuffer` is a slice that
lies in the reader's buffer and changes with it; `append` copies. `LineFound`,
`BufferFull`, `Fill` and `AtEOF` are what `bufio.Reader.ReadLine` does (external), and
`Returned` is the code around it.

What the properties say of a line that is as long as the buffer, 64 KiB, or longer:
its first 64 KiB lie in the buffer while the next `ReadLine` fills it again, before
`append` copies them, so that any byte of them may be replaced by the one 64 KiB
further on (`LongLineCells` says that nothing else can happen to it); and if the
stream ends without a newline after a multiple of 64 KiB, that last line is dropped
(`NothingDropped`). Lines that fit are never touched (`ShortLinesIntact`).

### Lexer and Cursor

`lex` has the token, the stacks `prevTokens` and `nextTokens`, the number of tokens
scanned and the error that is kept. The grammar is abstracted away: one action is one
use of the lexer by a parse function with its `Next` and `Prev` calls, in any order
(`Consume`, `LookIdent`, `LookWith`, `StringPart`, `StepOfWindow`), and the parser may
refuse at any time. `Cursor` is an index into the tokens. The refinement maps the
place to the length of `prevTokens`. It is not obvious: `Next` pushes the current
token before it knows whether there is another, `parseSingleExpr` calls `Prev` even
when `Next` has failed and drops the error, and `parseWindowAndStep` changes the
current token in place. `LookWith` therefore contains the `Next` of `parseIdentExpr`
that follows, which meets the kept error. `Grammar`, with its index, rests on this.

### Grammar, Printer, Expand and MateQL

A query is a sequence of tokens; a parse function takes the index of the current
token and returns a tree and the next index. `Printer` gives the tokens of the
printed text, so that reading it again can be modelled. In `MateQL` a client
types a query phrase by phrase, or templates, with or without parameters, and then
a query; each state is one query, and `result` is what `Parse` returns for it.
Trees are values, but a metric carries the address of the node it is (`at`): what
expansion copies gets a new address and what it shares keeps it.

`WithIsSubstitution` compares expansion with substitution of trees: the templates
are inlined one after the other, parameters by arguments, and the result must be the
same; a wrong argument that the body does not use may still be reported. It speaks of
templates as operands, not of those that stand for filters or labels. A function that
has the name of a parameter is left out by name, because there the code's two
expansions capture: `with (t(f, b) = b) t(1, f(2))` is an error.

Left out: the infinities and numbers with a fraction, kinds of quotes, upper case,
three of the five default templates (`ru`, which uses an argument twice, and `alias`
are kept), the check of a filter's regular expression.

### Converter and Graphite

A text is a sequence of characters, a path the sequence of its nodes. `Converter` has
one operator per function. The loop over the characters of a glob is a recursive
function of the place (`globLoop`), and a loop that keeps some indices of a range is
the ascending list of those (`InOrder`). `Graphite` composes the operators: `Insert` is
a line that arrives at mateinsert and what is stored of it, `Find` and `Render` the two
requests of matecarbon up to the names in the answer. The store is external: selectors
with anchored regular expressions, and the rule that an empty label is no label.
`Language` reads a regular expression from left to right (`regexLoop`), with a stack of
the groups that are open, and computes its words of up to `MaxNode` letters; a class
`[a-b]` is the letters between the two in the order of their codes (`Code`).

A target is a sequence of globs, each a text together with the words that it is meant
to match, so that the properties do not use the code's own translation. `Globs` lists
the globs from the simple ones (a word, `?`, `*`, `[ab]`, `[a-b]`) to those that are
made of earlier ones: one after another (`Then`), in braces (`Braces`), one more
alternative in the braces (`OrElse`). A node of a target that is none of them is a text
that `globToRegexPattern` refuses, and is meant to match nothing (`Refused`), or any text
with one of `$ ' < >` in it (`IsEscaped`). The assumptions say this of the constants
(`GlobsAssumption`, `TargetsAssumption`), that the letters of stored nodes are characters
that a glob may have, `$ ' < > |` included (`LettersAssumption`), and that the fields of
a line are not empty and the name is not (`LinesAssumption`: of other lines it is the
backend that decides).

glob.go writes `$ ' < >` after a backslash (112-114), as for a regular expression, and
the selector is sent as a string, in which such a backslash is no escape: the backend
refuses it, as mateql's own `extractStringValue` does (`Readable`). If it took the
backslash for a character of the value, the outcome would be the same when the node is no
regular expression: an equality with a text that no node is.

`SelectsMatching` names what a user may not expect of `Render`. `Matches` is what the
globs mean: as many nodes as the target has, each matching. Two exceptions are stated
beside it. A path that is shorter or longer but `PassesFor` one that matches is selected,
too, because a label that is missing is an empty one: `a.*.x.*` selects `a.y.x`, which
`prometheus/glob_test.go:106-107` says it does not match (section 6). And a target with one of `$ ' < >` in a node (`HasEscapes`) selects nothing, so that
a path that has one is stored and cannot be asked for by its own name.

What else the properties had to take into account: a path with empty nodes (`a..b`)
loses them in answers and may lose its end; names that differ only in `-` and `_` are
one; a target with a node that is no glob selects `{__name__=""}`, which is nothing;
`Find` with two nodes asks for all the values of the label whatever the second node.

### Scan and MateQuery

`Scan` is the scanner on characters: where a token ends, and what is escaped. In
`MateQuery` the client of `MateQL` types a query with targets and sends it;
`Director` rewrites it, and the properties parse what is forwarded, as the backend
would. `covertExpr` walks the tree with the last name and the filters of the nodes
changed so far, by address: a node that is at two places is changed at both.

What the properties leave out by name, or do not speak of:

* An aggregate with no target of its own takes the name of the one before it:
  `sum(a.x) + sum(b) by (g1)` is grouped by `__a_g1__`.
* A filter on `__name__` with a dot is a target even if it is a regular expression:
  `{__name__=~"foo.*"}`.
* `a.x[:5m]` and `a.x{f}` are each one token, a target with a range of characters or
  a list of values. So is `a.x-b.y` without spaces; the model writes spaces.
* A printed name with two dots in a row cannot be read again as one token.
* `Atoi` also takes signs, which cannot be in a label.

## 3. The runs

| run | instance | shows |
|---|---|---|
| `wrapper` | 2 targets, up to 3 series each, fairness | wait group exact, no append lost, answers complete, bodies closed, the response frozen while it is marshalled; every request is answered; `Wrapper` implements `Gather` |
| `render_align` | times up to 7, ranges in both directions, flush interval 2, MaxDataPoints up to 3 or absent, 2 series | no panic unless the range is reversed, samples in place and not lost, one point more than MaxDataPoints at most, equal starts and ends at most one step apart |
| `render_division` | the same | **violated**: series that end apart, see section 6 |
| `render_reversed` | the same with 1 series | **violated**: a panic on a reversed range, see section 6 |
| `mateinsert` | 2 clients, 2 readers and 2 writers, fairness | pooled buffers exclusive, own lines, own stream, nothing lost at the buffer's boundary, what is held back bounded, everything delivered at EOF, clean exit; a goroutine ends after its client has closed |
| `mateinsert_lines` | all streams of up to 9 bytes, a buffer of 3 | lines that fit are intact; what a longer one may lose; no line dropped |
| `cache` | 2 callers, 5 patterns, at most 3 entries, fairness | no map race, right results, bounded map; every call returns |
| `lexer` | all queries of up to 3 tokens, and of up to 5 that make the parser look ahead | `Lexer` implements `Cursor`; only what was read is accepted |
| `mateql_parse` | about 440 000 states, queries of 15 slices of the language | precedence, template expansion, normal form, round trip |
| `graphite` | up to 2 stored lines, every form of glob, an escaped character | targets select what their globs mean and the two exceptions named above, names return, `Find` lists the next nodes |
| `matequery` | 5 slices with targets | targets rewritten in place and nothing else, `gN` by the own target, scanning gives the tokens written |
| `matequery_shared` | calls of the default template `ru` | **violated**: `gN` by another target, see section 6 |

### Bounds and why they are enough

* `N` targets: a lost append needs two goroutines; the proofs cover any number.
  `FewReplies` has several series per target, of which the first, a middle one or
  none is skipped.
* Render times up to 7 with an interval of 2 give steps 2 and 4 and ranges that
  divide evenly, leave a remainder, have one time only (start = stop) or are reversed by
  1 to 7 seconds, on both grids; with `DefaultRange` 3 a reversed range has an answer of one
  sample or several, of which too many are cut or, when the range is reversed by no more
  than a step, all. Two series are what carbonapi combines. The proofs cover every time,
  interval and distance.
* `BufferSize` 4, `LowWater` 3 and line widths 1 and 5: a line can fit, be split, or
  exceed an empty buffer, and the rest can be above or below the low-water mark. Two objects per pool with
  two clients allow both reuse and simultaneous use; the proofs cover any numbers.
* Five patterns and two callers with `MaxLen` 3: both callers can be past the miss
  and before `Put`, and an eviction meets them. That a share may round to zero, and
  any number of callers, is covered by the proofs.
  `MaxRequests` bounds the behaviours: enough to fill, evict and fill again.
* A slice of the language is a set of tokens that interact (operators of five
  precedence levels; constants and `bool`; windows; aggregates; modifiers; filters;
  strings; templates with and without parameters), with the length that lets each construct occur whole, and
  nested where brackets allow it. `MaxTemplates` 2 is one template that uses another.
  A phrase is a group of tokens typed at once, which keeps a slice small.
  `MaxNumber` is the largest constant that can be computed in the template slice.

* A stream of nine bytes has a line of three buffers, or one of two with others
  around it; `Fill` takes any number of bytes. The proofs cover every stream and buffer.
* Queries of the lexer: the longest lookahead, `'p' + a (`, has four tokens. Any
  query is covered by the proofs.
* Graphite: two stored paths let a target select one and not the other; nodes of up
  to two letters tell every form of glob from its neighbours; the letters are `x`, `y` and
  `$`, which stands for those that are escaped. The proofs cover any
  number of lines and globs of any depth.

### The printed form

`RoundTrip` holds for every query of the slices but three kinds of tree, which the
property excludes by name and TLC finds at once if it does not: a window or offset
of a negative constant, `(-1)[5m]`; a right operand named like a modifier, `-bool`;
and a string or metric in parentheses added to a string, `'p' + (a)`. In these the
printed text is not read as the same query. No document promises that it is, so
they are stated as the property's exceptions.

## 4. Fairness

* `Wrapper`: weak fairness of the handler and of every goroutine, because the Go
  scheduler runs what can run and the HTTP client's timeout (set in `newWrapper`)
  ends every wait for the backend; strong fairness of `Lock`, because `sync.Mutex`
  hands over to a waiter that has starved for a millisecond. No fairness of
  `Accept`: clients need not come.
* `MateInsert`: weak fairness of every goroutine. The dial and the writes have no
  deadline; that they end is an assumption about the remote and TCP, not something
  the code ensures. No fairness of clients: `EndsAfterHangUp` starts when one closes.
* `RegexpCache`: weak fairness of every call, strong fairness of taking the read
  or the write lock, because `sync.RWMutex` blocks new readers once a writer waits
  and lets waiting readers in when a writer leaves.
* The other modules are sequential; nothing but safety is stated of them.

## 5. The proofs

`WrapperProofs` proves, for every number of targets and every set of replies
(assumptions `NAssumption`, `RepliesAssumption`), `TypeCorrect`, `WaitGroupExact`,
`AppendsSafe`, `NoBodyLeak`, `AnswersComplete`, `Frozen` and `Refinement`
(`Wrapper` implements `Gather`). None of these is inductive alone. `IInv` is the
conjunction of

* `TypeOK`;
* `SpawnInv`: a goroutine exists exactly if the loop has passed its target;
* `GoInv`: where each goroutine is determines whether it holds its body and the
  mutex, that what it read of the slice is still the slice when it writes, and how
  far it is in its reply;
* `WgCountsUnfinished`, which needs the type of `wg` and is needed for it: the
  counter is not negative because it is the size of a set with the goroutine that
  is about to leave in it;
* `NoLostEntry`, which needs `GoInv` for the stale read;
* `AnswerInv`: nobody is left after `wg.Wait`, and the answer is the response.

One lemma per conjunct (`TypeNext`, `SpawnNext`, ...) has a step per action. The
properties follow from `IInv`; `Frozen` and `Refinement` are step simulations
under it.

`RegexpCacheProofs` proves, for every set of threads and patterns, every limit and
every share, `TypeCorrect`, `MapRaceFree`, `ResultsRight` and `CacheBounded`.
Its `IInv` adds to the types `LockInv` (who is in which critical section), `MuInv`
(readers and the writer exclude each other), `ArgInv` (a thread's result belongs to
its argument at every step between the critical sections), `ValueInv` (each entry
is its key's) and `RoomInv` (a thread about to insert has room: the eviction loop
and the lock together keep the map at `MaxLen` + 1).

`LexerProofs` proves, for every set of tokens and queries (`TokensAssumption`),
`AlwaysPlaced`, `WholeQueryAccepted` and `LexerImplementsCursor`. Its `Inv` adds to
the types that, while the query is parsed, the lexer is in a place of the query
(`Placed`: there is no error, and the tokens given back are the ones after the place
up to what has been scanned, the nearest on top) and that only the token at the end
is empty (`Ends`), without which the parser could go past the end. The place is the
length of `prevTokens`; what lies in that stack matters only as far as it was pushed
in the same step, because the parser goes back over nothing else.
Lemmas state what `lexNext` and `lexPrev` do to a lexer that is so placed, also after
a failed `Next`, and each action is a composition of them.

`MateInsertProofs` proves, for every set of clients and pooled objects, every input
of lines of the three widths, every buffer size and low-water mark (assumptions
`InputsAssumption`, `SizesAssumption`, `NoneAssumption`), all safety properties of the
proxy:
`TypeCorrect`, `Exclusion`, `LinesOwn`, `StreamOwn`, `Conservation`, `Delivery`,
`HoldsLittleBack` and, as an action property, `ExitsClean`. Its `IInv` is `TypeOK`,
`PoolExclusive` and, for each client c, `Client(c)`: which objects c holds at which
place (`Held`), that lines read and lines in the reader are consecutive lines of c
(`Started`, `Ahead`), that the writer's buffer has its low-water mark left in the loop
(`Room`), where an error can be (`Error`), that what was sent begins the conversion of
the lines read (`Prefix`) and, until the writer fails, that sent, buffered and pending
units are all of it (`Conserved`), what the last flush has achieved (`Finish`), and
when the remote is open (`Sockets`). `OwnStream` alone is not inductive: a writer that
has failed keeps a part of its buffer, and only `Error` and `Reset` in `Borrow` keep
that from being sent. `Frame` says that a step of one goroutine that touches no object
of client d keeps `Client(d)`, and `PoolExclusive` that it does not touch one, so that
each action is looked at for its own client only.

`RenderProofs` proves, for every request, reversed or not, flush interval, default of
points, grid and set of series, `PanicsReversed`, `PointsInPlace`, `SamplesKept`, `FewPoints` and
`StartTogether`: all safety properties of the render loop. `IInv` follows one series:
`Filling` (samples passed are placed, the others lie at or after the `Frontier`),
`Filled` (the values end at the last sample), `StartAligned` (the start is the first
time of the grid's class in the request, no sample from there on is lost) and
`Aligned`, which `SentOK` says of everything appended. The reason that
nothing panics when the range is not reversed is in `CutStartStep` and `CutEndStep`: a grid reaches at most a step beyond the
request, so that exactly one point is cut, and there is one; and in `PadEndStep`:
after the start is aligned there are never more points than the range has steps, plus
one. `CutEndReversed` and `PadEndReversed` say what happens otherwise: a panic, or a
response of at most one point. All of it rests on `GridOK` (times of a grid are congruent modulo the step), on
lemmas about `\div` and products with the step, on what each change of the values does
to the slots (`SlotsAppend`, `SlotsDropFirst`, ...), and on `SortTimesSorted`: a finite
set of times can be sorted, which gives the `CHOOSE` its value. `NaNAssumption` (NaN is
no time) and `BoundsAssumption` are used.

`LineReaderProofs` proves `ShortLines`, `LongLines` and `NoneDropped` for every stream,
every buffer of at least one byte and every division of the stream into reads. Its
`IInv` says that the buffer holds the bytes after the last one returned (`Window`),
that the line being read begins after the break whose rank is the number of lines
handed on, and `InLine`: what was returned of it has no newline and is a multiple of
the buffer, held by `line` in cells of which only the first buffer can be refilled; or
`PastEnd`: an unterminated last line, which was not a multiple of the buffer, has been
handed on. `RankGrows`, `BreakIs`, `RankNext` and `RankEnd` say what `Break` (a
`CHOOSE` by cardinality) and `NumLines` are; `HandedOn` is the step in which a line is
handed on, shared by a newline in the buffer and by the end of the stream.

`GraphiteProofs` proves all the properties of `Graphite`: `Selection`, `NamesComeBack`
and `ChildrenFound`, for every set of lines, every set of targets, every list of globs
built as above, to any depth, every alphabet among the characters of `LettersAssumption`
and every `MaxNode`. The invariant needs only one fact beside them, `DbInv`: the store
holds exactly the series of the paths of accepted lines. The work is in what an
answer is made of.

* *Globs.* `GlobLoopConcat` and `RegexLoopConcat` divide the loop over a text or a
  pattern into those over its parts. So it can be said of a text alone what it does
  from any state: `Writes` (it appends this pattern to whatever was written, leaves the
  stack of groups as it was, and makes it a regular expression or not) and, of a
  pattern, `Reads` (it multiplies the words of the alternative that is being read by
  these words, below any stack of open groups); `Opens` and `Enters` are the same for
  a text and a pattern with an open brace. `Means(g)` is that g's text writes a pattern
  that reads g's words, and that a glob with no operator is the one word it matches, for
  the code then compares with `=`. `MeansWord`, `MeansOne`, `MeansStar`, `MeansClass`,
  `MeansFromTo` and `MeansThen` show it of each form; `ExtendsBraces` and
  `ExtendsOrElse` carry along that what is written up to the last brace can go on.
  `GlobsGood` is the induction over the list. The cut at `MaxNode` letters makes `Concat`
  an intersection, whose associativity (`ConcatAssoc`) is what lets parts be put together.
* *Selectors.* `SeriesIs` has the labels of a stored path, `LabelValueIs` that a label
  that is missing is an empty node; with `FilterOf`, `StarText` and `RefusedText` for the
  three kinds of nodes, `SelectsIff` says that the selector of a target selects a path's
  series exactly if the path matches or passes for one that does (`MatchesOrPasses`), with
  and without the filter on the end.
* *Escapes.* `RoundStep` is one round of the loop over a glob, and `EscapedText` the
  induction over it: a text with one of `$ ' < >` is refused or its pattern has a
  backslash, for once one is written it stays. `SelectsNone` concludes that the selector
  selects nothing.
* *Names.* `MetricIs` counts the labels, with and without `__name__`: as many as the
  loop of `ConvertPrometheusMetric` needs unless a node is empty. `NodesInOrder` compares
  the indices it keeps with those of the whole path; `NamedIs` is the result.
* *Find.* `LabelThere` and `PrefixIs` say when a series has the label of `Find` and what
  the prefix and the value make; the short cut for two nodes needs no selector, because
  the label has the name in it.

`SequenceLemmas` has induction over the natural numbers as a fact about sets
(`SetInduction`, from the well-foundedness of `<`): a library theorem with an operator
parameter cannot be instantiated by the provers, a set can. With it the value of
`FlattenSeq`, a recursive function, is proved (`FlattenSeqStep`), that finite sets of
numbers have a maximum and can be sorted (`SortExists`), and that the sorted list is
unique and begins with that of a lower part (`AscendingOnto`, `AscendingBegins`): this is
what gives `InOrder` of `Converter` and `SortTimes` of `Render`, both a `CHOOSE`, their
values.

Each inductive invariant was also checked by TLC on the instance of its component's run;
of `GraphiteProofs`, `DbInv` was, the other conjuncts being the run's own invariants.

Only model-checked: everything about liveness and fairness (`EndsAfterHangUp` of
`MateInsert`, `EveryRequestAnswered` of `Wrapper`, `CallsReturn` of `RegexpCache`),
which the provers do not handle; and everything about the parser, the printer, the expansion, the
scanner and the rewriting of queries (`MateQL`, `MateQuery`), whose operators are
`RECURSIVE`, for which there is no SMT backend. The type invariants of
`Wrapper`, `RegexpCache` and `Render` are proved and not checked in a run.

## 6. Findings

* `render_division`. The comment at `cmd/matecarbon/main.go:406` says that the start
  and end of a metric are aligned with the request because the division in carbonapi
  fails otherwise. On a grid of multiples of the step, a series with a sample after
  the requested end is cut and another is padded, and their ends differ by a step.
  `SameStart` shows that this is the only difference.

* `render_reversed`. The same comment speaks of every request. Nothing looks at the order
  of its start and stop (main.go 311-352), the backend answers, and the points to cut
  (`stopStep`, main.go 421) are then more than the series has: with start 1000, stop 0 and
  a flush interval of 10 the backend's 31 points lie at 1000 to 1300, 130 are to be cut,
  and `values[:len-stopStep]` panics in a goroutine without recover, which ends the
  process. A range that is reversed by no more than a step may also get a
  response of at most one point.
  `PanicsOnlyReversed` shows, and `PanicsReversed` proves, that other ranges never panic.
* `matequery_shared`. The tests of `CovertMateQuery` (`prometheus/mateql_test.go:20`)
  group an aggregate by labels of its own target. Expansion returns a metric that is
  expanded already as it is (`mateql/parser.go:719`), so that an argument that a
  template uses twice is one node at two places; `covertExpr` changes it at the first,
  and at the second its name has no dot any more and is not taken for a target. TLC
  finds `ru(sum(a.x) by (g1), sum(b.y) by (g1))`, in which an aggregate over `b` is
  grouped by `__a_g1__`. `GroupsByOwnTarget` shows that without sharing it is right,
  and `TargetsRewritten` that the selectors are right even then.

Two more disagreements have no run of their own, because a property that holds states
what the code does in their place:

* `prometheus/glob_test.go:106-107` says that `foo.*.zed.*` does not match `foo.bar.zed`.
  `ConvertGraphiteTarget` asks for nothing at a `*` (converter.go 63) and for the label
  after the last node to be empty (converter.go 77-82), which it also is on a path that
  ends earlier: `foo.*.zed.*` selects `foo.bar.zed`. `SelectsMatching` says which paths are
  selected in this way (`PassesFor`), and that there are no others.
* The comment at `cmd/matecarbon/main.go:431` says that "response points must not exceed
  MaxDataPoints". The step divides the range into at most MaxDataPoints intervals, and n
  intervals have n + 1 points, e.g. 11 for a range of 100 s with a flush interval of 10 s
  and MaxDataPoints 10. `PointsBounded` says that there is never more than one too many.

## 7. Not modelled

* Start-up, flags and configuration: they run once and keep nothing that changes.
* JSON, logging and the wording of errors. The decoding of one sample in
  `prometheus/response.go` is that of the JSON library.
* The tables of function names, beyond their use as classes of identifiers.
* matequery's joining of URLs and health check; the pool of builders in
  `prometheus/converter.go` and mateinsert, whose contents are copied before they are
  put back.
* The sharing of the default templates between requests: the nodes of a template that
  reach a result uncopied are numbers and strings, which no pass changes.
* In `MateInsert`: a connection whose dial failed stays open (main.go 71); no property
  says otherwise. In `Render`: flush intervals that are not whole seconds, and the
  choice of the rollup function by the suffix of a target, of which `Graphite` keeps
  whether it drops the name.
* In `Graphite`: characters outside `ValidIdentifierRunes` in a stored node, for which no
  target has a name; a backslash or a bar in a target, save in a node with one of `$ ' < >`
  or one that is refused; a quote or a backslash in the name of a metric that is asked
  for, which changes the selector itself. `Plain` has some of the
  letters and digits of `ValidIdentifierRunes`, which glob.go treats alike, and all the
  other characters.
* Durations and their values (`DurationValue`), which promate does not use.

## 8. Plan

Done: the fan-out with its abstract specification and proofs, the render
arithmetic, the proxy and its lines with proofs of all their safety properties, the
cache with its proofs, the lexer with its abstract specification and proofs, the
scanner, the parser, the conversion of targets with proofs of its properties, the
rewriting of queries.

Left to TLC for good, with the present provers: the parser and what is built on it, which
would have to be written without `RECURSIVE` operators, and liveness.
