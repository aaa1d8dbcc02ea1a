# Bruinbase and the movie database, in TLA+

The repository holds several programs of a database course. The largest is **Bruinbase**,
a small SQL engine in C++: a page file with a read cache, a record file on it, the node
code of a B+ tree, an engine that runs `SELECT` and `LOAD`, and in front of it a scanner
and a parser that flex and bison generated. Beside it are a **movie web site** in PHP
over MySQL, a PHP calculator, and a page that sends a query to MySQL. This project models
them, checks the models with TLC, and proves properties of them with TLAPS.

Paths below are relative to `src/`; `DB/` stands for `Database implementation and
optimization using B+ tree/`, `Site/` for `Movie Database Website (IMDB)/`.

## 1. The system

| Part | State | Operations | Used by |
|---|---|---|---|
| `DB/PageFile` | per object `fd`, `epid`; static `readCache[10]`, `cacheClock`; the kernel's descriptors and files | `open`, `close`, `read`, `write`, `endPid` | RecordFile, B+ tree nodes |
| `DB/RecordFile` | `pf`, `erid`; the count and the nine slots of each page | constructors, `open`, `close`, `read`, `append`, `endRid` | SqlEngine |
| `DB/BTreeNode`: `BTLeafNode` | `buffer`: slots (key, record id) and the next leaf's page id | `insert`, `insertAndSplit`, `locate`, `readEntry`, next pointer, `read`, `write` | the test in `main.cc` |
| `DB/BTreeNode`: `BTNonLeafNode` | `buffer`: a first page id and pairs (key, page id) | `initializeRoot`, `insert`, `insertAndSplit`, `locateChildPtr`, `read`, `write` | the test in `main.cc` |
| `DB/BTreeIndex` | none in use | stubs that return 0 | nobody |
| `DB/SqlEngine` | the locals of the statement being executed | `run`, `select`, `load`, `parseLoadLine` | the parser |
| `DB/SqlParser.y`, `SqlParser.tab.c` | `yyparse`'s stacks, lookahead, `yyerrstatus`; the strings and vectors it owns | turn tokens into calls of SqlEngine; recover from errors | `run` |
| `DB/SqlParser.l`, `lex.sql.c` | the buffer, its end and its pointers; the DFA's state and the last accepting one | turn text into tokens; refill the buffer | the parser |
| `Site/` pages that write | the tables of `create.sql`, the counters `MaxMovieID`, `MaxPersonID` | add movie, person, role, direction, review | visitors |
| `Site/` pages that read | none | show movie, show actor, search | visitors |
| `PHP calculator` | none | filters in front of `eval` | visitors |
| `Web Query Interface` | none | one query, printed | visitors |

How they interact:

    main -> SqlEngine::run -> parser -> select / load -> RecordFile -> PageFile -> kernel
                                |                    BTLeafNode, BTNonLeafNode -^
                             scanner -> stdin
    visitors -> one PHP process per request -> queries, one by one -> MySQL

All calls in Bruinbase are synchronous and the program has one thread. The state its
parts share is the static cache of PageFile (every object uses the same slots, told
apart by descriptor *number* only) and the files. On the web site requests run at the
same time, and share the database; no page uses a transaction.

What is hard here, and what correctness means in each part:

* **PageFile.** Descriptor numbers are reused, calls fail half way, the clock and the
  offset are ints that overflow, and there is no destructor. It is right when a cached
  page is the page on disk, when no slot outlives its descriptor, when no page is cached
  twice (a write empties one slot only), when `endPid()` is the size of the file, and
  when a client cannot tell the cache is there. After a failed `read(2)` or `close(2)` the
  cache does hold wrong bytes; what matters then is how far they spread.
* **RecordFile.** The end of a file is kept in each object, and found again at open from
  the size of the file and one counter. It is right when a file is an append-only log
  whatever fails and wherever the process ends, as far as PageFile lets it.
* **B+ tree nodes.** Nothing records how full a node is: every scan looks for a -1. It is
  right when no insertion or split loses, doubles or reorders an entry, when searches
  through inner nodes lead where they should, and when `locate()` keeps its contract.
* **SqlEngine.** Locals live longer than the tuple or the line they belong to, results of
  calls are dropped, keys are compared by subtraction. It is right when a `SELECT` prints
  exactly the rows that meet the conditions and a `LOAD` adds exactly the lines of its file
  that `append` accepts.
* **Parser and scanner.** What they do is in their tables. The parser asks for a token
  only when its state needs one; a state that asked too early would hold the answer back
  until the user types another line. Semantic values are raw pointers that several rules
  hand on. After an error nothing is reported until three tokens have been shifted, and
  the token in hand is tried again. The scanner may meet the end of its buffer in the
  middle of a token, has to move, grow and scan again, and cannot tell a NUL in the text
  from the end at first sight. They are right when each line is answered with what the
  grammar means, before the next one is needed; when nothing is freed twice or lost; when
  every token is the longest match wherever reads cut the text up; and when neither ever
  stops going on.
* **The web site.** Ids come from a counter that is read, used and written back by three
  separate queries. It is right when no two movies share rows, when "Data submitted!" is
  true, and when a correct submission is accepted.

The hazards behind these sentences are listed, line by line, in `PROJECT.json`.

## 2. The modules

Each component's module has the source's operations as actions; a module that
stands on another component uses what that component *promises*, a module of its own.

| Module | Stands for | Uses | State, in terms of the code |
|---|---|---|---|
| `PageStore` | the comments of `PageFile.h` | | `page`, `size`: the files; `opened`, `rw`, `stale`, `suspect`, `doomed`: the handles; `call`: the last result |
| `PageFile` | `PageFile.cc` | refines `PageStore` | `fd`, `epid`, `cache`, `cacheClock` as in the code; `kernel`, `writable`: descriptor table |
| `PageCacheLRU` | the cache's replacement | `PageFile` | adds `since`, the pages read after each page |
| `PageFileProofs` | | `PageFile`, `PageCacheLRU` | proofs |
| `RecordLog` | the comments of `RecordFile.h` | | `log[f]`: the records of a file; `doubt`: the objects that met an error of `read(2)` |
| `RecordFile` | `RecordFile.cc` | `PageStore`; refines `RecordLog` | `erid` as in the code; `pending`: where a call stands between two calls of PageFile |
| `RecordFileProofs` | | `RecordFile` | proofs |
| `BTLeafNode` | `BTreeNode.cc:1-266` | `PageStore` | `node[n]`: the buffer, as slots and `next` |
| `BTNonLeafNode` | `BTreeNode.cc:275-477` | `PageStore` | `node[n]`: the buffer, as `first` and slots |
| `BTLeafNodeProofs`, `BTNonLeafNodeProofs` | | the node's module | proofs |
| `SqlGrammar` | the rules of `SqlParser.y` | | no state: which lines are commands, and which calls they mean |
| `SqlParser` | `SqlParser.tab.c`, called by `SqlEngine::run` | `SqlGrammar` | `yyss`, `yyvs`, `yychar`, `yylval`, `yyerrstatus` as in the code; `heap`: what is allocated |
| `SqlParserProofs` | | `SqlParser` | proofs |
| `SqlLexis` | the rules of `SqlParser.l` | | no state: what the longest match of a text is |
| `Scanner` | `lex.sql.c` | `SqlLexis` | `yy_ch_buf` and the pointers into it, `yy_hold_char`, the DFA's states, as in the code; `pc`: where `sqllex` stands |
| `ScannerProofs` | | `Scanner` | proofs |
| `SqlEngine` | `SqlEngine.cc`, part of `SqlParser.y` | `RecordLog` | `stmt`: the running statement's locals, `diff` and `value` included |
| `SqlEngineProofs` | | `SqlEngine` | proofs |
| `MovieSite` | the PHP pages, `create.sql`, `load.sql` | | the tables; `req[r]`: where each request stands, and its variables |
| `MovieSiteProofs` | | `MovieSite` | proofs |
| `MC...` | | | values and symmetry for the runs; `MCSqlParser` also bounds the length of a line |

Conventions. A call that is atomic to everybody else is one action (PageFile, the nodes);
a call whose inner steps can fail one by one, or be cut off by the end of the process, is
several (RecordFile, SqlEngine, MovieSite: one action per query). Histories (`call`,
`answer`, `foreign`, `suspect` and `doomed` of PageFile, `result`, what `stmt` keeps of a
LOAD beside its locals, `failed`, `undisturbed`, the `by` of a row, the parser's
`line`, `wrongAt`, `excused` and `out`, the scanner's `token`) only serve properties. In
most modules there are operators named after a definition with a suffix (`Tick_Wide`,
`Half_Short`): slips a programmer could have made, used to try whether the runs notice.

### PageFile
`Open`, `Close`, `Read`, `Write` have one disjunct per way out of the C++ method, in the
order of its returns. The kernel is modelled from its use: `open` gives the lowest free
descriptor, `close` frees the number even when it fails, `read` past the end of the file
leaves the buffer alone. `SeekPage` is the int product `pid * PAGE_SIZE`: it wraps at
2^32 bytes and lseek refuses the negative half. `Tick` wraps as two's complement does.
`ToEvict` is the loop of lines 155-165. `Destroy` is an object going out of scope:
nothing is closed. `Restart` ends the process; the files stay.

Two failures leave wrong bytes in the cache. A failed `read(2)` leaves the victim slot with
the label of the new page and the bytes of the old one (`ReadFails`). A failed `close(2)`
leaves the slots of a descriptor that is free (`CloseFails`); the next file to get the
number is read from them. `suspect` has the pages concerned, by descriptor; a write of the
page, or a `close` that works, clears it. The object whose `close` failed keeps a number that
may meanwhile be another object's (`doomed`); `Disciplined` says that its owner does nothing
with it but let it go. SqlEngine does so, with one exception, which is left out: a `load`
whose `open` fails to read the last page, and then to close, goes on to append.

### PageStore
What a client of PageFile sees of all this. Any call may fail and a failed call changes no
page. A handle is not told the truth of a page that is `suspect`: one whose last read failed
(`ReadFails`), or any page of a handle opened after a `close` has failed (`spoiled`). The
other modules stand on PageStore and inherit these limits.

### RecordFile
`OpenStart`/`OpenLastPage`, `AppendStart`/`AppendWrite` are the two PageFile calls of one
`open` or `append`; each has its failure, and `Restart` may come in between. A `close` whose
`pf.close` fails has reset `erid` all the same; so has an `open` that gives up, whether its
own `pf.close` works or not. A constructor whose `open` fails leaves `erid` with any value
(`Garbage`: any set of record ids in the proofs, four in the run), because the code does.

What a failed `read(2)` does to PageFile's cache reaches the file through `append`: called
again after `pf.read` failed at `RecordFile.cc:195`, it gets another page's bytes, adds its
record to them, and writes them over the last page. The records before it in the page are
lost. RecordFile does just that here, as PageStore's `Read` of a suspect page may return any
page, and RecordLog says so: an object that met such an error is in `doubt` until it is
closed or has written the page, and what it reads or appends to may be anything (`Before`).
The end of the file, and the counts the pages carry, survive it.

Three limits are put on the callers. `Allowed`: a file being written has one object, which is
how SqlEngine uses it; two processes that append to one table would overwrite each other's
records, since each trusts the `erid` it computed at open. No file is opened when a failed
`close` has left pages in the cache (`~spoiled`): its size and its pages would be read from
them, and nothing can be said. And `append` is not called on an object that failed to close,
nor on one whose uninitialised `erid` has a negative slot number: `writeSlot` would write
outside its array before PageFile refuses the call. (With a positive one PageFile's read
refuses first, with 0 its write.)

### BTLeafNode, BTNonLeafNode
The buffer is abstracted to its slots; the `memmove`s become `WithEntry` and `WithPair`,
which insert and split share as the code's overflow buffer does. `Least` is where a scan
stops. `KeyAt` is the memory behind a slot: behind the last slot of a leaf lie the four
bytes of the next leaf's page id, which `locate()` reads as a key. BTreeIndex being
stubs, the methods are called in any order that `BTreeNode.h` allows, and nodes are
saved as `main.cc`'s test saves them, to pages up to `endPid()`. One thing is asked of the
caller: it does not read again a page whose read failed, before that page is written, as
PageFile would give it another page's bytes (`suspect`).

### SqlEngine
`select` is `SelectStart`, one `SelectTuple` per row, `SelectFails` or `SelectEnd`; `load`
is `LoadStart`, one `LoadLine` per line, `LoadUnreadable` or `LoadEnd`. `diff` starts with
any sign and is kept from tuple to tuple; an attribute that is neither `key` nor `value`
(the parser reports it and goes on, `SqlParser.y:131`) leaves it alone. `Wrapped` is the
int subtraction. A SELECT of an unknown attribute is let through in the same way, prints no
rows and no count, and returns 0. What `load` returns is undetermined (`Loaded`); a line
without a comma gets the value of the last line before it that had one. `LoadAdds` has all of
that: whatever open and append did, the table has grown by just the lines `append` accepted,
in order. Its one exception is an error of `read(2)`, after which RecordLog promises nothing
of the rows that `append` wrote over (`Garbled` bounds what they may be, in the run).

### SqlGrammar, SqlParser
The tables are those of `SqlParser.tab.c`, number for number, and `ShiftOn`, `GotoOn`,
`IsDefault` read them as its macros do. A step is one pass from `yynewstate` to
`yynewstate`: `yylex` (a token is read), `Shift`, one `Reduce...` per shape of rule with
the rule's action in it, `Recover` (`yyerrlab` to the shift of the error token),
`AbortAtEnd`, `Accept`. The heap is a function from addresses to what is there, and the
addresses of freed blocks are given out again; `Owns` says what a value of a symbol's
type points to. `Garbage` is `yylval` for a token that sets none. What an error pops or
discards is lost, since `yydestruct` is empty: memory is taken to have no end, and the
leak is not a finding, as nothing in the repository speaks of it. Lines may have any
number of conditions; `MCSqlParser` bounds them for the run. `SqlGrammar` says in
terms of whole lines what the parser should do, and knows nothing of tables.

### SqlLexis, Scanner
The tables and constants are those of `lex.sql.c`. A step is one turn of a loop (`Match`
for `yy_match`, `Again` for `yy_get_previous_state`, `Grow` for the one that doubles the
buffer), one token (`Deliver`), or one answer
of `yy_get_next_buffer` (`FillMore`, `FillLast`, `FillEnd`); `NulInText` and `TryNul` are the
way of a NUL that is not the buffer's end. `YY_INPUT` reads a line at a time from a
terminal and as much as there is room for from a file. `SqlLexis` is the rule file,
matched by definition instead of by DFA: it is what the tables are compared with.

### MovieSite
A request is a process that sends its queries one by one; every query may fail
(`Failing`: the connection, a value MySQL refuses), a request may die between two
(`Dying`), and requests overlap. Primary keys and foreign keys are
checked as `create.sql` declares them. `undisturbed` remembers that a request ran alone
and that nothing failed on it except, possibly, a key.

## 3. The runs

Fairness is assumed in `parser` and `scanner` only, `WF_vars(Steps)`: the program has one
thread, which goes on as long as it can. In `parser` the next token is not among the
steps, nobody has to type; in `scanner` a failing read is not among them either. No other
run checks liveness: a call of the other classes is one bounded loop, and a page of the
site a fixed list of queries.

| Run | Shows |
|---|---|
| `pagefile` | two PageFile objects on one file, three page ids of which one is out of lseek's reach, one slot, a clock that wraps at once, every system call failing: `CacheCoherent`, `EndPidExact`, `OwnDescriptor`, and every behaviour is one of PageStore (`ImplementsStore`) |
| `pagecache_lru` | every system call may fail, two objects share a descriptor number, two slots, three pages: while the clock has not wrapped, replacement is LRU (`RecentlyReadIsCached`) and no page is cached twice (`UniqueSlots`) |
| `recordfile` | two objects, one file of two pages of two slots, failures of every call of PageFile, pages misread, any `erid` after a constructor that failed, crashes: RecordFile is RecordLog (`ImplementsLog`); `WellFormed` and `EridIsEnd` say why |
| `leaf` | every content two leaves of three slots can reach, saved, read back, with crashes: `InsertAdds`, `SplitHalves`, `NodesInOrder` in memory and on disk, `LocateSkipsNothing`, `LocateFindsOthers` |
| `nonleaf` | every content two inner nodes of three pairs can reach, saved, read back, with crashes: `InsertRoutes`, `SplitRoutes`, `NodesInOrder` in memory and on disk |
| `sql` | loads and queries in any order, failures, misreads, crashes, keys whose differences fit an int and keys whose do not, lines with and without a comma, unknown attributes: `SelectAnswers`, `LoadAdds` |
| `parser` | any tokens in any order, for ever: `LineIsAnswered`, `WrongLinesAreReported`, `HeapIsOwned`, `StackIsShallow`, and the parser always comes to ask for the next token (`Responds`) |
| `scanner` | every keyword, whole and cut off, and every combination of three short words, NULs included, read in pieces of at most three characters into buffers of one, two and five: `TokensAreLongest`, `NothingIsLost`, `ReadsOnlyIfNeeded`, `EverythingIsScanned` |
| `site` | three requests to any of the six pages, query by query, failures and dying requests: `GenresAreTheMovies`, `SubmittedIsThere`, `MovieCounterGrows`, `CountIsCovered` |

Runs that find a disagreement between the code and what the repository says of it:

| Run | Shows |
|---|---|
| `pagefile_read` | after a `read(2)` that failed, the next read of the page returns 0 and another page's bytes (`ReadDelivers`) |
| `leaf_locate` | `locate()` does not find the first key of a leaf |
| `site_people` | an actor and a director added at once set the counter back; later people are rejected although nothing failed |

`pagefile_read` is `PageFile.cc:166-173`: the slot to be evicted is labelled with the new page
before `read(2)` has filled it, and keeps the label when `read(2)` fails; `PageFile.h:45` says
that `read` reads the disk page. `ReadReturnsPage`, which is proved, is what remains true.

One more disagreement is known without a run of its own.

`SqlEngine.cc:70` subtracts a condition's key from a row's in an int: when the difference
overflows, its sign is the opposite, and `>`, `<`, `>=` and `<=` answer the wrong way
round. The model has it (`Wrapped`), and `sql` has a row with key 3 and conditions on -2,
whose difference no int of that run holds: `SelectAnswers` asks for the right rows only
where the differences of keys fit (`Sensible`), and without that clause TLC finds it
violated.

`WrongLinesAreReported` has an exception that users can meet: after a wrong line, a
second one whose error is at its first or second token gets a prompt and no message,
because bison has not seen three good tokens yet. That is how bison means it, so it is no
finding. `LineIsAnswered` holds for the lines after an error as well: an error eats the
rest of its line and no more.

`locate()` being wrong as it is, `LocateSkipsNothing` is what a range scan can still rely
on: the eid it sets is never too far to the right. For a missing key it is one too far to
the *left* of what `BTreeNode.h:46-47` promises. And -1 is found behind the last entry of a leaf
with room, and the next leaf's page id behind the last entry of a full one, although no entry
has these keys; `LocateFindsOthers` has the exact exceptions. In `leaf` both happen: after an
entry with key -2, a search for -1 moves on and meets a free slot, and a search for 0 in a leaf
filled with -2 and -1 meets the link to page 0.

`AddsSucceed` asks only for requests that run alone and on which nothing fails, and still
does not hold. A race is not the only way: when a genre or the UPDATE of `MaxMovieID`
fails, or the request dies, after the movie was inserted (`addMovieInfo.php:86-107`), the
counter stays behind the movie and every later movie is rejected as a duplicate.

**Bounds, and why they suffice.** *PageFile*: two descriptors allow one to be leaked
while another is reused; `pagefile` has one slot, so that every miss evicts, and
`pagecache_lru` two, a victim and a survivor (the loops treat slots alike);
where `SeekLimit` matters, `MaxPid` is one page more than lseek reaches; a clock of four
values wraps within a few reads. `pagecache_lru` has one descriptor, which two objects share
once a `close` has failed, and stops at the clock value 9 (`MaxTick`), some eight reads of
three pages through two slots. Behaviour across more pages, slots and objects is covered by
the proofs, and so it is for *RecordFile* and the *nodes*. *RecordFile*: two slots and two
pages have a first, a last, a full and a fresh page; `short` and `long` are records that the
cut at 100 characters makes equal; the four `MCGarbage` ids lie before, inside and behind the
file. *Nodes*: three slots is the smallest odd capacity (85 and 125 are odd) with a front, a
middle and an end; two nodes allow a split and what follows it; one page is enough for a node
to be saved, lost and found. The keys of `leaf` are -2, -1 and 0: -1 is what empty slots read
as, 0 is also the page id of a next leaf, and -2 is smaller than both, so that a search can
move past it. One record id is enough, as no method compares record ids; equal entries are
told apart by how many there are. The three pairs of `nonleaf` have two keys, -1 and 1, the
latter with two children, so that full nodes hold equal keys with different children.
*SqlParser*: five addresses are what the longest line owns at
once. Two conditions are what the list rule distinguishes, the first and a further one; a
third would repeat the second's states, as the list is reduced after each. `MayGoOn` of
`MCSqlParser` lets a line go on past a condition only if that has an `=`: the comparators
are told apart by one entry each. Lines of any length, with any comparators, are covered
by the proofs. The names `key` and `value` are the attributes, `t` is neither.
*Scanner*: reads of three characters and buffers of one, two and five cut every keyword
at every place and double the buffer several times; what the DFA does depends on no more
than its state and the character. *SqlEngine*: ints from -4 to 3 overflow at
differences of 4; four rows (`MaxRows`) hold two loads; each row that an append leaves
after a misread is one of two (`MCGarbled`). *MovieSite*: of two requests that race, the third sees
the result; an actor and director pair that sets the counter back needs a fourth. `MaxId`
leaves every request an id. The ids `load.sql` inserts start at 2, so that the id 1 which
a failed `SELECT` yields is free, as the ids of the data files need not start at 1.

Deadlock is not checked: a parser that has returned, a scanner at the end of its input,
an idle engine, or a site whose requests have all been
answered, rightly stops at a bound (`MaxRows`, `MaxTick`, the set of requests).

## 4. What is proved

`PageFileProofs`, for all constants that satisfy `PageFileAssumption`:

* `TypeCorrect`: `TypeOK`, whatever fails.
* `NoPageCachedTwice`: `UniqueSlots`, whatever fails, also when the clock wraps. The
  argument: a slot gets a new label only when no slot has it (`ReadFails`, `ReadMiss` come
  after the search), everything else only empties slots. `write()` may therefore stop at
  the first slot it finds.
* Under `OffsetsFit` (no page id is so large that its offset wraps) and for `DisciplinedSpec`
  (an object whose `close` failed is only let go), whatever system calls fail, from the
  inductive invariant `CacheInv`: `CacheIsCoherent` (`CacheCoherent`, `CachedOpen`),
  `EndPidIsExact` (`EndPidExact`), `DescriptorsAreOwned` (`OwnDescriptor`), `ReadIsHonest`
  (`ReadReturnsPage`), and `PageFileIsPageStore`: PageFile implements PageStore, for any
  number of objects, files, slots and pages.
* `RecentStaysCached` (`RecentlyReadIsCached`), whatever fails, under `NoWrap`: reading
  stops before `cacheClock`, an int, reaches its largest value. (Behind that the clock
  starts again at its lower end, and the page just read is the next to be evicted.)

`CacheInv` is the conjunction of the invariants and of `FreeIsClean`, that the kernel forgets a
descriptor when it is closed: none is inductive alone. `CacheCoherent`
across a close needs that no other object has the descriptor (`OwnDescriptor`), across an
open that no slot waits for the number (`CachedOpen`), across a write that one emptied
slot is all there was (`UniqueSlots`); a read that misses fills a slot with the page only
because the page exists on disk, which is `EndPidExact`. A slot is trusted (`Trusted`) unless
its page is `suspect`, and the proof shows that a failing `read(2)` or `close(2)` need make no
other page suspect. Both assumptions are needed. Page 2^22 has the offset of page 0: it would
be written over it, cached under another name, and counted by `endPid()`. And an object that
goes on after its `close` failed may close, or write through, a descriptor that has become
another's.

The invariant of `RecentStaysCached`, `LRUInv`, adds to the property and to `UniqueSlots`

* `ClockOrders`: the clock tells the slots in use apart, and is ahead of them all;
* `LaterWasRead`: what was accessed after a page's slot was read after the page.

When a slot is evicted, every other one is in use and was accessed later, so that as many
pages as there are slots have been read since; the history holds them all, each once.

`RecordFileProofs`, for any number of objects, files and pages, any page of two slots or more
and any garbage in an `erid`, whatever call of PageFile fails and inside whichever call the
process ends: `TypeCorrect`; `FilesAreWellFormed` (`WellFormed`); `EridIsTheEnd`
(`EridIsEnd`); `RecordFileIsLog` (`ImplementsLog`): RecordFile implements RecordLog. What they
assume of the callers is in `RecordFile` (section 2); what an error of `read(2)` may cost is in
`RecordLog`. The invariant, `RecInv`, adds to `TypeOK` and `WellFormed`

* `OneWriter` and `stale = {}`: who may write has the file to itself, so no cached page is
  out of date and nobody else moves the end of the file;
* `EridsAtEnd`: an open object's `erid` is the end of its file, unless its `open` is still
  between its two calls of PageFile;
* `PendingHolds`: what the first call of an `open` or `append` found out is still so at the
  second, unless the page is suspect. Without it nothing is known of the page that
  `AppendWrite` writes. Of a suspect page nothing is known, but `AppendWrite` sets its count
  from `erid` and not from the page, which is why `WellFormed` survives;
* `SuspectIsOpen`: only an open object has met an error of `read(2)`.

`WellFormed` alone is not inductive: it is `erid` that decides which slot a record goes to.
For the refinement a record id is a position, `pid * RECORDS_PER_PAGE + sid`;
`PositionOrder`, `DivMod` and `DivModIs` say that positions are ordered as record ids are
and lead back to them, and `AppendLogs` that writing the page leaves every earlier
position alone, if it was not suspect.

`BTLeafNodeProofs`, for any keys, record ids, nodes and pages and any odd capacity, and
`BTNonLeafNodeProofs`, for any pairs, nodes and pages and any capacity, from the inductive
invariant `NodeInv == TypeOK /\ NodesInOrder`:

* `OrderIsKept`: `NodesInOrder`. The buffer records no length: each scan stops at the first
  slot it takes for empty, or at the first key that is not smaller, and that is the right
  place only in a node that is in order and has nothing behind its end. The pages are
  part of the invariant because `read` brings them back into nodes.
* Leaves: `InsertAddsOne` (`InsertAdds`), `SplitLosesNothing` (`SplitHalves`),
  `LocateIsNeverTooFar` (`LocateSkipsNothing`), `LocateIsRightForOthers`
  (`LocateFindsOthers`).
* Inner nodes: `InsertedPairRoutes` (`InsertRoutes`), `SplitKeepsRoutes` (`SplitRoutes`).

The argument is about places, never about counts of entries: a scan ends at the least
place with a property (`LeastElementExists`, from the well-foundedness of `<` on the
naturals, as induction is out of the prover's reach); `WithEntry` and `WithPair` keep what is before that
place and move what is behind it; a split cuts the longer array so made in two.

`SqlEngineProofs`, for any tables, load files, queries and size of an int, whichever calls
fail and wherever the process ends, from `EngineInv`: `TypeCorrect`, `SelectIsExact`
(`SelectAnswers`), `LoadIsExact` (`LoadAdds`). `Selecting` and `Loading` say what the
running statement has done so far: a `SELECT` has counted and printed what matches among
the rows it has read, and the table still has the length it had at first; a `LOAD` has
added, behind the rows that were there, those of the lines it has read that `append`
accepted, and `value` is that of the last line with a comma, unless a page was misread.
`DiffExact` is the lemma about the local
that outlives its tuple: whatever `diff` was before, a condition on a known attribute finds
its own difference in it. A condition on an unknown one does not, which is why `Sensible`
leaves it out.

`MovieSiteProofs`, for any number of requests, movies, people and genres, whatever queries
fail and whichever requests die, from `SiteInv`: `TypeCorrect`, `GenresStayApart`
(`GenresAreTheMovies`), `SubmittedIsTrue` (`SubmittedIsThere`, of all three pages that print
"Data submitted!"), `CountIsNeverMore`
(`CountIsCovered`) and, as an action property, `CounterOnlyGrows` (`MovieCounterGrows`).
`SiteInv` adds

* `RowsThere`: what a request that has come so far has put into the tables, and that rows
  stay (`Kept` is what each request may rely on while another takes a step);
* `CounterOK`: as long as no misread number was written back, each number that the counter
  has reached belongs to a movie that is submitted, and no request has read a number that
  the counter has yet to reach. A request about to write its number back owns the movie and
  has not submitted it, so the counter has not passed it: that, and no lock, keeps a slow
  request from setting the counter back. The counter of the people has no such invariant, as
  `site_people` shows.

`ScannerProofs`, for any text, any way the reads cut it up and any size of the buffer,
from `ScanInv`: `TypeCorrect`, of which the point is that no pointer leaves the buffer;
`NoCharacterIsLost` (`NothingIsLost`); and `TokensFollow`, which states `TokensTile`: each
token begins where the one before ended and, but for the end of the input, is not empty.
`ScanInv` adds

* `Continues`: the buffer, without the NUL that ends the current token, is the text behind
  the last token, and two NULs are behind it;
* `Matching`, `Finding`, `GoingOver`: where each loop may stand. The first of the two NULs
  leads to `EobState` and the second out of it, so `yy_match` stops on its own, and what it
  backs up to is at most one character behind the text. `GoingOver` is why scanning the
  text again after a refill ends in a state from which the match can go on: no character of
  the text leads to `EobState`, a NUL in it being given another class.

What the tables contribute is stated row by row (`AcceptRows`, `BaseRows`, `DefaultRows`,
`MetaRows`). `NextState` follows default rows until one has an entry for the class; it is a
recursive function, and no induction is needed because it is at most three rows deep
(`ThreeRows`). From the rows come the few facts about the automaton that the argument uses
(`EntryIs`, `Transitions`): only a NUL leads to `EobState`, and after
one character of a token the automaton is in a state that accepts.

That is enough for where the pointers are, and not for which token it is. `TokensStayLongest`
(`TokensAreLongest`) and `ReadsAreNeeded` (`ReadsOnlyIfNeeded`) need what the whole
automaton recognizes, again for any text, any reads and any size of the buffer. The argument
goes from the tables to the rules in four steps:

* `Means(s, u, n)` is what the first n characters of a text u are when state s has been
  reached: the beginning of these words, a number, a quoted string without its end, and so
  on. It takes one line per state, or per group of states.
* The tables, once more row by row: one lemma for each of the 22 spellings of the keywords
  (`Row_SELECT`, ...: the states of the word lead from one to the next and nowhere else),
  `OtherNexts` and `OtherRows` for the states that no word leads through, `CharClasses` for
  the classes. From them, `StateStep`: a state and a character lead to a state that means
  one character more, and to the jam state only if no rule can match so much
  (`~Alive`). `StateAccepts`: a state accepts the first rule that matches what it means,
  and none if none does.
* The rules speak of texts, the automaton of prefixes of one. `RuleIn` and `GrowsIn` say of
  the first n characters of u what `Matches` and `CanGrow` say of the text they make up
  (`MatchesRead`, `GrowsRead`). No induction over the text is needed, because each rule can
  be stated of all characters at once.
* `LexInv` puts both into the scanner's loops. While it goes on, the state means what has
  been read of the rest of the text, and the last state that accepted is the longest match
  so far (`Standing`); when it stops, nothing longer matches (`AtFind`), or it has come to
  the end of the buffer and what it has may grow (`AtAgain`, `AtMatch`). It is inductive
  relative to `ScanInv`, which says where the text is in the buffer (`AutomatonInvariant`).
  A NUL is the difficult case: at the first look it counts as the end of the buffer, whether
  it is a character of the text or not, so that the match may be backed up to a place
  one character behind it (`Looked`) and has to be scanned again.

`SqlParserProofs`, for any tokens, lines of any length, with any number of conditions and
errors. `StackStaysShallow` (`StackIsShallow`) needs no assumption. The others assume
`~IsFiniteSet(Blocks)`, memory without end: in the model `malloc` and `new` never fail,
and since what an error throws away is never given back, no finite memory would last for
ever. They are `TypesStay` (`TypeOK`), `HeapStaysOwned` (`HeapIsOwned`),
`LinesAreAnswered` (`LineIsAnswered`) and `WrongLinesStayReported`
(`WrongLinesAreReported`). The invariant has four parts:

* `StackInv`: the stack is a path through the tables (`Below`), whose i-th state is one of
  `Level(i)`, and there is a lookahead only in states that ask for one (`Asking`). The path
  says which rule a state can reduce by and how much the rule pops. Levels end at the
  twelfth, because the list of conditions is left-recursive.
* `TypeInv` and `HeapIsOwned`: the heap and the values on the stack have their types, and
  each address has one owner. Neither is inductive alone: an action frees or links
  what its right-hand side points to, and the type of that follows from the stack's symbols.
  `Reduced` is the lemma about every such step (`Swapped`): an owner, or several, are
  replaced by one that owns what they did less what is freed, plus what is new.
* `LineInv`: where the parser is with the line. It is between lines (`Idle`, `Done`), in
  one that is right so far (`Spotless`), has the first wrong token in hand (`Spotted`), or
  is skipping the rest (`InError`).
* Within `Spotless`, `StackStands`: each symbol on the stack stands for the tokens from its
  `Place` on. A name on the stack points to the text of the token there, and the vector
  under `conditions` has one entry per condition, with attribute, comparator and value
  of that condition's tokens. Together they cover all that was typed but the lookahead.

`LineIsAnswered` is not inductive, because a call's arguments come from the stack and the
heap and not from the line: `StackStands` ties the two together, and `HeapIsOwned` is what
keeps it true, since no step can write to, or give away again, what a symbol further
down points to. A wrong line is reported because `yyerrstatus` can keep it quiet only within
three tokens of an earlier error, which `UnderWayInv` counts (`yyerrstatus + Taken`).
As for the scanner, what the tables say is stated row by row, and the rest rests on
the rows only.

Only model-checked: liveness (`Responds`, `EverythingIsScanned`), being out of the prover's
reach. No module uses a RECURSIVE operator.

## 5. What is not modelled

* `readCount` and `writeCount`: only printed. Short reads and writes, signals, and what an
  operating system crash does to pages that were not synced: the code takes no notice of
  them and nothing in the repository speaks of them.
* Descriptor 0 is taken to be open always; it is the standard input `main.cc` reads from.
* Even `max_key`: the code's 85 and 125 are odd.
* What a client gets that goes on using an object whose `close` failed, or opens files after
  such a `close`, or reads an index page again after an error on it.
* Holes in an index file: a client that follows `main.cc` writes at most to `endPid()`.
* `BTreeIndex`: stubs, which nothing calls. So there is no order in which the leaves of a
  split are written, and nothing to say about a crash in between.
* Of the generated code: tracing and the verbose error texts, which are compiled out; the
  growth of the parser's stack, which `StackIsShallow` shows is never reached; memory that
  runs out; and the entry points of flex that nothing calls (`yyunput`, `input`, the stack
  of buffers, the scanning of strings). The texts of tokens are few in `parser` and the
  copies `strdup` makes are taken whole, a NUL in a quoted string included.
* On the site: a query that MySQL executes although it reports a failure; columns other
  than keys; `search.php` and `showActorInfo.php`, which read by independent queries.
* The calculator (planned) and the query page (it has no logic of its own).

## 6. Plan

Written in this order: (1) `PageStore`, `PageFile`, its proofs; (2) `RecordLog`,
`RecordFile`; (3) `BTLeafNode`, `BTNonLeafNode`; (4) `SqlEngine`; (5) `MovieSite`; (6)
`SqlGrammar`, `SqlParser`; (7) `SqlLexis`, `Scanner`; (8) inner nodes on pages.

The proofs came in the order PageFile, leaves, inner nodes, RecordFile, MovieSite,
SqlEngine, the cache's replacement, the scanner, the parser.

Models still open: the calculator as a pure function over strings of token classes,
checked against a reference grammar (what passes the filters is an expression, and no
accepted expression divides by the literal zero); `search.php` and `showActorInfo.php`
beside insertions; the scanner and the parser in one model, so that the text of a token
reaches the call it ends up in.

Liveness and ENABLED stay with TLC, being out of the prover's reach.
