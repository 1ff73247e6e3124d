# A formal model of es

Es is a Unix shell with first-class functions, exceptions and settor variables.
Its interpreter is one C program: an evaluator over a copying garbage collector,
with Unix processes, signals and descriptors underneath.  This directory
contains TLA+ modules translated from that C source, TLC configurations that
check them on small instances, and proofs that TLAPS checks for every value of
the constants.  File and line references are to the repository's root (`fd.c:97`
and so on); `es.1` under `doc/` is the manual page.

## 1. Inventory

### Components

| part | sources | its state | its operations | model |
|---|---|---|---|---|
| Descriptors and redirection | fd.c, prim-io.c | `deftab`/`defcount`, `reserved`, the kernel's table | defer_mvfd, defer_close, undefer, fdmap, releasefd, registerfd, unregisterfd, closefds; $&openfile, $&dup, $&close, $&here | Fds |
| History | history.c | what a parse has read | addhistory, gethistory | Parser |
| Signals | signal.c, util.c (eread, ewrite) | `sigeffect`, `caught`, `sigcount`, `slow`, `interrupted`, `blocked`, `hasforked` | catcher, esignal, setsigeffects, sigchk, blocksignals, unblocksignals | Signals |
| Child processes | proc.c | `proclist` of Proc cells | efork, ewait (dowait, reap), $&apids | Procs |
| Exceptions and dynamic binding | except.c, prim-ctl.c, eval.c, var.c | `tophandler`, `pushlist`, `evaldepth`, `blocked` | pushhandler, pophandler, throw, $&catch, varpush, varpop, eval, forloop | Exceptions |
| Variables and environment | var.c | `vars`, `env`, `isdirty`, `rebound`, `noexport` | vardef, varpush, varpop, mkenv, VarScan, setnoexport | Environ |
| Garbage collector | gc.c, es.h | `new`, `old`, `minspace`, `rootlist`, `gcblocked` | gcalloc, gc (scanroots, scanspace, forward), gcenable, gcdisable, gcreserve, Ref, RefEnd | Collector |
| Dictionaries | dict.c | a hash table per Dict | dictget, dictput (put, rm), dictforall | Dict |
| Input sources | input.c | the chain of Input structures, their buffers and pushed-back characters, `error`, `history` | get, unget, fill routines, parse, runfd, runstring, runinput, parseinput | Input, Parser; descriptors in Fds |
| Here documents | heredoc.c | `hereq` | queueheredoc, readheredocs, snarfheredoc, getherevar | HereDoc |
| Lexer, grammar, trees | token.c, parse.y, syntax.c, tree.c | `w`, `newline`, `goterror`, the token buffer | yylex, the grammar, the tree constructors | Lexer, Grammar, Syntax |
| Patterns and file names | match.c, glob.c | none | match, listmatch, extractmatches; haswild, glob, expandhome | Patterns, Glob |
| Splitting | split.c | `buffer`, `value`, `coalesce`, `splitchars`, the cached separators | startsplit, splitstring, endsplit, fsplit | Split |
| Lists and arithmetic | list.c, glom.c | none | append, concat, subscript, arithmefy, glom | Subscripts, Arith, Glob (concat) |
| Conversion and printing | conv.c, closure.c, print.c | buffers of one call | the conversions T, S, L, C; extractbindings; fmt | Printer |
| Primitives | prim.c, prim-etc.c, prim-sys.c | none of their own | system calls, version, time | not modelled |
| Pipes and backquotes | prim-io.c | descriptors and children of one call | $&pipe, $&here, $&backquote, $&readfrom, $&writeto | Pipes |
| Startup, status, terminal, access, dump, buffers | main.c, opt.c, status.c, term.c, open.c, access.c, dump.c, str.c, vec.c | little or none | - | not modelled |

### How they interact

- The **evaluator** runs everything.  It pushes handlers and dynamic bindings,
  and a `throw` from anywhere below longjmps through it.  `throw` itself calls
  `varpop`, which may run a settor, that is, any es code.
- Redirection **defers**: in a parent shell `$&openfile` opens a file and pushes
  (realfd, userfd) to `deftab`; only `closefds()`, in a forked child, touches
  user descriptors.  Descriptors that es keeps (inputs) register the address of
  their variable so that `releasefd()` can move them.
- **Signals** come in at any instruction.  `catcher()` notes them; `sigchk()`,
  called by `walk` between commands and after interrupted system calls, throws
  an exception.  `eread` and `dowait` share `slow` and `slowlabel` with it.
- `efork` joins the last three: it clears the child's list of children, closes
  descriptors and removes the parent's handlers, in that order.
- **mkenv** is called before every exec; `vardef`, `varpush`, `varpop`, settors
  and the collector's `VarScan` invalidate what it keeps.
- The **parser** is called from loops that read commands and from commands.  It
  gets characters from the innermost input, whose fill routine reads, and so may
  throw; it runs with the collector disabled, and what it has read is kept for the
  history until `parse()` ends.
- **Trees** are made of what is read, printed to show and to export functions, and
  read again by other shells: the printer must be an inverse of the lexer and the
  grammar in every context a word may stand in.
- **$&pipe** and its like fork a child for each command but the last, which runs
  in the shell under a deferred redirection, and wait for them afterwards.
- The **collector** runs whenever something is allocated and collections are not
  disabled; C code keeps its pointers valid by registering them with `Ref`.

### What is hard here

Signal handlers that interrupt handlers; a longjmp out of them; a signal between
a system call and the use of its result; exceptions that unwind code that runs
more code; a cached environment invalidated at a distance; descriptors that move
under those who hold them; a heap that grows while it is being scanned; tombstones
in a table that grows; characters pushed back over the end of a buffer; a parser
left in the middle; ends of pipes that someone holds on to; what a quote means
where.  The list with lines is in `PROJECT.json` under `hazards`.

### What makes each part correct

- Descriptors: each one has one owner, redirections nest, a child sees exactly
  the redirections in scope, no child runs its parent's handlers.
- Signals: what is counted is there to be found, is delivered in the end, and
  nobody stays blocked after being interrupted.
- Children: the list is sound, a child is reported once, after its end, with its
  own status, and a wait for one that has ended returns.
- Exceptions: handlers, bindings, depth and blocked count are as the innermost
  activation left them; the innermost catch gets the exception.
- Environment: a command gets the present variables.
- Collector: nothing the program can see changes, nothing is copied twice, no
  pointer is left to freed memory, nothing moves while collections are disabled.
- Dictionaries: searches end, and find what was put and not removed.
- Inputs: the lexer gets each character once and in order; inputs nest as the frames
  that run them, and each is closed once; no parse finds what another left.
- Pipelines: each command has the ends it is to have and no others, and all of it ends.
- Reading and printing: operators group as declared, here documents are the lines
  before their marker, and what is printed is read as what it was.
- Patterns, file names, splitting, subscripts, arithmetic: what the manual says, wherever special characters,
  quotes, the ends of reads and of ranges fall.

## 2. Modules

A component's module holds its state and actions under the source's names; a
`...View` module holds its properties; an `MC...` module bounds it for TLC; a
`...Proofs` module holds its theorems.  Operators that are commented `Mutant:`
are wrong variants of the definition after them: each property is known to fail
for one of them, so that it says something about the code.

**Fds, FdsView, Redirect, FdsProofs** (fd.c).  `table` is the kernel's table of one
process, `deftab` the deferred list, `fdvar` the registered variables, `frames`
the handlers that `run_redir` and catches have pushed (the ticket, or
`CatchFrame`).  A fork continues in the child: `closefds()` is the loop
Release, Apply, ... CloseOnFork, with a failing dup2 an outcome of each.  What runs with
`eval_inchild`, the last command of a child or the command of `$&exec` in any shell, has
`dodeferred` act at once (OpenNow, DupNow, CloseNow, ImmediateRelease, ImmediateApply);
the redirections deferred around it stay deferred, and a failure is thrown through their
handlers (Throw).  `View` is the table a child would get; it maps the module to **Redirect**,
which knows only lexically scoped redirections, those done for good, and forks.
`failed` is a history variable: once a redirection at once has failed, Redirect
promises nothing of what is seen.

**Signals, SignalsProofs** (signal.c, util.c, proc.c).  `catchers` is the stack of
activations of `catcher()`, each of which notes, loads, stores and finishes in
steps of its own; `Arrive` pushes one between any two steps unless the same
signal is being handled.  The shell's side has a step for each access of a volatile
variable in `sigchk`, and for the protocol `interrupted = FALSE; if
(!setjmp) { slow = TRUE; if (!interrupted) read(...) } slow = FALSE`.

**Procs, ProcsView, Children, ChildrenProofs** (proc.c).  The doubly linked list is a heap of
cells with `next` and `prev`; the kernel has running children and zombies.
`ewait` is split at `wait3`, so that a signal may hit before or after a child
has been taken.  **Children** is the promise: start, end, report once.

**Exceptions, ExceptionsView, ExceptionsProofs** (except.c, prim-ctl.c, eval.c, var.c).  `stack` holds C activations:
calls, catches and their catchers, local bindings, settors and the loop in
`throw()` that pops bindings.  There is one variable `x` with a settor that is
absent, returns or throws, and `$0`.

**Environ, EnvironView, ValuesProofs** (var.c).  Variables with their cached string,
`hasbindings` and `isinternal`; closures over one lexical binding that can be assigned to; assignments
through settors in two steps with any command in between.

**Collector, CollectorView, CollectorProofs** (gc.c).  Sizes are in cells: an object has a tag and
pointers; a space is used up to `current`.  Addresses are (space, object) pairs, marked old when their space
becomes old space and `Stale` when it is freed.  Forwarding one pointer is one step;
a pass of `scanspace` goes from the front space to the last one scanned, as in
the code.  The program allocates, registers, loads and stores through
registered variables only, which is the discipline es.h asks for, and does not follow a
pointer into freed memory, what is there then being anything.

**Dict** (dict.c).  The hash function is any function from names to the chosen values.  Growing
the table is a step per entry; `rm` leaves dead entries, which it empties when they lead to an
empty slot only.  `contents` is a history variable.  Its proofs, and those of Subscripts and Arith,
are in ValuesProofs.

**Patterns, PatternsView** (match.c).  A pattern is a sequence of characters with quote
flags, built one character at a time; match, rangematch and extractsinglematch are
recursive operators over indices, as the C functions are over pointers.
PatternsView parses a pattern into items, says which words are described by them, and
compares.  One case is taken from the code: a bracket that is first in a class does
not begin a range.

**Split** (split.c, bqinput).  The statics, one action per call, and a
history of what was fed; `Expected` is defined on the whole of it.

**Subscripts, Arith** (glom.c).  One action is one turn of the loop: of subscripts its
place in the list (`counter`), `rev` and the result, next to what the manual
describes; of arithmetic `accum`, the operation's checks and what it should be.
`ES_INT_MAX` is a parameter, so that every pair of operands is tried.  Floats are whole
numbers, and their bits are what their order as integers says.

**Glob** (glob.c, glom.c).  A word is built part by part with its flags, as `qconcat`
does; `glob` walks a tree of directories that is a constant.  The reference cuts the
word into components and lists the paths of every file, with PatternsView's idea of a match.

**MCWords** runs Patterns, Glob, Split, Subscripts, Arith, Dict and Environ side by side: a
behaviour is one of one of them.

**Stream, Input, InputView, ReadingProofs** (input.c).  `Input` is one source: `buf`, `fill`, the saved
ones and `unget`.  A GETC is a step until its fill routine runs and a step for each
NUL it drops; a read returns any number of characters up to a bound, fails, or is left by an
exception.  With readline an interrupted one is the end of the file (callreadlineNull).
The client is the lexer, which pushes back what it got last.  **Stream** is the
promise: a list of characters, each got once, and got again when it, itself, was pushed back.

**Parser** (input.c, history.c; also in ReadingProofs).  `frames` is the stack of loops, strings being parsed and
catchers; `input` and `prev` the chain; `error`, `history` and `hereq` what a parse
leaves in statics.  `pc` is "yyparse" while a parse is going on, which is then a
choice of what the lexer and the grammar may do to that state: fill, meet the end, fail, queue a
document, take a signal.

**HereDoc** (heredoc.c).  Recursive operators over the text that follows a command line,
compared with the lines before the first one that is the marker.  A dollar sign with no name
is a variable with an empty one, as the code has it, whatever its error message says (`NullNamesRefused`).

**Lexer, Syntax, Grammar** (token.c, syntax.c, parse.y).  The lexer is a function from the
text and the statics (`w`, `newline`, the state of the skipped word) to the token and the
statics after it.  The grammar is read by descent, one operator per nonterminal (nested by `Parse`), with yacc's
precedences by binding strength; like yacc's parser it looks ahead by a token only where it
must, since the lexer depends on what the actions have set.  Trees are tuples that
begin with their kind, as mk() makes them, and Syntax has every constructor.

**Printer, TextView** (conv.c, closure.c).  Tconv, Sconv, Lconv and Cconv by what they print,
and `extractbindings`, which undoes the last.  TextView tries texts and strings: it reads, prints and
reads again (PrintsBack), and compares what is read with what operators should mean
(OperatorsGroup).

**MCReading** runs Input, Parser, HereDoc, texts and strings side by side.

**Pipes** (prim-io.c).  The shell and its children with a descriptor table each; `step` says
where each is.  The shell's steps are pipefork, the last command, the waits; a child
wires its descriptors and then reads and writes as an external command does, blocked
where the kernel would.  Descriptors go beyond those of one pipe, `MaxFd > 4`, and a
wire's are in the table.  **MCChildren** runs it beside Procs; ChildrenProofs is about both.

## 3. Runs

All bounds are the constants of the .cfg files; a guard names each.  Passing runs
explore their state space completely.

| run | shows | bounds |
|---|---|---|
| fds | OwnedOnce, UndeferInOrder, Refines (the refinement of Redirect), of behaviours up to a step after which `Overtaken` holds | six descriptors of which four are nameable (6 is outside the table, so that dup2 fails), two files, one input, two frames |
| signals | TypeOK, SigchkFinds, NeverBlockedInterrupted, JumpIsLive, Delivered | two signals, each caught or default, nested handlers, one blocksignals |
| procs | ListIsSound, ListMatchesKernel | three children, three cells: a head, a middle and a tail to unlink; symmetric in pids, cells and statuses |
| children | Refines (Children), WaitEnds; PipesJoin, PipelinesEnd | two children, two statuses, no symmetry because of liveness; every primitive, pipelines of two to four commands, wires of 1 to 0, 2 to 3 and 3 to 0 (3 is the first descriptor a pipe gets, so that wires collide), pipes of two characters, seven descriptors, sources that stop and sinks that do |
| exceptions | StackDiscipline, CountsKept, HiddenKept, InnermostCatches | two values; up to six activations without a settor, four with one that throws; evaldepth up to 4, so that the limit is met |
| collector | NothingDoubled, NothingDangles, SecondRoundSuffices, CollectionIsInvisible, PinnedWhileBlocked | a first space of three cells (one object) and later ones of four or more, two registered variables, up to three objects of one pointer: cycles, sharing, and growth while the roots are scanned and while the new space is |
| words | MatchesAsDescribed | patterns of up to five characters (a class with a range takes five) over the special ones, a and c, some also quoted, against words of up to two |
| | WordsExpand | words of up to four characters out of slash, dot, tilde, a, and the special ones, some also quoted; four directories with hidden files and names with wildcards; two homes; two contents of the stale buffer |
| | SplitsAsDescribed | two words or reads of up to two characters, separators of which one string is too long for the cache |
| | SubscriptsAsDescribed | three subscripts of lists of up to four, out of 0 (an error), 1 to 5 |
| | ArithmeticAsChecked | integers of three bits (-4 to 3), floats up to 9, expressions of any length |
| | DictionariesAgree | five names, every hash function onto {0, 7, 15} (collisions, and probes that wrap around in every table size), sizes 2 to 16 |
| | TypeOK, EnvCurrent, StringsCurrent | two variables, one with a settor and one bound by local, two values of which one is a closure, three values of noexport |
| reading | StreamRefined (the refinement of Stream), PushbackIsSound | texts of three characters, with NULs, backslashes and newlines, reads of one or two, two characters pushed back |
| | ParserAssertions, ChainIsSound | three frames: an input run from an input, or a string parsed in one, with a catcher |
| | HereDocsRead | texts of five characters, markers a and ab, quoted or not, two documents |
| | PrintsBack, OperatorsGroup | a word and up to four fragments out of 25, arithmetic of a character and up to five fragments out of ten, so that a subtrahend or a divisor may be in parentheses, bindings of five fragments, every way to join up to four commands |
| | ValuesReadBack | strings of up to three out of twelve characters and keywords, as words and in closures of two bindings |

Why these are enough: an error in a linked list needs at most a head, a middle and
an end; in a handler protocol two signals; in redirection two nested entries, of
which one names the other's descriptor; in growth one doubling with dead slots; in a
buffer one refill between two push backs; in a pipeline a command with a pipe on both
sides next to another one; in printing an operator within another, or a
word in each context that the lexer tells apart: the runs have these or more.
Deadlock is not checked where the program may exit or where a bound stops it.

### Runs that find a violation

| run | property | what happens |
|---|---|---|
| environ_local | EnvCurrent | `varpush` and `varpop` set `isdirty` before they call the settor.  If that runs a command, the body of the binding runs with the old environment. |
| fds_exec | Refines | `run_redir` (prim-io.c:20) does a redirection at once if `eval_inchild` is set, which `$&exec` (prim-etc.c:40) does also in a shell whose own redirections are deferred.  In `{exec {> b}; cmd} > a` and in `{exec {cmd > b}} > a` the fork of cmd applies the outer one over it. |
| collector_scan | NothingDangles | `scanspace` (gc.c:362) may have two spaces in a pass; what the second one's scan copies into the front one, already scanned, is never scanned and keeps pointers to the freed space. |
| words_ranges | RangesAsDescribed | `subscript` (glom.c:136) decides whether to go back to the start of the list before it swaps the ends of a reversed range: `$a(1 2 ... 1)` gives two elements, the manual says three. |

The constants of *fds_exec* are those of *fds*: the two differ in `Overtaken` only, which
is a redirection done at once on a descriptor that a deferred one around it names.  Ownership
and UndeferOrder are proved without that restriction.

The run *collector* has two registered variables.  With these a pass that has two
spaces to scan finds the front one full, so that nothing is copied into it after
its turn; with the third variable of *collector_scan* it is not.

### Stated, and not what the code does

These definitions stand in the modules with what they would mean; no run claims them.

- `AlwaysHandled` (ExceptionsView): with a throwing settor, `throw()` has taken the
  outermost handler off the chain before `varpop` throws again (except.c:25-26).
  `StackDiscipline` and `CountsKept` say what holds without one.
- `ListIsSound` with `Recycle = TRUE` (Procs): `mkproc` returns the listed cell of a reused
  pid with its old links (proc.c:31).
- `FdmapFindsDeferred`, `ReservedAreClosable`, `NeverPanics` (FdsView): `fdmap` goes on through older entries
  after a match (fd.c:97); a registered descriptor that lands on 1 or 2 is not
  closed in a child; an input's address can be unregistered twice.
- `NoneLost`, `NoneWaitsForCall` (Signals): between uncounting and
  clearing a signal in `sigchk` (signal.c:286) the same signal is neither noted nor counted; a signal
  noted before `interrupted = FALSE` is delivered after the call only.
- `OwnStatus` (ProcsView): after an interrupted wait a child that was taken and
  lost is reported with the status of another.
- `EnvCurrent` when `noexport` changes while closures are exported: `mkenv` clears
  `rebound` although strings of variables that were not exported were not made
  again.  `Careful` in MCWords excludes it.
- `GrownSpaceFits`, `AllocationEnds` (CollectorView): `gcalloc` (gc.c:506) compares `minspace` with
  the request without its tag.  With Sizes = {1, 4} and a first space of four cells the
  space added for four pointers has no room for the tag, nor has any after it.
- `NeverEscapes` (FdsView): `efork()` (proc.c:66) calls `closefds()` before
  `newchildcatcher()`; a failing dup2 throws to the parent's handlers in the child.
- `ArithmeticIsExact` (Arith; test/tests/arithmetic.es says "correct value"): the check before
  a difference is off by one (glom.c:207), so that ES_INT_MAX + 1 wraps around; that
  before a product divides ES_INT_MIN by -1, which traps (glom.c:220-226); `<` and `>` of
  floats compare their bits, and with `<=` and `>=` (glom.c:334, 344); and an operand with
  a fraction fails if its whole part is no integer, as `errno` is still ERANGE (glom.c:362-376).
  `ArithmeticAsChecked` exempts these four (`chance`).
- `NullNamesRefused` (HereDoc): `getherevar` (heredoc.c:24) compares the capacity of a buffer with 0, so
  that a dollar sign without a name is a variable with an empty one, and no error (heredoc.c:27).
- `IgnoredSignalsEndNothing` (InputView): `callreadline` gives no line when a signal interrupts it, and
  `fdfill` (input.c:292) takes that for the end: an interactive es with readline ends on a signal
  it ignores, as it does sigterm.  `StreamRefined` is about the rest.
- `ArithmeticReadsBack` (TextView): `$#` in an expression is printed as no expression reads.
- `ParserAssertions` without `spoiled` (Parser): a signal without an effect resets the
  parser in the middle of a parse (signal.c:294), so that a syntax error found before has no
  message (`assert(error != NULL)`, input.c:362); a read that fails (input.c:318) leaves
  `error` and `history` to the next parse, whose assertions (input.c:338) fail.
- `GlobsAsDescribed` without `ReadsOn` (Glob): a class that ends with its component after a dash
  reads the quote flag after the end of it (match.c:42), which in glob1's buffers is one of
  an earlier component.
- `PipesJoin`, `PipelinesEnd` without `Collided` (Pipes): in `a |[3=0] b` the child puts its
  write end on 3, which is the read end, and then closes that (prim-io.c:230-232).  `PipelinesEnd` also
  exempts a pipe() or fork() that fails, after which ends stay open and children are not waited
  for (prim-io.c:141-167), and a signal in bqinput, which leaves the pipe and the child (358).
- `PrintsBack` without `NotPrinted` (TextView): a keyword that parentheses made a word;
  `$()`, printed as `$` (conv.c:139); an assignment to a name with braces; subscripts of what is not a
  plain name; a word with an equals sign within a call; all are printed as something else.
  `~Aborts`: `a => >f`, `a => let () b` and `<{a} x = y` follow a null pointer (syntax.c:205, 222, 34).
- `ValuesReadBack` without `InOnePart`, and of the name `fn`: a string that is
  printed in several parts comes back as a closure (closure.c:73-78), or fails an assertion if
  it is a name (closure.c:65); a name that is a keyword is printed unquoted (conv.c:291).
- `ExtractionAssertion` (PatternsView): `~~ a a**` fails `assert(*s != '\0')` (match.c:195),
  as the second star matches the empty word at the end of the subject.

## 4. Fairness

`Delivered` assumes strong fairness of each kind of step of the shell and of its handlers: the
processor gets round to every instruction even if handlers interrupt it, the
evaluator comes back to `SIGCHK` at the next command (`walk`, eval.c), and
catchers end.  Nothing is assumed of a system call that blocks.  `WaitEnds` assumes weak
fairness of the steps of `ewait` only: nothing of children, signals or the kernel.
`PipelinesEnd` assumes weak fairness of the shell and of each child, that is, that the
kernel runs every process that is not blocked, and that the command at the start of a pipeline (or
at its end, if the first one writes for ever) stops some time.  A read that has to
wait for a writer is not enabled, so nothing is assumed of one that waits for ever.

## 5. Proofs

A theorem is `Spec => []P`, or `Spec => [][A]_vars` for what a step may do, from the
assumptions on constants that the component's module names, by an inductive invariant `IInv`:

- **FdsProofs**: TypeCorrect (`TypeOK`, no run's property), Ownership (`OwnedOnce`), UndeferOrder.  `IInv ==
  TypeOK /\ OwnedOnce /\ PcInv /\ FramesInv`.  Ownership alone is not
  inductive: while an entry is applied, its user descriptor must be known to be
  nobody's (`PcInv`, what `releasefd` achieves), and the tickets on the handler stack must
  be 1, 2, ... up to the length of `deftab` (`FramesInv`), or `undefer` could
  pop an entry that is not the handler's.  The long case is `ReleaseFacts`, where
  `releasefd` moves descriptors under their owners.

  RedirectImplemented is the refinement of Redirect.  What a child would see, `View`, is for
  each descriptor what the last deferred entry about it says (`ViewFacts`, `IsLast`); a step is a push, a pop, a fork, a change
  for good or a stutter of the abstract stack.  It assumes that the program itself closes none of 0, 1 and 2
  (`Closable \cap Std = {}`), as in the run *fds*: the shell's own opens would get the number.
  And it is about behaviours with `[]~Overtaken`; *fds_exec* shows that without it the theorem is false.  What
  a redirection at once changes is what every enclosing command sees of that descriptor from then on
  (`PairPushed`), which is so as no entry names it.
- **SignalsProofs**: TypeCorrect, ScanStaysInTable (`SigchkFinds`), InterruptedCalls (`NeverBlockedInterrupted`),
  JumpsAreLive (`JumpIsLive`).  `IInv` adds that `sigcount` is at most the number of signals noted
  and not still being counted (`CountInv`), that nested handlers only add to what
  outer ones have loaded (`LoadedInv`), and what the scan has ahead of it (`ScanInv`): lost
  increments make the count too low, never too high.  Any number of signals,
  any nesting.
- **ChildrenProofs**, of Procs: ListIsAlwaysSound, ListAlwaysMatches, ChildrenImplemented (the refinement of
  Children).  They assume `~ Recycle`, and the item on `ListIsSound` above says
  what happens when a pid is given out again while its cell is listed.  `Linked` says that there is
  a sequence of which `next` and `prev` are the neighbours; unlinking is the removal of an element
  of it.  `Agreed` relates entries to the kernel's children, up to what a signal between
  `wait3` and `mark` has made `ewait` miss, and `CallKnows` says what each place of `ewait` has found.
  The refinement maps every step of `ewait` to a report or to a stutter.

  Of Pipes: PipesAlwaysJoin (`PipesJoin`), for any number of commands.  `PipesJoin` looks at
  commands that have been wired; `PipesInv` says for every step of wiring what a child's table has
  already and still has (`CommandHolds`), which ends the shell holds between two forks
  (`ShellHolds`), since a child gets a copy of them, and that a primitive that is over has
  waited for all (`AllWaited`).
- **ExceptionsProofs**: Discipline (`StackDiscipline`), Counts (`CountsKept`) and InnermostIsReached
  (`InnermostCatches`).  `StackDiscipline` is about the top of the stack, and
  a throw returns to the level below its target, whose values have been hidden for
  long.  So `Stacked` says of every level what `tophandler` and `pushlist` were when it was the top one:
  there are functions t and L of the level, and each activation saved the values of the level it was
  made on (`Saves`) and made the next ones from them (`Makes`).  `Reach` says which handler is on top of a
  level and that its level's pushlist begins the level's.  Every step keeps some first
  levels and puts at most one on them (`Grown`, `Shrunk`).  `Plain` adds what is true where
  unwinding runs no settor: a throw is on top, and `blocked` counts exactly.

  HiddenIsKept (`HiddenKept`) is an action property: pushlist and the variable after a step
  against those before.  It needs one more conjunct of `Saves`: a settor that runs for a pop has
  been given the value that the innermost binding hides (`Binds`), and is on an activation that
  has a binding to undo.
- **CollectorProofs**, for any objects, sizes and programs:
  - ObjectsMoveOnce (`NothingDoubled`) and ObjectsStayPut (`PinnedWhileBlocked`), by `HeapInv`: every
    pointer is null, an object's, or one to old memory (`Sound`); an object of old
    space is marked as moved just when the new space has one of the same name
    (`MovedIsThere`, `ThereIsMoved`); and a round has collections disabled.
  - NothingIsLeftBehind (`NothingDangles`) and CollectionsAreUnseen (`CollectionIsInvisible`).  Their
    formula is `Spec /\ []~LateCopy => ...`: `LateCopy` is a copy into the front space when the pass of
    scanspace has left it for an older one, and *collector_scan* shows that pointers are then left behind.  In the
    run *collector* there is none.  `ExactInv` says that what roots and objects hold is null or an object, and
    that fields behind the scan are new (`ScannedIsNew`).  For the second theorem a
    copy's fields lead to the same objects as the original's (`CopiesAgree`); a step then
    maps what is in reach before it to what is after it, and back (`Covers`).
  - TwoRoundsSuffice (`SecondRoundSuffices`), by `RoundsInv`: a space's `current` is at least
    the cells of its objects (`Counted`), which are counted as a set of (space, object, cell); after the first round
    `minspace` is at least what is alive (`Roundly`); and in the second the one new space has room for what
    is left in the old ones (`HasRoom`), each copy taking as much from both.
- **ValuesProofs**:
  - of Environ: TypeCorrect, EnvironmentIsCurrent (`EnvCurrent`), StringsAreCurrent.  They assume
    `Tame`: no variable that has a settor is bound by local, and noexport does
    not change when there are closures; *environ_local* and the item on `EnvCurrent`
    above show that both are needed.  `Sound`, per variable, relates its string, its
    flags and the vector.
  - of Arith: ArithmeticIsChecked (`ArithmeticAsChecked`), for integers of any width.  The property with
    the type of `accum` (`ArithInv`) is inductive; the work is in the checks before each
    operation, of which a product's divides.
  - of Subscripts: SubscriptsSelect (`SubscriptsAsDescribed`), with where the loop is in the list
    (`SubscriptsInv`), up to the reversed range that *words_ranges* is about.
  - of Dict: DictionariesAlwaysAgree (`DictionariesAgree`), for any hash function.  Between two calls
    (`Usable`) a name is in one slot, no slot before it on its way is empty (`Hashed`), and `remain` counts
    those that may be filled; while it grows (`GrowingFrom`), the new table has
    the entries before `next`, and what is still to come fits.  Emptying dead slots keeps `Hashed`, as
    whatever leads through them would meet the empty slot after them (`LeadsNowhere`).
- **ReadingProofs**, of Input: PushbackAlwaysSound and StreamIsRefined (the refinement of Stream, up to an
  interrupted readline, for which see `IgnoredSignalsEndNothing` above).  `Aside` says
  that a pushback has put the buffer aside, `AtEnd` what is left when a fill routine
  has met the end, and `Echoes` what es -v has printed.  `Kept`, a recursive function, satisfies
  its equation by Induction; the rest is about concatenations.
  Of Parser: ChainIsAlwaysSound and AssertionsHold.  `Tidy` says to which parse the
  message, the history and the disabled collector belong; it is assumed of runs without `spoiled` only, which
  the item on `ParserAssertions` above explains.  `Placed` gives every parse its frame.
- **Induction**: a set of natural numbers that has 0 and with each number the next has them all.
  The library's theorem takes an operator, which cannot be instantiated here; this one takes a
  set, and follows from the library's facts on finite sets.

Where a proof failed, the model or the property was at fault.  `StackDiscipline` said that the whole chain
of handlers could be unwound to from the current pushlist; for deep stacks
with a settor that throws that is false, and it now says it of the first and of each to the next.
`Unwind` and the lexer's `Other` had CASEs whose guards overlap, where TLA+ may
take either; they are IFs, as in the code.  The program of Collector could follow a pointer into freed
memory, and its `Data` could be infinite, with which "a name not in use" proves nothing about `Held`.
`HiddenKept` said less than it meant of a step that pops several bindings.  RedirectImplemented held of a `$&exec` that is a child's last command only, which left
out what *fds_exec* shows.  Bounds of
constants (`Null`, pid 0, the wires of Pipes) were implicit.

Only model-checked: Split, whose expected result is folds over what was fed, so that a
proof is an induction over data; Patterns, Glob, HereDoc, Lexer, Grammar, Syntax and Printer, whose
operators are recursive; `Delivered`, `WaitEnds` and `PipelinesEnd` (liveness
is outside the prover's reach, as is ENABLED).  Every other property of a passing run is
stated by a theorem.

## 6. Not modelled, and why

Startup, status, terminal and access make one pass over arguments or wrap one system call;
`dump.c` runs at build time; the programs in `initial.es` are data to the
interpreter, but for what its loops do with an exception (`Keeps` in Parser).  str.c and vec.c
grow a buffer; list.c has a line or two for each operation.  Readline and the kernel appear by
what the code makes of them: `wait3`, dup2 and read may return, fail or be interrupted.

Left out of modelled parts:

- resource usage in proc.c, the debugging collectors (GCPROTECT, GCALWAYS) and print buffers of
  gc.c, pinned objects outside registered variables, and hash values themselves;
- what -n, -x, -l and -L print, prompts, and the `%F` and `%N` encodings of names;
- numbers of more than one digit, floats and here documents in the grammar (HereDoc has the latter by
  themselves), the lists of errors a syntax error is reported with, and the state that a
  syntax error leaves in the lexer's `numeric`, which inityy() does not reset (token.c:549);
- lists of several patterns or of several subjects in match.c;
- in Pipes, commands that are es code, and the flag eval_inchild; `$&pipe` of a single command,
  which waits for `pids[-1]` (prim-io.c:248-250), is not an initial state: the grammar
  makes pipes of two or more.

Here documents on one line are read last first, unlike those of sh(1) that the manual refers to
(es.1:995); HereDocsRead states the code's order.

## 7. Plan

1. **Composition**: Pipes over Fds' deferred list with es code as commands; HereDoc
   within the grammar.
2. **The evaluator's values**: glom1 and letbind, closures and their bindings.
3. **Proofs**: lemmas about one turn of the loops of Split, from which
   `SplitsAsDescribed` would follow by the induction that the provers lack.
