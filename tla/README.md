# PiNum-Lang in TLA+

PiNum is a small language; the program in this repository (`src/src/*.c`,
`src/include/*.h`) is its compiler. It reads a `.pn` file, writes C, and has a
C compiler turn that into a binary; it also updates and repairs its own
installation. This directory models the whole way of a program (lexer, parser,
semantic analyser with its scope stack and the hash map underneath, C generator,
the vectors of the compiled program) and what runs of the compiler do to the
machine (driver, updater, installer). The models are checked with TLC on small
instances; all of the invariants they check, and all refinements and action properties, are proved
with TLAPS for every value of the constants. Termination is left to TLC.

Paths below are paths of the repository as `PROJECT.json` names them:
`src/src/sema.c` is `src/sema.c` of the checkout.

## 1. Inventory of the system

One process, run once per compilation (`src/src/main.c`): parse the command
line, lex the whole file into a token list, parse it into a tree, analyse the
tree, generate C, run the C compiler as a child process. A component reports an
error by printing it and ending the process (`pinum_error_at`), so the first
error is the only one.

| Component | State it keeps | Operations | Hard behaviour |
|---|---|---|---|
| Lexer (`lexer.c`, `lexer_filter.c`, `helper.c` 55-78, loop of `main.c`) | globals: two quote modes, line and column with one step of undo; the token list | `lexer_tokenizer`, words, numbers, `token_ignore_comment`, `token_list_add` | modes shared between tokenizer and comment filter; reading ahead at line ends and at the end of the file |
| Parser (`parser.c`, `helper.c` 80-113) | cursor into the token list, counter of range loops | one function per grammar rule | cursor left behind or moved too far on an optional part; loops at the end of the file; an operand parsed at the wrong level |
| Syntax tree (`ast.c`) | the tree | constructors, printer | growing child arrays; later phases index into nodes by kind without looking |
| Scope stack (`sema.c` 36-77) | array of hash maps, its length and capacity | push, pop, declare, resolve | growth by doubling; shadowing; scopes left open on a path |
| Analyser (`sema.c` 79-365, `methods.c`) | function table, resolved types | one case per node kind | order of definition and use; parts of the tree not walked |
| Hash map (`_hashmap.c`) | array of chains, size, load factor; the caller's iterators | insert, put, get, contains, erase, clear, rehash, reserve, iterate, erase while iterating | rehash moves every node; iterators across changes; power-of-two capacities; failing allocations in the middle |
| C generator (`codegen_c.c`) | output file | one case per node kind | who writes the semicolon; formats and values chosen in two places; groups of printed values; a missing runtime header noticed after the output was truncated |
| Runtime (`runtime/pinum_rtvec.h`, `pinum_rtstrchr.h`) | vectors: data, length, capacity | init, append, bounds check, print | vectors copied by value share storage; index evaluated twice |
| Driver (`main.c`, `cli.c`) | options, temporary files, child processes | output modes, find compiler, compile | a step failing after files were made; failures nobody looks at; several runs in one directory, and names that differ coming to one path |
| Update and install (`cli.c` 178-339, `install.sh`) | temporary directory, source checkout, build, installed compiler | check, download, verify, fetch, build, install, repair | a kill between two steps; two installers at once; a check and the use of what was checked |
| Error reporter (`error.c`), mode flag (`helper.c`), QBE back end (empty) | file name, flag, none | - | - |

How they interact: by calls and by shared state. Lexer and comment filter share
the quote-mode globals; main's loop owns the token list; the analyser owns its
scope stack, whose frames are hash maps, and a second hash map from function
names to signatures. There are no threads and no callbacks except the hash
map's key and value functions. Child processes are the C compiler, and the
commands and the installer of an update; processes meet in the working directory,
in `~/.pinum-lang` (whose runtime headers the generated C includes) and on PATH.

What makes each part correct:

- lexer: every token is where the text has it; no character is lost or split;
  the quote modes agree with the quotes listed; a comment is one line; the end
  of the file is always reached;
- scope stack: lookups obey lexical scoping, the array is never overrun;
- analyser: accepted programs have none of its errors, rejected ones have the
  error reported; each opened scope is closed;
- hash map: a dictionary at every step; iterations yield every element once;
  reservations hold;
- runtime vectors: a vector that is not copied is the sequence the program put in it,
  and no access leaves it;
- parser: it ends on every token list; nothing of an accepted program is lost or
  kept twice; operators are grouped as in C; trees have the shape the later phases
  take for granted;
- generator: statements are ended once, prints write each value once, with
  the format of its type;
- driver: the exit status tells what is on disk;
- updater: what is run was verified, nothing temporary is left, the
  compiler and its runtime belong together, and who is told to be up to date is.

The hazards that are hard to test are listed with their lines in `PROJECT.json`
under `hazards`, each with the properties that cover it.

## 2. Modules

```
LexicalScope   <-- refined by --  ScopeTable  <-- extended by --  Sema  <-- MCSema
                                                                    |
                                                               Sema_proofs
Dict           <-- refined by --  HashMap  <-- MCHashMap
                                  HashMap  <-- HashMap_proofs
Lexer  <-- MCLexer        Lexer  <-- Lexer_proofs
Vec  <-- MCVec        Vec  <-- Vec_proofs
SyntaxTree  <-- Parser  <-- Parser_proofs  <-- Grouping_proofs
SyntaxTree  <-- CodegenC
Parser, CodegenC  <-- Compiler  <-- MCCompiler
Compiler, Grouping_proofs  <-- Compiler_proofs
CommandLine, Installation  <-- Driver, Updater  <-- Toolchain  <-- MCToolchain
                                                        |
                                                Toolchain_proofs
```

An arrow is EXTENDS unless it says otherwise. Modules named `*_proofs` hold
theorems and what they need only, `MC*` the values of the constants. Sema_proofs is about ScopeTable
first, then about Sema; Parser_proofs about SyntaxTree first, then about Parser.

**LexicalScope** is the promise of the symbol table, stated on the program text:
declarations are facts that are never retracted; the scopes enclosing the
current point decide which one a name means.

**ScopeTable** is the implementation: `frames` and `capacity` are the fields of
`SemAnalyzer`; `PushScope`, `PopScope`, `Declare`/`Redeclare` and `Resolve` are
`sem_push_scope`, `sem_pop_scope`, the two outcomes of `sem_declare`, and
`sem_resolve`. `path`, `fresh`, `decls` are history variables that record the
text; `answer` is what the last call returned. A frame is a function from names
to types: the hash map behind it is shown to be one in HashMap.

**Sema** extends ScopeTable with the walk of `sem_analyze_node`. The C call stack
is `todo`, a sequence of nodes and half-visited nodes. The tree is chosen as it is
visited: `Doing("stmts")` may take any statement the parser can put there,
`Doing("expr")` any expression, so a behaviour is one program and its analysis,
and TLC explores all programs within `MaxNodes` compound nodes. There is one
action per case of the switch, and each makes every change that case makes before
or between its children's visits. `defects` records, in terms of LexicalScope only,
what is wrong with the text visited, so a wrong table cannot hide an error.
`result` is the `resolved_type` of the node visited last, used by the member access
that follows. Functions are defined at file scope only and blocks occur only as
bodies, because `parse_program` and `parse_statement` allow nothing else.

**Dict** is a partial function with the map's answers. **HashMap** has the chains:
a bucket is the sequence of its nodes, newest first. `Insert` and `Put` share
`AddNode`; `hashmap_rehash` is a loop of `MoveNode` ended by `SwapArrays`, so the
invariants are also checked in the middle of it. `iter` is one iterator of the
caller. `NoMemory` and the failing branch of `StartRehash` are a `malloc` and a
`calloc` that return NULL. `hash & (capacity - 1)` is written `Hash[k] % capacity`;
that both are the same rests on the capacity being a power of two, which `TypeOK`
checks. Load factors are counted in halves, so that `Needed` has a fraction to
round; its arithmetic is exact, while the code divides floats, whose fractions get lost
when the counts run into the millions.

**Lexer** is the tokenizer character by character. `cur` holds the file offset
and `g_line`, `g_col`, `g_prev_line`, `g_prev_col`; `Advance` and `Back` are
`lexer_getc` and `lexer_ungetc`; `text` is the file as far as it was read, chosen
character by character. `pc` is the loop the code is in. `List`, `Skip` and
`EndComment` are main's loop and `token_ignore_comment`. A token's `from` and `to`
are the stretch of text its value stands for: `to` counts the characters put in
the value, not the characters read, so that a character read and not kept shows. `Modifiers` stands
for the five words (`long`, `short`, `signed`, `unsigned`, `double`) that become a TOKEN_ID between quotes too.

**Vec** is the compiled program's use of `pinum_rtvec.h`: a vector variable is the
C struct `vecs[x]`, the heap maps the blocks handed out to their cells. `Declare`
is `init` with both answers of `malloc`; `AppendInPlace` and `AppendGrowing` are
`append`, the latter with all answers of `realloc` (moved, extended, refused);
`Assign` is the struct copy that the generated C makes of an assignment or a
parameter; `Get` and `Set` are `arr[index]` through `__pinum_check_bounds`, a macro, which
is why they have two values for one index. `model`, `private` and `last` are
history variables: what the programmer stored, which variables were never part
of a copy, and the last access. A step that reaches a cell outside the live
block or the vector ends the behaviour in `"wild"`: C defines nothing after it.
A local vector without a list is an uninitialised C struct and is not modelled.

**SyntaxTree** is the tree: the node kinds, `Make`, which turns the pieces a parse function has read
into a node (names and operators are its words, nodes its children), and `Placed`, which children
each kind of node may have, as the cases of `sem_analyze_node` and `codegen_node` index into them.
Children are sequences: the capacities of the arrays in `ast.c` and their growth are left out.
`keeps`, `covers` and `height` are history: the tokens a node was made from, those of
the tree under it, and the height of that tree. `FoldTree` is what every later phase does with a
tree: a rule applied to each node and to the answers for its children.

**Parser** is the recursive descent as a machine with a stack. `todo` is the C call
stack: the calls and the rests of functions that are still to run. A function that
only calls others in order is a sequence of work items (`Do`, `Eat`, `Build`); one
that looks at the next token is an action. `done` holds the nodes whose parent is
not made yet; each work item knows the `base` above which they are its own. The
token list is revealed one token at a time as the cursor reaches it, so that TLC
branches only where the parser looks. `punned` notes that an index was put on what is not a name
(`parser.c` 535 reads the name from the node whatever it is).

**CodegenC** is `codegen_node` and its helpers. Each function that calls itself on the children of a
node is a rule of the node and of what it made of them (`NodeCode` and `ForParam`, `StringRule`,
`SpecifierRule`), folded over the tree. What is written is a sequence of symbols: the marks the
structure of C hangs on (parentheses, braces, semicolons, commas, `for`), and stretches of text without
any of them. `Env` is what the analyser knows where it visits a node: the types of the
variables, and those of the functions defined so far. The arguments of a call are not visited: nothing is
known there (`Unseen`), so each node has a code for both cases. Which type a variable has is a
constant, `NameType`: any of those that `sem_fulltype` makes (`NameTypeAssumption`).
**Compiler** runs the two in a row, with those rules of the analyser in between that bear on
what is written (`Accepted`, `Analysed`); Sema has all of them.

**CommandLine** is `cli_parse` as a fold over the arguments, and the places a process
can be in (`pc`). **Driver** is `main` from the front end to the removal of the
temporary file, one action for each step another process or a kill can come
between. A file is the process it was made for and its state: absent, empty, a whole text, a
program, or damaged, which is a text cut short or mixed from two writers, and what is made of one. A path
is its text: `CPath` puts the suffix behind the name as `main` does, so that `-o x` and `-oc x.tmp` meet
in `x.tmp.c`. `main` looks neither at the writes and the closing of the C file nor at `remove`: `Codegen`
may leave a damaged text and go on, `RemoveC` may leave the file, and `unnoticed` (history) says whose did.
**Installation** is what processes share beyond the
directory: the commits on main, the compiler on PATH, `~/.pinum-lang`.
**Updater** is `--update`, `--repair` and the installer they run, one action per
command. `install.sh` runs under `set -e`: `InstallerFails` is any of its commands
failing, after which the updater cleans up (`Leave`), which may fail too. `ran`, `unfinished`,
`disturbed`, `overlapped` and `litter` are history variables: what ran as the installer, who took new sources
and did not install, whose installer met another, whether what is installed was installed by one of those, and
the directories that could not be removed. **Toolchain** puts any number of such processes on one
machine: launches, kills at every step, commits published meanwhile, and the
user deleting `~/.pinum-lang`.

## 3. What is checked

Run a check with `tlc -config X.cfg M`.

| Run | Module, cfg | Question | Distinct states |
|---|---|---|---|
| `scope_table` | ScopeTable | does the array of maps implement lexical scoping, within its array? | 526,732 |
| `sema` | MCSema | is the verdict right, do scopes balance, does the walk end? | about 1.06 million |
| `sema_call_arguments` | MCSema, MCSemaArgs.cfg | violated, see findings | |
| `sema_unknown_method` | MCSema, MCSemaMethod.cfg | violated | |
| `hash_map` | MCHashMap | is the map a dictionary, are iterations complete? | 217,574 |
| `lexer` | MCLexer | positions, coverage of the text, modes, boundaries, termination | 553,367 |
| `lexer_comment` | MCLexer, MCLexerComment.cfg | violated | |
| `vec` | MCVec | what does a vector that was never copied hold, and where may accesses reach? | 714,418 |
| `vec_index` | MCVec, MCVecIndex.cfg | violated | |
| `compiler` | MCCompiler | does the parse end with the right tree, and is the C written for it well formed? | 1,004,615 |
| `toolchain` | MCToolchain | what can be relied on when compilations, updates, failures and kills interleave? | 755,156 |
| `like_names` | MCToolchain, MCDriverNames.cfg | violated | |

Properties of the passing runs:

- `ScopeInv`, `FramesFit`: the stack holds exactly the declarations of the
  enclosing scopes, and its length never exceeds the allocated capacity.
- `ImplementsLexicalScope`: ScopeTable refines LexicalScope with the identity
  mapping (history variables carry the text).
- `AcceptedIsClean`, `RejectedForCause`: soundness and completeness of the verdict
  for the errors the analyser knows, in the nodes it walks. `VerdictInv` is the
  inductive invariant behind them.
- `ScopeBalance`: every open scope has exactly one pending "pop", on every path of the walk.
- `UsesScopeTable`: the walker only uses the table through its four operations, and
  not after a redeclaration.
- `Termination`: every walk reaches a verdict.
- `NodesInPlace`, `ImplementsDictionary`: no node is lost, doubled or unreachable,
  during a rehash too; `NeverTwice`, `NothingSkipped`: iterations are exact under
  insertion, overwriting and erasing; `ReserveHolds`: after `hashmap_reserve(n)` no
  insertion up to n elements moves the buckets.
- `PositionsExact`, `NoCharacterLost`, `ModesMatchTokens`, `MaximalMunch`,
  `Terminates` for the lexer.
- `PrivateIsSequence`: a vector never copied holds what was stored in it, whatever `realloc`
  answered and whatever the other vectors did; `AppendStaysInside`: only an append to a
  copied vector can write outside its block (it can: the copy keeps the old pointer);
  `PanicsOutside`: an access with an effect-free index panics exactly when the
  index is outside, and otherwise reaches the element stored there.
- `NothingDropped`: every name, literal, operator and keyword of a parsed program is in
  exactly one node. `GroupedByPrecedence` compares the tree with the token list: what stands
  beside an operator within its span binds tighter, or as tightly and to its left, and a sign spans no
  operator. Whether a token is an operator is told from the text alone (`IsOperator`): a `-`
  or `<` counts when it follows what can end an operand. Beside it is what lies at the same depth of
  brackets (`Depth`), between the first token of the operation and its last.
  `TreesAreWalkable`: every tree has the shape `sem_analyze_node` and `codegen_node`
  index into unasked. `Terminates`: the parser ends on every token list.
- `StatementsTerminate`, `PrintsEachOnce`, `FormatsFit`: the generated statements are closed and
  ended, each printed value is written once and in its place, with a format of its C type. The
  first and the last have preconditions (`InStatements`, `Regular`) that name the programs and values for
  which they hold; see the gaps below for the others. `WellFormed` counts: parentheses and braces never
  close more than was opened, braces are outside of parentheses, and the semicolons inside of them
  are two for each loop header. `CValue` is the type in C, after the promotions and conversions of C,
  of what is written for an expression.
- `ExitStatusIsTrue`: a run that succeeds leaves outputs of its own program; they are whole, and the temporary
  file of `-o name` is gone, unless a write or the removal failed without `main` looking; a run that fails
  does not leave them all. It is about runs none of whose paths another run writes to (`Alone`). What
  a shared path does is seen in `CIsKept`, which is violated; what an unnoticed error does is among the gaps below.
- `VerifiedBeforeRun`: an updater runs what was published with the version it found. `TempRemoved`: a
  temporary directory that exists has an owner that runs or was killed, or its removal failed and nobody uses
  it. `SkewHasCause`: compiler and runtime differ only after an installation that was broken off, or when the
  one that installed last had met another installer; an installer that runs by itself to its end repairs both
  (the theorem says so of any number of installers). `UpToDateIsTrue`: nobody is told to be up to date
  whose runtime is of another version.

### Bounds

- `scope_table`: two names, two types, initial capacity 1 (8 in the code), four
  scopes opened: enough for three capacities (1, 2, 4), siblings after closed scopes, shadowing
  and reuse of popped slots. The state space is closed by `MaxScopes`.
- `sema`: one name, one scalar and one vector type, functions `main` and `f`, at most one
  parameter and one argument, four compound nodes. Four are what the shortest interesting programs take: a
  definition, a nested block, a use inside and a use after it. Initial capacity 2, so
  nested functions and loops make the stack grow.
- `hash_map`: keys with hashes 1, 3, 5 share one bucket at capacities 1 and 2, and split 2:1 at
  capacity 4 (`MaxCapacity`, beyond which `calloc` is taken to fail), load factors 1.0 and 1.5.
- `lexer`: one character of each kind the code treats differently (letter `n`,
  which is also an escape; digit `0`, likewise; dot, blank, newline, both quotes,
  hash, backslash, `=` for the operators of two characters), all files up to five characters: enough for
  a comment with a quote and a following line, a number with two dots, an escape inside a string.

- `vec`: two vectors, two items, two elements each, indices from -1 to 2, first capacity 2 (4 in the
  code): an append grows from nothing, finds room, or doubles the block of a list of
  one. Three blocks, an index width of 8 bits (64 in the code; only that it exceeds every
  size matters). The vectors and the items are symmetric.

- `compiler`: twenty alphabets, one for each part of the language (`MCInputs`), with every token
  list from a given start up to a limit of 4 to 16 tokens. One alphabet with every token would allow
  four or five tokens; split up, each construct gets lengths at which it nests in itself:
  `if` within `if` with `else`, operators of three levels, a call in an index, a loop in a loop header. The
  starts let the constructs that only occur in functions be reached. `TypeOK`'s bound on
  `rng_counter` and the cursor is the length of the list.
- `toolchain`: two processes, each with one of fourteen command lines (every output mode, both
  actions of the updater, every error of the command line; names whose paths meet: `-o x`, `-o x.c`,
  `-oc x`, `-oc x.tmp`, `-oc x.c`), in an empty directory or one where every path is taken by an old file
  (`Leftovers`); three commits, the last two of one
  version; two temporary directories. Two processes make every pair of steps meet; the third
  commit lets main move between a check and a fetch, with and without a new version. Processes and
  directories are symmetric: no definition tells one from another, and `UpToDateIsTrue` speaks of single
  steps, for which symmetry is sound.

### Fairness

`sema` and `lexer` assume `WF_vars(Next)`, `compiler` weak fairness of the parser's steps: the
process is sequential and nothing in it waits, so it takes a step whenever it can. The hash map, the
scope table, the vectors and the toolchain have no liveness property: nothing makes a process
on a machine with kills and failing downloads end well. Deadlock is not checked where the program may
stop: after a verdict, a panic, the file's end or the end of all processes, or when a bound is used up.

### What is assumed

- An updater and the installer it runs are killed together (a terminal's interrupt does so).
- Nobody deletes `~/.pinum-lang` under a running installer; at all other times it may go.
- `git clone` and `git reset` are one step each; the editor prompts are one that may fail.
- A C compiler that fails may have deleted the output of an earlier run, or not.
- A path fits into the 1024 characters `main` has for it (`NamesFit`: a program is not written over its own C
  file).
- malloc fails where the code looks at its answer; where it ends the process, that is left out.

### Findings

1. `sema.c` 324-339: call arguments are not analysed. `f(undeclared)` is accepted,
   though `main.c` 150 promises the check before code generation.
2. `sema.c` 178: `v.push()` without arguments is accepted, though
   `test/semantic/invalid_method_call.pn` says unknown method names must be rejected (the
   test passes an argument).
3. `lexer_filter.c` 38: a comment with an odd number of apostrophes swallows the
   lines that follow, up to the next apostrophe. Only `DQUOTE_MODE` is reset.
4. `runtime/pinum_rtvec.h` 38: the bounds check is a macro that evaluates the index
   twice. `v[next()]`, with a `next` that changes a global, is checked with one
   value and accessed with another, although `example/vec.pn` 53 promises a panic.
5. `main.c` 161, 164: `-o x` writes and deletes `x.tmp.c`, which is also the C file that `-oc x.tmp` keeps;
   at once, each may compile the program of the other.

More gaps were met while modelling, for which no run is kept.

In the analyser: a call before the definition is compared with nothing (`sema.c` 327, "forward call arity"
in the model); a variable is declared before its initializer is walked (`int32 x = x;` is
accepted); a body may redeclare a parameter, which the C compiler rejects.

In the parser (all of them are in the model; the second is why `NothingDropped` is about programs
without an index on anything but a name):

- `a * -b` is rejected: the right operand of `*`, `/` and `%` is read by `parse_call`, below the level of signs;
- `x[0][1]` drops the first index, and an index on a literal or an operation takes another
  member of the node's union for the name (`parser.c` 535);
- `@` consumes the token behind it whatever it is (`parser.c` 128): a number, which has no value, crashes in
  `strdup(NULL)`; a quote is passed over, and from there on the parser takes what
  lies between two literals of the lexer for a literal;
- the second `TOKEN_DOT` branch (559-572) is never reached.

In the generator (the preconditions `InStatements` and `Regular` and the environment `Unseen` name them):

- an expression statement such as `a + 1` gets no semicolon; an assignment or an `append` inside an
  expression gets one;
- arithmetic on floats, `uint32`, 64-bit integers and `size_t` is printed with `%d`, as is the result of
  a function that returns text, or of one defined further down; a ternary is printed with the format of
  its first alternative, whatever the type of the other;
- `read` takes a wrong scanf format or address for `int8`, `bool`, `float64` and `string`;
- `v.append(1, 2)` drops the second argument; the arguments of a call have no types, so that `f(c * 3)` multiplies a
  character and `f(v.append(1))` follows a NULL method;
- the parameters of `main` are lost; the elements of a vector of strings are not recognised as strings.

In driver and updater (in the model, and outside of what its properties promise):

- without `-o` the generated `a.out.c` stays (`main.c` 179), although `cli.h` 46 says that it is deleted;
- the results of `fprintf` and `fclose` are not looked at (`main.c` 172-173): on a full disk `-o file.c` ends
  with success and a C file that is cut short;
- two compilations without a name share `a.out.c`, and each may compile the program of the other;
- a failed or killed run of `-o` leaves its `.tmp.c`, and so does one whose `remove` fails, with success;
- the runtime header that is found need not be of the compiler's version;
- the installer takes what main is by then, not the version that was announced;
- there is no lock between installers.

## 4. What is proved

All proofs are checked by TLAPS, for every value of the constants that satisfies the
named assumptions of the modules.

### Scopes and the analyser

Assumed of the constants: `NoType` is no type, the answers
"ok" and "redeclared" are no types, the initial capacity is positive, the
translated source types are types, and `MaxNodes` is a number.

| Theorem | Says |
|---|---|
| `ScopeInvariant`, `FramesAlwaysFit`, `FramesAlwaysMatchText` | `ScopeSpec => []ScopeInv` and its parts |
| `ScopeTableRefines` | `ScopeSpec => Lexical!Spec` |
| `WalkTypeOK` | `Spec => []TypeOK` |
| `VerdictInvariant` | `Spec => []VerdictInv` |
| `ScopesBalance` | `Spec => []ScopeBalance` |
| `AcceptedProgramsAreClean`, `RejectionsHaveACause` | the two halves of the verdict |
| `WalkUsesScopeTable`, `WalkIsLexical` | the walk implements ScopeTable, hence LexicalScope |

The argument. `FramesMatchText` alone is not inductive: that a popped scope leaves
its neighbours right needs the open scopes to be distinct and older than the
next (`PathDistinct`), and that a lookup's type is *the* declared type needs a
scope to declare a name once (`DeclaredOnce`). `ScopeInv` is their
conjunction with types and `FramesFit`. From it the lemma that `Resolved(n)` equals
`Lexical!Meaning(n)` follows, which is the whole of the refinement, and that the
innermost map holds a name exactly when the innermost scope declares it. In
Sema each action is then shown to be a step of ScopeTable or to leave it alone,
and `VerdictInv` adds that the signatures are the headers seen
(`SignaturesMatchText`) and that nothing wrong was seen while the walk goes on; the
error an action reports is in `defects` by the two lemmas. For `ScopeBalance` the pending pops
are counted as a finite set of positions of `todo` (`Pops`); `BalanceInv` adds that `todo` is a list
of the walk's items, and each action is shown to open or close as many scopes as
it adds or takes pops (`PopsOfConcat`).

### The hash map

Assumed of the constants: the hash is a function from keys to naturals, the initial and the largest
capacity are powers of two, load factors are positive, and `NoKey` is no key. Keys, values, the hash
function and the load factors are arbitrary, and so is the point at which an allocation fails.

| Theorem | Says |
|---|---|
| `HashMapTypes` | `Spec => []TypeOK` |
| `NodesStayInPlace` | `Spec => []NodesInPlace` |
| `IterationsDoNotRepeat`, `IterationsAreComplete` | `Spec => []NeverTwice`, `Spec => []NothingSkipped` |
| `ReservationsHold` | `Spec => ReserveHolds` |
| `MapIsDictionary` | `Spec => ImplementsDictionary` |

The argument. `MapInv`: both arrays have each node in the chain of its key and each key once in
a chain (`Array`), no key is in both (`Apart`), and `size` is the number of nodes. A key can then be in
one chain only, so a lookup that walks that chain is a lookup in the set of nodes, and each operation
becomes one on that set: a node added, removed or exchanged, or, in a rehash, moved from one array
to the other, which the dictionary does not notice. `IterInv` is about the order of the nodes by
bucket and position: what a live iterator owes is where it stands or ahead, what it has yielded is
behind. Insertions at the head of a chain, overwriting and unlinking keep the order of all other nodes
(`PushKeeps`, `OverwriteKeeps`, `UnlinkKeeps`); `FromPosition` is the step to the next node or chain.
`ReserveInv` keeps twice the promised count below load factor times capacity, of the array to
come if one is being filled; the rounding up in `Needed` is what makes it true.

### The lexer

Assumed of the constants: "EOF" is no character, the token list has a first capacity, and the length of a
file has some bound. The characters are arbitrary: beside those the lexer knows there may be any others.

| Theorem | Says |
|---|---|
| `LexerTypes` | `Spec => []TypeOK` |
| `TokenPositions` | `Spec => []PositionsExact` |
| `TokensCoverTheFile` | `Spec => []NoCharacterLost` |
| `ModesFollowQuotes` | `Spec => []ModesMatchTokens` |
| `TokensAreMaximal` | `Spec => []MaximalMunch` |

The argument. `Shapes` reduces the fourteen actions that read to four: a blank is passed, a token is
begun, continued, or ended by a character that is pushed back; that what is pushed back leaves the
cursor where it was is `BackIsHere`. `PlaceInv` follows the cursor with line and column, by one step of the
count of newlines and of the last of them (`PlaceNext`), and keeps the place every token took from it.
`CoverInv` adds to the property where the account stands (`Reached`): at the cursor between tokens, at the
first character of a token that is not listed yet, whose end is the cursor; and that while a comment runs
the comment covers the rest. `ModesInv` follows the parity of the quotes listed over the turns between a
quote's return and its listing, and needs what the property does not say: a hashtag or a newline is only
returned outside quotes, and in a comment both counts are even, so that the modes agree again
when it ends. `MunchInv` says of every token which characters it may have begun with (`Opens`) and that
what follows it cannot continue it, or that nothing follows (`Shut`), which reading on does
not change (`EndsStay`); two tokens that meet would contradict each other.

### The parser

Assumed of the constants: each input starts with at least one token, its start does not hold the end of
the file and is a list the lexer can give (`InputsAssumption`: text only between quotes), and no name
and no type is one of the tokens that mean the same in every program, such as operators, brackets and the
end of the file (`NamesAssumption`).
Names, types, the kinds of tokens and the length of the token list are arbitrary. The theorems are about
`ParserSpec`; the run checks the same properties under Compiler's `Spec`, where they hold by the
theorems of Compiler_proofs below.

| Theorem | Says |
|---|---|
| `ParserKeepsTypeOK` | `ParserSpec => []TypeOK` |
| `ParserBuildsWalkableTrees` | `ParserSpec => []TreesAreWalkable` |
| `ParserDropsNothing` | `ParserSpec => []NothingDropped` |
| `ParserGroupsByPrecedence` (Grouping_proofs) | `ParserSpec => []GroupedByPrecedence` |

The argument has three inductive invariants.

- `ParseInv` looks forward. Every work item has a contract: what it needs of the pieces and of the cursor
  (`Ready`) and what it has done to them when it returns (`Does`): an expression leaves one
  piece of an expression's kind, a block one block, `postfix` makes the piece in front of it into another. `Safe(todo, s)`
  says that the items left, carried out by their contracts one after the other, each find what they need
  and leave one whole program and the cursor at the end of the file. A step replaces the first item by others, so what
  has to be shown is that these together keep its contract: `DeclRuns`, `BlockRuns`,
  `TermRuns` and so on, one lemma per grammar rule, and the loops by `LoopsOn`. `ParseInv` adds
  that what a call has begun lies below what is begun later (`Stacked`), and that the range counter stays
  behind the cursor. Shape of the tree: a tree is built from the leaves, and
  `Placed` must hold at every depth, so each piece is known to `Walk`: it lies in a set of well-shaped nodes that
  is closed under children. A node made of such pieces, with the kinds the contract
  promises, is in such a set again (`MakeWalks`), and all of `Subtrees` lies in it (`SubtreesInside`).
- `TextInv` looks back, at the account of the text (`Account`): every token before the cursor that does more
  than separate is covered by exactly one piece, and none by a piece that has it still to come. A piece is `Sound` when
  it covers what it keeps and what its children cover, and children are apart in it at every depth (`Parted`).
  Making a node of the pieces (`MakeSound`), or one of the nodes that are put together by hand (updates,
  assignments, range loops, accesses), neither loses nor doubles a token. For this `TodoInv` says of the items left that
  they consume separators only, and know the levels of operators 1 to 6. At the end `EofIsLast` turns
  "before the cursor" into "in the text". `BuildAccess` is where the account would not balance if the target is no
  name: hence `~ punned`.
- `GroupInv` looks at the stretch of text a value was read from. `Over(a, b, r)` says of the text from a to b
  that its brackets are even and that no operator outside of them binds less than r. What one
  function knows of its caller is a fact about the items left to do: `Expects(todo, f, r, n)` says that they are
  ready for a value that began at f, binds as tightly as r and lies on n pieces. It is a chain whose
  links (`After`) tell what each item makes of such a value: a level that looks for operators keeps it,
  the item that builds a binary node puts it and the operator and the piece before it together into one that
  began earlier, a bracket that closes looks back at what stood before the one that opened. `ReadInv` says where the
  cursor is with respect to the chain: at a value (`AtValue`), behind one (`Behind`), in a postfix expression
  (`InValue`) or before a list or a bracket (`BeforeValue`). In all four the text read since the chain's
  value began is `Over` of its rank, so when the node is built the operators it spans are known;
  `AllRated` collects, for each finished piece, a set of nodes closed under children in which each is `Grouped`, and
  `SubtreesInside` carries this to the whole tree.

  Literals are what makes this hard. Between quotes the lexer lists text, so parser and lexer have to agree
  on what is a literal (`InStep`). After an `@` that took a quote they do not (`Astray`); then what the
  parser reads is the inside of the lexer's literals, where there is no operator, no name and no
  bracket (`Listing`), so that the only expression it can read is a literal (`AllBlunt`).

Since the library's induction theorems cannot be instantiated, what is needed of the recursive functions in `Children`
and `Subtrees` is proved by a least counterexample (`LeastNatural`, from the well-foundedness of the naturals).

### The C generator

Assumed of the constants, beside what the parser needs: every variable has one of the types `sem_fulltype`
makes (`NameTypeAssumption`). Programs are of any length and depth, over any names.

| Theorem | Says |
|---|---|
| `CompilerTerminatesStatements` | `Spec => []StatementsTerminate` |
| `CompilerPrintsEachOnce` | `Spec => []PrintsEachOnce` |
| `CompilerFormatsFit` | `Spec => []FormatsFit` |
| `CompilerInvariant` | `Spec => []CompilerInv`: the parser's invariant, and a file is written of an analysed tree only |
| `CompilerParses` | `Spec => ParserSpec` |
| `CompilerKeepsTypeOK`, `CompilerBuildsWalkableTrees`, `CompilerDropsNothing`, `CompilerGroupsByPrecedence` | the parser's theorems under `Spec` |

The argument. `ParseInv` says that the tree of a parsed program `Walks`: all of its nodes are well shaped,
at every depth. Everything below is about such trees.

- Folds. That a fold makes of a node what its rule says (`WrittenUnfolds` and its sisters) has to be
  proved first: that the recursive function exists on the subtrees of a node, by induction on the height
  up to which it does, and that the one for a child agrees with the one for its parent. With
  this, facts about what is written go by induction on the height of the node.
- Statements. Counting brackets does not compose, so the proof reads the code instead. A reader
  (`Readers`) stands in so many parentheses and braces and expects so many semicolons for the loop headers it has
  read; `Takes(code, x, y)` says that it can read all of `code` from x and is then at y. Code is `Inline` if it
  leads from any place back to that place, `Outline` if it does so outside of parentheses,
  and `Stated` if it also ends as a statement does. These compose (`InlineJoin`, `InlineEnclosed`, `StatedEnd`,
  `StatedBraces`, `OutlineHeader`). So expressions are inline (`ExpressionsInline`), also where nothing is known of
  types; so are the parts of a loop header that `codegen_for_param` writes (`ParamInline`), and statements and
  functions are stated (`StatementsWritten`, `FunctionWritten`). That the analyser has seen the method's vector is
  what keeps `MemberCode` from the null method: blocks are visited, because no block is in the arguments of a
  call (`BlocksAccepted`). At the end `StatedIsWellFormed` turns the reader into counts.
- Prints. `Groups(out, n, V)` is the invariant of the loop of NODE_PRINT, for the groups flushed and
  the arguments up to n: in order, without gaps, vectors (V) alone. Each turn keeps it (`GroupsNext`).
- Formats. `FormatOfOne` compares, kind by kind, what `codegen_specifier` finds by the tree with what `BinaryCode`
  finds when it writes; ternaries are an induction over the first alternative (`FormatOfExpression`).

### Vectors

Assumed of the constants: the bounds are numbers, the first capacity is positive, "none" is no variable,
and every index lies within the width of an unsigned number and, if negative, wraps to one above every
size (`IndexAssumption`, which 64 bits satisfy). The numbers of vectors, items, blocks and elements are arbitrary.

| Theorem | Says |
|---|---|
| `VecTypes` | `Spec => []TypeOK` |
| `PrivateVectorsAreSequences` | `Spec => []PrivateIsSequence` |
| `AppendsStayInside` | `Spec => []AppendStaysInside` |
| `PanicsAreExact` | `Spec => PanicsOutside` |

The argument. `MemoryInv` says of the heap that its blocks were handed out (`HeapInv`), of every
struct, copied or not, that its size is the length of what was stored and that a struct without a
block has no capacity (`StructInv`), and of every vector never copied that it `Owns` its block: alive,
as long as its capacity, filled with its elements, and no other struct's. Copies may do anything to the
blocks they share; they have none of an owner's. An append that goes astray is then one of a copied
vector, and an access that panics is one outside, because the wrapped index is no smaller than any size.

### Runs of pinum

Assumed of the constants: versions never decrease along main and are positive
(`VersionsAdvance`), a name fits with its suffix into its buffer (`NamesFit`), and "no directory" and "nobody" are not the names of any (`DirsAssumption`,
`ProcsAssumption`). The number of processes, directories and commits, and the command lines, are
arbitrary.

| Theorem | Says |
|---|---|
| `ToolchainTypes` | `Spec => []ToolchainTypeOK`: types, and that nothing is newer than what it was made from |
| `ExitStatusesAreTrue` | `Spec => []ExitStatusIsTrue` |
| `InstallersAreVerified` | `Spec => []VerifiedBeforeRun` |
| `TempIsRemoved` | `Spec => []TempRemoved` |
| `SkewsHaveACause` | `Spec => []SkewHasCause` |
| `UpToDateIsTold` | `Spec => UpToDateIsTrue` |

The argument has three inductive invariants beside the types.

- `DownloadInv`: a directory that exists has exactly one owner, an updater at a place
  between `mkdtemp` and its cleaning up, or a killed one (`Ownership`); and what lies in it
  is, by the place of its owner, missing, of the version the owner found, or damaged
  (`Contents`). After the checksum only the first can be run. Another updater cannot
  disturb this because it has another directory.
- `InstallInv`: what a process was built from, what is installed, built or being read are in
  the order of the commits (`Order`), and an installer that has met no other (`Undisturbed`) is alone inside, and
  what it has read or built is of the sources that are there; so what it installs is too, whatever was
  left before. `UpToDateIsTrue` follows: own <= tree <= main, versions do not decrease, and
  VERSION on main equals the own.
- `FilesInv`: by the place of a compilation whose paths are its own, what its C file, its binary and
  its C compiler's input hold, whose they are in any case and that they are whole if nothing has failed
  unnoticed (`Written`), and that nothing of it is anywhere else (`Apart`); the
  exit status is what remains of it at the ends (`Status`). That `Apart` is needed is seen at
  another process's link step, which writes what that process has read.

### What is only model-checked

Termination of the walk (`Termination`), of the lexer and of the parser (`Terminates`): liveness under
fairness is out of the prover's reach. Every other property of the passing runs is also a theorem.

## 5. Not modelled, and the plan

Left out for good: the AST printer and the freeing of trees, error formatting, keyword spelling, the
numeric value of literals, the runtime's string helpers (pure functions into fresh blocks), the program mode
flag (one scan that chooses what is printed), the QBE back end (empty), the web build, editor files.
An iterator of the hash map that is used after a change is not followed
any further: the code in `src/` keeps none. An installer that outlives its killed
updater is not modelled either.

What could follow: a lock between installers and a stamp in the runtime, as changes to the code, with the
runs above to judge them by.
