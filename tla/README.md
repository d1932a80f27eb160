# Specifications of the C compiler

This directory holds TLA+ specifications of the compiler in `src/`: a
single-threaded batch program in C that turns each source file into x86-64
assembly, with `gcc` as preprocessor, assembler and linker around it.

The repository has no documentation and no tests, so the code is the only
reference. All of it is sequential: there are no threads, callbacks from
outside, messages or persistent state (the intermediate files of the driver
excepted). What makes it hard to get right is not concurrency but the
*agreement of passes that are written apart*: facts about a name or a value are
recorded by one pass, copied, overwritten and read by others, and two halves of
the code generator rely on each other's arithmetic. The modules model those
places as state machines in which *any* legal next construct may follow, so that
TLC goes through the long sequences of declarations, scopes, operands and calls
that nobody would write a test for; and where a pass translates, both its input
and its output have a meaning of their own in TLA+, and the two are compared.

How to run: `tlc -config X.cfg M` for the runs of section 2 (`M` is the `MC`
module; `VoidAlone.cfg` belongs to `MCParser`, `PointerScale.cfg` to
`MCExpressions`), `tlapm M.tla` for the modules with theorems (section 4).

## 1. Inventory

`compileFile` (`EntryPoint/FileHandling.c:118-171`) runs these parts, in this
order, over each file. Paths are relative to `src/`.

| Part | State | Operations | What makes it correct | Module |
|---|---|---|---|---|
| Compiler driver (`EntryPoint/`) | argument flags, generated file names, `.i/.s/.o` files | read arguments, preprocess, compile, assemble, link | outputs of different inputs do not collide; nothing stale is linked; a failure is not reported as success | `Driver`, `DriverProofs` |
| Lexer (`Lexer/`) | master NFA, DFA tables, token list | build an automaton per token, merge, subset construction, longest match | the DFA accepts each token's language; longest match, first token of equal length; tables never overrun | `Automata`, `Scanner`, `Lexer`, `LexicalGrammar`, `LexerProofs` |
| Parser (`Parser/AST/`) | token cursor, tree | recursive descent, precedence climbing, declarators | binding strength and associativity; the type a declarator denotes | `Tokens`, `Grammar`, `Parser` |
| Identifier resolution (`Semantic/passes/IdentifierResolution`) | a scope map per open scope, a compiler-wide counter, the symbol table | declare, use, open and close a scope, define a function | the copied maps answer as lexical scoping does; unique names are unique | `LexicalScope`, `IdentifierResolution`, `IdentifierResolutionProofs` |
| Loop labelling (`.../LoopLabeling`) | label counter, current loop label | label a loop, annotate `break` and `continue` | a jump leaves the loop around it; one outside of loops is refused | `Lowering` |
| Type checking of declarations (`.../DeclarationTypeChecker`) | the symbol table | compare a declaration with the entry, overwrite the entry | programs whose declarations disagree are refused, others are not; overwriting loses nothing | `Linkage`, `LinkageProofs` |
| Type checking of expressions and statements | types in the tree | common types, conversions, initializers | what C takes is taken and has C's type, and what C leaves unwritten is put in | `Words`, `CExpressions`, `Expressions`; call arguments, returned values and static initializers are left out |
| TACKY lowering (`Parser/TACKY`) | instruction list, temporaries, labels | flatten expressions and statements | the list computes what the tree says | `ControlFlow`, `Lowering`: statements, calls; `Tacky`, `Expressions`: every other expression, local initializers; `Linkage`: what is emitted |
| Assembly selection (`Parser/ASM-Instructions`) | instruction list | one TACKY instruction to several machine instructions | two-operand arithmetic and flags compute the three-operand instruction | `Words`, `Tacky`, `Machine`, `Selection`, `SelectionProofs`; calls and returns in `CallingConvention`; static data is left out |
| Instruction fix-up (`ASM-File-Generation/ASMInstructionFix.c`) | offset table, used bytes | slot per pseudo-register, legal operand forms through scratch registers | slots apart, aligned and covered; scratch registers hold nothing alive | `FrameAllocator`, `StackFrame`, `StackFrameProofs`: the slots; `Selection`: every fix function |
| Calling convention (`FuncCallParser.c`, `FunctionParser.c`, `ASMGenerator.c:176-186`) | registers, stack | pass arguments, receive parameters, prologue, epilogue, return | caller and callee agree on every position; the stack is balanced and aligned | `CallingConvention`, `CallingConventionProofs` |
| Assembly text (`ASM-File-Generation/ASMGenerator.c`) | output file | print | an instruction is printed with the mnemonic, suffix and register name of its size | `Selection`; prologue and epilogue in `CallingConvention`; directives are left out |
| Symbol tables, hash table | buckets | insert-or-overwrite, look up, convert for the back end | a table is a function from names | inside `Linkage`, `StackFrame` |
| Dynamic arrays, constructors, printers, destructors | records | allocate, copy, print, free | (memory management) | constructors as the records they make; the rest not modelled |

The models meet where the passes do: `Parser` ends at a tree, `Lowering` and
`Expressions` start from one; `Expressions` emits the instructions that
`Tacky` gives a meaning, checks that each is one `Selection` is made for
(`EmittedWellTyped`), and `Selection` compiles each of those instructions and
runs it. `Words` and `Tacky` are shared by both. The places of names that
`Selection` takes as given are `StackFrame`'s.

How they interact: every pass is one walk over the tree or a list and hands the
result to the next. Two structures are shared by several passes. The *tree* is
renamed, labelled and typed in place. The *symbol table* is first filled by
identifier resolution (functions and parameters), then overwritten by the type
checker, read when TACKY is generated, and converted to the back end's table,
which the frame layout reads. Identifier resolution and type checking alternate
per top-level declaration, not per file, and not per declaration
(`IdentifierResolver.c:82`); this is the interleaving `Linkage` is about.

`PROJECT.json` lists under `hazards` the places where something can go wrong
that a test would hardly reach, each at its line; those with properties are
covered below, the others carry a note that says why no property covers them.

## 2. Modules

### Stack frame: `FrameAllocator`, `StackFrame`, `MCStackFrame`, `StackFrameProofs`

`FrameAllocator` is what a frame promises: each name gets, once, a byte range
below the frame pointer that meets no other and starts where its type may
start; finally a multiple of 16 bytes is reserved that covers all ranges.

`StackFrame` is `pseudoToStackPositions` for one function. State: the type of
each name (`symTable`, fixed), the `CharIntMap` from names to offsets
(`table`), `usedStackBytes` (`used`), and the operand of the prepended
allocation (`frame`). `resolvePseudo(p, f)` rewrites one operand, handing out a
slot the first time (`insertPseudoToTable`); `AllocateStack` is
`fixStackSizeForFunction` and ends the pass. `accesses` is a history variable:
the address and width of each operand rewritten, since code emitted early keeps
the offset it was given. An instruction list is any sequence of operands.
Offsets within an array are those of its scalars. A name declared in a switch has no
entry in the back end's table (`NoEntry`): its slot has four bytes
(`getPseudoSlotSize`), whatever was declared. An operand of it is as wide as the
other operand of its instruction, so that eight bytes or an array overrun the slot
and its neighbours; those operands are not in `accesses`, and the properties do not
speak of them (a hazard without a property). Offsets are unbounded
integers here; in the code they are `int` (another hazard without a property).

Run `StackFrame`: three names, every assignment of seven types or none to them, chosen
so that every path of `convertCTypeToASMType` occurs: scalars of four and eight
bytes, arrays below and above 16 bytes, an array of arrays whose alignment (12)
is no power of two, sizes that are no multiple of 8. Three names are enough for
a slot between two others; nothing else is bounded (the state space is finite,
since the table and `accesses` only grow). The names are interchangeable. The
pass stops, so deadlock is not checked.

| Property | Says |
|---|---|
| `NoAliasing` | operands of different names that have an entry never touch a common byte |
| `StableAddress` | the same part of a variable is the same address in every instruction |
| `NaturallyAligned` | each scalar lies on its natural boundary |
| `FrameCoversCode` | the reserved frame is a multiple of 16 and covers every access |
| `ImplementsFrameAllocator` | refinement: every step is a step of `FrameAllocator` or a stutter |

### Identifier resolution: `LexicalScope`, `IdentifierResolution`, `MCIdentifierResolution`, `IdentifierResolutionProofs`

`LexicalScope` is block-structured naming as the language has it: a stack of
scopes that each bind the names *they* declare, a use means the innermost
binding, a declaration is refused only if its own scope binds the name to
something else. It does not mention maps, flags or copies.

`IdentifierResolution` is the pass. There is no stack of scopes in the code:
each scope has a complete `SemanticIdentifierMap`, made as a copy of the map
around it with every `isInScope` flag cleared, and freed at the end. `maps` are
the maps that are alive, the current one last. `currGlobalInt` is the counter
behind `generateUniqueVariableName`, shared by all functions of all files;
`symbolTable` are the entries this pass makes. Actions are the functions of the
same name; `EnterScope`/`LeaveScope` are the copies and frees in
`StatementResolver.c`, `BlockResolver` and the loops. An error message is
followed by `exit(1)`, so a `verdict` other than `accepted` or `bound` ends the
behaviour. `objects` is a history variable: the unique names made, in order. A
unique name is a pair of base and number; that the text `x.7` cannot be an
identifier of the source is external to the pass (the lexer has no such token).

Run `IdentifierResolution`: two interchangeable names, three scopes at once
(file, function, block), three unique names, up to two parameters. Two names
give shadowing of one and survival of the other; three scopes give a copy of a
copy, which is where a flag that is not cleared would show. Counter and depth
are guards (`MaxCounter`, `MaxDepth`), so behaviours stop at them, and they stop
at error messages: deadlock is not checked.

| Property | Says |
|---|---|
| `MapsMirrorScopes` | each copied map still says what the innermost declaring scope says *now* |
| `UniqueNamesApart` | no unique name is given twice, across functions and scopes |
| `SymbolsKept` | the pass never replaces an entry of the symbol table |
| `ImplementsLexicalScope` | uses get the innermost binding; what is refused may be refused |

### Linkage: `Linkage`, `MCLinkage`, `LinkageProofs`

The symbol table's entries of names with linkage, across both passes.
`resolveTopLevel`, `resolveBlockItem` and `resolveInSwitch` are the first walk
over one top-level declaration (a function not in the table yet is entered,
undefined); then each declaration that is `pending` (its position in `met`) is compared with the entry by
`typeCheckFileScopeVariableDeclaration`, `handleExternLocalVar` or
`typeCheckFunctionDeclaration`, which overwrites the entry or refuses the
program. `StatementTypeChecker.c:67-78` has no entry for switch statements, so
that what a switch declares is only resolved; the model keeps that
(`resolveInSwitch`). `met` and `refusal` are history variables. The properties
judge the list of declarations, not the table, so that they are about what the
code promises rather than how it is kept.

Types are compared by `ctypeEqual`; two types that are equal or not is all the
comparison can tell apart here. Initializers are constants.

Run `Linkage`: every program of up to four declarations of two names with two
types, at file level, in bodies and in switches. Four declarations of one name
are a declaration, a body with a prototype of the same name in it, and one
after it; this is one more than any pair that can disagree needs, with an
overwriting declaration between.

| Property | Says |
|---|---|
| `AcceptedAgree` | in an accepted program no two declarations of a name disagree, and at most one defines it |
| `RefusedDisagree` | a message is right about name and reason |
| `EntrySumsUp` | the overwritten entry still has the linkage of the first declaration, and says "defined" or "initialized" exactly if some declaration did that |
| `EmittedAsDeclared` | what is emitted of an accepted program: nothing global that was declared static first, each initialized variable, none that is extern only |
| `LinkageFixed` | the linkage of an entry never changes, not even between the passes |

`EmittedAsDeclared` asks for *initialized* variables only. A tentative
definition (`int x;`) that an `extern int x;` follows is overwritten by an entry
without value (`FileScopeVarTypeChecker.c:124`) and not emitted; the model does
the same, and the hazard list has the line.

### Calling convention: `CallingConvention`, `MCCallingConvention`, `CallingConventionProofs`

Where an argument goes is decided twice, by `classifyCallArgs` for the caller
and `classifyFuncParams` for the callee. The module generates both codes from a
signature (`sig`, `ret`), passes all moves through `fixMov`, and runs them on a
machine with `rsp`, `rbp`, registers and a stack of words that remember how many
of their bytes mean something. The generated function calls itself; `Work` is
the rest of its body, which may change every register but the two of the frame,
and sets the temporaries of the next call, or returns a value
(`WorkThenReturn`), or comes to the end without a return statement
(`WorkThenFallOff`): there `parseASMfunction` has put `mov $0, AX` and a `ret`
for every function, whatever its type. A returned value has the return type, to
which the type checker converts it; that it does not in a switch, and converts
to another type behind a prototype in the body, are hazards. `returned` is a
history variable: how the latest body ended. One action per instruction:
prologue and epilogue are the text `ASMGenerator.c` prints for them. Aggregates
are not passed by value in this compiler; the classes longword, quadword and
double are all it distinguishes.

Run `CallingConvention`: every signature of up to five parameters and every
return type, three activations with two calls each. The registers are
`CONSTANTS`; with two for integers and one for doubles, five parameters give
none, one, two and more stack arguments of either class in every order, so
that both paddings and register arguments after stack arguments occur. The
code generator uses the numbers of registers only as bounds. A program that has
returned stutters (`Stopped`), so this run does check deadlock: the machine never
gets stuck at an address that is no instruction.

| Property | Says |
|---|---|
| `ParamsKept` | every activation has its caller's arguments in its slots, as wide as their types, until it returns |
| `AlignedAtCall` | `rsp` is a multiple of 16 at each call |
| `FrameRestored` | after a call `rsp` and `rbp` are where the prologue left them |
| `ResultDelivered` | a call evaluates to what the callee returned, and to 0 after an `int` function that came to its end; of other types that end so nothing is claimed |
| `ReturnsToCaller` | `ret` continues after the call that started the activation, with its frame pointer |

### Lowering: `ControlFlow`, `Lowering`, `MCLowering`

`ControlFlow` is what a function body means: an interpreter that keeps the list
of what remains to be done, unfolds its head, and stops at what can be seen from
outside, a call or the return. It knows no labels and no temporaries.

`Lowering` takes a tree through the passes. `resolveBlockWithLabeling` writes
loop names into it (or refuses it), `parseTACKYFunction` flattens it (or crashes
on a loop without name: `strlen(NULL)` in `generateUtils.c:31`), `Assemble`
binds the labels (or cannot), and then the list runs, one action per kind of
instruction. The emitters are operators with the names of the functions that
they model; they pass on the list, the counters of `generateUtils.c` and the
value of the latest expression. A call is an operand whose result is arbitrary,
so conditions turn out in every way. `meaning` is a history variable: what the
tree would do next, moved along with each call.

Of expressions it has calls without arguments, `&&`, `||` and `?:`; the others,
and the initializers of declarations, are in `Expressions`. Values are ints. A tree is as the parser leaves it: the
default of a switch is kept apart from the cases and comes last, and a case has
one statement and perhaps a `break`.

The labeler has no entry for switch statements (`StatementLabeler.c:63-71`). A
loop in a switch therefore has no name, and a `break` or `continue` within a
case (other than the `break` that ends it) keeps the name the parser gave it,
which is no label. The model does the same: those trees end in `crashed` or
`unassembled`, and `AcceptedAssembles` excepts them by name.

Run `Lowering`: 6740 trees; every control statement inside every other one, with
each kind of jump inside and behind it, and expressions with one operator in
another. The calls of a tree are numbered by their place, so that a call made
twice, dropped or swapped is a different one. Loops without a condition have a
last clause that calls, since a `for (;;) ;` is silent in the tree itself. A
call gives 0 or 1, which is what conditions and the two case values tell apart.
Two levels are where a label, a counter or a temporary of one statement can meet
that of another; no bound cuts behaviours short. What has ended stutters
(`Stopped`), and deadlock is checked: the list never gets stuck on a label that
is not there.

| Property | Says |
|---|---|
| `MeaningKept` | the list makes the calls of the tree, in its order and under its conditions, and returns its value |
| `StrayJumpsRefused` | the message "not within a loop" is given exactly for trees with a jump that no loop or switch surrounds |
| `AcceptedAssembles` | what is not refused compiles, with each label bound once and each jump bound, unless a switch has a loop or a jump inside |
| `NoSilentLoop` | liveness: the list always gets to its next call or its end; no way around a loop misses its test or clause |

### Lexer: `Automata`, `Scanner`, `Lexer`, `LexicalGrammar`, `MCLexer`, `LexerProofs`

`Automata` has the tables of tokens and `nfa.c`: an automaton for each token,
states numbered as `addStateToNFA` numbers them, transitions through the
character classes, all of them merged into `createFinalNFA`. `Lexer` takes any
automaton (`nfa` is a constant) and is what `lex()` does with it.
`createDFAFromNFA` is walked through as its loops go: `eClosure` visits one
member of the sorted set by its position and adds others; `FirstState` and
`AddTransition` look a closed set up or make a state for it (`findOrCreate`),
and the latter adds the transition, or none if the table is full (`dropped`
remembers it); `Move`, `NoMove` and `NextState` are the turns of the loops over
characters and states. Then `lex` takes a text, and for each token
`SkipSpace` skips blanks, `createToken` starts at the first state, `DFARun` goes
on by one character and remembers the token accepted last (`Latest`), and
`addToken` cuts there, or `InvalidToken` stops. `AutomatonAssumption` says that the automaton
fits into the arrays, which are filled without a test, and that no epsilon
transition leads back to a state made earlier: `eClosure` would pass over what it
inserts before its position. TLC evaluates it for the automaton of C.

`Scanner` is what an automaton says of a text: the sets of states that its
characters lead to (`IsClosure` describes a closure, it does not compute one),
and the longest piece that ends in an accepting set, with the type of the first
state that accepts. `Lexer` implements it: the sets are those of the states in
`path`. `LexicalGrammar` is C's tokens without automata: the words of each kind
as sets of texts, and the longest one at every place. The alphabet has one
or two of each kind of character (two digits, the letters of keywords and
suffixes), since a transition tells no others apart.

Run `Lexer`: 21 715 texts: all up to five characters over those of numbers and of
operators, all up to four over those of words, odd characters, and each keyword
whole, cut short and next to other characters. `MAX_STATES`, `MAX_TRANSITION`
and `MAX_EPSILON` are the sizes of the C arrays; the automaton has 212 states and
the deterministic one 142.

| Property | Says |
|---|---|
| `LongestTokens` | each token is the longest there is, of its one type, a text is refused exactly where no token starts, and no set is dropped |
| `ImplementsScanner` | refinement: the construction and the match together read every text as the automaton does |

Known, excepted by name: the comment says `[0-9]+\.` where the automaton takes a
lone dot as a floating constant (`LoneDot`).

### Parser: `Tokens`, `Grammar`, `Parser`, `MCParser`

`Tokens` has the kinds of tokens and the shapes of trees. `Grammar` says, with
no cursor, which trees a list of tokens stands for: expressions as an ambiguous
grammar made unique by the tiers of C's operators, declarators inside out,
statements with `else` at the nearest `if`. `Parser` is the recursive descent:
each parse function is an operator from a cursor to a tree and a cursor, with
`check`, `expect` and the look-ahead as in the code, and an error message is the
cursor 0, at which no check succeeds. One step parses one list, so a behaviour
has two states; the run is about the number of lists.

Run `Parser`: 161 291 token lists: every list of five or six out of a few tokens
(operators with `?:` and `=`, prefix and postfix, calls, casts), four operators of
every tier in a row, nested `if`/`else`/`while`/`do`, heads of `for`, switch
bodies, blocks, declarators, parameter lists, specifiers in every order,
initializers, and programs. Four operators are one more than any two tiers and
an associativity need.

| Property | Says |
|---|---|
| `SentencesRead` | what the grammar derives is accepted with the tree the grammar gives it |
| `OnlySentencesRead` | what else is accepted is one of the leniencies named in the module |

What the parser refuses of C, by name: `++` behind a subscript, `void` first in a
cast or as the first word of a parameter, a named parameter with brackets. What it accepts
beyond: steps and assignments of what is no lvalue (the type checker sees to
some of these), parameters without a comma between, `void` behind other
parameters, a function that returns an array, braces with no commas or nothing
in them, a case behind the default. Where the default stood among the cases is
not in the tree any more, and so not in the comparison (a hazard).

Run `VoidAlone` (expected to fail): the message of `DeclarationParser.c:258` says
that `void` must be the only parameter. Only what follows `void` is tested:
TLC finds `int f(int x, void);` accepted.

### Expressions: `Words`, `Tacky`, `CExpressions`, `Expressions`, `MCExpressions`

`Words` is what values are: words of a few bits kept as the number their bits
spell, conversions between them, and floating-point numbers with a short
mantissa, infinities and NaN. `Tacky` is what an instruction does to memory, and
where C leaves it undefined. `CExpressions` is what an expression means in C,
with the types C gives it, and says nothing of casts or temporaries; where two
orders of evaluation differ the meaning is undefined and nothing is asked.

`Expressions` takes a tree through `typeCheckExpression` (one operator per
handler, the tree rebuilt with its types and the casts put in, or refused) or,
for a declaration, `handleRegularLocalVar`; then through `emit_TACKY` and all it
calls; then `Run` executes the list. The run uses ints of 4 bits and
longs of 8; sizes in bytes stay 4 and 8, so that scales and offsets are the code's own.
`WordSizes` names what the conversions rely on, and holds of 32, 64 and 53 as of
4, 8 and 4: an int always fits into a mantissa, and halving a long leaves two bits
that it does not hold, so that rounding happens.

Run `Expressions`: about 24 000 trees over a variable of each type and constants,
each from two memories: every operator on every two of them, on every variable and
each of 32 compound operands, subscripts and assignments of compound operands on
both sides, the conditional over every two types, initializers of scalars,
arrays and arrays of arrays with too few, enough and too many elements. Two
levels are where one node's cast or temporary can be taken for another's.

| Property | Says |
|---|---|
| `TypedAsC` | the compiler takes what C takes, refuses what C refuses, and gives it C's type |
| `MeaningKept` | running what is emitted leaves every variable and the value as C says |
| `EmittedWellTyped` | every instruction is one of those `Selection` is made for (`Compilable`): its operands have places, and types that go together |

Known, excepted by name: accepted although C refuses (`Lax`) are bitwise
operators and shifts of doubles, steps of arrays and of what is no lvalue, `?:`
with a pointer, a number given to an array; refused although C takes them (`Strict`) are comparisons of pointers
(`ExpressionTypeChecker.c:115`), a null pointer not written as `0`, a number in
braces. Of another meaning (`Known`): a shift has the common type of its
operands, the result of a postfix step inside an expression is the new value, a
step through a pointer increments the loaded copy and one of a pointer adds 1,
pointer sums scale by 8, pointer differences are not divided, `p - l` negates the
`long` variable `l` in place, and a missing array element is padded with an int
0, four bytes of eight. The exceptions only silence the property for these
trees; the emitters themselves are modelled as they are.

Run `PointerScale` (expected to fail): the comment in `TACKYEmitters.c:134` says
that the scale is the size of the pointed-to type; the argument at line 136 is
the size of the pointer.

### Selection: `Words`, `Tacky`, `Machine`, `Selection`, `MCSelection`, `SelectionProofs`

`Machine` is the part of an x86-64 the generator uses: registers, flags, a
stack, memory of typed cells, and which operand forms an instruction has
(`Assembles`). `Selection` compiles one TACKY instruction: the parser for its
kind makes assembly over names (`tacky` to `assembly`), the fix functions
replace names and rewrite illegal forms through `R10`, `R11`, `XMM14`, `XMM15` or a
borrowed `CX` (`fixed`), the generator picks mnemonics and sizes, and the text
runs (`running`, `done`).

Run `Selection`: 45 643 instructions: each kind over each type, operands being
constants, frame slots or static data, the same variable twice, values at the
edges of the words (0, 1, the sign bit, all ones; halves, infinities, NaN). One
instruction is enough, because nothing in the scratch registers outlives it:
`BorrowedBack` and the comparison of all memory are what says so.

What the instructions may be is an assumption of the module, `Cases`: each is
`Compilable` (of `Tacky`: its kind, its types, operands that are constants or names with a
place; without an entry it would be a longword), and each name that is no array has a cell of its type (`LaidInMemory`). The first is what
`EmittedWellTyped` checks of the emitters, over trees that C takes and without the
known `p - l`; the second is what
`StackFrame` is about. TLC evaluates both over all instructions of the run.

| Property | Says |
|---|---|
| `MeaningKept` | after the text, memory and the jump taken are what the instruction says; the known exceptions always differ |
| `AllAssemble` | every line has a form the processor has, whatever the operands are |
| `BorrowedBack` | the stack and every register that is not for scratch are as before |

Known, and asked to be exactly these: a right shift of an unsigned number is
printed as `sar`, so that it differs when the top bit is set; comparisons with NaN
(`comisd` says unordered is equal and below) make `==`, `<`, `<=` and `!` true;
`++` and `--` of a double print `incsd` and `decsd`, which no assembler knows.

### Driver: `Driver`, `MCDriver`, `DriverProofs`

One invocation after another over one directory, the only state of this program that
outlives a run. An action per kind of argument and per command;
a file is the sequence of source texts it was made from. A command of gcc may
succeed, fail (gcc removes what it was to write, the external part of this
module) or never get to its output, which leaves the old file: it does not start, or
it finds an input missing and stops at once, as gcc does. The driver looks at none
of this: it goes on, and exits with 0 when assembling or linking has failed.
The compiler proper is one step that refuses a text or takes it; a refusal exits
with 1 and stops everything.

Run `Driver`: two invocations with any of thirteen command lines (one and two
sources, `-c`, `-o` before, behind and twice, an `-o` with a source behind it or
without a word, libraries, sources with a common stem, no source at all), a source edited or removed in between, every
command failing or not starting. Two invocations are what a stale file needs.

| Property | Says |
|---|---|
| `UpToDate` | after exit status 0, each object and the executable are of the sources as they are, or are missing because a command failed |
| `OnlyAccepted` | nothing that was refused gets into any file of assembly, object or executable |

Known, excepted by name: a command that could not be started, or stopped for a missing
input, leaves old files
and status 0 (the `.i` of a source that has been removed is compiled again), and two sources that agree up to the first dot share their files
(`x.c`, `x.1.c`). `PassedOver`: the loop over the arguments skips a word that is
the executable's name so far, so that a source called `a.out` and one named by an
`-o` are never compiled, and an `-o` behind an `-o` is a name. Without `-o`, the
executable of a single source has the source's name, not `a.out`;
`ExecutableAsked` follows the code there, and of several `-o` the last counts, as
in the code. A word is a name, an option or a library (`Word`);
`DriverAssumption` says that sources are no options.

## 3. Fairness and liveness

Most modules neither assume nor need any: each pass is a terminating walk over
an input that the model leaves open, so that a behaviour may stop at any
construct, and their properties are safety or refinement of safety
specifications. Symmetry is used only there. `Expressions` and `Selection` end every
run of emitted code in `done` or `fault`: their code jumps forward only.

`Lowering` has one assumption, `WF_<<phase, pc>>(Run)`: the processor goes on
executing the list as long as there is a next instruction. Nothing competes with
it and each instruction is enabled until it is executed, so weak fairness is
what a running program has. Nothing is assumed of the values that calls return;
a loop may go round for ever, and `NoSilentLoop` asks only for what happens
between two calls.

## 4. Proofs

TLC checks the instances above; the proofs hold for every value of the
constants, under the assumptions named in the modules.

`StackFrameProofs`, for any set of names and any types
(`CTypeAssumption`: a type is a scalar or an array with positive counts). No
single property is inductive: that a new slot avoids the old ones follows only
from all old ones lying in the used bytes. `LayoutInv` therefore adds to the
types: slots lie within `used` and are aligned (`SlotsInUse`), are apart
(`SlotsApart`), every access is in its slot (`AccessesInSlots`), and the frame
covers `used` (`FrameReserved`). Lemmas on rounding (`RoundUp` is at least its
argument, less than it plus the alignment, and a multiple) carry the arithmetic.
From `LayoutInvariant` follow `TypeCorrect`, `NoAliasingAlways`,
`StableAddressAlways`, `NaturallyAlignedAlways` and `FrameCoversCodeAlways`, and
`Implements`, the refinement of `FrameAllocator`.

`IdentifierResolutionProofs`, for any names, depth, counter and number of
parameters (`BoundsAssumption`: they are naturals). The inductive invariant
`IInv` joins the shape of the state, `Numbered` (the i-th unique name has number
i - 1 and there are `currGlobalInt` of them), `TableBehind` (no entry of the
symbol table has a number that is still to come, which makes writing
a parameter's entry an insertion) and `Mirror`, which is `MapsMirrorScopes` of any stack
of maps. `Mirror` is shown to survive the three things that happen to the
stack: binding a name in the last map, appending a marked copy, and removing
the last map. Proved: `TypeCorrect`, `MapsMirrorScopesAlways`,
`UniqueNamesApartAlways`, `SymbolsKeptAlways`.

Its second part proves `ImplementsLexicalScopeAlways`: the
bindings of `LexicalScope` are what each map declares itself (`DeclaredIn`). The
invariant of this proof, `FInv`, adds two facts to `IInv`: a binding has the
external-linkage flag exactly if its name is one of the program's (`Global`), and
the file's map declares everything it has. Each action is then a
step of lexical scoping by name: opening and closing a scope, a linked or a local
declaration, a function's scope with its parameters, a use or a refusal; a use
is where `Mirror` comes in, and a refusal is legal since the flags that lead to
it say what the scope itself declares.

`LinkageProofs`, for any names, types and number of declarations
(`BoundAssumption`). The properties say what holds between top-level
declarations; what they need in between is that a declaration already compared
agrees with the entry, whatever is still to be compared. `LinkageInv` therefore
splits the declarations of a name into those with a check to come (`Unchecked`)
and the `Settled` ones, and says: settled declarations agree with the entry and
at most one defines (`SettledAgree`); what the entry says comes from a
declaration, its definition from a settled one (`EntryFounded`), so that every
refusal has a culprit; a name without entry has only variables still to be
checked (`NotEntered`), so that its first check sets the linkage of the first
declaration; a file-scope variable is the only declaration between its passes
(`FileVariableAlone`), without which a `static` variable could be overtaken; a
position is pending once (`PendingOnce`). There is a lemma for what resolution
does to this (`ResolveKeeps`), one for accepting with an entry that sums up the
old one and the declaration (`AcceptKeeps`, `Sums`), one for refusing
(`RefuseKeeps`), and one per action. Proved: `LinkageTypes`,
`AcceptedDeclarationsAgree`, `RefusedDeclarationsDisagree`, `EntriesSumUp`,
`DeclaredIsEmitted` and `LinkageNeverChanges`, that is, every property of the run.
`LinkageInv` also holds in every state of the run `Linkage`
(add it to the INVARIANTS of `Linkage.cfg` to see it; it implies the others, so
the run itself does not list it).

`SequenceLemmas` is about `FlattenSeq`, with which the driver and the calling
convention put lists together. The library defines it by recursion; what it
returns is proved by induction over the number of parts, as set induction over
`Nat` from the well-foundedness of `<` (`Induction`). `LaidOut(whole, at, seqs)`
says that part i lies behind place `at[i]`, and that the parts follow each other
and are all there is; `FlattenLaidOut` gives such places for any parts,
`FlattenAppend` what one part more does.

`DriverProofs`, for any paths, stems, texts, libraries and command lines
(`DriverAssumption`). `OnlyAcceptedAlways` needs only that a file is made of
files that are made of texts, and that linking joins objects (`FlattenLaidOut`).
`UpToDateAlways` says what holds at the exit; `Progress` says it of each word on
the way: between the words, all sources before `i` have objects of their texts
and are collected in this order (`Collecting`), the executable's name is that of
the last `-o` before `i` (`Named`), and while one source is in hand its own
files are as far as the step says (`InHand`), none of which disturbs another's
files, because the stems differ.

`CallingConventionProofs`, for any signature (`MaxArgs`), any
number of activations and calls, and any registers (`RegistersAssumption`: they
are different, none is `AX` or a scratch register, and there is an `XMM0`;
`BoundsAssumption`: the bounds are naturals). The run has five parameters and
three registers; the processor's six and eight, with lists of parameters that
overflow both, are covered by the proof only.

- The first part says what instruction stands where. `classifyCallArgs` splits the
  parameters into three lists, each without repetition, that together have all
  (`ClassFacts`); `LaidOut` gives the place of each part of the code after
  `fixMov`, which makes one instruction into two for stack parameters and the
  longword arguments are pushed by two. The results are `ParamsAt` and `ArgsAt`:
  the positions of the moves of each parameter and each argument, and of the body,
  the call and the return between them; `Covering` says that these are all. `Below` is where `rsp` is at each position.
- `Standing`, the first half of the inductive invariant: `Typed`; `Chain` (each
  frame is one `Pitch` below its caller's, so that frames are multiples of 16 and
  do not meet); `Pointers` (`rbp` is the newest frame, `rsp` is where `Below` puts
  it); `Saved` (the two words that every activation saved, its caller's frame and
  address, are unchanged). None of these is inductive alone: that the saved
  words survive needs every write to be below the frames of the others, which
  needs the pointers; that a return sets the pointers right needs the saved words.
  From `StandingAlways` follow `TypesAlways`, `AlignedAlways`,
  `FrameAlwaysRestored` and `ReturnsAlways`.
- `Carried`, the second half, follows a value from the caller's temporaries to
  the callee's slots and back: `Outgoing` (at each position before a call, the
  registers loaded and the words pushed so far hold their arguments, the
  temporaries hold the rest), `Incoming` (the callee's registers and stack hold
  the parameters not yet moved, its slots those moved), `Kept` (the slots of all
  activations that have started their bodies) and `Delivered` (the result, if the body
  returned one or came to its end as an `int` function, at each place it passes through). One lemma per region of the code
  (`CarriedStep` joins them) shows that an instruction moves its own value and
  disturbs no other, from `ArgsAt`, `ParamsAt` and from the disjointness in `Standing`.
  `CarriedAlways` gives `ParamsAlwaysKept` and `ResultsAlwaysDelivered`. With
  these, every property of the run is a theorem.

Both halves were checked by TLC as invariants of the run's instance.

`LexerProofs`, for any automaton and characters (`AutomatonAssumption`,
`TableAssumption`), any texts and any blanks. `ReadsAsAutomaton` says that the
lexer implements `Scanner` in every behaviour in which no set is dropped; that
none is for the automaton of C is part of `LongestTokens`, and
`DroppedWhenFull` says that one is only when the table is full of different sets. The invariant `IInv`
(`ConstructionAlways`) has four parts.

- `Closing`: the set that is being closed is `Growing` from the move it came from.
  A position in the sorted set is the number of smaller members (`Rank`, with
  `NthFacts`: there is a member at each position). What a visit adds is larger
  than the member visited (the automaton's assumption), so that the members in
  front of the position stay the same ones (`GrowingGoesOn`); at the end the set
  is a closure (`GrowingEnds`), and there is only one (`OneClosure`, by the
  smallest member that two would disagree about).
- `Table`: each state has the token of its set, and each transition leads to the
  closure of the move. `TableCreates` and `TableConnects` keep it.
- `Progress`: no transition is missing for the states and characters that have
  been gone through. A state has room for a transition on each of the 256
  characters, so that the bound in the loop over characters never cuts it short.
- `Reading`: the token accepted last was accepted m characters into the piece,
  and no state after it accepts.

`ScanFacts` then says that the match stops where the automaton has nowhere to go,
and each action is the step of `Scanner` of its name, or a stutter.

`SelectionProofs`, for any sizes of words (`WordSizes`) and any instructions
that satisfy `Cases`, so in particular for 32 and 64 bits and every value of every operand,
constants that need more than 32 bits among them. The argument
follows the passes.

- `HandlersRight`: what a parser makes is `Handled`, that is, a list of
  instructions that are each `Ready`: the fix-up turns them into lines that can be assembled
  and that write no register but a scratch one (`Fine`). There are two exceptions: a step of a double
  (`Stepping`), and a shift by what is no constant (`Borrows`), of which count and destination
  have cells (`InCell`). One lemma per parser, from the types of the operands
  (`OperandFits`: once names have their places, an operand is a source and a
  destination of its size).
- `PassRight`: the whole list, fixed and joined, is `FixedRight`. One lemma per
  fix function (`FixMov` .. `FixShift`) says that what it leaves is `Sound`, whatever
  mix of registers, memory and immediates it is given; that is where a missing case, a
  comparison with two memory operands or a large immediate, would show. A shift by
  what is no constant is moves and then exactly four lines that push `CX`, fill it, shift and pop it
  (`BorrowsAt`).
- `TextOf`: the text is `TextRight`. Every line assembles if and only if no double is
  stepped.
- `QuietLine`, `BorrowingStep`: a line that is `Quiet` leaves the stack and each
  register that is not for scratch alone, whatever it computes and even if it
  faults; of the four lines that borrow, none faults, since the count and the
  destination have cells, and none jumps, so that the pop is always reached.
- `IInv` puts this together, one lemma per action: between the push and the pop
  the stack is the old `CX` and nothing else differs (`Away`); everywhere else nothing
  differs (`Calm`). That `BorrowedBack` speaks only of the end makes it far from inductive; a
  fault between push and pop would break it.

Proved: `AllAssembleAlways`, `BorrowedBackAlways`. The third property of the run, `MeaningKept`, is checked
only: it compares rounding, shifts and remainders by powers of the word sizes, of which
the provers know nothing when the sizes are constants.

Model-checked only: all that is about trees, texts and token lists, which need
`RECURSIVE` operators (`Lowering`, `Parser`, `LexicalGrammar`, `Expressions`), and
`Selection`'s `MeaningKept`. Of the lexer that is `LongestTokens`: that the automaton of C accepts
C's tokens. Out of reach of the prover, and left to TLC where they
occur: liveness under fairness, `ENABLED`, induction with the library's theorems
that take an operator, and modules with `RECURSIVE` operators; the modules with
proofs have none.

## 5. Plan

Done, in the order of writing: `StackFrame` (proved), `IdentifierResolution`
(proved), `CallingConvention` (proved), `Linkage` (proved),
`Lowering`, `Selection` (proved but for its arithmetic), `Parser`, `Lexer` (proved but for C's tokens), `Expressions`,
`Driver` (proved).

Left, the most useful first:

1. Call arguments and `return` in `Expressions`: the conversions of
   `ExpressionTypeChecker.c` for calls, and `currentFuncReturnType`, which a
   prototype in a body overwrites.
2. Static initializers and the directives made of them: values modulo their
   width, runs of zeros, tentative variables without a value.
3. `Lowering` over trees with the expressions of `Expressions`, so that control
   and data meet in one run.

## 6. Not modelled

- Memory management (destructors, growth of arrays, sharing of nodes that a copy
  leaves) and failing `malloc`: trees and lists are values here. What is read
  without having been written is left out with the inputs that lead to it: a
  postfix step of what is no variable or of an array, an expression in a switch, which keeps no type.
- Printers and layout of text: nothing depends on them but people.
- The buckets of the hash tables: tables appear as functions from names.
- Static data (`StaticVarParser.c` and the directives printed for it), call
  arguments and returned values in the type checker, static initializers: see the plan.
- Lengths of strings in the driver, and the limits of `int` offsets: both are
  hazards with a note.
