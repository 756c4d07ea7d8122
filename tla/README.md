# PyExt: models, checks and proofs

PyExt is a WinDbg extension that shows the Python side of a stopped process or
dump: the Python stacks (`!pystack`), any object (`!pyobj`,
`!pyinterpreterframe`), and two commands to help it find its symbols
(`!pysymfix`, `!pysetautointerpreterstate`). It runs in the debugger, reads the
memory of the target through typed reads (`ExtRemoteTyped`), and supports
CPython from 2.7 to 3.14, whose structures differ from version to version.

Nothing in it runs concurrently: the target is stopped and the debugger runs
one command at a time. What is hard is something else:

- **Data nobody promised.** A dump may lack any page, a list may lead back into
  itself, a thread may have been stopped anywhere. Every read may throw.
- **Two families of exceptions.** `runtime_error` is a `std::exception`; the
  `ExtException` of a failed read is not. Which handler sees what decides how
  much of a listing survives.
- **Layouts.** The same question (where is the next frame, the dict, the entry,
  the line?) has a different answer in each version, and the source decides by
  the fields that a structure happens to have.
- **Histories.** What lies in memory depends on what the program did before:
  deletions leave holes, shared keys have no value, arrays become dicts. A test
  sees a few of these histories.
- **State across commands.** The symbol path, the loaded symbols and the
  override of the interpreter state live on between commands and targets.

## Components

| Component | State | Operations | What makes it correct |
|---|---|---|---|
| Stack walking (`pystack.cpp`, `PyInterpreterState`, `PyThreadState`, `PyInterpreterFrame`, `PyFrameObject`) | cursors on three nested linked lists, the printed listing | enumerate interpreter and thread states, find the top frame, skip incomplete frames, print a frame, go to the previous one, catch | every complete frame once and in order, a warning in one thread does not cost the others, it returns |
| Session (`pysymfix.cpp`, `pysetautointerpreterstate.cpp`, `extension.cpp`) | symbol path, loaded symbols, override | extend the path, load the symbols, set and reset the override | the path only grows and repeats nothing, symbols that can be had get loaded, a bad override displaces nothing |
| Object display (`extension.cpp`, `PyObject`, `PyListObject`, `PyTupleObject`, `PyCellObject`, `PySliceObject`, `PyWeakrefObject`) | the C++ call stack, the string being built, what is printed | make an object by its type, `repr()`, `details()`, print in pieces | each object under its container, once per reference, with bounded stack; no output longer than the debugger takes |
| Types, members and slots (`PyObjectMake`, `PyTypeObject`, `PyMemberDef`) | none, a function of memory | class for a name, mro, members, dict of a type | each slot of each base once, none that is not set |
| Dict layouts (`PyDictObject`, `PyDictKeysObject`) | none, a function of memory | `pairValues` | exactly the items of the dict |
| Set tables (`PySetObject`) | none, a function of memory | `listValue` | exactly the members of the set |
| Instance dicts (`PyObject::managedDict`, `PyObject::dict`, `PyVarObject`) | none, a function of memory | find the place of the attributes | exactly the attributes of the instance |
| Line tables (`PyCodeObject`) | an iterator over the table | three decoders | the line the compiler meant, no step past the table |
| Functions, generators and frames as objects (`PyFrame`, `PyInterpreterFrame`, `PyFrameObject`, `PyGenObject`, `PyFunctionObject`) | none, a function of memory | code, variables, line, state | each variable that is set, once, with its value; the line it stands at |
| Integers (`PyLongObject`) | a buffer of 64-bit words | convert base 2^30 or 2^15 to 10 | the number; no overflow |
| Strings (`PyStringValue`, `PyUnicodeObject`, `PyStringObject`, `PyByteArrayObject`) | none, a function of memory | find and read the text, clip it to bytes, escape it | the bytes of the text, in a literal that reads back |
| Memory views, ranges, super, floats, complex numbers, singletons | none | format a few fields | the fields there are, in order |
| Reading the target (`ExtHelpers`, `RemoteType`) | none | reads of a width, arrays, escaping | all elements, or an error |
| Known structs and DML output (`KnownStructObjectHandler`, `printDml`) | the line of the debugger, the pieces | append a repr to a line, cut a text | nothing lost, nothing too long |
| Scope guard (`utils/ScopeExit.h`), tests | | | not modelled, see below |

The components meet in few places. Every command begins with
`ensureSymbolsLoaded`, which tries `makeAutoInterpreterState`; the stack walk
begins with the same function, so the override of the session decides where it
starts. A frame's line comes from its code object's line table. `repr()` of an
object recurses through `PyObject::make`, which picks the class by the name of
the type. `details()` of an instance shows its built-in bases, its slots and the
dict that `dict()` finds, by the pairs that `pairValues` lists; that of a frame
or generator shows its variables.

## Modules

| Module | Models | Role |
|---|---|---|
| `Debuggee` | the memory the stack walk reads, and the pure functions on it | data of the two below |
| `StackReport` | what a listing of `!pystack` promises | abstract specification |
| `StackWalk` | `!pystack` step by step | detailed specification; `Promise == INSTANCE StackReport` |
| `StackWalk_proofs` | | theorems about `StackWalk`, the last that it implements `StackReport` |
| `Session`, `Session_proofs` | symbol path, symbols, override over several targets | specification, theorems |
| `Types` | the table of classes, mro and member definitions | operators |
| `Repr`, `Repr_proofs` | `!pyobj`, `!pyinterpreterframe` and the handler of known structs, with an explicit call stack | specification, theorems |
| `ReprText` | what these print, as a function of the object graph | reference definition, extends `Repr` |
| `DictLayout` | `pairValues` over four layouts of dicts, `listValue` over three of sets | operators |
| `DictObject`, `DictObject_proofs` | what CPython does to a dict or a set, read by `DictLayout` | environment, theorems |
| `InstanceDict`, `InstanceDict_proofs` | `managedDict()`, `dict()`, and where CPython keeps attributes | operators and environment, theorems |
| `LineTable` | the three decoders, step by step, and CPython's compilers of the tables | steps and environment |
| `Frames` | a frame or generator that runs; its code, variables, line and state as PyExt reads them | specification, extends `LineTable` |
| `LongRepr`, `LongRepr_proofs` | `PyLongObject::repr` | specification, theorems |
| `Strings` | where str, bytes and bytearray keep their text, and the literal shown for it | operators and environment |
| `Decoders_proofs` | | theorems about `Strings`, `LineTable` and `Frames` |
| `Induction` | | lemmas about recursive functions and sequences put together from pieces, for the proofs |
| `MC...` | the instances that TLC checks | |

A definition marked "Wrong on purpose" is a plausible bug of the operator below
it and used by no specification; it shows that a property can fail.

### StackWalk

A linked list of CPython is the sequence of its nodes and the address of a node
its position, with 0 for null; a frame chain has a `back`, to which its oldest
frame points, so corrupt chains can be cyclic. A frame is a record of what
matters to the walk: whether it can be read and is a frame, its owner, whether
it has reached its first traceable instruction, what following its code pointer
gives, and whether its dicts can be read. `legacy` is the layout before 3.11.

`pc` names the place in `pystack.cpp`; the actions carry the names of the
functions. `Throw("std")` and `Throw("ext")` stand for the two families of
exceptions, `CatchInThread` and `CatchInCommand` for the two handlers, `Escape`
for an `ExtException`, which passes both and ends the command. The report is a
sequence of blocks: the thread, the frames shown and how the block ended.

`StackReport` has the same report and no cursor: it only says that a frame that
is shown is the next complete one, that threads are visited in order and that a
block is closed in one of five ways. Where a listing starts (`FirstState`) it says
in its own terms: what an override gives comes before what the debuggee says.
`KeepsPromise` is the refinement.

### Session

`target` is the process or dump being debugged, and `SwitchTarget` replaces it
between commands. The symbol path is a sequence of directories; `Inside` says
for which directories the text of one occurs in the text of another, because
the code looks for a substring of the whole path. `!pysymfix` is several
actions over its local copy of the path; the other commands are one action each.
Setting the new path may fail (`SymFixFails`), and so may reading it back
(`SymFixReadBackFails`), after which the new path stays and no symbols are loaded.
`EnsureSymbolsLoaded` is the function of that name. An override evaluates
always, with the symbols, or never, which depends on the target.

### Types and Repr

An object graph gives every address its type, its items and what its details
show: the members at their offsets, the variables of a frame or generator (for a
memoryview its exporter), and its dict. `MadeAs` is the factory table. Fields of
slices, ranges and weak references and members may be null; items of lists,
tuples and cells are taken for granted. The C++ stack is `stack`, a sequence of
calls with the item each is at, limited to `StackLimit`. Reading an object that
is not in the dump throws, and the text built so far is lost; only `!pyobj` has
printed a heading by then. `rank` is a
witness for acyclicity: a container's rank is above the rank of the containers
it holds. `repr()` of an instance does not expand it; `details()` does, once, so
what instances refer to may lead back.

The command runs through `make`, `repr` and the parts of `details()`: `bases`
(the object as each built-in type of its mro), `slots` (the `T_OBJECT_EX`
members of every class of the mro, read word by word from `MemberWords`),
`locals`, then `members`, where what was collected is printed, and `dict`. What
is collected is made an object at once and printed later, as in the code. The
dict of a type built into the interpreter is at its index in an array of the
interpreter state. `Chunks` is the loop of `printDml`, `AppendRepr` the handler
of known structs, which appends a `repr()` to a line already begun and replaces
one that is too long.

`ReprText` computes the expected output by recursion over the graph, without a
stack, a cursor or words: the text of an object shown as one of its kinds is made
of the texts of its items, down to the height of the graph. `Ordinary` names the
graphs it speaks of: `Consistent` ones, which is what a process can have (shape and
strides have an entry for each dimension, an interpreter's type knows its index,
`!pyinterpreterframe` is given a frame), without the three oddities that
`Ranked`, `PlainMetaclasses` and `ExtensionType` name below. In the run
`Consistent` excludes no graph that comes to its end.

### DictLayout, DictObject, InstanceDict

`DictLayout` is the code: where the entries are, how many are visited, where a
value comes from, which are skipped. The four layouts are told apart as in the
source. `DictObject` is the other side, which is not in this repository: it
inserts, replaces, deletes, rebuilds, and shares keys, and keeps the items the
dict has as a mapping. A set is a hash table of the same kind whose members are
items without a value; its three layouts differ by the symbol that tells PyExt
which key stands for a removed entry. The properties say that the first module
shows what the second holds, after any sequence of these operations.

`InstanceDict` does the same for the attributes of an instance. The words in
front of the object, the word at `tp_dictoffset`, the array of values and the
word behind the object are variables; the actions set and delete attributes,
create the dict and delete it. `ManagedDict`, `Size`, `DictOffset`, `FoundIn` and
`ManagedPairValues` are the code; for an int of 3.12 or later `Size` is what
lies in `lv_tag`. A word that is no pointer to a dict, and not 0, is read as one
all the same: `Attributes` is then `Rubbish`, a constant.

### LineTable and Frames

`LnotabPairs`, `LinetablePairs` and `LocationEntries` compile a run of
instructions of one line into its entries, with everything that splits a run:
lengths beyond a byte, line jumps beyond a signed byte, at most eight code units
per location. `Joined` puts the entries of all runs into the bytes of the table.
The decoders are actions, one per round of their loop, with the iterator `it`;
`Stops` are its places at which a loop ends.

`Frames` puts a frame of CPython 3.9 to 3.14 around it, as a frame object, an
internal frame or a generator. The debuggee runs: `Advance` (the next
instruction), `SetVariable`, `SetTrace`, `StopTracing`, `CallTrace` (`f_lineno`
is kept up to date only by some of these, in some versions), `ReplaceCode` and
`SwitchGenerator`. At any point the debugger stops it and one command starts:
`ShowDetails` reads the variables and the state, `CurrentLineNumber` chooses
between `f_lineno` and the decoders, whose loop follows. `OldSlots` and
`NewSlots` are the two layouts of the variables, with empty slots of arguments
that are cells, and with the tags of 3.14.

### LongRepr

The bases are constants. The loops of the conversion are actions: `Carry` is
one word of the buffer, `Push` one new word. An int may have room for more digits
than it uses. `Values` are what the leading words of a sequence are worth;
`Number` and `Buffered` are those of the int and of the buffer. The powers of ten
are a function, `TenTo`, because the provers have no rule for `^`.

### Strings

The variables are the header of a str, the wide copy that an old one may have,
the block of characters with its place and width, and the start of a bytearray
in its block. `Ready`, `AsUnicode`, `DeleteBytes` and `AppendByte` are CPython;
`Resize` is the policy of `PyByteArray_Resize`, which decides when a moved start
goes back. `StringValue` and `EscapeAndQuoteString` are the code; `Extent` is the
number of bytes of one read, which `readArray` narrows to 32 bits after it has
checked the number of elements (`Refused`), and a bytearray without. `Reading` is
Python's reader of literals and knows nothing of how they were written. `ReadsBack`
has two parts: the bytes that are read are those of the text, `TextBytes`, which
are the low bytes of the characters CPython has, and zeros where one read ends;
and of the literal Python reads these bytes, `ReadAs`, which exchanges the digits
of those in hexadecimal, because the code does.

## Runs

| Run | Question | Instance |
|---|---|---|
| `stack_walk` | is the listing right, whatever the chains and lists? does the walk implement `StackReport`? does the command return? | every chain of up to three frames of eight kinds, with a second thread; old layout with foreign objects; every pair of interpreter states with up to two threads; chains of three frames whose last pointer leads to any of them, up to `MaxShown` lines; all six ways to call |
| `stack_all_threads` | are all threads listed whose state can be read? (no) | a thread without frames in both layouts; chains of two frames, one missing |
| `session` | what do sequences of commands on several targets leave? | four targets, three directories, two overrides |
| `session_nested` | is every local PDB's directory added? (no) | one directory's text within another's |
| `dict_object` | does the listing have exactly the items or members, in order, and do the loops stay in the arrays? | dicts and sets of all layouts over two keys, two values, three entries; index tables of 2 to 65536 slots |
| `instance_dict` | are attributes found wherever they are? | three attributes, two shared keys, six types, four versions, four sizes, zero or another word behind the object |
| `instance_no_dict` | is nothing shown where there is no dict? (no) | the same |
| `repr` | is each graph printed as it should be, within the stack and the limits of the output, and does the command return? | three objects of all classes, shared and missing, with slots, dicts and bases; the three commands |
| `line_table` | is each frame on its line and shown with its variables, and does a decoder stay in its table? | six versions; up to three runs, lengths and jumps around every limit of an entry; a frame of four variables that runs |
| `long_repr` | is the number printed, and does no word overflow? | bases 128 and 100, up to three digits, with and without one to spare |
| `strings` | are the bytes that are read those of the text, and is what is shown a literal of them? | texts of up to three of eleven characters in every layout; bytearrays of up to five bytes |
| `strings_front` | is a bytearray shown as it is? (no) | one of four bytes |

**Bounds.** In the stack walk each step looks at one frame and one successor,
and the only memory across steps is the last frame shown; three frames contain
every order of complete and incomplete frames around one that is shown, and two
threads in two interpreter states every boundary between lists. `MaxShown`, 7,
bounds the lines only where a chain is cyclic. Two keys give an order of
insertion different from that of the shared keys, and a hole in front of a live
entry; three entries let a removed member's slot be used again while another
stays. The exponents of `Log2Sizes`, 1, 2, 7, 8, 15 and 16, lie on both sides of
each limit of the width of an index (2^32 is above what TLC computes with and is
left to reading). Three attributes with room for two shared keys reach the case
in which an array has to become a dict. Graphs of three objects have sharing,
nesting and a missing object at each place. The `StackLimit` of five leaves one
call more than the deepest of them needs; a `ChunkSize` of three cuts most texts
into several pieces, and an `AppendLimit` of six is reached, met exactly and
exceeded by them. The run lengths and line jumps of `MCLineTable` are chosen
around the limits of each encoding; the frame that is seen to run (`Watched`) has
two runs, so that it can leave a line, and one variable of each sort: argument
in a cell, local, cell, free. The eleven characters of `MCStrings` have each form
of escape and each width, two of them clip to others that matter; three of them
reach every pair of neighbours. `ExtentLimit` is 12 and stands for 2^32: three
characters of four bytes reach it. The bytearrays have up to `MaxBytes`, 5 or 6,
enough for the start to move and to go back. Of the bases of `long_repr`, 128
and 100, neither divides the other and the first is the larger, as 2^30 is than
10^9.

**Fairness.** A command is one synchronous call that the debugger runs to its
end, so each of its steps is taken: weak fairness of the whole next-state
relation of `StackWalk` and of the steps of `Repr`. The other specifications
have no fairness and no liveness property.

**Deadlock** is checked in all runs in which a command can end: the end is a
stuttering action. Where a cfg switches it off, the bound on the
lines stops the walk of a cyclic chain (`StackWalk.cfg`; on other chains
`Terminates` says more), or an immutable object has nothing left to do
(`Strings.cfg`).

## What the runs found

- Before 3.11, a thread without Python frames ends `!pystack -all`:
  `currentFrame()` goes on to a field that does not exist
  (`src/PyThreadState.cpp:51`). So does a missing frame in any version: the
  handler around each thread catches `std::exception` and the failing read throws
  `ExtException` (`src/pystack.cpp:120`). The README says that all threads are
  displayed.
- `!pysymfix` does not add a directory whose text occurs within an entry of the
  path, as `C:\Python` does in `C:\Python\Lib` (`src/pysymfix.cpp:81`).
- For a 3.13 instance whose managed dict does not exist yet the word behind the
  object is read as the pointer to it (`src/objects/PyObject.cpp:142`).
- A bytearray whose first bytes have been deleted is shown with the bytes at the
  start of its allocation (`src/objects/PyByteArrayObject.cpp:44`).

Seen as well, and named as the conditions under which the properties hold:

| Condition | What the code does there |
|---|---|
| `Ranked` | a container that contains itself exhausts the stack |
| `LineIsFull` | a text that fills a line of the debugger to the last character passes the test and makes the append throw: the terminating null is forgotten (`src/extension.cpp:55`) |
| `ExtensionType` | a type of an extension module is looked up among the types of the interpreter (`src/objects/PyTypeObject.cpp:151`) |
| `PlainMetaclasses` | `super`, or an object of a type derived from it, of a class whose metaclass is not `type` shows NULL for it (`src/objects/PySuperObject.cpp:19`) |
| `DummyIsKnown` | removed members of a set of Python 2 are listed (`src/objects/PySetObject.cpp:30`) |
| `SizeInTag` | the dict of an int subclass of 3.12 or later is looked for at a wrong place (`src/objects/PyObject.cpp:147`) |
| `ReadsBeyond` | with no array and no dict yet, the word behind an instance of 3.12 or 3.13 is taken for the address of its dict (`src/objects/PyObject.cpp:142`); harmless if it is 0 |
| `CodeReplaced` | 3.12 takes the code of a running frame from its function, which may have another one by now (`src/PyInterpreterFrame.cpp:87`) |
| `LinenoIsStale` | `f_lineno` of a traced frame is used when CPython does not keep it up to date (`src/objects/PyFrameObject.cpp:102`) |
| `HasNoLocals` | a generator that has ended still shows its variables since 3.11 (`src/objects/PyGenObject.cpp:120`), a frame object of 3.11 or later shows none |
| `version >= 13` in `ShowsTheFrame` | the names of generator states are for the numbers of 3.13; before 3.11 each generator is "executing" (`src/objects/PyGenObject.cpp:55`) |
| `ReadShort` | an old str with characters beyond 16 bits loses its end once CPython has made a wide copy of it (`src/objects/PyUnicodeObject.cpp:151`) |
| `FrontDeleted` | a bytearray is read from the start of its allocation (`src/objects/PyByteArrayObject.cpp:44`) |

Two oddities are stated by `ReadsBack` rather than excluded: characters in hexadecimal
are written with the low digit first (`src/objects/PyStringValue.cpp:13`), so that
Python reads another byte (`ReadAs`); and a text of 2^32 bytes or more is read in
part and the rest shows as zeros (`src/ExtHelpers.h:50`, `TextBytes`).

Two more are left out of the instances: a class of the program whose name is
that of a built-in type is displayed as that type
(`src/objects/PyObjectMake.cpp:112`), and a type that is not ready yet has a
null `tp_mro`, which `details()` reads (`src/objects/PyObject.cpp:49`).

## Proofs

The theorems hold for all values of the constants that satisfy the named
assumptions; TLC evaluates the assumptions on the instances. The inductive
invariants `InductiveInv` (one in each of five modules), `PromiseInv`, `PathInv`,
`ContentInv`, `CommandInv` and `FramesInv` are built from predicates that the runs check
too; `TextInv` is an exception: the run checks what follows from it at the end.

- `StackWalk_proofs`: `InductiveInvariance` proves `Spec => []InductiveInv`,
  from which `TypeCorrectness` and `NothingIsLeftOut` follow. `NothingLeftOut`
  is not inductive: it says nothing about the cursor. `CursorOK` says on which
  lists the cursor is and that a block is open exactly during a walk; `WalkOK`
  says that all frames between the last one shown and the cursor are incomplete,
  that the cursor at the line of a frame is at the next complete frame, and that
  at the end of the chain nothing is left. There is one lemma for each action.
  Acyclicity is not assumed. `WalkKeepsPromise` proves `Spec => KeepsPromise`:
  every step of the walk is a step of `StackReport` or a stutter. That a block may
  be closed, or the command end, depends on what happened before: `PromiseInv`
  strengthens `InductiveInv` by `SearchOK` (the threads in front of the cursor
  have their blocks, in list order) and `EndsOK` (an exception under way has its
  cause in the memory, and the command is only left when every thread has been
  dealt with). `FinishedAllLists` follows from the same invariants.
- `Session_proofs`: `PathInvariance` proves that while `!pysymfix` scans, its
  copy extends the path by entries it did not have; `NoEntryIsAddedTwice` and
  `UserEntriesStay` follow, the second as an action property. The proof uses
  that a directory's text occurs in itself (`SessionAssumption`).
  `OverrideIsKept` needs no invariant. `SymFixFindsSymbols` assumes that no
  directory's text occurs in another's, without which it is false (see
  `session_nested`); its invariant says that the copy, and later the path, has
  the directory of every local PDB scanned so far.
- `Repr_proofs`: `CallsAreGood` proves that the rank of the object of the i-th
  call, plus i, is at most the height plus two, because a call from a container
  is for an object of lower rank; the first call may be for a base class of an
  instance or a slot, hence the two. `EnoughStack` follows for every graph whose
  containers nest to a bounded depth and every stack above that.
  `CommandInvariance` ties the phase of the command to its stack, its cursors and
  its output; with it, `FailuresHaveReasons` proves that a command fails only
  where an object is missing, a line is full or a dict is looked for in the wrong
  place, and `OutputsFit` that no piece of `printDml` and no line of the handler
  exceeds the limit.
- `Repr_proofs`, the text: `GraphIsPrinted` proves `PrintsTheGraph`, for any
  ordinary graph, any nesting, any table of types and any size of the outputs. The
  property speaks of the last state only; `TextInv`, which `TextInvariance` proves
  with the facts on the phases it needs (`PhasesInv`), says that what is written and what is left to
  write is the expected text at every step. What is left is computed from the
  state: what each call on the stack has to write from its next item on (`Rest`,
  from the innermost call outwards `Due`), the members that were found and not shown
  yet (`Found`), the bases, members or variables in front of the cursor (`Ahead`), and
  what closes the details. A step of `repr()` then takes what it writes from the
  front of `Due`, or exchanges the text of an item for a call for it; a step of
  the walk that writes nothing leaves the rest as long as it was, or moves a
  member from `Ahead` to `Found`. The recursion over the graph is cut off at a number
  of levels; a call of depth j is compared with the texts of all but j of them, and
  by `CallsAreGood` no call is deeper than these. Where printDml cuts the text into
  pieces, the pieces joined are the text (`ChunksJoin`).
- `DictObject_proofs`: `ContentInvariance` proves `ContentInv`, and from it
  follow `EveryItemIsListed`, `ItemsAreInOrder`, `EveryMemberIsListed` and
  `ListingStaysInBounds`, for any keys, values and sizes. The properties speak
  of what the loop returns and are not inductive; `ContentInv` speaks of the
  memory: the entries that carry something and the items are the same pairs
  (`SamePairs`), no key twice (`Tidy`), in the same order where the layout keeps
  it (`SameOrder`), in a table of the right shape (`LaidOut`). The step to the
  listing is counting: the j-th entry that is not skipped exists, is one and
  comes before the next (`Nth`), which is shown by mapping finite sets onto each
  other rather than by induction. `PowerAssumption` states facts about 2^n, true
  of every natural number, for which the provers have no rule.
- `InstanceDict_proofs`: the invariant says in which of its places CPython keeps
  the attributes and what the other places then hold; `PlacesAreFound` proves it,
  and `AttributesAreListed` that PyExt shows exactly the attributes, under the
  two conditions of the property, `SizeInTag` and `ReadsBeyond`. The case of an
  instance that has neither array nor dict is where `Rubbish` must be kept out: no
  place that is looked at holds another word than 0 (`NothingFound`), in particular
  not the aligned one behind the object (`BehindTheObject`). For a dict that exists,
  it takes the listing of its pairs from `DictObject_proofs` by an instance of that
  module.
- `Decoders_proofs`, texts: the invariant describes where a text lies after any sequence
  of copies, deletions and appends (`TextsStayInPlace`). `NothingElseIsRead` and
  `EmptyIsEmpty` follow. `LiteralsReadBack` says that the bytes read are those of the
  text (`TheTextIsRead`, which needs the invariant), and that Python's reader makes
  these bytes of the literal, those in hexadecimal with their digits exchanged: the
  literal is cut into the piece
  of each character (`FlattenLayout`), and the reader, which is a recursive
  function from the back, is followed piece by piece.
- `Decoders_proofs`, lines: `DecodersFollowTheRuns` proves `FramesInv`, from which
  `LinesAreRight`, `DetailsAreRight` and `DecodersStayInTheTable` follow.
  `ShowsTheLine` is not inductive: it says nothing of a decoder that is under way.
  `OwnTable` says that such a decoder stands behind the first j entries of run k,
  with the address and the line these come to (`HasRead`), and has not passed the
  instruction; `OtherTable` says the same of the table of a replaced code object,
  and `LinenoOK` when `f_lineno` is right. What j entries of a run come to is a
  closed form (`Partial`): a length or jump that is split is at its limit until the
  last step. The lemmas say that each entry of each format is worth the difference
  of two such partial sums, and that the round of its decoder reads exactly that
  entry and adds its worth, for every form of location and both lengths of a
  varint. A round that passes the instruction was in the run that contains it.
- `Decoders_proofs`, variables: before 3.11 the slots are three lists one behind the
  other, since then one; in both, each variable has one slot whose word is not null
  unless the variable is unset, and an argument in a cell a second one that is
  null (`IsComplete`). What is kept of the slots are then the variables that are
  set, each once, or one of the words is that of an empty cell, which fails.
- `LongRepr_proofs`: `ConversionIsSafe` proves that words of the buffer stay
  below `DECIMAL_BASE` and the carry below `BASE`, so that a shifted word is
  below their product. With 10^9 and 2^30, or 10^4 and 2^15, that is below 2^64.
  It also proves what the buffer is worth (`ValueKept`): the words that are done
  and the carry at its place are the number so far, those that follow are still
  to be multiplied; and that the last word is not 0 (`NoZeroInFront`), on which
  the number of characters depends. `TextIsTheNumber` concludes that the
  characters printed are the decimal digits of the int, with the sign and without
  a leading zero. The steps in between are about values alone: two sequences with
  the same leading words are worth the same, one behind the other is worth the sum
  at its place, nine characters from remainders are worth the word.
- `Induction`: what these need instead of the library's theorems, which take a
  predicate as parameter. The predicate is a set of numbers here: a set with 0
  that has the successor of each member has every number. From it follow that a
  recursive function on the numbers has a solution that obeys its equation, and
  that `FlattenSeq` puts its pieces behind each other, at places that grow, and
  joins two lists of pieces to the two joined.

The assumptions are `DebuggeeAssumption` and its like: types of the constants,
a stack of positive height, a nonempty set of names. Three carry more:
`LongAssumption` says that a decimal word is a power of ten, that an int
has no leading zero digit and that 0 has no sign, as CPython keeps them;
`StringsAssumption` gives the limits of the encodings; `LineAssumption` takes
programs of any number of runs, each of up to 1000 instructions and with jumps of
up to 2000 lines, within which a varint has one or two bytes: longer varints are
read by the same loop and are neither proved nor checked.

Only model-checked: termination (`Terminates`, `Returns`), which is liveness and
out of the prover's reach, and what the runs show that expect a violation.

## Not modelled

- The wording and markup of output; symbol resolution and the engine itself,
  which appear as outcomes of reads; DML tags and their escaping, so that a cut
  of `printDml` within a tag is not seen.
- The formatting of floats, complex numbers and singletons, the int and bool of
  Python 2, and the accessors of functions and types that no command calls:
  nothing of them depends on an order or on another object.
- `ScopeExit`: no source file of the extension uses it, only its own test.
- `readIntegral` and `lossless_cast`, casts around one read, among them that of
  a thread's id to a `long` (`src/PyThreadState.cpp:74`).
- Tests, project files and vendored code; the tests tell what is expected.
- Undefined behaviour on overwritten line tables (`src/objects/PyCodeObject.cpp:292`)
  and the handling of a foreign C++ exception by the engine
  (`src/pysymfix.cpp:96`) are outside of what the source determines.

## Plan

Modelled first: what a user sees and relies on most, the stacks, then what every
command depends on, then the objects. The components above are done. What is
left:

1. Compositions: `InstanceDict` and `DictObject` under `Repr`, so that what is
   displayed is what the program did; `Session` in front of `StackWalk`, so that
   the override decides where it starts.
2. Tokens that are DML tags in `Repr`, for the cuts of `printDml`.
