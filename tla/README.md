# A verification project for sdkcc

sdkcc reads an OpenAPI 3.1 description (YAML or JSON), lowers a subset of it to
an intermediate form (NAIR) and generates a C23 SDK, and a C++23 layer over it,
that run on a small C runtime. This directory holds TLA+ models of the parts of
it whose correctness is hard to test, the TLC runs that check them on small
instances, and proofs that TLAPS checks for every value of the constants.

Paths below are relative to `src/`.

## 1. Inventory

| Component | State it keeps | Operations | Used by | What is hard | What makes it correct |
|---|---|---|---|---|---|
| Allocator contract, `runtime/src/allocator.c` | blocks and the size each was allocated with | alloc, realloc, free through a vtable of the embedding program; `checked_add`, `checked_mul` | everything in the runtime | every call may fail; the caller passes the size again on free | sizes never overflow; every block is freed once, with its size |
| Strings and buffers, `runtime/src/buffer.c` | pointer, length, capacity, allocator | copy, reset, init, reserve, append, error_set | request, transport, JSON, generated code | growth near `SIZE_MAX`; failure after the old value was freed | what is written fits what is allocated |
| Request builder, `runtime/src/request.c` | method, URL, body, growing array of headers | create, destroy, set_method, set_url, set_body, add_header, getters | generated endpoints, transports | add_header makes three allocator calls, each may fail | exact ownership; a failed add_header cannot be seen |
| Test transport, `runtime/src/test_transport.c` | array of expectations, number consumed | create, destroy, expect, send, verify | tests, behind `sdkcc_v1_transport_send` | expect makes 4 + 2 * headers copies; delivery may fail after the match | FIFO; only a delivered answer consumes an expectation |
| JSON, `runtime/src/json.c` | a scanner over borrowed bytes | object_visit, value_to_*, write_* | generated parsers and serializers | UTF-8, escapes, int64 limits, depth; members are handed out before the rest of the text was seen | accepts exactly JSON, decodes exactly the value, reads what it wrote |
| C backend, `compiler/backend/c/generator.cpp` | none; emits text | header, source, CMake target | driver | the *emitted* endpoint: a sequence of fallible calls with one cleanup | nothing leaks, a response is complete or empty |
| Naming, `compiler/naming/naming.cpp`, `compiler/passes/prepare_codegen.cpp` | claimed identifiers of a scope | canonical_identifier, claim | backends | three names can collide where two cannot | distinct portable identifiers |
| Code writer, `compiler/backend/code_writer.cpp` | the output directory, across runs | write_generated_files | driver | a failure or a crash at every file system call | no torn file; success is complete |
| Front end, `compiler/frontend/openapi/parser.cpp` | parsed nodes, state of each YAML node | parse_yaml, parse_json, parse_document | driver | aliases (sharing, cycles), limits | every node translated once; limits hold |
| Lowering, `compiler/frontend/openapi/lower.cpp` | NAIR module under construction, security schemes | parse_components, _paths, _operation, ... | driver | rules that combine two places of a document | a module without diagnostics means what the document says |
| Source model, interner, NAIR | arenas addressed by dense ids | add, find, intern | front end, lowering, backends | - | ids are in range and never reused |
| C++ backend and wrapper, `compiler/backend/cpp/generator.cpp`, `include/sdkcc/sdkcc.hpp` | client objects that own a handle, guards | create, move, destroy, one method per endpoint | applications | moves and assignments in any order; a copy that throws after the C call; failure without an error object | one owner per handle; the caller sees what the C call said |
| Driver, CLI, diagnostics, `compiler/driver.cpp`, `compiler/cli/main.cpp` | options, input bytes, error count | parse_arguments, read_input, compile, main | user, build systems | input changes while it is read; any stage fails or throws | the exit code can be relied on; what is generated comes from the input |

The program has no threads: `TRANSPORT.md` makes request builders and clients
"not concurrently mutable" and the test transport single-thread-bound. What
interleaves is the runtime with callbacks of the embedding program (allocator,
transport, JSON visitor) and the generator with whoever else uses its output
directory. The interesting behaviour is therefore failure between two steps,
order of calls, and limits.

PROJECT.json lists the hazards with their lines, and which property covers each.

## 2. Modules

| Module | Models | State and actions against the code |
|---|---|---|
| `CheckedSize` | size_t of width `WordBits`; `checked_add`, `checked_mul`; result of the growth loop | constant-level. `Grown` is the loop's result as one operator, over sets, so that modules with proofs can use it |
| `GrowthLoop` | the loop itself, one iteration a step | `next`, and `at`, which says whether it still runs; `LeaveLoop`, `TakeRequired`, `DoubleNext` are its three branches |
| `Heap` | the allocator vtable | block -> size, 0 when free; `Release`, `Place`, `Candidates` (which free blocks an allocation may return) |
| `RequestContract` | what a caller of the request builder may rely on | no memory: method, URL, body, sequence of headers |
| `Request` | `request.c` with the string and buffer code below it | a pointer field is an *owner*; `ptr` says which block it holds, `text` what is in it. One action per API call; `add_header` is `AddHeader`, `CopyName`, `CopyValue`, one per allocator call |
| `ExpectationQueue` | what a test may rely on | FIFO of expectations, number consumed, the request last submitted, last response; a request consumes the next expectation exactly if it matches it and is delivered |
| `TestTransport` | `test_transport.c`, `transport_send`, `response_reset` | as `Request`; `Expect` starts a copy, `Fill` and `FillFails` are one copy each in the order of `Field`, `FillFails` being `goto fail` |
| `FileWriter` | `write_generated_files` and the directory across runs | `dest` and `temp` per path; `pc` is the next system call; every call can fail with its diagnostic, `Crash` can come between any two |
| `Driver` | `main`, `parse_arguments`, `compile` and `read_input`, over `FileWriter` | `phase` is the next stage; one action per stage, `Read` per block of the input; `Edit` is whoever writes the input file, `Throw` an exception inside of `compile`, `Die` the end of the process at any point. `Write` is a step of `FileWriter`, which `Generate` starts with the files of the options; with `caller = "program"` another user of the library starts it, with any files |
| `NameScope` | `canonical_identifier`, `NameScope::claim` | constant-level: an identifier is the sequence of its words |
| `CodegenNames` | the claims of `prepare_codegen`, and the C declarations made of them | one claim per step; `FileScope` (with a second struct for the type of a request body) and `StructMembers` are the identifiers the header declares |
| `EndpointCall` | the generated client and one running endpoint call (emitted by `generator.cpp`), its parser and the caller's response and error object | `pc` is the next runtime call of the emitted function; the request is `RequestContract` instantiated, so each step on it is a step of that contract; `held` says what owns memory; `visited` members of the answer have gone through `visit_<type>` |
| `CppClient` | the emitted C++ class, `error_slot`, the response guard, over `EndpointCall` | `handle` is `handle_` of each client object and `clients` what lies behind the handles; a method is `Enter`, `CallC`, the steps of the C function, and `CallReturns` with a value, an error or an exception. With `language = "C"` the program calls the C functions itself |
| `JsonText` | the byte-level functions of `json.c`: strings, UTF-8, escapes, numbers, conversions, writers | constant-level, over sequences of bytes |
| `JsonGrammar` | nothing of the code: what JSON (RFC 8259) and UTF-8 say | constant-level: tokens, brackets removed from the inside out, code points by arithmetic |
| `JsonReader` | `object_visit` with its scanner and a visitor that converts, or refuses, what it gets; the emitted serializer in front of it | `cursor` and `stack` are the scanner and the running calls of `scan_object` and `scan_array`; one action per key, value, call of the visitor and separator |
| `DocumentParser` | `parse_document`: `YamlBuilder` and `JsonBuilder` over what libyaml and simdjson load | `source` is the loaded graph; `stack` is the running `build` calls, so the recursion depth is its length; `states`, `translated`, `target` are the members of the same names; `BuildRoot`, `BuildItem`, `FinishNode` are the entry, one loop iteration and the return of a build |
| `Lowering` | `lower_to_nair` over a parsed description | `types`, `schemaType`, `schemes`, `rootSecurity`, `active`, `endpoints` are the module and the members of `Lowerer`; one action per `parse_` function that adds to them, `ParseOperation` for each operation in the order of `parse_paths` |

`MCRequest`, `MCTestTransport`, `MCCodegenNames`, `MCCppClient`, `MCJsonReader`,
`MCDocumentParser` and `MCLowering` give the constants values; `GrowthLoop` and
`Driver` are run as they are. `HeapProofs`, `RequestProofs` (of `GrowthLoop` as
well), `TestTransportProofs`, `DriverProofs` (of `FileWriter` as well),
`CppClientProofs` (of `EndpointCall` as well), `DocumentParserProofs`,
`LoweringProofs` (of `CodegenNames` as well) and `JsonReaderProofs` (of `JsonText`
as well) hold the proofs. `Request` and `TestTransport` are built on `Heap`, which is
built on `CheckedSize`; `Request` implements `RequestContract` and
`TestTransport` implements `ExpectationQueue`, by refinement mappings that
show the state as the getters do. `EndpointCall` uses the request through that
contract and not through its memory. The transport of `EndpointCall` is any
program's, not the test transport. Two modules compose: `CppClient` takes the
steps of `EndpointCall` between its own, and `Driver` those of `FileWriter`. In
both the inner component is also driven by itself (from C; by another program),
so one run checks it in either setting, and the properties of the inner module
are checked of the whole. That `JsonReader` gives the members of an object to its
visitor in order, each once, is what `EndpointCall` takes for granted when it
visits the members of an answer.

Operators named "Mutant" in a comment are deliberate mistakes (a dropped check, a missing
reset). No specification uses them; put in place of the definition they imitate,
each makes a property fail, which shows that the property looks at the code.

### Abstractions

- A text is its length and, where the code looks at it, the class of its bytes;
  a file's content is the run that wrote it and whether it is all there; a name
  is its words and its spelling.
- Successful calls of the request builder all return `SDKCC_OK`; the model names the status after
  the call, so that the contract can tell which effect a success promises.
- Arguments that the API refuses without looking at its state (null output
  pointers, incomplete allocators) are left out where the refusal changes nothing.
- In `EndpointCall` a text is the sequence of the parts it was made of, and a
  JSON body is the members of its object, with the point where the text stops
  being one. The appends that build the URL are one step that may fail early or
  late, and so are those of the serializer: nothing between them is visible.
  A value of the wrong kind and one out of range are one value, `Alien`.
- In `JsonReader` a text is its bytes, given lexeme by lexeme so that the grammar
  need not find them again. The limits of the code (4096 bytes of a key, int64,
  64 levels) are constants.
- In `Driver` the input is a sequence of blocks, each labelled with the edit of
  the file that it comes from; what a stage finds in them is left open, except
  that an empty text and one with zero bytes are refused. A file that the options
  add stands for all files of one backend.
- In `DocumentParser` a scalar is its kind and a key is a model value with its
  length class; in `Lowering` a description is a record of what the pass looks
  at, a schema a reference or its properties, a path template the set of names
  in it. A value of the wrong JSON kind is refused by the code where it is met
  and is left out, like the other refusals that leave nothing behind.
- The heap hands out its lowest free block in the TLC runs. The proofs about
  `Request` hold for any choice (`Address` is a constant operator).
- `realloc` may move the block or grow it in place; the default allocator
  (allocator.c:77) always moves, a custom one need not. What the slots that it adds
  to an array hold is left open until the code zeroes them: `GrowHeaders` and
  `GrowArray` give their pointers any block (`WithAdded`), and `Zeroed` is the loop
  that clears them. Lengths in such slots are not given stale values, as nothing
  reads a length beside a pointer that was cleared.
- The transport of `EndpointCall` gets the caller's error object and returns its
  status unchecked, as in request.c:282; `Verdict` is any set of pairs of a status and
  what was left in the object, if anything, and nothing is assumed of how they fit.
- `rename` is atomic, and a flushed write is whole: power loss below the file
  system is not modelled. `write_generated_files` calls no fsync.

## 3. Runs

| Run | Instance | What it shows |
|---|---|---|
| `growth_loop` | 5-bit size_t, first capacity 4; every capacity and request | the loop ends, never wraps, and returns `Grown`, which the other models use |
| `request` | 3-bit size_t, arrays of at most 2 headers, 9 blocks, added slots with any stale pointers; 138,242 states | exact ownership at every allocator call, whichever allocations fail; the getters show the contract |
| `test_transport` | 3-bit size_t, 2 expectations with at most 2 headers, 14 blocks; requests that match, or miss the method, the URL, the body or a header; 39,760 states | the same for expect's goto-fail path; the transport is the queue, which the request that was sent consumes only when it matches |
| `driver` | 3 paths, one of them unsafe, 3 runs of the writer; an input of up to 3 blocks with a limit of 2, edited once; 153,519 states | no torn file, success is complete, failure is a prefix; exit code 0 means all of the asked files and no error, another code never comes without one; what is generated was in the input; every invocation ends |
| `file_writer_atomic` | 1 path, 2 runs | **violation**: the fallback after a failed rename removes the destination first |
| `codegen_names` | 9 names, 3 at a time | names are portable, reserved names stay reserved, equal names need a numbered-looking source |
| `codegen_collision` | the same | **violation**: one C scope can declare an identifier twice |
| `cpp_client` | 4 operations (with and without key, body absent, optional, required), a model with a required string and an optional integer, 9 answer bodies with 3 HTTP statuses; 6 endings of the transport, silent, at one with the error object and at odds with it; in C++ 2 objects and 2 addresses; 535,287 states | every failing path and every throwing copy frees everything; the response is whole or blank; only what was asked for is sent; the caller learns the outcome of this call; every client has one owner |
| `json_reader` | 13,309 texts and documents in families: structures of up to 5 lexemes, nesting around the limit with one lexeme dropped, doubled or spaced, the boundaries of UTF-8, escapes and surrogates, numbers, keys; written documents; 115,264 states | exactly the JSON objects are accepted, values are exact, what the writers write reads back |
| `document_parser` | 4,337 sources: every ordered graph of up to 3 nodes with up to 2 references each, many of 4, a tree of 5; limits of 4 nodes and depth 2; good, long, double and complex keys | the parser ends on cycles too; a refusal has its cause in the description; what is accepted is the whole graph, each node once |
| `lowering` | 6,452 descriptions: 6 lists of schemes with 8 security requirements on the description and on each of two operations; up to 2 + 2 parameters; 6 schemas and 10 sets of responses on 2 path items; path keys that do not begin with `/` | an endpoint has the key, the parameters, the types and the status that its operation describes |
| `lowering_unsupported` | 4 descriptions, each with two constructs outside of the subset | **violation**: a root security requirement is dropped when no schemes are listed, and so is an `options` or `trace` operation |

Why the bounds are enough. In the runs over the heap the size_t is so small
that every overflow branch is taken within two growths of the array, and there
are more blocks than fields that can hold one, so only the explicit failure of
an allocation, never the size of the heap, limits a behaviour. Two headers (two
expectations) are the least for which a failed addition meets an older one, and
the array grows once from empty and once from non-empty before it overflows. In
`cpp_client` the answers have at most two members: enough for one decoded
before the other is refused, and calls follow one another on one response
without limit; two objects and two addresses are the least for a move, an
assignment over another client and an address used again. In `json_reader` every
byte class of the tables of UTF-8 and every branch of the scanner has its
boundary among the texts, and the limits are passed by one. In `document_parser` the limits lie inside the sizes of the graphs, so that each is
reached and just missed, and three nodes hold every kind of cycle (a node
itself, its parent, its grandparent) and of sharing (twice from one, from two,
across levels). In `lowering` the families vary one rule at a time, since
the pass reads security, parameters and schemas of an operation independently;
two operations are the least that can disagree about the key and the least
whose types can be mixed up. In
`driver` three runs are: one to fill the directory, one to fail or die in
it, one to meet what was left; one edit of the input is the least that can come
between two steps of its reading, and one block more than the limit the least
that exceeds it. Three names are the shortest collision. The model of
`codegen_names` stops at its bounds, `growth_loop` and `driver` when the
work is done, `document_parser` and `lowering` when they have an answer: those
five do not check for deadlock, the others do.

Fairness. `growth_loop` assumes that the loop takes its next iteration, and
`driver` that a process that was started takes its next step (`Progress`: it is
sequential code, and every system call returns). Nothing obliges anyone to start
the generator again, to edit its input or to fail; an edit during the reading is
bounded, so reading ends. `document_parser` assumes that the parser, one thread, goes on
with its next step; that memory runs out is possible at any step and never due. The other runs check safety only: what a caller does next is its
own decision.

### What the three violations say

`CODEGEN.md` line 5: "Files are written atomically beneath a validated output
root." On a file system that refuses to replace a file by rename (the comment in code_writer.cpp:119
names Windows), or after any other failure of the first rename, the destination is
removed and the rename tried again; a reader, a crash or a second failure sees
no file. The weaker guarantee that holds is `ReplacementKept`: the complete
replacement is then beside it as `.sdkcc.tmp`.

`ARCHITECTURE.md` line 36 lists "name canonicalization/collision checks".
`NameScope::claim` keeps two spellings of a name apart, but does not record the
numbered name it hands out, and names of different kinds meet in one C scope
unchecked. `CollisionsAreNumbered` is the guarantee that holds inside a scope.

`SECURITY.md` line 8: "The frontend rejects unsupported constructs instead of
approximating their meaning." `parse_security_schemes` returns when there is no
`components.securitySchemes` (lower.cpp:360), before it reads the root
`security` (409). A requirement there that names a scheme is then dropped, and
the endpoints call without a key, where the same requirement on an operation is
refused. `AuthAllowed` is the guarantee that holds of descriptions that list
their schemes. And `parse_paths` refuses four methods (lower.cpp:487) and lowers two:
an operation of `options` or `trace` is skipped, and the module finished without
it. `EndpointsAsDescribed` is what holds: a description with one of the four is
refused, and every `get` and `post` has its endpoint. `UnsupportedRejected` joins
the two claims (`AuthAsDescribed`, `OperationsKept`), and the run ends in a module
that breaks both.

Short of a violation, and stated as it is by a property:

- An alias hands out a finished subtree wherever it stands (parser.cpp:112), so
  an accepted document can be deeper than `max_depth`; what the limit bounds is
  the recursion of the parser (`DocumentParser!TypeOK`). Nothing later recurses
  over the document.
- `sdkcc_v1_transport_send` returns the status of the transport and leaves the error
  object as the transport left it. So a C caller may find an error in the object
  after `SDKCC_OK`, and after a failure one of another code or none; the C++ method,
  which decides by the status, then returns an error whose code may be `SDKCC_OK`.
  `CallerLearnsOutcome` says what is still certain: the status is of this call, and
  so is whatever the object holds.
- The C++ method always passes a body: one that the description makes optional
  can be left out from C only (cpp/generator.cpp:161).
- A requirement whose scheme is named by the empty string is read as no
  requirement (lower.cpp:575). OpenAPI gives no component an empty name, which the
  code does not test; `NameAssumption` says so for `AuthAllowed`.
- `--help` ends the generator with exit code 0 also behind an option that was
  refused (main.cpp:104; `ExitTold` speaks of exit code 0 without help).
- An input that is edited between the question for its size and the end of the
  reading may be compiled as a mixture of both versions (`GeneratedFromInput`);
  one that became shorter is padded with zero bytes, which no parser takes.

## 4. Proofs

All theorems hold for every value of the constants that satisfies the named
assumptions, which TLC evaluates on the instances of the runs: any width of size_t
(`SizeAssumption`, `WidthAssumption`, `FirstAssumption`), any heap and placement of blocks
(`BlockAssumption`, `AddressAssumption`), any texts, arguments and sizes of structs
(`TextAssumption`, `ArgumentAssumption`, `LayoutAssumption`), any files and inputs
(`FileAssumption`, `DriverAssumption`), any operations, answers and objects
(`EndpointAssumption`, `AnswerAssumption`, `OwnerAssumption`, `ObjectAssumption`),
any loaded graph and limits (`SourceAssumption` and `LimitAssumption` of
`DocumentParser`), any description (`NameAssumption`, `DescriptionAssumption`), any
words, reserved words and names in a description (`WordAssumption`,
`KeywordAssumption`, `SourceAssumption` of `CodegenNames`), any texts, documents and
names of bytes, any limits and any width of an integer (`JsonTextAssumption`,
`JsonReaderAssumption`). They say of what shape the data is, and nothing that a
program would have to ensure at run time.

Every invariant below was checked by TLC, on the instance of its run, before it
was proved; each step theorem (`...InvNext`) has one case, or one lemma, per
action.

- **Arithmetic and heap** (`HeapProofs`). `MulFitsExact`: `checked_mul` lets a product
  through exactly when it fits. The heap lemmas say what releasing,
  placing and resizing a block does to exact ownership; they are stated for any set
  of owners and serve both components that own memory.
- **Request builder** (`RequestProofs`). `OwnershipExact` alone is not inductive:
  to know that the block of a new string is nobody else's one must know where
  pointers can be, so the invariant `Inv` adds that only slots inside the capacity
  hold anything, that the slots beyond the count are clear except for the one a
  running `add_header` fills, that an absent request holds nothing, and that counts
  stay within capacities. That added slots are clear although `realloc` may leave
  anything in them is `ZeroingClears`. Its consequences are `TypeCorrect`,
  `ExactOwnership`, `NothingBehindTheCount` and `InBounds`, and the last two
  together `EverySlotAccounted`. `ContractImplemented` shows each action to be
  a step of `RequestContract` or a stutter; what it needs of `Inv` is that a field
  without a block shows as the empty text.
- **Growth loop** (`RequestProofs`, from `LoopInv`). The loop variable is the first
  capacity doubled some number of times, and every earlier doubling was below what
  is required. So `GrowthSuffices`; `GrowthNeverWraps`, since doubling happens only
  below `SIZE_MAX / 2`; and `GrowthIsGrown`: the result is `Grown`, which
  `Request` and `TestTransport` use in place of the loop. `SIZE_MAX` is a power of
  two less one (`WidthAssumption`); the powers are a recursive function, and what is
  needed of them comes by induction on the exponent.
- **Test transport** (`TestTransportProofs`). The same ownership, over expectations
  that have headers of their own, where `expect` is interrupted after any of its
  copies. `Inv` adds how far a copy in progress has come: what the fields copied
  so far hold, that the fields to come are clear, and when `header_count` of the
  slot may be trusted, because `goto fail` resets by it. Consequences:
  `TypeCorrect`, `ExactOwnership`, `EverySlotAccounted`, and `QueueImplemented`: each
  action is a step of `ExpectationQueue` or a stutter, where `MatchesShown` says that
  `test_send` compares with the stored copies exactly what the queue compares.
- **File writer and driver** (`DriverProofs`). `WriterInvariant` adds that a
  temporary is whole when a rename is next, that installed files are those before
  the current one in path order, and that no content is of a run yet to come. From
  it follow `ReadersSeeWholeFiles`, `SuccessMeansInstalled`,
  `FailureLeavesPrefix` and `RemovalKeepsReplacement`, for any finite set of
  paths and any number of runs. `DriverImplementsWriter` carries them over to
  the whole program (`DirectorySafe`): every step of the driver is one of the
  writer or leaves its variables alone. `DriverInv` adds of which edit each
  block of the buffer is, that a stage runs only while no error is known, and
  that the files being written are those asked for; from it `DriverTypeCorrect`,
  `ExitCodeTells` and `InputGenerated`, for any number of edits.
- **Endpoint call and C++ client** (`CppClientProofs`). `CallInv` says for each
  point of the emitted function what the request holds by then, that no failure
  was recorded while it goes on, and of a running parser that the members it has
  visited are decoded, each field once, and no other field is. It also says how the
  transport ended this call (`VerdictSoFar`), if it was asked at all, and that the error object
  is still blank or as the transport left it until something else fails. `CppInv` adds
  what is true while a C++ method waits for the C function: which object it makes,
  that it started with an empty response and error, and that each client has one
  owner. From them `CppTypeCorrect`, `HandlesAlwaysOwned`, `NothingEverLeft`,
  `OutcomeLearned`, `ResponseExact` and `SubmittedExactly`. They are theorems about
  the composed specification, that is about both languages.
- **Parser** (`DocumentParserProofs`). `ParserInv` says what the recursion has built
  (`Built`): the running calls are a walk from the root through distinct nodes that
  are marked as being built, each half filled; a node marked as built has an id of
  its own and its contents; the built nodes can be ranked, each above those it
  refers to; and in a tree what lies below an item to come is untouched. A node met
  in the middle of its own translation closes a walk, hence a cycle
  (`CycleMet`); a rank excludes cycles, so `AcceptedIsWhole`; a recursion deeper than the
  limit comes with a walk of that length, so `RefusalsJustified`. `AtDepth`,
  a recursive function, is unfolded by `Walks`.
- **Lowering** (`LoweringProofs`). `LoweringInv` follows `parse_paths`: the
  operations before the next one have exactly one endpoint each, which fits its
  operation and refers to types that have its fields; types are only ever added
  behind the others; the key in use is a listed scheme that each authenticated
  endpoint's requirement allows. `CollectedLast` solves the recursion of
  `parse_parameters`: it leaves the last declaration of each location, from which
  `OperationWins`. Consequences: `TypeCorrect`, `AuthIsAllowed`,
  `ParametersDescribed`, `EndpointsDescribed`.
- **Names** (`LoweringProofs`, from `NamesInv`). `Claim` gives a free name, or the
  numbered form of a name that is in its scope already. The invariant says that every
  name so far is a claim of its own, one of those that the scope has counted, of the canonical
  identifier of its source; and that it is not the first claim, the identifier itself,
  where that was preclaimed. From it `NamesAreAllowed`; and
  `OnlyNumberedCollide`: two equal names of one scope come from different identifiers, so
  the identifier of one was already spelled like a numbered form of the other's.
- **JSON reader** (`JsonReaderProofs`). In three layers.
  The *functions* of `json.c` and of the grammar read a text position by position
  and are recursive. `Recursion` proves, once, that such a function exists when a rank
  falls at each call, and `RecursiveTyped` that it has its values where they belong; each
  function is then unfolded from its equation. The scans end behind where they
  began and inside the text. `Utf8SequencesExact`: the code's table of byte ranges takes
  exactly the sequences that the grammar calls UTF-8 by arithmetic on code points.
  `EncodingExact`: what `\u` escapes are decoded to is the UTF-8 of their code
  point. `UnitsExact`: one step of the scanner takes exactly one character or escape of
  the grammar, a surrogate pair being one. `StringsExact`: so a string is
  scanned to its closing quote exactly when the grammar calls it one.
  `ContentsDecoded`: decoding gives bytes whose code points are those the grammar
  says. `UnicodeInjective`: UTF-8 texts with the same code points are equal. From these
  `KeysExact` and `OwnedStringsExact`.
  The *scanner*: `ReaderInv` says where the member that is being read lies
  between the calls so far and the cursor, that a running call keeps the bracket that
  opened it behind it, and that a call's integer is the one its bytes denote.
  `TypeOK` alone is not inductive: that there are no more calls than bytes
  follows from each call having bytes of its own (`VisitsInside`). Consequences:
  `TypeCorrect`, `VisitsInsideText`, `IntegersInRange`, `IntegersAreExact`.
  The *conversions* read again what the scan has passed: `ScannedInv` adds that the key
  of the member is a string of the grammar, and that the bytes of a scanned value are
  what their kind says (a string, a number, one of the two boolean literals). With it
  `VisitsAreExact`: every call of the visitor gets what the text says (`ValuesExact`),
  and whatever follows in the text cannot change that.

Recursive functions can be unfolded once it is proved that a function with the
recursive equation exists. Induction is used in the form of a least
counterexample, or of a set that contains 0 and with every number its successor
(`DocumentParserProofs!Induction`): both follow from the library's theorem that
the numbers are well founded, which takes no operator as a parameter.

Only model-checked:

- Liveness (`LoopEnds`, `ParseEnds`, `InvocationEnds`): properties under fairness
  are out of the prover's reach.
- `AcceptsExactlyJson` and `ReadsBackWritten` of `json_reader`. The first compares the
  scanner with a grammar that removes brackets from the inside out over a whole
  sequence of tokens, and the second runs the reader over what the writers made; both
  need an induction over the text as a whole, where the theorems above are about one
  string, one number or one call. What is proved covers each token of the text.

## 5. Not modelled

- Alignment in the default allocator: addresses are opaque.
- The wording and rendering of diagnostics, and of generated text beyond declared
  identifiers and what the emitted functions do.
- Two generators on one output directory at a time: the code takes no lock and
  promises nothing.
- The source model, the string interner and NAIR: containers addressed by dense
  ids, without a failure path but an id out of range. Ids are the positions in the
  sequences of `Lowering` and `DocumentParser`.
- The public headers, which only declare what is modelled with the functions.
- Build files, tests, benchmarks.
- Transports of embedding programs beyond what they may answer; libyaml and
  simdjson, which are libraries, beyond the graph or the refusal they give.
- `uri_encode_append` and the text builder `CodeWriter`, pure functions of their
  argument without a case that a test would miss.

## 6. Plan

1. Done: runtime core (heap, request, test transport), file installation, names.
2. Done: the endpoint call, and the C++ client over it.
3. Done: the parser over all small alias graphs, the lowering pass.
4. Done: the JSON reader and writer against a grammar.
5. Done: the driver over the file writer.
6. Done: proofs of the runtime components with their refinements, the driver over
   the file writer, the client over the endpoint call, the parser, the lowering pass.
7. Done: proofs of the growth loop, the claimed names, and the JSON reader from bytes
   to values.
8. Left: that the reader accepts exactly the grammar's objects (`AcceptsExactlyJson`)
   and reads back what the writers wrote (`ReadsBackWritten`), as theorems.
