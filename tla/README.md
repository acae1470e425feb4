# TLA+ verification of rapidproto

rapidproto compiles `.proto` schemas into C++ decoders. Two halves carry its logic:
a compiler (`src/`, `include/rapidproto/*.hpp`) that resolves, parses and checks
schema files and emits headers, and a header-only runtime
(`include/rapidproto/runtime.hpp`, `arena_runtime.hpp`) that the emitted decoders
call on untrusted bytes. This directory models them component by component, checks
each model with TLC on small instances and proves the most important invariants
with TLAPS for every instance.

Paths below are relative to the repository.

## Inventory

| component | state it keeps | operations | hard behaviour | correct when |
|---|---|---|---|---|
| Arena allocator (`arena_runtime.hpp`, class `Arena`) | chunk list, cursor, accounting, growth schedule, capacity limit | `allocate`, `allocate_array`, `create`, `shrink_last`, `reset`, `set_capacity_limit` | long call sequences; untrusted counts near `SIZE_MAX`; host OOM; reuse after `reset` | blocks are in bounds, aligned and disjoint; accounting exact; memory use settles |
| Wire readers (`runtime.hpp`, namespace `wire`) | a byte cursor | varint, tag, fixed, length-delimited reads; field skip; group scan | fused fast paths; mutual recursion on untrusted nesting; error position out of deep recursion | never past the buffer; fast and slow paths agree; exact verdict |
| SWAR packed-varint kernels (`runtime.hpp`) | word and cursor | word-at-a-time decode of packed spans | values across word ends, 9- and 10-byte values | equals the byte loop, errors included |
| Streaming decoders (emitted by `src/streamgen/generator.cpp`) | cursor, callback status | field loop, packed loop, map entries, groups, unknown fields | wrong wire types, aborting callbacks, error offsets in sub-spans | every field is delivered once, in wire order |
| Arena decoders (emitted by `src/arenagen/generator.cpp`) | message under construction, growable arrays, `Arena` | field loop, repeated growth, packed fill and trim, oneof, required and presence bits | packed and expanded forms of one field interleaved; OOM half way; depth limit | decoded message is the documented one for every field order |
| Arena layout (`src/arenagen/layout.cpp`) | memo of layouts, recursion stack, flatten costs and marks | choose the storage of fields, place slots and bits, decide what is inlined, mark decoders that must not be inlined | cyclic and long reference chains, layouts inspected while under way, costs settled before their parts | no overlap, order independent, cycles broken within the budget |
| Arena field modes (`src/arenagen/modes.cpp`) | the selection, the modes, the identity | read a profile, check and fan out its entries, name the profile | entries that repeat or contradict each other in any order and spelling | accepted iff sound; the identity determines the modes |
| Import resolver (`src/resolver.cpp`) | colours, parsed files, DFS stack, order, source registry | `run`, `visit`, `read_import`, `canonical_entry_name` | cycles, diamonds, batches of entries, shadowed and unreadable files, depth cap | topological closure or a true error; terminates |
| Source registry (`src/source.cpp`) | registered texts | `add`, render | error after return | the file of an error is registered |
| Type resolution (`src/resolve.cpp`) | symbol table, visible files, extension numbers | visibility through public imports, scoped lookup | shadowed names, files reached twice, several files extending a message | references bind to the innermost visible type; accepted iff sound |
| Features and options (`src/features.cpp`, `interpret.cpp`) | inherited feature sets, attributes of nodes | edition defaults, inheritance, `[packed]` | four writers of the same attribute; overrides at every level | fields and enums are decoded as declared |
| Lexer, parser, combinators (`src/lexer.cpp`, `parser.cpp`, `combinators.hpp`) | tokens, relative error offsets, depth | scanning, ordered choice, commitment, assembly of the tree | an alternative that hides a later one, offsets lifted through nesting, recursion depth | accepts the language; errors at the mistake; nothing lost from the tree |
| Naming (`src/codegen/naming.cpp`) | names taken per scope | escape, claim, qualify | escapes that collide again; files in another order in another run | distinct names, the same in every run |
| Dump generator and runtime | output separators | text rendering | nesting | balanced output |
| Driver (`cli/driver.hpp`, `rapidprotoc/main.cpp`) | options, output files | parse arguments, generate a batch, write | partial failure, output collisions | all or nothing per file |
| AST, scalar tables, embedded well-known types | data only | - | - | - |

The parts interact by calls, in one thread: the driver calls the resolver, which
calls lexer and parser per file and fills the source registry; the semantic passes
walk the files in the resolver's order; the generators emit code whose decode loops
call the wire readers and, for the arena model, the arena. Nothing is shared between
threads and nothing is persisted but the output headers, so the hazards are not
interleavings: they are long sequences of legal calls (arena), adversarial inputs
(wire, lexer, parser), graph shapes and file layouts (resolver, layout planner),
results that depend on the order of files, fields or passes (naming, modes, features),
partial failure (OOM, unreadable
file, aborting callback) and arithmetic at the edge of the word. `PROJECT.json`
lists them line by line under `hazards`.

## Modules

| module | models | state and actions |
|---|---|---|
| `Arena` | class `Arena` | `m_cur`, `m_limit`, `m_cursor`, `m_used`, `m_reserved`, `m_next_chunk`, `m_cap` as in the code; `chunks` is `m_head` followed by `m_more` (non-empty iff `m_live`); `live` is a history variable, the blocks handed out since the last `reset`. One action per public operation; `Allocate` has one disjunct per path (current chunk, next kept chunk, `grow`, failure). |
| `ArenaReuse` | an application that resets one arena between decodes | extends `Arena` with the workload being decoded; requests and trims as emitted decoders make them |
| `ArenaProofs` | - | the inductive invariant of `Arena` and its theorems |
| `Resolver` | `src/resolver.cpp` | `m_color`, `m_parsed`, `m_stack`, `m_order`, `m_sources` as in the code; the C++ recursion is `m_stack`, whose frames count the imports dealt with. `NextEntry` and `Deliver` are `run`, `NextImport` and `Finish` the loop and the end of `visit`. |
| `ResolverProofs` | - | the inductive invariants of `Resolver` and `TypeResolver`, and their theorems |
| `Wire` | the readers of `runtime.hpp` | operators on a byte sequence and a cursor, each returning error, next cursor and value |
| `WireDecode` | an emitted field loop with `skip_value`, `scan_group_end`, `read_group` | the mutual recursion is the stack `scan`; `NextField` is a turn of the field loop, `ScanGroup` a turn of the loop of `scan_group_end`, `Dispatch` the callback |
| `WireProofs` | - | the inductive invariants of `WireDecode` and its theorems |
| `PackedVarints` | `decode_packed_varints` and its SWAR kernels | the span, the cursor, the output index and the kernel the dispatch is in; one action per kernel body, one for the dispatch and one for the byte loop at the end |
| `PackedProofs` | - | the inductive invariants of `PackedVarints` and its theorems |
| `VarintLemmas` | - | what `read_varint` returns, for `WireProofs` and `PackedProofs` |
| `MessageSchema` | what the emitter knows of a message type | schemas (kind, wire type, oneof, presence bit, place among the required fields in declaration order) and the records of a body |
| `MessageSemantics` | abstract: what decoding a body means | `Meaning` of a sequence of records, in one step; no arena, no stack, no arrays |
| `ArenaDecode` | `decode()` and `rp_decode_into()` as `src/arenagen/generator.cpp` emits them | the C++ recursion is `stack`; a frame holds the members (`out`), the growable arrays (`rp_acc`, `rp_n`, `rp_cap`) and the presence and required bits; `mem` is the arena below its cursor. One action per arm of the switch, `Skip` for the shared skip, `EndMissing` and `Return` for the end of a body |
| `ArenaDecodeRefines` | - | the refinement mapping (`Deref` follows pointers and views) and the refinement property |
| `ArenaDecodeProofs` | - | the inductive invariant behind `ArraysApart` and its theorem |
| `Combinators` | `include/rapidproto/combinators.hpp` | a grammar is data; `Run` reads it as the code does (ordered, committing, relative error offsets), `Ends`, `Derives` and `Viable` as an unordered grammar: the reference |
| `Lexer` | `src/lexer.cpp` | the grammar of tokens; `Scan` is the token stream, one action per kind of raw token for the loop of `build_tokens`, `Finish` for what is left unscanned |
| `Parser` | `src/parser.cpp`, `parse_source` of `src/resolver.cpp` | the grammar of files, the depth guard, `Parse` with the assembly of the tree, `Report` which turns a token index into a position |
| `TypeResolver` | `src/resolve.cpp`, class `TypeResolver` | `m_symbols`, the stack of `add_public_closure`, the files visible; the recursion over nested messages is `work`. One action per resolve function |
| `Analyze` | `analyze` of `src/resolve.cpp` with `features.cpp`, `interpret.cpp` and the parser's defaults | three passes over every file, one node per step; the by-value feature scopes of the recursion are the stack `scopes` |
| `Naming` | `src/codegen/naming.cpp` | two runs over the same files in two orders; one action per group of `claim_toplevel_ids`, per class, and for the absolute names |
| `Layout` | class `Planner` of `src/arenagen/layout.cpp` | the mutual recursion of `layout_for` and `compute` is `stack`, the memo `m_memo`; `Descend`, `Classify` and `Complete` are a call, an item and a return. The vector that `order_slots` sorts is a set, taken apart in the order of its comparator |
| `FlattenBudget` | `apply_flatten_budget` of the same file | `walk`, `seen`, `flatten_cost`, `noinline_decode` as in the code; one action per popped entry |
| `SeqSelect` | - | the loops that keep some elements of a vector, for `Layout`, `FlattenBudget` and `TypeResolver` |
| `FieldModes` | `src/arenagen/modes.cpp` | one action per line of the profile, per entry, for the fan-out, per unknown-fields entry, and for the identity |
| `PlanningProofs` | - | the inductive invariants of `Layout`, `FlattenBudget` and `FieldModes` and their theorems |
| `InductionLemmas` | - | least elements, induction up to a number and over subsets, existence of recursive functions over both, finite sums: shared by all proofs |
| `MC*` | - | instances for TLC. A module that checks several components which share no state (all but `MCResolver`) has a variable `part` that says which one is called in a behaviour; the others are idle. The initial states are those of each part, so nothing is lost by checking them together |

Abstractions. Addresses are numbers; the host allocator is external and returns any
free address or fails. Files are model values with a list of imports; lexing and
parsing one file is a yes/no outcome in `Resolver` (a file is in `Malformed` or
not), and `canonical_import_path` a given function from spellings to keys. Values of
fixed-width fields are their bytes, since no reader branches on them. `ArenaDecode`
works on records (number, wire type, value), not bytes: what turns bytes into records
is `WireDecode`. A malformed value, a length past the end or a group whose body does
not scan is the value `Bad`, and the arena is its memory below the cursor, one cell per
element or message; an allocation may fail at any time. Every message type is taken to
have the bit of `--unknown-present`. Not in `ArenaDecode`: the refusal of inputs above
4 GiB, and the threaded dispatch of hot fields, which jumps to the same arms.

In the compiler's modules text is abstracted step by step. `Lexer` has one character for
each class that the code tells apart, with the real digits and letters of escapes. `Parser`
has one token per kind; a name is the position of its token, all number literals of a file
share a magnitude, and the words of 64 and 32 bits are 4 and 3 bits wide. `TypeResolver`
and `Naming` have names as sequences of components, and in `Naming` a component is a word
with a number of trailing underscores, since appending one is all the code does to a name.
`FieldModes` takes the hash of the normalized lines to be injective. `Layout` counts bytes
and bits as the code does, with mask words of 16 bits instead of 64 and a cap of 4 on
chains instead of 200. `Combinators`, `Lexer` and `Parser` use RECURSIVE operators; no
module with a theorem depends on them.

Definitions with "Mutant" in their comment are plausible bugs; each replaces the
definition after it in one run, which must then fail.

## Runs

| run | instance and bounds | what it shows |
|---|---|---|
| `runtime` | arena: 7-bit `size_t`, kMaxAlign 4, chunks of 4 and 8 bytes, four seeds (none, too small, aligned, misaligned), three host addresses of which two let chunks touch, counts 0, 2, 33, 65 and 127 (the middle two wrap `n * sizeof(T)`), trims to multiples of the block's alignment, limits 20 and 127, at most 3 live blocks; wire: every buffer of up to 6 bytes over the tags of groups 1 and 2, a length-delimited field and a small byte, and of up to 5 bytes over ten boundary values (0, 1, tags of each width, reserved wire types, 127, 128, 255); group depth cap 2, varints of at most 3 bytes, a 200-byte `size_t` | arena: bounds, alignment, disjointness, exact accounting, the capacity limit, no chunk lost, growth progress. Three blocks suffice to have one in each of two chunks and one being placed or trimmed; every path of `allocate` is taken. Wire: verdict and position equal those of a declarative bracket-matching reference; readers stay in bounds and within the word; fields, with the tags both tag readers see, tile the input, and group bodies are well-formed; termination. Six bytes hold two nested groups with a field inside, and three starts reach the cap. |
| `arena_decode` | decoder: (a) a message with a repeated varint and a repeated fixed-width field, each packed and expanded, and repeated sub-messages with arrays of their own: every body of up to four of 13 records, first capacity 2 instead of 4, so that arrays grow at the third element; (b) scalars, inline and pointer sub-messages, raw and dropped ones, a group, a oneof, a map with sub-message values, a required field, depth cap 2: every body of up to three of 24 records; (c) three required fields declared in another order than that of their numbers, one a sub-message; kernels: 8-byte words and 10-byte varints as in the code; dispatch window 12, minimal span 20, reclassify after 20, traction 12; spans of at most three runs of a kind of varint (lengths 1, 2, 3, 4, 8, 9, 10, an overlong one and one that overflows) repeated 1, 4 or 12 times, at most 48 bytes, whole or cut off; reuse: chunks of 8, 16, 32 bytes, four workloads in any order for ever, with and without a seed | arrays never share cells with other live objects; the tree read back through pointers and views is the one `MessageSemantics` gives, or the error is the same (refinement). Kernels: every kernel loads within the span and stores within the array; the values, the count, the error and its offset are those of the byte loop; the decode ends. Runs of 12 make each kernel enter, gain traction and be left at every phase of a word. Reuse: the arena asks the host at most `MallocBudget` times in all, though there is room for eight times as many chunks, and never while a workload is replayed. The budget 7 is the exact maximum. |
| `resolver` | (a) every assignment of up to two imports (three keys, one missing and, in the first file, a second spelling) to each of three files; a single entry and a batch that repeats one; (b) two include paths that shadow one another, an unreadable file with a readable copy in the second include path and an embedded twin, a malformed file, an entry outside the include paths; depth cap 3 | stack, order, closure, error, lookup, registry and termination properties. Three files give self-imports, 2- and 3-cycles, diamonds and cycles reached only from a later entry. |
| `syntax` | lexer: all texts of up to 4 or 5 characters over alphabets for numbers, comments and mixed tokens, string literals with up to five characters from the backslash on, unicode escapes at the surrogates and at the largest code point, literals joined across blanks and comments, each also behind a byte order mark; parser: 22 files that use every production, each also with one token replaced by, or one added of, any of 23 and 12 kinds, with one removed, and cut off at every token; depth cap 3; magnitudes 0 to 32 on 4-bit words | tokens tile the text and have their kinds; the string decoder agrees with the grammar that recognised the literal; the ordered, committing parser accepts every file of the documented, unordered grammar and, but for findings 4 and 5, no other; errors of both are at the mistake; the tree has every declaration, group and number |
| `semantics` | types: three files (a base, one that may re-export it, a user) with every kind of import, nested, shadowing and absolute references, maps and extensions, and chains of four files with side entrances; features: two files with options at file, message, oneof, nested message and field level over three syntaxes, four types and four labels; names: three files of packages that C++ may not tell apart, in any two orders, with names that collide once, twice and after escaping, and prefixes of up to two components | references bind to the innermost visible type and exactly the sound inputs are accepted; attributes are those of a declarative reading; names are distinct, the same in both runs, as spelled where possible |
| `planning` | layout: three messages, each of one of 30 shapes over references to all (plain, required, repeated, map, oneof, raw, dropped, more flags than a byte and than a word; oneofs without members), and chains and cycles of five messages past the depth cap; flattening: three messages with up to three members over each other, budgets 2, 4 and 8 with 8 the largest size, and budget 0; modes: profiles of up to three of 30 lines | slots, bits and inlined messages never overlap; what is inlined does not depend on where planning starts; marks, costs and budget of the flatten walk are right; a profile is accepted iff sound and its identity determines every mode; planner and walk end |
| `resolver_nested`, `resolver_shadow` | one importer of `x.proto` and the file itself as entry | expected violations, see Findings |
| `arena_trim_sizes` | the decoder instance of `arena_decode` | expected violation, see Findings |
| `parser_options`, `parser_enums`, `parser_nesting` | files with an empty option list, with an enum value named by a keyword, and nested past the guard | expected violations, see Findings |

Scaling. The word of the arena and the length of a varint are constants of the
models, so that the edges (`SIZE_MAX`, the tenth byte) are within a few steps. The
assumptions in the modules state the relations between constants that the code
relies on (`kDefaultChunk <= kMaxChunk`, two-byte tags below `kMaxFieldNumber`, ...)
and hold for the code's values.

Every run has parts that are calls which return, and allows a final state to have no
successor; that a call does not stop before its end is said by the termination properties and by
the properties of the result.

A property that is a conjunction of named parts (`TreeIsTheFile`, `AttributesAsDeclared`,
`NamesApart`, `NamesAsExpected`, `MembersApart`, `BudgetHonoured`) is about one promise of
one component; the parts have their own comments.

Fairness. `Resolver`, `WireDecode` and `PackedVarints` have weak fairness of the whole next-state
relation, and nothing stronger: they are sequential calls that keep running until
they return. `MCRuntime` and `MCArenaDecode` have it for these parts only. Termination is then a statement about the loops only. `MCPlanning` assumes the
same of the layout planner and the flatten walk on the instances made for `PassesEnd` (the
chains longer than the cap; the cyclic graphs of two members per message). The arena,
`ArenaDecode` and the remaining compiler passes have no fairness and no liveness property.

## Proofs

Every theorem holds for every value of the constants that satisfies the assumptions named
in the modules; these are relations the code relies on, and TLC evaluates them on the
instances. Each inductive invariant was first an invariant of a TLC run.

| theorem | states |
|---|---|
| `ArenaProofs!TypeCorrect`, `AllocationsInBounds`, `AllocationsDisjoint`, `LimitRespected` | `TypeOK`, `BlocksInBounds`, `BlocksDisjoint`, `CapacityRespected` of the arena |
| `ArenaProofs!GrowthProgresses`, `AccountsExact` | `GrowthMakesProgress`, `AccountingExact` |
| `PackedProofs!PackedTypes`, `KernelsLoadInSpan`, `KernelsStoreInArray` | `PackedTypeOK`, `LoadsInSpan`, `StoresFit` of the packed kernels |
| `PackedProofs!KernelsAreTheByteLoop` | `KernelsMatchTheByteLoop` |
| `WireProofs!ReadersSafe`, `VerdictIsExact`, `FieldsTile` | `ReadersAreSafe`, `VerdictIsFirstDefect`, `FieldsTileTheInput` of the field loop |
| `ResolverProofs!GrayFilesAreTheChain`, `TopologicalOrder`, `ClosureDelivered`, `DiagnosticsAreTrue` | `GrayIsTheStack`, `OrderIsTopological`, `DeliversTheClosure`, `ErrorsAreReal` |
| `ResolverProofs!ReferencesBindNearest`, `SoundFilesAccepted` | `BindsNearest`, `AcceptsExactlySound` |
| `PlanningProofs!LayoutKeepsMembersApart` | `MembersApart` |
| `PlanningProofs!FlattenHonoursTheBudget` | `BudgetHonoured` |
| `PlanningProofs!ProfilesAcceptedIfSound`, `IdentityIsTheSelection` | `AcceptsSoundProfiles`, `IdentityDeterminesModes` |
| `ArenaDecodeProofs!DecodeKeepsArraysApart` | `ArraysApart` |

### Arena

Assumptions: words large enough for the address range and the chunk schedule, seeds
inside the address range, sizes and alignments at least 1 and alignments at most
`kMaxAlign`; the host returns memory that overlaps no chunk.

Disjointness is not inductive: `allocate` hands out memory above the
cursor, so the invariant must say that no live block is there. `IInv` adds that
chunks overlap nowhere and are non-empty, that the cursor lies in the current chunk
(strictly above its start unless it is the first), and that every live block is
non-empty and lies in a chunk up to the current one, below the cursor when in the
current one. `grow` inserts a chunk behind the current one, so indices of chunks
that hold blocks do not move (`InsertPlaced`). For `shrink_last` the crux is
`EndsAtCursor`: a block that ends at the address of the cursor is in the current
chunk. This needs the strict part of the cursor condition, because the host may
place a chunk directly behind another, and then the end of a block of the one is
the start of the other. Arithmetic facts (`AlignUpFacts`, `WrapIdentity`,
`GrowRoom`) carry the overflow guards of `allocate_array`, `allocate_slow` and
`grow`. `shrink_last` is proved for every old size up to the block's true one, so that
the theorems cover the emitted trims of finding 3.

The accounting is a sum over the live blocks and one over the chunks. `UsedExact` needs
`IInv`: that `m_used` grows by exactly one term is the fact that the block handed out is not
live yet, and that `shrink_last` takes off exactly what it cut rests on the block that
ends at the cursor being the only one there. The sums are handled by `SumFacts` and
`SumReindexed`, since `grow` moves the chunks behind the one it inserts.

### Packed kernels

Words are of 8 bytes, as in the code; the window, thresholds and spans are arbitrary.

A kernel runs without bounds checks inside a block that the dispatch opened,
so the invariant carries `BlockInSpan`: what the block may still consume ends within the
span, and the elements stored so far are at most the bytes consumed.

For the values, `WithTheLoop` relates the decoder to the byte loop place by place
(`Follows`): at the place the decoder has reached, the loop begins a varint and has
delivered the same values. The byte loop is a function on places (`AtPlace`), so that a turn
of a kernel is a number of its turns. The rest is word arithmetic: for each length, what the
masks and shifts make of a word is what `read_varint` makes of its bytes. The guess that
picks a kernel occurs in none of this: a wrong one is only slower.

### Field loop and group scan

The reference finds the first defect over all token boundaries, which are defined from the
start of the buffer; the code knows only its cursor and a stack of field numbers. `DecodeInv`
says that the cursor is a boundary with no defect before it (`Clean`) and that frame `i` of the
stack is the number of the group that bracket matching says is open at depth `i`
(`StackIs`). Every turn then reads one token, and what it decides is what the reference
decides of that boundary. `TileInv` adds where the field under way began, and that the
tokens since then form, by themselves, a buffer that scans like the body of the group:
moving a scan into a sub-buffer is the longest part of the proof.

### Import resolver

Assumptions: `Canon`, the include paths, the embedded files and the inputs are functions of
the right kind, an include path has each file under one key, embedded files are readable.

`OrderIsTopological` alone is not inductive: `Finish` appends a file without looking at
its imports. `DealtIsBlack` says that what a frame has dealt with is in the order, or
is the frame above it; `StackIsChain` that each frame waits for the one above; `StackIsGray`
that gray keys and frames correspond, which makes a gray import a real cycle and every other
one black; `MarkedIsParsed` that a marked key has been read and registered once. Closure
follows from `ParsedIsReached` (nothing is parsed that was not asked for) and from
`OrderIsBlack` when the stack is empty.

### Type resolution

Assumptions: what the parser and the import resolver deliver (at least one file, imports of files
that were found, types listed after the messages they are nested in, enums without fields, maps or
extend blocks); names, nesting, references, numbers and the graph of imports are arbitrary.

Files are accepted exactly if they are sound only if each of the two recursive walks meets every
declaration of a file, and meets it once: a declaration missed is a defect missed, one met twice a
duplicate where there is none. The tasks of a file form a forest (`CollectForest`,
`ResolveForest`), and `Walked` says of any such walk that what was visited and what is
pending are the roots and what lies directly below the visited nodes, each node in one place.
It is kept by a step (`WalkStep`) and, with an empty list, has reached everything, since the first node missing
would be below an earlier one that is missing too (`WalkEnds`). `TypesInv` adds what the visited tasks
leave behind: the table has the names of the visited types and no name twice (`SymbolsOf`), visited
references are sound, and `extensions` has the numbers of the visited extensions, each of one
(`TasksDone`). A rejection is then a defect of the input (`DuplicateName`, `DuplicateNumber`,
`UnsoundNode`), and the end without one leaves none (`TableAtTheEnd`, `SoundAtTheEnd`).

A lookup sees the innermost type only if all types are in the table before the first lookup,
and if the visible files are exactly those that may be named. While the closure over public
imports is under way, what is visible belongs to every closed set, and a visible file lacks public
imports only if it is on the stack (`VisibleInv`). `MayName` is the least closed set, so when imports and stack
are empty the two are equal (`VisibleIsMayName`). `MeaningFacts` then turns the longest visible prefix of
`resolve_name` into the first of the readings. The names of `compute_fqns` are a recursion over
the types of a file; that they are sequences is shown from the existence of its unfolding
(`FqnFacts`).

`Sound` tells declarations apart by their places. A first version compared their values, and
took two equal extend blocks in one scope for one; the code refuses them, and the proof
of `DuplicateNumber` did not go through. The run `semantics` has this input now.

### Layout planner

Assumptions: what the parser, the type resolver and the field modes deliver (every type is known,
the key of a map is a scalar, field numbers are below `kMaskTiebreak`, members of oneofs are
singular and have no mode, maps are not raw), and words of 8, 16, 32 or 64 bits; the cutoff, the
cap on chains and the references between messages are arbitrary.

One struct first. `order_slots` is a recursion over subsets of its slots, so its cursor is a
function whose existence has to be shown (`SubsetRecursion`), and `CursorHolds` says by
induction over the subsets that a slot begins where the cursor of the slots before it
was aligned to, and that the cursor never falls below the end of an earlier slot. This needs a
total order (`SlotOrder`), hence different tiebreaks or sequence numbers for all slots of a
message (`SlotsFormSet`). The comment at `layout.cpp:99`, that sizes are multiples of alignments, is not
used: it does not hold of unions (see Findings), and apartness does not rest on it. `FlagsFacts`
does the same for the bits, which are sums over the items before one, and `MaskFacts` says that
every form of the mask is large enough for them.

`MembersApart` is not inductive, for it says nothing of the messages under way. `LayoutInv`
adds that their plans so far were made from layouts that are in the memo (`HeldRight`) and that no
message under way is in it: `Complete` adds a layout and changes none, so what was
decided from one stays right (`HeldStays`).

### Flatten budget

Assumptions: members refer to messages or to nothing, and sizes fit the word. Only what is
settled stays true, so `FlattenInv` speaks of messages that are done: their targets
are done or marked (`SettledTargets`), they expand in no circle (`SettledAcyclic`, a set
without a circle has a member that expands nothing in it), their costs are current
(`SettledCosts`). A mark put later may change neither, which needs `WalkInv`: the entries on
the explicit stack that are being left form the path of the recursion, and a message is
marked for a cycle only if it is on it.

### Field modes

Assumptions: a name is never both a type and a field (the comment in `apply_entry` says so), only
plain fields are required, an identifier is not empty, and `*` is not a name. Both properties
speak of the end of a run only. `ModesInv` says what holds while the passes are under way: every
line read so far was well-formed and is in the specification (`LinesRead`), every entry
resolved so far is valid and is the only mode of its name (`EntriesApplied`), the normalized
lines are those of the entries and occur once. A refusal is justified where it happens, by
lines that cannot be in a sound profile. At the end, `PassesThrough` turns the passes' accounts into a statement about
the lines of the file, and `ModesByLines` says that the fan-out over types gives
every field the mode that the set of normalized lines gives it by itself.

### Arena decoder

Assumptions: bodies are made of the records that `Records` gives their type, a varint has at
least one byte, the first capacity is positive. `Safe` says that arrays of all frames are in
memory, separate, and that a message under construction is outside all of them or is the last
element of the array of the frame below. Growth takes new memory, so it is harmless; the
trim of a packed field moves the cursor back, which is right only if nothing but unused
capacity is above it. For this the invariant needs that an array with memory has
at least one element (an empty array at the cursor would lie in what is given back), and that
no message is under construction in an array of the running frame (`TopArraysHoldNone`). That
a span of `k` elements has a bound of at least `k` is `SumAtLeastCount`. The trim is proved with
the stale capacity of finding 3.

### Only model-checked

- Termination and every other liveness property: fairness and ENABLED are out of the provers'
  reach.
- Everything about `Combinators`, `Lexer` and `Parser`: their operators are RECURSIVE, for
  which the provers have no theory.
- `ImplementsSemantics`: the mapping follows pointers by a recursion over the tree. Induction
  over data has to be spelled out as a minimal counterexample, as `InductionLemmas` does for
  numbers, subsets and sums; for trees it has not been done.
- `WarmUpBounded` and the other reuse properties: the budget is a number found for an instance.
- `PlanIgnoresTheOrder`: the reference is a least set, chosen among the sets of messages, and the
  proof would be an induction over chains of references.
- `Analyze` and `Naming`: not proved, see Plan.

## Findings

Six comments and documents say what the code does not do; none is about a crash. Each has a
run that TLC must find violated.

1. `include/rapidproto/resolver.hpp:55` says the key of an entry is chosen "so an
   entry that is also imported maps to the same key". With one include path inside
   another (`-I root -I root/sub`), the entry `root/sub/x.proto` gets the key
   `sub/x.proto` and the import `"x.proto"` of the same file the key `x.proto`: the
   file is parsed twice under two identities (`resolver_nested`).
2. `src/resolver.cpp:127` says "The first include path that has the file owns it".
   An entry given by its path under the second include path takes the bare key, so
   that imports of it read the shadowed copy, or, listed after an importer, is
   silently passed over (`resolver_shadow`).
3. `include/rapidproto/arena_runtime.hpp:114` says of `shrink_last` that "generated
   callers always pass the true size". The emitted packed fill sets `rp_cap = rp_n` even
   when the trim had no effect because something was allocated behind the array; the
   next trim of the same array then passes a size smaller than the block's
   (`arena_trim_sizes`). The call is without effect again, so memory is lost and nothing
   worse: `ArraysApart` and the proofs about `shrink_last` hold with the stale size.
4. `src/parser.cpp:1033` gives `CompactOptions = "[" Option { "," Option } "]"`; line 1036
   uses `separated_list`, which matches the empty list, so `[]` is accepted
   (`parser_options`).
5. `src/parser.cpp:477` says `option` and `reserved` are matched first "so those keywords
   aren't mistaken for value names"; `reserved` does not commit, so an enum value
   `reserved = 1;` is parsed as a value after all (`parser_enums`).
6. `architecture.md:1231` says the recursion of the schema parser "is unbounded, a
   deliberate non-goal"; `src/parser.cpp:49` bounds it by `kMaxParseDepth` = 50, and a file
   nested deeper is refused (`parser_nesting`).

`AcceptsTheLanguage` compares the parser with `Language`, the grammar as the comments have it:
every file of it that is nested within the guard is accepted, and what is accepted becomes a
file of it when empty option lists are taken out and values named `reserved` renamed. The
departures 4 and 5 are thus the only ones. `ErrorsAreWhereTheyAre` is about the prefixes of
what the parser does accept, `Permitted`, since an error cannot stand at something accepted.

More disagreements came up while modelling and have no run of their own. In each the
model follows the code.

- `src/arenagen/layout.cpp:99` says the slot order "leaves NO internal padding" because
  every size is a multiple of its alignment; the union of a string (12 bytes, alignment 4)
  and an `int64` (8, 8) is planned with 12 bytes and alignment 8 (lines 384-385), and a
  second slot of alignment 8 behind it is padded. `SlotsApart` holds all the same.
- `architecture.md:355` has `[packed]` "gated on repeated non-message, non-enum"; the gate is
  `is_packable_scalar` (`src/interpret.cpp:30-36`), which leaves out strings and bytes too, as
  `tests/test_interpret.cpp:63` expects. `AttributesAsDeclared` has the narrower gate.
- `src/codegen/naming.cpp:690-692` says "Iteration order therefore decides who keeps a contested
  name"; lines 450-451 of the same file order each group by the proto name, "so the ids cannot
  depend on the order files arrive in", and `NamesAsExpected` holds.
- `architecture.md:499` describes a kind "BoolWrapperBits" for messages of a single `bool`; the
  planner has no such kind and holds them like other messages.

## Plan

In order of importance.

1. Done: the arena, the packed kernels and their proofs; the resolver; the wire readers;
   the arena decoder and its refinement.
2. Done: `Combinators`, `Lexer`, `Parser`; `TypeResolver`, `Analyze`, `Naming`; `Layout`,
   `FlattenBudget`, `FieldModes`.
3. Done: proofs about the arena, the packed kernels, the field loop, the resolver, type
   resolution, the layout planner, the flatten budget, the field modes and the arrays of the
   arena decoder. Left: `Naming` (`NamesApart`).
4. `ThreadedLoop`: the hub, labels, probes and self-loops of threaded fields
   (`codegen/emit.hpp`) against the general field loop.
5. `StreamDecode`: scalar, packed, map and threaded arms, aborts, error offsets;
   agreement with `MessageSemantics`.
6. `Driver`: write-if-changed, output collisions and partial failure of a batch, composed
   with a build tool that looks at time stamps; the separators of the dump runtime.

## Not modelled

- Dump generator and `dump_runtime.hpp`: text formatting; its only control is the nesting
  of separators.
- Text templates of the emitters and the helpers of `src/codegen/emit.hpp`: the emitted
  decoders are modelled by what they do, not the text that produces them.
- The command-line driver: its control is a sequence of file operations; the check of the
  namespace prefix is in `Naming`, the search of include paths in `Resolver`.
- AST and scalar tables, `wellknown_generated.cpp`: data. `Resolver` has the lookup of the
  embedded files as a function.
- The compile-time callback traits of `runtime.hpp` and the CMake integration: no state.
