# TLA+ models of wasm-packet-dissector

The repository compiles a hand-edited part of Wireshark to WebAssembly. Its own
code is small: `src/c/src/main.cpp` exports `doCall`, which leads to `epan_init`,
a stub, or `sharkd_main`; the rest of the behaviour is in the copy of Wireshark
under `src/c/3rd/wireshark`, where much of the registration code is commented
out. These modules model the parts that every dissection goes through: memory
scopes, the allocators behind them and the containers on top; exceptions; the
life of a dissection, its buffers, the calls of dissectors and the tree of items
they build; taps; and the session that answers requests. Paths below are relative to `src/c/3rd/wireshark`.

The program is single-threaded (`tap.c` assumes it, the scopes are process-wide
globals). What makes it hard is not threads but callbacks, non-local exits and
state that survives a call: a callback that changes the list it is called from, a
`longjmp` past code that meant to clean up, a pool that is handed on, a byte that
an earlier container left behind, a list walked while it is taken apart.

## Inventory

| Part | State | Operations | Interacts with | What makes it correct |
|---|---|---|---|---|
| block allocator, `epan/wmem/wmem_allocator_block.c` | blocks, chunks, master stack, recycler ring | alloc, realloc, free, free_all, gc, init, cleanup | `wmem_core.c` through a table of functions | live allocations never overlap and keep their contents; no free memory is lost; the lists and the chunks agree |
| fast block, simple and strict allocators | blocks and jumbos, an array of pointers, a list of guarded blocks | the same | the same | the same promise; every overrun is caught |
| dispatch, `wmem_core.c` | the type of each allocator | new, alloc, realloc, free, free_all, gc, destroy | the four implementations | users cannot tell which of them serves |
| scopes, `wmem_scopes.c` | three allocators, `in_scope` | init, cleanup, enter, leave, alloc, free | epan, every dissector | packet scope within file scope, nothing outlives its scope |
| callbacks, `wmem_user_cb.c` | a list per allocator | register, unregister, the walk of free_all and destroy | maps and trees in two allocators | the walk survives what callbacks do, no stale pointer stays |
| containers, `wmem_map.c`, `wmem_tree.c`, `wmem_interval_tree.c` | tables, nodes | insert, lookup, remove, traverse, reset | allocators, callbacks | content against a plain set or function |
| exceptions, `except.c`, `exceptions.h` | `stack_top`, and a state in each TRY's frame | TRY, CATCH, FINALLY, THROW, RETHROW, CLEANUP | dissectors, `packet.c` | each block at most once, FINALLY always, no cleanup lost, nothing swallowed |
| sessions and dissections, `epan.c`, `packet.c` | session, `epan_dissect_t`, `pinfo_pool_cache` | epan_init, new, free, dissect init, run, reset, cleanup | scopes, exceptions, taps | pools have one owner, a run is not disturbed |
| taps, `tap.c` | queue, listeners, `tapping_is_active` | queue, push, draw, reset, add and remove a listener | dissections, sharkd | no packet lost below the queue's limit, redraws neither lost nor repeated |
| JSON writer, `wsutil/json_dumper.c` | depth, a byte per level, error flag | begin, end, name, value, base64, finish | every sharkd reply | well-formed output, errors final |
| sharkd, `sharkd.c`, `sharkd_session.c` | an empty capture file; what a handler registers and allocates | one JSON request per line, one handler each | the dumper, taps | one reply per request, listeners and data given back |
| frames and buffers, `frame_data_sequence.c`, `tvbuff*.c` | a radix tree; chains of tvbuffs | add, find, free; windows, cuts, proxies, checks | dissections | every frame found; no checked access outside the data; a window is freed with its data |
| calls of dissectors, `packet.c` | `packet_info`, dissector tables, lists of heuristics | through a handle, a table, a heuristic, `dissect_record` | every dissector, exceptions | what a call changes in `packet_info` is put back, in both passes |
| items, `proto.c` | a tree of nodes, `ref_type` of each registered field | create, prime, add, move, reset, free | dissectors, whoever looks for a field | what is looked for is found, though most items are never made |

The registration of fields, display filters, dissectors, wiretap, `ui/` and the vendored glib
and zlib are left aside: data, parsing and I/O (`PROJECT.json` lists each, with
the reason). The hazards each part has are there too, at their lines.

## The modules

`WmemOs` is what every allocator stands on: memory as a function from addresses
to cells, the OS as a few slots (malloc takes the lowest free one), and the users
who write into what they were given.

`WmemFreeLists` is the surgery on the two free lists of the block allocator:
headers and free links are records in cells, and a pointer is an address.
`WmemBlock` is the allocator: each operator from
`MergeFree` to `GcBlocks` is one function of the code over that heap, each action
one entry of the allocator's table with everything it calls. Chunk headers are one
unit long and `AlignAmount` bytes make a unit, so that the size arithmetic (the
strict comparison in realloc, the underflow guard, the jumbo boundary) is the
code's. Content that nothing may rely on is replaced by `Junk` after each step, so
that a read of it stops the run.

`WmemBlockFast`, `WmemSimple` and `WmemStrict` are the other three allocators, on
the same memory. The fast one backs the packet scope: it appends to one block,
and keeps what does not fit as jumbos on a list of their own. The simple one is an
array of pointers, the strict one a list of blocks between canaries, whose users
may also write beside their data (`overrun`).

`WmemAlloc` is the abstract allocator: regions and what they hold. `WmemCore` is
`wmem_core.c`, a choice of one of the four by `type`, and the place where all four
are shown to implement `WmemAlloc`: `Promise` maps each, from `live` and
the cells. The fast allocator takes part with `CarefulNext`, which leaves out the
one call that breaks it (below).

`EpanScopes` has the three scopes, the session, the dissections and their pinfo
pools. Each action is a call: `EpanInit` is `epan_init`, `EpanDissectInit` is
`epan_dissect_init`, and so on. `epan_dissect_run` is `RunBegin` and `RunEnd`,
what dissectors do between the two is `WmemAlloc` and `WmemFree`, and `RunEscape`
is an exception `dissect_record` lets through. A failed `g_assert` sets
`aborted`. `ScopesSpec` lets calls come in any order. `OrderlySpec` keeps the order of
the callers in the repository.

`WmemCallbacks` is `wmem_user_cb.c`, with one step of the walk per callback, and
the two callbacks of autoreset maps and trees. The walk's `prev` and `cur` are
the code's, `prev` being a pointer into a container that a callback might free.
User callbacks answer whatever they like. The list an allocator has is left alone
by user code while it is walked, as all callbacks in the repository do; a callback
of an autoreset structure does change the list of the other allocator.
A structure whose master and slave are the same allocator is excluded: it would
free the container the walk stands on, and no caller makes one.

`Except` is `except.c` as built, and the macros. A program is a stack of TRY and
CLEANUP regions that enters another, throws, or ends a block at any time.
`do_throw` no longer copies the exception into the catcher (the assignment at
`except.c:206` is a comment), so the code a CATCH compares is chosen from
`Garbage`. The safety properties of exceptions in the run `dissection` hold whatever it is.

`Tap` is `tap.c`. A run with taps is `RunBegin` (which empties the queue), the
`TapQueuePacket` of dissectors, `RunEnd`, and a `PushStep` per queued packet and
listener; a packet routine answers as it likes. What was tapped, which tap a
listener was meant for and what it got are history variables, kept apart from
the queue and the ids the code goes by. `epan_dissect_run` is the run without taps,
in which the queue still holds the entries of an earlier one. Listeners come and
go, and are reset and drawn, between runs.

`JsonDumper` is `json_dumper.c`. `JsonText` is an acceptor of JSON, fed with what
each call writes, so that the output itself is never built. `slipped` records
that a container was begun where JSON has no place for one, which BEGIN
does not check.

`SharkdSession` is the loop of `sharkd_session_main` and the handlers it
dispatches to. It extends `JsonDumper` and instantiates `Tap`. A handler is the
sequence of the dumper's calls it makes, with its loops and early returns, and
each call is a step, so that what is checked of a reply is what the dumper
accepts. Handlers that listen to taps keep what they registered in `taps`
(`taps_data`, or `graphs`) and give it back at their end. In this copy `load` is a
comment, so the file is empty, `cfile.count` stays 0 and no packet is tapped: the
loops over frames make no turn, and the callbacks that would answer tapped
packets are never called. Where values are strings none is NULL (a NULL would
leave a name without a value, and the next call would be an error): the names
and versions are constants, and `address_to_name` of an empty address gives "".

`WmemTree` has the red-black tree with its three kinds of keys (numbers, strings,
arrays of numbers, whose words lead through trees of trees) and the interval tree
on it, rotation by rotation. A node is named by its key. `WmemMap` is the hash map
with chains that keep their order through each doubling; hashes are chosen at the
start. Both are compared with `dict` and `stored`, functions from keys to what was
stored last. `FrameDataSequence` is the radix tree of frames, with its free, which
may leave an array (`Wild`). `Tvbuff` has windows on windows of real data, in
integers of a small width with C's conversions and overflows, the general and
the fast checks of an access, and the chains in which tvbuffs are freed.

`Packet` is how dissectors call each other. A call is a record of what the calling
function keeps in its locals; a return, a rejection and an exception each do with
`packet_info` what the code does. A packet is dissected with a tree and without;
both passes run here in lockstep, and only the layers and their number have a
value for each. Dissectors accept, reject, throw and catch as they like. The
addresses that `call_dissector_work_error` saves are put back where the columns'
writability is, and have no variable. `in_error_pkt` is set by `SetInErrorPkt`: a
dissector may, though none in this repository does.

`ProtoTree` is the tree of items. An item that nobody looks for is faked: the
dissector gets the tree back instead of a node. `ref_type`, which says what is
looked for, is in the registered field and outlives the packet. Trees follow each
other, as callers make one at a time; freeing one would unmark the fields that
an overlapping one was primed for. `Call` with `asks` is the idiom that the comment
at `proto.c:818-822` allows: to leave out a protocol's items when
`proto_field_is_referenced` says nobody wants them. Values, lengths and labels
are left out.

The theorems are in `ScopesProofs` (of `EpanScopes` and `WmemCallbacks`), `WmemBlockHeap`
and `WmemBlockProofs` (of `WmemBlock`), `WmemCoreProofs` (of the other allocators) and
`WmemPromiseProofs` (of all four), `PacketProofs` (of `Packet`, `Tap` and `Except`), `JsonDumperProofs` (with the session)
and `DissectionProofs` (of `Tvbuff` and `ProtoTree`). The `MC` modules give TLC
its instances. Three of them extend independent modules, of which a behaviour
uses one: `MCContainers` five (`container`), `MCEpanScopes` the scopes and the callbacks,
`MCPacket` the calls of dissectors and the exceptions (`part`). `MCEpanScopes` remembers
whether the caller has kept the order so far (`orderly`); in `MCSharkdSession` the dumper is called either
by anyone or by the session (`served`).

## The runs

| Run | Bounds | What it shows |
|---|---|---|
| `wmem_block` | 4 allocations, 2 blocks of 10 units, 4 sizes (one jumbo); 175 212 states | `ChunksExact`: chunks tile the blocks, no two free ones follow each other. `FreeListsExact`, `MasterServesAny`: both lists hold the free chunks they should, and the master's top serves any size. `AllocationsExact`: live contents stay intact, nothing leaks. `RecyclerSettles`: as the file's comment claims |
| `wmem_core` | 3 allocations, 3 sizes (one jumbo), 3 OS blocks | whichever of the four allocators serves: `WmemAlloc` is implemented (`KeepsPromise`), the books are exact, a gc returns exactly the unused blocks, a destroyed allocator has returned everything, an overrun is caught when its block is looked at and nothing else is reported |
| `wmem_block_fast_jumbos` | 3 jumbos | expected violation, below |
| `epan_scopes` | 2 dissections, 3 pools, 1 item; or 2 allocators, 2 maps, 5 callbacks; 21 520 states | with calls in any order and escaping exceptions: scopes nest, nothing outlives its scope, pools have one owner, none leaks, a cached one is empty (`PoolsSafe`), a run keeps its pool; and no assertion fails as long as the caller keeps the order of the repository's callers (`OrderlyCallersSafe`). Of callbacks: lists stay exact while callbacks unregister others (`CallbackListsSound`), no callback is left behind and no map keeps a freed table (`MapsFollowAllocators`), every walk ends |
| `containers` | below; 668 349 states | `TreeSound`, `TreeAnswers`: every tree is a red-black tree and answers as `dict` does. `OverlapsFound`: a search of an interval tree lists only what overlaps, and misses a range only below a node that a rotation lifted, whose edge is too low and was not computed since. `MapAnswersStored`: the same for maps. `FramesSound`: each number finds its frame; a free takes nothing twice and no array before what it holds, and everything when the last leaf has room. `WindowsSound`: lengths stay ordered and no access that a check lets pass is outside the data. `FreedTogether`: a tvbuff is in one chain, with its data. `TreeLinked`: the links among items survive adding and moving. `PrimedFound`: of a primed field, every item added is found |
| `overlaps_missed` | 8 ranges with 2 upper ends, as above | expected violation, below |
| `frames_left` | 20 frames, 3 to a node | expected violation, below |
| `replies` | depth limit 5, 3 taps or graphs, 1 tap name; 18 880 states | called by anyone: the output is JSON exactly until a slip, the state tells where the text is. Called by the session: no call fails, a reply is at most a line and then the empty one, each listener and its data are given back, once, before the next request |
| `tap` | 2 taps, 2 listeners of 3 kinds, 1 filter, a queue of 2, 3 packets tapped in a run; 7.95 million states | each listener gets what it is due, in order and once, up to its failure, and no redraw is lost or repeated (`Delivered`); `fetch_tapped_data` finds this run's entries only |
| `dissection` | 4 calls within each other, 5 steps, 4 protocols, a table, a list of 3 heuristics with a disabled one; or 3 nested regions, 2 codes; 3 661 909 states | layer numbers count the layers in both passes unless a rejection took back more in one; a dissector sees the protocol, number and list it was called for after any calls of its own; only the offerer and those directly above it may desegment; the columns show the packet that reports an error and not the one it quotes. Of exceptions: the stack and the cleanups are exact, a block is entered at most once, FINALLY before leaving, no exception is swallowed |
| `layer_numbers` | as `dissection` | expected violation, below |
| `except_caught` | 3 nested regions, 2 codes | expected violation, below |

### Bounds

Two blocks with room for three or four chunks are enough for a chunk to
have both neighbours, for the recycler to hold three, and for both lists and both
blocks to be emptied in any order; the header of a split overlaps the old links
at the small sizes. In `wmem_core` an array of one pointer doubles twice, a fast
block holds several chunks, and three jumbos are a list with a head, a middle and
an end. One pool more than dissections makes the cache full while both
are in use. Five callbacks are two maps with their two callbacks each and one more
that may sit anywhere; with two allocators the maps' masters and slaves can be
crossed. Three regions are a TRY that rethrows into a TRY, with a cleanup between
them.

In `containers`, six keys (`MostKeys`) bring every case of the insertion and a
rotation below the root; array keys are two words of three (`Words`). Interval trees
have eight keys (`Keys`), the fewest with which a rotation at the root follows
recolouring below it and a search then misses ranges; upper ends are 8 and 9 (`Highs`),
and searches are between 4, 8 and 9 (`Sought`). Three map keys with hashes of three bits
and two slots at first double the table, in every pattern of collisions.
Nodes of three entries and up to 60 frames (1 024 entries in the code) reach the
fourth level. Three tvbuffs are data, a window and a window on it, or one behind
another in a chain; integers from -2 to 1 (`Limit`) hold every conversion and
overflow, and the proof lifts it. Three additions of items (`MaxAdds`), two
dissectors (`MaxDissectors`), of which one may call the other after one item
(`MaxBeforeCall`), make a faked item below a real one, two moved children and
the limits of two items and three levels met and passed; marks stay from one tree
to the next.

The dumper's state at a level depends only on that level and its parent, the
replies of the session are up to four levels deep, and the proof lifts the limit.
Loops in a reply make any number of turns. Three taps or graphs (16 and 10 in
the code) give a failing or repeated one something before and behind it; one name
of a tap is known or not, and asking for "rtp-streams" twice registers the same
data on the handler's stack twice. In `tap` the third packet of a run meets the
full queue, two entries show an order, and a failing listener has one before or
behind it in the list; its three kinds are one that wants error packets, one
that does not, and one without routines, as SMB2's. In `dissection` the layer
number wraps at 3 (256 in the code) with up to five layers, and five steps are
enough for an inner call to be rejected, thrown through and caught, and for two
error packets within each other; the proofs lift the depth.

Model values that nothing tells apart are symmetric where that saves time
(allocations, tvbuffs, names of taps).

`CHECK_DEADLOCK FALSE` stands where the modelled program stops: after an abort
(`EpanScopes`, `Except`), after a strict allocator's assertion (`WmemCore`), when
both allocators are destroyed (`WmemCallbacks`), when the sequence of frames is
freed (`MCContainers`), when an exception escaped
or aborted a dissection (`Packet`), and when the session is closed
(`SharkdSession`).

### Fairness

The one liveness property is `WalkEnds`, under weak fairness of
`WalkStep`: the walk is a loop of a single thread that nothing else can hold up,
provided that every callback returns, which those in the repository do. Calls of
users are not fair. The other parts end by construction of their loops or wait
for a caller that promises nothing.

## Where the code and its documentation differ

- `exceptions.h:209-212` describes CATCH as comparing the code that was thrown.
  With the store at `except.c:206` commented out it compares what was on
  the stack (`except_caught`).
- `wmem_core.h:158` has free_all free everything, and
  `wmem_allocator_block_fast.c:197` all jumbo blocks. The fast allocator does not
  tell a jumbo that a newer one has been put before it, so that a realloc
  of the older one makes it the head of the list and loses the newer ones
  (`wmem_block_fast_jumbos`). `CarefulNext` is what holds for callers that
  only reallocate jumbos which know their predecessor.
- `packet.c:817-821` wants the layer number to be stable from a pass without a
  tree to one with it, and takes it back only on a rejection. But an accepted
  dissector that added no item gives its layer up with a tree only, so that its
  caller, when it rejects, takes back one less (`layer_numbers`). `LayersCounted`
  says what holds: the numbers differ only after such a rejection.
- `wmem_interval_tree.c:37-41` has each node save the greatest edge below it and every
  change go on to the parents, as lines 82-83 repeat for a rotation, and
  `wmem_test.c:1384-1386` compares each search with a walk over all ranges. But
  `update_edges_after_rotation` looks at the children of the node that went down,
  and stops there when their edges did not change. The node that went up then
  keeps the edge of the smaller tree it was the root of, and searches skip ranges
  (`overlaps_missed`; eight insertions do it). `OverlapsFound` says what holds. Nothing
  outside the tests uses `wmem_itree`.
- `frame_data_sequence.c:276-278` has `free_frame_data_sequence` free "all the frame_data
  structures in it", and lines 239-240 "make sure we count correctly". The count
  of a full last array is 0: the frames of a full last leaf are not destroyed
  (`frames_left`), and a full array above the leaves makes the loop run out of it
  (`Wild`). `FramesSound` says what holds: nothing is taken twice, and all of it when the
  last leaf has room.

Seen while reading or modelling, and not made a run:

- Memory. `wmem_allocator_block.c:278` asserts (in its checking build) that chunks
  below the top of the master stack have the length `WMEM_BLOCK_SIZE`; after
  free_all on two blocks they are shorter by a header. What the allocator needs is
  `MasterServesAny`, which holds. `wmem_core.c:189-197` compares the override with
  `block` before `block_fast` and by prefix, so that `block_fast` selects the block
  allocator. A callback id wraps at 2^32 (`wmem_user_cb.c:58`).
- Exceptions. A formatted exception's message is to be freed by the code that
  catches it (`exceptions.h:388`); that needs the store that is commented out, so the
  message leaks, also in `except_vthrowf` (`except.c:319`).
- `tvb_new_subset_length` of -1 takes the whole reported length of its backing,
  also from an offset inside it.
- Calls. `call_heur_dissector_direct` with a disabled dissector does not put
  `can_desegment` back, and has no assertion on the depth. `curr_layer_num` is a
  `guint8`, and the depth allowed is 500. `match_uint` and `heur_list_name` are not
  put back when a dissector catches what another threw.
- Items. No dissector in this repository calls `proto_field_is_referenced`. Marks of
  primed fields that were not found stay behind, which costs time only. A shown
  tree may throw for its depth where a faked one does not. After `MAX_TREE_ITEMS`
  the count starts again at 0, so that a tree may have more. `epan_dissect_prime_with_dfilter`
  is declared (`epan.h:231`) and its definition a comment (`epan.c:700`).
- Taps. `register_tap_listener` no longer compiles its filter string (`tap.c:535`), so
  that a listener gets every packet of its tap, though `tap.h:160-162` promises the
  matching ones; `sharkd_retap`'s body is a comment, so that a request for taps
  pushes nothing.
- Replies. `json_dumper.h:110-112` has `json_dumper_finish` return FALSE if something
  went wrong; an object begun inside an object without a name gives `{{}}`, and TRUE
  (`json_dumper.c:133`). `load`, `check`, `setconf` and `dumpconf` send nothing but the
  empty line, though their comments promise an `err` (`sharkd_session.c:530-538`);
  `frame` and `setcomment` neither, without a file. The comment at
  `sharkd_session.c:4234` has every command finished by an empty line; a line that
  fails the checks before the dispatch gets none. `sharkd_session_process_frames`
  leaks what it parsed of the columns on its early returns. `iograph` removes the
  listeners of graphs that never listened, which only warns.
- Start. `sharkd.c:183` reads `prefs_p`, although the call that sets it is a comment;
  the session is reached if that does not stop the program.

## The proofs

All are about every value of the constants, under the named assumptions of the
modules: `OsAssumption` and `BlockAssumption` (a block has four units or more and fits
its slot, and so does what is asked for), `CoreAssumption` (the four implementations' own),
`ScopesAssumption` (no name stands for
"none"), `DumperAssumption` (the depth limit is positive), `SessionAssumption` (it is more
than the four levels of a reply; 1 100 in the code), `TapAssumption` (the queue has
room for an entry),
`CallbacksAssumption` (ids are numbers), `ExceptAssumption`, `TvbuffAssumption` (the widths
and the data fit each other), `PacketAssumption` (the frame and data protocols are
enabled, numbers of a table are not 0) and `ProtoTreeAssumption` (positive limits). None
bounds a size: bounds such as `MaxCalls` are any number.

`WmemBlockProofs` is about the block allocator, for any number of slots, sizes of blocks
and allocations: `AllocationsStayExact`, `ChunksStayExact`, `FreeListsStayExact`,
`BlockListStaysExact` and `MasterAlwaysServes`. What these properties say they say by walks
with a bound, and no step keeps a walk that ends because it was cut off. The
inductive invariant therefore has what the walks find: the chunks `C` of the carved
blocks `B`, a sequence for the block list, one for the master list and one for the
ring of the recycler. `World` says that the chunks tile each block, that the free
ones with room are on one of the lists, once, that no two unused ones are
neighbours, and that below the master list's head there are only whole blocks (`Good`,
in `WmemBlockHeap`); `Tenants` that each allocation has a used chunk of its own, that
fits it and holds what was written, and that each used chunk is somebody's.
`WmemBlockHeap` takes the allocator's functions in the order they call each other: how
links are cut and joined on sequences, then what a merge, a split, a shrunk and a
grown chunk leave of the tiling and of the lists, with at most one chunk that is
on no list yet (`x`); and that each of these writes only headers, cells of unused
chunks and the chunk at hand (`Step`). `WmemBlockProofs` puts block headers, jumbos and the users
on top, follows `free_all` and `gc` through the block list by what they have yet to see,
and has one lemma for each action. Forgetting, which the model adds, needs that
the walks find exactly `C`. `RecyclerAlwaysSettles` is the claim of the comment at
`wmem_allocator_block.c:112-117` for a recycler of any length: after k rounds the head
is the largest of the first k + 1 chunks, and those after them keep their order (`Settled`).

`ScopesProofs`: `ScopesAlwaysNest`, `NothingOutlives` and `PoolsAlwaysSafe`.
None of the three is inductive alone. That a cached pool stays empty needs that no
dissection owns it; that no pool is leaked when one is cached or destroyed needs that
owners differ; that a scope left behind is empty needs that nesting makes allocations
in it impossible. `ScopesIInv` is their conjunction, and there is a lemma for each action.
`OrderlyNeverAborts` adds that the packet scope is only entered while a dissection
runs, which `RunEscape` breaks in `ScopesSpec`; `SafeWhileOrderly` says the same of a caller
that keeps the order for a while only, in the specification that the run checks.
`RunUndisturbed` is the action property `RunKeepsItsPool`; it needs that a running
dissection has a pool.

`JsonDumperProofs!Safety` is `OutputAccepted`, which has the type invariant and says
that the text is spoilt exactly when `slipped` is set, and that otherwise
the acceptor's whole stack of contexts is the function `Contexts` of the dumper's
state. `LevelsOK`, a part of the inductive invariant `Inv`, is needed so that a
closed level never looks unopened, and that only the innermost object waits
for a value. The lemmas first say what a step does to the innermost context
(`PreparedLine`, `MisplacedContext`, `ValueContext`), then that the lower
contexts stay (`LowerContexts`). `ErrorsAreFinal` is the action property
`ErrorsStick`, which is proved and not run.

The same module has the session, `RepliesAreSound` and `ListenersAreReturned`. What is
said of a session halfway through a reply must speak of what is left to do: a stage
(`Stages`) is a place in the outline of a reply, the number of lines answered and
what the handler holds, and `Fits` says that the rest of a handler leads, step by step,
from the present stage to the end. Scripts that fit can be joined, so that the
lemmas follow the handlers as they are built (`ScriptMembers` to `HandlersFit`), and a loop's
body leads back to where it began, so that its turns do not matter (`TurnsFit`). The
dumper then accepts each call because `Inv` and the place determine its state
(`BeginDrawn` to `FinishDrawn`). For the listeners, `Books` counts: of each data, those
on the queue are as many as the handler has still to return, and what it holds on the
heap is named once; a listener that is registered, returned or missing changes both
counts alike (`ListenBooks`, `DropBooks`, `KeepBooks`).

`PacketProofs` on taps: `AllDelivered` and `AllFetchesOfThisRun`. `Mirrors` says that the queue holds the
first packets tapped in this run, which is so while taps run and are pushed, and `Ids`
that a name has one id; so the queue may be compared with the history that the code
does not keep. `Phase` says how far each listener has been served (`Upto`), which
during the push depends on whether it stands before the one at hand. A listener that
had failed before is known from `run.failed`, without which nothing could be said of
those that never got anything.

`WmemCoreProofs` is about three of the four allocators. The strict one's list is a walk through memory, and
a walk cannot be followed by induction here; the invariant `StrictInv` says instead
that some sequence is the list: it goes through the blocks the OS gave out, once each,
headers link neighbours both ways, and each block has its two canaries around its
data (`List`). `Owned` pairs its members with the live allocations, `Marks` says that the
overrun allocations are those with a canary overwritten. An alloc, a free and a
realloc are taken apart into the memory operations they are made of; each is shown to
give a new sequence (`Cons`, `RemoveAt`) and to leave the other blocks alone (`Kept`), which
is what `Whole` and the contents of others need. `free_all` walks the list while it
frees it; its recursive function is shown equal to what each prefix of the sequence
supplies. `StrictHolds` is that invariant. From it follow `OverrunsAlwaysCaught`, which is
`OverrunsCaught`, and `StrictBooks`: the part of `BooksExact` and `DestroyReturnsAll` about this
allocator. `StrictKeepsPromise` is the refinement of `WmemAlloc`, `KeepsPromise`, for behaviours
whose allocator is strict: with `Mine`, that each allocation holds what its user wrote,
every step is one of `WmemAlloc`, or a stutter when it is an overrun, a check or a
create. For the simple allocator `SimpleBooks` and `SimpleKeepsPromise` say the same. Its
array needs no walk: `Listed` says that the entries in use are the OS's blocks, once
each, `Named` that they are the pointers of the live allocations, as many as there
are; what `free_all` leaves is given in closed form (`Returned`) and shown to be the
one solution of the loop's equations.

`FastKeepsPromise` is that of the fast block allocator. `FastLists` is its two lists as
sequences, without a member in common, that have all of the OS's blocks; a jumbo's `prev`
may be missing, but where there is one it is right (`Told`), which is what the excluded
call needs. `Housed` gives each allocation a place: behind a jumbo's header, or in the
part of a block that was handed out, and no two of these overlap. An alloc is taken
apart into the step that makes room, by a block, a jumbo or neither, and the one that
carves (`Fresh`).

`WmemPromiseProofs` says it of all four: `AlwaysKeepsPromise`, `BooksAlwaysExact` and
`DestroyReturns` take the invariants together (`FourKeep`), as `wmem_core` has only one
implementation behind it. `BlockKeepsPromise` and `GcAlwaysReturnsUnused` use what `WmemBlockProofs` shows,
through an instance of it (`BP`); the first lemmas say that `WmemCore`'s block allocator
and that one are the same operators. A step of the block allocator is one of `WmemAlloc`
because each of its chunks is somebody's (`Tenants`); a collection keeps a block exactly
if it is a jumbo or has a used chunk (`GcKeepsUsed`).

`ScopesProofs` on callbacks: `ListsStaySound` and `MapsStaySound`. That a linked list is what it
should be is not said by following it: containers are put in front, so that ids fall
along a list, and given who registered what (`own`), the head is the greatest id of
its allocator and `next` the greatest below (`Linked`). Taking a container out
keeps that (`TakenOut`), and the walk stands between two neighbours (`Follows`). `MapRegistered`
says that both callbacks of a map are there, or both gone while its master is walked,
and `WalkSound` that callbacks the walk has passed have emptied their maps.

`PacketProofs` on exceptions: `Safety` (`StackAndCleanupsExact`), `BlocksEnteredOnce`, `FinallyAlwaysRuns` and
`NoneIsSwallowed`. The invariant ties each region's state
word to the blocks that were entered (`SoundTry`): which bits are set tells which
of the body, CATCH and FINALLY were counted, and the stack of the code is
1 to `Depth`. Without it a FINALLY could be entered a second time from a state the
macros never produce. A cleanup is owed once for each region on the stack (`Owes`).

`DissectionProofs!WindowsStaySound` is `WindowsSound`, for every width: that lengths are
ordered and that a window's bytes are within the data (`AllSound`) is what each
operation keeps; that every check lets pass only what is inside follows, and so does
that the fast checks agree with the general one. `ChainsFreeTogether` is `FreedTogether`: each
chain lists its members once, chains are apart and have all live tvbuffs (`Chains`), and
the data of each window are in its chain (`Sources`), which joining chains and freeing
one keep because a chain is freed whole.

`PacketProofs` on calls: `OwnCall`, `OnlyAbove` and `ReporterShown`. What a return puts back is in
the locals of callers, so the invariant speaks of the whole stack of calls:
`Stack` says that what the k-th call saved is what the first k-1 left (`Ready`), `Shown`
that the columns each one saved are those open at its depth. A call through which an
exception went is no longer `clean`, and nothing is claimed of it: that is
why an exception on its way makes all calls unclean, and why `torn` limits
`Shown`. `LayerNumbers` is `LayersCounted`, with an invariant of its own (`Layered`): the
layers of the pass with a tree are some of those without, in order (`Embeds`), the
lengths that calls have saved can still be cut down to in both passes
(`Reachable`), and they grow with the depth. A layer is given up only above the saved
length of the call that gives it up, and the embedding is what keeps the saved ones
reachable then. The arithmetic modulo 256 is needed for any width.

`DissectionProofs!PrimedIsFound` is `PrimedFound`. Its invariant has six parts: types
(`Typed`), that a primed field and its protocol are marked (`Marked`), that a tree with no
dissection is empty (`Quiet`), that a dissector which went on without a tree is one of a
protocol nobody wants anything of (`LeftOut`), that items of wanted fields are as many as
were asked for (`Counted`), and that the tracked ones are those, in order (`Recorded`).
`LeftOut` is the reason the idiom is safe, and needs that marking a field
marks its protocol. That the surgery on links leaves the items as they are is in
lemmas of its own.

`DissectionProofs!LinksStayRight` is `TreeLinked`, for trees of any size. `Rows` says of
each node that its row of children is what `first`, `next` and `last` chain together
(`RowChained`), that rows and `parent` agree and a parent is older than its children
(`Parented`), and that levels exist which grow by one from parent to child (`Levels`). The
last is stronger than the limit on depth: `proto_tree_add_node` looks at the
depth only before a node's first child, so a node with a child must leave room for
one more level. `TreeLinked` itself walks with recursive functions; those are
equal to the rows and levels that the invariant supplies (`LevelIs`, `WalkIs`). Of
`proto_tree_move_item` each half is a lemma, for an item that is first, last or
between and for a fixed one before or behind it (`CutChained`, `PutChained`).

Where a proof needs the least or greatest of some numbers it takes a minimal
counterexample (`WFMin`), as induction itself is out of reach of the prover.

Only model-checked so far: the trees, maps and frames; and `WalkEnds`. Liveness, and whatever `WmemTree` and `FrameDataSequence` define with
recursive operators, are beyond the prover used here. A recursive function is not
where an invariant supplies its values, as in `DissectionProofs` and `WmemCoreProofs`.

## Not modelled, and the plan

The models cover a small share of the repository's lines, and will: most of them
are the registration and decoding of protocols (`epan/dissectors/`, much of
`proto.c`), formats of capture files (`wiretap/`, `file.c`), tables and dialogs (`ui/`), the
display filter compiler (`epan/dfilter/`) and the value types, which are data
and pure functions and have no state that survives a call, or are not linked or never
reached in this build. Reassembly and conversations, which do keep state, are not
in the repository: `reassemble.c` and `conversation.c` are missing.

Left out of what is modelled: running out of memory (`g_malloc` aborts), the
choice of allocators by `WIRESHARK_DEBUG_WMEM_OVERRIDE`, plugins, string escaping
and indentation of JSON, the Windows branches of `except.c`; composite tvbuffs,
accessors behind the checks and `frame_tvbuff.c`; string, GUID and payload tables and
Decode As; `tap_cleanup` and the queries of listeners' flags; and of the session
the table of filters, preferences of columns, exported objects, which are always
none, and the daemon's sockets, which are comments. Of `packet_info`, `saved_can_desegment`
(`packet.c:782`), `want_pdu_tracking` (936) and the saved addresses have no variable, and
every heuristic entry has a protocol (2766 and 2774 allow for one without): no property
depends on them.

Hazards that no property covers: `prefs_p` (`sharkd.c:183`), whose value the
build decides; the wrap of callback ids, which takes 2^32 registrations; and the
message that `except_vthrowf` leaks, as messages are not modelled.

To follow, in this order:

1. Composite tvbuffs, and `frame_tvbuff.c`, on top of `Tvbuff`.
2. String tables and Decode As in `Packet`, whose entries change between packets.
3. Registration of fields, and `ProtoTree` with two trees that overlap.
4. `Tap` composed with `EpanScopes`, as taps see memory of the packet scope, and
   `tap_cleanup`.
5. Proofs: `WmemMap` as a function of keys, and the overlaps that `WmemTree` must find.
