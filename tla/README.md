# A verification project for libpussy

libpussy is a small C library: memory allocators behind one interface, arenas,
memory-mapped arrays, ring buffers, an event, time arithmetic and dumps. These
modules specify its behaviour in TLA+, check it with TLC on small instances,
and prove what matters most with TLAPS for every size. Paths below are
relative to the repository (`src/src/allocator_pet.c` is the pet allocator).

## Inventory

### Pet allocator (`src/src/allocator_pet.c`)

Two sub-allocators behind the three functions of `Allocator`. Requests of at
least `max_data_units` units get whole pages from `mmap` and are resized with
`mremap`. Smaller ones get runs of 16-byte units on *bitmap pages*, pages with
a header that holds list links and one bit for each unit.

* State. `lru_page`, the head of a list with the page last used; `superblock`,
  an array of list heads, one for each length of the longest free run; in every
  page's header the pointer `list` (which list the page is on, null when a
  thread has it), `next`, `prev` and the bitmap; the counters
  `stats.blocks_allocated` and `num_bm_pages`; one mutex `lock`.
* Operations. `bm_allocate` takes a page out of the lists
  (`find_available_page`), sets bits without the lock and puts the page back as
  the LRU page (`unhand_page`), which moves the previous LRU page to the
  superblock or unmaps it. `bm_release`, `bm_shrink`, `bm_grow` spin in
  `grab_page` until the page of the block is on a list, take it, change bits
  without the lock and put it back. `_reallocate` resizes in place or allocates,
  copies and releases.
* Interaction. Threads meet only in the lists and in the page headers. Nothing
  but the convention "a page on no list belongs to the thread that took it"
  protects a bitmap.
* Hard behaviour. Work outside the lock on shared pages; a page unmapped after
  the lock is released; the early `next == prev` test of `delete_from_list`,
  which loses a page; spinning; word-wise bit searches.
* Correctness. Pages in hand are exclusive; blocks never overlap, and no unit
  is leaked or freed twice; no page is unmapped under a block; a page is filed
  under its longest free run, so `abort()` in `find_available_page` is
  unreachable; list operations follow only pointers to mapped pages; the
  counters are exact when no call is in progress and never wrap; every call
  returns.

### The other components

| Component | State | Operations and interaction | Hard behaviour | What makes it correct |
|---|---|---|---|---|
| Pet allocator's interface: `_allocate`, `_release`, `_reallocate` | none but the counters: a block is known by its address alone | chooses between the bitmap sub-allocator and whole pages; moves blocks across; `cleanse` clears bytes | the client gives sizes back; rounding at 32 bits; a move is an allocation, a copy and a release, of which the first may fail | what is reserved covers the size the client will give back, on every path |
| Allocator interface, `allocator.h`, `allocator.c` | `default_allocator`, page size | `allocate`, `reallocate`, `release` call one of three allocators | a failed call | one contract that all three keep |
| Stdlib allocator | a counter | `malloc`, `realloc`, `free` | failure; `realloc` to zero bytes | a failed call leaves block and counter as they were |
| Debug allocator | a counter; guard bytes on both sides of a block | `malloc` with guards, checked when a block is given up | the copy and the clearing when a block shrinks | a block with a damaged guard is not given up unreported |
| Ring buffer, `ringbuffer_base.c` | `data`, `size`, `head`, `tail` | read, write, grow, shrink (`mremap`) | wrapped data, one byte kept free, page rounding | what is read is what was written, in order |
| Synchronised ring buffer, `ringbuffer_sync.c` | a ring buffer, a mutex, events `more` and `less` | the same under the mutex, then sets an event | clients that clear, try and wait; failures in the initialiser | nobody waits for what has happened; all data arrives |
| Event, `sync_event.c` | flag, mutex, condition variable | set, clear, wait, timed wait | setting without the mutex; spurious wake-ups; timeouts | setting wakes every sleeper; timed waits return |
| Fixed-size block arena, `fsb_arena.c` | lists of pages with room and of full pages, a bitmap in each page | allocate, release, walk with a callback, destroy | lists as in the pet allocator; callbacks that release; page geometry | pages count and mark their blocks; nothing mapped is lost under a block; no stale link is followed |
| Arena, `arena.c` | regions, each with a tail | create, allocate, fit, set capacity, delete | alignment and sums at 32 bits | blocks apart, aligned, inside; unmapped whole |
| Memory-mapped array, `mmarray.c` | length, capacity, item size | allocate, grow, append | the mapped size is derived from a rounded capacity | items are mapped, `mremap` gets the true size |
| Timespec, `timespec.c` | none | add, subtract | carry and borrow | normalised, exact to the nanosecond |
| Dumps, `dump_hex.c`, `dump_bitmap.c` | the row held back | print, coalesce, skip | the last row, incomplete rows, counts | the reader can tell every row |

Threads meet in the bitmap sub-allocator, the event and the synchronised ring
buffer; nothing else has a lock. The only callback is that of
`fsb_arena_walk`. Nothing is persisted.

Every hazard the code is exposed to is in `PROJECT.json`, at its line, with the
properties that would catch it.

## Plan

Most important behaviour first. Stages marked (done) are in this directory.

1. (done) The bitmap sub-allocator: `PageBitmap`, `PageLists`, `PetBitmap`, its
   abstract specification `BlockStore`, and `WordBitmap`.
2. (done) Proofs about it: `PageLemmas`, `PetBitmapProofs`, `WordBitmapProofs`.
3. (done) `RingBuffer` with `ByteQueue`, and `RingBufferProofs`.
4. (done) `Event`, and `SyncRingBuffer` and `SyncClients`, which compose two
   events with `RingBuffer` and a mutex; `SrbLifecycle` for its making and undoing.
5. (done) `FsbArena` and `FsbGeometry`.
6. (done) `PetInterface`, `StdlibAllocator` and `DebugAllocator` against
   `AllocatorContract`, composed by `Allocators`; `Cleanse`.
7. (done) `Arena`, `MmArray`, `Timespec`, `DumpHex`, `DumpBitmap`; `Parts`, which
   checks all that stand alone.
8. (done) Proofs about all that: `AllocatorProofs`, `FsbArenaProofs`, `SyncProofs`,
   the refinement of `ByteQueue` in `RingBufferProofs`, and `StandAloneProofs`.

Left for later: the mutual exclusion of `Event`'s mutex as a theorem of its own (the
proofs about the synchronised ring buffer do not need it); the contents of units
of the bitmap sub-allocator, which `PetInterface` keeps for one client, under
threads.

## Modules

### Pet allocator

* `PageBitmap`. One page's bitmap is the set of units whose bit is set. The
  page is `units_per_page` units, the first `bm_page_header_size_in_units` of
  which hold the header. `find_free_block`, `find_longest_free_block`,
  `count_zero_bits`, `set_bits` and `clear_bits` say what the C functions
  compute; how they do it is `WordBitmap`'s subject.
* `WordBitmap`. The same functions on words of `WORD_WIDTH` bits, with shifts,
  complements, masks, `count_trailing_zeros` and the early stop at `limit`. `words`
  are the bitmap, `units` the set that `PageBitmap`'s operators make of the same
  calls. `NewPage` marks the header and the first block, `Update` sets a free run or
  clears a set one; between updates a search may run, `FindNext` and `LongestNext`
  being one turn of its loop on the locals `scan_offset`, `scan_size`, `scan_left` and
  `lfb` (`offset`, `block_size`, `n` and `lfb` in the code). The loops over words
  inside the counts and updates have no state that outlives them: `count_words` says
  at which word they stop, and `whole_words` which words they write. A page is in one
  thread's hands while it is searched or changed (`PagesExclusive`), so nothing
  comes between.
* `PageLists`. A record `links` with the list heads and the header fields
  `list`, `next`, `prev` of every page, and the operations on it:
  `add_to_list`, `delete_from_list` with the code's early test, `set_lru` (the
  end of `unhand_page`) and `forget` (a page's header goes with the page).
  `ListsOK` is what keeps these lists safe although pages get lost.
* `PetBitmap`. Any number of threads. `pc[t]` is the point of a call at which
  thread `t` can be interrupted, and `page[t]`, `offset[t]`, `fresh[t]` and
  `new[t]` are its locals. Each action is one section under the mutex
  (`TakeLru`, `PutBack`, `TakeFromSuperblock`, `Unhand...`, `Grab`) or one
  stretch of work on a page in hand (`ScanLru`, `SetBits`, `MapPage`,
  `ClearBlock`, `ClearTail`, `GrowInPlace`, `Munmap`). A mutex section is
  atomic because every access to the lists is inside one; a stretch of unlocked
  work touches only the page in hand and locals, and that no other thread uses
  that page is a property, `PagesExclusive`, not built in. `grab_page` takes the
  lock, reads `list` of the page, and if it is null unlocks, yields and tries
  again; an iteration that finds null changes nothing, so `Grab` is the
  successful one and spinning is the absence of a step.
  `held` are the blocks in clients' hands. A client releases and resizes only
  blocks it holds, with their true size, as the interface requires.
* `BlockStore`. What an allocator promises: disjoint extents that appear,
  vanish and change length as a whole. `PetBitmap` implements it with the
  refinement mapping `blocks <- {Cells(b) : b \in allocated}`: a block is
  allocated from the setting of its bits to their clearing.
* `PetBitmapInv`, `PageLemmas`, `PetBitmapProofs`, `WordBitmapProofs`. See Proofs.
* `MCPetBitmap`, `MCPetBitmapLive`. The instances TLC checks; the second bounds
  the calls of each thread by `MaxCalls` and states fairness.
* `PetInterface`. The three functions of the interface over both
  sub-allocators, with byte counts at the width `UNSIGNED`. `held` is what the
  client asked for, `reserved` what is kept for it. The sub-allocators below it
  are abstract: units or pages appear at free addresses, or the call fails.
  Each branch of `_reallocate` is an operator (`ShrinkInBitmap`,
  `ShrinkToBitmap`, `OnPages`, `GrowInBitmap`, `Move`), with `call_mremap` and
  its own failure, and each has an operator for where it begins to clear. `ledger`
  is the sub-allocators' memory together with the count of blocks: what makes a
  block counts it up (`Taken`), what gives one back counts it down (`Given`), and a
  move is both (`moved`). One client: threads are `PetBitmap`'s subject.
* `Cleanse`. The loop that clears bytes by words where it can.

Left out, because no property depends on it: the contents of units, tracing and
statistics other than the two counters, `dump`, the superblock's entry for unit
counts no list uses.

### Allocators

* `AllocatorContract`. What `allocator.h` promises, whichever allocator it is:
  new blocks at addresses nobody holds, bytes kept up to the smaller size,
  cleared from the old size on when `clean` is asked for, a failed call without
  effect. `call` records what the last call reported.
* `StdlibAllocator`, `DebugAllocator`. Each has its heap and its failures. The
  debug allocator's `damage` are the guard bytes that have been overwritten, by a
  client that writes next to its block (`Stray`) or by the copy of a block that
  shrinks; its `ledger` is as in `PetInterface`.
* `Allocators`. `init_allocator` makes one of the three `default_allocator`, and
  calls go to it. `ImplementsContract` holds of each through the same mapping.
  `MCAllocators` adds the symmetry of addresses.

### Ring buffers and event

* `RingBuffer`. The basic ring buffer with the bytes it holds. `data`, `size`,
  `head` and `tail` are the fields of the struct, `call` the last call and what
  it returned. Every function is one action or one for each way it can end
  (`Grow` and `GrowRefused`, `ShrinkReturns`, `Shrink` and `ShrinkAborts`, `Write`
  and `WriteRefused`, `ReadStraight`, `ReadUpper` and `ReadBoth`). Bytes from
  outside the buffer are `Junk`. `MCRingBuffer` gives TLC its bytes.
* `ByteQueue`. A queue with a capacity. Writes are all or nothing, reads take
  from the front, resizes change no byte.
* `Event`. `thr[t].at` is where thread `t` is. `set_event` is two steps, the flag
  and the broadcast, and takes no mutex; `wait_event` is a step between any two
  points where another thread can come in: `Lock`, `Test`, `Sleep` (which
  releases the mutex and waits at once, as `cnd_wait` does), `TimeOut`,
  `WakeSpuriously`, `Relock`, `Return`. `MCEvent` has threads that make a few
  calls of any kind.
* `SyncRingBuffer`. Extends `RingBuffer` with the mutex and the two events, which
  are instances of `Event`: each call is one of `RingBuffer`'s, faults included, under
  the mutex, then the event, in the steps of `set_event`, then the unlocking.
  `SyncClients` adds a writer, a reader and a thread that resizes. The repository
  shows no client of the events, so the protocol is the one their comments
  suggest: clear the event, try, wait. `written` and `received` are the bytes that
  went in and came out. `MCSync` gives the payload.
* `SrbLifecycle`. `srb_init` of an embedded buffer and `srb_create` of an allocated
  one, with a failure at every step, `srb_fini`, `srb_delete`, `create_event` with
  each of its three failures and `delete_event`. `left` is what was released
  without having been destroyed.

### What stands alone

* `FsbArena`. Pages as in `PageLists`, but with two lists, a count of free blocks
  and one user. A walk is a sequence of steps, between which the callback
  releases the block it was called for, or not: `walk` holds the locals.
  Following a null pointer or a link to a page that is gone sets `outcome`.
* `FsbGeometry`. `_init_fsb_arena`'s search for the size of the bitmap, with the
  real constants of a 64-bit system, for each size and alignment of a type.
* `Arena`, `MmArray`, `Timespec`, `DumpHex`, `DumpBitmap`. One state machine each;
  the header of each module says what is abstracted.
* `StandAlone`. Composes `Arena`, `MmArray`, `Timespec`, `DumpHex`, `DumpBitmap`,
  `Cleanse` and `SrbLifecycle`. They share no state, so each behaviour is of the
  one part that `part` names and the state space is the sum of theirs, not the
  product. Its properties are the conjunctions of what the modules claim.
* `Parts`. `StandAlone` with `FsbArena`, `WordBitmap` and `FsbGeometry`, in the same
  way. The last needs Bitwise operators, which proofs cannot reach; that is why
  `StandAlone` is a module of its own. A step of `Parts` is a step of `AloneNext`, and
  `AloneInit` leaves `part` open, so what is proved of `AloneSpec` holds of the
  behaviours that `parts` checks. Just so for `FsbArena` and `WordBitmap`: seen by
  their variables a behaviour of `Parts` is one of theirs.

### Clients that avoid what the code gets wrong

Two modules let the client be `careful` or not, so that a property can say
what such a client gets without leaving the other calls out of the model:
`PetInterface` (sizes that wrap, reallocating to zero bytes, few units from a
block of pages: `Avoided`) and `RingBuffer` (there `careful` is a history
variable: no read of a wrapped buffer so far, and no shrink of one part of the
way). The clients of `SyncClients` cannot avoid a read of a wrapped buffer, since
they do not see head and tail; there `careful` tells until when order is promised.
`DebugAllocator` knows no such client: shrinking a block there ends the program, at
once or when the block is given up, and `ImplementsContract` speaks of the calls
that return.

## Runs

| Run | Instance | Distinct states | What it shows |
|---|---|---|---|
| `pet_threads` | 2 threads, 2 pages, 3 data units, blocks of 1 or 2 units | 532935 | all safety properties of `PetBitmap` in every interleaving, the invariant of the proofs, and that `BlockStore` is implemented |
| `pet_three_pages` | 2 threads, 3 pages, 2 data units | 73988 | `LinksSafe` with lists of three pages, lost pages and operations on them |
| `pet_live` | 2 threads, 2 calls each, fair | 32531 | every call returns |
| `pet_lost_page` | 1 thread, 3 pages, 2 data units; a violation | | `delete_from_list` loses a page |
| `allocators` | units of 2 bytes, pages of 8, 64 as the range of `unsigned`; 2 addresses for units and 2 for pages; 8 sizes, 4 for the two heap allocators | 112823 | the contract, the balance of memory and statistics, coverage and aborts, whichever allocator is the default |
| `pet_leave_pages` | as `allocators`, 3 sizes; a violation | | a block of pages is released as units |
| `ring_buffer` | pages of 2 bytes, at most 3 of them, 16 as the range of `unsigned`, writes of 0 to 4 bytes | 96219 | bounds, full shrinking, and the refinement of `ByteQueue` |
| `ring_read` | a buffer of 4 bytes, writes of 2, reads of 1; a violation | | a read of a wrapped buffer |
| `event` | 3 threads, 2 calls each, fair | 109538 | setting wakes all sleepers; timed waits return |
| `sync_arrives` | writer, reader, resizer with 2 calls, 3 writes, pages of 3 bytes and at most 2 of them, waits time out, fair | 206524 | the events tell both sides; all data arrives in order until a read meets a wrapped buffer |
| `sync_lost_wakeup` | one page, no resizing, 2 short writes, waits without timeout; a violation | | a wake-up is lost |
| `parts` | see below | 344711 | what each part that stands alone claims |

### Bounds

Two threads are enough for every pair of actions of `PetBitmap` to interleave,
and each hazard listed is a race of two. Two pages are enough for a page in hand
next to one on a list, and for reclaiming; three for a superblock list whose
deletion loses a page and for a page between two others. With three data
units a page can be free, partly free in one piece or in two, or full; blocks
can shrink, grow in place, be blocked and move. The page count is also the
bound on `mmap`: when no page is left only `MapFails` is possible. The counters
need no bound, since they follow the blocks and pages.

`allocators`: a unit has 2 bytes, a page 8, less than 3 units are small. The
sizes reach every branch of `_reallocate` in both directions: none, one and
two units, a last unit in part and in full, one page, two pages in part and in
full, and a size that wraps. Two addresses of each kind let a block move while
another is held.

`ring_buffer`: three pages let it grow and shrink by one page or two, and pages
of two bytes put page ends, buffer ends and the free byte at every place
relative to each other; writes reach from nothing to more than one page holds.
15 is a size that wraps when it is rounded.

`event`: two sleepers and a setter, or one of each with a thread that clears, are
the smallest groups in which a broadcast differs from a signal and threads
compete for the mutex. `sync_arrives`: every write fits an empty buffer of one
page, but the payload fills it unless something is read or it grows, so that writes
are refused and the tail may wrap; a read may take less than there is; the
resizer's two calls can grow and shrink the buffer, or fail to. In
`sync_lost_wakeup` the payload is too short to wrap, so that what is refuted is the
event and not the reading.

`parts`: four pages of two blocks for `FsbArena`, so that both lists have two
pages at once and a page is full, partly free and free; every size up to
4064 bytes for `FsbGeometry` (from 4065 on the page division is wrong, see
Findings); three regions of 16-byte pages for `Arena`, with a block larger than
a page; item sizes from 1 to 33 with pages of 16 for `MmArray`, arrays up to 40
items; five nanoseconds to the second, halves of a nanosecond and seconds up to
6 for `Timespec`; 14 bytes in words of 4 for `Cleanse`; eight rows of two kinds
for `DumpHex`, more than twice the four after which rows are counted; three rows
of three bytes for `DumpBitmap`; four addresses for `SrbLifecycle`, twice what a
buffer uses.

Three words of 4 bits for `WordBitmap`: a run lies in one, crosses one boundary or
two, and starts or ends on one; the header, of three units, ends inside a word, so
that searches start in the middle of it. Every bitmap the updates can make is
searched for every size.

Symmetry is used for safety only, on threads, pages and addresses, which the
specifications treat alike. `CHECK_DEADLOCK FALSE` stands where the system may
stop: the program may abort (`outcome`, `ShrinkAborts`), clients stop after their
last call, and a dump ends.

### Fairness

`pet_live` assumes weak fairness of each thread's steps inside a
call: the operating system runs every thread, and a mutex that is released is
handed to a waiter. It assumes nothing of clients, who need not call, nor that
`mmap` succeeds. `grab_page` waits for no queue: a thread can find the page in
other hands each time it looks, for ever, if others keep taking it. Weak
fairness does not exclude that, and neither does the code; with clients that
make finitely many calls it cannot go on, which is why `pet_live` bounds them.

`event` assumes weak fairness of each thread inside a call and of the clock: a
timeout expires. Clients are bounded, so the mutex is not taken by others for
ever. Nobody is woken for no reason by fairness.

`sync_arrives` and `sync_lost_wakeup` assume strong fairness of each thread, since
their clients go on for ever: a mutex that is free again and again is given to
every thread in the end. Without that a reader that retries for ever could keep
the writer out, which the code leaves to the scheduler. Timeouts expire as part
of a thread's steps.

## Findings

Four runs show code that departs from what the repository says of it.

* `pet_lost_page`. `delete_from_list` (`src/src/allocator_pet.c:501`) tests
  `next == prev` for the last page of a list, which also holds for a list of two.
  Deleting one page then empties the list and the other page is on none, although
  its header names it. What the proofs add: the lost page is never mistaken for a
  page in hand, is taken correctly when a client next releases or resizes a block
  on it, and no pointer to unmapped memory is followed on the way (`LinksSafe`);
  the cost is that until then its free units are not used, and that it stays
  mapped if there is no block left on it.
* `pet_leave_pages`. Shrinking a block of pages to a few units copies it to the
  bitmap sub-allocator and releases the pages with `bm_release` (`:949`), which
  takes client data for a page header.
* `ring_read`. `read_ringbuffer` (`src/src/ringbuffer_base.c:191`) takes
  `size - tail` for the length of the upper part of a wrapped buffer, which is
  `size - head`, and advances `head` by it where it reads less (`:197`). Such a read
  delivers bytes that were not written, loses some, or moves `head` to a wrong place.
  In the run the buffer has four bytes. Two are written and one is read, two more
  are written, and the tail wraps to 0. A read of one byte then delivers the right
  byte and moves `head` from 1 to 5, outside the buffer; two bytes are lost.
* `sync_lost_wakeup`. `set_event` (`src/src/sync_event.c:54`) takes the mutex
  neither for the flag nor for the broadcast. Both can fall between a waiter's
  look at the flag and its `cnd_wait`. In the run the reader, which has read nothing,
  is between the two when the writer writes and sets the event; it then sleeps for
  ever with data in the buffer and the flag set. `sync_arrives` shows that
  timeouts repair it.

Others are in the models, which follow the code, and have no run of their own;
the properties exempt them, by the condition given.

* `src/src/allocator_pet.c:188`, `:138`. A size in the last page below `UINT_MAX`
  wraps when it is rounded: it is served with no units, or a growth to it
  reports success and does nothing. `Huge` in `Covered` and `Avoided`.
* `:901`. `old_nbytes | new_nbytes` is zero only when both are, so the branch for
  reallocation to zero bytes is never taken; the call succeeds, and releasing
  the block aborts. `Avoided`.
* `:945`. When a shrink from pages to units finds no unit it falls back to
  `mremap`; the block is then page-aligned with the size of few units, and the
  next resize to units aborts. `Avoided`.
* `src/src/allocator_debug.c:160`. A block that shrinks is copied whole into the
  smaller one. Where that reaches the guard only, the call succeeds and the next
  one that gives the block up reports damage that no client has done; where it goes
  beyond, or with `clean`, for which the difference at `:164` wraps, memory that is
  not the block's is overwritten (outcomes `damaged` and `overflow`). `DamageFound`
  says that damage is reported; that nothing else is would not hold.
* `src/src/ringbuffer_base.c:134`. A wrapped buffer that shrinks to a size above
  the smallest leaves its upper part away from the new end. `careful`. `:67`:
  growing to a size that wraps returns true and does nothing; `ByteQueue` lets a
  resize do nothing.
* `src/src/sync_event.c:88`. An untimed `wait_event` that has slept returns false
  when it is woken: `signalled` keeps the value of the flag from before the wait
  (`Relock`). Its clients must look at the event, or try again, as `SyncClients` does.
* `src/src/ringbuffer_sync.c:18`. When an event cannot be made, `srb_init` does not
  destroy the mutex it has initialised at `:10`; a client that tries again with an
  embedded buffer initialises it a second time. `src/src/sync_event.c:36`: when
  `mtx_init` fails, `create_event` releases the event without destroying its
  condition variable. `LeavesOnRefusal` says that nothing else is left behind.
  `delete_event` (`:49`) frees the event and clears only its own copy of the pointer,
  so `more` and `less` dangle after a failed `srb_init` and after `srb_fini`;
  `UndoneOnce` shows that neither is used to delete an event twice.
* `src/src/fsb_arena.c:42`. The list of two again: pages with room drop out of
  `avail_pages`. The properties hold nevertheless; that every page with room is
  listed is not among them.
* `:95`. `destroy_fsb_arena` frees a page and never advances: with two pages in a
  list it reads the page it has unmapped (outcome `bad_destroy`).
* `:177`. When no page has room and a release makes a page entirely free, which
  with one block in a page is the first release, `list->next` is read through
  null (outcome `null_list`, exempted by `LinksSafe`).
* `:197`, `:220`. A walk visits no full pages, and may visit a block twice once
  its callback has released one (`VisitsOnce` speaks of callbacks that do not). If
  the callback releases every block of the page the walk began with, that page is
  unmapped and the test for the end (`:220`) never meets it again: with two pages
  left on the list the walk goes round them for ever, and calls back for whatever is
  allocated on them. `LinksSafe` holds of it, since both are mapped.
* `:67`. From block sizes of 4065 bytes on the header is aligned past the end of
  the page and the difference wraps (`MaxSize`). `src/include/fsb_arena.h:11` says
  "block alignment equals to block_size", which is more than `BlocksAligned` claims
  and more than the code does: the header is rounded by masking, so that blocks of
  24 bytes, say, lie at multiples of their type's alignment and not of 24.
* `src/src/arena.c:134`, `:80`. A capacity near `UINT_MAX` wraps with the header
  added and gives one page. No property says that the capacity is what was asked;
  a block of such a size gets a region that cannot take it, so the theorem
  `NewRegionsServe` asks that no sum of a request and a header wraps.
* `src/src/mmarray.c:64`, `:89`. An increment that wraps shortens the array, and
  the offset of an item in an array above four gigabytes wraps (`Increments`,
  and the condition of `AppendsAtEnd`). `:52`, `:75`: the capacity of an array
  whose length is within a page's worth of items of `UINT_MAX` wraps (`MaxLength`).
* `src/src/dump_hex.c:75`. One to three repeats of a row are printed with one line
  too many, with an address that belongs to the next row. `RowsShown` asks that
  every row is shown, not that every line is true.
* `src/src/ringbuffer_sync.c:92`. `more` is set also when a write was refused; a
  client must try again after a wake-up, as `SyncClients` does.

## Proofs

Every theorem is of the specification TLC runs (those of `StandAloneProofs` are of
`AloneSpec`, see `Parts` above), for every value of the constants that satisfies
the named assumptions. The assumptions say what the code's own
definitions and assertions say:

| Assumption | What it asks | Where the code has it |
|---|---|---|
| `WordsAssumption` | a page has whole words of units, its header leaves room for two units, and `UINT_MAX` is at least the units of a page | the same, and `src/src/word.h` |
| `UnitsAssumption` | the page header takes at least one unit, so offset 0 can mean "not found", and leaves room for two | `src/src/allocator_pet.c:173-181`, `_init` |
| `ListsAssumption` | null is no page and no list | pointers |
| `InterfaceAssumption`, `AllocatorsAssumption` | a page is whole units, the range of `unsigned` whole pages, and the addresses of units and pages differ | the same lines; powers of two |
| `FsbAssumption` | a page has a block, and a bit for each | what `FsbGeometry` shows of `_init_fsb_arena` |
| `SizesAssumption` | pages of at least two bytes that divide the range of `unsigned` | `sys_page_size` |
| `ClientsAssumption` | three threads; no empty write, no read into no room | the clients |
| `StandAloneAssumption` | positive sizes; for `Arena`, alignments that divide both headers and the page (`src/src/arena.c:97` asserts at most that of `max_align_t`); for `MmArray`, lengths below the wrap | the headers' sizes |

### The bitmap sub-allocator

* `PageLemmas`. For bitmaps, what the searches return whatever the page holds, in
  particular `LongestFits` (a page filed under its longest run has room for every
  shorter request) and `LongestOfFreePage` (only a page without blocks is
  reclaimed). For lists, that every operation keeps `ListsOK`. Lists with lost
  pages are no longer circular, so the invariant says less: heads are well linked
  (`HeadsListed`), a page on a list is well linked or has `next = prev`
  (`RingOrStale`), and well linked pages have well linked neighbours
  (`RingsClosed`). A stale page passes the early test of `delete_from_list`, which
  then writes nothing through its links.
* `PetBitmapProofs`. `IInv` is inductive, one lemma for each action, and from it
  `TypeOK`, `PagesExclusive`, `BlocksDisjoint`, `BlocksMapped`, `BitmapExact`,
  `SuperblockClassified`, `NoAbort`, `LinksSafe`. None of these holds by itself.
  `BlocksDisjoint` rests on `BitmapExact` (a free run has no block), which rests
  on `PagesExclusive` (nobody changes the bitmap between the search and
  `set_bits`), which rests on `ListsOK` (a list head names its page) and on what
  is known of a page to be unmapped: it carries no block, so no thread waits for
  it in `grab_page`. `NoAbort` rests on `SuperblockClassified` and `LongestFits`.
  Frame lemmas (`QuietStep`, `TakePage`, `ChangeBlocks`, `ChangeBitmap`,
  `UnhandPage`) say once what several actions have in common.
  From `IInv` also follows that each step maps to a step of `BlockStore` or to none
  (`KeepsBlockStore`): most change no block (`BlocksStay`), and for the others the
  cells are shown to be free, or to be those of the block. And `CountersSettle`: with
  any number of threads under way the counters are not the numbers of blocks and
  pages, so `CountInv` says what they are. A thread in a resize or a release still
  counts for its block, one that moves a block counts for two until the old one is
  released, and a page that was mapped in this call is not counted yet.
* `WordBitmapProofs`. The operators of `PageBitmap` are what the code computes word by
  word, for any width of a word, any number of words and any header: `ScansExact`,
  which is `UpdatesExact`, `CountsExact`, `SearchesExact` and `SearchMovesOn`. A unit is a word and a bit, and
  `UnitOrder` compares units by these, after which no product is left. `MasksExact`
  says that the masks of a run cover its units, `Counted` what a count means, and
  `NoLongerRun` that between two stops of a search no run begins that is longer than
  the one found at the first. `WordInv` adds to the exact words what a search has
  passed so far: no run long enough before `offset`, or none longer than `lfb`, which
  is the length of one of them; `n` is the rest of the page.

### The allocators

`AllocatorProofs` is about `Allocators`, one invariant for each choice of the
default allocator. For the pet allocator `PetCovered` is not inductive: a block in
pages that shrinks to as many units keeps the pages it has, so `PetInv` says that
whole pages cover it, and that a careful client's block lies in the sub-allocator
its size says, because `_reallocate` goes by sizes alone. The lemmas `UnitsUp`,
`PagesMonotone` and the like do the rounding with `unsigned`, wrapping included.
For the debug allocator `DebugInv` relates the damage to the guards of blocks that
were strayed from, and `Books` the memory of each allocator and its count to the blocks
held, through the steps of a move. It proves `PetCovered`, `LedgerBalances` (theorem
`NothingIsLost`), `NoAbort`, `DamageFound` and `ImplementsContract`: each step, of
whichever allocator, is one that the contract allows, with the bytes it keeps and
clears.

### Ring buffer and its threads

* `RingBufferProofs`. `InBounds`: the invariant says that sizes are naturals and
  that `careful` implies both bounds; the work is in `PageFloor` (masking never
  exceeds the gap it rounds), in one lemma for each call that moves a field, and
  in `WrappedReadStep` (after a read of a wrapped buffer nothing more is claimed).
  `ImplementsByteQueue`: with `Shape` (the buffer has a cell for each index), the
  bytes from head to tail are compared one by one before and after each call; a
  write that wraps, a resize that moves the tail and the three ways of reading
  have a lemma each. `ShrinksFully` needs `Whole`: the buffer is whole pages, so
  that what a shrink leaves below a page is less than one.
* `SyncProofs`. `ReaderTold` and `WriterTold` hold because some thread is about to
  set the event, or has set it and only the client that waits clears it. `SyncInv`
  says so of each thread's place: an event is announced from the operation until
  `set_event` has written the flag, after which broadcasts and the waits of others
  change no flag and put nobody before the test (`Calm`). `BytesStayInOrder`: what
  has been received and what the buffer holds is what was written, in order, for any
  payload. The module extends `RingBufferProofs`, whose lemmas about each call, with
  the bytes at every place of head and tail, are used as they are; like them the
  theorem ends where a read finds the buffer wrapped, because there the code is wrong.

### The fixed-size block arena

`FsbArenaProofs`: `BooksKept`, `BlocksMapped`, `LinksSafe` and `VisitsOnce`. `FsbInv`
has two halves. `PagesOK` is what survives the loss of pages: links of pages in use
lead to pages in use, or the page has `next = prev` and is taken for the last one.
`WalkOK` is for walks: the pages they go round are a ring (`Ring`) that no deletion
cuts while the walk is on it, and before the callback has released anything the
pages ahead are those not yet visited (`Ahead`). A walk that has released a block
keeps only the first, which is why `VisitsOnce` ends there.

### What stands alone

`StandAloneProofs` has one invariant for each part, and lemmas on division that
they share (`DivisionUnique`, `NextMultiple`, `ToMultiple`).

* `ArenaKeepsBlocks`: tails grow and stay below capacities, capacities are page
  sizes less a header (`RegionOK`), and blocks end at or below the tail they were
  taken from (`BlocksIn`). `NewRegionsServe` asks in addition that no request wraps
  with a header added, since such a region is too small (see Findings).
* `ArrayKeepsItems`: capacity, length and item size determine the mapping
  (`ArrayInv`), and a capacity derived from whole pages has room for the length it
  was derived from (`RoomFor`).
* `TimeStaysRight`: nanoseconds stay below a second, so that a sum carries at most
  once and a difference borrows at most once.
* `CleanseClearsRange`: what is cleared is what lies before `at`, and the leading
  bytes end on a word or no word follows.
* `HexTellsRows`: before a row is counted or printed, all rows up to the last
  printed one and the counted repeats are told (`PendingTold`).
* `StarsReadBack`: the last row printed is whole when the next begins, and is of one
  character if `prev_row_same_char` says so; skipped rows can be read from it.
* `SrbMadeOrUndone`: which parts are made at each point of `srb_init` and `srb_create`
  (`SrbShape`), and that nothing is left behind as long as `create_event` has not
  failed (`SrbClean`).

### Only model-checked

* Liveness (`CallsReturn`, `SetWakesAll`, `TimedWaitsReturn`, `AllArrives`) and
  ENABLED are beyond the prover.
* `PageDivided`. With a block size that is not a power of two, masking is not
  rounding, and that the header still has room for the bitmap is a fact about the
  bits of particular numbers. TLC checks it with the constants of a 64-bit system
  for every size and alignment, which is all there is.
Modules that `StandAlone`, `Parts` and `Allocators` take by INSTANCE state what they
assume of their constants as a definition; `StandAloneAssumption`, `PartsAssumption`
and `AllocatorsAssumption` make TLC evaluate it.

## Not modelled

* The text of dumps and the width of addresses in it (`src/src/dump_hex.c:93`);
  `dump` of the pet allocator, which walks the lists without the lock and is
  diagnostic; tracing and printing.
* Negative increments of `timespec_add`, which leave `tv_nsec` negative: its only
  caller passes timeouts that are not. The rounding of doubles, but for a
  fraction that rounds up to a whole second.
* `realloc` to zero bytes in the stdlib allocator, which C leaves open.
* `srb_fini` after `mmap` has failed in `srb_init`: `data` is then `MAP_FAILED`,
  which it takes for a buffer. `srb_create` before the allocator is initialised,
  which aborts.
* A call on a ring buffer whose `head` a wrapped read has moved outside: it copies
  from and to memory that is not the buffer's, and only `fini_ringbuffer` remains
  in the model.
* Pages that stay mapped after `mremap` has refused to shrink: the model keeps
  them reserved, and the later release gives up only what the client names.
* Failures that end the program at once (`mmap` in `mmarray_allocate`), and the
  build files.
