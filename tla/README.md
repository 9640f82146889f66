# A TLA+ verification of the CYW55572A1 board support component

`COMPONENT_55572A1` is the chip component of a Bluetooth SDK. Two parts of it
are programs: the platform layer that runs on the device
(`platforms/*.c`, `WICED/common/spar_setup.c`) and the build pipeline that turns
an application into an image (`make/scripts/*`). Everything else is declarations
of ROM code, configuration data and make variables.

Paths below are relative to `src/COMPONENT_55572A1/`, those of scripts to its
`make/scripts/`.

## Inventory

| part | state it keeps | operations | what is hard | what makes it correct |
|---|---|---|---|---|
| Platform memory pool, `platforms/platform_mem.c` | per size category a free list and a count, a bitmap of used blocks, a mutex | `platform_mem_init`, `_allocate`, `_free` | three records of one fact, concurrent callers, half-failed initialisation | no block has two owners; list, count and map agree; every call leaves the mutex free; freed blocks come back |
| Virtual NVRAM, `platforms/platform.c:232-451` | a linked list of sections in pool blocks | `wiced_platform_nvram_read`, `_write`, `_delete` | delete-and-retry on a change of length, running out of blocks on the way, sizes that lean on padding | behaves as a map; tells the host of every change; entries stay in their blocks |
| HCI transport glue, `platforms/platform.c:93-230` | `init`, the application's handler | `wiced_platform_transport_init`, the status and receive handlers | messages around initialisation, lengths, lost events, restarts | host and device agree when nothing is on the way; a restart brings back what the host has |
| Pads and start-up, `platforms/wiced_platform.c`, `WICED/common/spar_setup.c` | the pad registers | `wiced_platform_init`, `aud_i2s_gpio_*`, `wiced_platform_register_button_callback` | several pins share a register, read-modify-write | each pin ends up as its table row says |
| Linker scripts, `wiced-gen-ld.pl`, and the two links | the memory region, the map file of the last link | region arithmetic, second link at a computed start | the second link is aligned anew, repeated post-builds read the moved map | a relink always fits; the application ends below the firmware |
| Image list, `wiced-gen-cgs.pl` | sections of the ELF file | order, choice, chunks | chunk boundaries, reordering for direct load | every loaded byte is listed once at its address |
| Direct-load split, `wiced-split-dl-cgs.pl` | the parser's mode, the upper address | split, HEX records | 64 KB boundaries, state kept across entries | the two outputs partition the input; a reader finds each byte at its address |
| Download packing, `wiced-create-subds.pl` | addresses, sections, a table | SubDS, signing addresses, HCD file of a RAM download | one pass computes addresses, another places data | signatures and table say where the data is; no SubDS and no padding overwrites a section |
| Pre- and post-build, `bt_pre_build.bash`, `bt_post_build.bash` | files and their times | up-to-date check, a chain of tools | failing tools, interruption between two commands | a make that ends well leaves the image of the sources |
| Download, `bt_program.bash`, `ChipLoad.pl` | the choice of the file | detect, download | chosen elsewhere than built | a download that reports success loaded the image |
| Tools: `wiced-bdaddr.pl`, `wiced-gen-lib-installer.pl`, `parseCLI.pm`, `eclipse/` | none | text replacement | | |

Interaction: `spar_setup.c` calls `wiced_platform_init`, which sets the pads and
calls `platform_mem_init`, before the application starts. The virtual NVRAM takes
its blocks from the pool and sends its events through the transport; the receive
handler of the transport writes pushed data into the virtual NVRAM. The build
scripts are chained by `bt_pre_build.bash` and `bt_post_build.bash` through files.

## Modules

### The device

`PlatformMem` models `platform_mem.c` one critical step at a time.
Blocks are pairs of category and index. `state` is what the caller of
`platform_mem_init` could have seen (and does not look at,
`wiced_platform.c:348`); each early return of it is an action. A call of
`platform_mem_allocate` is: `AllocCall`, `AllocLock`, `AllocSearch` or
`AllocNone`, `AllocRead` or `AllocUnexpected`, `AllocTake`, `Unlock`; the read of
`p_first` and its update are two steps so that the mutex matters.
`platform_mem_free` is `FreeCall`, `FreeLock`, `FreeCheck`, `Unlock`.
Threads free blocks they hold, or pointers that are not the pool's.

`BlockPool` is what the allocator promises: `Grant`, `Release`, `Supply`.
`PlatformMem!Pool` is the refinement mapping: available is everything that is not
marked in the use map once initialised, owned is what callers hold.

`PoolLayout` is the arithmetic that `PlatformMem` leaves out by speaking of
blocks: where `platform_mem_init` puts a block, which bit `platform_mem_allocate`
sets for it, and how `platform_mem_free` finds both again from a bare pointer, one
category per step. Addresses count from `p_memory_min`. `MCPlatformMem` composes
the two: the arithmetic depends on the table only, so it is walked through while
the pool is still cold.

`VirtualNvram` models the three NVRAM functions, one action for each path through
them. A call is one step, since the list has no lock and its users are one
thread. Of the pool it keeps `free_num` only; that this decides whether a request
is served is a consequence of `PlatformMem`'s invariant. `request` says which
function was called last and with what, `told` is the list of events that call sent,
`reply` its status and data.

`NvramStore` is what `wiced_hal_nvram.h` promises, a map. Its state keeps the last
request next to the answer, and each action is the map's answer to that request:
`Put` and `PutFails` to a write, `Get` to a read (found, absent or too long for the
buffer), `Remove` to a delete, `Refuse` to a read or write of nothing.
`VirtualNvram!Store` maps the list to the map and leaves request and reply as they
are, so an acknowledged write that stores nothing, a read answered with another
section's bytes, or a refused call that changes something is a step the map has not.
Only the status of a delete is left open: it is a finding of its own.

`HciTransport` extends `VirtualNvram` with `wiced_platform_transport_init`, cut
where the transport can already deliver messages (`InitOpen`, `InitMark`,
`InitRegister` are `platform.c:213-229`), next to the receive handler (messages
for the application, pushes, pushes of one and two bytes, empty messages) and
next to the application's own NVRAM calls (`AppCall`). A push of one byte is a
write of 65535 bytes, because that is what `payload_len - 2` is in a `uint16_t`.
`accepted`, `arrived`, `early` and `given` are history: whose call has returned
`WICED_TRUE`, the messages that came, how many of them before that, and who got
which.
The events that NVRAM writes send are `told`; the link is `HostSync`'s matter.

`HostSync` composes `VirtualNvram` with the link, the host and restarts. The
host is external: it is modelled from the messages `platform.c` exchanges with it
(it records events, and answers `DEVICE_STARTED` with pushes in any order). Sends
fail while the link is down; afterwards any of the events of a call may be
refused, the others still go out. A restart empties RAM; of what is on its way to
the host a beginning may survive in the host's buffers. `adrift`, `backup` and
`touched` are history variables that the properties use.

`AudioPads` models `wiced_platform_init` row by row, and later calls of
`aud_i2s_gpio_select_function` and `aud_i2s_gpio_configure_pin`. A register is a
function from the shifts of its fields to the bits set there, so that a mask that
hits a neighbour shows. Pins below 24 are the HAL's, and only step on.

### The build

`LinkLayout` is the two linker scripts of `wiced-gen-ld.pl` (LAYOUT=code_from_top)
and what the linker does with them, one output section per step (`Place`). The
first script leaves room for patch entries below the firmware (`FirstScript`); the
later ones start the application so that, by the length the map file of the link
before gives, it comes to lie below the firmware's area (`NextScript`). `Placed`
overwrites the map, so that a post-build run again (`PostBuild`) reads the length
of the moved application.

`ImageList` extends it with `wiced-gen-cgs.pl`, which lists the sections in
chunks (`GenCgs`, `ListSection`), and `wiced-split-dl-cgs.pl`, which for a direct
load takes the application off the list (`SplitEntry`) and writes HEX records line
by line (`HexAddress`, `HexLine`). The bytes of a section are told apart by their
offset. A HEX reader (external) is taken to be linear: data goes to the upper half
the last type 04 record gave, and on from there.

`SubDs` extends it with `wiced-create-subds.pl`: one pass computes the signing
addresses (`ParseBin`), another writes the list (`CreateSubDs`); for a RAM
download in one piece it parses the HCD files (`ParseRecord` joins records that
follow on), names the files, makes the table (`StartHcd`) and writes data where
`$address` points (`WriteDs`, `WriteSection`, the sections in the order of a hash).
`patch_sec.bin` and `patch_fw.bin` are whole words, as the two in the repository
are; the records of the patch that are loaded directly keep out of the memory the
linker script gives the application, and lie in front of the DS (`FwRecords` in
`SubDsAssumption`). The post-build of this repository does not pass the options
for the RAM download; the usage text of the script describes them as a manual
call, and `hcd` chooses between the two.

`PostBuild` models one make: `bt_pre_build.bash`, the link, and every command of
`bt_post_build.bash` that reads or writes a file of the build directory, as one
action each. A file is the set of (part, source version) pairs that went into it.
`Checked` is a command whose result is looked at (`set -e`), `Ignored` one whose
result is not (`set +e`). `make program` is the same with the download behind it:
the target `qprogram` wants a file `<app>.hex` that no rule makes, so the
post-build is run a second time (`After`), which its up-to-date check has to skip;
then `bt_program.bash` tests for one file and loads another (`Download`,
`Program`). Abstractions: a tool that fails has written nothing, except the second
link, which may take its output away; commands of one block that cannot be told
apart afterwards (a move with the removal of the HCD file) are one step; the steps
that set the device address or copy a finished file move nothing the properties
speak of and are left out; the OTA image is not kept. `product.mayFail` separates
what holds with sound tools from what holds even with tools that fail and with
interruptions. What the single tools do to the bytes is `LinkLayout`, `ImageList`
and `SubDs`.

Which modules extend which: `VirtualNvram` <- `HostSync`, `HciTransport`;
`LinkLayout` <- `ImageList` <- `SubDs`; `BlockPool` <- `PlatformMem` and
`NvramStore` <- `VirtualNvram` by refinement; `MCPlatformMem` composes
`PlatformMem` and `PoolLayout`; `*Proofs` extend the module they prove about, the
other `MC*` give theirs its constants.

## Runs

| run | question | bounds, and why they do |
|---|---|---|
| `pool` | are list, count and map consistent; is mutual exclusion enough; is `BlockPool` implemented; does every path out of a call release the mutex; does free find the block and bit allocate used; are blocks disjoint and within the heap | 2 threads, categories of 2, 1 and 1 blocks, requests that fit the first, only the second, and none: a full category, a fall-through and a refusal all happen. For the arithmetic the shipped table, and one of ten blocks so that the map has two bytes; every pointer in the buffer and 8 bytes around it |
| `pool_free` | does a free give the block back (it does not) | as above |
| `nvram` | is the list a map, whoever calls and however full the pool; is the host told of every change; is the transport opened once; do messages reach the accepted handler only, and are only those lost that came before it was accepted; do runts store nothing | 3 sections, lengths 21 (fills the 32 byte block exactly), another 21, 23 and the runt's 65535; a block of 32 and two of 80 bytes, so that a resizing write exhausts them; 2 handlers, so that a second initialisation can bring another; two messages of two kinds for the application, so that one can come too early and one in time, and their order shows. Sections, handlers, opcodes and the two strings of 21 bytes are symmetric: no action or property tells them apart, and none of the properties is a liveness property |
| `nvram_delete` | does a delete report success (it does not) | as above, without the transport |
| `host_sync` | do host and device agree again after crossings, losses and restarts | 2 sections, 3 application calls, 2 restarts: a boot to fill the host, one to disturb, one to recover |
| `audio_pads` | does each pad keep the function selected last, whatever happens to its neighbours | two boards (one sets a pad twice and all five pads), three reset values, then any calls |
| `audio_pads_config` | is each pad configured as its row says (it is not) | as above, all fields 0 at reset, the application configures nothing |
| `image` | does a relink always fit; is what a loader writes what the linker placed; is a SubDS where its signature expects it; do the sections of a RAM download survive padding and joining | six sections of 0, 1 or 70 bytes, so that some are empty, some unaligned (one byte in front of a section aligned to 2 leaves the gap that `OnWords` excludes), some need two chunks and cross a segment, and some mixes do not fit at all; 3 links, so that one post-build is repeated; chunk 48, line 16, segment 64 keep the order and the divisibility of 0xff00, 16 and 0x10000; DS of a whole and of a broken number of words, in the RAM that the application's sections take up in most of the mixes |
| `subds_table` | does the table of the RAM download lead to the SubDS (it does not) | as above, the DS above the application's RAM so that no section can hide it |
| `build` | does a make that ends well leave the complete image; do the two download files agree; is the direct-load part current; is what `make program` loads the image of the sources | 2 source versions (one to be stale against), nine products |
| `build_skip` | is only what was finished skipped (it is not) | 2 versions, the default product, tools that fail |
| `build_loader` | does the HCD file of a DM device keep its loader (it does not) | 1 version, sound tools |

Deadlock is checked except in `host_sync`, which stops at its bounds, and in
`image` and `subds_table`, which stop when the image is made or does not link.

Slips (operators named after a plausible mistake, such as `LockNotTaken`) stand
next to the definitions they would replace; each property is refuted when its
slip is put in.

## Fairness

`PlatformMem!Fairness` asks that a thread inside the two functions keeps running:
nothing between the lock and the unlock waits. It says nothing about who gets the
mutex, and nothing about callers. `pool` uses it for `CallsLeave`. No other run
needs fairness.

## Proofs

All proofs hold for every value of the constants that satisfies the named
assumption of the module.

`PlatformMemProofs`, for any threads, categories, block counts and requests
(assumption `PlatformMemAssumption`: sizes increase strictly, counts are positive,
as the table and the check at `platform_mem.c:124` have it): `TypeCorrect`,
`BlocksNotShared`, `UnexpectedIsDead`, `FailedInitIsHarmless`, `FreeListsSound` and
`PoolImplemented`. None of them is inductive alone. `IInv` adds the shape of the
lists: because nothing ever returns to a list, a category's free blocks are the
last `free_num` ones in their original order (`FreeListIsSuffix`), the mutex
holder is the one thread inside (`LockInv`), and the locals of a thread are what
the search left (`LocalInv`). `FreeListsSound` is about a walk along `p_next`; the
walk is a recursive function, and that it visits the suffix block by block is
shown with the least step at which it would not.

The second part of the module is the arithmetic of `PoolLayout`, for any table:
`FreeFinds`, `FreeKnows` and `LayoutFits`. The sums over the table are recursive
functions, so their steps follow from their definition, and that they grow is again
shown with a least counterexample. From it: the categories follow on in the
buffer, every block lies within its own, and a pointer into a category determines
the block by division, unless the block is of size 0 (excluded by
`PoolLayoutAssumption`), when the pointer to it is where the next one starts. The
invariant of the search (`LayoutInv`) says that base and shift are those of the
category reached, and that a pointer into the buffer is at or behind the base.
`LayoutFits` has the hypothesis that map and buffer together fit the heap, for
whether they do is a matter of the numbers in the table; otherwise
`wiced_bt_get_buffer_from_heap` gives nothing and the pool stays cold. That the
shipped table fits is checked by `pool`.

`VirtualNvramProofs`, for any sections, byte strings and pool: `NvramTyped`,
`SectionsListedOnce`, `SectionsFitBlocks`, `ChangesTold` and `ListIsMap` (the
refinement of `NvramStore`). The inductive invariant is the conjunction of the
first three; the last two need it, since only on a list without duplicates does
unlinking one entry empty its section. `ListIsMap` is about requests: for every
call, the map's action for the same operation, section, bytes and length is found
(`StoreSteps`). The argument: a call adds an entry at the
head, unlinks one or overwrites one; `Adding`, `Removing` and `Overwriting` say
what this does to a good list and to what every section holds, and the calls
follow (`WritesAreSound`, `DeletesAreSound`, `ReadsAreSound`, `BadArgIsSound`).

`HciTransportProofs`, for any handlers, opcodes and pushes as well: whatever the
receive handler does to the list is a call the application could have made
(`PushesAreCalls`: the composition implements `VirtualNvram`'s specification), so
that `ChangesToldWithHost` and `ListIsMapWithHost` follow from the theorems above.
`TransportOpenedOnce` and `HandlerIsTheAccepted` rest on `TransportInv`, which says
what has been done at each place of the initialisation, `OnlyEarlyMessagesAreLost`
also on `MessagesInv`: until a call is accepted every message is early, so that
nothing has been given to anyone when a handler is accepted;
`RuntsStoreNothing` assumes that no block has room for 65535 bytes and a header
(the largest of `platform_mem_cfg` has 572).

`HostSyncProofs`, for any sections, byte strings, pool, and any number of calls,
restarts and messages on the way: `SyncTyped`, `HostInSync` and `HostRestored`.
Neither of the last two is inductive: both speak of empty queues only. The
invariant says what full ones hold. For a section that is not adrift (`Agreeing`),
the last event about it on its way to the host, or what the host has if there is
none, is what the device holds; or the device has nothing, has said nothing since
it started, and the host's answer is still to come or ends with a push of what the
host has (`Fits`). The echo of a push is what carries this over a push that crosses
events: without it the first case is lost. `Restoring` follows the copy the host
had when it answered through the queue of pushes.

`AudioPadsProofs`, for any boards, reset values and calls: `FieldsKept` and
`LastFunctionStays`. The invariant is the two together: that the fields of
different pads are different (by cases over the five pads) is what keeps a
neighbour unchanged.

`ImageProofs`, first about `LinkLayout`, for any sections, sizes, addresses and
number of repeated post-builds: `RelinkSucceeds` and `MovedIsBetween`. Since every
start is a multiple of 32 and no alignment exceeds 32 (`LinkAssumption`), the
distance of a section from the first one depends on sizes and alignments alone, so
that every link has the same length; `LinkInductive` states it. That there are at
least 8 patch entries is needed for the first link to leave the 32 bytes that the
second may lose by rounding its start down.

Then about `ImageList`, for any names (each there once, one of them `.setup`, as in
`wiced-gen-ld.pl`) and any sizes with line < chunk < segment (`ImageAssumption`):
`ImageIsWhole` and `DirectLoadKeepsToApplication`. The invariant
(`ImageInductive`) has a part for each step: while the list is made, what is listed
and what is left to list have between them the bytes of the ELF file; during the
split, the list, the moved entries and those to come have; while records are
written, the list, the records, the rest of the entry at hand and the entries
behind it have. For the split it needs the order of the list: entries that stay
come before entries that are moved (`InOrder`), so that the mode that never ends
takes nothing along that should stay. For the records it needs that the upper half
a reader has at the end is `high`, also just after a line has crossed a segment.

A second invariant, `OrderInv`, is about order: entries, and later records, of one
section are in the order of their offsets. `LayoutAscends` and `SectionsApart` say
that the linker's sections overlap nowhere. Together: no two records write one
address, which `SubDsProofs` needs.

`SubDsProofs`, for any lengths of the packages and any records of the firmware
that satisfy `SubDsAssumption`: `PackedIsWhole` (packing leaves list and records
alone, so the theorems above hold of the image that is packed), `SignedAtItsPlace`
and `SectionsSurvive`. The argument for the last one: the records of a file write
disjoint addresses; so do the sections they are joined to, and if every record
begins on a word or where the one before it ends (`OnWords`), a padding ends at or
before the next section. The firmware's sections lie in front of the DS and outside
the application's memory, and those of the application are written after the last
SubDS. `PackInv` follows the memory: what is written already is there, whichever
order the hash gives. `OnWords` of the application's records is a hypothesis inside
`SectionsKept`, because without it the property is false; see Findings.

`PostBuildProofs`, for any products, any number of edits, and tools that fail and
interruptions anywhere: `BuildTyped`, `ImagesAgree` and `DirectAlwaysCurrent`. The
invariant follows the files from command to command: what a command finds was
removed when the post-build began or made since (`DirectOK`, `Fresh`), the ELF file
has the code of one version (`ElfOK`), and an image newer than the ELF file has the
direct-load part of its code (`DirectsCurrent`), which is what a skipped post-build
and a download rely on.

The second half of `PostBuildProofs` is for sound tools: `ImageComplete`, `HcdComplete` and
`ProgramLoads`, under `AllPlain`: no fail-safe application (its image is another
one) and not both a loader and a section that is added after it (for that
combination `build_loader` refutes the property). The invariant `Built` gives the
content of every file at every command: a prefix of the chain `WithExtra`,
`WithDirect`, `WithDs2`, `WithCode`, `WithFile`.

Only model-checked: `CallsLeave` (liveness under fairness), which is out of the
prover's reach. All other properties of the passing runs are theorems.

## Findings

* `platform_mem.c:303` leaves `platform_mem_free` when the block is marked
  allocated, so nothing is ever freed (`pool_free`).
* `platform.c:420`: `wiced_platform_nvram_delete` always answers `WICED_BADARG`
  (`nvram_delete`).
* `wiced_platform.c:279`: the mask of `aud_i2s_gpio_configure_pin` keeps the pad's
  own byte and clears the other pads' (`audio_pads_config`).
* `bt_post_build.bash:267`: the hex file's time decides that nothing need be done,
  but the file appears at `:458` and is complete only at `:465-534`; a build
  stopped in between is skipped from then on (`build_skip`).
* `bt_post_build.bash:523` (and `:512`, `:533`): a section added after the DM loader
  converts the HCD file again, without the loader (`build_loader`).
* `wiced-create-subds.pl:1255` (and `:452`): the table of a RAM download counts the
  SubDS one behind the other; the address of the next moves on with sections that
  are written elsewhere, and the firmware's slot gets the application's file
  (`subds_table`). Only with the HCD options, see above.

Seen while reading, and not part of a run because nothing in the repository says
what depends on it: two of the LE state macros at `include/hcidefs.h:534` and
`:554` look exchanged; `wiced-gen-cgs.pl:371` tests a length read before padding;
`ChipLoad.pl:175` takes `$? >> 8` for the status, which is 0 for a killed tool;
`wiced-gen-ld.pl:586` reads globals that nothing sets, so `.setup` always follows
the data; `wiced-create-subds.pl:586` adds the length of the firmware's DS without
its header to the signing address in HCD mode; and the comment at
`wiced-create-subds.pl:560`, "pad them all for now, doesnt matter since our pad size
is so small", is not always right: if the objects align `.text` to 2 only, and
`.app_entry` in front of it is no whole number of words, the gap between the two is
smaller than the padding of the first, and since the sections are written in the
order of a hash, the zeros may fall on the first bytes of `.text`. TLC refutes
`SectionsKept` without the condition `OnWords(AppRecords)`. The repository holds no
application that has such sections.

## Not modelled

* `include/*.h`, which are some 30000 of the 31670 lines of C: declarations and
  constants of code that is in ROM. What the modules need of them they take as
  external (`wiced_transport`, the HAL, the allocator of the RTOS). The C code
  itself is 1279 lines; the pool, NVRAM, transport and pads are modelled whole.
* Pins below 24, UART, clock and SPI: calls into ROM, which is not here. The button
  callback (`wiced_platform.c:62-70`) only forwards to the HAL.
* `spar_setup.c`: a table for the ROM, and the call of `wiced_platform_init` before
  `application_start`, which is why `AppSelect` and `AppConfigure` wait for `Done`.
* `wiced-gen-ld.pl`: overlays, execute in place, always-on and static areas, which
  the makefiles never ask for on this device.
* `wiced-gen-cgs.pl`: the skip block for execute in place, relocations, the
  resource report; `READELF.pm`: reading of a file format.
* `wiced-create-subds.pl`: the SS (copied), signing itself, the cutting of a block
  into HCD records, the `.mdh` file.
* `ChipLoad.pl`, `bt_program.bash` beyond the choice of the file: what `ChipLoad`,
  `MbtP` and `DetAndId` do to a device is in none of these files.
* `wiced-bdaddr.pl`, `wiced-gen-lib-installer.pl`, `bt_gen_lib_installer.bash`,
  `parseCLI.pm`, `eclipse_export.py`: stateless text processing.
* `make/recipe/*.mk`, `make/toolchains/*.mk`: variables; the order of the commands
  they hand to make is in `PostBuild`.
* `internal/`: a binary patch with its symbols; `udd/`, `personalities/`, xml files:
  data.
* Which thread runs the receive handler is decided in ROM; the modules take it to
  be the application's. With another one, the list of sections would be shared
  without a lock.
