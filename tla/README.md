# A TLA+ verification of microconf

microconf is a C99 library that keeps a typed configuration in a caller-owned
buffer, described by a schema, and stores it in two slots of an EEPROM or a
flash partition. This directory models the library, its Zephyr backends, its
shell commands and the start-up of the samples in TLA+, checks the models with
TLC and proves the main properties with TLAPS for every value of the constants.

## The system

| Part | State | Operations | What makes it correct |
|---|---|---|---|
| Schema and context (`src/mconf.c` 137-573) | `mconf_t`: schema, data, fingerprint, `initialized` | `mconf_schema_validate`, `mconf_init`, `mconf_validate_data`, `mconf_load_defaults`, `mconf_reset_field` | only schemas whose fields lie apart inside the buffer are bound; defaults are restored in full; different schemas have different fingerprints |
| Field access (`src/mconf.c` 575-833) | the caller's buffer | `mconf_find`, `mconf_get/set`, typed, blob and string forms | a call touches its own field only and never turns valid data into invalid |
| Encoding (`src/mconf.c` 54-135, 240-338, 835-1127) | none | header, canonical payload, CRC32 | decoding gives back what was encoded, on any host; damage is noticed; a torn header is no new record |
| Persistence (`src/mconf.c` 907-1308) | two slots, each header + payload | `mconf_load`, `mconf_save` through read/write/erase callbacks | a committed configuration survives power loss and failing callbacks; a save that succeeds is the one loaded next |
| Zephyr EEPROM and flash backends (`zephyr/src`) | device or area, base offset, sizes | init, read, write, erase, close | accesses stay in the region, slots do not overlap, erases are complete and take the header first |
| Zephyr shell (`zephyr/src/mconf_zephyr_shell.c`) | registry of instances, a lazily initialised mutex | register and the commands list, dump, get, set, save, load, defaults | commands are serialised and return; each finds the instance registered under its name |
| Samples (`samples/*/src/main.c`) | none | load, else defaults and save, then register | the user's configuration outlives a restart; the device starts with it or with the defaults |

The parts interact by plain calls: the samples and the shell call the library,
the library calls the backend through the callbacks of `mconf_io_t`. The library
has no threads or locks: calls on one context are serialised by the caller
(`docs/DESIGN.md`). The shell is the one part that several threads enter; it
serialises them with a mutex which whoever comes first initialises.

What is hard here is failure more than concurrency: power lost between or inside
callbacks, callbacks that fail half way, the wrap of the generation counter,
decoding straight into the live buffer, two firmware images that share a medium,
arithmetic at the edges of `size_t` and of 16-bit lengths. `PROJECT.json` lists
these hazards at their lines.

## Modules

| Module | Models |
|---|---|
| `MconfStorage` | `mconf_load` and `mconf_save`, one step per storage callback, the medium, power loss and faults |
| `MconfStore` | abstract: what the two calls promise, a durable register |
| `MconfStoreRefinement` | `MconfStorage` implements `MconfStore`; fairness and termination of calls |
| `MconfBoot` | the start-up of the samples on top of `MconfStore` |
| `MconfContext` | schema validation, context, defaults and accessors over byte memory |
| `MconfFingerprint` | the bytes mixed into a schema's fingerprint, on top of `MconfContext` |
| `MconfHeader` | the 32 bytes of a record header, written byte by byte |
| `MconfCodec` | the payload at byte level: layout, serialisation, decoding |
| `MconfCrc` | the CRC32 of `mconf.c` and polynomial division to compare it with |
| `MconfEeprom`, `MconfFlash` | the two Zephyr backends |
| `MconfBackends` | an application on either of them |
| `MconfShell` | registry, mutex and commands, run by several threads |
| `MCStorage`, `MCStoreRefinement`, `MCBoot`, `MCContext`, `MCHeader`, `MCCodec`, `MCBackends`, `MCShell` | values of the constants for TLC, with the `.cfg` files of the same names |
| `MconfStorageProofs` (with the refinement of `MconfStore`), `MconfContextProofs` (with `MconfFingerprint`), `MconfHeaderProofs`, `MconfCodecProofs` (with `MconfCrc`), `MconfBackendsProofs`, `MconfShellProofs`, `MconfBootProofs` | theorems about the module they are named after |
| `MconfSequenceProofs` | what two of them need of loops and joined sequences |

How they build on each other: `MconfBoot` extends `MconfStore`, which
`MconfStorage` implements; what `MconfStorage` takes for granted about records is
checked below it, at byte level, in `MconfHeader` and `MconfCodec` (with
`MconfCrc`), and what it takes for granted about slots in `MconfBackends`. Its
`schema` is a fingerprint, and `MconfFingerprint` checks that it identifies a
schema. `MconfShell` uses the summary of load and save that `MconfStore` gives.

Operators whose comment begins with "Mutant" are faulty variants of the
definition that follows them; they are used to confirm that each property
notices the mistake.

### MconfStorage

`slot[s]` is the medium: the header (or `Blank` when the magic is missing), the
state byte as a set of bits, and one payload cell per field. `data` is
`ctx->data`, `schema` the fingerprint of the running image. `pc`, `op`, `probe`,
`cur`, `fallback`, `next_generation`, `payload_crc` and `index` are the locals
of the call in progress.

| Code | Actions |
|---|---|
| `mconf_save` up to its first callback (1222-1253) | `mconf_save` |
| the two probes of either call (1255-1256, 1180-1181) | `ProbeSlot` |
| target and generation (1257-1279) | `SelectTarget` |
| erase, header, payload (1280-1291) | `EraseSlot`, `WriteHeader`, `WriteField` |
| read back and compare the header (1292-1298) | `VerifyHeader` |
| verification by decoding into `ctx->data` (1299), `mconf_load_slot_into_buffer` | `ReadHeader`, `ReadField`, `CheckPayload` |
| commit (1303) | `CommitRecord` |
| `mconf_load`'s choice, fallback and defaults (1183-1219) | `SelectSource`, `SlotRefused`, `LoadError` |
| callers between calls | `EditField`, `mconf_load_defaults` |
| environment | `PowerCycle`, `PayloadRot` |

Power can be lost in every state; a callback in progress is then cut short and
leaves any of `TornOutcomes`. The other faults are enabled by the constant
`Faults`: failing reads (of the probes in `mconf_save`, and all others), failing
writes and erases with a partial effect, writes that silently stop half way,
erases that clear the payload before the header, payloads that change at rest.
`Medium` is `"overwrite"` (EEPROM) or `"nor"` (programming only clears bits).

Abstractions: a field is one of a few byte patterns, some of them illegal
(`Legal`) and some not canonical (`Canon`: bytes behind a string's NUL are not
stored). The header's CRC32 holds the payload it was computed from, so the
checksum never collides; the payload length goes with it. A string damaged in
its length would also shift the fields behind it; here it is the cell `Garbage`
or another pattern, and either way the checksum differs (`MconfCodec` has the
bytes). An interrupted erase has taken the whole header, state byte included, or
nothing of it: a header without its magic or with an erased state is refused
alike. The refusals of a malformed `mconf_io_t` at the head of both calls
happen before anything else and are left out.

### MconfStore and MconfStoreRefinement

`MconfStore` knows a `current` and a `previous` record and the caller's buffer. A
save takes the current record's place at one moment (`Committed`), may lose the
predecessor before (`Discarded`), and may fail at any point; a load returns the
current record, or, when reads fail, the previous one or the defaults. A restart
under another image may find anything, since records of another schema are
invisible to it.

The refinement mapping: `current` is `Durable`, the payload a later `mconf_load`
would recover; `previous` is the intact record it would fall back to
(`PreviousRecord`); the buffer is hidden (`Scratch`) while a call works in it;
`want` is `payload_crc`, which stands for the encoded payload.

### MconfBoot

`main` walks through `main()` of the samples: set up or give up, load, and when
that fails load the defaults and save them; then register and run. The user at
the shell edits, saves and loads; power can be lost at every step, during a load
or a save too.

### MconfContext and MconfFingerprint

Memory is `Addr -> Byte` with the buffer at 0 and foreign bytes behind it;
`size_t` counts modulo `SizeMod`; `schema` is `ctx->schema`, `last` is what the
last call returned. There is one action per public function
(`mconf_set_typed_scalar` and `mconf_get_typed_scalar` stand for the typed
accessors), and `CallerWrite` for direct assignments to the buffer. Refusals
come in the order of the code. Left out: null `ctx`, `schema` and `data`
arguments, the `required` outputs of the string functions, and value arguments
that overlap the buffer.

The fingerprint is kept as the sequence of bytes that are mixed into the hash
(`Mixed`): schemas are told apart up to collisions of the 32-bit hash. The code
takes eight bytes of each `size_t`; where it has 32 bits the shift is undefined,
and `Builds` lists what compilers make of it.

### MconfHeader, MconfCodec, MconfCrc

`MconfHeader` has the real offsets and byte values and writes the header byte by
byte over an erased slot or over an old committed header. `MconfCodec` computes
length and checksum, writes the entries, lets bytes change at rest and decodes,
with a byte order for the writing and for the reading host; the payload is
followed by bytes of the other slot or by the end of the region. No boolean is
among the types, so `mconf_validate_data` at the end of a decoding has nothing to
refuse (strings are terminated by the decoder) and is left to `MconfContext` and
`MconfStorage`; a payload is far below `SIZE_MAX`, and a schema has at most
2^16 - 1 entries. `MconfCrc` is the bitwise loop of `mconf_crc32_update_byte` on
32-bit registers (sets of bits), its loops written as recursive functions (`Values`, the register after each bit,
and `Registers`, after each byte), and the long division of polynomials (`Rests`)
that defines the CRC-32 elsewhere.

### MconfEeprom, MconfFlash, MconfBackends

The EEPROM's region and range checks count in a wrapping `size_t`; the erase is
a loop of device writes, one step each, and each write may fail or lose power
behind any byte. The flash backend is opened and closed again and again on one
context; the driver, which is external, erases whole sectors only. `kind` says
which backend an application uses: they share nothing. Offsets are passed to the
driver as they are, although the code casts them to `off_t`: a region that fits
the device fits that type.

### MconfShell

Each thread is idle or inside one call (`job`), and each access to shared memory
is a step: the test of `s_mutex_initialized` (`CheckInitialized`), `k_mutex_init`,
the assignment of the flag, lock, search, use of the entry, unlock. A save or a
load has a beginning and an end, between which other threads move. The kernel's
mutex is external: owner and queue, woken in order, and a release by a thread
that is not the owner is refused. `Early` is the set of threads that may call
before the mutex is initialised. A registration decides in its search whether it
changes an entry (`RegisterUpdate`) or takes a free one (`RegisterStore`); each is
one step. Contexts are initialised, for which `mconf_load_defaults` and the
setters fail in no other way than `SetError` lists; a load that falls back to the
previous record ends like one without a record.

## Runs

| Run | Bounds | Shows |
|---|---|---|
| `storage_power` | 2 fields, 3 patterns, generations 0..5, faults read, write, silent, tear_any | what is committed changes only by the commit write (`DurableChangesOnlyByCommit`); the target is expendable (`TargetIsExpendable`); a successful save is recovered exactly (`SavedIsDurable`); two records are always ordered (`SlotsOrdered`); loads hand out no mixture (`LoadIsWhole`); the inductive invariant (`IInv`) |
| `store_contract` | 1 field, two schemas, faults read and write | `MconfStorage` implements the durable register (`ImplementsStore`); saves of either image spare the record the running one would load; every call returns (`CallsReturn`) |
| `storage_decay` | 2 fields, 2 patterns, faults rot and write | the newest whole record is loaded, through the fallback (`LoadIsNewest`); a save, also one that fails, gives the data back (`SaveKeepsData`) |
| `context` | placements of two fields over a `size_t` of 5 values, and schemas of `BOOL`, `U8`, `U16`, `STRING`, `BLOB` and unknown fields in 3 bytes, byte values 0..2; two builds and two schema versions | bound layouts are sound although ends can wrap (`LayoutSound`); `FieldsIndependent`, `ValidStaysValid`, `DefaultsRestored`; no two schemas share a fingerprint (`SchemasToldApart`) |
| `codec_decode` | 5 schemas of two or three entries, all contents over 2 byte values, bursts of up to 4 bytes | intact payloads are read back on either host (`RoundTrip`), damaged ones refused (`AcceptedIsSaved`), decoding stays inside fields (`DecodeStaysInField`), the checksum is the CRC32 (`ChecksumIsCrc32`) |
| `header_bytes` | 4 schemas, words with the bytes of both state values, a length that does not fit | a header is read back by its own image only (`HeaderReadsBack`); cut short behind any byte it is not accepted or has the old length, generation and checksum, and over a record of the same schema it is the old one in full (`TornHeaderIsOld`) |
| `backends` | EEPROM of 9 bytes, all regions, chunks of 2; flash areas of 16, 8 and 5 bytes | `OnlyOwnSlot`, `EraseIsComplete`, `HeaderGoesFirst`, `AccessInArea` |
| `boot_start` | 6 configurations, two images, one with defaults that do not validate | starting up never replaces what is stored (`BootKeepsUserConfig`), starts with it or the defaults (`StartsConfigured`), and ends (`BootEnds`) |
| `shell_commands` | 2 threads, every command, 3 names for 2 places, 2 contexts, failing storage | `AccessHoldsMutex`, `ContextsSerialized`, `RegisteredIsFound`, `SaveTakesLatest`, `CallsReturn` |
| `storage_probe_fault` | fault probe_read | violated: see findings |
| `storage_nor_flash` | NOR medium, no faults | violated: see findings |
| `shell_race` | 2 threads, both early | violated: see findings |

Why the bounds are enough. Two fields show every mixture of two records; three
patterns are a legal, another legal and an illegal or non-canonical one. Two
records of a schema always have consecutive generations, so a counter of six
values (`GenHalf = 3`, the least the signed comparison needs with the skipped
zero) goes through its wrap and everything before and after it; the proofs hold
for every width. `store_contract` has one field, since `storage_power` covers
mixtures, and two images instead. One foreign byte behind the buffer shows any
overrun by one; a `size_t` of five values lets ends wrap in every way two fields
allow; the accessors treat all scalar sizes alike, and the theorems hold for all.
A byte of the fingerprint has 12 values there, so that every type code is one byte.
In `codec_decode` strings stand before and behind other entries, so that a
changed length moves what follows, in a payload area that is exceeded and that is
not; a CRC32 detects every burst of up to 32 bits, hence four bytes. The
EEPROM's slots are not all multiples of the chunk. In `shell_commands` the
registry overflows; a third thread would only lengthen the queue, and the
theorems hold for any number.

Deadlock is checked everywhere but in `codec_decode` and `header_bytes`, where
one record is written, read and that is all.

### Fairness

* Library (`store_contract`): `WF(LibraryStep)`. The thread inside a call is
  scheduled while the device has power, and every callback returns. Callers need
  not call; power may fail forever.
* Shell (`shell_commands`): `WF(Step(t))` for each thread. A thread that can run
  is run; a waiting thread is disabled until the owner's unlock hands it the
  mutex, so weak fairness is enough. No thread has to call.
* Start-up (`boot_start`): `WF(MainStep)` and `WF(CallEnds)`. `main` is scheduled
  and library calls return, which `store_contract` shows. `BootEnds` excepts
  endless power loss, which nothing could survive.

## Findings

* A header read that fails while `mconf_save` selects its target is taken for an
  empty slot (`mconf.c:1255`). The slot with the only record may then be erased;
  when that save is interrupted nothing is left. The test suite says "previous
  committed slot survives" of a failed save (`tests/test_all.c:130`).
* On NOR flash `0xA5` cannot be written over `0x3C` (`mconf.c:1303`); the result
  is `0x24`, the write is not read back, and `mconf_save` returns `MCONF_OK`
  with nothing committed. `mconf_zephyr_flash_init` offers this medium.
* `s_mutex_initialized` is tested and set without protection
  (`mconf_zephyr_shell.c:30`). Two first calls at the same time both run
  `k_mutex_init`, and the second takes the mutex from the thread that holds it,
  although `find_shell_entry_locked` says "Caller must hold s_shell_mutex" (93).

### Observations

Behaviour met on the way that has no run of its own. Where a property is named,
TLC finds it violated with the constants changed as described; the runs use the
others because the property is worth checking there.

* `mconf_save` looks at headers only (`mconf.c:1257`): after the newest payload
  has rotted, the slot it erases is the one good record. `NeverLosesAll` in
  `storage_probe_fault` with `Faults = {"rot"}`.
* The length of a string is cut to 16 bits (`mconf.c:967`): a longer string in a
  larger field does not pass the verification of its save. `RoundTrip` with a
  string field of more than `ByteMod^2` bytes.
* A default is checked for its size only (`mconf.c:216`): `ValidStaysValid` needs
  legal defaults (`DefaultsLegal`).
* The verification of `mconf_save` decodes into the live buffer, so a read that
  fails there leaves the caller's data cleared or half filled. `SaveKeepsData`
  therefore has no read faults; `MconfStore` says so in `SaveFails`.
* Version, fingerprint and entry count lie in front of the state byte
  (`mconf.c:916`). If an erase reports success without effect over a committed
  record of another schema, and the header write is cut short behind byte 17, the
  header names the new schema before the old state, length, generation and
  checksum. The probe of the new image accepts it. Whether the other image's
  payload is refused is then up to its decoding and to `mconf_validate_data`,
  because the checksum is over the payload alone: entries that take up the same
  bytes under both schemas are loaded. `header_bytes` reaches this state;
  `TornHeaderIsOld` says what holds there all the same, and
  `TolerableFaults` leaves it out.
* `MCONF_ERR_CRC` (1210) cannot be returned by `mconf_load`, because the probes
  never compute a checksum.
* On a 32-bit `size_t` the fingerprint's shift is undefined (`mconf.c:132`):
  schemas are told apart by either build, but two builds need not agree on the
  fingerprint, which `tests/test_all.c:122` calls stable.
* Validation accepts an entry of type 0 (`mconf.c:470` mixes it in like any other):
  with such entries two schemas can mix the same bytes, see `FingerprintTells`.
* `mconf_zephyr_eeprom_init` computes `base_offset + total_size` in `size_t`
  (`mconf_zephyr_eeprom.c:124`). `OnlyOwnSlot` is violated when `Requests`
  contains one whose end wraps.
* A flash area of an odd number of erase units is accepted
  (`mconf_zephyr_flash.c:108`) although slot 1 then begins inside a unit: the
  driver refuses every erase.
* Registered names are cut to 23 characters and compared in full
  (`mconf_zephyr_shell.c:68`, 56): a longer name is never found.
  `RegisteredIsFound` with a name that `Cut` shortens.
* `cmd_mconf_set` cuts numbers to the width of the field and reports success
  (`mconf_zephyr_shell.c:297`); the cut is `ParsedValue`.
* With a third early thread, the second `k_mutex_init` can drop a thread from the
  queue, which is then never woken.
* The samples treat every failed load like an empty device
  (`samples/eeprom/src/main.c:90`): when a read fails at boot the defaults are
  saved over the user's configuration. `BootKeepsUserConfig` and
  `StartsConfigured` with `ReadsFail = TRUE`.

## Proofs

Every theorem holds for all values of the constants that satisfy the named
`ASSUME`s of the modules and the hypotheses it states.

### MconfStorageProofs

| Theorem | Property | Hypothesis |
|---|---|---|
| `TypeCorrect`, `LoadGivesWholeRecord` | `TypeOK`, `LoadIsWhole` | none: every combination of faults |
| `InductiveInvariant`, `OrderKept`, `TargetExpendable`, `OnlyCommitChangesDurable`, `SomeRecordSurvives` | `IInv`, `SlotsOrdered`, `TargetIsExpendable`, `DurableChangesOnlyByCommit`, `NeverLosesAll` | `TolerableFaults` |
| `SavedRecordIsDurable` | `SavedIsDurable` | `TolerableFaults`, a medium that can overwrite a byte |
| `LoadGivesNewest` | `LoadIsNewest` | reads succeed |
| `SaveGivesDataBack` | `SaveKeepsData` | `HonestStorage`: reads succeed, no write or erase lies; any medium |

`TolerableFaults`: payloads do not change at rest, the header reads of
`mconf_save`'s probes tell the truth, and silent or unordered erases occur only
while all images share one schema. The findings and observations show that the
first two cannot be dropped; `SomeRecordSurvives` is the positive side of the
finding of `storage_probe_fault`.

The safety properties are not inductive: that the target is expendable depends
on what the probes saw steps earlier, and that a commit is harmless depends on
the verification. `IInv` adds:

* `NoStrayCommit`: no committed state byte without a header;
* `DamagedIsOld`: a damaged committed record is older than the other one;
* `Consecutive`: two records of one schema have successive generations, hence
  exactly one is newer, also across the wrap;
* `ProbesCurrent`: what the probes found still holds at the decision;
* `TargetChosen`: during a save the other slot is whole, its generation precedes
  `next_generation`, and a committed target is the older one;
* `Verified`: what the verification has compared so far, up to "the slot holds
  exactly `payload_crc`" at the commit.

`LoadIsNewest` must hold with records that rot, where `IInv` does not. It has an
invariant of its own, `ChoiceInv`: what the probes of a load found is still so
when it decides, and the slot being decoded is `RightSlot`, the first choice
with the other one in reserve, or the reserve once the first choice was found
damaged. Rot only damages further, and power loss ends the load. `SaveKeepsData`
rests on `BufferInv`: behind `index` the slot holds the encoded configuration,
and the part of the buffer that the verification has decoded is equal to it.

#### The refinement

`StorageImplementsStore`: on a medium that overwrites bytes and reports what it
could not do (`ReportingMedium`: faults `read` and `write` at most) every
behaviour of `MconfStorage` is one of `MconfStore`, safety part
(`ImplementsStore`). The contract names the predecessor a load may fall back to,
so the proof has to know when it goes. `CleanTarget` says so: once the target is
erased it holds no record until the commit, and what is committed has been read
back into the buffer. Then each step is sorted by what it does to the slots:
nothing, a harmless write into a target that held a record (`Discard`) or none
(a stutter), the commit (`SaveSucceeds`). The end of a load is matched with
`LoadSucceeds` or `LoadFails` by `LoadInv` and, without read faults, by
`ChoiceInv` and `BufferInv`. Silent and unordered faults are outside: a record
that survives its erase would reappear as the predecessor.

### MconfContextProofs

Without hypotheses, but for the last theorem. A bound context has an accepted
schema (`Bound`). The comparison `offset + size < offset` rules out wrapped ends,
so acceptance gives disjoint fields inside the buffer (`LayoutIsSound`), so each
address has at most one owner, so a setter, which stores exactly the bytes of its
field, touches no other
(`FieldsAreIndependent`), and the order of `mconf_load_defaults` does not matter
(`DefaultsAreRestored`). `ValidityIsKept` needs both: the field a call stores is
legal because the call checked it, and the other fields are as they were.
`TypeCorrect` completes it.

`FingerprintTells` proves `SchemasToldApart`. Two hypotheses: no entry has the
type 0 (`TypesCoded`), and every offset has a byte that is zero in what is mixed
in for it (`OffsetsShort`): one beyond the width of `size_t` where the build puts
zeros there, or its highest one, that is, offsets below 2^24 or 2^56. Numbers take
a fixed number of bytes, so version and number of entries can be read off the head
(`HashTellsSize`, digit by digit from the highest), and the question is whether the
entries can get out of step at a key. If they do, by `m` bytes, the longer key
covers the first `m` bytes of the other schema's next offset; key bytes are not
zero, so `m` is at most the place of the zero byte; but then the type of the next
entry, which is not zero, coincides with a later byte of the other's type, which is
(`NotLonger`). At the last entry they cannot, because the lengths agree. So all
entries are in step (`EntriesInStep`) and can be read off one by one. Type 0 is
accepted by the code, and there are schemas with such entries that mix the same
bytes: the second entry of one with an empty key at offset 1 of size 1, of the
other without key at offset 256 of size 256, behind first entries without and with
an empty key.

### MconfHeaderProofs, MconfCodecProofs

`HeaderIsReadBack` and `TornHeaderStaysOld` have no hypotheses and follow from
`HeaderInv`: the first bytes of the header are those of the new one, the others
those of the old one. `EncodeIs` flattens the nested stores of
`mconf_encode_header` into one byte per offset; the state byte at 18, which is
not `COMMITTED` in the header being written, lies before generation, length and
checksum, so a header that is accepted while it is being written has the old
ones. What lies before the state byte is the same in both headers when they are
of one schema, and then the header is the old one.

`DecodeIsConfined` (`DecodeInv`, no hypothesis): whatever lengths and bytes the
medium holds, the decoder fills each field to its end and terminates strings.
`AcceptedInSlot` (no hypothesis): an accepted record was read from the payload
area of its slot, although changed lengths move the entries behind them.

Writer and reader go through the entries one by one, so `LayoutInv` says that at
entry `i` the writer has the offset at which the first entries end in the payload
(`End`) and the checksum over them (`CrcAfter`, the register after that many
bytes), and `RoundInv` that the reader of an intact record is where the writer was
and has given the entries before `i` their meaning. `PayloadRoundTrip` proves
`RoundTrip` from it, for schemas whose string fields are no longer than a length
of two bytes can tell (`LengthsFit`; the observations show what happens beyond).
That recursive functions exist, that `FlattenSeq` joins the entries and where each
one lies in the result are proved by counting up (`CountingUp`, from the least
element of the numbers not reached).

`RegisterDivides` shows that `mconf_crc32` is the CRC-32 of every sequence of
bytes: with the register after `i` bytes, the division of the whole message has
that register and the bytes not yet seen as its rest (`Pending`), one turn of the
bit loop being one turn of the division mirrored (`DivisionTurn`, `DivisionByte`).
With `LayoutInv`, `HeaderHoldsCrc32` proves `ChecksumIsCrc32` without hypotheses:
summing entry by entry gives the checksum of the whole.

`BurstDetected`: two messages that differ in four neighbouring bytes at most and
have one checksum are equal. A turn of the bit loop can be undone, because bit 31
of the polynomial tells whether it was added (`TurnBack`); so equal registers
behind the burst were equal at its end, and going back through it byte by byte
leaves 8, 16, 24 and 32 bits in which they may differ (`Open`), while both start
from one register. `AcceptedMeansSaved` proves `AcceptedIsSaved` under
`LengthsFit` by it: `MediumInv` says that the medium is the payload but for such a
burst (`Damage`) and that the register of the reader is the one over the bytes it
has read, wherever the lengths it found made it read them (`Summed`). A record is
accepted when length and checksum agree, so the bytes read are the payload area
from its start to its length (`AcceptedIsIntact`), and `RoundInv` applies.

### MconfBackendsProofs

The EEPROM theorems assume `EndsFit`: `base_offset + total_size` of a request is
a `size_t`. The code does not check this (see the observations), and without it
the properties are false. `EepromInv`: the stored region lies on the device in
two halves (`RegionOnDevice`), and an erase in progress is inside its slot, has
erased everything behind it, and has passed none of the header or all of it
(`EraseUnderWay`; a chunk is as long as a header). It gives `EraseCompletes`,
`OnlyTheOwnSlot` and `HeaderIsErasedFirst`. `FlashAccessInArea` needs no
hypothesis: the sizes the flash backend compares with are those of the area that
is open (`BoundsOfArea`).

### MconfShellProofs

`TypeCorrect` has no hypothesis: even when several threads race for the first
call no command works on an entry without a context. The others hold for any
number of threads of which one at most comes first (`OneFirst`, which
`shell_race` shows to be needed). That whoever is inside holds the mutex is not
inductive by itself; `MutexInv` adds:

* `FirstComes`: before the mutex is initialised only the first thread has moved,
  afterwards nobody is about to initialise it;
* `QueueWaits`: the queue holds waiting threads, each once, so the unlock hands
  the mutex to a thread that is outside;
* `SaveUndisturbed`: while `mconf_save` runs, the buffer is what it encoded.

It gives `MutexHeld`, `ContextsAreSerialized` and `SaveIsLatest`, and is what
`RegistryIsDictionary` stands on: the place a registration found is still the
right one when it is filled, because nobody else can be filling one
(`PlaceFound`, part of `RegistryInv`). That theorem also assumes `NamesFit`, no name is cut; the
observations say what happens to one that is.

### MconfBootProofs

All theorems assume that reads succeed; the last observation shows why.
`Phases` ties the position of `main` to the call in progress: on the way to the
defaults nothing is stored. It gives `TypeCorrect` and `BootKeepsConfig`.
`Buffers` adds what the buffer holds at each position, and gives
`DeviceStartsAsEncoded`: `main` hands over the stored configuration or one that
encodes like the defaults. While a save works in the buffer the contract of the
store tells only how the configuration encodes, so `StartsConfigured` itself,
which names the defaults, needs `DefaultsEncodeAlone`
(`DeviceStartsConfigured`): no string of the defaults leaves room for other bytes
behind its NUL. In `boot_start` the defaults are such.

### Assumptions about constants

Sizes are naturals; an encoding is idempotent and keeps legal values legal;
callers' `default_size` is the length of what `default_value` points to; the
buffer lies in memory; two bytes of the same bits are the same byte, and
keys of the same characters and types of the same code are the same; a `size_t`
has `SizeBytes` bytes and counts the entries of a schema; a schema has an entry
and fields have a size, as `mconf_schema_validate` demands; the words of a header
have two or four bytes.
`WordsAssumption` in `MconfShell` says that powers of `ByteMod` are positive
naturals, since the provers know nothing of exponentiation; TLC evaluates it like
all the others.

### Model-checked only

* `CallsReturn` of the library and of the shell, and `BootEnds`: fairness and
  `ENABLED` are out of the prover's reach.

## Plan

1. Done: the modules and runs above, and a theorem for every invariant and every
   action property that a passing run checks.
2. Left: `StorageImplementsStore` for unordered erases while one schema is in
   use, with a predecessor that may outlive its erase.

## Not modelled

* The names of status codes and types and the preprocessor defaults: tables
  without state. The options the code branches on are constants of
  `MconfContext`.
* What the shell prints, and the schemas and the printing of the samples.
* The multiplication of the FNV hash, taken to be collision free.
* Refusals of null arguments, which return before they touch anything, and
  `find_shell_entry`, which nothing calls.
