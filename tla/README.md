# TLA+ models of ccid-utils

ccid-utils is a user-space driver for USB smart-card readers (CCID) with the
card-side software that runs on it: GSM SIM, EMV payment cards and contactless
cards behind a CLRC632 front end. This directory holds TLA+ models of it, TLC
configurations that check them on small instances, and TLAPS proofs.

## The system

| Component | Source | State | Operations | What makes it correct |
|---|---|---|---|---|
| CCID transport | `ccid.c` | `d_seq`, `d_error`, the shared transfer buffer, what is in the reader's pipes | `_PC_to_RDR`, `_RDR_to_PC`, `_cci_wait_for_interrupt` | an answer is taken for the command it answers; an exchange leaves nothing behind; every call returns |
| Contact slots | `cci.c`, `cci_contact.c` | cached `i_status` per slot | power on/off, transact, clock status, wait for card | the cache says what the card last said; "ok" only if the reader did it |
| Probe and close | `ccid.c`, `ccidev.c` | USB handle, trace file, rate tables, buffer | `ccid_probe`, `ccid_close`, device enumeration | every slot asked before it is used; what was acquired is released, and nothing else but stdout |
| Transfer buffers | `xfr.c` | lengths and limits of the two halves | reset, append, read | not modelled |
| Gang, mpool | `gang.c`, `mpool.c` | chunks, free lists | alloc, free | live objects never overlap |
| RFID field | `cci_rfid.c`, `rfid_layer1.c`, `clrc632.c`, `omnikey.c` | field power, selected tag, FIFO and timer | select, power, transact | a protocol held by the slot is one the tag in the field is in |
| Anticollision | `iso14443a.c` | the UID bits known so far | REQA, anticollision, select | one tag is selected, its whole UID known |
| T=CL | `proto_tcl.c` | block toggle, frame sizes, CID | ATS, PPS, block exchange | a success carries the card's whole answer, exactly once |
| MIFARE Classic | `proto_mfc.c`, `clrc632.c` | authenticated sector | authenticate, read, write | not modelled: nothing calls it |
| EMV session | `emv*.c` | selected application, records, authentication results, PIN tries | select, init, read data, SDA, DDA, verify PIN | a result belongs to the application it was computed for |
| SIM | `sim*.c` | current DF and EF, the EF's sizes | open, save messages | the current file is the card's current file |
| BER | `ber.c`, `ber_decode.c` | none | decode | not modelled |
| Python bindings | `py_*.c` | objects, their counts and what they point at | create, share, drop | no object outlives the memory it points into |
| Tools, scripts, hex dump | `*.py`, `*tool.c`, `util.c` | none | | not modelled |

Everything runs in the caller's thread: the hard behaviour comes from the other
parties (reader, cards, the user's hand, the USB cable), from bulk transfers
without timeouts, from state kept in caches and shared buffers between calls,
and from calls that fail half way. `PROJECT.json` lists these hazards line by
line with the properties that cover them.

## Modules

* `CommandChannel` - the abstract specification: one caller, one far end,
  commands issued one at a time, executed at most once and in order, success
  reported only for an executed command. `Window` is the one weakness a
  numbered channel has: answers at least `Window` commands old may be mistaken.
* `Ccid` - the transport and the contact-slot operations, with the reader, its
  pipes and the cards as external actors.
* `MCCcid` - the module TLC runs on `Ccid`, with three configurations.
* `CcidProofs` - theorems about `Ccid`: its first part is about any link, its
  second goes on to the pipes, the cached status and the errors of one that is
  not broken.
* `EmvSession` - an EMV session over a card: selection, initiation, records,
  static and dynamic authentication, PIN. `MCEmv` has its TLC instance,
  `EmvProofs` its theorems.
* `Allocator` - the abstract specification of an allocator; `Mpool` and `Gang`
  implement it. `MCAlloc` runs both side by side, `MpoolProofs` and
  `GangProofs` have their theorems; `MpoolProofs` extends `MCAlloc` and ends with
  those about the two together.
* `Tcl` - the block protocol with a contactless card over a field that loses
  frames. `TclProofs` has its theorems.
* `Rfid` - the field of an Omnikey reader as a slot: register accesses, frames,
  tags. It extends `Timer`, the arithmetic of the answer timer. `MCContactless`
  runs `Rfid` and `Tcl`, `MCRfid.cfg` runs `Rfid` on the code as it is.
  `RfidProofs` extends `MCContactless` and has the theorems about the field.
* `Sim` - the SIM session over a card's file system; `MCSim.cfg` runs it as it
  is, `SimProofs` has its theorems.
* `Device` - the device list, probing, opening and closing. `Bindings` extends it
  with the Python objects that hold lists, devices, readers, slots and sessions.
  `MCBindings` has the TLC instance, `BindingsProofs` the theorems about both.

How they meet: `Bindings` makes the calls of `Device`; `Device` ends where the
probe's slot loop begins, which `Ccid` has (`op = "probe"`); the register
accesses of `Rfid` are the escape exchanges of `Ccid` on slot 0; a `Transact`
of `Rfid` whose block is answered stands for the exchange of `Tcl`, and
`PowerOn` of `Tcl` for a whole selection of `Rfid`; `EmvSession` and `Sim` see
an exchange of either kind of slot as something that succeeds, or fails before
or after the card has acted, which is what `Ccid` and `Tcl` show of it.

In every module a definition `X_Y` above a definition `X` is `X` with a
plausible mistake `Y`; no specification uses it. `PROJECT.json` says which
property each mistake breaks.

### `Ccid`

| Model | Code |
|---|---|
| `d_seq`, `d_error`, `i_status` | the fields of `struct _ccid` and `struct _cci` |
| `pc`, `op`, `slot`, `try`, `outcome` | where the calling thread is, in which call, with which locals, and how the last exchange ended |
| `cmds`, `resp`, `notices` | the bulk-out, bulk-in and interrupt pipes |
| `Call` | entry of a call of the interface; `op = "probe"` is the loop of `ccid_probe` |
| `PC_to_RDR`, `PC_to_RDR_Fails` | `_PC_to_RDR` taken whole by the reader; failed or short, and then taken by the reader all the same (whole or cut) or not |
| `RecvFails` | `do_recv` failing, with or without a message lost |
| `RDR_to_PC_*` | one action per way `_RDR_to_PC` and its caller deal with a message: not ours, extension waited for, extension given up, error, success |
| `StatusAfter` | `_chipcard_set_status`, with its default branch: the reserved status leaves the cache as it is |
| `Interrupt`, `NoInterrupt`, `StrangeNotice` | `_cci_wait_for_interrupt` and the loop condition of `cci_wait_for_card`; its assertion that a notification has two bytes |
| `ReaderAnswers`, `ReaderExtends`, `MoveCard`, `Unplug` | external |

A command gets a number (`sent`) and its answer carries it (`id`): the code has
no such thing, and no guard of the driver reads it. `accepted`, `executed`,
`link`, `basis` and `seen` are history too: what was accepted for which
command, what the reader executed, whether the link ever lost step, what the
cached status of each slot rests on, and whether a card was in the slot during
the current call. `link` is `"broken"` after a failed receive, after a time
extension that was not waited for, and after a command that the reader took
although its transfer failed and the caller returned: each leaves an answer for
the next call to meet. It stays so: the driver has no resync. A write that fails
without the reader having taken anything is a `"write_fault"`: a number is used
up, and nothing else.

An answer tells the card's state in its two status bits, or has the reserved
value there, or, to an escape command, whatever the vendor puts there (`Told`);
`basis` remembers which. `CacheCurrent` is about answers that told the state,
`KnownStatus` also about those that did not: a slot of which a reader says
nothing but the reserved value keeps the ACTIVE of `calloc`. A card is taken not
to be active when the reader is opened.

Message payloads, voltages, `bApp` of commands and the trace file are left out.
`bStatus` is split into the card's status and the result; `bError` into the
four classes the driver tells apart. An RFU clock byte is kept because it makes
`contact_power_off` and the probe fail although the command was done.

### `EmvSession`

One action is one call of the interface, in any order and after any failure:
`emv_applet.py` lets its user press every button at any time. A card has its
own current application (`current`); the session knows only what it selected
successfully (`e_app`). Data is named by where it comes from: `e_aip` and
`e_afl` are the application whose answer is held, `e_db.of` the application
the records were read from, `e_db.by` the one whose locator named them.

| Model | Code |
|---|---|
| `e_sda_ok`, `e_dda_ok`, `e_iss_pk`, `e_icc_pk` | the fields of `struct _emv`; a key is named by the application it was taken from |
| `e_db.cert` | what lies in the record buffer where a certificate was: as read (`raw`), recovered in place with the right key (`plain`), or neither (`junk`) |
| `e_files` | whether `e->e_files` points at a live gang; `freed` after a pool could not be had |
| `Init` | `emv_init`: a session, or none (no active card, no buffer, no pool), or none after a pool freed twice (no gang: `emv.c:268` frees it and `do_emv_fini` does again) |
| `Select`, `SelectUnusable`, `SelectFails` | `emv_app_select_*`: stored; carried out but not stored by `set_app`; `do_sel` failed, perhaps after the card did it |
| `AppInit` | `emv_app_init`; a part that the answer lacks keeps its old value |
| `Sda`, `Dda` | the two authentications past their early returns, with every way the key callbacks, certificates, hashes, account and signature can turn out |
| `Faults`, `Recovered` | the RSA call itself failing, which leaves the buffer as it was; a wrong key, which leaves `junk`; memory running out after it |
| `*TooEarly`, `FreedTwice`, `Crash` | calls that end the process: an application or CA key index that is not there, a gang freed twice |
| `PinExchangeFails` | `emv_cvm_pin` when VERIFY is not exchanged; a PIN call that is answered leaves no state here |

`matched` (which hashes over the static data matched since the last reset: that
of SDA, that of the card's certificate), `signed` (the application that made the
dynamic signature) and `refused` (a genuine card passed SDA and then failed DDA)
are history.

Left out: the list of applications (`e_apps`), the last error, memory that
`emv_app_init` and `set_app` leave behind, failures of small allocations,
records that have some of the elements only, and calls that leave nothing in
the session (get data, transaction counters, generate AC).

### `Mpool` and `Gang`

An object of a pool is a pair of its slab and its index in it; `next_obj` of
the newest slab is the index of the object it points at, and `Offset` and
`SlabSize` are the code's arithmetic in bytes. The free list, which the code
threads through the objects, is a sequence. A failed `malloc` still leaves
`next_obj` one object further (`AllocFails`). A block of a gang is its slab,
the offset where it starts and its size. `used` and `held` say what the caller
was given; the allocators keep no such record. A caller returns to a pool only
what it has: nothing in the repository calls `mpool_return`. Zeroing
(`mpool_alloc0`, `gang_alloc0`) and the size arithmetic at the end of the
address space are left out.

### `Tcl`

| Model | Code |
|---|---|
| `rf_l3`, `toggle` | whether `rf_l3` of `struct _rfid` is set; `toggle` of `struct tcl_handle` |
| `tx_len`, `next_tx`, `rx` | the `tcl_tx_context`: the command, how much of it was sent, what was received |
| `ret`, `air` | what the last call returned; the frame on the air, and so what `_tcl_transact` waits for |
| `PowerOn`, `FieldFails`, `SelectFails` | `rfid_power_on` that succeeds, or fails before or in `do_select` |
| `Transact`, `Unsupported` | entry of `rfid_transact` and of `_tcl_transact` up to the first frame |
| `Lost` | `_iso14443ab_transceive` failing: the frame or the answer to it was lost |
| `TooLate`, `late` | it fails because the card is not done when the timer expires; the frame the card is still busy with |
| `LateArrives`, `LateUnheard` | that frame comes as the answer to a frame of a later call, which the card did not hear; or while nobody listens |
| `Acknowledged`, `WrongToggle`, `Extend`, `BadExtension`, `Received` | the branches of the loop |
| `Card...`, `c_...` | the card, external: block numbers and chaining as ISO 14443-4 has them for the card, but it may ask for a reserved extension |

A byte is the call it belongs to and its place in it, so that a repeated, missing
or stale byte shows. `call`, `ran`, `done`, `start`, `stale` and `lost` are history.
`rfid_power_off` switches the field on, not off (`_rfid_layer1_rf_power` has the
two swapped), and leaves `rf_l3` set: nothing here changes. The answer's buffer
is taken to be large enough, frames arrive whole or not at all, and the card
identifier and node address, whose flags nothing sets, are left out, as are the
contents of ATS and PPS.

At this commit no card gets as far: `_iso14443a_anticol` clears its pointer to
the tag instead of the tag (`iso14443a.c:302`) and goes on to use it. `Tcl` is
about the protocol code itself, as it runs once selection does.

When a command block is lost the reader's number has moved and the card's has
not. The card's answer to the next command then has the wrong number, and
`_tcl_transact` gives up with the transceive's return value still in `ret`,
which is 1: success with no answer (`proto_tcl.c:546`), on which `xfr_rx_sw1`
asserts. `WholeAnswer` says that this is the only way: a call that begins in
step and succeeds has it all.

A card that asks for more time than the timer can be set to (`proto_tcl.c:437`), or
announced an FWI above 8, may answer into a later call. Its frame is told by its
block number if that call began in step: it fails then, and `FreshAnswer` holds.
If the ends were out of step the late frame is taken for the new answer; that
is the exception in `FreshAnswer` and `WholeAnswer` (`stale`).

### `Rfid` and `Timer`

| Model | Code |
|---|---|
| `chip` | the CLRC632 as the code sets it: powered down, RF_EN, whether the FIFO is empty, the rate registers |
| `tags` | how many tags are in the field, and the state (ISO 14443-3 and -4) and kind of the one that gets selected; external |
| `d_num_rf`, `i_status`, `rf_l3`, `level` | `d_num_rf` of `struct _ccid`, the slot's status, whether `rf_l3` is set, the cascade level in `_iso14443a_anticol` |
| `op`, `acc`, `frame` | the call in progress; its next register access, or its next frame |
| `Accesses`, `Effect`, `AccessOk`, `AccessFails` | `_omnikey_init_prox`, `_clrc632_init`, `asic_power`, `rf_power`, `iso14443a_init`, ... as the accesses that change what the model keeps; each may fail, with or without effect |
| `PowerOn`, `DoSelect`, `PowerOff`, `Transact`, `TransactRefused` | `rfid_power_on`, `do_select`, `rfid_power_off`, `rfid_transact` |
| `Requested`, `Anticollision`, `Selected`, `GotAts`, `GotPps`, `SetSpeed`, `SetSpeedFails` | the steps of a selection, one per frame, and the rate registers after PPS |
| `FrameFails` | `wait_idle_timer` or a FIFO access reporting an error, or a damaged answer |
| `BestPrescaler`, `FwiToFwt`, `Periods` | `best_prescaler`, `fwi_to_fwt`, `timer_set`, in integers as in the code |

`fault` (something went wrong in this call), `moved` (the selected tag was taken
away or reset) and `calls` are history. `TagReset = "pointer"` is the source:
it stops in the first selection. `"tag"` is what the `memset` was evidently for,
and lets run `contactless` look at everything behind it. `GenuineSelected` says of
each what a power-on in which nothing is lost comes to: a selected tag with
`"tag"`, a stopped process with `"pointer"`.

What the model follows literally and a reader may take for a mistake: `rf_power`
has on and off swapped (`clrc632.c:123`), so that `cci_power_off` leaves the field
on and `cci_power_on` drops it for a moment, which is why a tag can be selected a
second time at all; the second cascade level is asked for with code 0x92, which
no tag answers, so only tags with a single-size UID are selected; the time-out
of an ATS with FWI above 8 does not fit the timer, which then expires at once.
A power-on that fails before `do_select` keeps the protocol of the tag before:
`FieldInStep` is therefore about a tag that stayed (`moved` is set by `PowerOn`).

### `Sim`

A call is a script of steps (`NewScript`, `SaveScript`): the selects, reads and
computations of `sim_new` and of `sim_sms_save` in their order, each marked if the
code returns when it fails (`must`).

| Model | Code |
|---|---|
| `s_df`, `s_ef`, `s_ef_fci` | the fields of `struct _sim`; `s_ef_fci` is named by the file its contents describe |
| `New`, `NewFails`, `Save`, `Free` | `sim_new` up to its first select, `sim_sms_save`, `sim_free` |
| `SelectRefused`, `SelectExchangeFails`, `Selected` | `_apdu_select` refused by the card; failing in either of its two exchanges, perhaps after the card has moved; answered, and `set_fci` on an answer (`Answers`) that describes any file or one of an unknown type, cut at one of the places it looks for |
| `SetFci`, `SetDfFci`, `SetEfFci` | `set_fci`, which takes the file named in the answer over first; `set_df_fci`, `set_ef_fci` |
| `AsAsked` | what `set_fci` returns in the end: whether the file is the one asked for |
| `e_reclen` | whether the record length held is 0, which the card may give and nothing checks |
| `ReadOk`, `ReadFails` | `read_iccid`, `read_imsi`: what they print, also when nothing was read |
| `OpenFile`, `CountRecords`, `ReadRecord`, `Saved` | the rest of `sim_sms_save`; a record length of 0 stops the program in `CountRecords` |
| `CardRemoved`, `CardReset`, `card` | external |

`lost` (the card may stand elsewhere than it last said: an exchange failed, or an
answer was not about the file selected), `found` (a select succeeded since the last
read) and the file names in `printed` and `saved` are history. `Labelled` says
what may be printed under which label. It has two exceptions, which are the
code's: `read_iccid` prints what an uninitialised length covers when its read
failed, and `read_imsi` prints the ICCID when all of its selects fail. What is left out: the decoding of messages,
`sim_sms_restore`, which talks to no card, and the file on disk beyond what
was written to it.

### `Device` and `Bindings`

| Model | Code |
|---|---|
| `lists`, `refs` | `ccidev_t` lists of `libccid_get_device_list`; libusb's reference counts |
| `ProbeDescriptors`, `CheckInterface`, `Walk` | `_probe_descriptors`, `check_interface`; `probe_descriptors` with `fill_ccid_desc` and `get_endpoint` |
| `ProbeSteps`, `Undo`, `ProbeFails`, `Probe` | the steps of `ccid_probe` that can fail, what each acquires, the label it goes to, and what the labels release; tracing to a file or, with `"-"`, to `stdout`, which nobody opens |
| `Overruns`, `NewCcidOverruns` | the slot loop of a probe on a device that claims more slots than `d_slot` has entries (`MaxSlots`): `bMaxSlotIndex` is not checked |
| `Closes`, `Release` | what `ccid_close` releases, from the fields it looks at and not from what was acquired; `libccid_free_device_list` |
| `leaked`, `unowned` | history: acquired and never released; released and not acquired |
| `objs` | the Python objects: count, owner, what each points at |
| `With`, `Decref`, `Dropped`, `Drop` | creating with `Py_INCREF` of the owner; `Py_DECREF` and the deallocators `cp_*_dealloc` |
| `listed`, `taken`, `TakeOut` | an application in the list that the session and the program share; the program takes it out |
| `ForgetApps`, `DirtyApplist`, `NewApp` | the parts of `AppselPse`: the applications freed, those in the list marked, a new list |
| `AppMethod` | a method of an application object that is not marked, on one that was freed |
| one action per creating method | `NewDevlist`, `DevlistGet`, `NewDev`, `NewCcid`, `InterfacesGet`, `OwnerGet`, `NewEmv`, `AppselPse`, `SelectAid`, `SelectPse`, `CurrentApp`, `ReadAppData`, `DataChildren` |

`fault` names memory that was freed and that a method would walk into, and ends
the behaviour: the model does not say what the process does after it. It is
reached by methods of a session whose reader was dropped (a session counts no
reference to it), of an application object from before the directory was
read again that was not marked (the program had taken it out of the list), by
selecting with one, by a probe that overruns `d_slot`, of a data object from before the records were read again, and through
`current_app`, which hands out the session's own reference. No document
of the repository says that these cannot be reached, so no run asserts it.
Losses: application and child data objects keep a reference to their session
that nobody drops, so that it is never freed; a probe that fails leaves the trace
file open, the tables of rates and clocks are released by nobody, and a
device found by its address keeps its libusb reference. A reader that traces to `stdout`
closes it. `ReleasedOnce` says that this is all. Of what a program can do to a list it
was given only taking elements out is modelled.

## Runs

| Run | Configuration | Shows |
|---|---|---|
| `ccid_core` | one slot, every answer possibly with the reserved status, 4 commands, sequence numbers modulo 2, two tries, two answers fit in the bulk-in pipe | `WindowSafe`, `AbortOnlyAfterWrap`, `NoFalseBusError` and the refinement of `CommandChannel`, with every fault, a moving card and an unplug. Modulus 2 makes the wrap, and with it an answer mistaken for a later command's, happen within 4 commands |
| `ccid_slots` | two slots, 4 commands, modulus 4 (no wrap), fairness | `InSync`, `CacheCurrent`, `KnownStatus`; `CallReturns`, `WaitReturns` |
| `ccid_wait` | one slot | a violation: `WaitMeansPresent` |
| `emv` | two applications, each of five profiles | `KeysVerified`, `DdaProven`, `DdaImpliesSda` |
| `emv_sda`, `emv_both`, `emv_pin` | the same | violations: `SdaMeansVerified`, `GenuineAccepted`, `StatusAfterSuccess` |
| `alloc` | pool: objects of 3 bytes, two slabs of two; gang: two slabs of 6 bytes (one of them header), sizes 0, 1, 2, 4, 5 and 6 | `InsideSlab`, `GrowsWhenFull`, `GangInsideSlab` and the refinements of `Allocator` by both |
| `contactless` | blocks: frames of 2 bytes, commands to 3, answers to 3, three calls, two extensions in a call; field: three calls, one speed beside 106K, FWI 4, 8, 9 or none | `InStep`, `FreshAnswer`, `WholeCommand`, `WholeAnswer` of `Tcl`; `FieldInStep`, `TimerLasts`, `GenuineSelected` of `Rfid` |
| `rfid_power_on` | the source as it is, one call | a violation: `PowerOnReturns` |
| `sim` | four records, four calls | `FciOfFile`, `InStep`, `RecordsKnown`, `Labelled` |
| `bindings` | one dual-interface reader of the list, or one that claims two slots where there is room for one; four objects at a time | `ReleasedOnce`, `DeviceReferenced`, `InterfaceOpen`, `MarkTellsFreed`, `SessionOutlives` |

A run also checks the `TypeOK` of its modules.

In `contactless` a behaviour is of one of the two halves. Blocks: commands of 0
to 3 bytes are none, one short frame, one full frame and a chain; three calls
are one to lose a block in, one to find the ends out of step, and one after
that. Two extensions in a call are one more than it takes to be given time
twice running. Field: three calls are one that selects a tag, one that fails
somewhere and one that has to put up with what the first two left (after the
set-up, which is not counted); two tags make a collision; the FWI are the
default, the last the timer can do, the first it cannot, and none
(`NoTb`). It may stop (`CHECK_DEADLOCK FALSE`): the field half at the bound on its
calls.

In `sim` four calls are a session, two saves in it (one that fails, one after
it), and a second session; the number of records only bounds a loop. A
`ReadRecord` that is refused forever is not one of its outcomes: the loop counts.
It stops at the bound on calls or when the program has stopped.

In `bindings` four objects at a time are a chain of list, device and reader with
one more, or a session with three objects on it; the handles are symmetric, and
dropping frees them for others, so that behaviours are unbounded. One
device has an interface without the CCID class, one with it under
a later alternate setting, and a contactless field; the other is a plain reader with
a slot too many. At most one of them is attached (`MCSpec`), which is a bound on the
instance only: the theorems are about any set of devices. Of the resources that a probe
may be asked for, it is asked for all, or for a trace on `stdout` alone. `MaxRefs` bounds devices found by address, whose references
are never given back. It stops when a fault ends the program.

`EmvSession` has no counters: its state space is finite and the runs search all
of it. Two applications are what it takes to mix one's results with another's;
the profiles are one without fault, one without DDA, and one per certificate
that does not verify. A session can end at any time (`CHECK_DEADLOCK FALSE`).

In `alloc`, `MaxSlabs` and `MaxGangSlabs` stand for `malloc` failing: two slabs
are what it takes to return an object of an older slab, or to cut a block from
a newer one while an older one is in use. The pool's object size does not
divide its automatic slab size, so the rounding matters; among the gang's sizes
are one that fills an empty slab exactly (5 of 6, with the header) and one that
fits no slab. `MaxStray` bounds
how far repeated failures move `next_obj`.

`MaxCmds` bounds a session, but for `cci_wait_for_card`: past the bound it polls on
while the link is clean and a card is in its slot (`MayPoll`), so that `WaitReturns`
has no case that the bound ends. A reader may say something other than
the card's state, and cards are put in, only before the bound (`Told`, `MoveCard`): each a
bounded number of times, as `WaitReturns` needs; one that says the reserved value
forever keeps the caller forever. Four commands are two more than are needed to leave
an answer behind and to meet it, and twice the smallest modulus. `MaxExt` is at
least `MaxTry` in `ccid_core` so that the driver does give up. `UsbErrors` has no
`NO_MEM` in `ccid_slots`: it takes the path of `BUS`. The pipes hold
one or two messages because the driver itself never has more than one command
under way; a longer pipe only matters after a fault, which `InCap = 2` has.
`CHECK_DEADLOCK FALSE`: a session ends when the probe fails, an assertion
stops the process, the bound is reached, or both ends wait on each other.

**Fairness.** `FairSpec` is weakly fair to the host's own steps other than
faults, and to the reader answering its oldest command. The host is one thread
in a blocking call, so it goes on when it can; a reader that never answers
leaves the driver in a transfer without timeout, which nothing in the code
ends. An unplugged reader fails every transfer. Calls, faults, card movements
and unplugging are never required.

**What needs the assumption `link # "broken"`.** Without it "every call
returns" is false: with an answer left behind on a full bulk-in pipe, the
reader waits for it to be read and the host waits, without timeout, for its
command to be taken. An answer is left behind by a failed receive, by an extension
given up, and by a command the reader took although its transfer failed;
`InSync` and `CacheCurrent` have the assumption for the same reason. `WindowSafe`,
`AbortOnlyAfterWrap`, `KnownStatus` and the refinement of `CommandChannel` do without.

**Finding (`ccid_wait`).** `cci_wait_for_card` ignores the results of its own
write and read and looks at the cached status: it returns 1 with no card in the
slot, now or at any moment of the call, when the exchange fails while the cache
says PRESENT, or when an older notification is read after the newer answer.
The comment over it says "Wait for insertion of a chip card in to the slot."

**Findings in the EMV session.** `emv_sda`: `check_icc_cert` sets `e_sda_ok`
before the outcome of its hash is looked at, so after a DDA that failed for a
wrong hash SDA reports success at once. `emv_both`: SDA recovers the issuer
certificate in the record buffer, so DDA after it, the order `emvtool` uses,
refuses every card; only reading the records again helps (the trace: SDA succeeds, its
hash matched, then DDA with the same key and without a fault is refused). `emv_pin`: a VERIFY
that fails to be exchanged runs into the assertion of `xfr_rx_sw1`.

**Finding in the field (`rfid_power_on`).** `_iso14443a_anticol` zeroes its own
argument, `memset(&tag, 0, sizeof(tag))` on a pointer, and writes through it: the
process stops in the first selection of every `cci_power_on` whose register
accesses all succeed.

## Proofs

`CcidProofs` proves for all values of the constants:

* `TypeCorrect`: `Spec => []TypeOK`.
* `Invariance`: `Spec => []IInv`, the inductive invariant. `WindowSafe` is not
  inductive: it needs that a message on a pipe carries the number of its
  command modulo `SeqMod` (`Numbering`), so that the driver's comparison with
  `d_seq` says "the same number modulo `SeqMod`", that is the same or at least
  `SeqMod` apart (lemmas `EqualMod`, `MultiplesApart`). That an executed
  command is never executed again, and that a success belongs to an executed
  command, needs the order of the commands on the pipe and their age relative
  to the executed ones (`Ordering`). The assertions need that the answer to the
  current command has its type (`Typing`).
* `Matching`: `Spec => []WindowSafe`; `Assertions`:
  `Spec => []AbortOnlyAfterWrap`; `Refinement`: `Spec => ImplementsChannel`,
  by a step lemma that maps each action to a step of `CommandChannel` or to a
  stutter.

Its second part proves `InSync`, `CacheCurrent`, `KnownStatus` and
`NoFalseBusError` for all values of the constants. The inductive invariant is
`SInv` (`Synchrony`), which adds to `IInv`:

* `Single`: while the link is not broken, outside a receive the pipes are empty;
  in one they hold the current command, or the time extensions asked for it and
  last its final answer. A stray message is then impossible, hence no false bus
  error, and a call that ends with the final answer leaves the pipes empty.
* `Cached`: the cache of a slot is its card's state, or the answer that will make
  it so is on its way. An extension writes the cache too; it carries the state
  the card had when it was sent, and a card moved since then is one the
  invariant claims nothing of until the next answer (`basis`).
  An escape's answer, or one with the reserved status, may not tell it (`basis`).
* `Fresh`: while the probe runs no answer says that a card is active, so that only
  what `calloc` left does.
* `Asked`, `Probed`, `Polls`: a slot below the one the probe is at was answered
  for, so a probe that succeeds has an answer for every slot.
  This needs no sound link: the only way past a slot is a success for it.

`EmvProofs` proves `SessionType`, `SessionKeys`, `SessionDda` and `SessionBoth`,
the invariants of run `emv`, for every set of applications and profiles. They
are inductive together and need no strengthening: `KeysVerified` follows from
what recovering a certificate in place does (`RecoveredOnce`, `IssuerKey`), and
`DdaProven` survives an SDA because `DdaImpliesSda` makes it return at once
(`SdaStep`). The assumptions are that `None`, `Pse` and the applications
differ, and that profiles have the fields of `Profile`.

`MpoolProofs` proves `PoolInside`, `PoolGrows` and `PoolRefines`. The invariant
`PInv` adds to the types that objects lie below `next_obj` (`Placed`), that
an object is at most once on the free list and not in use meanwhile
(`Distinct`), that every object ever cut is in use or on the free list
(`Handed`, needed for `PoolGrows`) and that the history count is the number of
objects in use (`Counted`). The rest is arithmetic: objects with different
indices share no byte (`OffsetsApart`), and `mpool_new` leaves room for one
object whatever it is asked for (`FirstFits`, from `Quotient`). `GangProofs`
proves `GangInside` and `GangRefines` from the one fact that everything in the
newest slab ends at or before `g_ptr` (`Below`). `MpoolProofs` takes both over to
the specification that run `alloc` checks, of a pool and a gang side by side:
`BothTypes`, `BothGangInside`, `BothGangRefines`, since a step of the one is a
stutter of the other (`PoolHalf`, `GangHalf`).

`TclProofs` proves every property of `Tcl` that run `contactless` checks, for all
frame sizes, lengths and numbers of calls. `TInv` has, besides the types: who may be transmitting
(`Calling`); that the parity of lost blocks is what separates the two numbers,
whichever way a block is going (`Numbers`); that the reader's place in the
answer is the card's (`Answers`), and the card's place in the command the
reader's (`Commands`, for a chain that began clean); and that a late frame meets only
the first frame of a call, and ends that call if it began in step (`Busy`, `Stale`). The byte arithmetic is in
`UnitsConcat` and `UnitsAppend`; `ReplyStep` says what frame the card goes on
with, `Replied` that the invariant follows. It also shows what no test reaches:
the card is never asked to repeat a block (`CardAcknowledgedStep`).

`SimProofs` proves every property of run `sim`, for any number of records and
calls. The safety properties are inductive together with one more fact, `NewPath`: how
the card got to where it stands in each step of `sim_new`, as long as it is in: it
never stands in EF_SMS, in the IMSI's file only after the read of the ICCID, and from
then on in the ICCID's only as long as no select has succeeded. `Labelled`
follows from it (`SimLabelled`): `read_imsi` looks at no result of the selects before it,
but any of them that succeeded has taken the card out of the ICCID's file.
`SelectedKeeps` is the step that matters; a select that fails (`SelectFails`) leaves
all to `lost`.

The assumptions of `CcidProofs` are those named in `Ccid`: a slot count from 1 to 16
(the entries of `d_slot`; `Device` has the readers that claim more), positive modulus,
try count and pipe capacities. `ImplementsChannel` has no fairness, so the
refinement is safety only. Liveness (`CallReturns`, `WaitReturns` of
`ccid_slots`) is model-checked, not proved: liveness and `ENABLED` are out of the
prover's reach.

`RfidProofs` proves every property of `Rfid` that run `contactless` checks, for any
kinds of tags, speeds and numbers of calls, about `BothSpec` itself
(`ContactlessRefines`; `ContactlessBlocks` takes what `TclProofs` has of the other
half over to it). The invariant is `FieldInv`:

* `FieldInStep` is not inductive: a slot has its protocol from the end of one
  selection until the end of the accesses of the next, and what is in between is
  `Places`: a frame of a selection finds no protocol, an access of a power-on a
  tag that counts as moved, and from the ATS on the tag is in the protocol and
  the field on. A lost block moves no tag; a `cci_power_off` leaves the field on
  (`OffStep`, `AccessFailsStep`): were `rf_power` not swapped, the proof would
  fail there, and so would the property.
* `Afresh` is for `GenuineSelected`: while nothing is lost, each access of
  `cci_power_on` undoes one thing earlier calls may have left: the field goes off
  and with it the tag's state and speed, the FIFO is emptied, the field comes on,
  the rate is 106K; each frame then finds the tag where it has to be to hear it
  (`OnStep`, `GoesOn`). `ContactlessSelected` has no hypothesis:
  with `TagReset = "pointer"`, the source as it is, it says that such a power-on
  stops the process, and `PointerSelectsNothing` that no slot ever gets a protocol and
  no frame is ever sent (run `rfid_power_on` shows it on the source).
* The timer (`TimerFits`) is arithmetic over the real constants: 13.56 MHz, the
  prescalers, 302 microseconds times a power of two. `BestOf` says that
  `best_prescaler` finds the least rest; that it has anything to choose from
  is `LeastExists`. `LongTimer` covers every time the code sets,
  `ShortTimer` and `NoTimer` the FWI for which it expires at once.

`BindingsProofs` proves every property of run `bindings`, for any devices, whatever
their descriptors, and any number of objects. None is inductive by itself; the
invariant `BInv` is one of counting:

* `Sound`: the count of an object is at least the number of objects it owns, plus
  one if the program has it. So an object whose count drops to zero owns nothing,
  and freeing it leaves no object behind that points at it; hence
  `SessionOutlives` and `InterfaceOpen`.
* `Tells`: the mark of an application that was not taken out of its list is the truth
  about its memory, and one that is not marked is in the list still, where
  `dirty_applist` will find it; hence `MarkTellsFreed` (`TakeOutStep`, `AppselPseStep`).
* `RefsKept`: libusb's count for a device is at least the lists it is in, the
  readers open on it and the device objects without a list, so a device object
  is never without a reference (`DeviceReferenced`).
* `Readers`, `Pointers`, `Currents`: what the fields of an open reader make its close
  release is what it holds, but for `stdout` on the one side and the tables of rates
  and clocks on the other, its slots and fields are as many as the probe found, and what an
  object points at is there.

The counting lemmas are about cardinalities of finite sets, so the proofs assume
that there are finitely many objects at a time (`IsFiniteSet(Handles)`) and that
a device is a record of descriptors (`Devices \subseteq Device`); both are in
`DeviceAssumption`. A method goes through several values of the objects, so the
parts of the invariant take these as a parameter, and there is one lemma for
each of the helpers (`With`, `Decref`, `Dropped`) before those for the methods.

Every invariant and every safety property that a passing run checks is thus a
theorem. Only model-checked are the two liveness properties, `CallReturns` and
`WaitReturns` of `ccid_slots`. Library theorems with an operator parameter are
out of reach too; the one place that needs a least element of a set of numbers
(`LeastExists`) takes it from the well-foundedness of `<`.

## Not modelled

* `xfr.c`: reset, append and read-back of one buffer. What could go wrong in it is
  a length left over from an earlier command (`xfr.c:64`), and its effect is
  what a reader does with surplus bytes.
* `ber.c`, `ber_decode.c`, the decoding of messages in `sim_sms.c`, the tables of
  `emv_err.c` and `util.c`: functions of byte strings, without state.
* `proto_mfc.c` and the MIFARE keys of `clrc632.c`: called by nothing, their
  one call site is compiled out.
* The tools and scripts: users of the interface; the models let a user make any
  call at any time.
* In modelled parts: `PROJECT.json` has a note for each component.
