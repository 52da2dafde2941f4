# Keynjector, specified

Keynjector is a key store the size of a matchbox. It reads an OpenPGP file
(`keys.gpg`) from an SD card, decrypts it with a passphrase, shows the names of the
keys on a touch screen behind a PIN, and types the value of the key that is held down
into a host, as a USB keyboard. The firmware is C on a SAM4S, without an operating
system: `src/sw/keynjector/keynjector/src` (called `fw/` below).

This directory holds TLA+ specifications of the firmware's own logic, TLC
configurations that check them on small instances, and TLAPS proofs of their main
properties for every value of the constants.

    tlc -config Keynjector_safety.cfg MCKeynjector.tla     # a run
    tlapm KeynjectorProofs.tla                             # a proof

`PROJECT.json` lists the runs, what each definition models (`map`), the places where
the code is hard to get right (`hazards`) and the disagreements found (`findings`).

## 1. The system

Three threads of control share one address space:

- the **main loop** (`main` in `fw/main.c`), which walks through the calibration and
  then polls the SD slot, waiting in busy loops;
- **SysTick**, every millisecond, at the lowest interrupt priority: every 10 ms
  `rtouch_process` samples the touch panel and calls the handler of the shown view,
  every 50 ms `lcd_timer_tick` animates that view. Nearly all of the program runs in
  here: a click on OK decrypts the file or writes the flash, and the end of an
  animation calls `set_next_view`, which may do both;
- the **pen interrupt**, at the highest priority, which starts a debounce.

No variable is protected by a lock or by masking interrupts.

| Component | State | Operations | Interacts with | What is hard | What makes it correct |
|---|---|---|---|---|---|
| control core, `main.c` | `g_state` and its flash image, PIN and file flags, `items`, `sd_card_inserted` | `set_next_view`, `lcd_passphrase_ok`, `lcd_pin_ok`, `lcd_command_complete`, the main loop | called back by the views, polls the card driver, writes the flash | SysTick interrupts the main loop anywhere; flags that outlive a card; power cuts | the list is shown to those who know passphrase and PIN only; a lock-out lasts; a card change is never missed |
| views and animations, `ui.c` | current view, command and timer of each view | `lcd_set_view`, `lcd_start_command`, `lcd_timer_tick` | started by both threads | a command stored for a view that has gone | every pending command ends |
| text entry, `ui.c` | passphrase, two PIN buffers, their lengths, an index | the buttons of the two views | shares its buffers with `main.c` | an index and lengths kept apart from the texts | edits change the end of the text; strings stay terminated |
| list box and buttons, `ui.c` | capture, highlight, scroll position, selection, long press timer | press, move, release, tick | fed by the touch driver | views change under the pen | what is highlighted holds the pen; the item typed is the item touched |
| key file scan, `ui.c` | `items`, `n_items` | validate, draw, type | reads `decrypt_file`'s text | three scans of one text | they read the same lines |
| touch driver, `rtouch.c`, `ads7843.c` | pen state, two time stamps, last position | pen interrupt, `rtouch_process`, calibration | events to the views | an interrupt within an interrupt; bounces | the pen state becomes that of the pen |
| SD driver, `sd_mmc.c` | slot state | `sd_mmc_check` | called by both threads | re-entered by SysTick | initialises a card once its contacts are steady |
| OpenPGP decoder, `opgp.c`, `stream.c`, `ff_stream.c` | a stack of streams, a chain of keys | `mpgp_open`, `mpgp_sread`, `mpgp_sclose` | called by `decrypt_file` | who frees what on which error; what one packet leaves behind for the next | every object is freed once; a readable file is listed; every byte is handed out once and in order |
| CFB and CAST5, `cast128.c` | feedback register, position in it | `cast128_cfb_decrypt`, `cast128_cfb_reinit` | the decoder's decrypting stream | reads that do not end on blocks | the split of the reads does not matter |
| SHA-1, `sha1.c` | chunk buffer, length | `sha1_init`, `sha1_update`, `sha1_finish` | `compute_key`, the flash image's digest | pieces that meet the end of a chunk; the padding's own chunk | the split of the message does not matter |
| inflate, `tinfl.c` | decompressor state | `tinfl_decompress` | the decoder's top stream | - | vendored (miniz) |
| keyboard, `send_keys.c`, `udi_hid_kbd.c` | the report, `report_valid`, `report_trans_ongoing` | `send_keys`, `udi_hid_kbd_down`/`up`, modifiers, the sent callback | called from SysTick by the list; calls the endpoint | reports that are held back while one is under way, merged or lost | each character is typed once, in order and in case |
| interrupt endpoint, `udp_device.c`, `udc.c` | job, banks, endpoint registers | run, interrupt, abort, halt, configure | called by the keyboard and by host requests; the host polls | a callback into the code that started the job; the count of two banks | keyboard and endpoint agree on whether a job is under way |
| median, `qsort.c` | - | `qsort` on the calibration samples | `get_calib_point` | recursion, equal keys | sorted permutation |
| LCD, `lcd.c` | - | drawing | called by the views | - | pure output |
| flash, FatFs, USB control endpoint, clocks (Atmel ASF) | - | - | the environment of the above | - | vendored |
| `keynjector_ui/ui.cpp` | - | a desktop copy of the views | none | - | a design aid |

## 2. The modules

    Screen            what the core promises the views
    Keynjector        control core, animations, card slot, environment; refines Screen
      MCKeynjector      values for TLC                  (4 configurations)
      KeynjectorProofs  five invariants, the lock-out, the refinement  (TLAPS)
    Ui                touch driver, capture, buttons, key list, fades; on Screen
      MCUi              a screen for TLC                (3 configurations)
      UiProofs          its five safety properties      (TLAPS)
    EditedText        what editing a text means
    TextEntry         the buffers of ui.c; refines EditedText
      MCTextEntry       a character wheel for TLC       (1 configuration)
      TextEntryProofs   types, wheel, the refinement    (TLAPS)
    KeyList           the scans of the key file         (1 configuration)
      KeyListProofs     its three invariants            (TLAPS)
    Typist            what a keyboard promises its host
    Keyboard          send_keys, report, endpoint, host; refines Typist
      MCKeyboard        texts for TLC                   (1 configuration)
      KeyboardProofs    the refinement, six invariants  (TLAPS)
    OpenPgp           the decoder's objects and packets
      MCOpenPgp         packets and a malloc for TLC    (1 configuration)
      OpenPgpProofs     its seven properties            (TLAPS)
    ByteSource        what a stream promises its reader
    S2k               compute_key and the hash's buffer
      S2kProofs         what is hashed                  (TLAPS)
    Cfb               the feedback register of the cipher
    Streams           the stacked streams, on S2k and Cfb; refines ByteSource
      MCStreams         compressed packets for TLC      (1 configuration)
      StreamsProofs     the refinement                  (TLAPS)

`Keynjector` and `Ui` are two views of one device that meet at `set_next_view`: in
`Ui` a fade-out may begin at any time and ends in any view that may follow, and in
`Keynjector` a touch is any click that the shown view takes. Which views may follow, and
with which list, is a specification of its own: `Screen`, which `Keynjector` refines and
whose `ShowNext` is the end of a fade-out in `Ui`. `Keynjector` takes from the decoder one
Boolean per access to the card; `OpenPgp` is that access, packet by packet, and `Streams`
is what a read within it does, byte by byte. `Keyboard` begins where `Ui` ends, at the
long press.

### Keynjector: the control core

One variable per C variable, with these exceptions. `g` is `g_state`, `nv` its image in
flash (`Corrupt` when the digest does not match). The four messages of `VIEW_TITLE` are
four views. Texts are members of a small set, PINs are sequences of digits. `items`
names the card whose list it points to; `lbxItems` says whether the list box points to
that list, to a freed one or to nothing. `pc`, `starting` and `delay` are the main
loop's position, the arguments of the `lcd_start_command` that it is in and the rest of
its debounce delay. `card` and `slot` are the slot and the driver's state for it.

- *SysTick* is one atomic step per event, since what preempts it, the pen interrupt,
  shares no variable with it here:
  `Tick` (an animation's tick, and at its end the whole of `lcd_command_complete`,
  `set_next_view` included, one operator per `return`) and `Touch` (a click, with the
  whole of its handler).
- *The main loop* is cut wherever SysTick may change what it uses next: `Poll`,
  `Debounced`, `CardInitialised` and `Compare` for the poll of the slot, and `LoadView`,
  `SetCommand`, `SetTimer` for `lcd_start_command`, which reads the current view, stores
  a command and stores a timer.
- *The environment* inserts and removes cards, resets, and cuts the power, also within a
  flash write (`PowerCycleInWrite` leaves `Corrupt`).

Abstractions. The file system and the decoder are one Boolean result per access
(`IoResults`): right passphrase, right card and no failure decrypt. The animation's
tick is followed `TIMER_SLACK` below 0, since the main loop can store a command for a
timer that has run out. `InsertCard` requires that the main loop has seen the slot
empty: a hand is slower than a poll, which follows the previous one at once, except
during the calibration. The watchdog, USB enumeration and `malloc` failures are left
out. A PIN's length is not kept apart from it here; where that matters is the business
of `TextEntry`, and no property of `Keynjector` depends on it, since the PIN view is
left before the next comparison.

### Screen

Two variables: the view, with all titles, the logo and the calibration as one, since none
of them has a control, and the list that the list box holds, if any. `ShowNext` is
`set_next_view`: from the key view only the key view and the titles follow, and the
PIN and the key view keep the list they were shown with. `FreeList` is another passphrase
for a file that had been read, `Reset` a reset. The map from `Keynjector` names lists by
their cards (`UiList`), and a list box that points to a freed list holds none. `Ui` uses
`ShowNext` with the list's length for the list: what the others do to the list box shows
only when a view with a list comes, which may be any list then.

### Ui: pen, views, list

`rtouch_process` is two steps, `Sample` (time stamp, position, move event) and
`Determine` (pen state, press and release events). The pen interrupt (`Contact`,
`Lift`) may come between them, and *within* each of them, between the reading of the
pin and its use (`Interrupted`). Bound: at most one edge there, some instructions long.
Time stamps are ages, followed to `DEBOUNCE_TIME + 1`, the only value they are compared
with. The screen is its vertical axis and a table `At` of what each view shows where;
list and buttons have their handlers from `ui.c`. The relative rate of the 10 ms and the
50 ms tick is left open, the order of the two is not: a view's tick comes between two
runs of `rtouch_process`.

### TextEntry and EditedText

`TextEntry` has the arrays, with NUL, and the variables that `ui.c` keeps beside them.
`EditedText` says what is promised: a passphrase that is extended, shortened and turned
at its end, never empty and never longer than its buffer, and PINs that are typed and
erased at their ends. The refinement maps arrays to the strings in them. The promise for
a PIN ends (`lost`) where the code breaks it: OK pressed again while the view fades out
after a lock-out copies a PIN over the one that is being edited and leaves `pin_len`.
The strings stay terminated even so.

### KeyList

Characters are classes, all the scans look at. The text is read one character at a time,
so that every text up to `MaxLength` is met, and `SetKeys` is `lcd_set_keys`. The
reference is a grammar (`IsLine`, `Cuts`) that does not mention the scans. Names and
values are cut to `LBX_BUF_LEN` as in the code; `BufferAssumption` says that this is no
less than what `decrypt_file` reads (both are 1024: `ui.c:1099`, `main.c:207`).

### Keyboard and Typist

`dev` is the keyboard's report with its two flags (`valid`, `ongoing`), the endpoint's
job (`busy`, `left`, `bufEnd`) and its registers and FIFO; `bus` is the state of the
device. `send_keys` is one action per call that it makes, each of which the code makes
with interrupts off (`ModifierDown`, `Down`, `Up`, `ModifierUp`); in between the USB
interrupt (`AllSent`, `NextBank`, `LoadAndSend`, `HaltSent`), the host's polls and its
requests (`SetConfiguration`, `SetInterface`, `SetHalt`, `ClearHalt`, `Unconfigure`,
`BusReset`) come in any order. A callback runs inside the action that makes it, and may
start the next job in there, as in the code. A host is `prompt` when it polls as often
as the endpoint's interval says, so that each call's report is taken before the next.
Each report has the number of the last key struck (`no`), which is history.
`Typist` promises less than a user would like, and what can be promised to any host: of
the keys struck some are typed, each once and in their order. `TypedExactly` is what a
prompt host gets when nothing is dropped. Left out: the LED report, whose callback is
empty, suspend, and the control endpoint's own transfers, each of which is one step.

### OpenPgp

One step per packet of `mpgp_open_r`, which calls itself for a packet that holds
packets, with every exit at which it gives up; then `decrypt_file`'s read of the list
into its buffer, with the terminator that may lie behind it (`overrun`) and with a card that
may fail under it, which `decrypt_file` does not ask for (`torn`). `heap` says what each
block is used for, `stack` and `chain` who holds it. An allocation fails when `Malloc` has
nothing to give, and may fail because the heap is small. `length` is what the code's
`*length` holds: nothing, this packet's length, or that of a packet before, since a header
without a length leaves it alone; `ends` is what that means for the streams above. A
packet's fields are abstracted to what is done about them: refused, damaged, whose
passphrase, how much text. A key may pass the check by chance (`chance`), as two bytes of
65536 do.

### Streams, S2k, Cfb and ByteSource

`Streams` stacks the file, at most one decrypting, one inflating and one literal stream,
in this order, the order in which OpenPGP nests them; opening
failures are the business of `OpenPgp`. A byte is its place. The cipher and the hash are
symbolic: a decrypted byte is the ciphertext byte, the block it is combined with and the
offset in it (`Clear`), a hash is the row of bytes it has processed. So the model shows
where a byte goes, and whether it is right, not what its value is. Inflate is known by
how much it takes and gives (`Inflated`): `yield[i]` says how much comes of the first
`i` bytes. `ReadThrough` is a read without the inflating stream, `ReadInflated` and
`Inflate` are `z_sread` before its loop and a turn of it. `Pass`, `Rest`, `FinishHash`
are the calls that `compute_key` makes. `ByteSource` has a row of places, the place of
the next byte and the last place: opening a stream changes the row, a read hands out what
is next. It falls short only at the end or when the medium has failed, which includes
that `z_sread` can keep no more than `Z_OUT_BUF` bytes of one packet: it then goes on with
the wrong buffer (`opgp.c:302`), which the model has (`lost`) and the promise excepts. The
medium may fail with FatFs's error flag set, or before the first byte without it
(`Unready`, when the card is not ready); `failed` in the file's record is the history of
both. The row of an encrypted packet is the one the code delimits: `mpgp_encr_sopen` takes
`BLOCK + 2` bytes of the packet for the prefix and then gives the stream the whole packet's
length (`opgp.c:194`, `207`), so the row ends that far behind the packet, if the file goes
on there. `CheckKey` says so, and what is shown is that the bytes of *this* row are read.

## 3. What is checked

Runs that pass (states found by TLC):

| Run | Configuration | States | Shows |
|---|---|---|---|
| `core_safety` | `Keynjector_safety` | 2 345 684 | five invariants and the lock-out under every interleaving of main loop, SysTick, user, cards, file accesses that fail, resets and power cuts; the core implements `Screen` |
| `core_live` | `Keynjector_live` | 341 246 | a card that stays in or out is shown in the end, also when file accesses fail |
| `ui_safety` | `Ui_safety` | 6 598 548 | capture, highlight, selection and scrolling through every order of touches, bounces, ticks and view changes |
| `ui_live` | `Ui_live` | 676 584 | when the pen rests, debounces end and held items are typed or let go |
| `text_edit` | `TextEntry_edit` | 88 982 | the text buffers implement `EditedText` |
| `key_list` | `KeyList` | 97 987 | the three scans agree with the grammar on every text of up to seven characters |
| `typing` | `Keyboard_typing` | 291 912 | what the host types, through every order of `send_keys`, interrupts, polls and requests; the keyboard implements `Typist` |
| `decode` | `OpenPgp_decode` | 1 717 174 | attempt after attempt to read files of up to four packets, with allocations and reads that fail anywhere |
| `reading` | `Streams_read` | 3 802 463 | the stacked streams implement `ByteSource` however they are read, and the key is made of the right bytes |

The properties, by the hazard they are aimed at:

- *The lock.* `KeyViewUnlocked`: the key view is shown only with the file decrypted, a
  list that has not been freed, and the PIN in force entered, whatever the flags had
  been left at. `LockoutDurable`, about steps: the last wrong PIN locks the device
  (`Locked`: no passphrase in memory or in flash, no list) at once; the lock survives
  the OKs during the fade, the titles, cards and power cuts, and is lifted only by OK in the
  passphrase view. That OK sets `passphrase_set` before the passphrase is tried
  (`main.c:472`), so in memory a wrong one counts too; but no passphrase gets to the
  flash before a file has been decrypted. `FlashConsistent`: what a power cut can leave in
  the flash.
- *Two threads, one command.* `CommandFitsView`: a pending command is one that the shown
  view's tick ends. `CardChangePending`: a change of the card that is not shown has a
  fade-out on its way. `RemovalShown`, `InsertionShown`: and it arrives.
- *Two modules, one list.* `ImplementsScreen`: the flags `decrypt_attempted` and
  `decrypt_ok` let no fade-out of the PIN or the key view read a file again, so the list
  that the list box points into is neither freed nor exchanged under it.
- *What the pen holds.* `HighlightCaptured`, `SelectedTimed`, `HeldItemTyped`: highlight,
  capture and timer do not come apart. `SelectedUnderPress`: the hit test and the
  renderer, which compute rows separately, agree. `ScrollStaysInRange`: three places
  clamp the scroll position in three ways. `DebounceEnds`.
- *Texts.* `ImplementsEditedText`, `WheelShowsLast`; `CountsLines`, `ScansAgree`,
  `StaleItemTypesNothing`: a selection left from a longer list types nothing if it lies
  behind the end of this one. One that does not lie there is typed, see `ui_long_press`.
- *Reports that overtake each other.* `TypedInOrder` (the refinement of `Typist`),
  `TypedExactly`, `TypedInCase`: no report that is held back, merged or dropped makes the
  host type what was not struck. `JobsAgree` and `TransfersEnd`: no reset or halt leaves
  the keyboard waiting for a callback. `ReleasedAtRest`: no key is left held down.
  `BanksCounted`: the two bits of the bank count tell the packets in the FIFO.
- *Who owns what.* `FreedOnce`, `NothingLeaks`, `FileClosed`: at every exit of the
  decoder, with every allocation failing, all is freed once; `FreedOnce` and
  `NothingLeaks` except since the list's own buffer could not be allocated (`main.c:229`,
  which leaves `items` dangling and the streams open), and `FileClosed` except when an
  allocation failed. `RefusedKeepsList`: a failed attempt leaves the list in use alone.
- *What is read.* `ListedIfReadable`: what is listed is readable with the passphrase, and
  a file that is refused is not, memory not lacking. `ListWhole`: the list is the whole
  text, as far as the buffer goes, unless the card fails under it. Both except, by
  `OwnLengths`, the files in which a stream is opened with a length that is not its
  packet's: `mpgp_open_r` ignores `have_length` (`opgp.c:526`, `676`), so that an encrypted
  packet without a length gets that of a session key packet before it, or none. Such a
  file can be refused, and its text cut short, by the code and in the model alike; the
  properties show that every other file is safe, in particular that no length gets into
  the call that reads what is inside a packet. The terminator (`main.c:231`) is written
  behind the buffer when the text is as long as that or longer (`overrun`); `ListWhole`
  says that it is for no other text. `ImplementsByteSource`: on the rows that the code
  delimits, no split of the reading loses, doubles or moves a byte. `KeyHashed`: no split
  of the key's material does.

`TypeOK` of each module bounds what could outgrow a buffer (PINs with their NUL, lengths,
the scroll position, the text of the list, the inflated bytes). Every property of a
passing run is violated by a mutant of the code that `PROJECT.json` names: a dropped
guard, a swapped order, a missing reset.

### Bounds

- *Core.* `core_safety`: two cards, one with a list that `lcd_set_keys` accepts and one
  without; file accesses that fail at any moment, so that a passphrase is right or wrong
  as they please, and one will do; PINs of at most one digit, enough
  for a right, a wrong and an empty PIN and for a full buffer; one tick per animation
  and debounce, the shortest, so that everything can race with everything. `core_live`:
  animations of two ticks and a debounce longer than an animation, an unusable card and
  one without the file, two passphrases, file accesses that fail as well, PINs empty.
  `TIMER_SLACK = 1`.
- *Ui.* A list of two rows above the two scroll buttons; three positions, one of which
  is the list, so that drags within and beyond an item's tolerance occur; lists of none
  and of two items, the second of which scrolls; a debounce of two samples; a long press
  of two ticks. `ui_live` leaves one position out.
- *TextEntry.* Three characters (the wheel turns through both ends), passphrases and PINs
  of up to three, two digits.
- *KeyList.* Seven characters make two complete entries, and an incomplete one behind a
  complete one. `BUF_LEN = 7` lets a value just fit, as 1024 does for a text of 1024.
- *Keyboard.* Two keys and an unmapped character, shifted or not, texts of up to two
  characters in all, so that a key can be repeated, changed with and without a change of
  case, and skipped; one reset, halt or repeated configuration at any moment.
- *OpenPgp.* Seven blocks, fewer than the longest stack, chain and two lists need, so that every
  allocation can be the one that fails, under a first-fit `malloc`; four packets, enough
  for two session keys, an encrypted and a literal packet, or for each container in the
  other; two passphrases; a buffer of two for texts of one and three.
- *Streams.* Cipher blocks of 3, files that end in the prefix, in a block, on a block and
  behind it, packets that are empty, end on a block or run into the file's end; inflate
  with 2 bytes in and 4 out, one packet that gives more than that; reads of one byte, of a
  block and of more than any packet (1, 3, 7), and a card that fails once or for good. A
  chunk of 5 with 2 bytes of length, a salt of 2 and passphrases of 0, 1 and 4 with counts
  from 0 to 14 let the pieces and the padding meet the chunk's end everywhere.

### Fairness

`Keynjector`'s `FairSpec` is weak fairness of `Tick` and of the main loop's steps: the
SysTick timer is never stopped, and the main loop has no blocking call but
`rtouch_wait_released`, which is excluded (it waits for the user). `RemovalShown` and
`InsertionShown` suppose that the user eventually leaves the device alone, since each OK
restarts a fade-out. `Ui`'s is weak fairness of `rtouch_process` and strong fairness of
the view's tick: the tick is disabled while `rtouch_process` runs, and comes at every
fifth of its ends. Its liveness properties suppose that the pen comes to rest.
`Keyboard`'s `FairSpec` is weak fairness of `send_keys`, which waits for the time only,
of the USB interrupt, and of a host that goes on polling, enumerates a device it has
reset and clears a halt that it has set; no fault has to come, and none comes for ever
(`MAX_EVENTS`).

### Disagreements with the code

Each is a run that TLC ends with a counterexample; the text that the code disagrees with
is quoted in `PROJECT.json`.

| Run | Property | What happens |
|---|---|---|
| `pin_saved` | `AssignedPinSaved` | the PIN view edits `g_state.pin` itself and goes on after it was saved, while it fades out: the PIN in flash is not the PIN in force |
| `card_swap` | `ListFromCard` | each OK restarts the 500 ms fade-out, so the flags of a removed card survive until the next one is in, and the old list is shown for it |
| `ui_long_press` | `LongPressWhileHeld` | a selection survives its view: the next time a list is shown an item is typed with nobody touching the panel |

Three more behaviours that the models have are surprising and contradict no text that
decides them. SysTick's card check initialises the card within the main loop's debounce
delay (`sd_mmc.c:1350`). Slow slides are never reported as moves, so that a pen which has
left a button still clicks it (`rtouch.c:357`). An edge of the pen that interrupts
`rtouch_process` between its reading of the pin and its test of the state is lost until
the next edge. They are hazards in `PROJECT.json`, not findings.

## 4. What is proved

All theorems hold for every value of the constants that satisfies the assumptions
named in the modules (finite or not: no set is assumed finite), and are checked by
`tlapm` to the last leaf.

*KeynjectorProofs*: `TypeCorrect`, and

- `KeyViewAlwaysUnlocked`, inductive relative to `TypeOK`: the only step that shows the
  key view passes `verify_pin` in the same step, and every step that changes what this
  rests on leaves the view.
- `LockoutAlwaysDurable`, an action property. The OKs of the PIN view that fades out need
  the invariant `PinViewLocked`: while that view is shown without a decrypted file there
  is no passphrase in memory or in flash, so the PIN that such an OK writes saves none.
  The write at the end of the calibration needs that none is set by then
  (`CalibrationInv`).
- `CommandAlwaysFits`, `CardChangeAlwaysPending`, `FlashAlwaysConsistent`: none is
  inductive. The main loop's `lcd_start_command` stores a command for the view it read two
  steps ago. `IInv` says why that is safe. `ScreenInv` relates what the main loop has read
  to what is shown now: it starts a calibration's animation only while the calibration
  waits for a point to be touched, when nothing else changes the view, and a fade-out only
  once the calibration is over, after which a view it has read is not replaced by the
  calibration. `CardInv` says that the one fade-out that can be lost, read for the
  calibration's view and stored for another, is not needed: the view that came since has
  seen the card. `CalibrationInv` says that until the calibration is over only the logo
  and the calibration are shown and no passphrase is set, so that the write that ends it
  saves none, and that a finished calibration leaves its view.
- `KeynjectorImplementsScreen`. The refinement rests on what `set_next_view` does not
  look at: from the PIN and the key view it must find the file tried and the list in
  place. `ListInv` says so: a file that is decrypted has been tried, and while one of the
  two views is shown with a decrypted file its list is in the list box and well formed.
  Without a decrypted file the PIN view is that of a lock-out, and `PinViewLocked` says
  that there is no passphrase to try. `KeyViewUnlocked` says why the key view is not
  followed by the PIN view: the PIN compared before is compared with itself. So three
  theorems about the lock and the list give the one about the views.

*UiProofs*: `UiTypeCorrect`, `HighlightAlwaysCaptured`, `SelectedAlwaysTimed`,
`SelectedAlwaysUnderPress`, `ScrollAlwaysStaysInRange`. Every handler is one of the
disjuncts of `TouchHandler`; the capture needs the strengthening that the list captures
the pen in the key view only (`CaptureInv`); hit test and scrolling rest on the bounds of
an integer division.

*KeyboardProofs*: `TypeCorrect`; `JobsAlwaysAgree`, where a callback that starts a job
inside the end of another is the interesting case (`Together`); and `ImplementsTypist`:
every step of the keyboard, its endpoint and the host is a step of `Typist` or a stutter.
The invariant (`Ordered`) says that the reports on their way, from the last one the host
took through the FIFO and the job to the report being edited, are in the order of their
numbers, and that a report names a key only if it is the one struck last by then.
`AlwaysTypedInCase` adds that the reports on their way are always some of those that were
(`From`), each with the shift of the character whose key it holds (`Cased`).
`AlwaysReleasedAtRest` follows the last of them: until a report is lost it shows what the
keyboard holds, unless that is held back (`NoMore`), and a job whose data is not written
is busy (`Job`), so that at rest the host has taken it. `BanksAlwaysCounted` needs more
than it states (`Banked`): a packet in the FIFO is always announced or taken and never
both, and while an interrupt is served its packet still counts as taken, so that a job
started by the callback touches no register. `AlwaysTypedExactly` is about a host that
polls in time (`prompt`). There the delays leave at most one report under way, and its
place says what is still to be typed (`Exact`): nothing when the endpoint is idle or its
packet was taken and not acknowledged, the key of the report while it is in the FIFO. A
request that loses nothing finds the endpoint idle and leaves it so (`Spares`); without
the delays two reports could be under way, and the second would replace a third.

*OpenPgpProofs*: `OpenPgpTypeCorrect`, `AlwaysFreedOnce`, `NothingEverLeaks`,
`FileAlwaysClosed`, `RefusedAlwaysKeepsList`, `AlwaysListedIfReadable`, `ListAlwaysWhole`,
for every heap, every `malloc`, every set of packets and files of any length, with the
exceptions that the properties name (`starved`, `OwnLengths`, `torn`, chance). The
invariant says that the blocks in use are exactly those of the stack, the chain and the
list, each once, and what the packets read so far have made of `length` and `ends`.

*S2kProofs*: `KeyAlwaysHashed`. The bytes that a context holds are those it has processed
and those of its buffer that count (`Held`); `UpdateAppends` says that `sha1_update`
appends to them, whatever the fill and the piece. `S2kInv` says that what is held is a
beginning of the message after every pass, so that the rest and the padding complete it,
for every chunk, salt, passphrase and count.

*StreamsProofs*: `StreamsTypeCorrect`, `StreamsKeyHashed` and
`StreamsImplementByteSource`, for every block, buffer, file, packet and read size, on the
rows and with the exception that section 2 names. The
invariant has three parts, one for each way a byte could be lost. The feedback register
holds the ciphertext of the block that the file's position is in, and behind it that of
the block before (`CfbInv`), so that `DecryptedPlain` and `CfbStep` follow: a read in the
middle of a block decrypts as one read of all would. What has been inflated is right as
long as what went in was, and what goes in follows what went in before (`ZOK`); the
input can only end early when the packet is cut short. And at every turn of `z_sread`'s
loop, what it has got, what it still wants and what the literal packet has left add up
to what the reader was promised (`CallOK`).

*TextEntryProofs*: `TextEntryTypeCorrect`, `TextEntryWheelShowsLast` and
`TextEntryImplementsEditedText`, for every wheel, every set of digits and every size of
the buffers. The invariant adds to the types that the passphrase holds NUL from
`passphraseLen` on and nowhere before (`Shaped`), and what is known of the lengths and of
`pinCaption` while a view takes clicks. `PutNext`, `PutEnd` and `PutLast` say what writing
one character of a shaped buffer does to its string. A PIN buffer that was replaced under
`pinLen` is not shaped: all that is known of it is its last NUL, from which `Terminates`
concludes, by the principle of the least number, that it holds a string that fits.

*KeyListProofs*: `AlwaysCountsLines`, `AlwaysScansAgree` and
`AlwaysStaleItemTypesNothing`, for texts of every length. The state's invariant is small
(`Shown`: what is shown was validated); the work is in the scans, which are recursive
functions of a position. That there are such functions, and what their equations say, is
proved first (`StartsExist`, `ScanExists`), and every induction is the least
counterexample of a set of numbers (`Least`). An entry that `validate_lbx_entry` accepts
is a line of the grammar, and a line is accepted whole when the text ends behind it or a
name follows (`EntryIsLine`, `LineIsEntry`). So the walk from entry to entry is a cut of
the text when it reaches its end (`EndsAreCut`), every cut follows it (`CutIsEnds`), the
count is its length (`ValidateCounts`) and item *i* is its step *i* (`LineOfEnds`). That a
name or value is never cut short uses `BufferAssumption`, and that neither is the whole
text, so that a buffer of the text's length has room for it and its NUL.

Only model-checked: the liveness properties, since temporal reasoning under fairness is
beyond the prover. Every other property of a passing run is a theorem.

## 5. What is not modelled, and the plan

Left out for good: drawing, the LCD, the vendored libraries below the functions named
above (FatFs, the flash service, the clocks, CMSIS: most of the repository's lines),
hardware and enclosure. The CAST5 block function and the compression function of SHA-1
are arithmetic without state; inflate is vendored, and known by what `z_sread` sees of it.

What is left, in this order:

1. `SdCard`: the commands of `sd_mmc_mci_card_init` on the bus, which SysTick can re-enter
   while the main loop is between two of them (the hazard at `sd_mmc.c:1796`).
2. The control endpoint of `udp_device.c`: setup, data and status stages, and suspend.
3. `Quicksort` and the calibration's median, against a reference definition; the fixed
   point arithmetic of `rtouch_compute_calibration` with its overflow.
4. An abstract access gate (locked, passphrase entered, PIN entered, open) that
   `Keynjector` refines.
