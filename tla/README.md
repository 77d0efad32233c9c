# Specifications of the Pluto-ORI firmware

TLA+ models of the parts of this repository that keep state on the device,
model-checked with TLC and, where marked, proved with TLAPS. Paths are relative
to `src/pluto-buildroot/`; `board/` stands for `board/pluto/`, `apps/` for
`package/lamableu-apps/`, `core/` for `board/overlay/root/luaradio/radio/core/`.

## 1. The system

The repository builds the firmware of an ADALM-PLUTO software radio used as a
DVB transmitter. On the device run a patched USB audio gadget driver, shell
scripts started by init or by events, a flow graph runtime in Lua, and small
applications; there is no central program. What they share is state: configfs, a
USB drive that is an image in RAM, the U-Boot environment, the flash partitions,
a jffs2 partition, the attributes of the radio, and pipes.

| Component | Source | State it keeps | Operations | Hard behaviour |
|---|---|---|---|---|
| USB audio function | `plutosdr_fw_patch/linux/f_uac2.c` | options per configfs instance, file-scope descriptors, interface numbers and alternate settings per function, sound card and streams | attribute store, link, unlink, bind, set_alt, disable, class requests, unbind | descriptors shared by all instances; a bind that fails half-way; values read long after they were written |
| Endpoint sizes | same, `set_ep_max_packet_size` | `wMaxPacketSize` of six shared descriptors | computed at each bind | rounding, u16 |
| Gadget and drive | `board/S23udc`, `board/S45msd`, `board/update.sh` | the configfs tree, `lun.0/file`, mounts of the image | start, stop, restart of both; eject, work, give back | three scripts and the host on one image; scripts run again at any moment |
| Firmware update | `board/update.sh`, `board/update_frm.sh` | flash partitions mtd0, mtd1, mtd3, `/opt/firmware.frm`, `do_reset`, marker files | split, check, dd, fw_setenv, touch, reset | power loss at every step; long `&& ... \|\|` chains |
| Configuration | `board/update.sh`, `S40network`, `S21misc`, `S45msd` | config.txt on the drive, the environment, `/mnt/jffs2/etc/config.txt`, `/opt/config.md5` | edit, eject, process, copy, boot | three copies of the same settings, updated one after the other |
| Suspend handler | `board/udc_handle_suspend.sh` | the saved ENSM mode | suspended, other state | repeated events; programs that set the mode too |
| Automounter | `board/automounter.sh` | directory, mount, LED | add, remove, remove_all | one process per event; retries while busy |
| LuaRadio runtime | `core/composite.lua`, `block.lua`, `pipe.lua`, `util.lua` | pipes, block processes, signals | start, read, write, stop, status, wait, reap | blocking, end of file, descriptors inherited by every child, time limits |
| Picture encoder | `apps/pisstv.c` | the audio buffer, the rounding carry | VIS header, lines of seven modes, WAV file | hundreds of thousands of rounded tones; a buffer never checked |
| Radio tools | `apps/pow_pluto.c`, `apps/new/wav2ssb.c`, `wav2plutossb.c`, `plutoset.c` | attributes and buffers of the radio | set up, measure, transmit | shared radio, unchecked writes, error paths |
| RDS time | `apps/new/rds-timesync.c` | | decode a date, set the clock | calendar arithmetic in floating point |
| Passwords and keys | `board/device_passwd`, `device_persistent_keys`, `S21misc` | copies in jffs2 with md5 files | save, restore | torn copies |

How they interact: `S23udc` creates and binds the gadget, with the audio function
and the drive; `S45msd` fills the drive, offers it to the host and starts
`update.sh`, which waits until the host ejects it, mounts it, updates firmware,
boot loader and configuration, and gives it back or resets; `S40network` and
`S21misc` read the configuration at the next boot. When the host suspends the bus
the suspend handler puts the radio to sleep. The tools set the same radio's
attributes; the transmitters then run a flow graph.

What makes each correct: the host reads from every audio function what that
function is; an endpoint carries its stream; only checked firmware is flashed, and
the markers on the drive are true; what the returned drive says is stored; host
and device do not use the image at once; a flow graph delivers every sample and
ends; a picture's audio keeps its time, fits its buffer and can be received; what
is measured is what was asked for.

## 2. Modules

| Module | Models | Composed with |
|---|---|---|
| `Uac2Function` | `f_uac2.c` for any number of instances | the composite core and u_audio as external actions |
| `Uac2PacketSize` | `set_ep_max_packet_size` in the order of `afunc_bind` | |
| `MassStorage` | who uses the drive: `S23udc`, `S45msd`, `update.sh`, the host | the handlers of the next two, as one step |
| `KernelUpdate` | abstract: the kernel the device has, and what the user is told | implemented by the next |
| `FirmwareUpdate` | both updaters and the restart | flash and U-Boot; `KernelUpdate` by refinement |
| `DeviceConfig` | the configuration through sessions and boots | the flashing of `FirmwareUpdate`, as one step |
| `SuspendHandler` | the script, the bus, programs that set the mode | |
| `Automounter` | the script, a process for each event | the kernel's mounts |
| `FlowGraph` | the run of any acyclic flow graph: blocks, pipes, parent | sockets, signals, waitpid |
| `SstvTones` | the tones of every mode, as sequences | used by the next two |
| `SstvTimeline` | abstract: a transmission as a sequence of scans | implemented by the next |
| `SstvEncoder` | `pisstv.c`: one tone per step, pixels, carry, file | `SstvTimeline` by refinement |
| `RadioTools` | four programs on one radio | libiio and LuaRadio as calls that may fail |
| `RdsTime` | `rds_decode_time` | a calendar |
| `..._proofs` | theorems about the module of that name | |
| `BoardScripts_proofs` | theorems about `SuspendHandler`, `MassStorage` and `Automounter` | nothing: each about its own specification |
| `Applications_proofs` | theorems about `RadioTools` and `RdsTime` | the same |
| `MC...` | values of the constants for TLC | |

Definitions marked "Mutant" are the variants of one definition each that show
what a property catches: a plausible mistake in the code they stand beside.

**Uac2Function.** `desc` is the file-scope descriptors: the IDs of terminals and
clocks, the references between them, interface numbers, the interface association
and the header length. `Store` is one store of a configfs attribute (refused while
`refcnt` is not 0), `Recreate`, `Link` and `Unlink` the alloc and free functions. A
bind is split where it can fail: `BindValidate`, `BindInterface` (three times),
`BindEndpoint` (twice), `BindAssign` (`setup_descriptor`, then the copy),
`BindAudio`. `Purge` is what the composite core does after any failure.
`SetConfiguration`, `Disconnect`, `SetInterface` and `GadgetOff` are the host's and
the user's requests; `AfuncSetup` is the answer to a class request on a clock, an
operator, because it changes nothing.

**FirmwareUpdate.** An updater is a process with a program counter whose stages
are the commands that change or read shared state. `dd` and `fw_setenv` are two
steps each, so that a restart can come between; every command that can fail may,
before it has changed anything or after. A checksum fits exactly its own payload.
U-Boot loads `fit_size` bytes of mtd3, so a kernel is loaded whole if that covers it:
after a flash `fit_size` is the payload's size, after a boot.frm it is one of
`BootFit`, and in a damaged environment `DefaultFit`. Nothing is assumed of how these
two compare with the sizes of payloads. The history `interrupted` remembers that the
last flash was cut short or failed, `replaced` that a boot.frm has written the
environment since the last whole one.

**KernelUpdate.** The same as the user sees it: the kernel in flash or none (`kernel`),
whether U-Boot would load all of it (`loads`), whether the environment came with a boot
loader (`foreign`), and the files of which the drive says SUCCESS (`told`). Only a
boot loader's environment (`Replace`) may change `loads` while the drive says so.

**DeviceConfig.** One setting stands for those that `S40network` takes from jffs2
(`net`), one for those `S21misc` takes from the environment (`xo`). `Boot` is the
three init scripts; `Edit` and `Eject` the user; the other actions `update.sh` from
one wait to the next. The md5 of a file is the file. A write to the environment or
to jffs2 goes through an invalid or torn state in which power may be lost; it may
fail in it, or before it and leave the old content. None of these failures is looked
at by the script; the history `behind` remembers the copies for which the last write
failed before it began. `Edits` bounds the files that users save.

**MassStorage.** `lun.0/file` is what all scripts go by. Each script is a program
counter; `S23udc` and `S45msd` may be run again at any moment after they have
started once, `update.sh` may be killed by the latter. `written` and `seen` count
what the host wrote and what `update.sh` has looked at; the host writes at most
`MaxWrites` times. Every mount and umount of the image may fail, and the scripts go on
as they do: `update.sh` works on what it finds, and both offer the image. `fresh` says
that this round's mount has shown what the host wrote. The histories: `again`,
`S45msd` was run again since the boot; `kept`, the last umount failed; `unseen`,
`update.sh` has last worked without a fresh mount.

**SuspendHandler.** `poll_sysfs` is not in the repository: it looks at the file
(`Look`), waits for an announcement and prints the file (`Wake`), so that changes
while the script is busy are announced to nobody. The bus and the programs never wait
for the script. The histories `chosen` and `overruled` say which mode was last
asked for, and whether a bus reset made the script return to an older one; `missed`
that a suspend, its end or a program came while the script was busy (or a program
while the bus was suspended), until the script next puts an awake radio to sleep.

**Automounter.** `stage` of each process goes through `my_umount` and `my_mount` command
by command; a mount may be busy up to five times (`do_mount` then gives up), fail or
succeed, and umount may fail at any time. One device name: scripts of
different names share only the LED. The histories: `overlap`, events have overlapped
since no process last ran (forgotten when one starts alone); `stray`, the LED was last
set in such a time; `refused`, the last umount failed; `gaveUp`, the last `my_mount` did.

**FlowGraph.** A pipe is the number of samples in its socket and in its reader's
buffer. A block reads the least that all its inputs have, processes it, and writes
the result to each output pipe in turn, stopping where a socket is full
(`WriteSome`, `WriteNext`). End of file and broken pipes need every process that
inherited the descriptor to have closed it (`HeldByOthers`), which each child does
when it starts. The parent forks, waits for SIGINT or SIGCHLD, and reaps: it waits
for each child up to a limit and then sends SIGTERM. `stop`, `status` and `^C` come
at any moment. `Endless` sources may block for ever without looking at their control
socket, as a source that reads an empty file descriptor does.

**SstvEncoder.** Pixels are chosen as they are sent: every picture over `Colour`.
Time is in `Tenth` of a tenth of a microsecond, of which a sample is `Sample`: any
rate. `g_fudge` is the code's carry, `late` the history of the exact error. The
histories `heard` and `syncs` are kept by an external receiver.

**RadioTools.** A process per command line, one step per attribute written, all at
once; a call that may fail may. The radio starts in its boot state. The kernel fills
the blocks of `pow_pluto`'s buffer from the moment it is created (`Capture`), with what
the radio is set to at that moment, which is before the gain is set; a refill only
takes the oldest. `captured` and `rssi` are histories of what the radio was set to at
each, `disturbed` of what another program has changed in the meantime.

**RdsTime.** The state is a calendar that turns a day at a time; the formula's
multiplications by 365.25 and 30.6001 are exact on multiples of 1/10000.

## 3. Runs

| Run | Question | Bounds |
|---|---|---|
| `uac2` | are descriptors, routing, rates, options, streams and releases right, whatever was bound before? | 2 instances, capture on or off, an invalid rate; 7 interfaces of which others take 1 or 2, so that 1 + 3 + 3 may not fit; 1 or 2 endpoints |
| `uac2_stale_clock` | does the host read each clock's own rate, when either direction may be off? **violated** | 1 instance, any directions |
| `uac2_packets` | does every endpoint carry its stream? | 2 channels and 27, 2 and 4 bytes, rates at the limits; two binds |
| `firmware_daemon` | does the daemon keep the device bootable and its markers true, and implement `KernelUpdate`? | 4 payloads: the one in flash, a larger one, a corrupted copy, one for another device; a boot.frm's `fit_size` that covers both or the smaller, a default that covers only the smaller; power loss at every step |
| `config_session` | is what the returned drive shows stored, and does it come back? | 2 values of each setting, actions none, reset, dfu and calibrate, boot.frm, every write failing before or after it has begun, power loss at every step |
| `sstv_encode` | does every mode keep time, fit, announce itself and refine the timeline? | Scottie 1, 2 and DX with all 320 x 256 pixels, the others with 3 to 6; colours 0, 100, 255; 22 kHz |
| `radio` | is what is measured what was asked for, at the gain asked for once that was reached, and is the buffer given back? | two `pow_pluto` of different frequency and gain with `plutoset`, or one with both transmitters, at once; calls may fail anywhere |
| `rds_time` | is every date decoded right? | all 73 110 days from 1900-03-01 to 2100-02-28 |
| `flow` | is every sample delivered, nobody killed without need, and does the graph end? | source, filter with a delay, and a join of both; 3 samples, sockets of 1, buffers of 2; source finite or endless; `stop` and `^C` at any moment |
| `suspend` | does the radio sleep with the bus and wake as it was? | 4 modes; suspends, resumes, resets and mode changes without limit, at any moment |
| `automounter` | do directory, mount and LED agree, is nothing stale mounted, does every handler end? | 3 handlers at once, mounts that fail or are busy, failing umounts, sticks with scripts |
| `drive` | do host and device exclude each other, is nothing written passed over, is the drive offered again? | 3 writes; both init scripts again at any moment, failing mounts and umounts, reboots |

Why the bounds are enough. The audio descriptors depend on an instance only
through which directions are enabled, so one value on and one off give every
layout; two instances are enough for one to see what another left behind, and
`desc` keeps no more than the last bind. In the updates, payloads matter by whether
they are in flash, released, for this device and covered by a `fit_size` or not; the four
with the two of `BootFit` give each case. In the configuration a second value is enough
to tell two copies apart. Scottie DX is the longest transmission of all, so that
`AudioFits` is checked where it is tightest, and every mode's line structure is
checked whole. In the flow graph the smallest sockets and the joining branches are
what makes blocks wait; with a socket of 1, a vector of 2 is written in two parts. In
the automounter a removal and a new add must fall between the tries of a third
handler. In `radio` two measurements compete for the buffer while a third program
changes rate and frequency, which are all the interference there is: the transmitters
and `plutoset` set nothing else of the receiver. The bounds in guards are `MaxWrites`
and the calendar's `LastMjd`; `Attempts` and `Refills` are the code's own. Deadlock is
checked except in `flow` and `rds_time`, which
end.

### Properties

Of the audio function each relates what one function's bind did to what the host,
another function or a failed bind did since. `ClockRatesOfFull` is `ClockRates` of
the functions with both directions. `PacketsCarryStream` compares the computed size
with the largest number of bytes of one packet of an evenly spread stream.
`KernelBootsUnlessCut` says when the device can come to have no kernel that U-Boot
loads whole: during a flash, from `dd` to the end of `fw_setenv`; after one that was
cut short or failed, until the next whole one; and after a boot.frm whose
`fit_size` (or the default, if its `dd` failed) does not cover the kernel, which is
`UncoveredByBoot`. `SuccessIsInstalled` speaks of a marker over later sessions and
boot.frm files: the kernel stays the one in flash, and loading it whole ends only
with `UncoveredByBoot`. `ImplementsUpdate` is the refinement: the kernel in flash
goes from one released one to none and from none to one, never directly and never
while the drive says SUCCESS, and what U-Boot loads of it becomes less meanwhile only
by a boot.frm. `ResetComesBack` says when the daemon's own reset is safe.
`ReturnedIsStored` compares three copies at the moment the user gets the drive, save
those of which `behind` says that a write left the old content;
`DriveComesBack` and `DriveReturns` are about getting the drive at all. `Exclusive` and
`SeenBeforeOffered` are about the image: both sides use it at once only where umount
failed or `S45msd` fills it again, and what the host wrote is passed over only where
no mount showed it.

`NearestSample` bounds the error of the audio after any number of tones by half a
sample; `SyncsRegular` is the same seen by a receiver that locks to the pulses, and
also says that no pixel is taken for one. `ImplementsTimeline` is the refinement:
at the ends of scans, playing pixel by pixel with a carry has given the samples that
one tone of the whole scan would have. `EverySampleKept` accounts for every sample
of every pipe, `EndsNaturally` for graphs nobody stopped, `Finishes` and
`ObeysInterrupt` for their end.

`ModeFollowsBus` and `WakesUp` are about the radio's mode: a script that was outrun by
the bus or by a program may settle with the wrong one, but it is right again from the
next time it puts an awake radio to sleep. `InStep` says what one event that is handled
alone restores, after whatever overlapped or failed before it, and names the three
failures it leaves: `refused`, `gaveUp` and a `stray` LED. `NothingStale` and
`EventsEnd` hold for overlapping events too. `MeasuredAsAsked` compares the radio at
the capture of each block of a printed result with the arguments, except for what
another program has changed (`disturbed`); `GainHeld` is about the attributes set
while the kernel captures already: a measurement may begin under an old gain, but no
block goes back to one.

### Fairness

`DriveComesBack`: weak fairness of the daemon's next step. `update.sh` is an endless
loop that waits for nobody but the host's eject, and its commands return. The same in
`MassStorage`, where a script that has begun goes on. `SuspendHandler` and
`Automounter`: the shell goes on; in the latter, scripts of a stick end. In
`FlowGraph` every process is scheduled and timers expire, and the program calls
`wait` after `start`; nobody has to press `^C` or call `stop`. Nothing is assumed of
users, hosts or power.

### The finding

`ClockRates` in `uac2_stale_clock`: `in_rq_cur` (`f_uac2.c:1000`) looks at the
playback clock's ID first, also when playback is disabled and the ID is one an
earlier bind left. Capture-only after playback-only makes both IDs 3, and the
capture clock reads as `p_srate`. Where both directions are on, as S23udc creates
them, `ClockRatesOfFull` holds.

### What else showed while modelling

These are behaviours of the code that the models have and that a property, if it
were to forbid them, would not survive. No run is devoted to them.

- `update_frm.sh:23` and `update.sh:187` share `/opt/firmware.frm`. With both in
  `Updater`, `OnlyGenuineFlashed` fails: the file is replaced between one's check
  and its `dd`. The theorem assumes one updater.
- `update.sh:113-116` resets for `reset = 1` before `:244-247` copies config.txt to
  jffs2: the next boot has the old network settings. A boot.frm replaces the
  environment, and config.txt, unchanged, keeps showing the old values.
- `update.sh:193` sets `fit_size` because the default may not do; a boot.frm handled
  in the same session or later (`:166`) writes its own over it, and nothing compares
  that with the kernel: the drive then says SUCCESS and BOOT_SUCCESS, and the reset
  may not come back (`UncoveredByBoot`).
- `update.sh:102` and `:68` do not look at the status of `fw_setenv`: where it fails
  before it erases, the old settings stay, SUCCESS_ENV_UPDATE is on the drive, and the
  file counts as processed until it is edited again (`behind`).
- `S45msd restart` while the host uses the drive mounts the image under it
  (`Exclusive` and `SeenBeforeOffered` say `again` for that reason).
- `update.sh:214` and `:301` and `S45msd:59` do not look at the status of mount and
  umount either. Without the mount the loop finds no files, offers the image, and what
  the host wrote waits for the next eject (`unseen`); without the umount the image is
  offered while it is mounted, and the next mount of it is refused (`kept`).
- `automounter.sh:9` turns the light to heartbeat and goes on whether umount has
  worked or not: the user is told to pull a stick that is mounted (`refused`).
- `pisstv.c`: silence is stored as 32768 (`:325`), which a signed sample reads as
  full deflection; the audio in the file is one sample longer than its headers say
  (`:878`); JPEG is named as supported and refused (`:287`); a broken PNG crashes
  after the output was truncated.
- `pow_pluto.c`: the kernel captures from the creation of the buffer (`:383`), and gain
  mode and gain are set after it (`:391-398`): the first blocks, and with it the printed
  power, may be of the old gain (that all blocks are `UnderGain` fails at once, which
  is why `GainHeld` is what it is). A second instance retunes a running measurement
  before it finds the buffer taken, and other tools change its rate (`disturbed`). The
  "average" (`:436`) is a quarter of the first refill and half of the second.
- `wav2ssb.c` and `wav2plutossb.c` ignore every result of libiio, and may send at the
  rate and frequency that the radio was left with; no property promises anything of
  them. `wav2ssb.c` also ignores its power argument (`:78`).
- `rds-timesync.c` reads from a pipe whose only writer is itself (`:67`, `:89`).
- `composite.lua:788`: blocks that take more than 100 ms to drain after the first
  block's natural end are terminated, with what is in their pipes lost (with
  `Prompt = FALSE`, `EndsNaturally` fails).
- `udc_handle_suspend.sh:19-22`: a suspend that comes before `poll_sysfs` looks again is
  announced to nobody, and the radio stays awake under a suspended bus until the next
  change. If it is a resume that is lost so, the script's next suspend saves "sleep",
  and no later resume wakes the radio until a program sets a mode and the bus is
  suspended after that (`missed`).

## 4. Proofs

For any constants that satisfy the modules' assumptions, TLAPS checks:

| Theorem | Says |
|---|---|
| `Uac2Function_proofs!TypeCorrect` | types, and never more interfaces than a configuration has |
| `!AnnouncedIsCurrentCorrect`, `!StreamsFollowHostCorrect`, `!OffMeansReleasedCorrect`, `!DescriptorsWellFormedCorrect`, `!InterfacesRoutedCorrect`, `!ClockRatesOfFullCorrect` | for any number of instances and options, wherever any bind fails |
| `Uac2PacketSize_proofs!TypeCorrect`, `!PacketsCarryStreamCorrect` | for every rate, sample size and number of channels |
| `FirmwareUpdate_proofs!TypeCorrect` | any number of updaters |
| `!OnlyGenuineFlashedCorrect`, `!KernelBootsUnlessCutCorrect`, `!SuccessIsInstalledCorrect`, `!ResetComesBackCorrect` | one updater, any payloads and files, any `fit_size` in boot.frm and by default |
| `!UpdateImplemented` | one updater: the refinement |
| `DeviceConfig_proofs!ReturnedIsStoredCorrect` | any settings, with power losses and writes that fail before or after they erase |
| `SstvEncoder_proofs!TypeCorrect`, `!NearestAlways` | every rate, picture size and input: no drift |
| `!TimelineImplemented` | the refinement |
| `!AnnouncedAlways`, `!SyncForEveryLine`, `!RegularAlways` | every rate, picture size and input: the header names the mode, every line has its pulses, and no pixel is taken for one |
| `!AudioFitsAlways` | every rate and input, the sizes of `pisstv.c` |
| `Applications_proofs!DecodedAlways` | every day up to `LastMjd` |
| `!RadioTypeCorrect`, `!MeasuredAlways`, `!GainHeldAlways` | any number of programs at once, any command lines; any call may fail where it is allowed to |
| `FlowGraph_proofs!TypeCorrect`, `!SamplesKept`, `!NothingLeftAlways` | any acyclic flow graph, sizes and lengths |
| `!EndsNaturallyAlways` | any acyclic flow graph without a join, whose blocks drain in time |
| `BoardScripts_proofs!ModeFollows` | any modes; bus and programs at any moment |
| `!ExclusiveAlways`, `!SeenAlways` | both scripts again at any moment, mounts and umounts that fail |
| `!InStepAlways`, `!NothingStaleAlways` | any number of handlers at once, mounts and umounts that fail |

The audio function. None of the properties is inductive: a bound function's
options stay as announced only because `refcnt` is 1 from link to unlink and
unlinking a bound function is impossible. `IInv` adds `Lifecycle` (which step of a
bind belongs to which state of the gadget), `Announced` (between the copy of the
descriptors and the end of the bind the same already holds of the function being
bound), and `Released` (what a function holds at each step of its bind). One lemma
per conjunct has one step per action. The descriptors are written piecemeal, and
what an earlier bind left in them stays until it is written over; `BindInv` says how
far a bind has got. `Numbered`: the interfaces taken so far have numbers that are
theirs alone, and the file-scope ones are those of the function being bound.
`WellFormed`: every copy is closed, from the moment it is made: its references lead
to its own IDs. `Clocks`: while every function has both directions, the file-scope
clock IDs are 5 and 6 and those of every copy; a bind of one direction breaks it,
which is the finding.

The packet size. The arithmetic is in `PacketSizeEnough`: if the needed bytes fit a
packet, one frame more is at most 1024 + 108 and far from the 65536 at which
`max_size_bw` wraps.

The firmware. `IInv` says what each stage knows: from the split on the temporary file
is the updater's own payload or torn; after the check it is the one of the checksum;
from the end of `dd` it is in flash and nobody is writing. These need that nobody
else touches the file, hence the assumption of a single updater. `ResetComesBack`
rests on `BootLoaderFollows`: a torn boot loader is being written, or has left a
marker of failure on the drive, or the device no longer runs. The refinement maps the
kernel to what is whole in mtd3 (`KernelOf`), and `loads` to whether U-Boot, with the
environment as it is at the moment, would load all of it. Each kind of step has a
lemma: `DdMaps` for the flash itself, `SetMaps` for a `fw_setenv` that succeeds and
`SettingMaps` for the damage before it, which is never under SUCCESS, `ReplaceMaps` for
a boot.frm's environment, `TouchMaps` and `ForgetMaps` for the markers. `Tell` needs
that nobody has touched environment or kernel between `fw_setenv` and `touch`: again the
single updater.

The configuration. The checksum is the pivot: `update.sh` leaves alone a file that
fits it, so the invariant says that the environment agrees with the file the checksum
is *of*, while the daemon waits as much as while it works, and that on the way through
`process_ini` it agrees with the file on the drive. A file that cannot be read is
never processed, since it came with its checksum at boot. "Agrees" is up to `behind`: a
write that fails before it begins adds its copy there, and only a write of that copy
that begins takes it away.

The encoder's time. The carry is the negated error of the audio as long as no tone reaches
65536 samples; the lemmas on the longest tone of each mode give that from the bounds
on rates. The refinement maps the middle of a scan to its beginning (`TSamples`,
`TFudge`) and uses that rounding with a carry is the same in one part or in many.
`AudioFits` adds the lengths up: `Elapsed` says that the time of what has been sent
is one period for each pulse heard, the place in the line, and at most the longest
tone for each tone of header and trailer, and the sum is below `MaxSeconds` for every
mode. It assumes the real sizes of the pictures (`RealPictures`), on which the sum
depends, and a rate up to `MaxRate`, with which the code does not compare `-r`.

The encoder's receiver. `HeardInv`: what was heard is the header up to the tone being
sent; the digits of the mode's number and their parity come out of a lemma for each
mode. `SyncInv` has two parts. `Counted`: the pulses heard are those of the lines done
and of the scans of this line. `Regular`: the first and the last pulse are a whole
number of periods apart, but for the fraction of a sample that is carried. A table of
the time since the last pulse at each scan of each mode (`Since`), of which
`LineLocked` proves that it agrees with the line, makes it inductive. That no pixel has the tone of a pulse is
the range of the colour formula.

The radio tools. `ToolControl` (which labels hold the buffer) and `ToolData` (types)
give the type invariant. `Tuned` says which attributes a program has already set at
each of its steps, and that they still have its values unless another has disturbed
them; `Measured` that so were the blocks captured since. Gain mode and gain need no
exception, because only a program with the buffer sets them and one at most has it;
from that `Steady` gives `GainHeld`: once a block was captured under the gain asked for,
the radio stays at it for as long as the program has the buffer. Each kind of step of one program has a
lemma for itself and one for all others (`OthersKept`).

The calendar. The proof goes through each month's length: the formula's month turns
exactly at the calendar's, by linear arithmetic over the 100 years' cycle of leap
days that 1900 to 2100 is.

The flow graph. `EverySampleKept` needs, beside the counts, that a block that writes
to several pipes has finished those before its target and not begun those after, and
that each child is born, reads, writes and ends in that order (`forked`). `SamplesKept`
has one lemma for each kind of step. `EndsNaturally` is of a graph that nobody
stopped: no block has ended but by end of file, nothing was terminated, and the
parent reaps only when a child has gone (`Natural`). What makes it hard is that the
parent's time limit may pass while no child can move. The proof shows that once
one block has ended there is no such state before all have (`NoDeadlock`): a block
that waits to write waits for a later one that waits to write too, so the last of
them would not wait; all others wait for input, but the first of those has none
before it that still runs, and so has samples or the end of file. This is where a
join would break the argument: a block with two inputs may wait for one while its
predecessor waits to write to the other. The first and the last are found with the least-number principle in the form of sets
(`Least`, `Greatest`), which needs no induction.

The suspend handler. While nothing is `missed`, the invariant says of each stage what
was saved (`SavedMode`) and what the radio is in (`Steps`): a mode set since is followed
by a suspend, which saves it, or by a reset, which overrules. Once something was
missed nothing is claimed but types, until the script puts an awake radio to sleep;
then it all holds again, which is the step to prove.

The drive. `lun.0/file` alone decides, so `DriveInv` says what each value of it means
for the gadget and the host (`FileFollows`), what `update.sh` may take for granted at
each of its stages (`UpdateFollows`), whose a mount of the image is (`MountFollows`), and
that what is offered has been worked on (`OfferFollows`), each up to the failure that
the histories remember.

The automounter. Handlers may overlap, and then nothing is known of the directory
and the LED. What always holds is that a mount lies over a directory, and that what is
mounted of a stick that has gone was either refused by `umount` or has a process
that still has to call it (`Covered`), which gives `NothingStale`; and that the LED is
right, about to be set, or `stray` (`LightFollows`). `InStep` is of a handler alone: what
its stage says of mount and directory (`Turn`, `InTurn`) begins anew whenever one starts
while none runs, whatever the earlier ones left.

Only model-checked: liveness (`DriveComesBack`, `DriveReturns`, `Finishes`,
`ObeysInterrupt`, `WakesUp`, `EventsEnd`), since TLAPS proves none under fairness;
`EndsNaturally` of graphs with joins, where it depends on how the branches' lengths
fit their sockets; and the violation of `ClockRates`. Every other property of the
runs is stated by a theorem.

## 5. Not modelled

- Of `f_uac2.c`: strings, the contents of packets, `u_audio` and the controller
  driver, which are not in the repository. The composite core is external:
  modelled as the order of calls that `f_uac2.c` relies on.
- Of `update.sh`: a full `/opt` for the pieces of a boot.frm (its checksum is of the
  whole file, `BootChecks` is one step), unpacking a zip file, the m2k calibration files, `runme`
  scripts and `myscript.sh` (any program), diagnostic reports, passwords, LEDs.
- In `DeviceConfig`: the mounts and umounts of the drive that fail, and `S45msd` run again
  (both are `MassStorage`'s), and other updaters.
- Of `RadioTools`: blocks of the buffer that are captured and never read; the WAV
  files. Of `SstvEncoder`: `WriteFile` stands for the end of the program; what it
  writes is the buffer, and no property is about it.
- Of `S23udc`: attributes of the configfs tree that are written once and never read.
- Of LuaRadio: its blocks (signal processing on floating point samples; third-party),
  which the model lets make one sample of one; fork failures.
- Of `pisstv.c`: the decoding of pictures (libgd) and the AIFF writer, which is
  compiled out.
- Of `rds-timesync.c`: its main program, which waits on its own pipe and has no
  further state; the small receive applications (`fm-radio.c`, `wbfmradio*.c`,
  `wav2plutossb1.c`, `timems.c`), which run a flow graph as `RadioTools`'s `Graph`
  does, without a setting of the radio.
- `plutosdr_fw_patch/linux/ad9361_regs.h`: register numbers of the chip maker's driver.
- wpa_supplicant's scripts (third-party), one-line init and remote control scripts, the
  HDL, binaries, Buildroot files and web pages.

## 6. Plan

Done: the audio function and its endpoint sizes, the updates, the configuration, the
drive, the flow graph, the suspend handler, the automounter, the encoder, the radio
tools and the RDS date, in that order of importance. What would add most next:

1. Passwords and keys: the copies in jffs2 and their md5 files.
2. `EndsNaturally` of graphs with joins whose branches give one sample for each.
