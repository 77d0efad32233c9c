----------------------------- MODULE FirmwareUpdate -----------------------------
(***************************************************************************)
(* Flashing of the firmware and of the boot loader by the shell scripts:   *)
(* handle_frimware_frm and handle_boot_frm of update.sh, the daemon that   *)
(* serves the USB mass storage drive, and handle_frimware_frm of           *)
(* update_frm.sh, which a user starts over ssh or the network.             *)
(*                                                                         *)
(* Flash: the kernel partition mtd3, the boot loader mtd0, and the U-Boot  *)
(* environment mtd1, of which only fit_size matters here: how much of mtd3 *)
(* U-Boot loads. dd and fw_setenv take time: power may go in the middle.   *)
(* All updaters go through the one temporary file /opt/firmware.frm.       *)
(*                                                                         *)
(* A .frm file is a payload followed by a checksum. The checksum of a      *)
(* payload is modelled by the payload itself: it is unique to it.          *)
(***************************************************************************)
EXTENDS Integers, FiniteSets

CONSTANTS
  Updater,     \* the running scripts: Daemon and any number of update_frm.sh
  Daemon,      \* update.sh
  None,        \* no updater
  Image,       \* firmware payloads
  Size,        \* [Image -> Nat]
  Frm,         \* the .frm files at hand: records of payload and checksum
  HasMagic,    \* the payloads that hold the device's magic string
  Genuine,     \* the payloads the vendor released
  Factory,     \* the payload in flash to begin with
  BootFit,     \* the values of fit_size in the environments of boot.frm files
  DefaultFit,  \* the one U-Boot falls back to when its environment is damaged;
               \* nothing is known of how either compares with a payload's size
  Torn, NoFile

ASSUME FirmwareAssumption ==
  /\ None \notin Updater
  /\ Size \in [Image -> Nat]
  /\ Frm \subseteq [img : Image, sum : Image]
  /\ \A f \in Frm : f.img = f.sum => f.img \in Genuine
  /\ HasMagic \subseteq Image
  /\ Genuine \subseteq Image
  /\ Factory \in Genuine \cap HasMagic
  /\ BootFit \subseteq Nat
  /\ DefaultFit \in Nat
  /\ Torn \notin Image
  /\ NoFile \notin Image \union {Torn}

VARIABLES
  mtd3,        \* the payload in flash and who is writing it
  mtd0,        \* the boot loader: "old", "new" or "torn"
  fit,         \* fit_size in the environment; Invalid if that is damaged
  tmp,         \* /opt/firmware.frm
  pc,          \* where each updater is
  file,        \* the .frm each one works on
  size,        \* its FRM_SIZE
  doReset,     \* the daemon's do_reset
  marker,      \* the files each updater has touched, or its exit message
  interrupted, \* history: the last flash of mtd3 was cut short or failed
  replaced,    \* history: a boot.frm has written the environment since the last
               \* complete flash of mtd3
  booted       \* the device came up after its last restart

vars == <<mtd3, mtd0, fit, tmp, pc, file, size, doReset, marker, interrupted, replaced,
          booted>>

Invalid == -1

Stage == {"idle", "split", "size", "sum", "magic", "dd", "dd_end", "env", "env_end",
          "touch", "clean", "boot", "boot_sum", "boot_dd0", "boot_dd0_end",
          "boot_dd1", "boot_dd1_end", "boot_touch", "decide"}

BootMarkers == {"BOOT_SUCCESS", "BOOT_FAILED", "FAILED_MTD_PARTITION_ERROR",
                "FAILED_BOOT_CHSUM_ERROR"}
FirmwareMarkers == {"SUCCESS", "FAILED", "FAILED_FIRMWARE_CHSUM_ERROR"}
Marker == BootMarkers \union FirmwareMarkers

AnyFrm == [img : Image, sum : Image]

Init ==
  /\ mtd3 = [img |-> Factory, writer |-> None]
  /\ mtd0 = "old"
  /\ fit = Size[Factory]
  /\ tmp = NoFile
  /\ pc = [u \in Updater |-> "idle"]
  /\ file = [u \in Updater |-> [img |-> Factory, sum |-> Factory]]
  /\ size = [u \in Updater |-> 0]
  /\ doReset = FALSE
  /\ marker = [u \in Updater |-> {}]
  /\ interrupted = FALSE
  /\ replaced = FALSE
  /\ booted = TRUE

Goto(u, from, to) == pc[u] = from /\ pc' = [pc EXCEPT ![u] = to]

-----------------------------------------------------------------------------
(* handle_frimware_frm *)

(* Mutant: the markers of the last flash stay on the drive. *)
BeginKeepsMarkers(u, f) ==
  /\ booted
  /\ Goto(u, "idle", "split")
  /\ file' = [file EXCEPT ![u] = f]
  /\ doReset' = IF u = Daemon THEN FALSE ELSE doReset
  /\ UNCHANGED <<mtd3, mtd0, fit, tmp, size, marker, interrupted, replaced, booted>>

(***************************************************************************)
(* A file is found: the daemon starts a session (do_reset=0) and removes   *)
(* the firmware's markers; or a user runs update_frm.sh on it.             *)
(***************************************************************************)
Begin(u, f) ==
  /\ booted
  /\ Goto(u, "idle", "split")
  /\ file' = [file EXCEPT ![u] = f]
  /\ marker' = [marker EXCEPT ![u] = @ \ FirmwareMarkers]
  /\ doReset' = IF u = Daemon THEN FALSE ELSE doReset
  /\ UNCHANGED <<mtd3, mtd0, fit, tmp, size, interrupted, replaced, booted>>

(* head -c -33 ${FILE} > /opt/firmware.frm, cut short if /opt is full. *)
Split(u) ==
  /\ Goto(u, "split", "size")
  /\ tmp' \in {file[u].img, Torn}
  /\ UNCHANGED <<mtd3, mtd0, fit, file, size, doReset, marker, interrupted, replaced, booted>>

(* Mutant: the size is taken before the file is written, so it is that of an
   earlier one. *)
FrmSizeTooEarly(u) ==
  /\ Goto(u, "size", "sum")
  /\ UNCHANGED <<mtd3, mtd0, fit, tmp, file, size, doReset, marker, interrupted, replaced, booted>>

(* FRM_SIZE of whatever /opt/firmware.frm is by now. *)
FrmSize(u) ==
  /\ Goto(u, "size", "sum")
  /\ size' = [size EXCEPT ![u] = IF tmp \in Image THEN Size[tmp] ELSE 0]
  /\ UNCHANGED <<mtd3, mtd0, fit, tmp, file, doReset, marker, interrupted, replaced, booted>>

(* Mutant: the checksum is computed and never compared. *)
ChecksumIgnored(u) ==
  /\ Goto(u, "sum", "magic")
  /\ UNCHANGED <<mtd3, mtd0, fit, tmp, file, size, doReset, marker, interrupted, replaced, booted>>

(* md5sum /opt/firmware.frm against the file's own trailer. *)
Checksum(u) ==
  /\ \/ /\ tmp = file[u].sum
        /\ Goto(u, "sum", "magic")
        /\ UNCHANGED <<marker, doReset>>
     \/ /\ tmp # file[u].sum
        /\ Goto(u, "sum", "clean")
        /\ marker' = [marker EXCEPT ![u] = @ \union {"FAILED_FIRMWARE_CHSUM_ERROR"}]
        /\ doReset' = IF u = Daemon THEN FALSE ELSE doReset
  /\ UNCHANGED <<mtd3, mtd0, fit, tmp, file, size, interrupted, replaced, booted>>

Fail(u) == marker' = [marker EXCEPT ![u] = @ \union {"FAILED"}]

(* Mutant: a release for another device is good enough. *)
MagicIgnored(u) ==
  /\ Goto(u, "magic", "dd")
  /\ UNCHANGED <<mtd3, mtd0, fit, tmp, file, size, doReset, marker, interrupted, replaced, booted>>

(* grep -q MAGIC /opt/firmware.frm *)
Magic(u) ==
  /\ \/ tmp \in HasMagic /\ Goto(u, "magic", "dd") /\ UNCHANGED marker
     \/ tmp \notin HasMagic /\ Goto(u, "magic", "clean") /\ Fail(u)
  /\ UNCHANGED <<mtd3, mtd0, fit, tmp, file, size, doReset, interrupted, replaced, booted>>

(* dd if=/opt/firmware.frm of=/dev/mtdblock3 opens both and starts... *)
DdStart(u) ==
  /\ \/ /\ tmp # NoFile
        /\ Goto(u, "dd", "dd_end")
        /\ mtd3' = [img |-> tmp, writer |-> u]
        /\ UNCHANGED marker
     \/ Goto(u, "dd", "clean") /\ Fail(u) /\ UNCHANGED mtd3
  /\ UNCHANGED <<mtd0, fit, tmp, file, size, doReset, interrupted, replaced, booted>>

(***************************************************************************)
(* ... and ends: with the whole payload if nobody else wrote the partition *)
(* or the file meanwhile, with anything in between otherwise, or with an   *)
(* error.                                                                  *)
(***************************************************************************)
DdEnd(u) ==
  /\ \/ /\ Goto(u, "dd_end", "env")
        /\ \E i \in IF mtd3.writer = u /\ tmp \in {mtd3.img, NoFile} THEN {mtd3.img}
                    ELSE {mtd3.img, tmp, Torn} \ {NoFile} :
             mtd3' = [img |-> i, writer |-> None]
        /\ UNCHANGED <<marker, interrupted>>
     \/ /\ Goto(u, "dd_end", "clean")
        /\ mtd3' = [img |-> Torn, writer |-> None]
        /\ Fail(u)
        /\ interrupted' = TRUE
  /\ UNCHANGED <<mtd0, fit, tmp, file, size, doReset, replaced, booted>>

(* fw_setenv fit_size starts erasing the environment, or fails before and leaves
   the old fit_size. *)
EnvStart(u) ==
  /\ \/ Goto(u, "env", "env_end") /\ fit' = Invalid /\ UNCHANGED <<marker, interrupted>>
     \/ Goto(u, "env", "clean") /\ Fail(u) /\ interrupted' = TRUE /\ UNCHANGED fit
  /\ UNCHANGED <<mtd3, mtd0, tmp, file, size, doReset, replaced, booted>>

(* fw_setenv has written it (then do_reset=1 in the daemon), or failed and left
   the environment erased. *)
EnvEnd(u) ==
  /\ \/ /\ Goto(u, "env_end", "touch")
        /\ fit' = size[u]
        /\ doReset' = (doReset \/ u = Daemon)
        /\ interrupted' = FALSE
        /\ replaced' = FALSE
        /\ UNCHANGED marker
     \/ /\ Goto(u, "env_end", "clean")
        /\ Fail(u)
        /\ interrupted' = TRUE
        /\ UNCHANGED <<fit, doReset, replaced>>
  /\ UNCHANGED <<mtd3, mtd0, tmp, file, size, booted>>

(* touch SUCCESS || touch FAILED: a full drive makes it the second. *)
Touch(u) ==
  /\ Goto(u, "touch", "clean")
  /\ \/ marker' = [marker EXCEPT ![u] = @ \union {"SUCCESS"}]
     \/ Fail(u)
  /\ UNCHANGED <<mtd3, mtd0, fit, tmp, file, size, doReset, interrupted, replaced, booted>>

(* rm /opt/firmware.frm; update_frm.sh exits, the daemon looks for boot.frm. *)
Clean(u) ==
  /\ Goto(u, "clean", IF u = Daemon THEN "boot" ELSE "idle")
  /\ tmp' = NoFile
  /\ UNCHANGED <<mtd3, mtd0, fit, file, size, doReset, marker, interrupted, replaced, booted>>

-----------------------------------------------------------------------------
(* handle_boot_frm, in the daemon only *)

Skip(from, to) ==
  /\ Goto(Daemon, from, to)
  /\ UNCHANGED <<mtd3, mtd0, fit, tmp, file, size, doReset, marker, interrupted, replaced, booted>>

(* A session without a firmware file, or one without a boot.frm. *)
NoFirmware ==
  /\ booted
  /\ Goto(Daemon, "idle", "boot")
  /\ doReset' = FALSE
  /\ UNCHANGED <<mtd3, mtd0, fit, tmp, file, size, marker, interrupted, replaced, booted>>

NoBoot == Skip("boot", "decide")

BootBegin ==
  /\ Goto(Daemon, "boot", "boot_sum")
  /\ marker' = [marker EXCEPT ![Daemon] = @ \ BootMarkers]
  /\ UNCHANGED <<mtd3, mtd0, fit, tmp, file, size, doReset, interrupted, replaced, booted>>

(* The checksum and the comparison of the partition table with /proc/mtd. *)
BootChecks ==
  /\ \/ Goto(Daemon, "boot_sum", "boot_dd0") /\ UNCHANGED <<marker, doReset>>
     \/ /\ Goto(Daemon, "boot_sum", "decide")
        /\ \E m \in {"FAILED_BOOT_CHSUM_ERROR", "FAILED_MTD_PARTITION_ERROR"} :
             marker' = [marker EXCEPT ![Daemon] = @ \union {m}]
        /\ doReset' = FALSE
  /\ UNCHANGED <<mtd3, mtd0, fit, tmp, file, size, interrupted, replaced, booted>>

(* Mutant: a failed dd leaves no marker. *)
BootFailSilent(from) == Goto(Daemon, from, "decide") /\ UNCHANGED marker

BootFail(from) ==
  /\ Goto(Daemon, from, "decide")
  /\ marker' = [marker EXCEPT ![Daemon] = @ \union {"BOOT_FAILED"}]

(* dd of boot.bin to mtd0 starts, and ends. *)
BootDd0Start ==
  /\ \/ Goto(Daemon, "boot_dd0", "boot_dd0_end") /\ mtd0' = "torn" /\ UNCHANGED marker
     \/ BootFail("boot_dd0") /\ UNCHANGED mtd0
  /\ UNCHANGED <<mtd3, fit, tmp, file, size, doReset, interrupted, replaced, booted>>

BootDd0End ==
  /\ \/ Goto(Daemon, "boot_dd0_end", "boot_dd1") /\ mtd0' = "new" /\ UNCHANGED marker
     \/ BootFail("boot_dd0_end") /\ UNCHANGED mtd0
  /\ UNCHANGED <<mtd3, fit, tmp, file, size, doReset, interrupted, replaced, booted>>

(* dd of boot.frm's environment to mtd1, over the fit_size just set. *)
BootDd1Start ==
  /\ \/ /\ Goto(Daemon, "boot_dd1", "boot_dd1_end")
        /\ fit' = Invalid
        /\ replaced' = TRUE
        /\ UNCHANGED marker
     \/ BootFail("boot_dd1") /\ UNCHANGED <<fit, replaced>>
  /\ UNCHANGED <<mtd3, mtd0, tmp, file, size, doReset, interrupted, booted>>

BootDd1End ==
  /\ \/ /\ Goto(Daemon, "boot_dd1_end", "boot_touch")
        /\ fit' \in BootFit
        /\ doReset' = TRUE
        /\ UNCHANGED marker
     \/ BootFail("boot_dd1_end") /\ UNCHANGED <<fit, doReset>>
  /\ UNCHANGED <<mtd3, mtd0, tmp, file, size, interrupted, replaced, booted>>

BootTouch ==
  /\ Goto(Daemon, "boot_touch", "decide")
  /\ \E m \in {"BOOT_SUCCESS", "BOOT_FAILED"} :
       marker' = [marker EXCEPT ![Daemon] = @ \union {m}]
  /\ UNCHANGED <<mtd3, mtd0, fit, tmp, file, size, doReset, interrupted, replaced, booted>>

-----------------------------------------------------------------------------
(* End of a session, and loss of power *)

InFirmwareFlash(u) == pc[u] \in {"dd_end", "env", "env_end"}

(* With a damaged environment U-Boot takes its built-in fit_size. *)
EffectiveFit == IF fit = Invalid THEN DefaultFit ELSE fit

KernelWhole == mtd3.writer = None /\ mtd3.img # Torn
KernelCovered == Size[mtd3.img] <= EffectiveFit
KernelBoots == KernelWhole /\ KernelCovered

(***************************************************************************)
(* The power goes, or some script reboots: RAM is lost, flash stays as it  *)
(* is, and the device comes up if the boot loader and the kernel are whole.*)
(***************************************************************************)
Restart ==
  /\ mtd3' = IF mtd3.writer = None THEN mtd3 ELSE [img |-> Torn, writer |-> None]
  /\ booted' = (KernelBoots /\ mtd0 # "torn")
  /\ tmp' = NoFile
  /\ pc' = [u \in Updater |-> "idle"]
  /\ doReset' = FALSE
  /\ marker' = [u \in Updater |-> {}]
  /\ interrupted' = (interrupted \/ \E u \in Updater : InFirmwareFlash(u))
  /\ UNCHANGED <<mtd0, fit, file, size, replaced>>

(* The daemon's session ends: reset if do_reset, the drive back otherwise. *)
SessionEnd ==
  /\ ~doReset
  /\ Skip("decide", "idle")

SessionReset ==
  /\ pc[Daemon] = "decide"
  /\ doReset
  /\ Restart

Next ==
  \/ \E u \in Updater :
       \/ \E f \in Frm : Begin(u, f)
       \/ Split(u) \/ FrmSize(u) \/ Checksum(u) \/ Magic(u) \/ DdStart(u) \/ DdEnd(u)
       \/ EnvStart(u) \/ EnvEnd(u) \/ Touch(u) \/ Clean(u)
  \/ /\ Daemon \in Updater
     /\ \/ NoFirmware \/ NoBoot \/ BootBegin \/ BootChecks
        \/ BootDd0Start \/ BootDd0End \/ BootDd1Start \/ BootDd1End \/ BootTouch
        \/ SessionEnd \/ SessionReset
  \/ Restart

Spec == Init /\ [][Next]_vars

-----------------------------------------------------------------------------
(* Properties *)

(* Every variable has its type. *)
TypeOK ==
  /\ mtd3 \in [img : Image \union {Torn}, writer : Updater \union {None}]
  /\ mtd0 \in {"old", "new", "torn"}
  /\ fit \in Nat \union {Invalid}
  /\ tmp \in Image \union {Torn, NoFile}
  /\ pc \in [Updater -> Stage]
  /\ file \in [Updater -> AnyFrm]
  /\ size \in [Updater -> Nat]
  /\ doReset \in BOOLEAN
  /\ marker \in [Updater -> SUBSET Marker]
  /\ interrupted \in BOOLEAN
  /\ replaced \in BOOLEAN
  /\ booted \in BOOLEAN

(* Nothing but a released payload for this device is ever written to the
   kernel partition: what dd reads is what md5sum and grep have passed. *)
OnlyGenuineFlashed == mtd3.img \in (Genuine \cap HasMagic) \union {Torn}

(* The one way to lose a kernel that is whole: a boot.frm came after it, and
   U-Boot loads less of it than there is, by what that environment says. *)
UncoveredByBoot == replaced /\ fit \in BootFit \union {Invalid}

(* Outside a flash, and unless the last one was cut short or failed, the kernel in
   flash is whole, and U-Boot loads all of it unless a boot.frm has since replaced
   the environment in which the flash set fit_size. *)
KernelBootsUnlessCut ==
  \/ KernelWhole /\ (KernelCovered \/ UncoveredByBoot)
  \/ interrupted
  \/ \E u \in Updater : InFirmwareFlash(u)

(* What SUCCESS on the drive is worth: the file the user copied is in flash, whole,
   and loaded whole unless a boot.frm has since brought its own fit_size. *)
SuccessIsInstalled ==
  \A u \in Updater :
    "SUCCESS" \in marker[u] =>
      KernelWhole /\ mtd3.img = file[u].img /\ (KernelCovered \/ UncoveredByBoot)

(* The reset update.sh does after a session comes up again, unless a flash of the
   kernel is left cut short, or one of boot.frm's failure markers is on the drive,
   or the fit_size that a boot.frm brought does not cover the kernel. (In these
   cases it may not: do_reset is a single flag, a failure of one half leaves it at
   the 1 of the other, and nothing compares fit_size with the kernel.) *)
ResetComesBack ==
  [][ /\ SessionReset
      /\ ~interrupted
      /\ marker[Daemon] \cap BootMarkers \subseteq {"BOOT_SUCCESS"}
      /\ replaced => KernelCovered
      => booted']_vars

(* The updater implements KernelUpdate: through every failure and loss of power the
   kernel in flash goes from one released payload to none and from none to one,
   never while the drive says SUCCESS; and what U-Boot loads of it becomes less
   while the drive says so only by the environment of a boot.frm. *)
KernelOf == IF KernelWhole THEN mtd3.img ELSE Torn
ToldOf == {file[u].img : u \in {v \in Updater : "SUCCESS" \in marker[v]}}
Abstract == INSTANCE KernelUpdate WITH
  Kernel <- Genuine \cap HasMagic, NoKernel <- Torn,
  kernel <- KernelOf, loads <- KernelBoots, foreign <- replaced, told <- ToldOf
ImplementsUpdate == Abstract!Spec

================================================================================
