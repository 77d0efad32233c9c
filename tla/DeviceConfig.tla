------------------------------ MODULE DeviceConfig ------------------------------
(***************************************************************************)
(* The configuration of the device: what config.txt on the USB drive, the  *)
(* U-Boot environment and /mnt/jffs2/etc/config.txt say, how update.sh     *)
(* carries an edit from the first to the other two, and what S21misc,      *)
(* S40network and S45msd make of them when the device boots.               *)
(*                                                                         *)
(* The drive is an image in RAM that the host and the daemon use in turn:  *)
(* the host ejects it, the daemon mounts it, works on it and gives it      *)
(* back. Of the settings two stand for all: net, which S40network reads    *)
(* from jffs2, and xo, which S21misc reads from the environment. Flashing  *)
(* is FirmwareUpdate's; here only a boot.frm appears, because it replaces  *)
(* the environment.                                                        *)
(***************************************************************************)
EXTENDS Naturals

CONSTANTS
  Net, Xo,                \* the values a network setting and xo_correction take
  DefaultNet, DefaultXo,  \* those of a device without any configuration
  CalibratedXo,           \* what ad936x_ref_cal finds
  Action,                 \* what [ACTIONS] may ask for
  Edits,                  \* the config.txt files that users save
  PowerLoss,              \* may the power go at any moment?
  BootFrm,                \* may a boot.frm be on the drive?
  None, Torn, Invalid     \* no file, half a file, a damaged environment

ASSUME ConfigAssumption ==
  /\ DefaultNet \in Net
  /\ DefaultXo \in Xo
  /\ CalibratedXo \in Xo
  /\ "none" \in Action
  /\ Action \subseteq {"none", "reset", "dfu", "calibrate"}
  /\ PowerLoss \in BOOLEAN
  /\ BootFrm \in BOOLEAN

VARIABLES
  env,      \* the U-Boot environment's settings
  jffs2,    \* /mnt/jffs2/etc/config.txt
  etcDir,   \* /mnt/jffs2/etc exists
  drive,    \* config.txt on the drive
  md5,      \* /opt/config.md5, by the content it is of
  lun,      \* who has the drive: "host" or "device"
  pc,       \* where update.sh is
  doReset,  \* do_reset
  reboot,   \* device_reboot has been called
  up,       \* the device is running
  stored,   \* history: an edit has been processed since it booted, and no boot.frm
  behind    \* history: what disagrees with config.txt because a write failed

vars == <<env, jffs2, etcDir, drive, md5, lun, pc, doReset, reboot, up, stored, behind>>

(* config.txt, with the line ends the host's editor gave it. *)
Config == [net : Net, xo : Xo, action : Action, crlf : BOOLEAN]

Environment == [net : Net, xo : Xo, qspiboot : BOOLEAN]

ASSUME EditsAssumption == Edits \subseteq Config

ASSUME NoneAssumption == {None, Torn} \cap Config = {} /\ Invalid \notin Environment

SettingsOf(c) == [net |-> c.net, xo |-> c.xo]

DefaultSettings == [net |-> DefaultNet, xo |-> DefaultXo]
\* An environment that fw_setenv has built from its own defaults has no qspiboot.
DefaultEnv == [net |-> DefaultNet, xo |-> DefaultXo, qspiboot |-> TRUE]

Init ==
  /\ env = DefaultEnv
  /\ jffs2 = None
  /\ etcDir \in BOOLEAN
  /\ drive = None
  /\ md5 = None
  /\ lun = "device"
  /\ pc = "idle"
  /\ doReset = FALSE
  /\ reboot = FALSE
  /\ up = FALSE
  /\ stored = FALSE
  /\ behind = {}

(* fw_printenv, with the defaults the scripts fall back to. *)
EnvSettings == IF env = Invalid THEN DefaultSettings ELSE SettingsOf(env)

-----------------------------------------------------------------------------
(* Booting and losing power *)

(* create_system_files of S40network: the first config.txt, from the
   environment; it stays in RAM if /mnt/jffs2/etc does not exist. *)
Generated ==
  [net |-> EnvSettings.net, xo |-> EnvSettings.xo, action |-> "none", crlf |-> FALSE]

(* S40network and S45msd; S40network takes the network from jffs2, S21misc
   xo_correction from the environment. *)
Boot ==
  /\ ~up
  /\ up' = TRUE
  /\ jffs2' = IF jffs2 = None /\ etcDir THEN Generated ELSE jffs2
  /\ drive' = IF jffs2 = None THEN Generated ELSE jffs2
  /\ md5' = drive'
  /\ lun' = "host"
  /\ UNCHANGED <<env, etcDir, pc, doReset, reboot, stored, behind>>

(* The reboot that was asked for, or the loss of power: RAM is lost. *)
Down ==
  /\ up
  /\ reboot \/ PowerLoss
  /\ up' = FALSE
  /\ drive' = None
  /\ md5' = None
  /\ lun' = "device"
  /\ pc' = "idle"
  /\ doReset' = FALSE
  /\ reboot' = FALSE
  /\ stored' = FALSE
  /\ behind' = {}
  /\ UNCHANGED <<env, jffs2, etcDir>>

-----------------------------------------------------------------------------
(* The user *)

(* Edits config.txt while the host has the drive. *)
Edit(c) ==
  /\ up
  /\ lun = "host"
  /\ drive' = c
  /\ UNCHANGED <<env, jffs2, etcDir, md5, lun, pc, doReset, reboot, up, stored, behind>>

Eject ==
  /\ up
  /\ lun = "host"
  /\ lun' = "device"
  /\ UNCHANGED <<env, jffs2, etcDir, drive, md5, pc, doReset, reboot, up, stored, behind>>

(* device_passwd or device_persistent_keys: install -D into /mnt/jffs2/etc. *)
MakeEtc ==
  /\ up
  /\ ~etcDir
  /\ etcDir' = TRUE
  /\ UNCHANGED <<env, jffs2, drive, md5, lun, pc, doReset, reboot, up, stored, behind>>

-----------------------------------------------------------------------------
(* update.sh *)

Goto(from, to) == up /\ pc = from /\ pc' = to

disk == <<env, jffs2, etcDir, drive, md5>>
rest == <<lun, doReset, reboot, up>>

(* The drive was ejected: losetup, mount, do_reset=0. *)
Poll ==
  /\ lun = "device"
  /\ Goto("idle", "boot")
  /\ doReset' = FALSE
  /\ UNCHANGED <<disk, lun, reboot, up, stored, behind>>

(* No boot.frm, but perhaps a firmware was flashed; or a boot.frm is, with the
   environment it brings, and dd succeeds or fails. *)
HandleFrm ==
  /\ Goto("boot", "config")
  /\ \/ UNCHANGED <<env, stored>> /\ doReset' \in BOOLEAN
     \/ BootFrm /\ env' = DefaultEnv /\ doReset' = TRUE /\ stored' = FALSE
     \/ BootFrm /\ env' = Invalid /\ doReset' \in BOOLEAN /\ stored' = FALSE
  /\ UNCHANGED <<jffs2, etcDir, drive, md5, lun, reboot, up, behind>>

(* Mutant: an unchanged config.txt takes the daemon back to its loop. *)
CheckMd5Continue ==
  /\ \/ md5 = drive /\ Goto("config", "idle")
     \/ md5 # drive /\ Goto("config", "env")
  /\ UNCHANGED <<disk, rest, stored, behind>>

(* md5sum -c /opt/config.md5 || process_ini *)
CheckMd5 ==
  /\ \/ md5 = drive /\ Goto("config", "copy")
     \/ md5 # drive /\ Goto("config", "env")
  /\ UNCHANGED <<disk, rest, stored, behind>>

HasQspiboot == env # Invalid /\ env.qspiboot

(* fw_printenv qspiboot, and fw_setenv -s: it erases the environment, or fails
   before and leaves the old one. *)
EnvStart ==
  /\ \/ /\ HasQspiboot
        /\ Goto("env", "env_end")
        /\ env' = Invalid
        /\ behind' = behind \ {"env"}
     \/ /\ HasQspiboot
        /\ Goto("env", "act")
        /\ behind' = behind \union {"env"}
        /\ UNCHANGED env
     \/ ~HasQspiboot /\ Goto("env", "act") /\ UNCHANGED <<env, behind>>
  /\ UNCHANGED <<jffs2, etcDir, drive, md5, rest, stored>>

(* fw_setenv has written it, or failed and left it erased. Its status is not looked
   at: SUCCESS_ENV_UPDATE is touched, and the checksum written, in every case. *)
EnvEnd ==
  /\ Goto("env_end", "act")
  /\ env' \in {[net |-> drive.net, xo |-> drive.xo, qspiboot |-> TRUE], Invalid}
  /\ UNCHANGED <<jffs2, etcDir, drive, md5, rest, stored, behind>>

(* reset=1 sleeps for 10 seconds after device_reboot, dfu=1 does not. *)
Act ==
  /\ \/ /\ Goto("act", "sleep")
        /\ drive.action = "reset"
        /\ reboot' = TRUE
     \/ /\ Goto("act", "calibrate")
        /\ drive.action # "reset"
        /\ reboot' = (reboot \/ drive.action = "dfu")
  /\ UNCHANGED <<disk, lun, doReset, up, stored, behind>>

(* The 10 seconds are over and init has not killed update.sh yet. *)
SleepEnds ==
  /\ \/ Goto("sleep", "calibrate")
     \/ Goto("last_sleep", "return")
  /\ UNCHANGED <<disk, rest, stored, behind>>

(* What a calibration writes. *)
CalibratedEnv == [net |-> EnvSettings.net, xo |-> CalibratedXo, qspiboot |-> HasQspiboot]
CalibratedDrive == [drive EXCEPT !.action = "none", !.xo = CalibratedXo]

(* Mutant: the calibrated value goes to the environment only. *)
CalibrateEnvOnly ==
  /\ Goto("calibrate", "md5")
  /\ IF drive.action = "calibrate" /\ env # Invalid
     THEN env' = CalibratedEnv ELSE UNCHANGED env
  /\ UNCHANGED <<jffs2, etcDir, drive, md5, rest, stored, behind>>

(***************************************************************************)
(* calibrate: if the calibration succeeds the new value goes to the        *)
(* environment by fw_setenv and into config.txt by sed, either of which    *)
(* may fail and leave what was there; if it does not, sed takes the        *)
(* request out of config.txt.                                              *)
(***************************************************************************)
Calibrate ==
  /\ Goto("calibrate", "md5")
  /\ \/ UNCHANGED <<env, drive, behind>>
     \/ /\ drive.action = "calibrate"
        /\ drive' = [drive EXCEPT !.action = "none"]
        /\ UNCHANGED <<env, behind>>
     \/ /\ drive.action = "calibrate"
        /\ drive' = CalibratedDrive
        /\ env' \in {Invalid, CalibratedEnv}
        /\ UNCHANGED behind
     \/ /\ drive.action = "calibrate"
        /\ \/ drive' = CalibratedDrive /\ UNCHANGED env
           \/ env' \in {Invalid, CalibratedEnv} /\ UNCHANGED drive
        /\ behind' = behind \union {"env"}
  /\ UNCHANGED <<jffs2, etcDir, md5, rest, stored>>

(* md5sum $FILE > /opt/config.md5, the end of process_ini *)
WriteMd5 ==
  /\ Goto("md5", "copy")
  /\ md5' = drive
  /\ stored' = TRUE
  /\ UNCHANGED <<env, jffs2, etcDir, drive, rest, behind>>

(* dos2unix; half a file stays half a file. *)
UnixText(c) == IF c = Torn THEN c ELSE [c EXCEPT !.crlf = FALSE]

(* If the file is in jffs2: dos2unix, here on the drive, and cp, which truncates
   the file and then writes it, or fails to open it; the partition may be full. *)
CopyStart ==
  /\ \/ /\ Goto("copy", "copy_end")
        /\ jffs2 # None
        /\ drive' \in {drive, UnixText(drive)}
        /\ jffs2' = Torn
        /\ behind' = behind \ {"jffs2"}
     \/ /\ Goto("copy", "decide")
        /\ jffs2 # None
        /\ drive' \in {drive, UnixText(drive)}
        /\ behind' = behind \union {"jffs2"}
        /\ UNCHANGED jffs2
     \/ /\ Goto("copy", "decide")
        /\ jffs2 = None
        /\ UNCHANGED <<drive, jffs2, behind>>
  /\ UNCHANGED <<env, etcDir, md5, rest, stored>>

CopyEnd ==
  /\ Goto("copy_end", "decide")
  /\ jffs2' \in {drive, Torn}
  /\ UNCHANGED <<env, etcDir, drive, md5, rest, stored, behind>>

(* [[ $do_reset = 1 ]] && reset *)
Decide ==
  /\ \/ doReset /\ Goto("decide", "last_sleep") /\ reboot' = TRUE
     \/ ~doReset /\ Goto("decide", "return") /\ UNCHANGED reboot
  /\ UNCHANGED <<disk, lun, doReset, up, stored, behind>>

(* umount; echo $img > $file *)
Return ==
  /\ Goto("return", "idle")
  /\ lun' = "host"
  /\ UNCHANGED <<disk, doReset, reboot, up, stored, behind>>

Daemon ==
  Poll \/ HandleFrm \/ CheckMd5 \/ EnvStart \/ EnvEnd \/ Act \/ SleepEnds
  \/ Calibrate \/ WriteMd5 \/ CopyStart \/ CopyEnd \/ Decide \/ Return

Next ==
  \/ Boot \/ Down \/ Eject \/ MakeEtc
  \/ \E c \in Edits : Edit(c)
  \/ Daemon

(* update.sh is a loop that waits for nobody but the host's eject. *)
Spec == Init /\ [][Next]_vars /\ WF_vars(Daemon)

-----------------------------------------------------------------------------
(* Properties *)

(* When the host gets its drive back, what config.txt on it says is in the
   environment and in jffs2, once an edit has been processed since the device
   booted: whatever was edited, calibrated, or cut short by earlier power losses,
   and whichever writes failed in earlier sessions. What a failed write leaves
   behind is known: an invalid environment, half a file in jffs2, or the old
   content; and the old settings stay there until fw_setenv or cp succeeds, although
   the drive says SUCCESS_ENV_UPDATE and the file is taken for processed. *)
ReturnedIsStored ==
  [][Return /\ stored =>
       /\ HasQspiboot /\ "env" \notin behind => SettingsOf(env) = SettingsOf(drive)
       /\ "jffs2" \notin behind => jffs2 \in {drive, None, Torn}]_vars

(* Once ejected, the drive comes back to the host, or the device goes off. *)
DriveComesBack == (up /\ lun = "device") ~> (lun = "host" \/ ~up)
=================================================================================
