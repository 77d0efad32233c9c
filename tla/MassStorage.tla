------------------------------ MODULE MassStorage ------------------------------
(***************************************************************************)
(* Who uses the image of the USB drive: S23udc makes and removes the gadget  *)
(* that offers it, S45msd fills it and starts update.sh, update.sh works on  *)
(* it when the host has ejected it, and the host uses it in between. The two  *)
(* init scripts may be run again from a shell at any moment.               *)
(*                                                                         *)
(* lun.0/file is what all of them go by: it is not there without the gadget,  *)
(* empty when nothing is offered, and else names the image. The kernel       *)
(* empties it when the host ejects the drive.                              *)
(*                                                                         *)
(* Neither script looks at whether mount and umount have worked: with no     *)
(* mount they work on an empty directory, with one that has stayed on what    *)
(* the image was before, and what umount could not take back is offered.     *)
(***************************************************************************)
EXTENDS Integers

MaxWrites == 3   \* bound: the times the host writes to the drive

VARIABLES
  file,    \* lun.0/file
  bound,   \* the gadget is bound to the controller
  host,    \* the host uses the drive
  imageMounted, \* on the device (mounting it again is refused)
  fresh,   \* update.sh has mounted it for this round of its loop
  written, \* how often the host has written to the drive
  seen,    \* how much of that update.sh has worked on
  gadget,  \* where S23udc is
  msd,     \* where S45msd is
  update,  \* where update.sh is
  again,   \* history: S45msd has been run again since the device booted
  kept,    \* history: umount failed the last time, and the image has stayed mounted
  unseen   \* history: since update.sh last worked on a fresh mount, it worked without
           \* one, or S45msd, run again, offered the drive in its place

history == <<again, kept, unseen>>
driveVars ==
  <<file, bound, host, imageMounted, fresh, written, seen, gadget, msd, update, history>>

DriveInit ==
  /\ file = "absent" /\ bound = FALSE /\ host = FALSE /\ imageMounted = FALSE
  /\ fresh = FALSE /\ written = 0 /\ seen = 0
  /\ gadget = "down" /\ msd = "never" /\ update = "off"
  /\ again = FALSE /\ kept = FALSE /\ unseen = FALSE

\* A file that is not there cannot be written.
Offer == file' = IF file = "absent" THEN file ELSE "image"

-------------------------------------------------------------------------------
(* S23udc. *)

MakeGadget ==
  /\ gadget = "down"
  /\ file' = IF file = "absent" THEN "empty" ELSE file
  /\ gadget' = "made"
  /\ UNCHANGED <<bound, host, imageMounted, fresh, written, seen, msd, update, history>>

Bind ==
  /\ gadget = "made"
  /\ bound' = TRUE /\ gadget' = "up"
  /\ UNCHANGED <<file, host, imageMounted, fresh, written, seen, msd, update, history>>

(* Mutant: stop leaves the gadget with the host. *)
UnbindForgotten ==
  /\ gadget = "up" /\ msd # "never"
  /\ gadget' = "unbound"
  /\ UNCHANGED <<file, bound, host, imageMounted, fresh, written, seen, msd, update, history>>

Unbind ==
  /\ gadget = "up" /\ msd # "never"
  /\ bound' = FALSE /\ host' = FALSE /\ gadget' = "unbound"
  /\ UNCHANGED <<file, imageMounted, fresh, written, seen, msd, update, history>>

(* Mutant: like the serial port, the drive stays when the gadget is taken apart. *)
RemoveGadgetKeeps ==
  /\ gadget = "unbound"
  /\ gadget' = "down"
  /\ UNCHANGED <<file, bound, host, imageMounted, fresh, written, seen, msd, update, history>>

RemoveGadget ==
  /\ gadget = "unbound"
  /\ file' = "absent" /\ gadget' = "down"
  /\ UNCHANGED <<bound, host, imageMounted, fresh, written, seen, msd, update, history>>

-------------------------------------------------------------------------------
(* S45msd. init runs it once the gadget is up. *)

FillMount ==
  /\ \/ msd = "never" /\ gadget = "up"
     \/ msd = "stopped"
  /\ imageMounted' \in {imageMounted, TRUE} /\ msd' = "filling"
  /\ UNCHANGED <<file, bound, host, fresh, written, seen, gadget, update, history>>

\* umount fails while a process is at the image (or when it is not mounted).
Release ==
  /\ imageMounted' \in {imageMounted, FALSE}
  /\ kept' = imageMounted'

FillUmount ==
  /\ msd = "filling"
  /\ Release /\ msd' = "filled"
  /\ UNCHANGED <<file, bound, host, fresh, written, seen, gadget, update, again, unseen>>

FillOffer ==
  /\ msd = "filled"
  /\ Offer /\ msd' = "offered"
  /\ unseen' = (unseen \/ (again /\ file = "empty"))
  /\ UNCHANGED <<bound, host, imageMounted, fresh, written, seen, gadget, update, again, kept>>

\* start-stop-daemon starts no second update.sh.
StartUpdate ==
  /\ msd = "offered"
  /\ update' = IF update = "off" THEN "poll" ELSE update
  /\ msd' = "started"
  /\ UNCHANGED <<file, bound, host, imageMounted, fresh, written, seen, gadget, history>>

\* update.sh is killed wherever it is.
StopUpdate ==
  /\ msd = "started"
  /\ update' = "off" /\ msd' = "stopped" /\ again' = TRUE
  /\ UNCHANGED <<file, bound, host, imageMounted, fresh, written, seen, gadget, kept, unseen>>

-------------------------------------------------------------------------------
(* update.sh. What it does with the files of the drive is in DeviceConfig and in
   FirmwareUpdate; here it has looked at all of them when it is done. *)

SeeEmpty ==
  /\ update = "poll" /\ file = "empty"
  /\ imageMounted' \in {imageMounted, TRUE}
  /\ fresh' = (imageMounted' /\ ~imageMounted)
  /\ update' = "work"
  /\ UNCHANGED <<file, bound, host, written, seen, gadget, msd, history>>

\* What has been worked on: all that the host wrote when the mount was fresh.
Worked ==
  /\ seen' = IF fresh THEN written ELSE seen
  /\ unseen' = ~fresh

WorkDone ==
  /\ update = "work"
  /\ Worked /\ Release /\ update' = "done"
  /\ UNCHANGED <<file, bound, host, fresh, written, gadget, msd, again>>

\* The device boots again, with a new image: the host has to write to that.
Reboot ==
  /\ update = "work"
  /\ Worked
  /\ file' = "absent" /\ bound' = FALSE /\ host' = FALSE
  /\ imageMounted' = FALSE /\ kept' = FALSE
  /\ gadget' = "down" /\ msd' = "never" /\ update' = "off"
  /\ again' = FALSE /\ UNCHANGED <<fresh, written>>

(* Mutant: the drive is not offered again. *)
ReturnForgotten ==
  /\ update = "done"
  /\ update' = "poll"
  /\ UNCHANGED <<file, bound, host, imageMounted, fresh, written, seen, gadget, msd, history>>

Return ==
  /\ update = "done"
  /\ Offer /\ update' = "poll"
  /\ UNCHANGED <<bound, host, imageMounted, fresh, written, seen, gadget, msd, history>>

-------------------------------------------------------------------------------
(* The host. *)

Use ==
  /\ bound /\ file = "image" /\ ~host
  /\ host' = TRUE
  /\ UNCHANGED <<file, bound, imageMounted, fresh, written, seen, gadget, msd, update, history>>

Write ==
  /\ host /\ written < MaxWrites
  /\ written' = written + 1
  /\ UNCHANGED <<file, bound, host, imageMounted, fresh, seen, gadget, msd, update, history>>

Eject ==
  /\ host
  /\ host' = FALSE /\ file' = "empty"
  /\ UNCHANGED <<bound, imageMounted, fresh, written, seen, gadget, msd, update, history>>

S23udc == MakeGadget \/ Bind \/ Unbind \/ RemoveGadget
S45msd == FillMount \/ FillUmount \/ FillOffer \/ StartUpdate \/ StopUpdate
Update == SeeEmpty \/ WorkDone \/ Reboot \/ Return
Host == Use \/ Write \/ Eject

DriveNext == S23udc \/ S45msd \/ Update \/ Host

DriveSpec == DriveInit /\ [][DriveNext]_driveVars

(* update.sh goes on, and so does a script that has begun: S45msd is stopped only to be
   started again, and init runs both at boot. *)
DriveFairSpec ==
  /\ DriveSpec
  /\ WF_driveVars(Update)
  /\ WF_driveVars(MakeGadget \/ Bind \/ RemoveGadget)
  /\ WF_driveVars(FillMount \/ FillUmount \/ FillOffer \/ StartUpdate)

-------------------------------------------------------------------------------
(* The device has the image mounted while the host uses it only where umount has failed,
   which neither script looks at, or while S45msd, run again, fills the drive: two file
   systems on one image destroy it (S45msd's start, update.sh's loop). *)
Exclusive == host /\ imageMounted => kept \/ (again /\ msd = "filling")

(* When the drive is there to be used again, update.sh has worked on all that the host
   wrote to it before, be it that the host ejected it or that S23udc took the gadget
   away; except where its last mount failed or was refused, or S45msd, run again, has
   offered the drive before it, and then until the next round of its loop that mounts
   the image (update.sh's loop). *)
SeenBeforeOffered == bound /\ file = "image" /\ ~host /\ ~unseen => seen = written

(* A drive that is not offered is offered again, however often S45msd is run again and
   the device boots, once nobody takes the gadget away any more (update.sh's loop,
   S45msd's start). *)
DriveReturns == <>[](gadget = "up") => (file # "image" ~> file = "image")
================================================================================
