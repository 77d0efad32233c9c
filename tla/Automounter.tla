------------------------------- MODULE Automounter -------------------------------
(***************************************************************************)
(* automounter.sh: mdev starts it for each stick that comes or goes, and the *)
(* event daemon when the button is pressed. Every event has a process of its *)
(* own, and nothing orders them.                                           *)
(*                                                                         *)
(* One device name is enough: the scripts of different names share only the  *)
(* light. The kernel does not give the name to another stick while the old    *)
(* one is mounted.                                                         *)
(***************************************************************************)
EXTENDS Integers

CONSTANTS
  Events,  \* the processes that may run at once
  Scripts  \* sticks hold runme scripts, which keep files open

Attempts == 5

ASSUME AutomounterAssumption == Scripts \in BOOLEAN

VARIABLES
  present,  \* the stick is there
  released, \* the button was pressed since it came
  mounted,  \* on the directory
  directory,\* exists
  light,    \* what led0 shows
  stage,    \* of each process
  action,   \* of each process
  attempt,  \* of each process: the mounts that do_mount has tried
  overlap,  \* history: since none ran, a process was started while another did
  stray,    \* history: the light was last set when processes had overlapped
  refused,  \* history: the last umount failed
  gaveUp    \* history: the last my_mount failed

world == <<present, released, mounted, directory, light>>
past == <<overlap, stray, refused, gaveUp>>
mounterVars == <<world, stage, action, attempt, past>>

Idle == \A e \in Events : stage[e] = "ended"
Running(e) == stage[e] = "run"

Goto(e, l) == stage' = [stage EXCEPT ![e] = l]

MounterInit ==
  /\ present = FALSE /\ released = FALSE /\ mounted = FALSE /\ directory = FALSE
  /\ light = "heartbeat"
  /\ stage = [e \in Events |-> "ended"]
  /\ action = [e \in Events |-> "remove"]
  /\ attempt = [e \in Events |-> 0]
  /\ overlap = FALSE /\ stray = FALSE /\ refused = FALSE /\ gaveUp = FALSE

-------------------------------------------------------------------------------
(* What starts the script. *)

Start(act) ==
  /\ overlap' = ~Idle
  /\ \E e \in Events :
       /\ stage[e] = "ended"
       /\ Goto(e, "check")
       /\ action' = [action EXCEPT ![e] = act]
       /\ UNCHANGED <<attempt, stray, refused, gaveUp>>

Plug ==
  /\ ~present /\ ~mounted
  /\ present' = TRUE /\ released' = FALSE
  /\ Start("add")
  /\ UNCHANGED <<mounted, directory, light>>

Unplug ==
  /\ present
  /\ present' = FALSE
  /\ Start("remove")
  /\ UNCHANGED <<released, mounted, directory, light>>

\* remove_all: my_umount of every directory, here of the one.
Press ==
  /\ released' = TRUE
  /\ Start("remove")
  /\ UNCHANGED <<present, mounted, directory, light>>

-------------------------------------------------------------------------------
(* my_umount. *)

Check(e) ==
  /\ stage[e] = "check"
  /\ Goto(e, IF mounted THEN "umount" ELSE "rmdir")
  /\ UNCHANGED <<world, action, attempt, past>>

(* Mutant: the file system stays mounted. *)
UmountForgotten(e) ==
  /\ stage[e] = "umount"
  /\ Goto(e, "dark")
  /\ UNCHANGED <<world, action, attempt, past>>

\* umount fails while a process has a file of the stick open, as a script of it has.
Umount(e) ==
  /\ stage[e] = "umount"
  /\ mounted' \in {mounted} \cup (IF \E f \in Events : Running(f) THEN {} ELSE {FALSE})
  /\ refused' = mounted'
  /\ Goto(e, "dark")
  /\ UNCHANGED <<present, released, directory, light, action, attempt, overlap, stray, gaveUp>>

Dark(e) ==
  /\ stage[e] = "dark"
  /\ light' = "heartbeat" /\ stray' = overlap
  /\ Goto(e, "rmdir")
  /\ UNCHANGED <<present, released, mounted, directory, action, attempt, overlap, refused, gaveUp>>

\* rmdir fails where something is mounted.
Rmdir(e) ==
  /\ stage[e] = "rmdir"
  /\ directory' = (directory /\ mounted)
  /\ Goto(e, IF action[e] = "add" THEN "mkdir" ELSE "ended")
  /\ UNCHANGED <<present, released, mounted, light, action, attempt, past>>

-------------------------------------------------------------------------------
(* my_mount. *)

\* The directory may be there; without it the script ends.
Mkdir(e) ==
  /\ stage[e] = "mkdir"
  /\ directory' \in {directory, TRUE}
  /\ Goto(e, IF directory' THEN "mount" ELSE "ended")
  /\ gaveUp' = ~directory'
  /\ UNCHANGED <<present, released, mounted, light, action, attempt, overlap, stray, refused>>

MountDone(e) ==
  /\ stage[e] = "mount"
  /\ present /\ directory /\ ~mounted
  /\ mounted' = TRUE /\ gaveUp' = FALSE
  /\ Goto(e, "bright")
  /\ attempt' = [attempt EXCEPT ![e] = 0]
  /\ UNCHANGED <<present, released, directory, light, action, overlap, stray, refused>>

\* Any error but "busy" ends the attempts: no stick or directory, no file system.
MountFailed(e) ==
  /\ stage[e] = "mount"
  /\ gaveUp' = TRUE
  /\ Goto(e, "cleanup")
  /\ attempt' = [attempt EXCEPT ![e] = 0]
  /\ UNCHANGED <<world, action, overlap, stray, refused>>

(* Mutant: one attempt fewer. *)
MountBusyEarly(e) ==
  /\ stage[e] = "mount"
  /\ present /\ directory
  /\ gaveUp' = (gaveUp \/ attempt[e] + 1 = Attempts)
  /\ attempt' = [attempt EXCEPT ![e] = (@ + 1) % (Attempts - 1)]
  /\ Goto(e, IF attempt[e] + 1 = Attempts - 1 THEN "cleanup" ELSE "mount")
  /\ UNCHANGED <<world, action, overlap, stray, refused>>

(* Mutant: the script tries for ever. *)
MountBusyAlways(e) ==
  /\ stage[e] = "mount"
  /\ present /\ directory
  /\ attempt' = [attempt EXCEPT ![e] = (@ + 1) % Attempts]
  /\ UNCHANGED <<world, stage, action, past>>

\* The device is mounted already, or the kernel is busy with it.
MountBusy(e) ==
  /\ stage[e] = "mount"
  /\ present /\ directory
  /\ gaveUp' = (gaveUp \/ attempt[e] + 1 = Attempts)
  /\ attempt' = [attempt EXCEPT ![e] = (@ + 1) % Attempts]
  /\ Goto(e, IF attempt[e] + 1 = Attempts THEN "cleanup" ELSE "mount")
  /\ UNCHANGED <<world, action, overlap, stray, refused>>

Cleanup(e) ==
  /\ stage[e] = "cleanup"
  /\ directory' = (directory /\ mounted)
  /\ Goto(e, "ended")
  /\ UNCHANGED <<present, released, mounted, light, action, attempt, past>>

Bright(e) ==
  /\ stage[e] = "bright"
  /\ light' = "default-on" /\ stray' = overlap
  /\ Goto(e, IF Scripts /\ mounted THEN "run" ELSE "ended")
  /\ UNCHANGED <<present, released, mounted, directory, action, attempt, overlap, refused, gaveUp>>

RunScripts(e) ==
  /\ stage[e] = "run"
  /\ Goto(e, "ended")
  /\ UNCHANGED <<world, action, attempt, past>>

Step(e) ==
  \/ Check(e) \/ Umount(e) \/ Dark(e) \/ Rmdir(e)
  \/ Mkdir(e) \/ MountDone(e) \/ MountFailed(e) \/ MountBusy(e) \/ Cleanup(e)
  \/ Bright(e) \/ RunScripts(e)

MounterNext == Plug \/ Unplug \/ Press \/ \E e \in Events : Step(e)

MounterSpec == MounterInit /\ [][MounterNext]_mounterVars

(* Every process goes on; nobody has to plug or press anything. *)
MounterFairSpec == MounterSpec /\ \A e \in Events : WF_mounterVars(Step(e))

-------------------------------------------------------------------------------
(* When the last event was handled alone, whatever came before: a stick is mounted
   exactly if it is there, was not released with the button and my_mount did not give
   up, after five times busy or another error; or else umount has failed. The directory
   is there as long as the stick is mounted; and the light, unless it was last set
   when events overlapped, tells that the stick may be pulled, and tells so wrongly
   where umount has failed (my_umount, my_mount, do_mount). *)
InStep ==
  Idle /\ ~overlap =>
    /\ mounted <=> (present /\ ~released /\ ~gaveUp) \/ refused
    /\ directory <=> mounted
    /\ ~stray => light = IF mounted /\ ~refused THEN "default-on" ELSE "heartbeat"

(* In whatever order the processes of the events run: once they have ended, nothing
   is mounted of a stick that is gone, unless the last umount failed, and a mounted stick
   has its directory. *)
NothingStale == Idle /\ mounted => directory /\ (present \/ refused)

(* Every process ends, also one that finds the device busy (do_mount). *)
EventsEnd == \A e \in Events : stage[e] # "ended" ~> stage[e] = "ended"
==================================================================================
