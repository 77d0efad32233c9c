--------------------------- MODULE BoardScripts_proofs ---------------------------
(***************************************************************************)
(* Proofs about the scripts of the board, which share no state: the suspend  *)
(* handler, the automounter and the users of the drive. Nothing is proved of *)
(* their composition; each theorem is about the specification of one.       *)
(***************************************************************************)
EXTENDS SuspendHandler, Automounter, MassStorage, TLAPS

-------------------------------------------------------------------------------
(* SuspendHandler: the radio follows the bus, whatever modes it has, programs choose and
   the bus does, where nothing was missed. *)

(* The mode to return to is the last that was set, unless a program has set one
   since; then a suspend comes next, or a change that overrules it. *)
SavedMode ==
  \/ Awake(prev_ensm_mode)
  \/ /\ prev_ensm_mode \in Modes /\ Awake(mode)
     /\ \/ udc # "suspended" /\ pc = "wait" /\ ~announced
        \/ udc = "suspended" /\ ((pc = "wait" /\ announced) \/ pc = "save")

(* Where the script has not dealt with the bus yet. *)
Steps ==
  /\ pc = "start" => Awake(mode) /\ udc # "suspended"
  /\ pc \in {"poll", "wait"} /\ ~(pc = "wait" /\ announced)
       => IF udc = "suspended" THEN mode = "sleep" ELSE Awake(mode)
  /\ pc = "wait" /\ announced /\ udc = "suspended" => Awake(mode)
  /\ pc = "save" => udc = "suspended" /\ Awake(mode)
  /\ pc = "sleep" => udc = "suspended"
  /\ pc \in {"compare", "restore"} => udc # "suspended"
  /\ pc = "restore" => current_ensm_mode = mode

Inv == TypeOK /\ (~missed => SavedMode /\ Steps)

LEMMA InitInv == Init => Inv
  BY SuspendAssumption DEF Init, Inv, TypeOK, SavedMode, Steps, Awake, UdcStates, AllModes

LEMMA NextInv ==
  ASSUME Inv, [Next]_vars
  PROVE  Inv'
<1> USE SuspendAssumption DEF Inv, TypeOK, SavedMode, Steps, Awake, UdcStates, AllModes, script
<1>1. CASE SaveFirst
  BY <1>1 DEF SaveFirst
<1>2. CASE Look
  BY <1>2 DEF Look
<1>3. CASE Wake
  BY <1>3 DEF Wake
<1>4. CASE Save
  BY <1>4 DEF Save, Regained
<1>5. CASE Sleep
  BY <1>5 DEF Sleep
<1>6. CASE Compare
  BY <1>6 DEF Compare
<1>7. CASE Restore
  BY <1>7 DEF Restore
<1>8. CASE Configure
  BY <1>8 DEF Configure, Change, Settled
<1>9. CASE Suspend
  BY <1>9 DEF Suspend, Change, Settled
<1>10. CASE Resume
  BY <1>10 DEF Resume, Change, Settled
<1>11. CASE Reset
  BY <1>11 DEF Reset, Change, Settled
<1>12. CASE SetMode
  BY <1>12 DEF SetMode, Settled
<1>13. CASE UNCHANGED vars
  <2>1. /\ udc' = udc /\ mode' = mode /\ chosen' = chosen /\ overruled' = overruled
        /\ missed' = missed /\ announced' = announced /\ pc' = pc /\ state' = state
        /\ prev_ensm_mode' = prev_ensm_mode /\ current_ensm_mode' = current_ensm_mode
    BY <1>13 DEF vars
  <2>2. TypeOK'
    BY <2>1, TypeOK DEF TypeOK
  <2>3. ~missed' => SavedMode'
    BY <2>1
  <2>4. ~missed' => Steps'
    BY <2>1
  <2> QED
    BY <2>2, <2>3, <2>4
<1> QED
  BY <1>1, <1>2, <1>3, <1>4, <1>5, <1>6, <1>7, <1>8, <1>9, <1>10, <1>11, <1>12, <1>13
     DEF Next, Script

(* Whatever modes the radio has and whatever the bus does: what has not been missed, the
   radio follows. *)
THEOREM ModeFollows == Spec => []ModeFollowsBus
<1>1. Inv => ModeFollowsBus
  BY DEF Inv, Steps, ModeFollowsBus, Settled
<1>2. Inv /\ [Next]_vars => Inv'
  BY NextInv
<1> QED
  BY <1>1, <1>2, InitInv, PTL DEF Spec

-------------------------------------------------------------------------------
(* MassStorage: for any number of writes, and for both scripts run again at any
   moment. *)

(* What lun.0/file says of the gadget and of the host. *)
FileFollows ==
  /\ file \in {"absent", "empty", "image"}
  /\ gadget = "down" => file = "absent"
  /\ gadget = "unbound" => ~bound
  /\ host => bound /\ file = "image"

(* Where update.sh is: it works on what nobody else is offered, and when it has
   worked nothing is left to see that it could mount. *)
UpdateFollows ==
  /\ update # "off" => msd = "started"
  /\ update \in {"work", "done"} => file # "image"
  /\ update = "done" => seen = written \/ unseen

(* Whose the mount is: of an umount that failed, of who works on the drive, or of an
   update.sh killed in its work, when nothing is offered. *)
MountFollows ==
  imageMounted =>
    \/ kept
    \/ msd = "filling"
    \/ update = "work"
    \/ msd = "stopped" /\ file # "image"

(* What is offered has been worked on. The first run of S45msd after a boot finds
   nothing offered and nothing left to see. *)
OfferFollows ==
  /\ file = "image" => gadget = "unbound" \/ host \/ seen = written \/ unseen
  /\ ~again => msd # "stopped"
  /\ ~again /\ msd \in {"never", "filling", "filled"} =>
       file # "image" /\ (seen = written \/ unseen)

DriveInv ==
  /\ FileFollows
  /\ UpdateFollows
  /\ MountFollows
  /\ OfferFollows

LEMMA DriveInitInv == DriveInit => DriveInv
  BY DEF DriveInit, DriveInv, FileFollows, UpdateFollows, MountFollows, OfferFollows

LEMMA S23udcInv ==
  ASSUME DriveInv, S23udc
  PROVE  DriveInv'
<1> USE DEF DriveInv, FileFollows, UpdateFollows, MountFollows, OfferFollows, history
<1>1. CASE MakeGadget
  BY <1>1 DEF MakeGadget
<1>2. CASE Bind
  BY <1>2 DEF Bind
<1>3. CASE Unbind
  BY <1>3 DEF Unbind
<1>4. CASE RemoveGadget
  BY <1>4 DEF RemoveGadget
<1> QED
  BY <1>1, <1>2, <1>3, <1>4 DEF S23udc

LEMMA S45msdInv ==
  ASSUME DriveInv, S45msd
  PROVE  DriveInv'
<1> USE DEF DriveInv, FileFollows, UpdateFollows, MountFollows, OfferFollows, history
<1>1. CASE FillMount
  BY <1>1 DEF FillMount
<1>2. CASE FillUmount
  BY <1>2 DEF FillUmount, Release
<1>3. CASE FillOffer
  BY <1>3 DEF FillOffer, Offer
<1>4. CASE StartUpdate
  BY <1>4 DEF StartUpdate
<1>5. CASE StopUpdate
  BY <1>5 DEF StopUpdate
<1> QED
  BY <1>1, <1>2, <1>3, <1>4, <1>5 DEF S45msd

LEMMA UpdateInv ==
  ASSUME DriveInv, Update
  PROVE  DriveInv'
<1> USE DEF DriveInv, FileFollows, UpdateFollows, MountFollows, OfferFollows, history
<1>1. CASE SeeEmpty
  BY <1>1 DEF SeeEmpty
<1>2. CASE WorkDone
  BY <1>2 DEF WorkDone, Worked, Release
<1>3. CASE Reboot
  BY <1>3 DEF Reboot, Worked
<1>4. CASE Return
  BY <1>4 DEF Return, Offer
<1> QED
  BY <1>1, <1>2, <1>3, <1>4 DEF Update

LEMMA HostInv ==
  ASSUME DriveInv, Host
  PROVE  DriveInv'
<1> USE DEF DriveInv, FileFollows, UpdateFollows, MountFollows, OfferFollows, history
<1>1. CASE Use
  BY <1>1 DEF Use
<1>2. CASE Write
  BY <1>2 DEF Write
<1>3. CASE Eject
  BY <1>3 DEF Eject
<1> QED
  BY <1>1, <1>2, <1>3 DEF Host

LEMMA DriveInvariance == DriveSpec => []DriveInv
<1>1. DriveInv /\ UNCHANGED driveVars => DriveInv'
  BY DEF driveVars, history, DriveInv, FileFollows, UpdateFollows, MountFollows, OfferFollows
<1>2. DriveInv /\ [DriveNext]_driveVars => DriveInv'
  BY <1>1, S23udcInv, S45msdInv, UpdateInv, HostInv DEF DriveNext
<1> QED
  BY <1>2, DriveInitInv, PTL DEF DriveSpec

(* Host and device use the image at once only after an umount that failed, or while
   S45msd, run again, fills the drive. *)
THEOREM ExclusiveAlways == DriveSpec => []Exclusive
<1>1. DriveInv => Exclusive
  BY DEF DriveInv, FileFollows, UpdateFollows, MountFollows, OfferFollows, Exclusive
<1> QED
  BY <1>1, DriveInvariance, PTL

(* What is offered has been worked on, since update.sh could last mount it and S45msd
   has offered nothing in its place. *)
THEOREM SeenAlways == DriveSpec => []SeenBeforeOffered
<1>1. DriveInv => SeenBeforeOffered
  BY DEF DriveInv, FileFollows, MountFollows, OfferFollows, SeenBeforeOffered
<1> QED
  BY <1>1, DriveInvariance, PTL

-------------------------------------------------------------------------------
(* Automounter: for any number of processes. *)

Stages == {"ended", "check", "umount", "dark", "rmdir", "mkdir", "mount", "cleanup",
           "bright", "run"}

MounterTypeOK ==
  /\ {present, released, mounted, directory} \subseteq BOOLEAN
  /\ {overlap, stray, refused, gaveUp} \subseteq BOOLEAN
  /\ stage \in [Events -> Stages]
  /\ action \in [Events -> {"add", "remove"}]
  /\ attempt \in [Events -> 0 .. Attempts - 1]
  /\ \A e \in Events : attempt[e] # 0 => stage[e] = "mount"

(* In whatever order the processes run: a stick that is gone is mounted only where
   umount failed or a process still has to call it. *)
Covered ==
  /\ refused => mounted
  /\ mounted => /\ directory
                /\ present \/ refused \/ \E e \in Events : stage[e] \in {"check", "umount"}

On == present /\ ~released

(* In whatever order: the light was set when processes had overlapped, or it is right,
   or a process is about to set it. *)
LightFollows ==
  \/ stray
  \/ light = IF mounted /\ ~refused THEN "default-on" ELSE "heartbeat"
  \/ \E e \in Events : stage[e] \in {"dark", "bright"}

(* While the events come one at a time: at most one process runs, ... *)
Alone == \A e, f \in Events : stage[e] # "ended" /\ stage[f] # "ended" => e = f

(* ... all is as it should be when none does, ... *)
AtRest == (mounted <=> (On /\ ~gaveUp) \/ refused) /\ (directory <=> mounted)

(* ... and this is what the one that runs has reached. *)
Turn(e) ==
  /\ stage[e] # "ended" => (On <=> action[e] = "add")
  /\ stage[e] = "check" => (mounted => directory /\ action[e] = "remove")
  /\ stage[e] = "umount" => mounted /\ directory /\ action[e] = "remove"
  /\ stage[e] = "dark" => action[e] = "remove"
  /\ stage[e] \in {"dark", "rmdir"} =>
       (mounted <=> refused) /\ (mounted => directory /\ action[e] = "remove")
  /\ stage[e] \in {"mkdir", "mount", "cleanup"} => ~mounted /\ action[e] = "add"
  /\ stage[e] = "cleanup" => gaveUp
  /\ stage[e] \in {"bright", "run"} =>
       mounted /\ directory /\ ~refused /\ ~gaveUp /\ action[e] = "add"

InTurn == ~overlap => Alone /\ (Idle => AtRest) /\ \A e \in Events : Turn(e)

LEMMA MounterTypes ==
  ASSUME MounterTypeOK, [MounterNext]_mounterVars
  PROVE  MounterTypeOK'
<1> USE DEF MounterTypeOK, Stages, Attempts, Goto, world, past, Start
<1>1. CASE Plug
  BY <1>1 DEF Plug
<1>2. CASE Unplug
  BY <1>2 DEF Unplug
<1>3. CASE Press
  BY <1>3 DEF Press
<1>4. ASSUME NEW e \in Events, Step(e) PROVE MounterTypeOK'
  <2>1. CASE Check(e)
    BY <2>1 DEF Check
  <2>2. CASE Umount(e)
    BY <2>2 DEF Umount, Running
  <2>3. CASE Dark(e)
    BY <2>3 DEF Dark
  <2>4. CASE Rmdir(e)
    BY <2>4 DEF Rmdir
  <2>5. CASE Mkdir(e)
    BY <2>5 DEF Mkdir
  <2>6. CASE MountDone(e)
    <3>1. attempt' = [attempt EXCEPT ![e] = 0] /\ stage' = [stage EXCEPT ![e] = "bright"]
      BY <2>6 DEF MountDone
    <3>2. \A f \in Events : attempt'[f] # 0 => stage'[f] = "mount"
      BY <3>1
    <3>3. attempt' \in [Events -> 0 .. Attempts - 1] /\ stage' \in [Events -> Stages]
      BY <3>1
    <3> QED
      BY <2>6, <3>2, <3>3 DEF MountDone
  <2>7. CASE MountFailed(e)
    BY <2>7 DEF MountFailed
  <2>8. CASE MountBusy(e)
    BY <2>8 DEF MountBusy
  <2>9. CASE Cleanup(e)
    BY <2>9 DEF Cleanup
  <2>10. CASE Bright(e)
    BY <2>10 DEF Bright
  <2>11. CASE RunScripts(e)
    BY <2>11 DEF RunScripts
  <2> QED
    BY <1>4, <2>1, <2>2, <2>3, <2>4, <2>5, <2>6, <2>7, <2>8, <2>9, <2>10, <2>11 DEF Step
<1>5. CASE UNCHANGED mounterVars
  BY <1>5 DEF mounterVars
<1> QED
  BY <1>1, <1>2, <1>3, <1>4, <1>5 DEF MounterNext

LEMMA CoveredStep ==
  ASSUME MounterTypeOK, Covered, [MounterNext]_mounterVars
  PROVE  Covered'
<1> USE DEF MounterTypeOK, Covered, Goto, world, past
<1>1. CASE Plug
  BY <1>1 DEF Plug, Start
<1>2. CASE Unplug
  BY <1>2 DEF Unplug, Start
<1>3. CASE Press
  BY <1>3 DEF Press, Start
<1>4. ASSUME NEW e \in Events, Step(e) PROVE Covered'
  <2>1. CASE Check(e)
    BY <2>1 DEF Check
  <2>2. CASE Umount(e)
    BY <2>2 DEF Umount
  <2>3. CASE Dark(e)
    BY <2>3 DEF Dark
  <2>4. CASE Rmdir(e)
    BY <2>4 DEF Rmdir
  <2>5. CASE Mkdir(e)
    BY <2>5 DEF Mkdir
  <2>6. CASE MountDone(e)
    BY <2>6 DEF MountDone
  <2>7. CASE MountFailed(e)
    BY <2>7 DEF MountFailed
  <2>8. CASE MountBusy(e)
    BY <2>8 DEF MountBusy
  <2>9. CASE Cleanup(e)
    BY <2>9 DEF Cleanup
  <2>10. CASE Bright(e)
    BY <2>10 DEF Bright
  <2>11. CASE RunScripts(e)
    BY <2>11 DEF RunScripts
  <2> QED
    BY <1>4, <2>1, <2>2, <2>3, <2>4, <2>5, <2>6, <2>7, <2>8, <2>9, <2>10, <2>11 DEF Step
<1>5. CASE UNCHANGED mounterVars
  BY <1>5 DEF mounterVars
<1> QED
  BY <1>1, <1>2, <1>3, <1>4, <1>5 DEF MounterNext

(* An event that comes when no process runs starts one, whatever came before. *)
LEMMA StartInTurn ==
  ASSUME MounterTypeOK, Covered, Plug \/ Unplug \/ Press
  PROVE  InTurn'
<1> SUFFICES ASSUME ~overlap' PROVE (Alone /\ (Idle => AtRest) /\ \A e \in Events : Turn(e))'
  BY DEF InTurn
<1> USE DEF MounterTypeOK
<1>1. Idle
  BY DEF Plug, Unplug, Press, Start
<1>2. PICK e \in Events, act \in {"add", "remove"} :
        /\ stage' = [stage EXCEPT ![e] = "check"]
        /\ action' = [action EXCEPT ![e] = act]
        /\ On' <=> act = "add"
        /\ mounted => act = "remove"
        /\ UNCHANGED <<mounted, directory>>
  BY DEF Plug, Unplug, Press, Start, Goto, On
<1>3. Alone'
  BY <1>1, <1>2 DEF Alone, Idle
<1>4. ~Idle'
  BY <1>2 DEF Idle
<1>5. ASSUME NEW f \in Events PROVE Turn(f)'
  <2>1. CASE f = e
    BY <1>2, <2>1 DEF Turn, Covered
  <2>2. CASE f # e
    BY <1>1, <1>2, <2>2 DEF Turn, Idle
  <2> QED
    BY <2>1, <2>2
<1> QED
  BY <1>3, <1>4, <1>5

(* The others have ended, and a step of e leaves them so. *)
LEMMA OthersEnded ==
  ASSUME MounterTypeOK, InTurn, ~overlap, NEW e \in Events, stage[e] # "ended",
         NEW s \in Stages, stage' = [stage EXCEPT ![e] = s],
         Turn(e)', s = "ended" => AtRest'
  PROVE  InTurn'
<1> USE DEF MounterTypeOK
<1>1. \A f \in Events : f # e => stage[f] = "ended"
  BY DEF InTurn, Alone
<1>2. \A f \in Events : f # e => stage'[f] = "ended"
  BY <1>1
<1>3. Alone'
  BY <1>2 DEF Alone
<1>4. Idle' => AtRest'
  BY DEF Idle
<1>5. \A f \in Events : Turn(f)'
  BY <1>2 DEF Turn
<1> QED
  BY <1>3, <1>4, <1>5 DEF InTurn

LEMMA StepInTurn ==
  ASSUME MounterTypeOK, Covered, InTurn, NEW e \in Events, Step(e)
  PROVE  InTurn'
<1> SUFFICES ASSUME ~overlap PROVE InTurn'
  <2>1. overlap' = overlap
    BY DEF Step, Check, Umount, Dark, Rmdir, Mkdir, MountDone, MountFailed,
           MountBusy, Cleanup, Bright, RunScripts, past
  <2> QED
    BY <2>1 DEF InTurn
<1> USE DEF MounterTypeOK, Goto, world, past, Stages
<1>0. Turn(e) /\ \A f \in Events : stage[f] # "ended" /\ stage[e] # "ended" => f = e
  BY DEF InTurn, Alone
<1> DEFINE s == stage'[e]
<1>1. CASE Check(e)
  <2>1. Turn(e)' /\ s # "ended"
    BY <1>0, <1>1 DEF Check, Turn, On, Covered
  <2> QED
    BY <1>1, <2>1, OthersEnded DEF Check
<1>2. CASE Umount(e)
  <2>1. Turn(e)' /\ s # "ended"
    BY <1>0, <1>2 DEF Umount, Turn, On
  <2> QED
    BY <1>2, <2>1, OthersEnded DEF Umount
<1>3. CASE Dark(e)
  <2>1. Turn(e)' /\ s # "ended"
    BY <1>0, <1>3 DEF Dark, Turn, On
  <2> QED
    BY <1>3, <2>1, OthersEnded DEF Dark
<1>4. CASE Rmdir(e)
  <2>1. Turn(e)' /\ (s = "ended" => AtRest')
    BY <1>0, <1>4 DEF Rmdir, Turn, On, AtRest
  <2> QED
    BY <1>4, <2>1, OthersEnded DEF Rmdir
<1>5. CASE Mkdir(e)
  <2>1. Turn(e)' /\ (s = "ended" => AtRest')
    BY <1>0, <1>5 DEF Mkdir, Turn, On, AtRest, Covered
  <2> QED
    BY <1>5, <2>1, OthersEnded DEF Mkdir
<1>6. CASE MountDone(e)
  <2>1. Turn(e)' /\ s # "ended"
    BY <1>0, <1>6 DEF MountDone, Turn, On, Covered
  <2> QED
    BY <1>6, <2>1, OthersEnded DEF MountDone
<1>7. CASE MountFailed(e)
  <2>1. Turn(e)' /\ s # "ended"
    BY <1>0, <1>7 DEF MountFailed, Turn, On
  <2> QED
    BY <1>7, <2>1, OthersEnded DEF MountFailed
<1>8. CASE MountBusy(e)
  <2>1. Turn(e)' /\ s # "ended"
    BY <1>0, <1>8 DEF MountBusy, Turn, On
  <2> QED
    BY <1>8, <2>1, OthersEnded DEF MountBusy
<1>9. CASE Cleanup(e)
  <2>1. Turn(e)' /\ (s = "ended" => AtRest')
    BY <1>0, <1>9 DEF Cleanup, Turn, On, AtRest, Covered
  <2> QED
    BY <1>9, <2>1, OthersEnded DEF Cleanup
<1>10. CASE Bright(e)
  <2>1. Turn(e)' /\ (s = "ended" => AtRest')
    BY <1>0, <1>10 DEF Bright, Turn, On, AtRest
  <2> QED
    BY <1>10, <2>1, OthersEnded DEF Bright
<1>11. CASE RunScripts(e)
  <2>1. Turn(e)' /\ (s = "ended" => AtRest')
    BY <1>0, <1>11 DEF RunScripts, Turn, On, AtRest
  <2> QED
    BY <1>11, <2>1, OthersEnded DEF RunScripts
<1> QED
  BY <1>1, <1>2, <1>3, <1>4, <1>5, <1>6, <1>7, <1>8, <1>9, <1>10, <1>11 DEF Step

LEMMA LightStep ==
  ASSUME MounterTypeOK, Covered, InTurn, LightFollows, [MounterNext]_mounterVars
  PROVE  LightFollows'
<1> USE DEF MounterTypeOK, LightFollows, Goto, world, past
<1>1. CASE Plug
  BY <1>1 DEF Plug, Start
<1>2. CASE Unplug
  BY <1>2 DEF Unplug, Start
<1>3. CASE Press
  BY <1>3 DEF Press, Start
<1>4. ASSUME NEW e \in Events, Step(e) PROVE LightFollows'
  <2>0. ~overlap => Turn(e)
    BY DEF InTurn
  <2>1. CASE Check(e)
    BY <2>1 DEF Check
  <2>2. CASE Umount(e)
    BY <2>2 DEF Umount
  <2>3. CASE Dark(e)
    BY <2>0, <2>3 DEF Dark, Turn
  <2>4. CASE Rmdir(e)
    BY <2>4 DEF Rmdir
  <2>5. CASE Mkdir(e)
    BY <2>5 DEF Mkdir
  <2>6. CASE MountDone(e)
    BY <2>6 DEF MountDone
  <2>7. CASE MountFailed(e)
    BY <2>7 DEF MountFailed
  <2>8. CASE MountBusy(e)
    BY <2>8 DEF MountBusy
  <2>9. CASE Cleanup(e)
    BY <2>9 DEF Cleanup
  <2>10. CASE Bright(e)
    BY <2>0, <2>10 DEF Bright, Turn
  <2>11. CASE RunScripts(e)
    BY <2>11 DEF RunScripts
  <2> QED
    BY <1>4, <2>1, <2>2, <2>3, <2>4, <2>5, <2>6, <2>7, <2>8, <2>9, <2>10, <2>11 DEF Step
<1>5. CASE UNCHANGED mounterVars
  BY <1>5 DEF mounterVars
<1> QED
  BY <1>1, <1>2, <1>3, <1>4, <1>5 DEF MounterNext

LEMMA MounterInvariance == MounterSpec => [](MounterTypeOK /\ Covered /\ InTurn /\ LightFollows)
<1> DEFINE IInv == MounterTypeOK /\ Covered /\ InTurn /\ LightFollows
<1>1. MounterInit => IInv
  <2> SUFFICES ASSUME MounterInit PROVE IInv
    OBVIOUS
  <2>1. MounterTypeOK
    <3>1. stage \in [Events -> Stages] /\ action \in [Events -> {"add", "remove"}]
      BY DEF MounterInit, Stages
    <3>2. attempt \in [Events -> 0 .. Attempts - 1] /\ \A e \in Events : attempt[e] = 0
      BY DEF MounterInit, Attempts
    <3> QED
      BY <3>1, <3>2 DEF MounterInit, MounterTypeOK
  <2>2. Covered
    BY DEF MounterInit, Covered
  <2>3. \A e \in Events : stage[e] = "ended"
    BY DEF MounterInit
  <2>4. Alone /\ AtRest /\ LightFollows
    BY <2>3 DEF MounterInit, Alone, AtRest, On, LightFollows
  <2>5. \A e \in Events : Turn(e)
    BY <2>3 DEF Turn
  <2> QED
    BY <2>1, <2>2, <2>4, <2>5 DEF InTurn
<1>2. IInv /\ UNCHANGED mounterVars => InTurn'
  BY DEF mounterVars, world, past, InTurn, Alone, Idle, AtRest, On, Turn
<1>3. IInv /\ [MounterNext]_mounterVars => IInv'
  BY <1>2, MounterTypes, CoveredStep, StartInTurn, StepInTurn, LightStep DEF MounterNext
<1> QED
  BY <1>1, <1>3, PTL DEF MounterSpec

(* When the last event was handled alone, the stick, its directory and the light agree
   with what was asked, or with what failed. *)
THEOREM InStepAlways == MounterSpec => []InStep
<1>1. InTurn /\ LightFollows => InStep
  BY DEF InTurn, AtRest, On, LightFollows, InStep, Idle
<1> QED
  BY <1>1, MounterInvariance, PTL

(* Any number of processes, in any order, leave nothing mounted of a stick that is
   gone. *)
THEOREM NothingStaleAlways == MounterSpec => []NothingStale
<1>1. Covered => NothingStale
  BY DEF Covered, Idle, NothingStale
<1> QED
  BY <1>1, MounterInvariance, PTL
==================================================================================
