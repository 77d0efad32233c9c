-------------------------- MODULE DeviceConfig_proofs --------------------------
(***************************************************************************)
(* What DeviceConfig's ReturnedIsStored rests on, for any settings.        *)
(*                                                                         *)
(* The checksum is the pivot: update.sh leaves alone a config.txt that fits *)
(* it, and so the environment must agree with the file that the checksum is *)
(* of, from one session to the next, and must not be changed but by a       *)
(* process_ini that runs to its end.                                       *)
(***************************************************************************)
EXTENDS DeviceConfig, TLAPS

Processing == {"act", "sleep", "calibrate", "md5"}
Copying == {"copy", "copy_end"}
Returning == {"decide", "last_sleep", "return"}
Waiting == {"idle", "boot", "config"}

Agrees(c) == HasQspiboot /\ "env" \notin behind => SettingsOf(env) = SettingsOf(c)

Types ==
  /\ env \in Environment \cup {Invalid}
  /\ jffs2 \in Config \cup {None, Torn}
  /\ drive \in Config \cup {None, Torn}
  /\ md5 \in Config \cup {None, Torn}
  /\ pc \in Waiting \cup {"env", "env_end"} \cup Processing \cup Copying \cup Returning
  /\ stored \in BOOLEAN
  /\ behind \subseteq {"env", "jffs2"}

\* The host cannot touch the drive while update.sh works on it.
Alone == pc # "idle" => up /\ lun = "device"

\* A file that cannot be read is never processed: it came with its checksum.
Readable ==
  /\ up => drive # None
  /\ drive \notin Config => md5 = drive
  /\ pc \in {"env", "env_end"} \cup Processing => drive \in Config
  /\ stored => up /\ md5 \in Config

\* What each stage knows about the environment...
EnvironmentKnown ==
  /\ pc = "env_end" => env = Invalid
  /\ pc \in Processing => Agrees(drive)
  /\ stored /\ pc \in Waiting \cup Copying \cup Returning => Agrees(md5)

\* ... and about the drive and the copy in jffs2.
DriveKnown ==
  /\ stored /\ pc \in Copying \cup Returning =>
       drive \in Config /\ SettingsOf(drive) = SettingsOf(md5)
  /\ pc \in Returning /\ "jffs2" \notin behind => jffs2 \in {drive, None, Torn}

IInv == Types /\ Alone /\ Readable /\ EnvironmentKnown /\ DriveKnown

--------------------------------------------------------------------------------

LEMMA InitInv == Init => IInv
<1> SUFFICES ASSUME Init PROVE IInv
  OBVIOUS
<1>1. env \in Environment /\ stored = FALSE /\ pc = "idle" /\ behind = {}
  BY ConfigAssumption DEF Init, DefaultEnv, Environment
<1>2. md5 = None /\ drive = None /\ jffs2 = None /\ ~up
  BY DEF Init
<1>3. Types
  BY <1>1, <1>2 DEF Types, Waiting
<1> QED
  BY <1>1, <1>2, <1>3
  DEF IInv, Alone, Readable, EnvironmentKnown, DriveKnown,
      Waiting, Processing, Copying, Returning

(* What the scripts read from the environment when they fall back to defaults. *)
LEMMA EnvironmentType ==
  ASSUME Types
  PROVE  /\ EnvSettings.net \in Net /\ EnvSettings.xo \in Xo
         /\ HasQspiboot \in BOOLEAN
         /\ HasQspiboot => SettingsOf(env) = EnvSettings
         /\ Generated \in Config /\ DefaultEnv \in Environment
PROOF
  BY ConfigAssumption, NoneAssumption
  DEF Types, EnvSettings, SettingsOf, DefaultSettings, DefaultEnv, HasQspiboot,
      Environment, Generated, Config

LEMMA StepInv == IInv /\ [Next]_vars => IInv'
<1> SUFFICES ASSUME IInv, [Next]_vars PROVE IInv'
  OBVIOUS
<1> USE ConfigAssumption, NoneAssumption
        DEF IInv, Types, Alone, Readable, EnvironmentKnown, DriveKnown, Agrees,
            Waiting, Processing, Copying, Returning
<1>1. CASE Boot
  <2>1. Generated \in Config
    BY EnvironmentType
  <2>2. drive' \in Config \cup {None, Torn} /\ md5' = drive'
    BY <1>1, <2>1 DEF Boot
  <2>3. jffs2' \in Config \cup {None, Torn}
    BY <1>1, <2>1 DEF Boot
  <2>4. pc = "idle" /\ UNCHANGED <<env, pc, stored, behind>>
    BY <1>1 DEF Boot
  <2>5. drive' # None
    BY <1>1, <2>1 DEF Boot
  <2>6. stored = FALSE
    BY <1>1 DEF Boot
  <2> QED
    BY <2>2, <2>3, <2>4, <2>5, <2>6 DEF HasQspiboot, SettingsOf, Boot
<1>2. CASE Down
  BY <1>2 DEF Down, HasQspiboot, SettingsOf
<1>3. CASE Eject
  BY <1>3 DEF Eject, HasQspiboot, SettingsOf
<1>4. CASE MakeEtc
  BY <1>4 DEF MakeEtc, HasQspiboot, SettingsOf
<1>5. CASE Poll
  BY <1>5 DEF Poll, Goto, disk, HasQspiboot, SettingsOf
<1>6. CASE HandleFrm
  <2>1. env' = env \/ env' = DefaultEnv \/ env' = Invalid
    BY <1>6 DEF HandleFrm
  <2>2. env' \in Environment \cup {Invalid}
    BY <2>1, EnvironmentType
  <2>3. \/ env' = env /\ stored' = stored
        \/ stored' = FALSE
    BY <1>6 DEF HandleFrm
  <2>4. /\ pc = "boot" /\ pc' = "config" /\ up
        /\ UNCHANGED <<jffs2, drive, md5, lun, up, behind>>
    BY <1>6 DEF HandleFrm, Goto
  <2>5. CASE env' = env /\ stored' = stored
    BY <2>2, <2>4, <2>5 DEF HasQspiboot, SettingsOf
  <2>6. CASE stored' = FALSE
    BY <2>2, <2>4, <2>6
  <2> QED
    BY <2>3, <2>5, <2>6
<1>7. CASE CheckMd5
  BY <1>7 DEF CheckMd5, Goto, disk, rest, HasQspiboot, SettingsOf
<1>8. CASE EnvStart
  BY <1>8 DEF EnvStart, Goto, rest, HasQspiboot, SettingsOf
<1>9. CASE EnvEnd
  <2>1. drive \in Config /\ stored \in BOOLEAN
    BY <1>9 DEF EnvEnd, Goto
  <2>2. /\ env' \in Environment \cup {Invalid}
        /\ env' # Invalid => env'.net = drive.net /\ env'.xo = drive.xo
    <3> DEFINE written == [net |-> drive.net, xo |-> drive.xo, qspiboot |-> TRUE]
    <3>1. written \in Environment
      BY <2>1 DEF Config, Environment
    <3>2. written.net = drive.net /\ written.xo = drive.xo
      OBVIOUS
    <3>3. env' = written \/ env' = Invalid
      BY <1>9 DEF EnvEnd
    <3> HIDE DEF written
    <3> QED
      BY <3>1, <3>2, <3>3
  <2>3. /\ pc' = "act" /\ up /\ lun = "device"
        /\ UNCHANGED <<jffs2, drive, md5, lun, up, stored, behind>>
    BY <1>9 DEF EnvEnd, Goto, rest
  <2>4. Agrees(drive)'
    BY <2>2, <2>3 DEF HasQspiboot, SettingsOf
  <2> QED
    BY <2>1, <2>2, <2>3, <2>4
<1>10. CASE Act
  BY <1>10 DEF Act, Goto, disk, HasQspiboot, SettingsOf
<1>11. CASE SleepEnds
  BY <1>11 DEF SleepEnds, Goto, disk, rest, HasQspiboot, SettingsOf
<1>12. CASE Calibrate
  <2>1. /\ drive \in Config /\ Agrees(drive)
        /\ pc' = "md5" /\ up /\ lun = "device"
        /\ UNCHANGED <<jffs2, md5, lun, up, stored>>
    BY <1>12 DEF Calibrate, Goto, rest
  <2>2. drive' \in Config
    BY <1>12, <2>1 DEF Calibrate, CalibratedDrive, Config
  <2>3. CASE UNCHANGED <<env, behind>> /\ SettingsOf(drive') = SettingsOf(drive)
    BY <2>1, <2>2, <2>3 DEF HasQspiboot, SettingsOf
  <2>4. CalibratedEnv \in Environment
    BY EnvironmentType, ConfigAssumption DEF CalibratedEnv, Environment
  <2>5. CASE /\ drive' = CalibratedDrive
             /\ env' \in {Invalid, CalibratedEnv}
             /\ UNCHANGED behind
    <3>1. env' \in Environment \cup {Invalid}
      BY <2>4, <2>5
    <3>2. drive'.net = drive.net /\ drive'.xo = CalibratedXo
      BY <2>1, <2>5 DEF Config, CalibratedDrive
    <3>3. env' # Invalid /\ env'.qspiboot /\ "env" \notin behind =>
            env'.net = drive.net /\ env'.xo = CalibratedXo
      <4>1. HasQspiboot /\ "env" \notin behind => EnvSettings.net = drive.net
        BY <2>1 DEF HasQspiboot, EnvSettings, SettingsOf
      <4> QED
        BY <2>5, <4>1 DEF CalibratedEnv
    <3>4. Agrees(drive)'
      BY <2>5, <3>2, <3>3 DEF HasQspiboot, SettingsOf
    <3> QED
      BY <2>1, <2>2, <2>5, <3>1, <3>4
  <2>6. CASE env' \in {env, Invalid, CalibratedEnv} /\ behind' = behind \union {"env"}
    <3>1. env' \in Environment \cup {Invalid}
      BY <2>4, <2>6
    <3>2. behind' \subseteq {"env", "jffs2"} /\ "env" \in behind'
      BY <2>6
    <3> QED
      BY <2>1, <2>2, <3>1, <3>2
  <2>7. SettingsOf([drive EXCEPT !.action = "none"]) = SettingsOf(drive)
    BY <2>1 DEF SettingsOf, Config
  <2> QED
    BY <1>12, <2>3, <2>5, <2>6, <2>7 DEF Calibrate
<1>13. CASE WriteMd5
  BY <1>13 DEF WriteMd5, Goto, rest, HasQspiboot, SettingsOf
<1>14. CASE CopyStart
  <2>1. /\ pc = "copy" /\ pc' \in {"copy_end", "decide"} /\ up /\ lun = "device"
        /\ UNCHANGED <<env, md5, lun, up, stored>>
    BY <1>14 DEF CopyStart, Goto, rest
  <2>2. /\ drive \in Config =>
             drive' \in Config /\ SettingsOf(drive') = SettingsOf(drive)
        /\ drive = Torn => drive' = Torn
        /\ drive \in Config \cup {Torn}
    BY <1>14 DEF CopyStart, Goto, UnixText, Config, SettingsOf
  <2>3. /\ "env" \in behind' <=> "env" \in behind
        /\ behind' \subseteq {"env", "jffs2"}
    BY <1>14 DEF CopyStart
  <2>4. \/ pc' = "decide" /\ jffs2' = None
        \/ pc' = "decide" /\ jffs2' = jffs2 /\ "jffs2" \in behind'
        \/ pc' = "copy_end" /\ jffs2' = Torn
    BY <1>14 DEF CopyStart, Goto
  <2>5. CASE drive \in Config
    BY <2>1, <2>2, <2>3, <2>4, <2>5 DEF HasQspiboot, SettingsOf
  <2>6. CASE drive = Torn
    BY <2>1, <2>2, <2>3, <2>4, <2>6 DEF HasQspiboot, SettingsOf
  <2> QED
    BY <2>2, <2>5, <2>6
<1>15. CASE CopyEnd
  BY <1>15 DEF CopyEnd, Goto, rest, HasQspiboot, SettingsOf
<1>16. CASE Decide
  BY <1>16 DEF Decide, Goto, disk, HasQspiboot, SettingsOf
<1>17. CASE Return
  BY <1>17 DEF Return, Goto, disk, HasQspiboot, SettingsOf
<1>18. CASE \E c \in Edits : Edit(c)
  BY <1>18, EditsAssumption DEF Edit, HasQspiboot, SettingsOf
<1>19. CASE UNCHANGED vars
  BY <1>19 DEF vars, HasQspiboot, SettingsOf
<1> QED
  BY <1>1, <1>2, <1>3, <1>4, <1>5, <1>6, <1>7, <1>8, <1>9, <1>10, <1>11, <1>12, <1>13, <1>14, <1>15, <1>16, <1>17, <1>18, <1>19 DEF Next, Daemon

THEOREM Invariance == Spec => []IInv
<1>1. Init => IInv
  BY InitInv
<1>2. IInv /\ [Next]_vars => IInv'
  BY StepInv
<1> QED
  BY <1>1, <1>2, PTL DEF Spec

(* Whatever was edited, calibrated, cut short or failed before, for any settings: a
   drive that comes back after a processed edit says what is in the environment and
   in jffs2, but for what a failed write is known to have left behind. *)
THEOREM ReturnedIsStoredCorrect == Spec => ReturnedIsStored
<1>1. IInv /\ [Next]_vars
        => [Return /\ stored =>
              /\ HasQspiboot /\ "env" \notin behind => SettingsOf(env) = SettingsOf(drive)
              /\ "jffs2" \notin behind => jffs2 \in {drive, None, Torn}]_vars
  BY DEF IInv, EnvironmentKnown, DriveKnown, Agrees, Returning, Copying, Return, Goto
<1> QED
  BY <1>1, Invariance, PTL DEF Spec, ReturnedIsStored
================================================================================
