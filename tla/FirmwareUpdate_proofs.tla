-------------------------- MODULE FirmwareUpdate_proofs --------------------------
(***************************************************************************)
(* Proofs about FirmwareUpdate, for any payloads, sizes and .frm files:    *)
(* TypeOK for any number of updaters; OnlyGenuineFlashed,                  *)
(* KernelBootsUnlessCut and SuccessIsInstalled for one updater, from the   *)
(* inductive invariant IInv (with two, OnlyGenuineFlashed does not hold),  *)
(* and ResetComesBack, from BootLoaderFollows; and, with one updater, that  *)
(* every step is one of KernelUpdate or none.                              *)
(***************************************************************************)
EXTENDS FirmwareUpdate, TLAPS

SingleUpdater == \A u, v \in Updater : u = v

(* The stages of handle_frimware_frm before its marker is touched. *)
Flashing == {"split", "size", "sum", "magic", "dd", "dd_end", "env", "env_end", "touch"}

(* What an updater's stage says of the temporary file, ... *)
TmpFollows(u) ==
  /\ file[u].img = file[u].sum => file[u].img \in Genuine
  /\ pc[u] \in {"size", "sum", "magic", "dd", "dd_end"} => tmp \in {file[u].img, Torn}
  /\ pc[u] \in {"sum", "magic", "dd", "dd_end"} /\ tmp \in Image => size[u] = Size[tmp]
  /\ pc[u] \in {"magic", "dd", "dd_end"} => tmp = file[u].sum
  /\ pc[u] \in {"dd", "dd_end"} => tmp \in HasMagic

(* ... of the flash, and of the drive. *)
FlashFollows(u) ==
  /\ pc[u] = "dd_end" => mtd3.img = tmp /\ mtd3.writer = u
  /\ mtd3.writer = u => pc[u] = "dd_end"
  /\ pc[u] \in {"env", "env_end"} =>
       mtd3.writer = None /\ mtd3.img = file[u].img /\ size[u] = Size[mtd3.img]
  /\ pc[u] = "touch" => KernelBoots /\ mtd3.img = file[u].img /\ ~replaced
  /\ pc[u] = "boot_dd1_end" => replaced
  /\ pc[u] \in Flashing => "SUCCESS" \notin marker[u]

IInv ==
  /\ TypeOK
  /\ \A u \in Updater : TmpFollows(u) /\ FlashFollows(u)
  /\ OnlyGenuineFlashed
  /\ KernelBootsUnlessCut
  /\ SuccessIsInstalled

(* Adding a marker. *)
LEMMA MarkerType ==
  ASSUME marker \in [Updater -> SUBSET Marker], NEW u \in Updater, NEW m \in Marker
  PROVE  [marker EXCEPT ![u] = @ \union {m}] \in [Updater -> SUBSET Marker]
<1>1. marker[u] \union {m} \in SUBSET Marker
  OBVIOUS
<1> QED
  BY <1>1

LEMMA FailType ==
  ASSUME TypeOK, NEW u \in Updater, UNCHANGED marker \/ Fail(u)
  PROVE  marker' \in [Updater -> SUBSET Marker]
<1>1. "FAILED" \in Marker
  BY DEF Marker, FirmwareMarkers
<1> QED
  BY <1>1, MarkerType DEF TypeOK, Fail

LEMMA BootFailType ==
  ASSUME TypeOK, Daemon \in Updater, NEW from,
         UNCHANGED marker \/ BootFail(from)
  PROVE  marker' \in [Updater -> SUBSET Marker]
<1>1. "BOOT_FAILED" \in Marker
  BY DEF Marker, BootMarkers
<1> QED
  BY <1>1, MarkerType DEF TypeOK, BootFail

(* Every step keeps the types, whatever the other updaters do. *)
LEMMA TypeStep ==
  ASSUME TypeOK, [Next]_vars
  PROVE  TypeOK'
<1> USE FirmwareAssumption DEF TypeOK, Goto, Stage, AnyFrm, Marker,
     FirmwareMarkers, BootMarkers
<1>1. ASSUME NEW u \in Updater, NEW f \in Frm, Begin(u, f) PROVE TypeOK'
  BY <1>1 DEF Begin
<1>2. ASSUME NEW u \in Updater, Split(u) PROVE TypeOK'
  BY <1>2 DEF Split
<1>3. ASSUME NEW u \in Updater, FrmSize(u) PROVE TypeOK'
  BY <1>3 DEF FrmSize
<1>4. ASSUME NEW u \in Updater, Checksum(u) PROVE TypeOK'
  <2>1. pc' \in [Updater -> Stage]
    BY <1>4 DEF Checksum
  <2>2. marker' \in [Updater -> SUBSET Marker]
    <3>1. marker[u] \union {"FAILED_FIRMWARE_CHSUM_ERROR"} \in SUBSET Marker
      OBVIOUS
    <3>2. \/ UNCHANGED marker
          \/ marker' = [marker EXCEPT ![u] = @ \union {"FAILED_FIRMWARE_CHSUM_ERROR"}]
      BY <1>4 DEF Checksum
    <3> QED
      BY <3>1, <3>2
  <2>3. doReset' \in BOOLEAN
    BY <1>4 DEF Checksum
  <2> QED
    BY <1>4, <2>1, <2>2, <2>3 DEF Checksum
<1>5. ASSUME NEW u \in Updater, Magic(u) PROVE TypeOK'
  <2>1. marker' \in [Updater -> SUBSET Marker]
    <3>1. UNCHANGED marker \/ Fail(u)
      BY <1>5 DEF Magic
    <3> QED
      BY <3>1, FailType
  <2> QED
    BY <1>5, <2>1 DEF Magic
<1>6. ASSUME NEW u \in Updater, DdStart(u) PROVE TypeOK'
  <2>1. pc' \in [Updater -> Stage]
    BY <1>6 DEF DdStart, Fail
  <2>2. marker' \in [Updater -> SUBSET Marker]
    BY <1>6 DEF DdStart, Fail
  <2>3. mtd3' \in [img : Image \union {Torn}, writer : Updater \union {None}]
    BY <1>6 DEF DdStart, Fail
  <2> QED
    BY <1>6, <2>1, <2>2, <2>3 DEF DdStart
<1>7. ASSUME NEW u \in Updater, DdEnd(u) PROVE TypeOK'
  <2>1. pc' \in [Updater -> Stage]
    BY <1>7 DEF DdEnd, Fail
  <2>2. marker' \in [Updater -> SUBSET Marker]
    BY <1>7 DEF DdEnd, Fail
  <2>3. mtd3' \in [img : Image \union {Torn}, writer : Updater \union {None}]
    BY <1>7 DEF DdEnd, Fail
  <2>4. interrupted' \in BOOLEAN
    BY <1>7 DEF DdEnd, Fail
  <2> QED
    BY <1>7, <2>1, <2>2, <2>3, <2>4 DEF DdEnd
<1>8. ASSUME NEW u \in Updater, EnvStart(u) PROVE TypeOK'
  <2>1. pc' \in [Updater -> Stage]
    BY <1>8 DEF EnvStart, Fail
  <2>2. marker' \in [Updater -> SUBSET Marker]
    BY <1>8 DEF EnvStart, Fail
  <2>3. fit' \in Nat \union {Invalid}
    BY <1>8 DEF EnvStart, Fail
  <2>4. interrupted' \in BOOLEAN
    BY <1>8 DEF EnvStart, Fail
  <2> QED
    BY <1>8, <2>1, <2>2, <2>3, <2>4 DEF EnvStart
<1>9. ASSUME NEW u \in Updater, EnvEnd(u) PROVE TypeOK'
  <2>1. pc' \in [Updater -> Stage]
    BY <1>9 DEF EnvEnd, Fail
  <2>2. marker' \in [Updater -> SUBSET Marker]
    <3>1. UNCHANGED marker \/ Fail(u)
      BY <1>9 DEF EnvEnd
    <3> QED
      BY <3>1, FailType
  <2>3. fit' \in Nat \union {Invalid}
    BY <1>9 DEF EnvEnd, Fail
  <2>4. doReset' \in BOOLEAN
    BY <1>9 DEF EnvEnd, Fail
  <2>5. interrupted' \in BOOLEAN /\ replaced' \in BOOLEAN
    BY <1>9 DEF EnvEnd, Fail
  <2> QED
    BY <1>9, <2>1, <2>2, <2>3, <2>4, <2>5 DEF EnvEnd
<1>10. ASSUME NEW u \in Updater, Touch(u) PROVE TypeOK'
  BY <1>10 DEF Touch, Fail
<1>11. ASSUME NEW u \in Updater, Clean(u) PROVE TypeOK'
  BY <1>11 DEF Clean
<1>12. ASSUME Daemon \in Updater, NoFirmware PROVE TypeOK'
  BY <1>12 DEF NoFirmware
<1>13. ASSUME Daemon \in Updater, NoBoot PROVE TypeOK'
  BY <1>13 DEF NoBoot, Skip
<1>14. ASSUME Daemon \in Updater, BootBegin PROVE TypeOK'
  BY <1>14 DEF BootBegin
<1>15. ASSUME Daemon \in Updater, BootChecks PROVE TypeOK'
  <2>1. pc' \in [Updater -> Stage]
    BY <1>15 DEF BootChecks
  <2>2. marker' \in [Updater -> SUBSET Marker]
    BY <1>15 DEF BootChecks
  <2>3. doReset' \in BOOLEAN
    BY <1>15 DEF BootChecks
  <2> QED
    BY <1>15, <2>1, <2>2, <2>3 DEF BootChecks
<1>16. ASSUME Daemon \in Updater, BootDd0Start PROVE TypeOK'
  BY <1>16 DEF BootDd0Start, BootFail
<1>17. ASSUME Daemon \in Updater, BootDd0End PROVE TypeOK'
  <2>1. marker' \in [Updater -> SUBSET Marker]
    <3>1. UNCHANGED marker \/ BootFail("boot_dd0_end")
      BY <1>17 DEF BootDd0End
    <3> QED
      BY <1>17, <3>1, BootFailType
  <2>2. pc' \in [Updater -> Stage]
    BY <1>17 DEF BootDd0End, BootFail
  <2> QED
    BY <1>17, <2>1, <2>2 DEF BootDd0End
<1>18. ASSUME Daemon \in Updater, BootDd1Start PROVE TypeOK'
  <2>1. pc' \in [Updater -> Stage]
    BY <1>18 DEF BootDd1Start, BootFail
  <2>3. marker' \in [Updater -> SUBSET Marker]
    <3>1. UNCHANGED marker \/ BootFail("boot_dd1")
      BY <1>18 DEF BootDd1Start
    <3> QED
      BY <1>18, <3>1, BootFailType
  <2>2. fit' \in Nat \union {Invalid} /\ replaced' \in BOOLEAN
    BY <1>18 DEF BootDd1Start, BootFail
  <2> QED
    BY <1>18, <2>1, <2>2, <2>3 DEF BootDd1Start
<1>19. ASSUME Daemon \in Updater, BootDd1End PROVE TypeOK'
  <2>1. pc' \in [Updater -> Stage]
    BY <1>19 DEF BootDd1End, BootFail
  <2>2. marker' \in [Updater -> SUBSET Marker]
    BY <1>19 DEF BootDd1End, BootFail
  <2>3. fit' \in Nat \union {Invalid}
    BY <1>19 DEF BootDd1End, BootFail
  <2>4. doReset' \in BOOLEAN
    BY <1>19 DEF BootDd1End, BootFail
  <2> QED
    BY <1>19, <2>1, <2>2, <2>3, <2>4 DEF BootDd1End
<1>20. ASSUME Daemon \in Updater, BootTouch PROVE TypeOK'
  BY <1>20 DEF BootTouch
<1>21. ASSUME Daemon \in Updater, SessionEnd PROVE TypeOK'
  BY <1>21 DEF SessionEnd, Skip
<1>22. ASSUME Restart PROVE TypeOK'
  BY <1>22 DEF Restart
<1>23. CASE UNCHANGED vars
  BY <1>23 DEF vars
<1> HIDE DEF TypeOK, Goto, Stage, AnyFrm, Marker, FirmwareMarkers, BootMarkers
<1> QED
  BY <1>1, <1>2, <1>3, <1>4, <1>5, <1>6, <1>7, <1>8, <1>9, <1>10, <1>11, <1>12,
       <1>13, <1>14, <1>15, <1>16, <1>17, <1>18, <1>19, <1>20, <1>21, <1>22, <1>23
       DEF Next, SessionReset

(* With one updater, every step keeps what its stage says of the temporary file... *)
LEMMA TmpStep ==
  ASSUME NEW u, Updater = {u}, IInv, [Next]_vars
  PROVE  TmpFollows(u)'
<1> USE FirmwareAssumption DEF IInv, TypeOK, Goto, TmpFollows, AnyFrm
<1>1. ASSUME NEW f \in Frm, Begin(u, f) PROVE TmpFollows(u)'
  BY <1>1 DEF Begin
<1>2. ASSUME Split(u) PROVE TmpFollows(u)'
  BY <1>2 DEF Split
<1>3. ASSUME FrmSize(u) PROVE TmpFollows(u)'
  BY <1>3 DEF FrmSize
<1>4. ASSUME Checksum(u) PROVE TmpFollows(u)'
  BY <1>4 DEF Checksum
<1>5. ASSUME Magic(u) PROVE TmpFollows(u)'
  BY <1>5 DEF Magic, Fail
<1>6. ASSUME DdStart(u) PROVE TmpFollows(u)'
  BY <1>6 DEF DdStart, Fail
<1>7. ASSUME DdEnd(u) PROVE TmpFollows(u)'
  BY <1>7 DEF DdEnd, Fail
<1>8. ASSUME EnvStart(u) PROVE TmpFollows(u)'
  BY <1>8 DEF EnvStart, Fail
<1>9. ASSUME EnvEnd(u) PROVE TmpFollows(u)'
  BY <1>9 DEF EnvEnd, Fail
<1>10. ASSUME Touch(u) PROVE TmpFollows(u)'
  BY <1>10 DEF Touch, Fail
<1>11. ASSUME Clean(u) PROVE TmpFollows(u)'
  BY <1>11 DEF Clean
<1>12. ASSUME u = Daemon, NoFirmware PROVE TmpFollows(u)'
  BY <1>12 DEF NoFirmware
<1>13. ASSUME u = Daemon, NoBoot PROVE TmpFollows(u)'
  BY <1>13 DEF NoBoot, Skip
<1>14. ASSUME u = Daemon, BootBegin PROVE TmpFollows(u)'
  BY <1>14 DEF BootBegin
<1>15. ASSUME u = Daemon, BootChecks PROVE TmpFollows(u)'
  BY <1>15 DEF BootChecks
<1>16. ASSUME u = Daemon, BootDd0Start PROVE TmpFollows(u)'
  BY <1>16 DEF BootDd0Start, BootFail
<1>17. ASSUME u = Daemon, BootDd0End PROVE TmpFollows(u)'
  BY <1>17 DEF BootDd0End, BootFail
<1>18. ASSUME u = Daemon, BootDd1Start PROVE TmpFollows(u)'
  BY <1>18 DEF BootDd1Start, BootFail
<1>19. ASSUME u = Daemon, BootDd1End PROVE TmpFollows(u)'
  BY <1>19 DEF BootDd1End, BootFail
<1>20. ASSUME u = Daemon, BootTouch PROVE TmpFollows(u)'
  BY <1>20 DEF BootTouch
<1>21. ASSUME u = Daemon, SessionEnd PROVE TmpFollows(u)'
  BY <1>21 DEF SessionEnd, Skip
<1>22. ASSUME Restart PROVE TmpFollows(u)'
  BY <1>22 DEF Restart
<1>23. CASE UNCHANGED vars
  BY <1>23 DEF vars
<1> HIDE DEF IInv, TypeOK, Goto, TmpFollows, AnyFrm
<1> QED
  BY <1>1, <1>2, <1>3, <1>4, <1>5, <1>6, <1>7, <1>8, <1>9, <1>10, <1>11, <1>12,
       <1>13, <1>14, <1>15, <1>16, <1>17, <1>18, <1>19, <1>20, <1>21, <1>22, <1>23
       DEF Next, SessionReset

(* ... and so what dd reads is what was checked. *)
LEMMA GenuineStep ==
  ASSUME NEW u, Updater = {u}, IInv, [Next]_vars
  PROVE  OnlyGenuineFlashed'
<1> USE FirmwareAssumption DEF IInv, TypeOK, Goto, TmpFollows, FlashFollows,
     OnlyGenuineFlashed, AnyFrm
<1>1. ASSUME NEW f \in Frm, Begin(u, f) PROVE OnlyGenuineFlashed'
  BY <1>1 DEF Begin
<1>2. ASSUME Split(u) PROVE OnlyGenuineFlashed'
  BY <1>2 DEF Split
<1>3. ASSUME FrmSize(u) PROVE OnlyGenuineFlashed'
  BY <1>3 DEF FrmSize
<1>4. ASSUME Checksum(u) PROVE OnlyGenuineFlashed'
  BY <1>4 DEF Checksum
<1>5. ASSUME Magic(u) PROVE OnlyGenuineFlashed'
  BY <1>5 DEF Magic, Fail
<1>6. ASSUME DdStart(u) PROVE OnlyGenuineFlashed'
  BY <1>6 DEF DdStart, Fail
<1>7. ASSUME DdEnd(u) PROVE OnlyGenuineFlashed'
  BY <1>7 DEF DdEnd, Fail
<1>8. ASSUME EnvStart(u) PROVE OnlyGenuineFlashed'
  BY <1>8 DEF EnvStart, Fail
<1>9. ASSUME EnvEnd(u) PROVE OnlyGenuineFlashed'
  BY <1>9 DEF EnvEnd, Fail
<1>10. ASSUME Touch(u) PROVE OnlyGenuineFlashed'
  BY <1>10 DEF Touch, Fail
<1>11. ASSUME Clean(u) PROVE OnlyGenuineFlashed'
  BY <1>11 DEF Clean
<1>12. ASSUME u = Daemon, NoFirmware PROVE OnlyGenuineFlashed'
  BY <1>12 DEF NoFirmware
<1>13. ASSUME u = Daemon, NoBoot PROVE OnlyGenuineFlashed'
  BY <1>13 DEF NoBoot, Skip
<1>14. ASSUME u = Daemon, BootBegin PROVE OnlyGenuineFlashed'
  BY <1>14 DEF BootBegin
<1>15. ASSUME u = Daemon, BootChecks PROVE OnlyGenuineFlashed'
  BY <1>15 DEF BootChecks
<1>16. ASSUME u = Daemon, BootDd0Start PROVE OnlyGenuineFlashed'
  BY <1>16 DEF BootDd0Start, BootFail
<1>17. ASSUME u = Daemon, BootDd0End PROVE OnlyGenuineFlashed'
  BY <1>17 DEF BootDd0End, BootFail
<1>18. ASSUME u = Daemon, BootDd1Start PROVE OnlyGenuineFlashed'
  BY <1>18 DEF BootDd1Start, BootFail
<1>19. ASSUME u = Daemon, BootDd1End PROVE OnlyGenuineFlashed'
  BY <1>19 DEF BootDd1End, BootFail
<1>20. ASSUME u = Daemon, BootTouch PROVE OnlyGenuineFlashed'
  BY <1>20 DEF BootTouch
<1>21. ASSUME u = Daemon, SessionEnd PROVE OnlyGenuineFlashed'
  BY <1>21 DEF SessionEnd, Skip
<1>22. ASSUME Restart PROVE OnlyGenuineFlashed'
  BY <1>22 DEF Restart
<1>23. CASE UNCHANGED vars
  BY <1>23 DEF vars
<1> HIDE DEF IInv, TypeOK, Goto, TmpFollows, FlashFollows, OnlyGenuineFlashed, AnyFrm
<1> QED
  BY <1>1, <1>2, <1>3, <1>4, <1>5, <1>6, <1>7, <1>8, <1>9, <1>10, <1>11, <1>12,
       <1>13, <1>14, <1>15, <1>16, <1>17, <1>18, <1>19, <1>20, <1>21, <1>22, <1>23
       DEF Next, SessionReset

(* Every step keeps what the stage says of the flash and of the drive. *)
LEMMA FlashStep ==
  ASSUME NEW u, Updater = {u}, IInv, [Next]_vars
  PROVE  FlashFollows(u)'
<1> USE FirmwareAssumption DEF IInv, TypeOK, Goto, Invalid, TmpFollows,
     FlashFollows, Flashing, OnlyGenuineFlashed,
     KernelBoots, KernelWhole, KernelCovered, UncoveredByBoot, EffectiveFit,
     BootMarkers, FirmwareMarkers
<1>1. ASSUME NEW f \in Frm, Begin(u, f) PROVE FlashFollows(u)'
  BY <1>1 DEF Begin
<1>2. ASSUME Split(u) PROVE FlashFollows(u)'
  BY <1>2 DEF Split
<1>3. ASSUME FrmSize(u) PROVE FlashFollows(u)'
  BY <1>3 DEF FrmSize
<1>4. ASSUME Checksum(u) PROVE FlashFollows(u)'
  <2>1. "SUCCESS" \in marker'[u] => "SUCCESS" \in marker[u]
    <3>1. CASE marker' = [marker EXCEPT ![u] = @ \union {"FAILED_FIRMWARE_CHSUM_ERROR"}]
      BY <3>1
    <3> QED
      BY <1>4, <3>1 DEF Checksum
  <2> QED
    BY <1>4, <2>1 DEF Checksum
<1>5. ASSUME Magic(u) PROVE FlashFollows(u)'
  BY <1>5 DEF Magic, Fail
<1>6. ASSUME DdStart(u) PROVE FlashFollows(u)'
  BY <1>6 DEF DdStart, Fail
<1>7. ASSUME DdEnd(u) PROVE FlashFollows(u)'
  <2>1. tmp \in Image /\ tmp = file[u].img /\ mtd3.img = tmp /\ mtd3.writer = u
        /\ size[u] = Size[tmp]
    BY <1>7 DEF DdEnd
  <2>2. UNCHANGED <<file, size, tmp>>
    BY <1>7 DEF DdEnd
  <2>3. CASE pc'[u] = "env"
    <3>1. mtd3' = [img |-> mtd3.img, writer |-> None] /\ UNCHANGED marker
      BY <1>7, <2>1, <2>3 DEF DdEnd
    <3> QED
      BY <1>7, <2>1, <2>2, <2>3, <3>1 DEF DdEnd
  <2>4. CASE pc'[u] = "clean"
    <3>1. mtd3' = [img |-> Torn, writer |-> None]
      BY <1>7, <2>4 DEF DdEnd
    <3> QED
      BY <2>4, <3>1
  <2> QED
    BY <1>7, <2>3, <2>4 DEF DdEnd
<1>8. ASSUME EnvStart(u) PROVE FlashFollows(u)'
  BY <1>8 DEF EnvStart, Fail
<1>9. ASSUME EnvEnd(u) PROVE FlashFollows(u)'
  <2>1. CASE pc'[u] = "touch"
    <3>1. fit' = size[u] /\ replaced' = FALSE /\ UNCHANGED <<mtd3, file, marker>>
      BY <1>9, <2>1 DEF EnvEnd
    <3>2. mtd3.writer = None /\ mtd3.img = file[u].img /\ size[u] = Size[mtd3.img]
          /\ mtd3.img \in Image /\ size[u] \in Nat /\ "SUCCESS" \notin marker[u]
      <4>1. pc[u] = "env_end" /\ file[u] \in AnyFrm
        BY <1>9 DEF EnvEnd
      <4> QED
        BY <4>1 DEF AnyFrm
    <3>3. KernelBoots'
      BY <3>1, <3>2
    <3> QED
      BY <2>1, <3>1, <3>2, <3>3
  <2>2. CASE pc'[u] = "clean"
    BY <1>9, <2>2 DEF EnvEnd
  <2> QED
    BY <1>9, <2>1, <2>2 DEF EnvEnd
<1>10. ASSUME Touch(u) PROVE FlashFollows(u)'
  BY <1>10 DEF Touch, Fail
<1>11. ASSUME Clean(u) PROVE FlashFollows(u)'
  BY <1>11 DEF Clean
<1>12. ASSUME u = Daemon, NoFirmware PROVE FlashFollows(u)'
  BY <1>12 DEF NoFirmware
<1>13. ASSUME u = Daemon, NoBoot PROVE FlashFollows(u)'
  BY <1>13 DEF NoBoot, Skip
<1>14. ASSUME u = Daemon, BootBegin PROVE FlashFollows(u)'
  BY <1>14 DEF BootBegin
<1>15. ASSUME u = Daemon, BootChecks PROVE FlashFollows(u)'
  BY <1>15 DEF BootChecks
<1>16. ASSUME u = Daemon, BootDd0Start PROVE FlashFollows(u)'
  BY <1>16 DEF BootDd0Start, BootFail
<1>17. ASSUME u = Daemon, BootDd0End PROVE FlashFollows(u)'
  BY <1>17 DEF BootDd0End, BootFail
<1>18. ASSUME u = Daemon, BootDd1Start PROVE FlashFollows(u)'
  BY <1>18 DEF BootDd1Start, BootFail
<1>19. ASSUME u = Daemon, BootDd1End PROVE FlashFollows(u)'
  BY <1>19 DEF BootDd1End, BootFail
<1>20. ASSUME u = Daemon, BootTouch PROVE FlashFollows(u)'
  BY <1>20 DEF BootTouch
<1>21. ASSUME u = Daemon, SessionEnd PROVE FlashFollows(u)'
  BY <1>21 DEF SessionEnd, Skip
<1>22. ASSUME Restart PROVE FlashFollows(u)'
  BY <1>22 DEF Restart
<1>23. CASE UNCHANGED vars
  BY <1>23 DEF vars
<1> HIDE DEF IInv, TypeOK, Goto, Invalid, TmpFollows, FlashFollows, Flashing,
     OnlyGenuineFlashed, KernelBoots, KernelWhole, KernelCovered, UncoveredByBoot, EffectiveFit,
     BootMarkers, FirmwareMarkers
<1> QED
  BY <1>1, <1>2, <1>3, <1>4, <1>5, <1>6, <1>7, <1>8, <1>9, <1>10, <1>11, <1>12,
       <1>13, <1>14, <1>15, <1>16, <1>17, <1>18, <1>19, <1>20, <1>21, <1>22, <1>23
       DEF Next, SessionReset

(* The kernel stops booting only by starting a flash, or one cut short. *)
LEMMA KernelStep ==
  ASSUME NEW u, Updater = {u}, IInv, [Next]_vars
  PROVE  KernelBootsUnlessCut'
<1> USE FirmwareAssumption DEF IInv, TypeOK, Goto, Invalid, TmpFollows,
     FlashFollows, OnlyGenuineFlashed, KernelBootsUnlessCut,
     KernelBoots, KernelWhole, KernelCovered, UncoveredByBoot, EffectiveFit, InFirmwareFlash
<1>1. ASSUME NEW f \in Frm, Begin(u, f) PROVE KernelBootsUnlessCut'
  BY <1>1 DEF Begin
<1>2. ASSUME Split(u) PROVE KernelBootsUnlessCut'
  BY <1>2 DEF Split
<1>3. ASSUME FrmSize(u) PROVE KernelBootsUnlessCut'
  BY <1>3 DEF FrmSize
<1>4. ASSUME Checksum(u) PROVE KernelBootsUnlessCut'
  BY <1>4 DEF Checksum
<1>5. ASSUME Magic(u) PROVE KernelBootsUnlessCut'
  BY <1>5 DEF Magic, Fail
<1>6. ASSUME DdStart(u) PROVE KernelBootsUnlessCut'
  BY <1>6 DEF DdStart, Fail
<1>7. ASSUME DdEnd(u) PROVE KernelBootsUnlessCut'
  BY <1>7 DEF DdEnd, Fail
<1>8. ASSUME EnvStart(u) PROVE KernelBootsUnlessCut'
  <2>1. pc'[u] = "env_end" \/ interrupted' = TRUE
    BY <1>8 DEF EnvStart, Fail
  <2> QED
    BY <2>1
<1>9. ASSUME EnvEnd(u) PROVE KernelBootsUnlessCut'
  <2>1. KernelWhole /\ size[u] = Size[mtd3.img] /\ size[u] \in Nat
    <3>1. pc[u] = "env_end" /\ file[u] \in AnyFrm
      BY <1>9 DEF EnvEnd
    <3> QED
      BY <3>1 DEF AnyFrm
  <2>2. CASE fit' = size[u] /\ UNCHANGED mtd3
    BY <2>1, <2>2
  <2>3. CASE interrupted' = TRUE
    BY <2>3
  <2> QED
    BY <1>9, <2>2, <2>3 DEF EnvEnd, Fail
<1>10. ASSUME Touch(u) PROVE KernelBootsUnlessCut'
  BY <1>10 DEF Touch, Fail
<1>11. ASSUME Clean(u) PROVE KernelBootsUnlessCut'
  BY <1>11 DEF Clean
<1>12. ASSUME u = Daemon, NoFirmware PROVE KernelBootsUnlessCut'
  BY <1>12 DEF NoFirmware
<1>13. ASSUME u = Daemon, NoBoot PROVE KernelBootsUnlessCut'
  BY <1>13 DEF NoBoot, Skip
<1>14. ASSUME u = Daemon, BootBegin PROVE KernelBootsUnlessCut'
  BY <1>14 DEF BootBegin
<1>15. ASSUME u = Daemon, BootChecks PROVE KernelBootsUnlessCut'
  BY <1>15 DEF BootChecks
<1>16. ASSUME u = Daemon, BootDd0Start PROVE KernelBootsUnlessCut'
  BY <1>16 DEF BootDd0Start, BootFail
<1>17. ASSUME u = Daemon, BootDd0End PROVE KernelBootsUnlessCut'
  BY <1>17 DEF BootDd0End, BootFail
<1>18. ASSUME u = Daemon, BootDd1Start PROVE KernelBootsUnlessCut'
  BY <1>18 DEF BootDd1Start, BootFail
<1>19. ASSUME u = Daemon, BootDd1End PROVE KernelBootsUnlessCut'
  BY <1>19 DEF BootDd1End, BootFail
<1>20. ASSUME u = Daemon, BootTouch PROVE KernelBootsUnlessCut'
  BY <1>20 DEF BootTouch
<1>21. ASSUME u = Daemon, SessionEnd PROVE KernelBootsUnlessCut'
  BY <1>21 DEF SessionEnd, Skip
<1>22. ASSUME Restart PROVE KernelBootsUnlessCut'
  BY <1>22 DEF Restart
<1>23. CASE UNCHANGED vars
  BY <1>23 DEF vars
<1> HIDE DEF IInv, TypeOK, Goto, Invalid, TmpFollows, FlashFollows,
     OnlyGenuineFlashed, KernelBootsUnlessCut,
     KernelBoots, KernelWhole, KernelCovered, UncoveredByBoot, EffectiveFit,
     InFirmwareFlash
<1> QED
  BY <1>1, <1>2, <1>3, <1>4, <1>5, <1>6, <1>7, <1>8, <1>9, <1>10, <1>11, <1>12,
       <1>13, <1>14, <1>15, <1>16, <1>17, <1>18, <1>19, <1>20, <1>21, <1>22, <1>23
       DEF Next, SessionReset

(* SUCCESS stays true for as long as it is on the drive. *)
LEMMA SuccessStep ==
  ASSUME NEW u, Updater = {u}, IInv, [Next]_vars
  PROVE  SuccessIsInstalled'
<1> USE FirmwareAssumption DEF IInv, TypeOK, Goto, Invalid, TmpFollows,
     FlashFollows, Flashing, OnlyGenuineFlashed, SuccessIsInstalled, KernelBoots,
     KernelWhole, KernelCovered, UncoveredByBoot, EffectiveFit, BootMarkers, FirmwareMarkers
<1>1. ASSUME NEW f \in Frm, Begin(u, f) PROVE SuccessIsInstalled'
  BY <1>1 DEF Begin
<1>2. ASSUME Split(u) PROVE SuccessIsInstalled'
  BY <1>2 DEF Split
<1>3. ASSUME FrmSize(u) PROVE SuccessIsInstalled'
  BY <1>3 DEF FrmSize
<1>4. ASSUME Checksum(u) PROVE SuccessIsInstalled'
  <2>1. "SUCCESS" \in marker'[u] => "SUCCESS" \in marker[u]
    <3>1. CASE marker' = [marker EXCEPT ![u] = @ \union {"FAILED_FIRMWARE_CHSUM_ERROR"}]
      BY <3>1
    <3> QED
      BY <1>4, <3>1 DEF Checksum
  <2> QED
    BY <1>4, <2>1 DEF Checksum
<1>5. ASSUME Magic(u) PROVE SuccessIsInstalled'
  BY <1>5 DEF Magic, Fail
<1>6. ASSUME DdStart(u) PROVE SuccessIsInstalled'
  BY <1>6 DEF DdStart, Fail
<1>7. ASSUME DdEnd(u) PROVE SuccessIsInstalled'
  BY <1>7 DEF DdEnd, Fail
<1>8. ASSUME EnvStart(u) PROVE SuccessIsInstalled'
  BY <1>8 DEF EnvStart, Fail
<1>9. ASSUME EnvEnd(u) PROVE SuccessIsInstalled'
  BY <1>9 DEF EnvEnd, Fail
<1>10. ASSUME Touch(u) PROVE SuccessIsInstalled'
  BY <1>10 DEF Touch, Fail
<1>11. ASSUME Clean(u) PROVE SuccessIsInstalled'
  BY <1>11 DEF Clean
<1>12. ASSUME u = Daemon, NoFirmware PROVE SuccessIsInstalled'
  BY <1>12 DEF NoFirmware
<1>13. ASSUME u = Daemon, NoBoot PROVE SuccessIsInstalled'
  BY <1>13 DEF NoBoot, Skip
<1>14. ASSUME u = Daemon, BootBegin PROVE SuccessIsInstalled'
  BY <1>14 DEF BootBegin
<1>15. ASSUME u = Daemon, BootChecks PROVE SuccessIsInstalled'
  BY <1>15 DEF BootChecks
<1>16. ASSUME u = Daemon, BootDd0Start PROVE SuccessIsInstalled'
  BY <1>16 DEF BootDd0Start, BootFail
<1>17. ASSUME u = Daemon, BootDd0End PROVE SuccessIsInstalled'
  BY <1>17 DEF BootDd0End, BootFail
<1>18. ASSUME u = Daemon, BootDd1Start PROVE SuccessIsInstalled'
  BY <1>18 DEF BootDd1Start, BootFail
<1>19. ASSUME u = Daemon, BootDd1End PROVE SuccessIsInstalled'
  BY <1>19 DEF BootDd1End, BootFail
<1>20. ASSUME u = Daemon, BootTouch PROVE SuccessIsInstalled'
  BY <1>20 DEF BootTouch
<1>21. ASSUME u = Daemon, SessionEnd PROVE SuccessIsInstalled'
  BY <1>21 DEF SessionEnd, Skip
<1>22. ASSUME Restart PROVE SuccessIsInstalled'
  BY <1>22 DEF Restart
<1>23. CASE UNCHANGED vars
  BY <1>23 DEF vars
<1> HIDE DEF IInv, TypeOK, Goto, Invalid, TmpFollows, FlashFollows, Flashing,
     OnlyGenuineFlashed, SuccessIsInstalled,
     KernelBoots, KernelWhole, KernelCovered, UncoveredByBoot, EffectiveFit,
     BootMarkers, FirmwareMarkers
<1> QED
  BY <1>1, <1>2, <1>3, <1>4, <1>5, <1>6, <1>7, <1>8, <1>9, <1>10, <1>11, <1>12,
       <1>13, <1>14, <1>15, <1>16, <1>17, <1>18, <1>19, <1>20, <1>21, <1>22, <1>23
       DEF Next, SessionReset

LEMMA InitType ==
  ASSUME Init
  PROVE  TypeOK
<1> USE FirmwareAssumption DEF Init
<1>1. mtd3 \in [img : Image \union {Torn}, writer : Updater \union {None}]
  OBVIOUS
<1>2. fit \in Nat \union {Invalid} /\ tmp \in Image \union {Torn, NoFile}
  OBVIOUS
<1>3. pc \in [Updater -> Stage] /\ marker \in [Updater -> SUBSET Marker]
  BY DEF Stage
<1>4. file \in [Updater -> AnyFrm] /\ size \in [Updater -> Nat]
  BY DEF AnyFrm
<1>5. doReset \in BOOLEAN /\ interrupted \in BOOLEAN /\ replaced \in BOOLEAN /\ booted \in BOOLEAN
  OBVIOUS
<1> QED
  BY <1>1, <1>2, <1>3, <1>4, <1>5 DEF TypeOK

(* Type correctness, for any number of updaters at once. *)
THEOREM TypeCorrect == Spec => []TypeOK
<1>1. Init => TypeOK
  BY InitType
<1>2. TypeOK /\ [Next]_vars => TypeOK'
  BY TypeStep
<1> QED
  BY <1>1, <1>2, PTL DEF Spec

LEMMA IInvInit ==
  ASSUME SingleUpdater, Init
  PROVE  IInv
<1>1. TypeOK
  BY InitType
<1>2. ASSUME NEW u \in Updater PROVE TmpFollows(u) /\ FlashFollows(u)
  BY <1>2, FirmwareAssumption DEF Init, TmpFollows, FlashFollows
<1>3. KernelBoots
  BY FirmwareAssumption DEF Init, KernelBoots, KernelWhole, KernelCovered, UncoveredByBoot, EffectiveFit, Invalid
<1>4. OnlyGenuineFlashed /\ KernelBootsUnlessCut /\ SuccessIsInstalled
  BY <1>3, FirmwareAssumption
     DEF Init, OnlyGenuineFlashed, KernelBootsUnlessCut, SuccessIsInstalled, KernelBoots
<1> QED
  BY <1>1, <1>2, <1>4 DEF IInv

LEMMA IInvStep ==
  ASSUME SingleUpdater, Updater # {}, IInv, [Next]_vars
  PROVE  IInv'
<1> PICK u : Updater = {u}
  BY DEF SingleUpdater
<1>1. TypeOK'
  BY TypeStep DEF IInv
<1>2. TmpFollows(u)' /\ FlashFollows(u)'
  BY TmpStep, FlashStep
<1>3. OnlyGenuineFlashed' /\ KernelBootsUnlessCut' /\ SuccessIsInstalled'
  BY GenuineStep, KernelStep, SuccessStep
<1> QED
  BY <1>1, <1>2, <1>3 DEF IInv

LEMMA Invariance ==
  ASSUME SingleUpdater, Updater # {}
  PROVE  Spec => []IInv
<1>1. Init => IInv
  BY IInvInit
<1>2. IInv /\ [Next]_vars => IInv'
  BY IInvStep
<1> QED
  BY <1>1, <1>2, PTL DEF Spec

(* With one updater, only released payloads for this device reach the kernel
   partition: whatever .frm files it is given, however often dd, fw_setenv or the
   power fails. *)
THEOREM OnlyGenuineFlashedCorrect ==
  ASSUME SingleUpdater, Updater # {}
  PROVE  Spec => []OnlyGenuineFlashed
<1>1. IInv => OnlyGenuineFlashed
  BY DEF IInv
<1> QED
  BY <1>1, Invariance, PTL

(* With one updater, the device loses its kernel only to a flash cut short or to
   the fit_size of a boot.frm, however large the payloads are. *)
THEOREM KernelBootsUnlessCutCorrect ==
  ASSUME SingleUpdater, Updater # {}
  PROVE  Spec => []KernelBootsUnlessCut
<1>1. IInv => KernelBootsUnlessCut
  BY DEF IInv
<1> QED
  BY <1>1, Invariance, PTL

(* With one updater, SUCCESS on the drive means that the file is in flash, whole, and
   covered by fit_size as long as no boot.frm has replaced the environment. *)
THEOREM SuccessIsInstalledCorrect ==
  ASSUME SingleUpdater, Updater # {}
  PROVE  Spec => []SuccessIsInstalled
<1>1. IInv => SuccessIsInstalled
  BY DEF IInv
<1> QED
  BY <1>1, Invariance, PTL

-------------------------------------------------------------------------------
(* FirmwareUpdate implements KernelUpdate. *)

Told(u) == "SUCCESS" \in marker[u]

LEMMA ToldOfOne ==
  ASSUME NEW u, Updater = {u}
  PROVE  ToldOf = IF Told(u) THEN {file[u].img} ELSE {}
  BY DEF ToldOf, Told

LEMMA ToldOfOnePrime ==
  ASSUME NEW u, Updater = {u}
  PROVE  ToldOf' = IF Told(u)' THEN {file'[u].img} ELSE {}
  BY DEF ToldOf, Told

(* What the abstract state can be. *)
LEMMA KernelType ==
  ASSUME IInv
  PROVE  /\ KernelOf \in (Genuine \cap HasMagic) \union {Torn}
         /\ KernelBoots \in BOOLEAN
         /\ KernelBoots => KernelOf # Torn
BY DEF IInv, OnlyGenuineFlashed, KernelOf, KernelBoots, KernelWhole, KernelCovered

(* A step that changes neither the kernel in flash, nor what the drive says, nor
   whose the environment is, can only change how much of the kernel U-Boot loads,
   and while the drive says SUCCESS only if it is the environment of a boot.frm. *)
LEMMA SettingMaps ==
  ASSUME NEW u, Updater = {u}, IInv, IInv', UNCHANGED <<mtd3, file, replaced>>,
         Told(u)' <=> Told(u)
  PROVE  [Abstract!Next]_<<KernelOf, KernelBoots, replaced, ToldOf>>
<1>1. ToldOf' = ToldOf /\ KernelOf' = KernelOf
  BY ToldOfOne, ToldOfOnePrime DEF KernelOf, KernelWhole
<1>2. KernelBoots' \in BOOLEAN /\ KernelBoots \in BOOLEAN
  BY DEF KernelBoots, KernelWhole, KernelCovered
<1>3. CASE KernelBoots' = KernelBoots
  BY <1>1, <1>3
<1>4. CASE KernelBoots' # KernelBoots
  <2>1. KernelOf # Torn
    <3>1. KernelWhole
      BY <1>2, <1>4 DEF KernelBoots, KernelWhole
    <3> QED
      BY <3>1 DEF KernelOf, KernelWhole
  <2>2. CASE Told(u)
    <3>1. replaced = TRUE
      <4>1. SuccessIsInstalled /\ SuccessIsInstalled'
        BY DEF IInv
      <4>2. KernelCovered \/ replaced
        BY <2>2, <4>1 DEF SuccessIsInstalled, Told, UncoveredByBoot
      <4>3. KernelCovered' \/ replaced'
        BY <2>2, <4>1 DEF SuccessIsInstalled, Told, UncoveredByBoot
      <4>4. KernelWhole /\ KernelWhole'
        BY <2>2, <4>1 DEF SuccessIsInstalled, Told
      <4>5. replaced \in BOOLEAN
        BY DEF IInv, TypeOK
      <4> QED
        BY <1>4, <4>2, <4>3, <4>4, <4>5 DEF KernelBoots
    <3> QED
      BY <1>1, <1>2, <2>1, <3>1 DEF Abstract!Next, Abstract!Replace
  <2>3. CASE ~Told(u)
    <3>1. ToldOf = {}
      BY <2>3, ToldOfOne
    <3> QED
      BY <1>1, <1>2, <2>1, <3>1 DEF Abstract!Next, Abstract!Unset
  <2> QED
    BY <2>2, <2>3
<1> QED
  BY <1>3, <1>4

(* boot.frm's environment replaces that in which fit_size was set. *)
LEMMA ReplaceMaps ==
  ASSUME NEW u, Updater = {u}, IInv, IInv', UNCHANGED <<mtd3, file>>,
         Told(u)' <=> Told(u), replaced' = TRUE
  PROVE  [Abstract!Next]_<<KernelOf, KernelBoots, replaced, ToldOf>>
<1>1. ToldOf' = ToldOf /\ KernelOf' = KernelOf
  BY ToldOfOne, ToldOfOnePrime DEF KernelOf, KernelWhole
<1>2. KernelBoots' \in (IF KernelOf = Torn THEN {FALSE} ELSE BOOLEAN)
  BY DEF KernelBoots, KernelWhole, KernelCovered, KernelOf
<1> QED
  BY <1>1, <1>2 DEF Abstract!Next, Abstract!Replace

(* fw_setenv sets fit_size for the kernel that dd has just written. *)
LEMMA SetMaps ==
  ASSUME NEW u, Updater = {u}, IInv, IInv', EnvEnd(u)
  PROVE  [Abstract!Next]_<<KernelOf, KernelBoots, replaced, ToldOf>>
<1>1. ~Told(u) /\ ~Told(u)' /\ UNCHANGED <<mtd3, file>>
  BY DEF EnvEnd, Goto, IInv, TypeOK, FlashFollows, Flashing, Told, Fail
<1>2. ToldOf = {} /\ ToldOf' = {} /\ KernelOf' = KernelOf
  BY <1>1, ToldOfOne, ToldOfOnePrime DEF KernelOf, KernelWhole
<1>3. CASE pc'[u] = "touch"
  <2>1. KernelBoots' = TRUE /\ replaced' = FALSE
    <3>1. KernelBoots' /\ ~replaced' /\ replaced' \in BOOLEAN
      BY <1>3 DEF IInv, FlashFollows, TypeOK
    <3> QED
      BY <3>1 DEF KernelBoots, KernelWhole, KernelCovered
  <2>2. KernelOf # Torn
    <3>1. KernelWhole'
      BY <2>1 DEF KernelBoots
    <3> QED
      BY <1>1, <3>1 DEF KernelOf, KernelWhole
  <2> QED
    BY <1>2, <2>1, <2>2 DEF Abstract!Next, Abstract!Set
<1>4. CASE UNCHANGED replaced
  BY <1>1, <1>4, SettingMaps
<1> QED
  BY <1>3, <1>4 DEF EnvEnd, Goto, IInv, TypeOK

(* The steps of dd itself. *)
LEMMA DdMaps ==
  ASSUME NEW u, Updater = {u}, IInv, IInv', DdStart(u) \/ DdEnd(u)
  PROVE  [Abstract!Next]_<<KernelOf, KernelBoots, replaced, ToldOf>>
<1>1. ~Told(u) /\ (Told(u)' <=> Told(u)) /\ UNCHANGED replaced
  BY DEF DdStart, DdEnd, Goto, IInv, TypeOK, FlashFollows, Flashing, Told, Fail
<1>2. ToldOf = {} /\ ToldOf' = {}
  BY <1>1, ToldOfOne, ToldOfOnePrime
<1>3. CASE DdStart(u)
  <2>1. CASE mtd3' = [img |-> tmp, writer |-> u]
    <3>1. ~KernelWhole'
      BY <2>1, FirmwareAssumption DEF KernelWhole
    <3>2. KernelOf' = Torn /\ KernelBoots' = FALSE
      BY <3>1 DEF KernelOf, KernelBoots
    <3> QED
      BY <1>1, <1>2, <3>2 DEF Abstract!Next, Abstract!Lose
  <2>2. CASE UNCHANGED mtd3
    BY <1>1, <1>3, <2>2, SettingMaps DEF DdStart
  <2> QED
    BY <1>3, <2>1, <2>2 DEF DdStart
<1>4. CASE DdEnd(u)
  <2>1. KernelOf = Torn /\ KernelBoots = FALSE
    <3>1. ~KernelWhole
      BY <1>4, FirmwareAssumption DEF DdEnd, Goto, IInv, FlashFollows, KernelWhole
    <3> QED
      BY <3>1 DEF KernelOf, KernelBoots
  <2>2. KernelOf' \in (Genuine \cap HasMagic) \union {Torn}
    BY DEF IInv, OnlyGenuineFlashed, KernelOf
  <2>3. KernelBoots' \in BOOLEAN /\ (KernelOf' = Torn => KernelBoots' = FALSE)
    BY DEF KernelBoots, KernelWhole, KernelCovered, KernelOf
  <2>4. CASE KernelOf' = Torn
    BY <1>1, <1>2, <2>1, <2>3, <2>4
  <2>5. CASE KernelOf' # Torn
    BY <1>1, <1>2, <2>1, <2>2, <2>3, <2>5 DEF Abstract!Next, Abstract!Install
  <2> QED
    BY <2>4, <2>5
<1> QED
  BY <1>3, <1>4

(* The next file, and a restart, which finds the kernel as it was. *)
LEMMA ForgetMaps ==
  ASSUME NEW u, Updater = {u}, IInv, (\E f \in Frm : Begin(u, f)) \/ Restart
  PROVE  [Abstract!Next]_<<KernelOf, KernelBoots, replaced, ToldOf>>
<1>1. ~Told(u)' /\ UNCHANGED <<fit, replaced>>
  BY DEF Begin, Restart, IInv, TypeOK, Told, FirmwareMarkers
<1>2. ToldOf' = {}
  BY <1>1, ToldOfOnePrime
<1>3. KernelOf' = KernelOf /\ KernelBoots' = KernelBoots
  <2>1. CASE UNCHANGED mtd3
    BY <1>1, <2>1 DEF KernelOf, KernelBoots, KernelWhole, KernelCovered, EffectiveFit
  <2>2. CASE Restart /\ mtd3.writer # None
    <3>1. ~KernelWhole /\ ~KernelWhole'
      BY <2>2 DEF Restart, KernelWhole
    <3> QED
      BY <3>1 DEF KernelOf, KernelBoots
  <2> QED
    BY <2>1, <2>2 DEF Begin, Restart
<1> QED
  BY <1>1, <1>2, <1>3 DEF Abstract!Next, Abstract!Forget

LEMMA TouchMaps ==
  ASSUME NEW u, Updater = {u}, IInv, IInv', Touch(u)
  PROVE  [Abstract!Next]_<<KernelOf, KernelBoots, replaced, ToldOf>>
<1>1. /\ ~Told(u) /\ KernelBoots /\ mtd3.img = file[u].img /\ ~replaced
      /\ UNCHANGED <<mtd3, fit, file, replaced>>
  BY DEF Touch, Goto, IInv, FlashFollows, Flashing, Told
<1>2. CASE Told(u)'
  <2>1. KernelOf' = KernelOf /\ KernelBoots' = KernelBoots
    BY <1>1 DEF KernelOf, KernelBoots, KernelWhole, KernelCovered, EffectiveFit
  <2>2. KernelOf = file[u].img /\ KernelOf # Torn
    BY <1>1 DEF KernelOf, KernelBoots, KernelWhole
  <2>3. ToldOf = {} /\ ToldOf' = {KernelOf}
    BY <1>1, <1>2, <2>2, ToldOfOne, ToldOfOnePrime
  <2> QED
    BY <1>1, <2>1, <2>2, <2>3 DEF Abstract!Next, Abstract!Tell
<1>3. CASE ~Told(u)'
  BY <1>1, <1>3, SettingMaps
<1> QED
  BY <1>2, <1>3

LEMMA UpdateStepMaps ==
  ASSUME SingleUpdater, Updater # {}, IInv, [Next]_vars
  PROVE  [Abstract!Next]_<<KernelOf, KernelBoots, replaced, ToldOf>>
<1> PICK u : Updater = {u}
  BY DEF SingleUpdater
<1>0. IInv'
  BY IInvStep
<1>1. \/ \E f \in Frm : Begin(u, f)
      \/ Split(u) \/ FrmSize(u) \/ Checksum(u) \/ Magic(u) \/ DdStart(u) \/ DdEnd(u)
      \/ EnvStart(u) \/ EnvEnd(u) \/ Touch(u) \/ Clean(u)
      \/ u = Daemon /\ (\/ NoFirmware \/ NoBoot \/ BootBegin \/ BootChecks \/ BootDd0Start
                        \/ BootDd0End \/ BootDd1Start \/ BootDd1End \/ BootTouch \/ SessionEnd)
      \/ Restart \/ UNCHANGED vars
  BY DEF Next, SessionReset
<1> DEFINE Same == UNCHANGED <<mtd3, file, replaced>> /\ (Told(u)' <=> Told(u))
<1>2. Same => [Abstract!Next]_<<KernelOf, KernelBoots, replaced, ToldOf>>
  BY <1>0, SettingMaps
<1> USE DEF IInv, TypeOK, Told, BootMarkers
<1>3. CASE Split(u)
  <2>1. Same
    BY <1>3 DEF Split
  <2> QED
    BY <1>2, <2>1
<1>4. CASE FrmSize(u)
  <2>1. Same
    BY <1>4 DEF FrmSize
  <2> QED
    BY <1>2, <2>1
<1>5. CASE Checksum(u)
  <2>1. Same
    <3>1. CASE UNCHANGED marker
      BY <1>5, <3>1 DEF Checksum
    <3>2. CASE marker' = [marker EXCEPT ![u] = @ \union {"FAILED_FIRMWARE_CHSUM_ERROR"}]
      <4>1. Told(u)' <=> Told(u)
        BY <3>2
      <4> QED
        BY <1>5, <4>1 DEF Checksum
    <3> QED
      BY <1>5, <3>1, <3>2 DEF Checksum
  <2> QED
    BY <1>2, <2>1
<1>6. CASE Magic(u)
  <2>1. Same
    BY <1>6 DEF Magic, Fail
  <2> QED
    BY <1>2, <2>1
<1>7. CASE EnvStart(u)
  <2>1. Same
    BY <1>7 DEF EnvStart, Fail
  <2> QED
    BY <1>2, <2>1
<1>8. CASE EnvEnd(u)
  BY <1>0, <1>8, SetMaps
<1>9. CASE Clean(u)
  <2>1. Same
    BY <1>9 DEF Clean
  <2> QED
    BY <1>2, <2>1
<1>10. CASE u = Daemon /\ NoFirmware
  <2>1. Same
    BY <1>10 DEF NoFirmware
  <2> QED
    BY <1>2, <2>1
<1>11. CASE u = Daemon /\ NoBoot
  <2>1. Same
    BY <1>11 DEF NoBoot, Skip
  <2> QED
    BY <1>2, <2>1
<1>12. CASE u = Daemon /\ BootBegin
  <2>1. Same
    BY <1>12 DEF BootBegin
  <2> QED
    BY <1>2, <2>1
<1>13. CASE u = Daemon /\ BootChecks
  <2>1. Same
    BY <1>13 DEF BootChecks
  <2> QED
    BY <1>2, <2>1
<1>14. CASE u = Daemon /\ BootDd0Start
  <2>1. Same
    BY <1>14 DEF BootDd0Start, BootFail
  <2> QED
    BY <1>2, <2>1
<1>15. CASE u = Daemon /\ BootDd0End
  <2>1. Same
    BY <1>15 DEF BootDd0End, BootFail
  <2> QED
    BY <1>2, <2>1
<1>16. CASE u = Daemon /\ BootDd1Start
  <2>1. CASE replaced' = TRUE
    <3>1. UNCHANGED <<mtd3, file>> /\ (Told(u)' <=> Told(u))
      BY <1>16 DEF BootDd1Start, BootFail
    <3> QED
      BY <1>0, <2>1, <3>1, ReplaceMaps
  <2>2. CASE UNCHANGED replaced
    <3>1. Same
      BY <1>16, <2>2 DEF BootDd1Start, BootFail
    <3> QED
      BY <1>2, <3>1
  <2> QED
    BY <1>16, <2>1, <2>2 DEF BootDd1Start
<1>17. CASE u = Daemon /\ BootDd1End
  <2>1. Same
    BY <1>17 DEF BootDd1End, BootFail
  <2> QED
    BY <1>2, <2>1
<1>18. CASE u = Daemon /\ BootTouch
  <2>1. Same
    BY <1>18 DEF BootTouch
  <2> QED
    BY <1>2, <2>1
<1>19. CASE u = Daemon /\ SessionEnd
  <2>1. Same
    BY <1>19 DEF SessionEnd, Skip
  <2> QED
    BY <1>2, <2>1
<1>20. CASE UNCHANGED vars
  <2>1. Same
    BY <1>20 DEF vars
  <2> QED
    BY <1>2, <2>1
<1> HIDE DEF IInv, TypeOK, Told, BootMarkers
<1> QED
  BY <1>0, <1>1, <1>3, <1>4, <1>5, <1>6, <1>7, <1>8, <1>9, <1>10, <1>11, <1>12,
     <1>13, <1>14, <1>15, <1>16, <1>17, <1>18, <1>19, <1>20,
     DdMaps, ForgetMaps, TouchMaps

(* With one updater, whatever fails and whenever power goes: the kernel in flash goes
   from one released payload to none and from none to one, the drive says SUCCESS only
   of the one that is there, and it stays loadable while the drive says so, but for a
   boot.frm that brings another environment. *)
THEOREM UpdateImplemented ==
  ASSUME SingleUpdater, Updater # {}
  PROVE  Spec => ImplementsUpdate
<1>1. Init => Abstract!Init
  <2> SUFFICES ASSUME Init PROVE Abstract!Init
    OBVIOUS
  <2>1. KernelWhole /\ KernelCovered /\ mtd3.img = Factory
    BY FirmwareAssumption DEF Init, KernelWhole, KernelCovered, EffectiveFit, Invalid
  <2>2. KernelOf = Factory /\ KernelBoots = TRUE
    BY <2>1 DEF KernelOf, KernelBoots, KernelWhole
  <2>3. ToldOf = {} /\ replaced = FALSE
    BY DEF Init, ToldOf
  <2> QED
    BY <2>2, <2>3 DEF Abstract!Init
<1>2. IInv /\ [Next]_vars => [Abstract!Next]_<<KernelOf, KernelBoots, replaced, ToldOf>>
  BY UpdateStepMaps
<1>3. <<KernelOf, KernelBoots, replaced, ToldOf>> = Abstract!vars
  BY DEF Abstract!vars
<1> QED
  BY <1>1, <1>2, <1>3, Invariance, PTL DEF Spec, ImplementsUpdate, Abstract!Spec, Abstract!vars

(* Where a torn boot loader shows: the daemon is writing it, or about to; or it has
   left a marker of its failure on the drive; or the device is dead already. *)
BootFailures == BootMarkers \ {"BOOT_SUCCESS"}

BootLoaderFollows(u) ==
  /\ ~booted => pc[u] = "idle"
  /\ mtd0 = "torn" =>
       \/ ~booted
       \/ pc[u] \in {"boot_sum", "boot_dd0", "boot_dd0_end"}
       \/ \E m \in BootFailures : m \in marker[u]

LEMMA BootLoaderStep ==
  ASSUME NEW u, Updater = {u}, TypeOK, BootLoaderFollows(u), [Next]_vars
  PROVE  BootLoaderFollows(u)'
<1> USE DEF TypeOK, Goto, BootLoaderFollows
<1> USE DEF BootFailures, BootMarkers, FirmwareMarkers
<1>1. ASSUME NEW f \in Frm, Begin(u, f) PROVE BootLoaderFollows(u)'
  BY <1>1 DEF Begin
<1>2. ASSUME Split(u) PROVE BootLoaderFollows(u)'
  BY <1>2 DEF Split
<1>3. ASSUME FrmSize(u) PROVE BootLoaderFollows(u)'
  BY <1>3 DEF FrmSize
<1>4. ASSUME Checksum(u) PROVE BootLoaderFollows(u)'
  BY <1>4 DEF Checksum
<1>5. ASSUME Magic(u) PROVE BootLoaderFollows(u)'
  BY <1>5 DEF Magic, Fail
<1>6. ASSUME DdStart(u) PROVE BootLoaderFollows(u)'
  BY <1>6 DEF DdStart, Fail
<1>7. ASSUME DdEnd(u) PROVE BootLoaderFollows(u)'
  BY <1>7 DEF DdEnd, Fail
<1>8. ASSUME EnvStart(u) PROVE BootLoaderFollows(u)'
  BY <1>8 DEF EnvStart, Fail
<1>9. ASSUME EnvEnd(u) PROVE BootLoaderFollows(u)'
  BY <1>9 DEF EnvEnd, Fail
<1>10. ASSUME Touch(u) PROVE BootLoaderFollows(u)'
  BY <1>10 DEF Touch, Fail
<1>11. ASSUME Clean(u) PROVE BootLoaderFollows(u)'
  BY <1>11 DEF Clean
<1>12. ASSUME u = Daemon, NoFirmware PROVE BootLoaderFollows(u)'
  BY <1>12 DEF NoFirmware
<1>13. ASSUME u = Daemon, NoBoot PROVE BootLoaderFollows(u)'
  BY <1>13 DEF NoBoot, Skip
<1>14. ASSUME u = Daemon, BootBegin PROVE BootLoaderFollows(u)'
  BY <1>14 DEF BootBegin
<1>15. ASSUME u = Daemon, BootChecks PROVE BootLoaderFollows(u)'
  BY <1>15 DEF BootChecks
<1>16. ASSUME u = Daemon, BootDd0Start PROVE BootLoaderFollows(u)'
  BY <1>16 DEF BootDd0Start, BootFail
<1>17. ASSUME u = Daemon, BootDd0End PROVE BootLoaderFollows(u)'
  BY <1>17 DEF BootDd0End, BootFail
<1>18. ASSUME u = Daemon, BootDd1Start PROVE BootLoaderFollows(u)'
  BY <1>18 DEF BootDd1Start, BootFail
<1>19. ASSUME u = Daemon, BootDd1End PROVE BootLoaderFollows(u)'
  BY <1>19 DEF BootDd1End, BootFail
<1>20. ASSUME u = Daemon, BootTouch PROVE BootLoaderFollows(u)'
  BY <1>20 DEF BootTouch
<1>21. ASSUME u = Daemon, SessionEnd PROVE BootLoaderFollows(u)'
  BY <1>21 DEF SessionEnd, Skip
<1>22. ASSUME Restart PROVE BootLoaderFollows(u)'
  BY <1>22 DEF Restart
<1>23. CASE UNCHANGED vars
  BY <1>23 DEF vars
<1> HIDE DEF TypeOK, Goto, BootLoaderFollows, BootFailures, BootMarkers, FirmwareMarkers
<1> QED
  BY <1>1, <1>2, <1>3, <1>4, <1>5, <1>6, <1>7, <1>8, <1>9, <1>10, <1>11, <1>12, 
       <1>13, <1>14, <1>15, <1>16, <1>17, <1>18, <1>19, <1>20, <1>21, <1>22, <1>23
     DEF Next, SessionReset

(* With one updater, the daemon's own reset comes up again, unless a flash of the
   kernel was cut short, or the drive shows that one of the boot loader was, or a
   boot.frm has brought a fit_size that does not cover the kernel. *)
THEOREM ResetComesBackCorrect ==
  ASSUME SingleUpdater, Daemon \in Updater
  PROVE  Spec => ResetComesBack
<1> PICK u : Updater = {u}
  BY DEF SingleUpdater
<1>1. Init => BootLoaderFollows(u)
  BY DEF Init, BootLoaderFollows
<1>2. TypeOK /\ BootLoaderFollows(u) /\ [Next]_vars => BootLoaderFollows(u)'
  BY BootLoaderStep
<1>3. ASSUME IInv, BootLoaderFollows(u), SessionReset, ~interrupted,
             marker[Daemon] \cap BootMarkers \subseteq {"BOOT_SUCCESS"},
             replaced => KernelCovered
      PROVE  booted'
  <2>1. u = Daemon /\ pc[u] = "decide"
    BY <1>3 DEF SessionReset
  <2>2. KernelBoots
    BY <1>3, <2>1 DEF IInv, KernelBootsUnlessCut, UncoveredByBoot, InFirmwareFlash,
                      KernelBoots
  <2>3. mtd0 # "torn"
    BY <1>3, <2>1 DEF BootLoaderFollows, BootFailures
  <2> QED
    BY <1>3, <2>2, <2>3 DEF SessionReset, Restart
<1>4. IInv /\ BootLoaderFollows(u) /\ [Next]_vars
        => [/\ SessionReset
            /\ ~interrupted
            /\ marker[Daemon] \cap BootMarkers \subseteq {"BOOT_SUCCESS"}
            /\ replaced => KernelCovered
            => booted']_vars
  BY <1>3
<1>5. IInv => TypeOK
  BY DEF IInv
<1>6. Spec => []IInv
  BY Invariance
<1>7. Spec => []BootLoaderFollows(u)
  BY <1>1, <1>2, <1>5, <1>6, PTL DEF Spec
<1> QED
  BY <1>4, <1>6, <1>7, PTL DEF Spec, ResetComesBack

==================================================================================
