------------------------------ MODULE KernelUpdate ------------------------------
(***************************************************************************)
(* What flashing promises the user: the flash holds one of the released    *)
(* kernels or, while one is being flashed or after that was cut short,      *)
(* none; one kernel never turns into another directly, and none goes while  *)
(* the drive says SUCCESS. What the drive says SUCCESS of is the kernel in  *)
(* flash until the user comes with the next file, and the boot loader loads *)
(* all of it, unless the environment that tells it how much is replaced by  *)
(* one that comes with another boot loader.                                 *)
(* FirmwareUpdate with one updater implements this.                         *)
(***************************************************************************)
CONSTANTS
  Kernel,      \* the released kernels for this device
  Factory,     \* the first of them
  NoKernel

VARIABLES
  kernel,      \* the one that is whole in flash
  loads,       \* the boot loader would load all of it
  foreign,     \* the environment is one that came with a boot loader
  told         \* the files of which the drive says SUCCESS

vars == <<kernel, loads, foreign, told>>

Init == kernel = Factory /\ loads = TRUE /\ foreign = FALSE /\ told = {}

\* The flash of another kernel begins.
Lose ==
  /\ told = {}
  /\ kernel' = NoKernel
  /\ loads' = FALSE
  /\ UNCHANGED <<foreign, told>>

\* It is written, perhaps only after several attempts and restarts.
Install ==
  /\ kernel = NoKernel
  /\ kernel' \in Kernel
  /\ loads' \in BOOLEAN
  /\ UNCHANGED <<foreign, told>>

\* The environment is being set, ...
Unset ==
  /\ told = {} /\ kernel # NoKernel
  /\ loads' \in BOOLEAN
  /\ UNCHANGED <<kernel, foreign, told>>

\* ... and has been, for this kernel.
Set ==
  /\ told = {} /\ kernel # NoKernel
  /\ loads' = TRUE
  /\ foreign' = FALSE
  /\ UNCHANGED <<kernel, told>>

\* A boot loader brings an environment of its own.
Replace ==
  /\ foreign' = TRUE
  /\ loads' \in (IF kernel = NoKernel THEN {FALSE} ELSE BOOLEAN)
  /\ UNCHANGED <<kernel, told>>

Tell ==
  /\ kernel # NoKernel /\ loads /\ ~foreign /\ told = {}
  /\ told' = {kernel}
  /\ UNCHANGED <<kernel, loads, foreign>>

\* The next file, or a restart.
Forget ==
  /\ told' = {}
  /\ UNCHANGED <<kernel, loads, foreign>>

Next == Lose \/ Install \/ Unset \/ Set \/ Replace \/ Tell \/ Forget

Spec == Init /\ [][Next]_vars

================================================================================
