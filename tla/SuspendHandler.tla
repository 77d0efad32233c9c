----------------------------- MODULE SuspendHandler -----------------------------
(***************************************************************************)
(* udc_handle_suspend.sh: the radio sleeps while the USB host suspends the   *)
(* device, and gets its mode back afterwards.                              *)
(*                                                                         *)
(* The script waits with poll_sysfs, which is not part of the repository: it *)
(* looks at the file, waits for the kernel to announce a change after that,  *)
(* and then prints what the file holds. Changes while the script is busy     *)
(* elsewhere are announced to nobody, and the bus and the programs wait for   *)
(* neither.                                                                *)
(***************************************************************************)

CONSTANT Modes   \* of the radio (ensm_mode), besides "sleep"

ASSUME SuspendAssumption == "sleep" \notin Modes

VARIABLES
  udc,       \* the state of the bus
  mode,      \* the mode of the radio
  chosen,    \* history: the mode that a program has set last
  overruled, \* history: the bus has changed after that, but not to or from "suspended",
             \* when another mode was saved
  missed,    \* history: a suspend, its end or a program came while the script was busy,
             \* or a program while the bus was suspended; and since then the script has
             \* not put an awake radio to sleep
  announced, \* the bus has changed since poll_sysfs looked
  pc,        \* where the script is
  state, prev_ensm_mode, current_ensm_mode

script == <<pc, state, prev_ensm_mode, current_ensm_mode>>
vars == <<udc, mode, chosen, overruled, missed, announced, script>>

UdcStates == {"not attached", "addressed", "configured", "suspended"}
AllModes == Modes \cup {"sleep"}

Init ==
  /\ udc = "not attached" /\ announced = FALSE
  /\ mode \in Modes /\ chosen = mode
  /\ overruled = FALSE /\ missed = FALSE
  /\ pc = "start" /\ state = udc
  /\ prev_ensm_mode = mode /\ current_ensm_mode = mode

-------------------------------------------------------------------------------
(* The script. *)

\* The mode that the radio should be in: the last that a program set, or one saved before.
Awake(m) == m \in Modes /\ (~overruled => m = chosen)

SaveFirst ==
  /\ pc = "start"
  /\ prev_ensm_mode' = mode
  /\ pc' = "poll"
  /\ UNCHANGED <<udc, mode, chosen, overruled, missed, announced, state, current_ensm_mode>>

\* poll_sysfs looks at the file...
Look ==
  /\ pc = "poll"
  /\ announced' = FALSE
  /\ pc' = "wait"
  /\ UNCHANGED <<udc, mode, chosen, overruled, missed, state, prev_ensm_mode, current_ensm_mode>>

\* ... and prints it once it has changed.
Wake ==
  /\ pc = "wait" /\ announced
  /\ state' = udc
  /\ pc' = IF udc = "suspended" THEN "save" ELSE "compare"
  /\ UNCHANGED <<udc, mode, chosen, overruled, missed, announced, prev_ensm_mode, current_ensm_mode>>

\* What was missed does no harm any more once an awake radio is put to sleep.
Regained == missed' = (missed /\ ~(udc = "suspended" /\ Awake(mode)))

(* Mutant: the mode is saved when the script starts, and not again. *)
SaveOnce ==
  /\ pc = "save"
  /\ pc' = "sleep"
  /\ Regained
  /\ UNCHANGED <<udc, mode, chosen, overruled, announced, state, prev_ensm_mode, current_ensm_mode>>

Save ==
  /\ pc = "save"
  /\ prev_ensm_mode' = mode
  /\ pc' = "sleep"
  /\ Regained
  /\ UNCHANGED <<udc, mode, chosen, overruled, announced, state, current_ensm_mode>>

Sleep ==
  /\ pc = "sleep"
  /\ mode' = "sleep"
  /\ pc' = "poll"
  /\ UNCHANGED <<udc, chosen, overruled, missed, announced, state, prev_ensm_mode, current_ensm_mode>>

Compare ==
  /\ pc = "compare"
  /\ current_ensm_mode' = mode
  /\ pc' = "restore"
  /\ UNCHANGED <<udc, mode, chosen, overruled, missed, announced, state, prev_ensm_mode>>

(* Mutant: the mode is read again until it is the saved one. *)
RestoreWaits ==
  /\ pc = "restore"
  /\ pc' = IF current_ensm_mode # prev_ensm_mode THEN "compare" ELSE "poll"
  /\ UNCHANGED <<udc, mode, chosen, overruled, missed, announced, state, prev_ensm_mode, current_ensm_mode>>

Restore ==
  /\ pc = "restore"
  /\ mode' = IF current_ensm_mode # prev_ensm_mode THEN prev_ensm_mode ELSE mode
  /\ pc' = "poll"
  /\ UNCHANGED <<udc, chosen, overruled, missed, announced, state, prev_ensm_mode, current_ensm_mode>>

Script == SaveFirst \/ Look \/ Wake \/ Save \/ Sleep \/ Compare \/ Restore

-------------------------------------------------------------------------------
(* The bus, and the programs. *)

Settled == pc = "wait" /\ ~announced

\* The kernel announces every change of the file.
Change(s) ==
  /\ udc' = s
  /\ announced' = TRUE
  /\ IF "suspended" \in {udc, s}
     THEN missed' = (missed \/ ~Settled) /\ UNCHANGED overruled
     ELSE overruled' = (overruled \/ prev_ensm_mode # chosen) /\ UNCHANGED missed
  /\ UNCHANGED <<mode, chosen, script>>

Configure == udc \in {"not attached", "addressed"} /\ Change("configured")

Suspend == udc = "configured" /\ Change("suspended")

Resume == udc = "suspended" /\ Change("configured")

\* The host configures the device anew.
Reset ==
  /\ udc # "not attached"
  /\ \E s \in {"not attached", "addressed"} : s # udc /\ Change(s)

SetMode ==
  /\ \E m \in Modes : m # mode /\ mode' = m /\ chosen' = m
  /\ overruled' = FALSE
  /\ missed' = (missed \/ ~Settled \/ udc = "suspended")
  /\ UNCHANGED <<udc, announced, script>>

Next == Script \/ Configure \/ Suspend \/ Resume \/ Reset \/ SetMode

Spec == Init /\ [][Next]_vars

(* The shell goes on. The host need not do anything. *)
FairSpec == Spec /\ WF_vars(Script)

-------------------------------------------------------------------------------
(* The type of every variable. *)
TypeOK ==
  /\ udc \in UdcStates /\ state \in UdcStates
  /\ mode \in AllModes /\ prev_ensm_mode \in AllModes /\ current_ensm_mode \in AllModes
  /\ chosen \in Modes
  /\ overruled \in BOOLEAN /\ missed \in BOOLEAN /\ announced \in BOOLEAN
  /\ pc \in {"start", "poll", "wait", "save", "sleep", "compare", "restore"}

(* When the script has dealt with every change, the radio sleeps exactly while the
   bus is suspended, and is otherwise in the mode that was set last, unless the bus
   changed without a suspend and made the script return to the one it had saved: what
   is saved at a suspend is never "sleep", nor older than the last that a program set.
   Only where the bus or a program did not wait for the script may it be otherwise,
   and then until an awake radio is next put to sleep (the two branches of the
   script's case). *)
ModeFollowsBus ==
  Settled /\ ~missed => IF udc = "suspended" THEN mode = "sleep" ELSE Awake(mode)

(* A radio whose bus resumes wakes up, unless the bus changes again, or a program comes
   while the script is at work. *)
WakesUp ==
  udc = "configured" /\ ~missed ~> Awake(mode) \/ udc # "configured" \/ missed
================================================================================
