------------------------------- MODULE RadioTools -------------------------------
(***************************************************************************)
(* The command-line tools that set up the AD9361 through libiio and then   *)
(* measure or transmit: pow_pluto (measures the power at a frequency),     *)
(* wav2ssb and wav2plutossb (send a WAV file as single side band) and      *)
(* plutoset. Each is a process, and any of them may run at once; the radio *)
(* has one set of attributes for all of them, and one capture buffer.      *)
(* Frequencies and rates are in kHz.                                       *)
(***************************************************************************)
EXTENDS Integers, Sequences

CONSTANTS
  Proc,
  CommandLines, \* what the user may run at once, a set of functions on Proc
  MayFail,      \* programs whose calls of libiio and LuaRadio may fail
  NoOne

CommandLine ==
  [program : {"pow", "ssb", "plutossb", "set"}, lo : Int, gain : Int, fs : Int]

ASSUME RadioAssumption ==
  /\ \A line \in CommandLines : line \in [Proc -> CommandLine]
  /\ NoOne \notin Proc

VARIABLES
  pc, arg,   \* of each process
  w,         \* the next attribute it writes
  radio,     \* the attributes of ad9361-phy
  owner,     \* the process that has a buffer of cf-ad9361-lpc
  captured,  \* history: what the radio was set to at each block of samples it has
  rssi,      \* history: its gain control and gain at the last RSSI it has, if any
  out,       \* the frequency of the result it printed
  disturbed  \* history: what of the receiver another has set since, of one that measures

vars == <<pc, arg, w, radio, owner, captured, rssi, out, disturbed>>

Nothing == -1

Refills == 2

\* The attributes of the receiver that a measurement sets before it has the buffer.
Receiver == {"rx_port", "rx_bw", "fs", "rx_lo"}

\* And those that it sets while it has the buffer.
Amplifier == {"rx_mode", "rx_gain"}

-------------------------------------------------------------------------------
(* The attributes each program writes, in order. *)

(* Mutant: the gain is set with the rest, before the tool has the buffer. *)
StreamSettingsWithGain(a) ==
  <<<<"rx_port", 0>>, <<"rx_bw", 100>>, <<"fs", a.fs>>, <<"rx_lo", a.lo>>,
    <<"rx_mode", 0>>, <<"rx_gain", a.gain>>>>

\* The port A_BALANCED is 0.
StreamSettings(a) ==
  <<<<"rx_port", 0>>, <<"rx_bw", 100>>, <<"fs", a.fs>>, <<"rx_lo", a.lo>>>>

(* Mutant: automatic gain control is left on. *)
GainSettingsAutomatic(a) == <<<<"rx_gain", a.gain>>>>

\* The gain_control_mode manual is 0.
GainSettings(a) == <<<<"rx_mode", 0>>, <<"rx_gain", a.gain>>>>

\* 48 kHz, interpolated by 12; gain is a global that nothing assigns.
SsbSettings(a) == <<<<"tx_lo", a.lo>>, <<"fs", 576>>, <<"tx_gain", 0>>>>

PlutossbSettings(a) == <<<<"rx_lo", a.lo>>, <<"fs", 576>>>>

SetSettings == <<<<"rx_lo", 434000>>, <<"fs", 2000>>>>

-------------------------------------------------------------------------------
Init ==
  /\ pc = [p \in Proc |-> "start"]
  /\ arg \in CommandLines
  /\ w = [p \in Proc |-> 1]
  /\ radio = [rx_lo |-> 2400000, tx_lo |-> 2450000, fs |-> 30720, rx_bw |-> 18000, rx_port |-> 1,
              rx_mode |-> 1, rx_gain |-> 71, tx_gain |-> -10]
  /\ owner = NoOne
  /\ captured = [p \in Proc |-> <<>>] /\ rssi = [p \in Proc |-> <<>>]
  /\ out = [p \in Proc |-> Nothing]
  /\ disturbed = [p \in Proc |-> {}]

Over == {"exit0", "usage", "abort", "error"}
HasBuffer == {"gain", "refill", "rssi", "print"}
Measuring == {"stream", "buffer"} \cup HasBuffer

Goto(p, label) == pc' = [pc EXCEPT ![p] = label]
Fails(p) == arg[p].program \in MayFail
results == <<arg, captured, rssi, out>>
kept == <<results, disturbed>>

Write(p, setting) ==
  /\ radio' = [radio EXCEPT ![setting[1]] = setting[2]]
  /\ disturbed' = [q \in Proc |->
       CASE q = p                        -> disturbed[q] \ {setting[1]}
         [] q # p /\ pc[q] \in Measuring -> disturbed[q] \cup ({setting[1]} \cap Receiver)
         [] OTHER                        -> disturbed[q]]
  /\ UNCHANGED <<owner, results>>

\* On to the next attribute, and after the last to the next label.
Onward(p, settings, next) ==
  IF w[p] < Len(settings)
  THEN w' = [w EXCEPT ![p] = @ + 1] /\ UNCHANGED pc
  ELSE w' = [w EXCEPT ![p] = 1] /\ Goto(p, next)

-------------------------------------------------------------------------------
(* pow_pluto. *)

\* What it has measured goes with the process.
Forget(p) ==
  /\ captured' = [captured EXCEPT ![p] = <<>>]
  /\ rssi' = [rssi EXCEPT ![p] = <<>>]
  /\ UNCHANGED <<w, radio, arg, out, disturbed>>

(* Mutant: the buffer is not destroyed. *)
ShutdownKeepsBuffer(p) ==
  /\ Goto(p, "exit0")
  /\ Forget(p) /\ UNCHANGED owner

\* shutdown: the buffer and the context go, and the status is 0.
Shutdown(p) ==
  /\ Goto(p, "exit0")
  /\ owner' = IF owner = p THEN NoOne ELSE owner
  /\ Forget(p)

\* ASSERT and abort; the kernel takes the buffer back.
Abort(p) ==
  /\ Goto(p, "abort")
  /\ owner' = IF owner = p THEN NoOne ELSE owner
  /\ Forget(p)

\* A wrong number of arguments prints the usage.
PowArguments(p) ==
  /\ arg[p].program = "pow" /\ pc[p] = "start"
  /\ \E label \in {"usage", "scan"} : Goto(p, label)
  /\ UNCHANGED <<w, radio, owner, kept>>

\* No scan context, an error, or no device: with no device the list is freed and
\* its first element used all the same.
PowScan(p) ==
  /\ pc[p] = "scan"
  /\ \/ Goto(p, "stream") /\ UNCHANGED <<w, radio, owner, kept>>
     \/ Fails(p) /\ Abort(p)

\* A failing write shuts down, a channel that is not found aborts.
PowStream(p) ==
  /\ arg[p].program = "pow" /\ pc[p] = "stream"
  /\ \/ Write(p, StreamSettings(arg[p])[w[p]]) /\ Onward(p, StreamSettings(arg[p]), "buffer")
     \/ Fails(p) /\ (Shutdown(p) \/ Abort(p))

\* The channels are found and enabled, or it aborts; the capture device has one
\* buffer: a second open fails.
PowBuffer(p) ==
  /\ pc[p] = "buffer"
  /\ \/ Fails(p) /\ Abort(p)
     \/ /\ owner = NoOne
        /\ owner' = p
        /\ Goto(p, "gain")
        /\ UNCHANGED <<w, radio, kept>>
     \/ (owner # NoOne \/ Fails(p)) /\ Shutdown(p)

PowGain(p) ==
  /\ pc[p] = "gain"
  /\ \/ Write(p, GainSettings(arg[p])[w[p]]) /\ Onward(p, GainSettings(arg[p]), "refill")
     \/ Fails(p) /\ Shutdown(p)

\* The kernel fills the blocks that it was given with the buffer as the samples come,
\* with whatever attributes the radio has then; those that are never read are left out.
Capture(p) ==
  /\ owner = p /\ Len(captured[p]) < Refills
  /\ captured' = [captured EXCEPT ![p] = Append(@, [a \in Receiver \cup Amplifier |-> radio[a]])]
  /\ UNCHANGED <<pc, w, radio, owner, arg, rssi, out, disturbed>>

\* A refill waits for the next block that has been filled, the oldest first.
PowRefill(p) ==
  /\ pc[p] = "refill"
  /\ \/ /\ w[p] <= Len(captured[p])
        /\ Goto(p, "rssi")
        /\ UNCHANGED <<w, radio, owner, kept>>
     \/ Fails(p) /\ Shutdown(p)

\* Whether the RSSI could be read is not looked at.
PowRssi(p) ==
  /\ pc[p] = "rssi"
  /\ \/ rssi' = [rssi EXCEPT ![p] = <<radio.rx_mode, radio.rx_gain>>]
     \/ Fails(p) /\ UNCHANGED rssi
  /\ IF w[p] < Refills
     THEN w' = [w EXCEPT ![p] = @ + 1] /\ Goto(p, "refill")
     ELSE w' = [w EXCEPT ![p] = 1] /\ Goto(p, "print")
  /\ UNCHANGED <<radio, owner, arg, captured, out, disturbed>>

PowPrint(p) ==
  /\ pc[p] = "print"
  /\ out' = [out EXCEPT ![p] = arg[p].lo]
  /\ Goto(p, "exit0")
  /\ owner' = NoOne
  /\ UNCHANGED <<w, radio, arg, captured, rssi, disturbed>>

-------------------------------------------------------------------------------
(* The transmitters and plutoset: nothing checks what libiio returns. *)

WriteUnchecked(p, settings, next) ==
  /\ \/ Write(p, settings[w[p]])
     \/ Fails(p) /\ UNCHANGED <<radio, owner, kept>>
  /\ Onward(p, settings, next)

Ended(p, label) == Goto(p, label) /\ UNCHANGED <<w, radio, owner, kept>>

SsbSetup(p) ==
  /\ arg[p].program = "ssb" /\ pc[p] = "start"
  /\ WriteUnchecked(p, SsbSettings(arg[p]), "new")

\* The context is of ip:192.168.2.1: without it the next call crashes.
PlutossbSetup(p) ==
  /\ arg[p].program = "plutossb" /\ pc[p] = "start"
  /\ \/ WriteUnchecked(p, PlutossbSettings(arg[p]), "new")
     \/ Fails(p) /\ w[p] = 1 /\ Ended(p, "abort")

SetSetup(p) ==
  /\ arg[p].program = "set" /\ pc[p] = "start"
  /\ WriteUnchecked(p, SetSettings, "exit0")

\* luaradio_new, load and start; each returns on an error.
Graph(p) ==
  /\ pc[p] \in {"new", "load", "begin"}
  /\ \/ Ended(p, CASE pc[p] = "new" -> "load" [] pc[p] = "load" -> "begin"
                   [] pc[p] = "begin" -> "send")
     \/ Fails(p) /\ Ended(p, "error")

\* luaradio_wait returns when the file has been sent.
GraphEnds(p) ==
  /\ pc[p] = "send"
  /\ \/ Ended(p, "exit0")
     \/ Fails(p) /\ Ended(p, "error")

-------------------------------------------------------------------------------
Pow(p) == PowArguments(p) \/ PowScan(p) \/ PowStream(p) \/ PowBuffer(p) \/ PowGain(p)
            \/ Capture(p) \/ PowRefill(p) \/ PowRssi(p) \/ PowPrint(p)

Transmit(p) == SsbSetup(p) \/ PlutossbSetup(p) \/ Graph(p) \/ GraphEnds(p)

AllOver == (\A p \in Proc : pc[p] \in Over) /\ UNCHANGED vars

Next == (\E p \in Proc : Pow(p) \/ Transmit(p) \/ SetSetup(p)) \/ AllOver

Spec == Init /\ [][Next]_vars

-------------------------------------------------------------------------------
(* Properties. *)

(* Types; the buffer is held by one measuring process at most and given back however it
   ends. *)
TypeOK ==
  /\ arg \in [Proc -> CommandLine]
  /\ w \in [Proc -> 1 .. 4]
  /\ owner \in Proc \union {NoOne}
  /\ \A p \in Proc : (owner = p) <=> (pc[p] \in HasBuffer)

(* What a measurement asks for before it has the buffer. *)
Asked(a) == [rx_port |-> 0, rx_bw |-> 100, fs |-> a.fs, rx_lo |-> a.lo]

(* "Measure power at a specific frequency" (pow_pluto.c:61): both blocks of a printed
   result were captured at the port, bandwidth, rate and frequency asked for, save for
   what another tool has changed in the meantime, though the kernel captures from
   the creation of the buffer on; and the RSSI was read under the gain asked for and
   manual gain control, whatever runs at once: only who has the buffer sets them. *)
MeasuredAsAsked ==
  \A p \in Proc : out[p] # Nothing =>
    /\ out[p] = arg[p].lo
    /\ Len(captured[p]) = Refills
    /\ \A n \in 1 .. Refills, a \in Receiver \ disturbed[p] :
         captured[p][n][a] = Asked(arg[p])[a]
    /\ rssi[p] \in {<<>>, <<0, arg[p].gain>>}

(* "Set RX gain in dB." (pow_pluto.c:51): it is set when the kernel captures already,
   so that a block may be of the gain that the radio was left with. But whatever other
   tools do at once, after a block that was captured under the gain asked for, and
   manual gain control, all are; so are those of a radio that was left at that gain. *)
UnderGain(p, n) == captured[p][n].rx_mode = 0 /\ captured[p][n].rx_gain = arg[p].gain
GainHeld ==
  \A p \in Proc : \A n, m \in 1 .. Len(captured[p]) :
    n < m /\ UnderGain(p, n) => UnderGain(p, m)
================================================================================
