------------------------------ MODULE Uac2Function ------------------------------
(***************************************************************************)
(* The USB Audio Class 2 gadget function, f_uac2.c, under the composite    *)
(* gadget that S23udc builds through configfs.                             *)
(*                                                                         *)
(* One function may exist per configfs instance (uac2.usb0, uac2.usb1).    *)
(* All of them share the FILE-SCOPE descriptors of f_uac2.c (variable      *)
(* desc): afunc_bind patches them, usb_assign_descriptors copies them, and *)
(* the control-request handlers read the clock IDs from the shared ones    *)
(* again, long after another function may have patched them.               *)
(*                                                                         *)
(* External: the composite/configfs core (linking, the order and failure   *)
(* of binding, interface numbers, endpoints, who calls set_alt/disable)    *)
(* and u_audio (starting and stopping a stream), as f_uac2.c uses them.    *)
(***************************************************************************)
EXTENDS Integers, Sequences, FiniteSets

CONSTANTS
  Inst,                 \* the uac2 function instances of the gadget
  None,                 \* "no instance"; owner of the other functions' interfaces
  Values,               \* [Attr -> SUBSET Nat], the numbers written to an attribute
  Default,              \* [Attr -> Nat], the UAC2_DEF_* values
  MaxConfigInterfaces,  \* interfaces one configuration can have
  OtherInterfaces,      \* bound: interfaces taken before by rndis, msd, acm, ffs
  FreeEndpoints         \* bound: endpoints of each direction left for uac2

Attr == {"p_chmask", "p_srate", "p_ssize", "c_chmask", "c_srate", "c_ssize",
         "req_number"}

ASSUME ConstantsOK ==
  /\ None \notin Inst
  /\ Values \in [Attr -> SUBSET Nat]
  /\ Default \in [Attr -> Nat]
  /\ MaxConfigInterfaces \in Nat
  /\ OtherInterfaces \subseteq 0..MaxConfigInterfaces
  /\ FreeEndpoints \subseteq Nat

VARIABLES
  opts,       \* struct f_uac2_opts of each instance: its attributes
  refcnt,     \* opts->refcnt
  desc,       \* the file-scope static descriptors
  uac2,       \* struct f_uac2: interface numbers and alternate settings
  copy,       \* the descriptors usb_assign_descriptors gave the function
  agdev,      \* struct g_audio: gadget pointer, parameters, card, streams
  linked,     \* instances with a function in the configuration (afunc_alloc'ed)
  bound,      \* functions whose afunc_bind has returned 0
  udc,        \* the gadget: "off", "binding", "on"
  configured, \* the host has selected the configuration
  cur, pc,    \* the function being bound and where its afunc_bind is
  interface,  \* config->interface[]: the owner of interface number k at k + 1
  endpoints   \* free endpoints of each direction

vars == <<opts, refcnt, desc, uac2, copy, agdev, linked, bound, udc, configured,
          cur, pc, interface, endpoints>>

-----------------------------------------------------------------------------
(* Descriptors *)

UAC2_CHANNEL_MASK == 134217727  \* 0x07FFFFFF

EpInEn(o) == o["p_chmask"] # 0
EpOutEn(o) == o["c_chmask"] # 0

Role == {"ac", "as_out", "as_in"}
OutEntity == {"usb_out_it", "io_out_ot", "out_clk"}
InEntity == {"io_in_it", "usb_in_ot", "in_clk"}
Entity == OutEntity \union InEntity
Terminal == {"usb_out_it", "io_out_ot", "io_in_it", "usb_in_ot"}

Roles(o) == {r \in Role : (r = "as_out" => EpOutEn(o)) /\ (r = "as_in" => EpInEn(o))}
Entities(o) == {e \in Entity : IF e \in OutEntity THEN EpOutEn(o) ELSE EpInEn(o)}

(* afunc_validate_opts accepts the options. *)
ValidOpts(o) ==
  /\ EpInEn(o) \/ EpOutEn(o)
  /\ o["p_chmask"] <= UAC2_CHANNEL_MASK
  /\ o["c_chmask"] <= UAC2_CHANNEL_MASK
  /\ o["p_ssize"] \in 1..4
  /\ o["c_ssize"] \in 1..4
  /\ o["p_srate"] # 0
  /\ o["c_srate"] # 0

(***************************************************************************)
(* setup_descriptor: unit and clock IDs are handed out from 1, in the      *)
(* order of the source; those of a disabled direction keep the value some  *)
(* earlier bind left there, and the references are copied in any case.     *)
(* 9 and 37 are sizeof(ac_hdr_desc) and the size of one direction's clock  *)
(* and terminals.                                                          *)
(***************************************************************************)
Direction(enabled) == IF enabled THEN 1 ELSE 0

Fresh(o) ==
  LET c == Direction(EpOutEn(o))
      p == Direction(EpInEn(o))
  IN  [usb_out_it |-> 1,
       io_in_it   |-> c + 1,
       io_out_ot  |-> c + p + 1,
       usb_in_ot  |-> 2 * c + p + 1,
       out_clk    |-> 2 * c + 2 * p + 1,
       in_clk     |-> 3 * c + 2 * p + 1]

(* Mutant: the numbering goes on from the last bind instead of restarting. *)
IdsNoRestart(d, o) ==
  [e \in Entity |-> IF e \in Entities(o) THEN (d.id["in_clk"] % 12) + Fresh(o)[e]
                   ELSE d.id[e]]

Ids(d, o) == [e \in Entity |-> IF e \in Entities(o) THEN Fresh(o)[e] ELSE d.id[e]]

References(d, o) ==
  LET c == Direction(EpOutEn(o))
      p == Direction(EpInEn(o))
  IN  [d EXCEPT !.clk = [e \in Terminal |->
                           IF e \in OutEntity THEN d.id["out_clk"] ELSE d.id["in_clk"]],
                !.src = [io_out_ot |-> d.id["usb_out_it"], usb_in_ot |-> d.id["io_in_it"]],
                !.term = [as_out |-> d.id["usb_out_it"], as_in |-> d.id["usb_in_ot"]],
                !.count = 1 + c + p,
                !.total = 9 + 37 * c + 37 * p]

(* Mutant: the references are taken before the IDs are handed out. *)
SetupDescriptorReferencesFirst(d, o) == [References(d, o) EXCEPT !.id = Ids(d, o)]

SetupDescriptor(d, o) == References([d EXCEPT !.id = Ids(d, o)], o)

(***************************************************************************)
(* usb_assign_descriptors copies the descriptors setup_headers lists: those*)
(* of the enabled directions only.                                         *)
(***************************************************************************)
CopyOf(d, o) ==
  [id    |-> [e \in Entities(o) |-> d.id[e]],
   clk   |-> [e \in Entities(o) \cap Terminal |-> d.clk[e]],
   src   |-> [e \in Entities(o) \cap {"io_out_ot", "usb_in_ot"} |-> d.src[e]],
   term  |-> [r \in Roles(o) \ {"ac"} |-> d.term[r]],
   ifnum |-> [r \in Roles(o) |-> d.ifnum[r]],
   first |-> d.first, count |-> d.count, total |-> d.total]

NoCopy == [id |-> <<>>, clk |-> <<>>, src |-> <<>>, term |-> <<>>, ifnum |-> <<>>,
           first |-> 0, count |-> 0, total |-> 0]

NoUac2 == [intf |-> [r \in Role |-> 0], alt |-> [r \in Role |-> 0]]

NoAgdev == [gadget |-> FALSE, card |-> FALSE, params |-> Default, running |-> {}]

-----------------------------------------------------------------------------
Init ==
  /\ opts = [i \in Inst |-> Default]
  /\ refcnt = [i \in Inst |-> 0]
  /\ desc = [id |-> [e \in Entity |-> 0], clk |-> [e \in Terminal |-> 0],
             src |-> [io_out_ot |-> 0, usb_in_ot |-> 0],
             term |-> [as_out |-> 0, as_in |-> 0],
             ifnum |-> [r \in Role |-> 0], first |-> 0, count |-> 3, total |-> 0]
  /\ uac2 = [i \in Inst |-> NoUac2]
  /\ copy = [i \in Inst |-> NoCopy]
  /\ agdev = [i \in Inst |-> NoAgdev]
  /\ linked = {}
  /\ bound = {}
  /\ udc = "off"
  /\ configured = FALSE
  /\ cur = None
  /\ pc = "idle"
  /\ interface = <<>>
  /\ endpoints = [out |-> 0, in |-> 0]

kernel == <<desc, uac2, copy, agdev, bound, udc, configured, cur, pc, interface,
            endpoints>>

(* Mutant: the store forgets the refcnt test. *)
StoreWhileBusy(i, a) ==
  /\ \E v \in Values[a] : opts' = [opts EXCEPT ![i][a] = v]
  /\ UNCHANGED <<refcnt, linked, kernel>>

(* f_uac2_opts_<attr>_store: -EBUSY while a function of the instance exists. *)
Store(i, a) ==
  /\ refcnt[i] = 0
  /\ \E v \in Values[a] : opts' = [opts EXCEPT ![i][a] = v]
  /\ UNCHANGED <<refcnt, linked, kernel>>

(* rmdir and mkdir of functions/uac2.x: afunc_free_inst, afunc_alloc_inst. *)
Recreate(i) ==
  /\ i \notin linked
  /\ opts' = [opts EXCEPT ![i] = Default]
  /\ refcnt' = [refcnt EXCEPT ![i] = 0]
  /\ UNCHANGED <<linked, kernel>>

(* Mutant: the function is allocated without being zeroed (kmalloc). *)
LinkNotZeroed(i) ==
  /\ udc = "off"
  /\ i \notin linked
  /\ linked' = linked \union {i}
  /\ refcnt' = [refcnt EXCEPT ![i] = @ + 1]
  /\ UNCHANGED <<opts, kernel>>

(* ln -s functions/uac2.x configs/c.1: afunc_alloc of a zeroed function. *)
Link(i) ==
  /\ udc = "off"
  /\ i \notin linked
  /\ linked' = linked \union {i}
  /\ refcnt' = [refcnt EXCEPT ![i] = @ + 1]
  /\ uac2' = [uac2 EXCEPT ![i] = NoUac2]
  /\ agdev' = [agdev EXCEPT ![i] = NoAgdev]
  /\ copy' = [copy EXCEPT ![i] = NoCopy]
  /\ UNCHANGED <<opts, desc, bound, udc, configured, cur, pc, interface, endpoints>>

(* rm configs/c.1/uac2.x once the gadget is unbound: afunc_free. *)
Unlink(i) ==
  /\ udc = "off"
  /\ i \in linked
  /\ linked' = linked \ {i}
  /\ refcnt' = [refcnt EXCEPT ![i] = @ - 1]
  /\ UNCHANGED <<opts, kernel>>

-----------------------------------------------------------------------------
(* Binding: echo ci_hdrc.0 > UDC. *)

(* The other functions of the configuration have been bound before. *)
BindStart ==
  /\ udc = "off"
  /\ linked # {}
  /\ udc' = "binding"
  /\ \E n \in OtherInterfaces : interface' = [k \in 1..n |-> None]
  /\ \E o, i \in FreeEndpoints : endpoints' = [out |-> o, in |-> i]
  /\ UNCHANGED <<opts, refcnt, desc, uac2, copy, agdev, linked, bound, configured,
                 cur, pc>>

(***************************************************************************)
(* afunc_bind up to the strings: -EINVAL on bad options, or an error of    *)
(* usb_gstrings_attach.                                                    *)
(***************************************************************************)
BindValidate(i) ==
  /\ udc = "binding"
  /\ pc = "idle"
  /\ i \in linked \ bound
  /\ cur' = i
  /\ \/ ValidOpts(opts[i]) /\ pc' = "ac"
     \/ pc' = "failed"
  /\ UNCHANGED <<opts, refcnt, desc, uac2, copy, agdev, linked, bound, udc,
                 configured, interface, endpoints>>

NextPc == [ac |-> "as_out", as_out |-> "as_in", as_in |-> "ep_out",
           ep_out |-> "ep_in", ep_in |-> "assign"]

(* Mutant: usb_interface_id does not check for the last interface. *)
BindInterfaceNoLimit ==
  /\ pc \in Role
  /\ IF pc \in Roles(opts[cur])
     THEN /\ interface' = Append(interface, cur)
          /\ desc' = [desc EXCEPT !.ifnum[pc] = Len(interface),
                                  !.first = IF pc = "ac" THEN Len(interface) ELSE @]
          /\ uac2' = [uac2 EXCEPT ![cur].intf[pc] = Len(interface), ![cur].alt[pc] = 0]
     ELSE UNCHANGED <<desc, uac2, interface>>
  /\ pc' = NextPc[pc]
  /\ UNCHANGED <<opts, refcnt, copy, agdev, linked, bound, udc, configured, cur,
                 endpoints>>

(* usb_interface_id for the interface pc names, if its direction is enabled. *)
BindInterface ==
  /\ pc \in Role
  /\ \/ /\ pc \notin Roles(opts[cur])
        /\ pc' = NextPc[pc]
        /\ UNCHANGED <<desc, uac2, interface>>
     \/ /\ pc \in Roles(opts[cur])
        /\ Len(interface) < MaxConfigInterfaces
        /\ LET id == Len(interface)
           IN /\ interface' = Append(interface, cur)
              /\ desc' = [desc EXCEPT !.ifnum[pc] = id,
                                      !.first = IF pc = "ac" THEN id ELSE @]
              /\ uac2' = [uac2 EXCEPT ![cur].intf[pc] = id, ![cur].alt[pc] = 0]
        /\ pc' = NextPc[pc]
     \/ /\ pc \in Roles(opts[cur])
        /\ Len(interface) = MaxConfigInterfaces
        /\ pc' = "failed"
        /\ UNCHANGED <<desc, uac2, interface>>
  /\ UNCHANGED <<opts, refcnt, copy, agdev, linked, bound, udc, configured, cur,
                 endpoints>>

(* usb_ep_autoconfig of an enabled direction; -ENODEV when none is left. *)
BindEndpoint ==
  /\ pc \in {"ep_out", "ep_in"}
  /\ LET d == IF pc = "ep_out" THEN "out" ELSE "in"
         enabled == IF pc = "ep_out" THEN EpOutEn(opts[cur]) ELSE EpInEn(opts[cur])
     IN \/ ~enabled /\ pc' = NextPc[pc] /\ UNCHANGED endpoints
        \/ /\ enabled /\ endpoints[d] > 0
           /\ endpoints' = [endpoints EXCEPT ![d] = @ - 1]
           /\ pc' = NextPc[pc]
        \/ enabled /\ endpoints[d] = 0 /\ pc' = "failed" /\ UNCHANGED endpoints
  /\ UNCHANGED <<opts, refcnt, desc, uac2, copy, agdev, linked, bound, udc,
                 configured, cur, interface>>

(* setup_descriptor, then usb_assign_descriptors, which may lack memory. *)
BindAssign ==
  /\ pc = "assign"
  /\ desc' = SetupDescriptor(desc, opts[cur])
  /\ \/ /\ copy' = [copy EXCEPT ![cur] = CopyOf(desc', opts[cur])]
        /\ agdev' = [agdev EXCEPT ![cur].gadget = TRUE, ![cur].params = opts[cur]]
        /\ pc' = "audio"
     \/ pc' = "failed" /\ UNCHANGED <<copy, agdev>>
  /\ UNCHANGED <<opts, refcnt, uac2, linked, bound, udc, configured, cur, interface,
                 endpoints>>

(* Mutant: the failure of g_audio_setup skips err_free_descs. *)
BindAudioKeepsDescriptors ==
  /\ pc = "audio"
  /\ \/ /\ agdev' = [agdev EXCEPT ![cur].card = TRUE]
        /\ bound' = bound \union {cur}
        /\ cur' = None
        /\ pc' = "idle"
     \/ pc' = "failed" /\ UNCHANGED <<agdev, bound, cur>>
  /\ UNCHANGED <<opts, refcnt, desc, uac2, copy, linked, udc, configured, interface,
                 endpoints>>

(* g_audio_setup creates the sound card; its failure takes err_free_descs. *)
BindAudio ==
  /\ pc = "audio"
  /\ \/ /\ agdev' = [agdev EXCEPT ![cur].card = TRUE]
        /\ bound' = bound \union {cur}
        /\ cur' = None
        /\ pc' = "idle"
        /\ UNCHANGED copy
     \/ /\ copy' = [copy EXCEPT ![cur] = NoCopy]
        /\ agdev' = [agdev EXCEPT ![cur].gadget = FALSE]
        /\ pc' = "failed"
        /\ UNCHANGED <<bound, cur>>
  /\ UNCHANGED <<opts, refcnt, desc, uac2, linked, udc, configured, interface, endpoints>>

BindDone ==
  /\ udc = "binding"
  /\ pc = "idle"
  /\ bound = linked
  /\ udc' = "on"
  /\ UNCHANGED <<opts, refcnt, desc, uac2, copy, agdev, linked, bound, configured,
                 cur, pc, interface, endpoints>>

(***************************************************************************)
(* afunc_unbind of every bound function, after which the configuration is  *)
(* empty again: a failed bind and echo "" > UDC both end here.             *)
(***************************************************************************)
Unbound(g) == [g EXCEPT !.gadget = FALSE, !.card = FALSE, !.running = {}]

UnbindAll ==
  /\ agdev' = [i \in Inst |-> IF i \in bound THEN Unbound(agdev[i]) ELSE agdev[i]]
  /\ copy' = [i \in Inst |-> IF i \in bound THEN NoCopy ELSE copy[i]]
  /\ bound' = {}
  /\ udc' = "off"
  /\ cur' = None
  /\ pc' = "idle"
  /\ interface' = <<>>
  /\ endpoints' = [out |-> 0, in |-> 0]
  /\ UNCHANGED <<opts, refcnt, desc, linked>>

Purge ==
  /\ pc = "failed"
  /\ UnbindAll
  /\ UNCHANGED <<uac2, configured>>

-----------------------------------------------------------------------------
(* The host *)

(* afunc_disable: both streams stop, both alternate settings are 0. *)
AltsOff(u) == [u EXCEPT !.alt["as_in"] = 0, !.alt["as_out"] = 0]
DisabledUac2 == [i \in Inst |-> IF i \in bound THEN AltsOff(uac2[i]) ELSE uac2[i]]
StopCaptureOnly(g) == [g EXCEPT !.running = @ \ {"as_out"}]  \* mutant
StreamsOff(g) == [g EXCEPT !.running = {}]
DisabledAgdev == [i \in Inst |-> IF i \in bound THEN StreamsOff(agdev[i]) ELSE agdev[i]]

(* The function's interface that number k is taken for by set_alt and get_alt. *)
RoleOf(u, k) ==
  IF k = u.intf["ac"] THEN "ac"
  ELSE IF k = u.intf["as_out"] THEN "as_out"
  ELSE IF k = u.intf["as_in"] THEN "as_in"
  ELSE "error"

(* SET_CONFIGURATION: every function is disabled, every interface set to 0. *)
SetConfiguration ==
  /\ udc = "on"
  /\ configured' = TRUE
  /\ uac2' = DisabledUac2
  /\ agdev' = DisabledAgdev
  /\ UNCHANGED <<opts, refcnt, desc, copy, linked, bound, udc, cur, pc, interface,
                 endpoints>>

(* Cable removed, bus reset or SET_CONFIGURATION 0. *)
Disconnect ==
  /\ configured
  /\ configured' = FALSE
  /\ uac2' = DisabledUac2
  /\ agdev' = DisabledAgdev
  /\ UNCHANGED <<opts, refcnt, desc, copy, linked, bound, udc, cur, pc, interface,
                 endpoints>>

(***************************************************************************)
(* afunc_set_alt on a streaming interface. The alternate setting is        *)
(* recorded first; u_audio_start_* may fail with or without the endpoint   *)
(* left enabled. The control interface and alt > 1 change nothing.         *)
(***************************************************************************)
AfuncSetAlt(i, k, alt) ==
  LET r == RoleOf(uac2[i], k)
  IN /\ r \in {"as_out", "as_in"}
     /\ uac2' = [uac2 EXCEPT ![i].alt[r] = alt]
     /\ \/ alt = 1 /\ agdev' = [agdev EXCEPT ![i].running = @ \union {r}]
        \/ alt = 1 /\ UNCHANGED agdev
        \/ alt = 0 /\ agdev' = [agdev EXCEPT ![i].running = @ \ {r}]

(* SET_INTERFACE, which the composite core sends to the owner of k. *)
SetInterface(k, alt) ==
  /\ configured
  /\ k + 1 \in DOMAIN interface
  /\ interface[k + 1] # None
  /\ AfuncSetAlt(interface[k + 1], k, alt)
  /\ UNCHANGED <<opts, refcnt, desc, copy, linked, bound, udc, configured, cur, pc,
                 interface, endpoints>>

(* echo "" > UDC *)
GadgetOff ==
  /\ udc = "on"
  /\ UnbindAll
  /\ configured' = FALSE
  /\ uac2' = DisabledUac2

Next ==
  \/ \E i \in Inst : \/ \E a \in Attr : Store(i, a)
                     \/ Recreate(i)
                     \/ Link(i)
                     \/ Unlink(i)
                     \/ BindValidate(i)
  \/ BindStart \/ BindInterface \/ BindEndpoint \/ BindAssign \/ BindAudio
  \/ BindDone \/ Purge
  \/ SetConfiguration \/ Disconnect \/ GadgetOff
  \/ \E k \in 0..(MaxConfigInterfaces - 1), alt \in {0, 1} : SetInterface(k, alt)

Spec == Init /\ [][Next]_vars

-----------------------------------------------------------------------------
(* Control requests: what afunc_setup answers. Stall is a negative value.  *)

Stall == -1

(* in_rq_cur on the sampling frequency: 0 for an entity that is no clock. *)
InRqCur(i, entity) ==
  IF entity = desc.id["in_clk"] THEN opts[i]["p_srate"]
  ELSE IF entity = desc.id["out_clk"] THEN opts[i]["c_srate"]
  ELSE 0

(* in_rq_range on the sampling frequency. *)
InRqRange(i, entity) ==
  IF entity = desc.id["in_clk"] THEN opts[i]["p_srate"]
  ELSE IF entity = desc.id["out_clk"] THEN opts[i]["c_srate"]
  ELSE Stall

(* afunc_setup and setup_rq_inf, on a class request for the frequency control. *)
AfuncSetup(i, req) ==
  IF req.intf # uac2[i].intf["ac"] THEN Stall
  ELSE IF ~req.in THEN IF req.request = "CUR" THEN 0 ELSE Stall
  ELSE IF req.request = "CUR" THEN InRqCur(i, req.entity)
  ELSE IF req.request = "RANGE" THEN InRqRange(i, req.entity)
  ELSE Stall

-----------------------------------------------------------------------------
(* Properties *)

Descriptors ==
  [id : [Entity -> Nat], clk : [Terminal -> Nat],
   src : [{"io_out_ot", "usb_in_ot"} -> Nat], term : [{"as_out", "as_in"} -> Nat],
   ifnum : [Role -> Nat], first : Nat, count : Nat, total : Nat]

FUac2 == [intf : [Role -> Nat], alt : [Role -> {0, 1}]]

GAudio == [gadget : BOOLEAN, card : BOOLEAN, params : [Attr -> Nat],
           running : SUBSET {"as_out", "as_in"}]

BindStep == {"idle", "ac", "as_out", "as_in", "ep_out", "ep_in", "assign", "audio",
             "failed"}

(* Every variable has its type; no more interfaces than a configuration has. *)
TypeOK ==
  /\ opts \in [Inst -> [Attr -> Nat]]
  /\ refcnt \in [Inst -> {0, 1}]
  /\ desc \in Descriptors
  /\ uac2 \in [Inst -> FUac2]
  /\ agdev \in [Inst -> GAudio]
  /\ DOMAIN copy = Inst
  /\ linked \subseteq Inst
  /\ bound \subseteq linked
  /\ udc \in {"off", "binding", "on"}
  /\ configured \in BOOLEAN
  /\ cur \in Inst \union {None}
  /\ pc \in BindStep
  /\ interface \in Seq(Inst \union {None})
  /\ Len(interface) <= MaxConfigInterfaces
  /\ endpoints \in [{"out", "in"} -> Nat]

(* What a bound function announced is still what its options say: its sound
   card's parameters, and the interfaces and entities of its descriptors.
   The refcnt test of every attribute's store is what keeps it so. *)
AnnouncedIsCurrent ==
  \A i \in bound :
    /\ agdev[i].params = opts[i]
    /\ DOMAIN copy[i].ifnum = Roles(opts[i])
    /\ DOMAIN copy[i].id = Entities(opts[i])

(* A bound function's descriptors form a closed topology, whatever an earlier
   bind left in the shared ones: the IDs are distinct and start at 1, every
   reference names an entity of the same function of the right kind, and the
   header's length and the interface association count what is listed. *)
DescriptorsWellFormed ==
  \A i \in bound :
    LET c == copy[i] IN
    /\ \A e \in DOMAIN c.id : c.id[e] \in 1..6
    /\ \A e, f \in DOMAIN c.id : c.id[e] = c.id[f] => e = f
    /\ \A e \in DOMAIN c.clk :
         c.clk[e] = c.id[IF e \in OutEntity THEN "out_clk" ELSE "in_clk"]
    /\ \A e \in DOMAIN c.src :
         c.src[e] = c.id[IF e \in OutEntity THEN "usb_out_it" ELSE "io_in_it"]
    /\ \A r \in DOMAIN c.term :
         c.term[r] = c.id[IF r = "as_out" THEN "usb_out_it" ELSE "usb_in_ot"]
    /\ c.first = c.ifnum["ac"]
    /\ c.count = Cardinality(DOMAIN c.ifnum)
    /\ 3 * c.total = 27 + 37 * Cardinality(DOMAIN c.id)

(* While the gadget is on, the composite core and the function agree on every
   interface: a number the core routes to a function is taken by set_alt and
   get_alt for the role its descriptors gave that number (a disabled
   direction's leftover number is never matched first), and the core routes
   every number in the descriptors to their function. *)
InterfacesRouted ==
  udc = "on" =>
    /\ \A k \in 0..(Len(interface) - 1) :
         interface[k + 1] # None =>
           LET i == interface[k + 1] IN
           \E r \in Roles(opts[i]) : copy[i].ifnum[r] = k /\ RoleOf(uac2[i], k) = r
    /\ \A i \in bound : \A r \in Roles(opts[i]) :
         LET k == copy[i].ifnum[r] IN
         k + 1 \in DOMAIN interface /\ interface[k + 1] = i

(* The host reads, from each clock source in a function's own descriptors, the
   rate of that function's own direction. *)
ClockRates ==
  udc = "on" =>
    \A i \in bound : \A e \in {"in_clk", "out_clk"} \cap DOMAIN copy[i].id :
      \A request \in {"CUR", "RANGE"} :
        AfuncSetup(i, [intf |-> copy[i].ifnum["ac"], in |-> TRUE, request |-> request,
                       entity |-> copy[i].id[e]])
          = opts[i][IF e = "in_clk" THEN "p_srate" ELSE "c_srate"]

(* The same, when every function of the gadget has both directions, as S23udc makes
   them: then a bind leaves no number of an earlier one in the shared descriptors,
   whatever was bound before. *)
ClockRatesOfFull == (\A i \in bound : Roles(opts[i]) = {"ac", "as_in", "as_out"}) => ClockRates

(* A stream runs only while the host has its interface at setting 1 in a
   configured gadget: disconnecting, reconfiguring and unbinding stop it. *)
StreamsFollowHost ==
  \A i \in Inst : \A r \in agdev[i].running :
    i \in bound /\ configured /\ uac2[i].alt[r] = 1

(* When the gadget is off, no function keeps a sound card, a gadget pointer or
   descriptors, at whatever point of whichever function the bind failed. *)
OffMeansReleased ==
  udc = "off" => \A i \in Inst :
    /\ ~agdev[i].gadget
    /\ ~agdev[i].card
    /\ copy[i] = NoCopy

================================================================================
