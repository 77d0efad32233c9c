--------------------------- MODULE Uac2Function_proofs ---------------------------
(***************************************************************************)
(* Proofs about Uac2Function, for any number of instances, options,        *)
(* interfaces and endpoints. From the inductive invariant IInv: types,     *)
(* AnnouncedIsCurrent, OffMeansReleased and StreamsFollowHost. From IInv   *)
(* and BindInv, which says what a bind has written so far:                 *)
(* DescriptorsWellFormed, InterfacesRouted and ClockRatesOfFull.           *)
(***************************************************************************)
EXTENDS Uac2Function, FiniteSetTheorems, TLAPS

(***************************************************************************)
(* The life of a function: linked exactly while its options are referenced,*)
(* bound only in a gadget that is on or coming up; the one being bound is  *)
(* linked and not bound yet; the interfaces belong to functions that are   *)
(* bound or being bound; only a gadget that is on is configured.           *)
(***************************************************************************)
Lifecycle ==
  /\ \A i \in Inst : refcnt[i] = 1 <=> i \in linked
  /\ udc = "off" => bound = {}
  /\ udc = "on" => bound = linked
  /\ pc = "idle" => cur = None
  /\ pc # "idle" => udc = "binding" /\ cur \in linked \ bound
  /\ configured => udc = "on"
  /\ \A k \in DOMAIN interface :
       interface[k] = None \/ interface[k] \in bound \union {cur}

(* AnnouncedIsCurrent, of the function about to be bound as well. *)
Announces(i) ==
  /\ agdev[i].params = opts[i]
  /\ DOMAIN copy[i].ifnum = Roles(opts[i])
  /\ DOMAIN copy[i].id = Entities(opts[i])

Announced ==
  /\ \A i \in bound : Announces(i)
  /\ pc = "audio" => Announces(cur)

(* A function that is not bound holds nothing, but for what the bind in
   progress has given it between assigning descriptors and creating the card. *)
Released ==
  \A i \in Inst \ bound :
    /\ i # cur \/ pc # "audio" => ~agdev[i].gadget /\ copy[i] = NoCopy
    /\ ~agdev[i].card
    /\ agdev[i].running = {}

IInv == TypeOK /\ Lifecycle /\ Announced /\ Released /\ StreamsFollowHost

LEMMA SetupDescriptorType ==
  ASSUME NEW d \in Descriptors, NEW o
  PROVE  SetupDescriptor(d, o) \in Descriptors
<1> DEFINE e == [d EXCEPT !.id = Ids(d, o)]
<1>1. \A x \in Entity : Fresh(o)[x] \in Nat
  BY DEF Fresh, Direction, Entity, OutEntity, InEntity
<1>2. Ids(d, o) \in [Entity -> Nat]
  BY <1>1 DEF Ids, Descriptors
<1>3. e \in Descriptors
  BY <1>2 DEF Descriptors
<1> HIDE DEF e
<1>4. References(e, o) \in Descriptors
  <2> DEFINE clk == [x \in Terminal |->
                       IF x \in OutEntity THEN e.id["out_clk"] ELSE e.id["in_clk"]]
             src == [io_out_ot |-> e.id["usb_out_it"], usb_in_ot |-> e.id["io_in_it"]]
             term == [as_out |-> e.id["usb_out_it"], as_in |-> e.id["usb_in_ot"]]
             c == Direction(EpOutEn(o))
             p == Direction(EpInEn(o))
  <2>1. \A x \in Entity : e.id[x] \in Nat
    BY <1>3 DEF Descriptors
  <2>2. /\ clk \in [Terminal -> Nat]
        /\ src \in [{"io_out_ot", "usb_in_ot"} -> Nat]
        /\ term \in [{"as_out", "as_in"} -> Nat]
    BY <2>1 DEF Entity, OutEntity, InEntity
  <2>3. 1 + c + p \in Nat /\ 9 + 37 * c + 37 * p \in Nat
    BY DEF Direction
  <2> HIDE DEF clk, src, term, c, p
  <2>4. [e EXCEPT !.clk = clk, !.src = src, !.term = term, !.count = 1 + c + p,
                  !.total = 9 + 37 * c + 37 * p] \in Descriptors
    BY <1>3, <2>2, <2>3 DEF Descriptors
  <2> QED
    BY <2>4 DEF References, clk, src, term, c, p
<1> QED
  BY <1>4 DEF SetupDescriptor, e

(* Updates of one function's records keep their type. *)
LEMMA GAudioUpdates ==
  \A g \in GAudio :
    /\ Unbound(g) \in GAudio
    /\ StreamsOff(g) \in GAudio
    /\ \A x \in BOOLEAN : /\ [g EXCEPT !.gadget = x] \in GAudio
                          /\ [g EXCEPT !.card = x] \in GAudio
    /\ \A p \in [Attr -> Nat] : [g EXCEPT !.gadget = TRUE, !.params = p] \in GAudio
    /\ \A r \in {"as_out", "as_in"} :
         /\ [g EXCEPT !.running = @ \union {r}] \in GAudio
         /\ [g EXCEPT !.running = @ \ {r}] \in GAudio
  BY DEF GAudio, Unbound, StreamsOff

LEMMA UnboundReleases ==
  \A g \in GAudio : ~Unbound(g).gadget /\ ~Unbound(g).card /\ Unbound(g).running = {}
  BY DEF GAudio, Unbound

LEMMA FUac2Updates ==
  \A u \in FUac2 :
    /\ AltsOff(u) \in FUac2
    /\ \A r \in Role, n \in Nat : [u EXCEPT !.intf[r] = n, !.alt[r] = 0] \in FUac2
    /\ \A r \in Role, n \in {0, 1} : [u EXCEPT !.alt[r] = n] \in FUac2
  BY DEF FUac2, AltsOff, Role

LEMMA DescriptorsUpdates ==
  \A d \in Descriptors, r \in Role, n \in Nat :
    /\ [d EXCEPT !.ifnum[r] = n] \in Descriptors
    /\ [d EXCEPT !.ifnum[r] = n, !.first = n] \in Descriptors
  BY DEF Descriptors

LEMMA DisabledTypes ==
  ASSUME TypeOK
  PROVE  /\ DisabledUac2 \in [Inst -> FUac2]
         /\ DisabledAgdev \in [Inst -> GAudio]
  BY GAudioUpdates, FUac2Updates DEF TypeOK, DisabledUac2, DisabledAgdev

LEMMA NextPcType ==
  \A s \in DOMAIN NextPc : NextPc[s] \in BindStep \ {"idle", "audio", "failed"}
  BY DEF NextPc, BindStep

LEMMA TypeStep ==
  ASSUME TypeOK, Lifecycle, [Next]_vars
  PROVE  TypeOK'
<1> USE ConstantsOK DEF TypeOK, Lifecycle
<1>1. ASSUME NEW i \in Inst, NEW a \in Attr, Store(i, a) PROVE TypeOK'
  BY <1>1 DEF Store, kernel
<1>2. ASSUME NEW i \in Inst, Recreate(i) PROVE TypeOK'
  BY <1>2 DEF Recreate, kernel
<1>3. ASSUME NEW i \in Inst, Link(i) PROVE TypeOK'
  <2>1. NoUac2 \in FUac2 /\ NoAgdev \in GAudio
    BY DEF NoUac2, NoAgdev, FUac2, GAudio, Role
  <2> QED
    BY <1>3, <2>1 DEF Link
<1>4. ASSUME NEW i \in Inst, Unlink(i) PROVE TypeOK'
  BY <1>4 DEF Unlink, kernel
<1>5. ASSUME NEW i \in Inst, BindValidate(i) PROVE TypeOK'
  BY <1>5 DEF BindValidate, BindStep
<1>6. ASSUME BindStart PROVE TypeOK'
  BY <1>6 DEF BindStart
<1>7. ASSUME BindInterface PROVE TypeOK'
  <2>1. cur \in Inst /\ pc \in Role
    BY <1>7 DEF BindInterface, Role
  <2>2. pc' \in BindStep
    BY <1>7, NextPcType DEF BindInterface, Role, NextPc, BindStep
  <2>3. CASE UNCHANGED <<desc, uac2, interface>>
    BY <1>7, <2>2, <2>3 DEF BindInterface
  <2>4. CASE ~UNCHANGED <<desc, uac2, interface>>
    <3> DEFINE id == Len(interface)
    <3>1. /\ id \in Nat
          /\ id < MaxConfigInterfaces
          /\ interface' = Append(interface, cur)
          /\ desc' = [desc EXCEPT !.ifnum[pc] = id, !.first = IF pc = "ac" THEN id ELSE @]
          /\ uac2' = [uac2 EXCEPT ![cur].intf[pc] = id, ![cur].alt[pc] = 0]
      <4>1. Len(interface) \in Nat
        OBVIOUS
      <4> QED
        BY <1>7, <2>4, <4>1 DEF BindInterface
    <3> HIDE DEF id
    <3>2. desc' \in Descriptors
      <4>1. \/ desc' = [desc EXCEPT !.ifnum[pc] = id]
            \/ desc' = [desc EXCEPT !.ifnum[pc] = id, !.first = id]
        <5>1. CASE pc = "ac"
          BY <3>1, <5>1
        <5>2. CASE pc # "ac"
          <6>1. desc' = [desc EXCEPT !.ifnum[pc] = id, !.first = desc.first]
            BY <3>1, <5>2
          <6> QED
            BY <6>1 DEF Descriptors
        <5> QED
          BY <5>1, <5>2
      <4>2. /\ [desc EXCEPT !.ifnum[pc] = id] \in Descriptors
            /\ [desc EXCEPT !.ifnum[pc] = id, !.first = id] \in Descriptors
        BY <2>1, <3>1, DescriptorsUpdates
      <4> QED
        BY <4>1, <4>2
    <3>3. uac2' \in [Inst -> FUac2]
      <4>1. [uac2[cur] EXCEPT !.intf[pc] = id, !.alt[pc] = 0] \in FUac2
        BY <2>1, <3>1, FUac2Updates
      <4> QED
        BY <2>1, <3>1, <4>1
    <3>4. interface' \in Seq(Inst \union {None}) /\ Len(interface') <= MaxConfigInterfaces
      BY <2>1, <3>1 DEF id
    <3> QED
      BY <1>7, <2>2, <3>2, <3>3, <3>4 DEF BindInterface
  <2> QED
    BY <2>3, <2>4
<1>8. ASSUME BindEndpoint PROVE TypeOK'
  BY <1>8, NextPcType DEF BindEndpoint, NextPc, BindStep
<1>9. ASSUME BindAssign PROVE TypeOK'
  <2>1. cur \in Inst /\ desc' \in Descriptors
    BY <1>9, SetupDescriptorType DEF BindAssign
  <2>2. agdev' \in [Inst -> GAudio]
    <3>1. [agdev[cur] EXCEPT !.gadget = TRUE, !.params = opts[cur]] \in GAudio
      BY <2>1, GAudioUpdates
    <3> QED
      BY <1>9, <2>1, <3>1 DEF BindAssign
  <2> QED
    BY <1>9, <2>1, <2>2 DEF BindAssign, BindStep
<1>10. ASSUME BindAudio PROVE TypeOK'
  <2>1. cur \in Inst
    BY <1>10 DEF BindAudio
  <2>2. agdev' \in [Inst -> GAudio]
    <3>1. /\ [agdev[cur] EXCEPT !.card = TRUE] \in GAudio
          /\ [agdev[cur] EXCEPT !.gadget = FALSE] \in GAudio
      BY <2>1, GAudioUpdates
    <3> QED
      <4>1. CASE agdev' = [agdev EXCEPT ![cur].card = TRUE]
        BY <2>1, <3>1, <4>1
      <4>2. CASE agdev' = [agdev EXCEPT ![cur].gadget = FALSE]
        BY <2>1, <3>1, <4>2
      <4> QED
        BY <1>10, <4>1, <4>2 DEF BindAudio
  <2> QED
    BY <1>10, <2>1, <2>2 DEF BindAudio, BindStep
<1>11. ASSUME BindDone PROVE TypeOK'
  BY <1>11 DEF BindDone
<1>12. ASSUME Purge PROVE TypeOK'
  <2>1. agdev' \in [Inst -> GAudio] /\ DOMAIN copy' = Inst
    BY <1>12, GAudioUpdates DEF Purge, UnbindAll
  <2>2. interface' \in Seq(Inst \union {None}) /\ Len(interface') <= MaxConfigInterfaces
    BY <1>12 DEF Purge, UnbindAll
  <2> QED
    BY <1>12, <2>1, <2>2 DEF Purge, UnbindAll, BindStep
<1>13. ASSUME SetConfiguration PROVE TypeOK'
  BY <1>13, DisabledTypes DEF SetConfiguration
<1>14. ASSUME Disconnect PROVE TypeOK'
  BY <1>14, DisabledTypes DEF Disconnect
<1>15. ASSUME GadgetOff PROVE TypeOK'
  <2>1. agdev' \in [Inst -> GAudio] /\ DOMAIN copy' = Inst
    BY <1>15, GAudioUpdates DEF GadgetOff, UnbindAll
  <2>2. interface' \in Seq(Inst \union {None}) /\ Len(interface') <= MaxConfigInterfaces
    BY <1>15 DEF GadgetOff, UnbindAll
  <2>3. uac2' \in [Inst -> FUac2]
    BY <1>15, DisabledTypes DEF GadgetOff
  <2>4. bound' \subseteq linked' /\ linked' \subseteq Inst /\ configured' \in BOOLEAN
    BY <1>15 DEF GadgetOff, UnbindAll
  <2>5. udc' \in {"off", "binding", "on"} /\ pc' \in BindStep
    BY <1>15 DEF GadgetOff, UnbindAll, BindStep
  <2>6. cur' \in Inst \union {None} /\ endpoints' \in [{"out", "in"} -> Nat]
    BY <1>15 DEF GadgetOff, UnbindAll
  <2>7. UNCHANGED <<opts, refcnt, desc>>
    BY <1>15 DEF GadgetOff, UnbindAll
  <2> QED
    BY <2>1, <2>2, <2>3, <2>4, <2>5, <2>6, <2>7
<1>16. ASSUME NEW k \in 0..(MaxConfigInterfaces - 1), NEW alt \in {0, 1}, SetInterface(k, alt)
       PROVE  TypeOK'
  <2> DEFINE i == interface[k + 1]
             r == RoleOf(uac2[i], k)
  <2>1. i \in Inst /\ r \in {"as_out", "as_in"}
    <3>1. k + 1 \in DOMAIN interface /\ i # None
      BY <1>16 DEF SetInterface
    <3> QED
      BY <3>1, <1>16 DEF SetInterface, AfuncSetAlt
  <2>2. /\ uac2' = [uac2 EXCEPT ![i].alt[r] = alt]
        /\ \/ agdev' = [agdev EXCEPT ![i].running = @ \union {r}]
           \/ agdev' = [agdev EXCEPT ![i].running = @ \ {r}]
           \/ UNCHANGED agdev
    BY <1>16, <2>1 DEF SetInterface, AfuncSetAlt
  <2> HIDE DEF i, r
  <2>3. uac2' \in [Inst -> FUac2]
    BY <2>1, <2>2, FUac2Updates DEF Role
  <2>4. agdev' \in [Inst -> GAudio]
    <3> SUFFICES ASSUME NEW j \in Inst PROVE agdev'[j] \in GAudio
      BY <2>1, <2>2
    <3>1. CASE j = i
      <4>1. \/ agdev'[i] = [agdev[i] EXCEPT !.running = @ \union {r}]
            \/ agdev'[i] = [agdev[i] EXCEPT !.running = @ \ {r}]
            \/ agdev'[i] = agdev[i]
        BY <2>1, <2>2
      <4> QED
        <5>1. /\ [agdev[i] EXCEPT !.running = @ \union {r}] \in GAudio
              /\ [agdev[i] EXCEPT !.running = @ \ {r}] \in GAudio
          BY <2>1, GAudioUpdates
        <5> QED
          BY <2>1, <3>1, <4>1, <5>1
    <3>2. CASE j # i
      BY <2>2, <3>2
    <3> QED
      BY <3>1, <3>2
  <2> QED
    BY <1>16, <2>3, <2>4 DEF SetInterface
<1>17. CASE UNCHANGED vars
  BY <1>17 DEF vars
<1> HIDE DEF TypeOK, Lifecycle
<1> QED
  BY <1>1, <1>2, <1>3, <1>4, <1>5, <1>6, <1>7, <1>8, <1>9, <1>10, <1>11, <1>12,
       <1>13, <1>14, <1>15, <1>16, <1>17 DEF Next

LEMMA LifecycleStep ==
  ASSUME TypeOK, Lifecycle, [Next]_vars
  PROVE  Lifecycle'
<1> USE ConstantsOK DEF TypeOK, Lifecycle
<1>1. ASSUME NEW i \in Inst, NEW a \in Attr, Store(i, a) PROVE Lifecycle'
  BY <1>1 DEF Store, kernel
<1>2. ASSUME NEW i \in Inst, Recreate(i) PROVE Lifecycle'
  BY <1>2 DEF Recreate, kernel
<1>3. ASSUME NEW i \in Inst, Link(i) PROVE Lifecycle'
  BY <1>3 DEF Link
<1>4. ASSUME NEW i \in Inst, Unlink(i) PROVE Lifecycle'
  BY <1>4 DEF Unlink, kernel
<1>5. ASSUME NEW i \in Inst, BindValidate(i) PROVE Lifecycle'
  BY <1>5 DEF BindValidate
<1>6. ASSUME BindStart PROVE Lifecycle'
  BY <1>6 DEF BindStart
<1>7. ASSUME BindInterface PROVE Lifecycle'
  <2>1. pc # "idle" /\ pc' # "idle" /\ UNCHANGED <<refcnt, udc, bound, linked, cur, configured>>
    BY <1>7 DEF BindInterface, NextPc, Role
  <2>2. interface' = interface \/ interface' = Append(interface, cur)
    BY <1>7 DEF BindInterface
  <2>3. \A k \in DOMAIN interface' :
         interface'[k] = None \/ interface'[k] \in bound \union {cur}
    <3>1. CASE interface' = Append(interface, cur)
      <4>1. Len(interface') = Len(interface) + 1 /\ interface'[Len(interface) + 1] = cur
            /\ \A k \in 1..Len(interface) : interface'[k] = interface[k]
        BY <3>1
      <4>2. DOMAIN interface = 1..Len(interface) /\ DOMAIN interface' = 1..(Len(interface) + 1)
            /\ Len(interface) \in Nat
        BY <3>1, <4>1
      <4> QED
        <5> SUFFICES ASSUME NEW k \in DOMAIN interface'
                     PROVE  interface'[k] = None \/ interface'[k] \in bound \union {cur}
          OBVIOUS
        <5>1. CASE k = Len(interface) + 1
          BY <4>1, <5>1
        <5>2. CASE k \in 1..Len(interface)
          BY <4>1, <4>2, <5>2
        <5> QED
          BY <4>2, <5>1, <5>2
    <3> QED
      BY <2>2, <3>1
  <2> QED
    BY <2>1, <2>3
<1>8. ASSUME BindEndpoint PROVE Lifecycle'
  BY <1>8 DEF BindEndpoint, NextPc
<1>9. ASSUME BindAssign PROVE Lifecycle'
  BY <1>9 DEF BindAssign
<1>10. ASSUME BindAudio PROVE Lifecycle'
  BY <1>10 DEF BindAudio
<1>11. ASSUME BindDone PROVE Lifecycle'
  BY <1>11 DEF BindDone
<1>12. ASSUME Purge PROVE Lifecycle'
  BY <1>12 DEF Purge, UnbindAll
<1>13. ASSUME SetConfiguration PROVE Lifecycle'
  BY <1>13 DEF SetConfiguration
<1>14. ASSUME Disconnect PROVE Lifecycle'
  BY <1>14 DEF Disconnect
<1>15. ASSUME GadgetOff PROVE Lifecycle'
  BY <1>15 DEF GadgetOff, UnbindAll
<1>16. ASSUME NEW k \in 0..(MaxConfigInterfaces - 1), NEW alt \in {0, 1}, SetInterface(k, alt)
       PROVE  Lifecycle'
  BY <1>16 DEF SetInterface, AfuncSetAlt, RoleOf, Role
<1>17. CASE UNCHANGED vars
  BY <1>17 DEF vars
<1> HIDE DEF TypeOK, Lifecycle
<1> QED
  BY <1>1, <1>2, <1>3, <1>4, <1>5, <1>6, <1>7, <1>8, <1>9, <1>10, <1>11, <1>12,
       <1>13, <1>14, <1>15, <1>16, <1>17 DEF Next

LEMMA AnnouncedStep ==
  ASSUME TypeOK, Lifecycle, Announced, [Next]_vars
  PROVE  Announced'
<1> USE ConstantsOK DEF TypeOK, Lifecycle, Announced, Announces
<1>1. ASSUME NEW i \in Inst, NEW a \in Attr, Store(i, a) PROVE Announced'
  BY <1>1 DEF Store, kernel
<1>2. ASSUME NEW i \in Inst, Recreate(i) PROVE Announced'
  BY <1>2 DEF Recreate, kernel
<1>3. ASSUME NEW i \in Inst, Link(i) PROVE Announced'
  BY <1>3 DEF Link
<1>4. ASSUME NEW i \in Inst, Unlink(i) PROVE Announced'
  BY <1>4 DEF Unlink, kernel
<1>5. ASSUME NEW i \in Inst, BindValidate(i) PROVE Announced'
  BY <1>5 DEF BindValidate
<1>6. ASSUME BindStart PROVE Announced'
  BY <1>6 DEF BindStart
<1>7. ASSUME BindInterface PROVE Announced'
  BY <1>7 DEF BindInterface, NextPc, Role
<1>8. ASSUME BindEndpoint PROVE Announced'
  BY <1>8 DEF BindEndpoint, NextPc
<1>9. ASSUME BindAssign PROVE Announced'
  <2>1. cur \in Inst /\ cur \notin bound
    BY <1>9 DEF BindAssign
  <2>2. UNCHANGED <<opts, bound>> /\ pc' \in {"audio", "failed"}
    BY <1>9 DEF BindAssign
  <2>3. CASE UNCHANGED <<copy, agdev>> /\ pc' = "failed"
    BY <2>2, <2>3
  <2>4. CASE pc' = "audio"
    <3>1. /\ copy' = [copy EXCEPT ![cur] = CopyOf(desc', opts[cur])]
          /\ agdev' = [agdev EXCEPT ![cur].gadget = TRUE, ![cur].params = opts[cur]]
          /\ cur' = cur
      BY <1>9, <2>4 DEF BindAssign
    <3>2. \A i \in bound : copy'[i] = copy[i] /\ agdev'[i] = agdev[i]
      BY <2>1, <3>1
    <3>3. agdev'[cur].params = opts[cur]
      BY <2>1, <3>1 DEF GAudio
    <3>4. /\ DOMAIN copy'[cur].ifnum = Roles(opts[cur])
          /\ DOMAIN copy'[cur].id = Entities(opts[cur])
      BY <2>1, <3>1 DEF CopyOf
    <3> QED
      BY <2>2, <3>1, <3>2, <3>3, <3>4
  <2> QED
    BY <2>2, <2>3, <2>4, <1>9 DEF BindAssign
<1>10. ASSUME BindAudio PROVE Announced'
  <2>1. cur \in Inst /\ cur \notin bound /\ UNCHANGED opts /\ Announces(cur)
    BY <1>10 DEF BindAudio
  <2>2. CASE bound' = bound \union {cur}
    <3>1. agdev' = [agdev EXCEPT ![cur].card = TRUE] /\ copy' = copy /\ pc' = "idle"
      BY <1>10, <2>1, <2>2 DEF BindAudio
    <3>2. \A i \in Inst : agdev'[i].params = agdev[i].params
      BY <2>1, <3>1 DEF GAudio
    <3> QED
      BY <2>1, <2>2, <3>1, <3>2
  <2>3. CASE bound' = bound
    <3>1. \A i \in bound : copy'[i] = copy[i] /\ agdev'[i] = agdev[i]
      BY <1>10, <2>1, <2>3 DEF BindAudio
    <3>2. pc' # "audio"
      BY <1>10 DEF BindAudio
    <3> QED
      BY <2>1, <2>3, <3>1, <3>2
  <2> QED
    BY <1>10, <2>2, <2>3 DEF BindAudio
<1>11. ASSUME BindDone PROVE Announced'
  BY <1>11 DEF BindDone
<1>12. ASSUME Purge PROVE Announced'
  BY <1>12 DEF Purge, UnbindAll
<1>13. ASSUME SetConfiguration PROVE Announced'
  <2>1. \A i \in Inst : agdev'[i].params = agdev[i].params
    BY <1>13 DEF SetConfiguration, DisabledAgdev, StreamsOff, GAudio
  <2> QED
    BY <1>13, <2>1 DEF SetConfiguration
<1>14. ASSUME Disconnect PROVE Announced'
  <2>1. \A i \in Inst : agdev'[i].params = agdev[i].params
    BY <1>14 DEF Disconnect, DisabledAgdev, StreamsOff, GAudio
  <2> QED
    BY <1>14, <2>1 DEF Disconnect
<1>15. ASSUME GadgetOff PROVE Announced'
  BY <1>15 DEF GadgetOff, UnbindAll
<1>16. ASSUME NEW k \in 0..(MaxConfigInterfaces - 1), NEW alt \in {0, 1}, SetInterface(k, alt)
       PROVE  Announced'
  <2>1. \A i \in Inst : agdev'[i].params = agdev[i].params
    <3>1. PICK i \in Inst, r \in {"as_out", "as_in"} :
            \/ agdev' = [agdev EXCEPT ![i].running = @ \union {r}]
            \/ agdev' = [agdev EXCEPT ![i].running = @ \ {r}]
            \/ UNCHANGED agdev
      BY <1>16 DEF SetInterface, AfuncSetAlt
    <3>2. CASE agdev' = [agdev EXCEPT ![i].running = @ \union {r}]
      BY <3>2 DEF GAudio
    <3>3. CASE agdev' = [agdev EXCEPT ![i].running = @ \ {r}]
      BY <3>3 DEF GAudio
    <3> QED
      BY <3>1, <3>2, <3>3
  <2> QED
    BY <1>16, <2>1 DEF SetInterface
<1>17. CASE UNCHANGED vars
  BY <1>17 DEF vars
<1> HIDE DEF TypeOK, Lifecycle, Announced, Announces
<1> QED
  BY <1>1, <1>2, <1>3, <1>4, <1>5, <1>6, <1>7, <1>8, <1>9, <1>10, <1>11, <1>12,
       <1>13, <1>14, <1>15, <1>16, <1>17 DEF Next

LEMMA ReleasedStep ==
  ASSUME TypeOK, Lifecycle, Released, [Next]_vars
  PROVE  Released'
<1> USE ConstantsOK DEF TypeOK, Lifecycle, Released
<1>1. ASSUME NEW i \in Inst, NEW a \in Attr, Store(i, a) PROVE Released'
  BY <1>1 DEF Store, kernel
<1>2. ASSUME NEW i \in Inst, Recreate(i) PROVE Released'
  BY <1>2 DEF Recreate, kernel
<1>3. ASSUME NEW i \in Inst, Link(i) PROVE Released'
  BY <1>3 DEF Link, NoAgdev
<1>4. ASSUME NEW i \in Inst, Unlink(i) PROVE Released'
  BY <1>4 DEF Unlink, kernel
<1>5. ASSUME NEW i \in Inst, BindValidate(i) PROVE Released'
  BY <1>5 DEF BindValidate
<1>6. ASSUME BindStart PROVE Released'
  BY <1>6 DEF BindStart
<1>7. ASSUME BindInterface PROVE Released'
  BY <1>7 DEF BindInterface, NextPc, Role
<1>8. ASSUME BindEndpoint PROVE Released'
  BY <1>8 DEF BindEndpoint, NextPc
<1>9. ASSUME BindAssign PROVE Released'
  <2>1. cur \in Inst
    BY <1>9 DEF BindAssign
  <2>2. \A j \in Inst \ {cur} : agdev'[j] = agdev[j] /\ copy'[j] = copy[j]
    BY <1>9, <2>1 DEF BindAssign
  <2>3. agdev'[cur].card = agdev[cur].card /\ agdev'[cur].running = agdev[cur].running
    <3>1. CASE agdev' = [agdev EXCEPT ![cur].gadget = TRUE, ![cur].params = opts[cur]]
      BY <2>1, <3>1 DEF GAudio
    <3> QED
      BY <1>9, <3>1 DEF BindAssign
  <2>4. pc' = "audio" \/ UNCHANGED <<agdev, copy>>
    BY <1>9 DEF BindAssign
  <2> QED
    BY <1>9, <2>1, <2>2, <2>3, <2>4 DEF BindAssign
<1>10. ASSUME BindAudio PROVE Released'
  <2>1. cur \in Inst
    BY <1>10 DEF BindAudio
  <2>2. \A j \in Inst \ {cur} : agdev'[j] = agdev[j] /\ copy'[j] = copy[j]
    BY <1>10, <2>1 DEF BindAudio
  <2>3. CASE bound' = bound \union {cur}
    BY <1>10, <2>2, <2>3 DEF BindAudio
  <2>4. CASE pc' = "failed"
    <3>1. /\ copy' = [copy EXCEPT ![cur] = NoCopy]
          /\ agdev' = [agdev EXCEPT ![cur].gadget = FALSE]
          /\ UNCHANGED <<bound, cur>>
      BY <1>10, <2>4 DEF BindAudio
    <3>2. /\ copy'[cur] = NoCopy
          /\ ~agdev'[cur].gadget
          /\ agdev'[cur].card = agdev[cur].card
          /\ agdev'[cur].running = agdev[cur].running
      BY <2>1, <3>1 DEF GAudio
    <3> QED
      BY <2>2, <2>4, <3>1, <3>2
  <2> QED
    BY <1>10, <2>3, <2>4 DEF BindAudio
<1>11. ASSUME BindDone PROVE Released'
  BY <1>11 DEF BindDone
<1>12. ASSUME Purge PROVE Released'
  <2>1. \A i \in bound : /\ ~agdev'[i].gadget /\ ~agdev'[i].card
                          /\ agdev'[i].running = {} /\ copy'[i] = NoCopy
    <3>1. \A i \in bound : agdev'[i] = Unbound(agdev[i]) /\ copy'[i] = NoCopy
      BY <1>12 DEF Purge, UnbindAll
    <3> QED
      BY <3>1, UnboundReleases
  <2>2. \A i \in Inst \ bound : agdev'[i] = agdev[i] /\ copy'[i] = copy[i]
    BY <1>12 DEF Purge, UnbindAll
  <2>3. bound' = {} /\ pc' = "idle" /\ pc # "audio"
    BY <1>12 DEF Purge, UnbindAll
  <2> QED
    BY <2>1, <2>2, <2>3
<1>13. ASSUME SetConfiguration PROVE Released'
  <2>1. \A i \in Inst \ bound : agdev'[i] = agdev[i]
    BY <1>13 DEF SetConfiguration, DisabledAgdev
  <2> QED
    BY <1>13, <2>1 DEF SetConfiguration
<1>14. ASSUME Disconnect PROVE Released'
  <2>1. \A i \in Inst \ bound : agdev'[i] = agdev[i]
    BY <1>14 DEF Disconnect, DisabledAgdev
  <2> QED
    BY <1>14, <2>1 DEF Disconnect
<1>15. ASSUME GadgetOff PROVE Released'
  <2>1. \A i \in bound : /\ ~agdev'[i].gadget /\ ~agdev'[i].card
                          /\ agdev'[i].running = {} /\ copy'[i] = NoCopy
    <3>1. \A i \in bound : agdev'[i] = Unbound(agdev[i]) /\ copy'[i] = NoCopy
      BY <1>15 DEF GadgetOff, UnbindAll
    <3> QED
      BY <3>1, UnboundReleases
  <2>2. \A i \in Inst \ bound : agdev'[i] = agdev[i] /\ copy'[i] = copy[i]
    BY <1>15 DEF GadgetOff, UnbindAll
  <2>3. bound' = {} /\ pc' = "idle" /\ pc # "audio"
    BY <1>15 DEF GadgetOff, UnbindAll
  <2> QED
    BY <2>1, <2>2, <2>3
<1>16. ASSUME NEW k \in 0..(MaxConfigInterfaces - 1), NEW alt \in {0, 1}, SetInterface(k, alt)
       PROVE  Released'
  <2>1. interface[k + 1] \in bound
    BY <1>16 DEF SetInterface
  <2>2. \A j \in Inst \ bound : agdev'[j] = agdev[j]
    BY <1>16, <2>1 DEF SetInterface, AfuncSetAlt
  <2> QED
    BY <1>16, <2>2 DEF SetInterface
<1>17. CASE UNCHANGED vars
  BY <1>17 DEF vars
<1> HIDE DEF TypeOK, Lifecycle, Released
<1> QED
  BY <1>1, <1>2, <1>3, <1>4, <1>5, <1>6, <1>7, <1>8, <1>9, <1>10, <1>11, <1>12,
       <1>13, <1>14, <1>15, <1>16, <1>17 DEF Next

LEMMA StreamsStep ==
  ASSUME TypeOK, Lifecycle, Released, StreamsFollowHost, [Next]_vars
  PROVE  StreamsFollowHost'
<1> USE ConstantsOK DEF TypeOK, Lifecycle, Released, StreamsFollowHost
<1>1. ASSUME NEW i \in Inst, NEW a \in Attr, Store(i, a) PROVE StreamsFollowHost'
  BY <1>1 DEF Store, kernel
<1>2. ASSUME NEW i \in Inst, Recreate(i) PROVE StreamsFollowHost'
  BY <1>2 DEF Recreate, kernel
<1>3. ASSUME NEW i \in Inst, Link(i) PROVE StreamsFollowHost'
  BY <1>3 DEF Link, NoAgdev
<1>4. ASSUME NEW i \in Inst, Unlink(i) PROVE StreamsFollowHost'
  BY <1>4 DEF Unlink, kernel
<1>5. ASSUME NEW i \in Inst, BindValidate(i) PROVE StreamsFollowHost'
  BY <1>5 DEF BindValidate
<1>6. ASSUME BindStart PROVE StreamsFollowHost'
  BY <1>6 DEF BindStart
<1>7. ASSUME BindInterface PROVE StreamsFollowHost'
  <2>1. \A i \in bound : uac2'[i] = uac2[i]
    BY <1>7 DEF BindInterface, Role
  <2> QED
    BY <1>7, <2>1 DEF BindInterface
<1>8. ASSUME BindEndpoint PROVE StreamsFollowHost'
  BY <1>8 DEF BindEndpoint, NextPc
<1>9. ASSUME BindAssign PROVE StreamsFollowHost'
  <2>1. cur \in Inst
    BY <1>9 DEF BindAssign
  <2>2. \A i \in Inst : agdev'[i].running = agdev[i].running
    <3>1. CASE agdev' = [agdev EXCEPT ![cur].gadget = TRUE, ![cur].params = opts[cur]]
      BY <2>1, <3>1 DEF GAudio
    <3> QED
      BY <1>9, <3>1 DEF BindAssign
  <2> QED
    BY <1>9, <2>2 DEF BindAssign
<1>10. ASSUME BindAudio PROVE StreamsFollowHost'
  <2>1. cur \in Inst
    BY <1>10 DEF BindAudio
  <2>2. \A i \in Inst : agdev'[i].running = agdev[i].running
    <3>1. \/ agdev' = [agdev EXCEPT ![cur].card = TRUE]
          \/ agdev' = [agdev EXCEPT ![cur].gadget = FALSE]
      BY <1>10 DEF BindAudio
    <3>2. CASE agdev' = [agdev EXCEPT ![cur].card = TRUE]
      BY <2>1, <3>2 DEF GAudio
    <3>3. CASE agdev' = [agdev EXCEPT ![cur].gadget = FALSE]
      BY <2>1, <3>3 DEF GAudio
    <3> QED
      BY <3>1, <3>2, <3>3
  <2> QED
    BY <1>10, <2>2 DEF BindAudio
<1>11. ASSUME BindDone PROVE StreamsFollowHost'
  BY <1>11 DEF BindDone
<1>12. ASSUME Purge PROVE StreamsFollowHost'
  <2>1. \A i \in Inst : agdev'[i].running = {}
    <3>1. /\ \A i \in bound : agdev'[i] = Unbound(agdev[i])
          /\ \A i \in Inst \ bound : agdev'[i] = agdev[i]
      BY <1>12 DEF Purge, UnbindAll
    <3> QED
      BY <3>1, UnboundReleases
  <2> QED
    BY <2>1
<1>13. ASSUME SetConfiguration PROVE StreamsFollowHost'
  <2>1. \A i \in bound : agdev'[i].running = {}
    BY <1>13 DEF SetConfiguration, DisabledAgdev, StreamsOff, GAudio
  <2>2. \A i \in Inst \ bound : agdev'[i] = agdev[i]
    BY <1>13 DEF SetConfiguration, DisabledAgdev
  <2> QED
    BY <2>1, <2>2
<1>14. ASSUME Disconnect PROVE StreamsFollowHost'
  <2>1. \A i \in bound : agdev'[i].running = {}
    BY <1>14 DEF Disconnect, DisabledAgdev, StreamsOff, GAudio
  <2>2. \A i \in Inst \ bound : agdev'[i] = agdev[i]
    BY <1>14 DEF Disconnect, DisabledAgdev
  <2> QED
    BY <2>1, <2>2
<1>15. ASSUME GadgetOff PROVE StreamsFollowHost'
  <2>1. \A i \in Inst : agdev'[i].running = {}
    <3>1. /\ \A i \in bound : agdev'[i] = Unbound(agdev[i])
          /\ \A i \in Inst \ bound : agdev'[i] = agdev[i]
      BY <1>15 DEF GadgetOff, UnbindAll
    <3> QED
      BY <3>1, UnboundReleases
  <2> QED
    BY <2>1
<1>16. ASSUME NEW k \in 0..(MaxConfigInterfaces - 1), NEW alt \in {0, 1}, SetInterface(k, alt)
       PROVE  StreamsFollowHost'
  <2> DEFINE i == interface[k + 1]
             r == RoleOf(uac2[i], k)
  <2>1. i \in bound /\ i \in Inst /\ r \in {"as_out", "as_in"}
    BY <1>16 DEF SetInterface, AfuncSetAlt
  <2>2. /\ uac2' = [uac2 EXCEPT ![i].alt[r] = alt]
        /\ \/ alt = 1 /\ agdev' = [agdev EXCEPT ![i].running = @ \union {r}]
           \/ alt = 1 /\ UNCHANGED agdev
           \/ alt = 0 /\ agdev' = [agdev EXCEPT ![i].running = @ \ {r}]
        /\ UNCHANGED <<bound, configured>> /\ configured
    BY <1>16, <2>1 DEF SetInterface, AfuncSetAlt
  <2> HIDE DEF i, r
  <2>3. \A j \in Inst \ {i} : uac2'[j] = uac2[j] /\ agdev'[j] = agdev[j]
    BY <2>1, <2>2
  <2>4. /\ uac2'[i].alt[r] = alt
        /\ \A q \in {"as_out", "as_in"} \ {r} : uac2'[i].alt[q] = uac2[i].alt[q]
    BY <2>1, <2>2 DEF FUac2, Role
  <2>5. /\ agdev'[i].running \subseteq agdev[i].running \union {r}
        /\ alt = 0 => r \notin agdev'[i].running
    BY <2>1, <2>2 DEF GAudio
  <2> SUFFICES ASSUME NEW q \in agdev'[i].running
               PROVE  uac2'[i].alt[q] = 1
    BY <2>1, <2>2, <2>3
  <2>6. CASE q = r
    BY <2>4, <2>5, <2>6
  <2>7. CASE q # r
    <3>1. q \in agdev[i].running
      BY <2>5, <2>7
    <3>2. q \in {"as_out", "as_in"} /\ uac2[i].alt[q] = 1
      BY <2>1, <3>1 DEF GAudio
    <3> QED
      BY <2>4, <2>7, <3>2
  <2> QED
    BY <2>6, <2>7
<1>17. CASE UNCHANGED vars
  BY <1>17 DEF vars
<1> HIDE DEF TypeOK, Lifecycle, Released, StreamsFollowHost
<1> QED
  BY <1>1, <1>2, <1>3, <1>4, <1>5, <1>6, <1>7, <1>8, <1>9, <1>10, <1>11, <1>12,
       <1>13, <1>14, <1>15, <1>16, <1>17 DEF Next

(* IInv holds at first and every step preserves it. *)
LEMMA IInvInit == Init => IInv
<1> SUFFICES ASSUME Init PROVE IInv
  OBVIOUS
<1>1. TypeOK
  <2>1. desc \in Descriptors
    BY DEF Init, Descriptors, Entity, OutEntity, InEntity, Terminal, Role
  <2>2. NoUac2 \in FUac2 /\ NoAgdev \in GAudio
    BY ConstantsOK DEF NoUac2, NoAgdev, FUac2, GAudio, Role
  <2>3. opts \in [Inst -> [Attr -> Nat]] /\ refcnt \in [Inst -> {0, 1}]
    BY ConstantsOK DEF Init
  <2>4. uac2 \in [Inst -> FUac2] /\ agdev \in [Inst -> GAudio] /\ DOMAIN copy = Inst
    BY <2>2 DEF Init
  <2>5. interface \in Seq(Inst \union {None}) /\ Len(interface) <= MaxConfigInterfaces
    BY ConstantsOK DEF Init
  <2>6. desc \in Descriptors
    BY <2>1
  <2>7. linked \subseteq Inst /\ bound \subseteq linked /\ configured \in BOOLEAN
    BY DEF Init
  <2>8. udc \in {"off", "binding", "on"} /\ pc \in BindStep
    BY DEF Init, BindStep
  <2>9. cur \in Inst \union {None} /\ endpoints \in [{"out", "in"} -> Nat]
    BY DEF Init
  <2> QED
    BY <2>3, <2>4, <2>5, <2>6, <2>7, <2>8, <2>9 DEF TypeOK
<1>2. Lifecycle /\ Announced
  BY DEF Init, Lifecycle, Announced
<1>3. Released /\ StreamsFollowHost
  BY DEF Init, Released, StreamsFollowHost, NoAgdev
<1> QED
  BY <1>1, <1>2, <1>3 DEF IInv

LEMMA IInvStep == IInv /\ [Next]_vars => IInv'
  BY TypeStep, LifecycleStep, AnnouncedStep, ReleasedStep, StreamsStep DEF IInv

(* The inductive invariant, for any instances, options, interface and endpoint
   limits, and any order of linking, binding, failing and host requests. *)
THEOREM Invariance == Spec => []IInv
<1>1. Init => IInv
  BY IInvInit
<1>2. IInv /\ [Next]_vars => IInv'
  BY IInvStep
<1> QED
  BY <1>1, <1>2, PTL DEF Spec

(* Type correctness: in particular no bind ever takes more interfaces than the
   configuration has, at whatever point binds fail and are repeated. *)
THEOREM TypeCorrect == Spec => []TypeOK
<1>1. IInv => TypeOK
  BY DEF IInv
<1> QED
  BY <1>1, Invariance, PTL

(* No sequence of attribute writes, links, binds and failures lets the options
   of a bound function differ from what it announced. *)
THEOREM AnnouncedIsCurrentCorrect == Spec => []AnnouncedIsCurrent
<1>1. IInv => AnnouncedIsCurrent
  BY DEF IInv, Announced, Announces, AnnouncedIsCurrent
<1> QED
  BY <1>1, Invariance, PTL

(* A stream runs only at the host's word, for any number of functions. *)
THEOREM StreamsFollowHostCorrect == Spec => []StreamsFollowHost
<1>1. IInv => StreamsFollowHost
  BY DEF IInv
<1> QED
  BY <1>1, Invariance, PTL

(* Whatever failed while binding, a gadget that is off holds nothing. *)
THEOREM OffMeansReleasedCorrect == Spec => []OffMeansReleased
<1>1. IInv => OffMeansReleased
  BY DEF IInv, TypeOK, Lifecycle, Released, OffMeansReleased
<1> QED
  BY <1>1, Invariance, PTL

-----------------------------------------------------------------------------
(* Descriptors, interface numbers and clocks *)

(***************************************************************************)
(* The numbers a function has in struct f_uac2. A disabled direction keeps *)
(* the 0 that afunc_alloc gave it. Of the roles s numbered so far: each    *)
(* number leads to the function in config->interface[], each interface of  *)
(* the function has one of these roles, no two share a number, and only    *)
(* the control interface may have number 0.                                *)
(***************************************************************************)
Placed(i, s) ==
  LET intf == uac2[i].intf IN
  /\ \A r \in s : intf[r] + 1 \in DOMAIN interface /\ interface[intf[r] + 1] = i
  /\ \A k \in DOMAIN interface : interface[k] = i => \E r \in s : intf[r] + 1 = k
  /\ \A r, t \in s : intf[r] = intf[t] => r = t
  /\ \A r \in s \ {"ac"} : intf[r] # 0

(* The roles that have been numbered when afunc_bind is at s. *)
Past(s) == CASE s \in {"idle", "ac"} -> {}
             [] s = "as_out" -> {"ac"}
             [] s = "as_in" -> {"ac", "as_out"}
             [] OTHER -> Role

CurRoles == Past(pc) \cap Roles(opts[cur])

(* The descriptors name the numbers of the function they were copied for, those in
   the shared ones the numbers of the function being bound. *)
Numbered ==
  /\ \A i \in linked : \A r \in Role \ Roles(opts[i]) : uac2[i].intf[r] = 0
  /\ \A i \in bound : Placed(i, Roles(opts[i]))
  /\ \A i \in bound : \A r \in Roles(opts[i]) : copy[i].ifnum[r] = uac2[i].intf[r]
  /\ pc \notin {"idle", "failed"} => Placed(cur, CurRoles)
  /\ pc \notin {"idle", "failed"} =>
       \A r \in CurRoles : desc.ifnum[r] = uac2[cur].intf[r]
  /\ pc = "audio" => \A r \in Roles(opts[cur]) : copy[cur].ifnum[r] = uac2[cur].intf[r]

(* DescriptorsWellFormed, of one set of descriptors. *)
Closed(c) ==
  /\ \A e \in DOMAIN c.id : c.id[e] \in 1..6
  /\ \A e, f \in DOMAIN c.id : c.id[e] = c.id[f] => e = f
  /\ \A e \in DOMAIN c.clk :
       c.clk[e] = c.id[IF e \in OutEntity THEN "out_clk" ELSE "in_clk"]
  /\ \A e \in DOMAIN c.src :
       c.src[e] = c.id[IF e \in OutEntity THEN "usb_out_it" ELSE "io_in_it"]
  /\ \A r \in DOMAIN c.term :
       c.term[r] = c.id[IF r = "as_out" THEN "usb_out_it" ELSE "usb_in_ot"]
  /\ c.first = c.ifnum["ac"]
  /\ c.count = Cardinality(DOMAIN c.ifnum)
  /\ 3 * c.total = 27 + 37 * Cardinality(DOMAIN c.id)

(* Also of the function about to be bound; the interface association begins at the
   control interface from the moment that has a number. *)
WellFormed ==
  /\ \A i \in bound : Closed(copy[i])
  /\ pc = "audio" => Closed(copy[cur])
  /\ "ac" \in Past(pc) /\ pc # "failed" => desc.first = desc.ifnum["ac"]

(* A bind of both directions always gives the clocks the same numbers, in the copy and
   in the shared descriptors; those of the last bind stay in the shared ones. *)
Full(o) == EpOutEn(o) /\ EpInEn(o)
FullClocks(id) == id["out_clk"] = 5 /\ id["in_clk"] = 6

Clocks ==
  /\ \A i \in bound : Full(opts[i]) => FullClocks(copy[i].id)
  /\ pc = "audio" /\ Full(opts[cur]) => FullClocks(copy[cur].id) /\ FullClocks(desc.id)
  /\ bound # {} /\ (\A i \in bound : Full(opts[i])) /\ pc \notin {"audio", "failed"} =>
       FullClocks(desc.id)

BindInv == Numbered /\ WellFormed /\ Clocks

(* What the steps outside a bind leave alone: everything BindInv says of the functions
   of the configuration. *)
Frame ==
  /\ linked' \subseteq linked
  /\ \A i \in linked : /\ opts'[i] = opts[i]
                       /\ copy'[i] = copy[i]
                       /\ uac2'[i].intf = uac2[i].intf
  /\ UNCHANGED <<desc, bound, cur, pc, interface>>

LEMMA PastFacts ==
  /\ Past("idle") = {}
  /\ Past("ac") = {}
  /\ Past("as_out") = {"ac"}
  /\ Past("as_in") = {"ac", "as_out"}
  /\ \A s \in {"ep_out", "ep_in", "assign", "audio"} : Past(s) = Role
  BY DEF Past

LEMMA DisabledKeepsNumbers ==
  ASSUME TypeOK
  PROVE  \A i \in Inst : DisabledUac2[i].intf = uac2[i].intf
  BY DEF TypeOK, DisabledUac2, AltsOff, FUac2

(* Attribute writes and the host's requests touch no function of the configuration. *)
LEMMA FrameSteps ==
  ASSUME TypeOK, Lifecycle
  PROVE  /\ \A i \in Inst : /\ \A a \in Attr : Store(i, a) => Frame
                            /\ Recreate(i) => Frame
                            /\ Unlink(i) => Frame
         /\ BindDone \/ SetConfiguration \/ Disconnect => Frame
         /\ \A k \in 0..(MaxConfigInterfaces - 1), alt \in {0, 1} :
              SetInterface(k, alt) => Frame
         /\ UNCHANGED vars => Frame
<1> USE DEF TypeOK, Lifecycle, Frame
<1>1. ASSUME NEW i \in Inst, NEW a \in Attr, Store(i, a) PROVE Frame
  BY <1>1 DEF Store, kernel
<1>2. ASSUME NEW i \in Inst, Recreate(i) PROVE Frame
  BY <1>2 DEF Recreate, kernel
<1>3. ASSUME NEW i \in Inst, Unlink(i) PROVE Frame
  BY <1>3 DEF Unlink, kernel
<1>4. ASSUME BindDone PROVE Frame
  BY <1>4 DEF BindDone
<1>5. ASSUME SetConfiguration \/ Disconnect PROVE Frame
  BY <1>5, DisabledKeepsNumbers DEF SetConfiguration, Disconnect
<1>6. ASSUME NEW k \in 0..(MaxConfigInterfaces - 1), NEW alt \in {0, 1}, SetInterface(k, alt)
      PROVE  Frame
  <2>1. PICK i \in Inst, r \in {"as_out", "as_in"} : uac2' = [uac2 EXCEPT ![i].alt[r] = alt]
    BY <1>6 DEF SetInterface, AfuncSetAlt
  <2>2. \A j \in Inst : uac2'[j].intf = uac2[j].intf
    BY <2>1 DEF FUac2
  <2> QED
    BY <1>6, <2>2 DEF SetInterface
<1>7. ASSUME UNCHANGED vars PROVE Frame
  BY <1>7 DEF vars
<1> QED
  BY <1>1, <1>2, <1>3, <1>4, <1>5, <1>6, <1>7

LEMMA NumberedFrame ==
  ASSUME TypeOK, Lifecycle, Numbered, Frame
  PROVE  Numbered'
<1> USE DEF Frame
<1>1. \A i \in linked' : \A r \in Role \ Roles(opts'[i]) : uac2'[i].intf[r] = 0
  BY DEF Numbered
<1>2. \A i \in bound : /\ i \in linked
                       /\ Placed(i, Roles(opts[i])) /\ opts'[i] = opts[i]
                       /\ uac2'[i].intf = uac2[i].intf /\ copy'[i] = copy[i]
  BY DEF TypeOK, Numbered
<1>3. \A i \in bound : Placed(i, Roles(opts[i]))'
  BY <1>2 DEF Placed
<1>4. \A i \in bound' : \A r \in Roles(opts'[i]) : copy'[i].ifnum[r] = uac2'[i].intf[r]
  BY <1>2 DEF Numbered
<1>5. ASSUME pc \notin {"idle", "failed"}
      PROVE  /\ cur \in linked
             /\ CurRoles' = CurRoles
             /\ Placed(cur, CurRoles)'
             /\ \A r \in CurRoles' : desc'.ifnum[r] = uac2'[cur].intf[r]
  <2>1. cur \in linked
    BY <1>5 DEF Lifecycle
  <2>2. CurRoles' = CurRoles
    BY <2>1 DEF CurRoles
  <2>3. Placed(cur, CurRoles)
    BY <1>5 DEF Numbered
  <2>4. Placed(cur, CurRoles)'
    BY <2>1, <2>2, <2>3 DEF Placed
  <2> QED
    BY <1>5, <2>1, <2>2, <2>4 DEF Numbered
<1>6. pc = "audio" => \A r \in Roles(opts'[cur]) : copy'[cur].ifnum[r] = uac2'[cur].intf[r]
  BY DEF Lifecycle, Numbered
<1> QED
  BY <1>1, <1>3, <1>4, <1>5, <1>6 DEF Numbered

(* What one bind writes. *)

LEMMA RoleCount ==
  \A o : Cardinality(Roles(o)) = 1 + Direction(EpOutEn(o)) + Direction(EpInEn(o))
<1> SUFFICES ASSUME NEW o
             PROVE  Cardinality(Roles(o)) = 1 + Direction(EpOutEn(o)) + Direction(EpInEn(o))
  OBVIOUS
<1>1. IsFiniteSet({"ac"}) /\ Cardinality({"ac"}) = 1
  BY FS_Singleton
<1>2. IsFiniteSet({"ac", "as_out"}) /\ Cardinality({"ac", "as_out"}) = 2
  <2>1. {"ac", "as_out"} = {"ac"} \union {"as_out"} /\ "as_out" \notin {"ac"}
    OBVIOUS
  <2> QED
    BY <1>1, <2>1, FS_AddElement
<1>3. Cardinality({"ac", "as_in"}) = 2
  <2>1. {"ac", "as_in"} = {"ac"} \union {"as_in"} /\ "as_in" \notin {"ac"}
    OBVIOUS
  <2> QED
    BY <1>1, <2>1, FS_AddElement
<1>4. Cardinality({"ac", "as_out", "as_in"}) = 3
  <2>1. /\ {"ac", "as_out", "as_in"} = {"ac", "as_out"} \union {"as_in"}
        /\ "as_in" \notin {"ac", "as_out"}
    OBVIOUS
  <2> QED
    BY <1>2, <2>1, FS_AddElement
<1>5. Roles(o) = IF EpOutEn(o) THEN IF EpInEn(o) THEN {"ac", "as_out", "as_in"}
                                    ELSE {"ac", "as_out"}
                 ELSE IF EpInEn(o) THEN {"ac", "as_in"} ELSE {"ac"}
  <2> HIDE DEF EpOutEn, EpInEn
  <2> QED
    BY DEF Roles, Role
<1> QED
  BY <1>1, <1>2, <1>3, <1>4, <1>5 DEF Direction

LEMMA ThreeElements ==
  ASSUME NEW a, NEW b, NEW c, a # b, a # c, b # c
  PROVE  IsFiniteSet({a, b, c}) /\ Cardinality({a, b, c}) = 3
<1>1. IsFiniteSet({a}) /\ Cardinality({a}) = 1
  BY FS_Singleton
<1>2. IsFiniteSet({a, b}) /\ Cardinality({a, b}) = 2
  <2>1. {a, b} = {a} \union {b} /\ b \notin {a}
    OBVIOUS
  <2> QED
    BY <1>1, <2>1, FS_AddElement
<1>3. {a, b, c} = {a, b} \union {c} /\ c \notin {a, b}
  OBVIOUS
<1> QED
  BY <1>2, <1>3, FS_AddElement

LEMMA EntityCount ==
  \A o : Cardinality(Entities(o)) = 3 * Direction(EpOutEn(o)) + 3 * Direction(EpInEn(o))
<1> SUFFICES ASSUME NEW o
             PROVE  Cardinality(Entities(o))
                      = 3 * Direction(EpOutEn(o)) + 3 * Direction(EpInEn(o))
  OBVIOUS
<1>1. IsFiniteSet(OutEntity) /\ Cardinality(OutEntity) = 3
  BY ThreeElements DEF OutEntity
<1>2. IsFiniteSet(InEntity) /\ Cardinality(InEntity) = 3
  BY ThreeElements DEF InEntity
<1>3. OutEntity \cap InEntity = {}
  BY DEF OutEntity, InEntity
<1>4. Cardinality(OutEntity \union InEntity) = 6
  <2>1. Cardinality(OutEntity \union InEntity)
          = Cardinality(OutEntity) + Cardinality(InEntity)
            - Cardinality(OutEntity \cap InEntity)
    BY <1>1, <1>2, FS_Union
  <2> QED
    BY <1>1, <1>2, <1>3, <2>1, FS_EmptySet
<1>5. Cardinality({}) = 0
  BY FS_EmptySet
<1>6. Entities(o) = IF EpOutEn(o) THEN IF EpInEn(o) THEN OutEntity \union InEntity
                                       ELSE OutEntity
                    ELSE IF EpInEn(o) THEN InEntity ELSE {}
  BY <1>3 DEF Entities, Entity
<1> QED
  BY <1>1, <1>2, <1>4, <1>5, <1>6 DEF Direction

(* setup_descriptor, one field at a time. *)
LEMMA SetupFields ==
  ASSUME NEW d \in Descriptors, NEW o
  PROVE  LET e == SetupDescriptor(d, o) IN
         /\ \A x \in Entity : e.id[x] = IF x \in Entities(o) THEN Fresh(o)[x] ELSE d.id[x]
         /\ \A x \in Terminal :
              e.clk[x] = e.id[IF x \in OutEntity THEN "out_clk" ELSE "in_clk"]
         /\ e.src["io_out_ot"] = e.id["usb_out_it"] /\ e.src["usb_in_ot"] = e.id["io_in_it"]
         /\ e.term["as_out"] = e.id["usb_out_it"] /\ e.term["as_in"] = e.id["usb_in_ot"]
         /\ e.ifnum = d.ifnum /\ e.first = d.first
         /\ e.count = 1 + Direction(EpOutEn(o)) + Direction(EpInEn(o))
         /\ e.total = 9 + 37 * Direction(EpOutEn(o)) + 37 * Direction(EpInEn(o))
<1> DEFINE m == [d EXCEPT !.id = Ids(d, o)]
<1>1. /\ DOMAIN m = DOMAIN d
      /\ m.id = Ids(d, o) /\ m.ifnum = d.ifnum /\ m.first = d.first
      /\ DOMAIN d = {"id", "clk", "src", "term", "ifnum", "first", "count", "total"}
  BY DEF Descriptors
<1>2. SetupDescriptor(d, o) = References(m, o)
  BY DEF SetupDescriptor
<1> HIDE DEF m
<1>3. /\ References(m, o).id = m.id
      /\ References(m, o).ifnum = m.ifnum
      /\ References(m, o).first = m.first
      /\ References(m, o).clk = [e \in Terminal |-> IF e \in OutEntity THEN m.id["out_clk"]
                                                    ELSE m.id["in_clk"]]
      /\ References(m, o).src = [io_out_ot |-> m.id["usb_out_it"], usb_in_ot |-> m.id["io_in_it"]]
      /\ References(m, o).term = [as_out |-> m.id["usb_out_it"], as_in |-> m.id["usb_in_ot"]]
      /\ References(m, o).count = 1 + Direction(EpOutEn(o)) + Direction(EpInEn(o))
      /\ References(m, o).total = 9 + 37 * Direction(EpOutEn(o)) + 37 * Direction(EpInEn(o))
  BY <1>1 DEF References
<1> HIDE DEF SetupDescriptor
<1> QED
  BY <1>1, <1>2, <1>3 DEF Ids

LEMMA FreshIds ==
  ASSUME NEW o
  PROVE  /\ \A e \in Entities(o) : Fresh(o)[e] \in 1..6
         /\ \A e, f \in Entities(o) : Fresh(o)[e] = Fresh(o)[f] => e = f
         /\ Full(o) => FullClocks(Fresh(o))
<1> DEFINE c == Direction(EpOutEn(o))
           p == Direction(EpInEn(o))
<1>1. /\ c \in {0, 1} /\ p \in {0, 1}
      /\ EpOutEn(o) <=> c = 1
      /\ EpInEn(o) <=> p = 1
  BY DEF Direction
<1>2. /\ Fresh(o)["usb_out_it"] = 1
      /\ Fresh(o)["io_in_it"] = c + 1
      /\ Fresh(o)["io_out_ot"] = c + p + 1
      /\ Fresh(o)["usb_in_ot"] = 2 * c + p + 1
      /\ Fresh(o)["out_clk"] = 2 * c + 2 * p + 1
      /\ Fresh(o)["in_clk"] = 3 * c + 2 * p + 1
  BY DEF Fresh
<1> HIDE DEF c, p
<1>3. \A e \in Entities(o) : /\ e \in Entity
                             /\ e \in OutEntity => c = 1
                             /\ e \notin OutEntity => p = 1
  BY <1>1 DEF Entities
<1> HIDE DEF EpOutEn, EpInEn, Fresh, Entities
<1>4. CASE c = 1 /\ p = 1
  BY <1>1, <1>2, <1>3, <1>4 DEF Entity, OutEntity, InEntity, FullClocks
<1>5. CASE c = 1 /\ p = 0
  BY <1>1, <1>2, <1>3, <1>5 DEF Entity, OutEntity, InEntity, Full
<1>6. CASE c = 0 /\ p = 1
  BY <1>1, <1>2, <1>3, <1>6 DEF Entity, OutEntity, InEntity, Full
<1>7. CASE c = 0 /\ p = 0
  BY <1>1, <1>3, <1>7 DEF Full
<1> QED
  BY <1>1, <1>4, <1>5, <1>6, <1>7

(* Whatever was in the shared descriptors, the copy a bind makes is closed. *)
LEMMA CopyClosed ==
  ASSUME NEW d \in Descriptors, NEW o, d.first = d.ifnum["ac"]
  PROVE  Closed(CopyOf(SetupDescriptor(d, o), o))
<1> DEFINE e == SetupDescriptor(d, o)
           c == CopyOf(e, o)
           q == Direction(EpOutEn(o))
           p == Direction(EpInEn(o))
<1>1. /\ \A x \in Entity : e.id[x] = IF x \in Entities(o) THEN Fresh(o)[x] ELSE d.id[x]
      /\ \A x \in Terminal :
           e.clk[x] = e.id[IF x \in OutEntity THEN "out_clk" ELSE "in_clk"]
      /\ e.src["io_out_ot"] = e.id["usb_out_it"] /\ e.src["usb_in_ot"] = e.id["io_in_it"]
      /\ e.term["as_out"] = e.id["usb_out_it"] /\ e.term["as_in"] = e.id["usb_in_ot"]
      /\ e.ifnum = d.ifnum /\ e.first = d.first
      /\ e.count = 1 + q + p
      /\ e.total = 9 + 37 * q + 37 * p
  BY SetupFields
<1> HIDE DEF e
<1>2. /\ c.id = [x \in Entities(o) |-> e.id[x]]
      /\ c.clk = [x \in Entities(o) \cap Terminal |-> e.clk[x]]
      /\ c.src = [x \in Entities(o) \cap {"io_out_ot", "usb_in_ot"} |-> e.src[x]]
      /\ c.term = [r \in Roles(o) \ {"ac"} |-> e.term[r]]
      /\ c.ifnum = [r \in Roles(o) |-> e.ifnum[r]]
      /\ c.first = e.first /\ c.count = e.count /\ c.total = e.total
  BY DEF CopyOf
<1> HIDE DEF c
<1>3. /\ \A x \in Entities(o) : x \in Entity
      /\ OutEntity \subseteq Entities(o) \/ Entities(o) \cap OutEntity = {}
      /\ InEntity \subseteq Entities(o) \/ Entities(o) \cap InEntity = {}
      /\ "as_out" \in Roles(o) => OutEntity \subseteq Entities(o)
      /\ "as_in" \in Roles(o) => InEntity \subseteq Entities(o)
      /\ Roles(o) \subseteq Role /\ "ac" \in Roles(o)
  BY DEF Entities, Entity, Roles, Role, OutEntity, InEntity
<1>4. \A x \in Entities(o) : c.id[x] = Fresh(o)[x]
  BY <1>1, <1>2, <1>3
<1>5. /\ \A x \in DOMAIN c.id : c.id[x] \in 1..6
      /\ \A x, y \in DOMAIN c.id : c.id[x] = c.id[y] => x = y
  BY <1>2, <1>4, FreshIds
<1>6. \A x \in DOMAIN c.clk :
        c.clk[x] = c.id[IF x \in OutEntity THEN "out_clk" ELSE "in_clk"]
  <2> SUFFICES ASSUME NEW x \in Entities(o) \cap Terminal
               PROVE  c.clk[x] = c.id[IF x \in OutEntity THEN "out_clk" ELSE "in_clk"]
    BY <1>2
  <2>1. CASE x \in OutEntity
    <3>1. "out_clk" \in Entities(o)
      BY <1>3, <2>1 DEF OutEntity
    <3> QED
      BY <1>1, <1>2, <2>1, <3>1
  <2>2. CASE x \notin OutEntity
    <3>1. "in_clk" \in Entities(o)
      BY <1>3, <2>2 DEF Entity, InEntity
    <3> QED
      BY <1>1, <1>2, <2>2, <3>1
  <2> QED
    BY <2>1, <2>2
<1>7. \A x \in DOMAIN c.src :
        c.src[x] = c.id[IF x \in OutEntity THEN "usb_out_it" ELSE "io_in_it"]
  <2>1. ASSUME "io_out_ot" \in Entities(o) PROVE "usb_out_it" \in Entities(o)
    BY <1>3, <2>1 DEF OutEntity
  <2>2. ASSUME "usb_in_ot" \in Entities(o) PROVE "io_in_it" \in Entities(o)
    BY <1>3, <2>2 DEF InEntity
  <2>3. "io_out_ot" \in OutEntity /\ "usb_in_ot" \notin OutEntity
    BY DEF OutEntity
  <2> QED
    BY <1>1, <1>2, <2>1, <2>2, <2>3
<1>8. \A r \in DOMAIN c.term :
        c.term[r] = c.id[IF r = "as_out" THEN "usb_out_it" ELSE "usb_in_ot"]
  <2>1. "as_out" \in Roles(o) => "usb_out_it" \in Entities(o)
    BY <1>3 DEF OutEntity
  <2>2. "as_in" \in Roles(o) => "usb_in_ot" \in Entities(o)
    BY <1>3 DEF InEntity
  <2>3. Roles(o) \ {"ac"} \subseteq {"as_out", "as_in"}
    BY <1>3 DEF Role
  <2> QED
    BY <1>1, <1>2, <2>1, <2>2, <2>3
<1>9. c.first = c.ifnum["ac"]
  BY <1>1, <1>2, <1>3
<1>10. c.count = Cardinality(DOMAIN c.ifnum)
  BY <1>1, <1>2, RoleCount
<1>11. 3 * c.total = 27 + 37 * Cardinality(DOMAIN c.id)
  <2>1. q \in {0, 1} /\ p \in {0, 1}
    BY DEF Direction
  <2>2. Cardinality(DOMAIN c.id) = 3 * q + 3 * p
    BY <1>2, EntityCount
  <2> HIDE DEF q, p
  <2> QED
    BY <1>1, <1>2, <2>1, <2>2
<1> QED
  BY <1>5, <1>6, <1>7, <1>8, <1>9, <1>10, <1>11 DEF Closed, c, e

(* A bind of both directions numbers both clocks, in the shared descriptors too. *)
LEMMA FullBind ==
  ASSUME NEW d \in Descriptors, NEW o, Full(o)
  PROVE  /\ FullClocks(SetupDescriptor(d, o).id)
         /\ FullClocks(CopyOf(SetupDescriptor(d, o), o).id)
<1>1. {"out_clk", "in_clk"} \subseteq Entities(o)
  BY DEF Full, Entities, Entity, OutEntity, InEntity
<1>2. \A x \in Entities(o) : SetupDescriptor(d, o).id[x] = Fresh(o)[x]
  <2>1. Entities(o) \subseteq Entity
    BY DEF Entities
  <2> QED
    BY <2>1, SetupFields
<1>3. FullClocks(SetupDescriptor(d, o).id)
  BY <1>1, <1>2, FreshIds DEF FullClocks
<1>4. \A x \in Entities(o) : CopyOf(SetupDescriptor(d, o), o).id[x] = SetupDescriptor(d, o).id[x]
  BY DEF CopyOf
<1> QED
  BY <1>1, <1>3, <1>4 DEF FullClocks

(* The interface number BindInterface gives. *)
LEMMA NewInterface ==
  ASSUME TypeOK, BindInterface, interface' # interface, cur \in Inst
  PROVE  /\ pc \in Roles(opts[cur])
         /\ pc' = NextPc[pc]
         /\ Len(interface) \in Nat
         /\ DOMAIN interface = 1..Len(interface)
         /\ DOMAIN interface' = 1..(Len(interface) + 1)
         /\ \A k \in DOMAIN interface : interface'[k] = interface[k]
         /\ interface'[Len(interface) + 1] = cur
         /\ uac2'[cur].intf[pc] = Len(interface)
         /\ \A r \in Role \ {pc} : uac2'[cur].intf[r] = uac2[cur].intf[r]
         /\ \A i \in Inst \ {cur} : uac2'[i] = uac2[i]
         /\ desc'.ifnum[pc] = Len(interface)
         /\ \A r \in Role \ {pc} : desc'.ifnum[r] = desc.ifnum[r]
         /\ desc'.first = IF pc = "ac" THEN Len(interface) ELSE desc.first
         /\ desc'.id = desc.id
<1> DEFINE n == Len(interface)
<1>1. /\ pc \in Role
      /\ pc \in Roles(opts[cur]) /\ pc' = NextPc[pc]
      /\ interface' = Append(interface, cur)
      /\ desc' = [desc EXCEPT !.ifnum[pc] = n, !.first = IF pc = "ac" THEN n ELSE @]
      /\ uac2' = [uac2 EXCEPT ![cur].intf[pc] = n, ![cur].alt[pc] = 0]
  BY DEF BindInterface
<1>2. /\ n \in Nat
      /\ DOMAIN interface = 1..n
      /\ DOMAIN interface' = 1..(n + 1)
      /\ \A k \in DOMAIN interface : interface'[k] = interface[k]
      /\ interface'[n + 1] = cur
  BY <1>1 DEF TypeOK
<1> HIDE DEF n
<1>3. /\ uac2'[cur].intf[pc] = n
      /\ \A r \in Role \ {pc} : uac2'[cur].intf[r] = uac2[cur].intf[r]
      /\ \A i \in Inst \ {cur} : uac2'[i] = uac2[i]
  BY <1>1 DEF TypeOK, FUac2
<1>4. /\ desc'.ifnum[pc] = n
      /\ \A r \in Role \ {pc} : desc'.ifnum[r] = desc.ifnum[r]
      /\ desc'.first = IF pc = "ac" THEN n ELSE desc.first
      /\ desc'.id = desc.id
  BY <1>1 DEF TypeOK, Descriptors
<1> QED
  BY <1>1, <1>2, <1>3, <1>4 DEF n

(* Steps of the numbering. *)

LEMMA NumberedInterface ==
  ASSUME TypeOK, Lifecycle, Numbered, BindInterface
  PROVE  Numbered'
<1>1. /\ cur \in linked /\ cur \notin bound /\ cur \in Inst /\ pc \in Role
      /\ UNCHANGED <<opts, linked, bound, cur, copy>>
      /\ pc' # "idle" /\ pc' # "audio"
      /\ pc' # "failed" => pc' = NextPc[pc]
  BY DEF BindInterface, TypeOK, Lifecycle, NextPc, Role
<1>2. Past(pc') = Past(pc) \union {pc} \/ pc' = "failed"
  <2>1. CASE pc' = NextPc[pc]
    BY <1>1, <2>1, PastFacts DEF NextPc, Role
  <2> QED
    BY <1>1, <2>1
<1>3. pc \notin {"idle", "failed"} /\ pc \notin Past(pc)
  BY <1>1, PastFacts DEF Role
<1>4. CASE interface' = interface
  <2>1. UNCHANGED <<uac2, desc, interface>>
    <3>1. \A n \in Nat : n # n + 1
      OBVIOUS
    <3>2. interface' # Append(interface, cur)
      BY <1>1, <1>4 DEF TypeOK
    <3> QED
      BY <3>2 DEF BindInterface
  <2>2. pc' = "failed" \/ pc \notin Roles(opts[cur])
    BY <2>1, <1>4, <1>1 DEF BindInterface, TypeOK
  <2>3. pc' # "failed" => CurRoles' = CurRoles
    BY <1>1, <1>2, <2>2 DEF CurRoles
  <2>4. \A i \in bound : Placed(i, Roles(opts[i]))'
    BY <1>1, <2>1 DEF Numbered, Placed
  <2>5. pc' # "failed" => Placed(cur, CurRoles)'
    BY <1>1, <1>3, <2>1, <2>3 DEF Numbered, Placed
  <2> QED
    BY <1>1, <1>3, <2>1, <2>3, <2>4, <2>5 DEF Numbered
<1>5. CASE interface' # interface
  <2> DEFINE n == Len(interface)
  <2>1. /\ pc \in Roles(opts[cur]) /\ pc' = NextPc[pc]
        /\ n \in Nat
        /\ DOMAIN interface = 1..n
        /\ DOMAIN interface' = 1..(n + 1)
        /\ \A k \in DOMAIN interface : interface'[k] = interface[k]
        /\ interface'[n + 1] = cur
        /\ uac2'[cur].intf[pc] = n
        /\ \A r \in Role \ {pc} : uac2'[cur].intf[r] = uac2[cur].intf[r]
        /\ \A i \in Inst \ {cur} : uac2'[i] = uac2[i]
        /\ desc'.ifnum[pc] = n
        /\ \A r \in Role \ {pc} : desc'.ifnum[r] = desc.ifnum[r]
    BY <1>1, <1>5, NewInterface
  <2> HIDE DEF n
  <2>2. pc' # "failed" /\ CurRoles' = CurRoles \union {pc} /\ CurRoles \subseteq Role \ {pc}
    <3>1. pc' # "failed"
      BY <1>1, <2>1, NextPcType DEF NextPc, Role
    <3>2. CurRoles' = Past(pc') \cap Roles(opts[cur])
      BY <1>1 DEF CurRoles
    <3> QED
      BY <1>2, <1>3, <2>1, <3>1, <3>2 DEF CurRoles, Roles
  <2>3. \A i \in linked' : \A r \in Role \ Roles(opts'[i]) : uac2'[i].intf[r] = 0
    <3> SUFFICES ASSUME NEW i \in linked, NEW r \in Role \ Roles(opts[i])
                 PROVE  uac2'[i].intf[r] = 0
      BY <1>1
    <3>1. i \in Inst /\ uac2[i].intf[r] = 0
      BY DEF Numbered, TypeOK
    <3>2. CASE i = cur
      BY <2>1, <3>1, <3>2
    <3>3. CASE i # cur
      BY <2>1, <3>1, <3>3
    <3> QED
      BY <3>2, <3>3
  <2>4. ASSUME NEW i \in bound PROVE Placed(i, Roles(opts[i]))'
    <3>1. i # cur /\ i \in Inst /\ uac2'[i] = uac2[i] /\ Placed(i, Roles(opts[i]))
      BY <1>1, <2>1 DEF TypeOK, Numbered
    <3> DEFINE f == uac2[i].intf
               s == Roles(opts[i])
    <3>2. /\ \A r \in s : f[r] + 1 \in 1..n /\ interface[f[r] + 1] = i
          /\ \A k \in 1..n : interface[k] = i => \E r \in s : f[r] + 1 = k
          /\ \A r, t \in s : f[r] = f[t] => r = t
          /\ \A r \in s \ {"ac"} : f[r] # 0
      BY <2>1, <3>1 DEF Placed
    <3> HIDE DEF f, s
    <3>3. /\ \A r \in s : f[r] + 1 \in 1..(n + 1) /\ interface'[f[r] + 1] = i
          /\ \A k \in 1..(n + 1) : interface'[k] = i => \E r \in s : f[r] + 1 = k
      <4>1. 1..(n + 1) = 1..n \union {n + 1}
        BY <2>1
      <4> QED
        BY <2>1, <3>1, <3>2, <4>1
    <3> QED
      BY <1>1, <2>1, <3>1, <3>2, <3>3 DEF Placed, f, s
  <2>5. Placed(cur, CurRoles)'
    <3> DEFINE f == uac2[cur].intf
               g == uac2'[cur].intf
               s == CurRoles
    <3>1. Placed(cur, s) /\ ("ac" \in s \/ pc = "ac")
      <4>1. "ac" \in Past(pc) \/ pc = "ac"
        BY <1>1, PastFacts DEF Role
      <4> QED
        BY <1>1, <1>3, <4>1 DEF Numbered, CurRoles, Roles, Role
    <3>2. /\ \A r \in s : f[r] + 1 \in 1..n /\ interface[f[r] + 1] = cur
          /\ \A k \in 1..n : interface[k] = cur => \E r \in s : f[r] + 1 = k
          /\ \A r, t \in s : f[r] = f[t] => r = t
          /\ \A r \in s \ {"ac"} : f[r] # 0
          /\ \A r \in s : f[r] \in Nat
      <4>1. \A r \in Role : f[r] \in Nat
        BY <1>1 DEF TypeOK, FUac2
      <4> QED
        BY <2>1, <2>2, <3>1, <4>1 DEF Placed
    <3>3. g[pc] = n /\ \A r \in s : g[r] = f[r] /\ r # pc
      BY <2>1, <2>2
    <3> HIDE DEF f, g, s
    <3>4. 1..(n + 1) = 1..n \union {n + 1} /\ n \in Nat /\ \A k \in 1..n : k # n + 1
      BY <2>1
    <3>5. \A r \in s \union {pc} : g[r] + 1 \in 1..(n + 1) /\ interface'[g[r] + 1] = cur
      BY <2>1, <3>2, <3>3, <3>4
    <3>6. \A k \in 1..(n + 1) : interface'[k] = cur => \E r \in s \union {pc} : g[r] + 1 = k
      BY <2>1, <3>2, <3>3, <3>4
    <3>7. \A r \in s : f[r] # n
      BY <3>2, <3>4
    <3>8. \A r, t \in s \union {pc} : g[r] = g[t] => r = t
      BY <3>2, <3>3, <3>7
    <3>9. pc # "ac" => n # 0
      BY <3>1, <3>2, <3>4
    <3>10. \A r \in (s \union {pc}) \ {"ac"} : g[r] # 0
      BY <3>2, <3>3, <3>9
    <3> QED
      BY <1>1, <2>1, <2>2, <3>5, <3>6, <3>8, <3>10 DEF Placed, g, s
  <2>6. \A r \in CurRoles' : desc'.ifnum[r] = uac2'[cur].intf[r]
    BY <1>1, <1>3, <2>1, <2>2 DEF Numbered
  <2>7. \A i \in bound : \A r \in Roles(opts[i]) : copy'[i].ifnum[r] = uac2'[i].intf[r]
    <3> SUFFICES ASSUME NEW i \in bound, NEW r \in Roles(opts[i])
                 PROVE  copy'[i].ifnum[r] = uac2'[i].intf[r]
      OBVIOUS
    <3>1. i \in Inst \ {cur}
      BY <1>1 DEF TypeOK
    <3>2. copy[i].ifnum[r] = uac2[i].intf[r]
      BY DEF Numbered
    <3> QED
      BY <1>1, <2>1, <3>1, <3>2
  <2> QED
    BY <1>1, <2>2, <2>3, <2>4, <2>5, <2>6, <2>7 DEF Numbered
<1> QED
  BY <1>4, <1>5

LEMMA NumberedLink ==
  ASSUME TypeOK, Lifecycle, Numbered, NEW i \in Inst, Link(i)
  PROVE  Numbered'
<1>1. /\ bound = {} /\ pc = "idle" /\ i \notin linked
      /\ linked' = linked \union {i}
      /\ uac2' = [uac2 EXCEPT ![i] = NoUac2]
      /\ UNCHANGED <<opts, bound, pc>>
  BY DEF Link, Lifecycle
<1>2. \A j \in linked' : \A r \in Role \ Roles(opts'[j]) : uac2'[j].intf[r] = 0
  <2> SUFFICES ASSUME NEW j \in linked', NEW r \in Role \ Roles(opts[j])
               PROVE  uac2'[j].intf[r] = 0
    BY <1>1
  <2>1. CASE j = i
    BY <1>1, <2>1 DEF TypeOK, NoUac2
  <2>2. CASE j # i
    <3>1. j \in linked /\ j \in Inst /\ uac2[j].intf[r] = 0
      BY <1>1, <2>2 DEF Numbered, TypeOK
    <3> QED
      BY <1>1, <2>2, <3>1 DEF TypeOK
  <2> QED
    BY <2>1, <2>2
<1> QED
  BY <1>1, <1>2 DEF Numbered

(* The configuration before it is bound, and after it has been unbound. *)
LEMMA NumberedEmpty ==
  ASSUME TypeOK, Numbered, bound' = {}, pc' = "idle", UNCHANGED <<opts, linked>>,
         \A i \in Inst : uac2'[i].intf = uac2[i].intf
  PROVE  Numbered'
<1>1. linked \subseteq Inst
  BY DEF TypeOK
<1>2. \A i \in linked' : \A r \in Role \ Roles(opts'[i]) : uac2'[i].intf[r] = 0
  BY <1>1 DEF Numbered
<1> QED
  BY <1>2 DEF Numbered

LEMMA NumberedStart ==
  ASSUME TypeOK, Lifecycle, Numbered, BindStart \/ Purge \/ GadgetOff
  PROVE  Numbered'
<1>1. CASE BindStart
  BY <1>1, NumberedEmpty DEF BindStart, Lifecycle
<1>2. CASE Purge
  BY <1>2, NumberedEmpty DEF Purge, UnbindAll
<1>3. CASE GadgetOff
  BY <1>3, NumberedEmpty, DisabledKeepsNumbers DEF GadgetOff, UnbindAll
<1> QED
  BY <1>1, <1>2, <1>3

LEMMA NumberedValidate ==
  ASSUME TypeOK, Lifecycle, Numbered, NEW i \in Inst, BindValidate(i)
  PROVE  Numbered'
<1>1. /\ pc = "idle" /\ cur = None /\ i \in linked \ bound /\ cur' = i
      /\ pc' \in {"ac", "failed"}
      /\ UNCHANGED <<opts, linked, bound, uac2, copy, interface>>
  BY DEF BindValidate, Lifecycle
<1>2. \A k \in DOMAIN interface : interface[k] # i
  BY <1>1, ConstantsOK DEF Lifecycle, TypeOK
<1>3. \A j \in bound : Placed(j, Roles(opts[j]))'
  BY <1>1 DEF Numbered, Placed
<1>4. pc' = "ac" => CurRoles' = {}
  BY <1>1, PastFacts DEF CurRoles
<1>5. pc' = "ac" => Placed(cur, CurRoles)'
  BY <1>1, <1>2, <1>4 DEF Placed
<1> QED
  BY <1>1, <1>3, <1>4, <1>5 DEF Numbered

LEMMA NumberedEndpoint ==
  ASSUME TypeOK, Lifecycle, Numbered, BindEndpoint
  PROVE  Numbered'
<1>1. /\ pc \in {"ep_out", "ep_in"} /\ pc' \in {"ep_in", "assign", "failed"}
      /\ UNCHANGED <<opts, linked, bound, cur, uac2, copy, desc, interface>>
  BY DEF BindEndpoint, NextPc
<1>2. pc' # "failed" => CurRoles' = CurRoles
  BY <1>1, PastFacts DEF CurRoles
<1>3. \A j \in bound : Placed(j, Roles(opts[j]))'
  BY <1>1 DEF Numbered, Placed
<1>4. pc' # "failed" => Placed(cur, CurRoles)'
  BY <1>1, <1>2 DEF Numbered, Placed
<1> QED
  BY <1>1, <1>2, <1>3, <1>4 DEF Numbered

LEMMA NumberedAssign ==
  ASSUME TypeOK, Lifecycle, Numbered, BindAssign
  PROVE  Numbered'
<1>1. /\ pc = "assign" /\ pc' \in {"audio", "failed"} /\ cur \in linked \ bound
      /\ cur \in Inst
      /\ UNCHANGED <<opts, linked, bound, cur, uac2, interface>>
      /\ desc' = SetupDescriptor(desc, opts[cur])
      /\ \/ UNCHANGED copy
         \/ copy' = [copy EXCEPT ![cur] = CopyOf(desc', opts[cur])]
      /\ pc' = "audio" => copy' = [copy EXCEPT ![cur] = CopyOf(desc', opts[cur])]
  BY DEF BindAssign, TypeOK, Lifecycle
<1>2. CurRoles = Roles(opts[cur]) /\ (pc' = "audio" => CurRoles' = CurRoles)
  BY <1>1, PastFacts DEF CurRoles, Roles
<1>3. \A j \in bound : Placed(j, Roles(opts[j]))'
  BY <1>1 DEF Numbered, Placed
<1>4. Placed(cur, CurRoles) /\ (pc' = "audio" => Placed(cur, CurRoles)')
  BY <1>1, <1>2 DEF Numbered, Placed
<1>5. desc'.ifnum = desc.ifnum
  BY <1>1, SetupFields DEF TypeOK
<1>6. \A r \in CurRoles : desc'.ifnum[r] = uac2'[cur].intf[r]
  BY <1>1, <1>5 DEF Numbered
<1>7. pc' = "audio" => \A r \in Roles(opts[cur]) : copy'[cur].ifnum[r] = uac2'[cur].intf[r]
  <2>1. CopyOf(desc', opts[cur]).ifnum = [r \in Roles(opts[cur]) |-> desc'.ifnum[r]]
    BY DEF CopyOf
  <2>2. pc' = "audio" => copy'[cur] = CopyOf(desc', opts[cur])
    BY <1>1 DEF TypeOK
  <2> QED
    BY <1>2, <1>6, <2>1, <2>2
<1>8. \A j \in bound : copy'[j] = copy[j]
  BY <1>1 DEF TypeOK
<1> QED
  BY <1>1, <1>2, <1>3, <1>4, <1>6, <1>7, <1>8 DEF Numbered

LEMMA NumberedAudio ==
  ASSUME TypeOK, Lifecycle, Numbered, BindAudio
  PROVE  Numbered'
<1>1. /\ pc = "audio" /\ cur \in linked \ bound /\ cur \in Inst
      /\ UNCHANGED <<opts, linked, uac2, interface>>
      /\ \/ bound' = bound \union {cur} /\ pc' = "idle" /\ UNCHANGED copy
         \/ pc' = "failed" /\ copy' = [copy EXCEPT ![cur] = NoCopy] /\ UNCHANGED bound
  BY DEF BindAudio, TypeOK, Lifecycle
<1>2. CurRoles = Roles(opts[cur])
  BY <1>1, PastFacts DEF CurRoles, Roles
<1>3. \A j \in bound \union {cur} : Placed(j, Roles(opts[j]))'
  BY <1>1, <1>2 DEF Numbered, Placed
<1>4. \A j \in bound : copy'[j] = copy[j]
  BY <1>1 DEF TypeOK
<1>5. \A j \in bound' : \A r \in Roles(opts[j]) : copy'[j].ifnum[r] = uac2'[j].intf[r]
  BY <1>1, <1>4 DEF Numbered
<1> QED
  BY <1>1, <1>3, <1>5 DEF Numbered

LEMMA NumberedStep ==
  ASSUME TypeOK, Lifecycle, Numbered, [Next]_vars
  PROVE  Numbered'
<1>1. CASE Frame
  BY <1>1, NumberedFrame
<1>2. ASSUME NEW i \in Inst, Link(i) \/ BindValidate(i) PROVE Numbered'
  BY <1>2, NumberedLink, NumberedValidate
<1>3. ASSUME BindInterface \/ BindEndpoint \/ BindAssign \/ BindAudio PROVE Numbered'
  BY <1>3, NumberedInterface, NumberedEndpoint, NumberedAssign, NumberedAudio
<1> QED
  BY <1>1, <1>2, <1>3, FrameSteps, NumberedStart DEF Next

(* Steps of the descriptors and clocks. *)

LEMMA WellFormedStep ==
  ASSUME TypeOK, Lifecycle, WellFormed, [Next]_vars
  PROVE  WellFormed'
<1>1. CASE Frame
  <2>1. \A i \in bound : copy'[i] = copy[i]
    BY <1>1 DEF TypeOK, Frame
  <2>2. pc = "audio" => copy'[cur] = copy[cur]
    BY <1>1 DEF Lifecycle, Frame
  <2> QED
    BY <1>1, <2>1, <2>2 DEF WellFormed, Frame
<1>2. ASSUME bound' = {}, pc' = "idle" PROVE WellFormed'
  BY <1>2, PastFacts DEF WellFormed
<1>3. ASSUME NEW i \in Inst, Link(i) \/ BindValidate(i) PROVE WellFormed'
  <2>1. CASE Link(i)
    BY <1>2, <2>1 DEF Link, Lifecycle
  <2>2. CASE BindValidate(i)
    BY <2>2, PastFacts DEF BindValidate, WellFormed
  <2> QED
    BY <1>3, <2>1, <2>2
<1>4. ASSUME BindStart \/ Purge \/ GadgetOff PROVE WellFormed'
  BY <1>2, <1>4 DEF BindStart, Purge, GadgetOff, UnbindAll, Lifecycle
<1>5. ASSUME BindInterface PROVE WellFormed'
  <2>1. /\ cur \in Inst /\ pc \in Role /\ UNCHANGED <<bound, copy>>
        /\ pc' # "audio" /\ (pc' # "failed" => pc' = NextPc[pc])
    BY <1>5 DEF BindInterface, TypeOK, Lifecycle, NextPc, Role
  <2>2. pc' # "failed" => desc'.first = desc'.ifnum["ac"]
    <3>1. CASE interface' = interface
      <4>1. interface' # Append(interface, cur)
        BY <2>1, <3>1 DEF TypeOK
      <4>2. UNCHANGED desc /\ (pc' # "failed" => pc # "ac")
        BY <1>5, <4>1 DEF BindInterface, Roles
      <4> QED
        BY <2>1, <4>2, PastFacts DEF WellFormed, Role
    <3>2. CASE interface' # interface
      <4>1. /\ desc'.ifnum[pc] = Len(interface)
            /\ \A r \in Role \ {pc} : desc'.ifnum[r] = desc.ifnum[r]
            /\ desc'.first = IF pc = "ac" THEN Len(interface) ELSE desc.first
        BY <1>5, <2>1, <3>2, NewInterface
      <4>2. pc # "ac" => desc.first = desc.ifnum["ac"]
        BY <2>1, PastFacts DEF WellFormed, Role
      <4> QED
        BY <4>1, <4>2 DEF Role
    <3> QED
      BY <3>1, <3>2
  <2> QED
    BY <2>1, <2>2 DEF WellFormed
<1>6. ASSUME BindEndpoint PROVE WellFormed'
  <2>1. /\ pc \in {"ep_out", "ep_in"} /\ pc' # "audio"
        /\ UNCHANGED <<bound, copy, desc>>
    BY <1>6 DEF BindEndpoint, NextPc
  <2>2. "ac" \in Past(pc)
    BY <2>1, PastFacts DEF Role
  <2> QED
    BY <2>1, <2>2 DEF WellFormed
<1>7. ASSUME BindAssign PROVE WellFormed'
  <2>1. /\ pc = "assign" /\ pc' \in {"audio", "failed"} /\ cur \in Inst \ bound
        /\ UNCHANGED <<opts, bound, cur>>
        /\ desc' = SetupDescriptor(desc, opts[cur])
        /\ pc' = "failed" => UNCHANGED copy
        /\ pc' = "audio" => copy' = [copy EXCEPT ![cur] = CopyOf(desc', opts[cur])]
    BY <1>7 DEF BindAssign, TypeOK, Lifecycle
  <2>2. desc.first = desc.ifnum["ac"]
    BY <2>1, PastFacts DEF WellFormed, Role
  <2>3. desc'.first = desc'.ifnum["ac"]
    BY <2>1, <2>2, SetupFields DEF TypeOK
  <2>4. pc' = "audio" => Closed(copy'[cur])
    <3>1. Closed(CopyOf(SetupDescriptor(desc, opts[cur]), opts[cur]))
      BY <2>2, CopyClosed DEF TypeOK
    <3> QED
      BY <2>1, <3>1 DEF TypeOK
  <2>5. \A i \in bound : copy'[i] = copy[i]
    BY <2>1 DEF TypeOK
  <2> QED
    BY <2>1, <2>3, <2>4, <2>5 DEF WellFormed
<1>8. ASSUME BindAudio PROVE WellFormed'
  <2>1. /\ pc = "audio" /\ cur \in Inst \ bound
        /\ \/ bound' = bound \union {cur} /\ pc' = "idle" /\ UNCHANGED copy
           \/ pc' = "failed" /\ copy' = [copy EXCEPT ![cur] = NoCopy] /\ UNCHANGED bound
    BY <1>8 DEF BindAudio, TypeOK, Lifecycle
  <2>2. \A i \in bound : copy'[i] = copy[i]
    BY <2>1 DEF TypeOK
  <2> QED
    BY <2>1, <2>2, PastFacts DEF WellFormed
<1> QED
  BY <1>1, <1>3, <1>4, <1>5, <1>6, <1>7, <1>8, FrameSteps DEF Next

LEMMA ClocksStep ==
  ASSUME TypeOK, Lifecycle, Clocks, [Next]_vars
  PROVE  Clocks'
<1>1. CASE Frame
  <2>1. \A i \in bound : copy'[i] = copy[i] /\ opts'[i] = opts[i]
    BY <1>1 DEF TypeOK, Frame
  <2>2. pc = "audio" => copy'[cur] = copy[cur] /\ opts'[cur] = opts[cur]
    BY <1>1 DEF Lifecycle, Frame
  <2> QED
    BY <1>1, <2>1, <2>2 DEF Clocks, Frame
<1>2. ASSUME bound' = {}, pc' = "idle" PROVE Clocks'
  BY <1>2 DEF Clocks
<1>3. ASSUME NEW i \in Inst, Link(i) \/ BindValidate(i) PROVE Clocks'
  <2>1. CASE Link(i)
    BY <1>2, <2>1 DEF Link, Lifecycle
  <2>2. CASE BindValidate(i)
    BY <2>2 DEF BindValidate, Clocks
  <2> QED
    BY <1>3, <2>1, <2>2
<1>4. ASSUME BindStart \/ Purge \/ GadgetOff PROVE Clocks'
  BY <1>2, <1>4 DEF BindStart, Purge, GadgetOff, UnbindAll, Lifecycle
<1>5. ASSUME BindInterface PROVE Clocks'
  <2>1. /\ pc \in Role /\ pc' # "audio" /\ UNCHANGED <<bound, copy, opts, cur>>
    BY <1>5 DEF BindInterface, NextPc, Role
  <2>2. desc'.id = desc.id
    <3>1. UNCHANGED desc \/ desc' = [desc EXCEPT !.ifnum[pc] = Len(interface),
                                     !.first = IF pc = "ac" THEN Len(interface) ELSE @]
      BY <1>5 DEF BindInterface
    <3> QED
      BY <3>1 DEF TypeOK, Descriptors
  <2> QED
    BY <2>1, <2>2 DEF Clocks, Role
<1>6. ASSUME BindEndpoint PROVE Clocks'
  BY <1>6 DEF BindEndpoint, NextPc, Clocks
<1>7. ASSUME BindAssign PROVE Clocks'
  <2>1. /\ pc = "assign" /\ pc' \in {"audio", "failed"} /\ cur \in Inst \ bound
        /\ UNCHANGED <<opts, bound, cur>>
        /\ desc' = SetupDescriptor(desc, opts[cur])
        /\ pc' = "failed" => UNCHANGED copy
        /\ pc' = "audio" => copy' = [copy EXCEPT ![cur] = CopyOf(desc', opts[cur])]
    BY <1>7 DEF BindAssign, TypeOK, Lifecycle
  <2>2. pc' = "audio" /\ Full(opts[cur]) => FullClocks(copy'[cur].id) /\ FullClocks(desc'.id)
    <3>1. Full(opts[cur]) =>
            /\ FullClocks(SetupDescriptor(desc, opts[cur]).id)
            /\ FullClocks(CopyOf(SetupDescriptor(desc, opts[cur]), opts[cur]).id)
      BY FullBind DEF TypeOK
    <3>2. pc' = "audio" => copy'[cur] = CopyOf(SetupDescriptor(desc, opts[cur]), opts[cur])
      BY <2>1 DEF TypeOK
    <3> QED
      BY <2>1, <3>1, <3>2
  <2>3. \A i \in bound : copy'[i] = copy[i]
    BY <2>1 DEF TypeOK
  <2> QED
    BY <2>1, <2>2, <2>3 DEF Clocks
<1>8. ASSUME BindAudio PROVE Clocks'
  <2>1. /\ pc = "audio" /\ cur \in Inst \ bound /\ UNCHANGED <<opts, desc>>
        /\ \/ bound' = bound \union {cur} /\ pc' = "idle" /\ UNCHANGED copy
           \/ pc' = "failed" /\ copy' = [copy EXCEPT ![cur] = NoCopy] /\ UNCHANGED bound
    BY <1>8 DEF BindAudio, TypeOK, Lifecycle
  <2>2. \A i \in bound : copy'[i] = copy[i]
    BY <2>1 DEF TypeOK
  <2> QED
    BY <2>1, <2>2 DEF Clocks
<1> QED
  BY <1>1, <1>3, <1>4, <1>5, <1>6, <1>7, <1>8, FrameSteps DEF Next

LEMMA BindInvariance == Spec => [](IInv /\ BindInv)
<1>1. Init => BindInv
  BY PastFacts DEF Init, BindInv, Numbered, WellFormed, Clocks
<1>2. IInv /\ BindInv /\ [Next]_vars => BindInv'
  BY NumberedStep, WellFormedStep, ClocksStep DEF IInv, BindInv
<1> QED
  BY <1>1, <1>2, IInvInit, IInvStep, PTL DEF Spec

(* For any number of functions, options and failed binds: the descriptors of a bound
   function form a closed topology. *)
THEOREM DescriptorsWellFormedCorrect == Spec => []DescriptorsWellFormed
<1>1. BindInv => DescriptorsWellFormed
  BY DEF BindInv, WellFormed, Closed, DescriptorsWellFormed
<1> QED
  BY <1>1, BindInvariance, PTL

(* A number of one of the function's enabled roles is taken for that role. *)
LEMMA RoleOfPlaced ==
  ASSUME TypeOK, NEW i \in Inst, Placed(i, Roles(opts[i])),
         \A r \in Role \ Roles(opts[i]) : uac2[i].intf[r] = 0,
         NEW q \in Roles(opts[i])
  PROVE  RoleOf(uac2[i], uac2[i].intf[q]) = q
<1> DEFINE f == uac2[i].intf
           s == Roles(opts[i])
<1>1. /\ "ac" \in s /\ s \subseteq Role /\ q \in s
      /\ \A r, t \in s : f[r] = f[t] => r = t
      /\ \A r \in s \ {"ac"} : f[r] # 0
      /\ \A r \in Role \ s : f[r] = 0
  BY DEF Placed, Roles, Role
<1> HIDE DEF f, s
<1>2. q # "ac" => f[q] # f["ac"]
  BY <1>1
<1>3. q = "as_in" => f[q] # f["as_out"]
  BY <1>1 DEF Role
<1> QED
  BY <1>1, <1>2, <1>3 DEF RoleOf, Role, f

(* The composite core and every function agree on every interface number. *)
THEOREM InterfacesRoutedCorrect == Spec => []InterfacesRouted
<1>1. IInv /\ BindInv => InterfacesRouted
  <2> SUFFICES ASSUME IInv, BindInv, udc = "on" PROVE InterfacesRouted
    BY DEF InterfacesRouted
  <2>1. /\ TypeOK /\ pc = "idle" /\ cur = None /\ bound = linked /\ bound \subseteq Inst
        /\ \A k \in DOMAIN interface : interface[k] = None \/ interface[k] \in bound
        /\ DOMAIN interface = 1..Len(interface) /\ Len(interface) \in Nat
    BY DEF IInv, TypeOK, Lifecycle
  <2>2. ASSUME NEW i \in bound
        PROVE  /\ Placed(i, Roles(opts[i]))
               /\ \A r \in Roles(opts[i]) : /\ copy[i].ifnum[r] = uac2[i].intf[r]
                                            /\ uac2[i].intf[r] \in Nat
                                            /\ RoleOf(uac2[i], uac2[i].intf[r]) = r
    <3>1. /\ Placed(i, Roles(opts[i]))
          /\ \A r \in Roles(opts[i]) : copy[i].ifnum[r] = uac2[i].intf[r]
          /\ \A r \in Role \ Roles(opts[i]) : uac2[i].intf[r] = 0
      BY <2>1 DEF BindInv, Numbered
    <3>2. \A r \in Roles(opts[i]) : uac2[i].intf[r] \in Nat
      BY <2>1 DEF TypeOK, FUac2, Roles
    <3> QED
      BY <2>1, <3>1, <3>2, RoleOfPlaced
  <2>3. ASSUME NEW k \in 0..(Len(interface) - 1), interface[k + 1] # None
        PROVE  LET i == interface[k + 1] IN
               \E r \in Roles(opts[i]) : copy[i].ifnum[r] = k /\ RoleOf(uac2[i], k) = r
    <3> DEFINE i == interface[k + 1]
    <3>1. k + 1 \in DOMAIN interface /\ i \in bound /\ k \in Nat
      BY <2>1, <2>3
    <3>2. PICK r \in Roles(opts[i]) : uac2[i].intf[r] + 1 = k + 1
      BY <2>2, <3>1 DEF Placed
    <3> HIDE DEF i
    <3>3. uac2[i].intf[r] = k
      BY <2>2, <3>1, <3>2
    <3>4. copy[i].ifnum[r] = k /\ RoleOf(uac2[i], k) = r
      BY <2>2, <3>1, <3>2, <3>3
    <3> QED
      BY <3>4 DEF i
  <2>4. ASSUME NEW i \in bound, NEW r \in Roles(opts[i])
        PROVE  LET k == copy[i].ifnum[r] IN k + 1 \in DOMAIN interface /\ interface[k + 1] = i
    BY <2>2 DEF Placed
  <2> QED
    BY <2>3, <2>4 DEF InterfacesRouted
<1> QED
  BY <1>1, BindInvariance, PTL

(* Any number of functions with both directions, bound after any others: each clock
   answers with the rate of its own direction. *)
THEOREM ClockRatesOfFullCorrect == Spec => []ClockRatesOfFull
<1>1. IInv /\ BindInv => ClockRatesOfFull
  <2> SUFFICES ASSUME IInv, BindInv, udc = "on",
                      \A i \in bound : Roles(opts[i]) = {"ac", "as_in", "as_out"},
                      NEW i \in bound, NEW e \in {"in_clk", "out_clk"} \cap DOMAIN copy[i].id,
                      NEW request \in {"CUR", "RANGE"}
               PROVE  AfuncSetup(i, [intf |-> copy[i].ifnum["ac"], in |-> TRUE,
                                     request |-> request, entity |-> copy[i].id[e]])
                        = opts[i][IF e = "in_clk" THEN "p_srate" ELSE "c_srate"]
    BY DEF ClockRatesOfFull, ClockRates
  <2>1. \A j \in bound : Full(opts[j])
    BY DEF Full, Roles, Role
  <2>2. pc = "idle"
    BY DEF IInv, Lifecycle
  <2>3. FullClocks(copy[i].id) /\ FullClocks(desc.id)
    BY <2>1, <2>2 DEF BindInv, Clocks
  <2>4. copy[i].ifnum["ac"] = uac2[i].intf["ac"]
    BY DEF BindInv, Numbered
  <2>5. /\ InRqCur(i, copy[i].id[e])
             = opts[i][IF e = "in_clk" THEN "p_srate" ELSE "c_srate"]
        /\ InRqRange(i, copy[i].id[e])
             = opts[i][IF e = "in_clk" THEN "p_srate" ELSE "c_srate"]
    BY <2>3 DEF FullClocks, InRqCur, InRqRange
  <2> QED
    BY <2>4, <2>5 DEF AfuncSetup
<1> QED
  BY <1>1, BindInvariance, PTL
==================================================================================
