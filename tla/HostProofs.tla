----------------------------- MODULE HostProofs -----------------------------
(* Theorems about Host, for any number of devices, keys, page-table entries    *)
(* and pages: loading and unloading the kernel module, the translation of      *)
(* registered memory, and the pinning of its pages.                            *)
EXTENDS Host, MemoryRegistrationProofs

\* A leaf that names no prover goes to the SMT solver, then to Zenon.
USE SMTT(60), ZenonT(60)

----------------------------------------------------------------------------
(* The kernel module *)

LEMMA KernelInitial == KernelInit => KernelInv
<1> SUFFICES ASSUME KernelInit PROVE KernelInv OBVIOUS
<1>1. 0 \in Devs BY KernelAssumption, SMT DEF Devs
<1>2. KernelTypeOK BY <1>1, Zenon DEF KernelInit, KernelTypeOK
<1>3. phase = "out" /\ dead = FALSE BY DEF KernelInit
<1>4. \A i \in Devs : Absent(i) BY Zenon DEF KernelInit, Absent
<1> QED BY <1>2, <1>3, <1>4
        DEF KernelInv, DevicesInv, PointersInv, AllOrNothing, UnloadTouchesLiveElse

\* A step of bluerdma_probe, of its error paths, or of the removal keeps what is
\* made of each device in step with the loops.
LEMMA KernelStepInv ==
  ASSUME KernelInv, KernelNext
  PROVE  KernelInv'
<1> USE KernelAssumption
<1>t. KernelTypeOK BY DEF KernelInv
<1>d. DevicesInv BY DEF KernelInv
<1>p. PointersInv /\ AllOrNothing /\ UnloadTouchesLiveElse BY DEF KernelInv
<1>1. CASE Load
  <2>1. /\ phase = "out" /\ phase' = "alloc" /\ at' = 0 /\ netFailed' = FALSE /\ ~dead
        /\ ptr' = ptr /\ ib' = ib /\ net' = net /\ dead' = dead
    BY <1>1 DEF Load
  <2>2. \A i \in Devs : Absent(i)' BY <2>1, <1>d DEF DevicesInv, Absent
  <2>3. 0 \in Devs /\ \A i \in Devs : ~(i < 0) BY DEF Devs
  <2>4. KernelTypeOK' BY <2>1, <2>3, <1>t, Zenon DEF KernelTypeOK
  <2>5. Absent(at)' BY <2>1, <2>2, <2>3, <1>d, Zenon DEF Absent, DevicesInv
  <2>6. DevicesInv' BY <2>1, <2>2, <2>3, <2>5 DEF DevicesInv
  <2> QED BY <2>1, <2>4, <2>6, Zenon DEF KernelInv, PointersInv, AllOrNothing, UnloadTouchesLiveElse
<1>2. CASE AllocDevice
  <2>0. phase = "alloc" /\ at \in Devs BY <1>2, <1>t DEF AllocDevice, KernelTypeOK
  <2>i. /\ \A i \in Devs : i < at => Whole(i, "alloc")
        /\ \A i \in Devs : i > at => Absent(i)
        /\ Absent(at)
    BY <2>0, <1>d DEF DevicesInv
  <2>1. CASE phase' = "netdev"
    <3>1. /\ ib' = [ib EXCEPT ![at] = "alloc"] /\ ptr' = [ptr EXCEPT ![at] = TRUE]
          /\ net' = net /\ at' = at /\ netFailed' = netFailed /\ dead' = dead
      BY <2>1, <1>2, Zenon DEF AllocDevice, Unwind
    <3>2. \A i \in Devs : i # at => ptr'[i] = ptr[i] /\ ib'[i] = ib[i] /\ net'[i] = net[i]
      BY <3>1, <1>t, Zenon DEF KernelTypeOK
    <3>3. ptr'[at] = TRUE /\ ib'[at] = "alloc" /\ net'[at] = net[at]
      BY <3>1, <2>0, <1>t, Zenon DEF KernelTypeOK
    <3>4. KernelTypeOK' BY <3>1, <2>1, <1>t DEF KernelTypeOK
    <3>5. DevicesInv' BY <3>1, <3>2, <3>3, <2>0, <2>1, <2>i DEF DevicesInv, Whole, Absent, Devs
    <3> QED BY <3>4, <3>5, <3>1, <2>1, <2>0, <1>p
            DEF KernelInv, PointersInv, AllOrNothing, UnloadTouchesLiveElse
  <2>2. CASE phase' = "in"
    <3>1. /\ net' = [j \in Devs |-> IF j < at THEN FALSE ELSE net[j]]
          /\ ib' = [j \in Devs |-> IF j < at THEN "none" ELSE IF j = at THEN "none" ELSE ib[j]]
          /\ ptr' = [j \in Devs |-> IF j < at THEN FALSE ELSE ptr[j]]
          /\ at' = at /\ netFailed' = netFailed /\ dead' = dead
      BY <2>2, <1>2, Zenon DEF AllocDevice, Unwind
    <3>2. \A i \in Devs : i < at \/ i = at \/ i > at BY <2>0 DEF Devs
    <3>3. \A i \in Devs : ~ptr'[i] /\ ~net'[i] /\ ib'[i] = "none"
      BY <3>1, <3>2, <2>i, Zenon DEF Absent
    <3>4. KernelTypeOK' BY <3>1, <3>3, <2>2, <1>t, Zenon DEF KernelTypeOK
    <3> QED BY <3>3, <3>4, <3>1, <2>2, <1>p
            DEF KernelInv, DevicesInv, PointersInv, AllOrNothing, UnloadTouchesLiveElse
  <2> QED BY <2>1, <2>2, <1>2, Zenon DEF AllocDevice, Unwind
<1>3. CASE CreateNetdev
  <2>0. phase = "netdev" /\ at \in Devs BY <1>3, <1>t DEF CreateNetdev, KernelTypeOK
  <2>i. /\ \A i \in Devs : i < at => Whole(i, "alloc")
        /\ \A i \in Devs : i > at => Absent(i)
        /\ ptr[at] /\ ~net[at] /\ ib[at] = "alloc"
    BY <2>0, <1>d DEF DevicesInv
  <2>o. \A i \in Devs : i < at \/ i = at \/ i > at BY <2>0 DEF Devs
  <2>1. CASE netFailed' = netFailed /\ net' = [net EXCEPT ![at] = TRUE] /\ ptr' = ptr /\ ib' = ib
             /\ at' = (at + 1) % N_TESTING
             /\ phase' = IF at = N_TESTING - 1 THEN "register" ELSE "alloc"
    <3>1. dead' = dead BY <1>3 DEF CreateNetdev
    <3>2. \A i \in Devs : i # at => ptr'[i] = ptr[i] /\ ib'[i] = ib[i] /\ net'[i] = net[i]
      BY <2>1, <1>t, Zenon DEF KernelTypeOK
    <3>3. ptr'[at] /\ ib'[at] = "alloc" /\ net'[at]
      BY <2>1, <2>0, <2>i, <1>t, Zenon DEF KernelTypeOK
    <3>4. \A i \in Devs : i <= at => ptr'[i] /\ net'[i] /\ ib'[i] = "alloc"
      <4>1. \A i \in Devs : i <= at => i < at \/ i = at BY <2>0 DEF Devs
      <4>2. \A i \in Devs : i < at => i # at BY <2>0 DEF Devs
      <4> QED BY <4>1, <4>2, <3>2, <3>3, <2>i, Zenon DEF Whole
    <3>5. \A i \in Devs : i > at => ~ptr'[i] /\ ~net'[i] /\ ib'[i] = "none"
      <4>2. \A i \in Devs : i > at => i # at BY <2>0 DEF Devs
      <4> QED BY <4>2, <3>2, <2>i, Zenon DEF Absent
    <3>6. CASE at = N_TESTING - 1
      <4>1. at' = 0 /\ phase' = "register" BY <3>6, <2>1
      <4>2. 0 \in Devs /\ \A i \in Devs : i <= at /\ ~(i < 0) BY <3>6 DEF Devs
      <4>3. KernelTypeOK' BY <4>1, <4>2, <3>1, <2>1, <1>t DEF KernelTypeOK
      <4>4. \A i \in Devs : Whole(i, IF i < at THEN "reg" ELSE "alloc")'
        BY <3>4, <4>1, <4>2, Zenon DEF Whole
      <4>5. DevicesInv' BY <4>1, <4>4, Zenon DEF DevicesInv
      <4> QED BY <4>1, <4>3, <4>5, <3>1, <2>1, <1>p, Zenon
              DEF KernelInv, PointersInv, AllOrNothing, UnloadTouchesLiveElse
    <3>7. CASE at # N_TESTING - 1
      <4>1. at' = at + 1 /\ at' \in Devs /\ phase' = "alloc" BY <3>7, <2>0, <2>1 DEF Devs
      <4>2. /\ \A i \in Devs : i < at' => i <= at
            /\ \A i \in Devs : i >= at' => i > at
            /\ \A i \in Devs : i > at' => i > at
            /\ at' > at
        BY <4>1, <2>0 DEF Devs
      <4>3. KernelTypeOK' BY <4>1, <3>1, <2>1, <1>t DEF KernelTypeOK
      <4>4. /\ \A i \in Devs : i < at' => Whole(i, "alloc")'
            /\ \A i \in Devs : i > at' => Absent(i)'
        BY <3>4, <3>5, <4>2, Zenon DEF Whole, Absent
      <4>6. ~ptr'[at'] /\ ~net'[at'] /\ ib'[at'] = "none" BY <3>5, <4>1, <4>2, Zenon
      <4>5. DevicesInv' BY <4>1, <4>4, <4>6, Zenon DEF DevicesInv, Absent
      <4> QED BY <4>1, <4>3, <4>5, <3>1, <2>1, <1>p, Zenon
              DEF KernelInv, PointersInv, AllOrNothing, UnloadTouchesLiveElse
    <3> QED BY <3>6, <3>7
  <2>2. CASE phase' = "in" /\ netFailed' = TRUE /\ Unwind(at) /\ at' = at
             /\ ptr' = [j \in Devs |-> IF j < at THEN FALSE ELSE ptr[j]]
    <3>1. /\ net' = [j \in Devs |-> IF j < at THEN FALSE ELSE net[j]]
          /\ ib' = [j \in Devs |-> IF j < at THEN "none" ELSE IF j = at THEN "none" ELSE ib[j]]
          /\ dead' = dead
      BY <2>2, <1>3, Zenon DEF CreateNetdev, Unwind
    <3>3. \A i \in Devs : ~net'[i] /\ ib'[i] = "none"
      BY <3>1, <2>o, <2>i, Zenon DEF Absent
    <3>4. KernelTypeOK' BY <3>1, <2>2, <1>t, Zenon DEF KernelTypeOK
    <3> QED BY <3>3, <3>4, <3>1, <2>2, <1>p
            DEF KernelInv, DevicesInv, PointersInv, AllOrNothing, UnloadTouchesLiveElse
  <2> QED BY <2>1, <2>2, <1>3, Zenon DEF CreateNetdev, Unwind
<1>4. CASE RegisterDevice
  <2>0. phase = "register" /\ at \in Devs /\ netFailed' = netFailed /\ dead' = dead
    BY <1>4, <1>t DEF RegisterDevice, KernelTypeOK
  <2>i. \A i \in Devs : Whole(i, IF i < at THEN "reg" ELSE "alloc") BY <2>0, <1>d DEF DevicesInv
  <2>1. CASE /\ ib' = [ib EXCEPT ![at] = "reg"] /\ ptr' = ptr /\ net' = net
             /\ at' = (at + 1) % N_TESTING /\ phase' = IF at = N_TESTING - 1 THEN "in" ELSE phase
    <3>1. \A i \in Devs : ptr'[i] /\ net'[i] BY <2>1, <2>i, Zenon DEF Whole
    <3>2. \A i \in Devs : i # at => ib'[i] = ib[i] BY <2>1, <1>t, Zenon DEF KernelTypeOK
    <3>3. ib'[at] = "reg" BY <2>1, <2>0, <1>t, Zenon DEF KernelTypeOK
    <3>4. \A i \in Devs : ib'[i] = IF i <= at THEN "reg" ELSE "alloc"
      BY <3>2, <3>3, <2>0, <2>i DEF Whole, Devs
    <3>6. CASE at = N_TESTING - 1
      <4>1. at' = 0 /\ 0 \in Devs /\ phase' = "in" BY <3>6, <2>1 DEF Devs
      <4>2. \A i \in Devs : i <= at BY <3>6 DEF Devs
      <4>3. KernelTypeOK' BY <4>1, <2>1, <2>0, <1>t DEF KernelTypeOK
      <4>4. \A i \in Devs : ib'[i] = "reg" BY <3>4, <4>2
      <4> QED BY <4>1, <4>3, <4>4, <3>1, <2>0, <1>p
              DEF KernelInv, DevicesInv, PointersInv, AllOrNothing, UnloadTouchesLiveElse
    <3>7. CASE at # N_TESTING - 1
      <4>1. at' = at + 1 /\ at' \in Devs /\ phase' = "register" BY <3>7, <2>0, <2>1 DEF Devs
      <4>3. KernelTypeOK' BY <4>1, <2>1, <2>0, <1>t DEF KernelTypeOK
      <4>4. \A i \in Devs : ib'[i] = IF i < at' THEN "reg" ELSE "alloc"
        BY <3>4, <4>1, <2>0 DEF Devs
      <4>5. \A i \in Devs : Whole(i, IF i < at THEN "reg" ELSE "alloc")'
        BY <3>1, <4>4, Zenon DEF Whole
      <4> QED BY <4>1, <4>3, <4>5, <2>0, <1>p, Zenon
              DEF KernelInv, DevicesInv, PointersInv, AllOrNothing, UnloadTouchesLiveElse
    <3> QED BY <3>6, <3>7
  <2>2. CASE FreeTesting /\ phase' = "in" /\ at' = at
    <3>1. \A i \in Devs : ~ptr'[i] /\ ~net'[i] /\ ib'[i] = "none"
      BY <2>2, <2>i, Zenon DEF FreeTesting, Whole
    <3>2. KernelTypeOK' BY <2>2, <2>0, <1>t, Zenon DEF KernelTypeOK, FreeTesting
    <3> QED BY <3>1, <3>2, <2>2, <2>0, <1>p
            DEF KernelInv, DevicesInv, PointersInv, AllOrNothing, UnloadTouchesLiveElse
  <2> QED BY <2>1, <2>2, <1>4, Zenon DEF RegisterDevice
<1>5. CASE Unload
  BY <1>5, <1>t, <1>d, <1>p, Zenon
     DEF Unload, FreeTesting, KernelInv, KernelTypeOK, DevicesInv, PointersInv,
         AllOrNothing, UnloadTouchesLiveElse, Whole, Absent, Devs
<1> QED BY <1>1, <1>2, <1>3, <1>4, <1>5 DEF KernelNext

----------------------------------------------------------------------------
(* The process *)

\* A new instance finds no region and no call of the process.
LEMMA AllocContextStep ==
    ASSUME HostInv, OneContext, NEW c \in CONTEXTS, AllocContext(c)
    PROVE  MemInv'
<1>1. /\ c \notin contexts /\ call = NoCall
      /\ freeKeys' = [i \in 1 .. MAX_MR_CNT |-> i - 1]
      /\ pgtUsed' = {} /\ mrkeyMap' = None /\ vaRange' = None /\ regions' = {}
      /\ UNCHANGED <<load, build, pinned, live, panicked, call, buf, cmd, resp, card, mrTable, pgt>>
  BY DEF AllocContext, cardVars
<1>2. contexts = {} BY <1>1 DEF HostInv, ContextInv, OneContext
<1>3. DOMAIN live = {} /\ MemInv BY <1>2 DEF HostInv, ContextInv
<1>4. freeKeys' \in Seq(Keys) /\ \A i, j \in DOMAIN freeKeys' : freeKeys'[i] = freeKeys'[j] => i = j
  BY <1>1, FreshKeys, Zenon
<1>5. DOMAIN mrkeyMap' = {} /\ DOMAIN vaRange' = {} /\ DOMAIN live' = {} BY <1>1, <1>3 DEF None
<1>6. ~InCall /\ ~InCall' BY <1>1 DEF InCall
<1>7. MemTypeOK' BY <1>1, <1>3, <1>4, <1>5, Zenon DEF MemInv, MemTypeOK
<1>8. (KeysApart /\ SpansApart /\ TranslationSound /\ CallSpan)'
  BY <1>4, <1>5, <1>6, ZenonT(60) DEF KeysApart, SpansApart, TranslationSound, CallSpan
<1>9. CommandInv' BY <1>1, <1>3, <1>6, ZenonT(60) DEF MemInv, CommandInv
<1> QED BY <1>7, <1>8, <1>9 DEF MemInv

LEMMA MemStutter ==
    ASSUME MemInv, UNCHANGED memVars
    PROVE  MemInv'
<1>1. UNCHANGED <<load, build, freeKeys, pgtUsed, mrkeyMap, vaRange, regions, pinned, live, panicked,
                  call, buf, cmd, resp, card, mrTable, pgt>>
  BY DEF memVars, hostVars, cardVars
<1>2. (MemTypeOK /\ KeysApart)' BY <1>1, ZenonT(60) DEF MemInv, MemTypeOK, KeysApart, InCall
<1>3. SpansApart' /\ TranslationSound'
  <2>1. TranslationSound' BY <1>1, TranslationKeeps, ZenonT(30)
  <2> QED BY <2>1, <1>1, ZenonT(30) DEF MemInv, SpansApart
<1>4. InCall' = InCall /\ CallBase' = CallBase /\ MttWritten' = MttWritten
  BY <1>1 DEF InCall, CallBase, MttWritten
<1>5. \A i : CallPage(i)' = CallPage(i) BY <1>1, <1>4 DEF CallPage
<1>6. \A n : Written(n)' = Written(n) BY <1>1, <1>4, <1>5 DEF Written
<1>7. \A n : Queued(n)' = Queued(n) /\ Fetched(n)' = Fetched(n)
  BY <1>1, <1>5, <1>6, ZenonT(60) DEF Queued, Fetched
<1>8. CallSpan' BY <1>1, <1>4, ZenonT(60) DEF MemInv, CallSpan
<1>9. CommandInv' BY <1>1, <1>4, <1>6, <1>7, ZenonT(60) DEF MemInv, CommandInv
<1> QED BY <1>2, <1>3, <1>8, <1>9 DEF MemInv

LEMMA KernelStutter ==
    ASSUME KernelInv, UNCHANGED kernelVars
    PROVE  KernelInv'
BY Zenon DEF kernelVars, KernelInv, KernelTypeOK, DevicesInv, PointersInv, AllOrNothing,
       UnloadTouchesLiveElse, Whole, Absent

\* The kernel module by itself keeps its invariant, whatever contexts are open.
LEMMA KernelAlways == Spec => []KernelInv
<1>1. Init => KernelInv BY KernelInitial DEF Init
<1>2. KernelInv /\ [Next]_vars => KernelInv'
  <2> SUFFICES ASSUME KernelInv, [Next]_vars PROVE KernelInv' OBVIOUS
  <2>1. CASE KernelStep BY <2>1, KernelStepInv DEF KernelStep
  <2>2. CASE UNCHANGED kernelVars BY <2>2, KernelStutter
  <2> QED BY <2>1, <2>2 DEF Next, vars, MemStep, AllocContext, FreeContext
<1> QED BY <1>1, <1>2, PTL DEF Spec

\* The inductive invariant, for a process that has one context open at a time.
THEOREM HostInvInductive ==
    ASSUME OneContext
    PROVE  Spec => []HostInv
<1>1. Init => HostInv
  BY KernelInitial, MemInitial, ZenonT(60) DEF Init, HostInv, ContextInv, MemInit, None
<1>2. HostInv /\ [Next]_vars => HostInv'
  <2> SUFFICES ASSUME HostInv, [Next]_vars PROVE HostInv' OBVIOUS
  <2>k. KernelInv'
    <3>1. CASE KernelStep BY <3>1, KernelStepInv DEF KernelStep, HostInv
    <3>2. CASE UNCHANGED kernelVars BY <3>2, KernelStutter DEF HostInv
    <3> QED BY <3>1, <3>2 DEF Next, vars, MemStep, AllocContext, FreeContext
  <2>1. CASE KernelStep \/ UNCHANGED vars
    <3>1. UNCHANGED <<memVars, provVars>> BY <2>1 DEF KernelStep, vars
    <3>2. MemInv' BY <3>1, MemStutter DEF HostInv
    <3>3. ContextInv'
      BY <3>1 DEF HostInv, ContextInv, provVars, memVars, hostVars
    <3> QED BY <3>2, <3>3, <2>k DEF HostInv
  <2>2. CASE MemStep
    <3>1. contexts # {} /\ contexts' = contexts /\ MemNext BY <2>2 DEF MemStep, provVars
    <3>2. MemInv' BY <3>1, MemStepInv DEF HostInv
    <3>3. ContextInv' BY <3>1 DEF HostInv, ContextInv
    <3> QED BY <3>2, <3>3, <2>k DEF HostInv
  <2>3. ASSUME NEW c \in CONTEXTS, AllocContext(c) PROVE HostInv'
    <3>1. MemInv' BY <2>3, AllocContextStep
    <3>2. ContextInv' BY <2>3 DEF AllocContext, HostInv, ContextInv
    <3> QED BY <3>1, <3>2, <2>k DEF HostInv
  <2>4. ASSUME NEW c \in CONTEXTS, FreeContext(c) PROVE HostInv'
    <3>1. UNCHANGED memVars /\ call = NoCall /\ live = None /\ contexts' = contexts \ {c}
      BY <2>4 DEF FreeContext
    <3>2. MemInv' BY <3>1, MemStutter DEF HostInv
    <3>3. call' = NoCall /\ DOMAIN live' = {}
      <4>1. call' = call /\ live' = live BY <3>1 DEF memVars, hostVars
      <4> QED BY <4>1, <3>1 DEF None
    <3>4. ContextInv' BY <3>1, <3>3 DEF HostInv, ContextInv
    <3> QED BY <3>2, <3>4, <2>k DEF HostInv
  <2> QED BY <2>1, <2>2, <2>3, <2>4 DEF Next
<1> QED BY <1>1, <1>2, PTL DEF Spec

\* A key that reg_mr has returned translates every page of its region to the page
\* that backs it, for any number of keys, entries and pages, any buffers, any size
\* of a burst and both builds; one context at a time (Mtt::register, mkMrAndPgtUpdater).
THEOREM TranslationSoundHolds ==
    ASSUME OneContext
    PROVE  Spec => []TranslationSound
<1>1. HostInv => TranslationSound BY DEF HostInv, MemInv
<1> QED BY <1>1, HostInvInductive, PTL

\* Loading any number of devices leaves all of them or none, whichever call of
\* bluerdma_probe fails.
THEOREM AllOrNothingHolds == Spec => []AllOrNothing
<1>1. KernelInv => AllOrNothing BY DEF KernelInv
<1> QED BY <1>1, KernelAlways, PTL

\* Unloading uses no freed device unless a network device could not be created
\* (bluerdma_ib_device_remove).
THEOREM UnloadTouchesLiveElseHolds == Spec => []UnloadTouchesLiveElse
<1>1. KernelInv => UnloadTouchesLiveElse BY DEF KernelInv
<1> QED BY <1>1, KernelAlways, PTL

----------------------------------------------------------------------------
(* Pinned pages *)

Disjoint(b, c) == b.va + b.len <= c.va \/ c.va + c.len <= b.va

\* get_pin_range looks at the two neighbours only, and yet finds every page that
\* some other region uses.
LEMMA PinRangeIs ==
    ASSUME NEW b, Buffer(b), NEW others, \A c \in others : Buffer(c) /\ Disjoint(b, c),
           \A c, d \in others : c # d => Disjoint(c, d)
    PROVE  PinRange(b, others) = Pages(b) \ UNION {Pages(c) : c \in others}
<1> DEFINE P == Page(b.va)
           Q == Page(b.va + b.len - 1)
           before == {c \in others : c.va <= b.va}
           after == {c \in others : c.va >= b.va + b.len}
           F == before # {} /\ (\E c \in before : /\ \A d \in before : d.va <= c.va
                                                  /\ Page(c.va + c.len - 1) = Page(b.va))
           G == after # {} /\ (\E c \in after : /\ \A d \in after : c.va <= d.va
                                                /\ Page(c.va) = Page(b.va + b.len - 1))
<1>0. b.va \in Nat /\ b.len \in Nat \ {0} /\ \A c \in others : c.va \in Nat /\ c.len \in Nat \ {0}
  BY DEF Buffer
<1>1. P \in Nat /\ Q \in Nat /\ P <= Q /\ Pages(b) = P .. Q
  <2>1. b.va + b.len - 1 \in Nat /\ b.va <= b.va + b.len - 1 BY <1>0
  <2> QED BY <2>1, <1>0, PageFacts, PageMono DEF Pages
<1>2. PinRange(b, others) = (IF F THEN P + 1 ELSE P) .. (IF G THEN Q - 1 ELSE Q)
  BY DEF PinRange
<1>3. \A c \in others : (c \in before /\ c.va + c.len <= b.va) \/ c \in after
  BY <1>0 DEF Disjoint
<1>4. \A c \in before : c.va + c.len <= b.va BY <1>0 DEF Disjoint
<1>5. ASSUME NEW c \in others
      PROVE  /\ Page(c.va) \in Nat /\ Page(c.va + c.len - 1) \in Nat
             /\ Page(c.va) <= Page(c.va + c.len - 1)
             /\ Pages(c) = Page(c.va) .. Page(c.va + c.len - 1)
  <2>1. c.va \in Nat /\ c.va + c.len - 1 \in Nat /\ c.va <= c.va + c.len - 1 BY <1>0
  <2> QED BY <2>1, PageFacts, PageMono DEF Pages
<1>6. ASSUME NEW c \in before, \E p \in P .. Q : p \in Pages(c)
      PROVE  F /\ \A p \in P .. Q : p \in Pages(c) => p = P
  <2>1. c \in others /\ c.va + c.len - 1 \in Nat /\ c.va + c.len - 1 <= b.va BY <1>0, <1>4
  <2>2. Page(c.va + c.len - 1) <= P BY <2>1, <1>0, PageMono
  <2>3. Page(c.va + c.len - 1) = P /\ \A p \in P .. Q : p \in Pages(c) => p = P
    BY <2>1, <2>2, <1>1, <1>5, <1>6
  <2>4. PICK d \in before : \A e \in before : e.va <= d.va
    <3> DEFINE S == {b.va - e.va : e \in before}
    <3>1. S \in SUBSET Nat /\ S # {}
      <4>1. \A e \in before : b.va - e.va \in Nat BY <1>0
      <4> QED BY <4>1, <1>6, Zenon
    <3>2. PICK x \in S : \A y \in S : x <= y BY <3>1, Smallest, Zenon
    <3>3. PICK d \in before : x = b.va - d.va BY <3>2, ZenonT(60)
    <3>4. \A e \in before : b.va - d.va <= b.va - e.va BY <3>2, <3>3, ZenonT(60)
    <3>5. \A e \in before : e.va \in Nat /\ d.va \in Nat /\ b.va \in Nat BY <1>0, Zenon
    <3> HIDE DEF before
    <3> QED BY <3>4, <3>5
  <2>5. d \in others /\ d.va + d.len - 1 \in Nat /\ d.va + d.len - 1 <= b.va BY <1>0, <1>4
  <2>6. c.va + c.len - 1 <= d.va + d.len - 1 BY <2>1, <2>4, <2>5, <1>0 DEF Disjoint
  <2>7. Page(c.va + c.len - 1) <= Page(d.va + d.len - 1) /\ Page(d.va + d.len - 1) <= P
    BY <2>1, <2>5, <2>6, <1>0, PageMono
  <2>8. Page(d.va + d.len - 1) = P BY <2>3, <2>5, <2>7, <1>1, <1>5
  <2> QED BY <2>3, <2>4, <2>8
<1>7. ASSUME NEW c \in after, NEW p \in P .. Q, p \in Pages(c)
      PROVE  G /\ p = Q
  <2>1. c \in others /\ c.va \in Nat /\ b.va + b.len - 1 \in Nat /\ b.va + b.len - 1 <= c.va BY <1>0
  <2>2. Q <= Page(c.va) BY <2>1, PageMono
  <2>3. p = Q /\ Page(c.va) = Q BY <2>1, <2>2, <1>1, <1>5, <1>7
  <2>4. PICK d \in after : \A e \in after : d.va <= e.va
    <3> DEFINE S == {e.va : e \in after}
    <3>1. S \in SUBSET Nat /\ S # {} BY <1>0, ZenonT(60)
    <3>2. PICK x \in S : \A y \in S : x <= y BY <3>1, Smallest, Zenon
    <3> QED BY <3>2, ZenonT(60)
  <2>5. d \in others /\ d.va \in Nat /\ b.va + b.len - 1 <= d.va /\ d.va <= c.va BY <2>4, <1>0
  <2>6. Q <= Page(d.va) /\ Page(d.va) <= Page(c.va) BY <2>1, <2>5, PageMono
  <2>7. Page(d.va) = Q BY <2>3, <2>5, <2>6, <1>1, <1>5
  <2> QED BY <2>3, <2>4, <2>7
<1>8. F => \E c \in others : P \in Pages(c) BY <1>1, <1>5
<1>9. G => \E c \in others : Q \in Pages(c) BY <1>1, <1>5
<1> HIDE DEF P, Q, F, G
<1>10. \A p \in P .. Q : (\E c \in others : p \in Pages(c)) <=> (F /\ p = P) \/ (G /\ p = Q)
  BY <1>3, <1>6, <1>7, <1>8, <1>9, Zenon
<1>11. \A p : p \in PinRange(b, others) <=> p \in P .. Q /\ ~((F /\ p = P) \/ (G /\ p = Q))
  BY <1>1, <1>2
<1> QED BY <1>1, <1>10, <1>11

\* the pages of the registered regions
Used == UNION {Pages(b) : b \in regions}

LEMMA PinInitial == Init => PinInv
  BY DEF Init, MemInit, PinInv, RegionsApart, PinnedExactly, None

LEMMA RegionFacts ==
    ASSUME PinInv
    PROVE  /\ \A b \in load.bufs : Buffer(b)
           /\ \A b \in regions : b \in load.bufs
           /\ \A b, c \in regions : b # c => Disjoint(b, c)
BY MemoryAssumption DEF PinInv, RegionsApart, Buffer, Disjoint

\* What is not touched keeps its pins.
LEMMA PinStutter ==
    ASSUME PinInv, UNCHANGED <<load, mrkeyMap, vaRange, regions, pinned, panicked, orphaned>>
    PROVE  PinInv'
BY DEF PinInv, RegionsApart, PinnedExactly

LEMMA PinRegMr ==
    ASSUME PinInv, NEW b \in load.bufs, RegMr(b), orphaned' = orphaned
    PROVE  PinInv'
<1>1. /\ ~panicked /\ ~Overlaps(b) /\ Allocate(b)
      /\ pinned' = pinned \cup PinRange(b, regions) /\ regions' = regions \cup {b}
      /\ load' = load /\ panicked' = panicked
  BY ZenonT(60) DEF RegMr
<1>2. /\ \A c \in load.bufs : Buffer(c)
      /\ \A c \in regions : c \in load.bufs
      /\ \A c, d \in regions : c # d => Disjoint(c, d)
  BY RegionFacts
<1>3. b \notin regions /\ \A c \in regions : Disjoint(b, c)
  <2>1. \A c \in regions : ~(c.va < b.va + b.len /\ b.va < c.va + c.len)
    BY <1>1, Zenon DEF Overlaps
  <2>2. b.va \in Nat /\ b.len \in Nat \ {0} BY <1>2 DEF Buffer
  <2>3. b \notin regions
    <3>1. b.va < b.va + b.len BY <2>2
    <3> QED BY <3>1, <2>1, Zenon
  <2>4. ASSUME NEW c \in regions PROVE Disjoint(b, c)
    <3>1. c.va \in Nat /\ c.len \in Nat \ {0} BY <1>2 DEF Buffer
    <3>2. ~(c.va < b.va + b.len /\ b.va < c.va + c.len) BY <2>1
    <3> QED BY <3>1, <3>2, <2>2 DEF Disjoint
  <2> QED BY <2>3, <2>4
<1>4. PinRange(b, regions) = Pages(b) \ Used BY <1>2, <1>3, PinRangeIs DEF Used
<1>5. /\ DOMAIN vaRange' = DOMAIN mrkeyMap'
      /\ \A k \in DOMAIN vaRange' : \/ k \in DOMAIN vaRange /\ vaRange'[k] = vaRange[k]
                                    \/ k = NextKey /\ vaRange'[k] = b
  BY <1>1 DEF Allocate, Put, PinInv
<1>6. RegionsApart'
  <2>1. \A c, d \in regions' : c # d => c.va + c.len <= d.va \/ d.va + d.len <= c.va
    BY <1>1, <1>2, <1>3 DEF Disjoint
  <2>2. \A k \in DOMAIN vaRange : vaRange[k] \in regions BY <1>1, ZenonT(60) DEF PinInv, RegionsApart
  <2>3. \A k, l \in DOMAIN vaRange : vaRange[k] = vaRange[l] => k = l BY <1>1, ZenonT(60) DEF PinInv, RegionsApart
  <2>4. \A k \in DOMAIN vaRange' : vaRange'[k] \in regions' BY <2>2, <1>1, <1>5, ZenonT(60)
  <2>5. \A k, l \in DOMAIN vaRange' : vaRange'[k] = vaRange'[l] => k = l
    <3> SUFFICES ASSUME NEW k \in DOMAIN vaRange', NEW l \in DOMAIN vaRange',
                        vaRange'[k] = vaRange'[l]
                 PROVE  k = l
      OBVIOUS
    <3>1. CASE k \in DOMAIN vaRange /\ vaRange'[k] = vaRange[k]
      <4>1. vaRange'[l] # b BY <3>1, <2>2, <1>3, Zenon
      <4> QED BY <4>1, <3>1, <2>3, <1>5, Zenon
    <3>2. CASE k = NextKey /\ vaRange'[k] = b BY <3>2, <2>2, <1>3, <1>5, Zenon
    <3> QED BY <3>1, <3>2, <1>5, Zenon
  <2> QED BY <2>1, <2>4, <2>5 DEF RegionsApart
<1>7. PinnedExactly'
  <2>1. Used \subseteq pinned /\ pinned \subseteq Used \cup orphaned
    BY <1>1, Zenon DEF PinInv, PinnedExactly, Used
  <2>2. Used' = Used \cup Pages(b) BY <1>1 DEF Used
  <2> QED BY <2>1, <2>2, <1>1, <1>4 DEF PinnedExactly, Used
<1> QED BY <1>1, <1>2, <1>5, <1>6, <1>7, ZenonT(60) DEF PinInv

LEMMA PinRegPanics ==
    ASSUME PinInv, NEW b \in load.bufs, RegPanics(b), orphaned' = orphaned
    PROVE  PinInv'
<1>1. Allocate(b) /\ panicked' = TRUE /\ UNCHANGED <<load, regions, pinned>> BY ZenonT(60) DEF RegPanics
<1>2. DOMAIN vaRange' = DOMAIN mrkeyMap' BY <1>1 DEF Allocate, Put, PinInv
<1> QED BY <1>1, <1>2 DEF PinInv, RegionsApart, PinnedExactly

LEMMA PinDeregMr ==
    ASSUME PinInv, NEW k \in Keys, DeregMr(k), orphaned' = orphaned
    PROVE  PinInv'
<1>1. /\ ~panicked /\ k \in DOMAIN mrkeyMap
      /\ mrkeyMap' = Drop(mrkeyMap, k) /\ vaRange' = Drop(vaRange, k)
      /\ regions' = regions \ {vaRange[k]}
      /\ pinned' = pinned \ PinRange(vaRange[k], regions \ {vaRange[k]})
      /\ load' = load /\ panicked' = panicked
  BY ZenonT(60) DEF DeregMr
<1>2. /\ \A c \in load.bufs : Buffer(c)
      /\ \A c \in regions : c \in load.bufs
      /\ \A c, d \in regions : c # d => Disjoint(c, d)
  BY RegionFacts
<1>3. /\ \A l \in DOMAIN vaRange : vaRange[l] \in regions
      /\ \A l, m \in DOMAIN vaRange : vaRange[l] = vaRange[m] => l = m
      /\ DOMAIN vaRange = DOMAIN mrkeyMap
  BY <1>1, ZenonT(60) DEF PinInv, RegionsApart
<1>4. PICK b \in regions : b = vaRange[k] BY <1>1, <1>3
<1>5. PinRange(b, regions \ {b}) = Pages(b) \ UNION {Pages(c) : c \in regions \ {b}}
  <2> DEFINE others == regions \ {b}
  <2>1. /\ Buffer(b) /\ \A c \in others : Buffer(c) /\ Disjoint(b, c)
        /\ \A c, d \in others : c # d => Disjoint(c, d)
    BY <1>2
  <2> HIDE DEF others
  <2>2. PinRange(b, others) = Pages(b) \ UNION {Pages(c) : c \in others} BY <2>1, PinRangeIs
  <2> QED BY <2>2 DEF others
<1>6. /\ DOMAIN vaRange' = DOMAIN vaRange \ {k} /\ DOMAIN mrkeyMap' = DOMAIN mrkeyMap \ {k}
      /\ \A l \in DOMAIN vaRange' : vaRange'[l] = vaRange[l]
  BY <1>1, ZenonT(60) DEF Drop
<1>7. RegionsApart'
  <2>1. \A c, d \in regions' : c # d => c.va + c.len <= d.va \/ d.va + d.len <= c.va
    BY <1>1, <1>2, ZenonT(60) DEF Disjoint
  <2>2. /\ \A l \in DOMAIN vaRange' : vaRange'[l] \in regions'
        /\ \A l, m \in DOMAIN vaRange' : vaRange'[l] = vaRange'[m] => l = m
    BY <1>1, <1>3, <1>6, ZenonT(60)
  <2> QED BY <2>1, <2>2 DEF RegionsApart
<1>8. PinnedExactly'
  <2>1. Used \subseteq pinned /\ pinned \subseteq Used \cup orphaned
    BY <1>1 DEF PinInv, PinnedExactly, Used
  <2>2. Used = Used' \cup Pages(b) BY <1>1, <1>4 DEF Used
  <2>3. pinned' = pinned \ (Pages(b) \ Used') BY <1>1, <1>4, <1>5 DEF Used
  <2> QED BY <2>1, <2>2, <2>3 DEF PinnedExactly, Used
<1> QED BY <1>1, <1>2, <1>3, <1>6, <1>7, <1>8, ZenonT(60) DEF PinInv

\* However many contexts a process has open: the pages of registered regions are
\* pinned, and no others but those a former instance left behind, although
\* regions share pages (MrRegionManager::get_pin_range).
THEOREM PinnedExactlyHolds == Spec => []PinnedExactly
<1>1. Init => PinInv BY PinInitial
<1>2. PinInv /\ [Next]_vars => PinInv'
  <2> SUFFICES ASSUME PinInv, [Next]_vars PROVE PinInv' OBVIOUS
  <2>1. CASE KernelStep \/ UNCHANGED vars \/ \E c \in CONTEXTS : FreeContext(c)
    BY <2>1, PinStutter, ZenonT(60) DEF KernelStep, FreeContext, vars, memVars, hostVars, provVars
  <2>2. CASE MemStep
    <3>1. orphaned' = orphaned /\ MemNext BY <2>2 DEF MemStep, provVars
    <3>2. CASE \E b \in load.bufs : RegNoRoom(b) BY <3>1, <3>2, PinStutter, ZenonT(60) DEF RegNoRoom
    <3>3. CASE \E b \in load.bufs : RegPanics(b) BY <3>1, <3>3, PinRegPanics
    <3>4. CASE \E b \in load.bufs : RegMr(b) BY <3>1, <3>4, PinRegMr
    <3>5. CASE \E k \in Keys : DeregMr(k) BY <3>1, <3>5, PinDeregMr
    <3>6. CASE CallStep \/ CardStep
      BY <3>1, <3>6, PinStutter, ZenonT(60)
         DEF CallStep, CardStep, Wait, RegReturns, UpdateMrTable, ReadBurst, WritePte, hostVars
    <3> QED BY <3>1, <3>2, <3>3, <3>4, <3>5, <3>6 DEF MemNext
  <2>3. ASSUME NEW c \in CONTEXTS, AllocContext(c) PROVE PinInv'
    <3>1. /\ ~panicked /\ orphaned' = orphaned \cup Used
          /\ mrkeyMap' = None /\ vaRange' = None /\ regions' = {}
          /\ UNCHANGED <<load, pinned, panicked>>
      BY <2>3 DEF AllocContext, Used
    <3>2. DOMAIN vaRange' = {} /\ DOMAIN mrkeyMap' = {} BY <3>1 DEF None
    <3>3. RegionsApart' BY <3>1, <3>2, Zenon DEF RegionsApart
    <3>4. PinnedExactly'
      <4>1. pinned \subseteq Used \cup orphaned BY <3>1 DEF PinInv, PinnedExactly, Used
      <4> QED BY <4>1, <3>1 DEF PinnedExactly
    <3> QED BY <3>1, <3>2, <3>3, <3>4, ZenonT(60) DEF PinInv
  <2> QED BY <2>1, <2>2, <2>3 DEF Next
<1>3. PinInv => PinnedExactly BY DEF PinInv
<1> QED BY <1>1, <1>2, <1>3, PTL DEF Spec
=============================================================================
