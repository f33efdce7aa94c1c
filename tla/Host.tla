--------------------------------- MODULE Host ---------------------------------
(* A process that opens the device: the kernel module, the provider's contexts *)
(* and the memory registration of the driver instance behind them.  Every      *)
(* alloc_context makes a new instance, with empty allocators, and stores it in *)
(* the device; free_context frees none.  The tables of the card stay.          *)
EXTENDS KernelModule, MemoryRegistration

CONSTANT CONTEXTS       \* contexts that may be open at the same time

VARIABLES contexts, opens,
          orphaned      \* pages of regions that former instances still had

provVars == <<contexts, opens, orphaned>>
vars == <<kernelVars, memVars, provVars>>

Init == KernelInit /\ MemInit /\ contexts = {} /\ opens = 0 /\ orphaned = {}

\* bluerdma_alloc_context, bluerdma_new, and HwDeviceCtx::initialize on first use
AllocContext(c) ==
  /\ c \notin contexts /\ opens < load.opens /\ ib[0] = "reg" /\ call = NoCall /\ ~panicked
  /\ contexts' = contexts \cup {c} /\ opens' = opens + 1
  /\ orphaned' = orphaned \cup UNION {Pages(b) : b \in regions}
  /\ freeKeys' = [i \in 1 .. MAX_MR_CNT |-> i - 1]
  /\ pgtUsed' = {} /\ mrkeyMap' = None /\ vaRange' = None /\ regions' = {}
  /\ UNCHANGED <<kernelVars, load, build, pinned, live, panicked, call, buf, cmd, resp, cardVars>>

\* ibv_close_device, after the application has deregistered its regions
FreeContext(c) ==
  /\ c \in contexts /\ call = NoCall /\ live = None /\ ~panicked
  /\ contexts' = contexts \ {c}
  /\ UNCHANGED <<kernelVars, memVars, opens, orphaned>>

\* An open context holds the module, and ib_unregister_device waits for it.
KernelStep ==
  /\ KernelNext
  /\ contexts # {} => ib'[0] = ib[0]
  /\ UNCHANGED <<memVars, provVars>>

MemStep == contexts # {} /\ MemNext /\ UNCHANGED <<kernelVars, provVars>>

Next ==
  \/ KernelStep \/ MemStep
  \/ \E c \in CONTEXTS : AllocContext(c) \/ FreeContext(c)

\* The thread in reg_mr spins on the response; the rules of the card fire.
Fairness ==
  /\ WF_vars(CallStep /\ UNCHANGED <<kernelVars, provVars>>)
  /\ WF_vars(CardStep /\ UNCHANGED <<kernelVars, provVars>>)

Spec == Init /\ [][Next]_vars /\ Fairness

----------------------------------------------------------------------------
\* The pages of registered regions are pinned although regions share pages, no
\* page else is, but those that a former instance has left: no unpin takes the
\* page of a neighbour, and none is forgotten.
PinnedExactly ==
  LET used == UNION {Pages(b) : b \in regions}
  IN ~panicked => used \subseteq pinned /\ pinned \subseteq used \cup orphaned

----------------------------------------------------------------------------
\* One context at a time: without one there is no region and no call.
OneContext == \A c, d \in CONTEXTS : c = d
ContextInv ==
  /\ contexts \subseteq CONTEXTS
  /\ contexts = {} => call = NoCall /\ DOMAIN live = {}
HostInv == KernelInv /\ MemInv /\ ContextInv

\* Regions do not overlap, and each key stands for a region of its own.
RegionsApart ==
  /\ \A b, c \in regions : b # c => b.va + b.len <= c.va \/ c.va + c.len <= b.va
  /\ ~panicked => \A k \in DOMAIN vaRange : vaRange[k] \in regions
  /\ ~panicked => \A k, l \in DOMAIN vaRange : vaRange[k] = vaRange[l] => k = l
PinInv ==
  /\ load \in LOADS /\ regions \subseteq load.bufs /\ DOMAIN vaRange = DOMAIN mrkeyMap
  /\ RegionsApart /\ PinnedExactly
=============================================================================
