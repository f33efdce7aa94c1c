-------------------------- MODULE MemoryRegistration --------------------------
(* reg_mr and dereg_mr: keys and page-table entries are allocated, the pages  *)
(* pinned, and the two translation tables of the card written through the     *)
(* command queue, one command at a time, the page table in bursts through one *)
(* DMA buffer.  One lock of the device context covers each call.  A key is    *)
(* its index: the random part below it is left out.  Physical pages are named *)
(* by the virtual page they back.                                             *)
EXTENDS Integers, Sequences

CONSTANTS LOADS,        \* what the application does: [bufs, opens], the buffers [va, len]
                        \* it registers, and a bound on the contexts it opens
          PAGE_SIZE,
          MAX_MR_CNT, PGT_LEN,
          BURST,        \* MAX_NUM_PGT_ENTRY_PER_ALLOC
          BUILDS        \* builds that are checked, of "debug" and "release"

ASSUME MemoryAssumption ==
  /\ {PAGE_SIZE, MAX_MR_CNT, PGT_LEN, BURST} \subseteq Nat \ {0}
  /\ \A l \in LOADS : \A b \in l.bufs : b.va \in Nat /\ b.len \in Nat \ {0}

VARIABLES
  load, build,
  freeKeys,     \* MrTableAlloc::free_list, a stack
  pgtUsed,      \* PgtAlloc::free_list, the entries marked used
  mrkeyMap,     \* key -> [index, count]
  vaRange,      \* key_to_va_range, key -> buffer
  regions,      \* MrRegionManager, its buffers
  pinned,       \* pages locked in memory
  call,         \* the reg_mr in progress, or NoCall
  live,         \* key -> buffer, of the regions the application holds
  panicked,
  buf,          \* mtt_buffer: the pages of a burst
  cmd, resp,    \* the command queue: at most one command is outstanding
  card,         \* mkMrAndPgtUpdater: entries it still has to write
  mrTable,      \* of the card: key -> [va, base]
  pgt           \* of the card: entry -> page

hostVars == <<load, build, freeKeys, pgtUsed, mrkeyMap, vaRange, regions, pinned, live, panicked>>
cardVars == <<card, mrTable, pgt>>
memVars == <<hostVars, call, buf, cmd, resp, cardVars>>

NoCall == [step |-> "none"]
NoCmd == [op |-> "none"]
NoPage == -1
Keys == 0 .. MAX_MR_CNT - 1
Entries == 0 .. PGT_LEN - 1
None == [x \in {} |-> 0]

MemInit ==
  /\ load \in LOADS /\ build \in BUILDS
  /\ freeKeys = [i \in 1 .. MAX_MR_CNT |-> i - 1]
  /\ pgtUsed = {} /\ mrkeyMap = None /\ vaRange = None /\ regions = {} /\ pinned = {}
  /\ call = NoCall /\ live = None /\ panicked = FALSE /\ buf = <<>>
  /\ cmd = NoCmd /\ resp = FALSE /\ card = <<>>
  /\ mrTable = [k \in Keys |-> [va |-> 0, base |-> 0]] /\ pgt = [i \in Entries |-> NoPage]

----------------------------------------------------------------------------
(* Allocation *)

Page(a) == a \div PAGE_SIZE
Pages(b) == Page(b.va) .. Page(b.va + b.len - 1)
NumPages(b) == Page(b.va + b.len - 1) - Page(b.va) + 1

\* pop of the free list
NextKey == freeKeys[Len(freeKeys)]
KeysLeft == SubSeq(freeKeys, 1, Len(freeKeys) - 1)

Fits(n) == {i \in Entries : i + n <= PGT_LEN /\ (i .. i + n - 1) \cap pgtUsed = {}}
FirstFit(n) == CHOOSE i \in Fits(n) : \A j \in Fits(n) : i <= j

Put(f, k, v) == [x \in DOMAIN f \cup {k} |-> IF x = k THEN v ELSE f[x]]
Drop(f, k) == [x \in DOMAIN f \ {k} |-> f[x]]

\* the assertions of insert_and_get_pin_range and get_pin_range
Overlaps(b) == \E c \in regions : c.va < b.va + b.len /\ b.va < c.va + c.len

PinRange_FirstPage(b, others) ==
  LET shares(p) == \E c \in others : p \in Pages(c)
  IN {p \in Pages(b) : ~(p = Page(b.va) /\ shares(p))}

\* get_pin_range: all pages but the first and the last one, if the region in
\* front or the one behind reaches into it
PinRange(b, others) ==
  LET before == {c \in others : c.va <= b.va}
      after == {c \in others : c.va >= b.va + b.len}
      first == IF before # {} /\ (\E c \in before : /\ \A d \in before : d.va <= c.va
                                                    /\ Page(c.va + c.len - 1) = Page(b.va))
               THEN Page(b.va) + 1 ELSE Page(b.va)
      last == IF after # {} /\ (\E c \in after : /\ \A d \in after : c.va <= d.va
                                                 /\ Page(c.va) = Page(b.va + b.len - 1))
              THEN Page(b.va + b.len - 1) - 1 ELSE Page(b.va + b.len - 1)
  IN first .. last

----------------------------------------------------------------------------
(* reg_mr *)

\* the key is taken and not given back when the page table has no room
RegNoRoom(b) ==
  /\ call = NoCall /\ ~panicked /\ freeKeys # <<>> /\ Fits(NumPages(b)) = {}
  /\ freeKeys' = KeysLeft
  /\ UNCHANGED <<load, build, pgtUsed, mrkeyMap, vaRange, regions, pinned, live, panicked,
                 call, buf, cmd, resp, cardVars>>

\* Alloc::alloc, and the maps that debug_assert! records
Allocate(b) ==
  LET k == NextKey
      e == [index |-> FirstFit(NumPages(b)), count |-> NumPages(b)]
  IN /\ freeKeys' = KeysLeft
     /\ pgtUsed' = pgtUsed \cup (e.index .. e.index + e.count - 1)
     /\ mrkeyMap' = IF build = "debug" THEN Put(mrkeyMap, k, e) ELSE mrkeyMap
     /\ vaRange' = IF build = "debug" THEN Put(vaRange, k, b) ELSE vaRange

\* an assertion of the region manager, or pin_pages fails: unwrap ends the process
RegPanics(b) ==
  /\ call = NoCall /\ ~panicked /\ freeKeys # <<>> /\ Fits(NumPages(b)) # {}
  /\ Overlaps(b)
  /\ Allocate(b) /\ panicked' = TRUE
  /\ UNCHANGED <<load, build, regions, pinned, live, call, buf, cmd, resp, cardVars>>

\* Mtt::register; then either virt_to_phys_range fails, which undoes nothing,
\* or the MR table command is pushed
RegMr(b) ==
  /\ call = NoCall /\ ~panicked /\ freeKeys # <<>> /\ Fits(NumPages(b)) # {}
  /\ ~Overlaps(b)
  /\ Allocate(b)
  /\ pinned' = pinned \cup PinRange(b, regions) /\ regions' = regions \cup {b}
  /\ \/ UNCHANGED <<call, cmd>>
     \/ LET base == FirstFit(NumPages(b))
        IN /\ call' = [step |-> "mtt", key |-> NextKey, b |-> b, next |-> base,
                       end |-> base + NumPages(b)]
           /\ cmd' = [op |-> "mtt", key |-> NextKey, va |-> b.va, base |-> base]
  /\ UNCHANGED <<load, build, live, panicked, buf, resp, cardVars>>

\* one turn of "for PgtEntry in chunks": fill the buffer, push the command
PushPgt ==
  LET n == IF call.end - call.next < BURST THEN call.end - call.next ELSE BURST
      done == call.next - (call.end - NumPages(call.b))
  IN /\ buf' = [i \in 1 .. n |-> Page(call.b.va) + done + i - 1]
     /\ cmd' = [op |-> "pgt", index |-> call.next, count |-> n]
     /\ call' = [call EXCEPT !.step = "pgt", !.next = @ + n]

Wait_Skip ==
  /\ call.step \in {"mtt", "pgt"} /\ call.next < call.end /\ cmd = NoCmd
  /\ PushPgt /\ resp' = FALSE
  /\ UNCHANGED <<hostVars, cardVars>>

\* QpUpdate::wait has the response, and entries are left
Wait ==
  /\ call.step \in {"mtt", "pgt"} /\ call.next < call.end /\ resp
  /\ PushPgt /\ resp' = FALSE
  /\ UNCHANGED <<hostVars, cardVars>>

\* ... or none are left: reg_mr returns the key
RegReturns ==
  /\ call.step = "pgt" /\ call.next = call.end /\ resp
  /\ live' = Put(live, call.key, call.b)
  /\ call' = NoCall /\ resp' = FALSE
  /\ UNCHANGED <<load, build, freeKeys, pgtUsed, mrkeyMap, vaRange, regions, pinned, panicked,
                 buf, cmd, cardVars>>

\* Mtt::deregister; without the key in mrkey_map it returns an error
DeregMr(k) ==
  /\ call = NoCall /\ ~panicked /\ k \in DOMAIN live \cap DOMAIN mrkeyMap
  /\ freeKeys' = Append(freeKeys, k)
  /\ pgtUsed' = pgtUsed \ (mrkeyMap[k].index .. mrkeyMap[k].index + mrkeyMap[k].count - 1)
  /\ mrkeyMap' = Drop(mrkeyMap, k) /\ vaRange' = Drop(vaRange, k)
  /\ regions' = regions \ {vaRange[k]}
  /\ pinned' = pinned \ PinRange(vaRange[k], regions \ {vaRange[k]})
  /\ live' = Drop(live, k)
  /\ UNCHANGED <<load, build, panicked, call, buf, cmd, resp, cardVars>>

----------------------------------------------------------------------------
(* The card *)

\* updateMrAndPgtStateIdle and handleMrModifyResp: an MR table command
UpdateMrTable ==
  /\ cmd.op = "mtt" /\ card = <<>>
  /\ mrTable' = [mrTable EXCEPT ![cmd.key] = [va |-> cmd.va, base |-> cmd.base]]
  /\ cmd' = NoCmd /\ resp' = TRUE
  /\ UNCHANGED <<hostVars, call, buf, card, pgt>>

ReadBurst_ZeroBased ==
  /\ cmd.op = "pgt" /\ card = <<>>
  /\ card' = [i \in 1 .. cmd.count - 1 |-> [index |-> cmd.index + i - 1, page |-> buf[i]]]
  /\ cmd' = NoCmd
  /\ UNCHANGED <<hostVars, call, buf, resp, mrTable, pgt>>

\* ... a page-table command: the DMA read of the burst
ReadBurst ==
  /\ cmd.op = "pgt" /\ card = <<>>
  /\ card' = [i \in 1 .. cmd.count |-> [index |-> cmd.index + i - 1, page |-> buf[i]]]
  /\ cmd' = NoCmd
  /\ UNCHANGED <<hostVars, call, buf, resp, mrTable, pgt>>

\* updatePgtStateHandlePGTUpdate; after the last write, once the table has taken
\* them all, the command is answered (handlePgtModifyLastResp)
WritePte ==
  /\ card # <<>>
  /\ pgt' = [pgt EXCEPT ![Head(card).index] = Head(card).page]
  /\ card' = Tail(card) /\ resp' = (Len(card) = 1)
  /\ UNCHANGED <<hostVars, call, buf, cmd, mrTable>>

\* mkAddressTranslate: the page that page p of the region with key k stands for
Translate(k, p) == pgt[mrTable[k].base + p - Page(mrTable[k].va)]

----------------------------------------------------------------------------
CardStep == UpdateMrTable \/ ReadBurst \/ WritePte
CallStep == Wait \/ RegReturns

MemNext ==
  \/ \E b \in load.bufs : RegNoRoom(b) \/ RegPanics(b) \/ RegMr(b)
  \/ \E k \in Keys : DeregMr(k)
  \/ CallStep \/ CardStep

\* The thread in reg_mr spins on the response; the rules of the card fire.
MemFairness == WF_memVars(CallStep) /\ WF_memVars(CardStep)

----------------------------------------------------------------------------
\* A key that the application holds translates every page of its region to the
\* page that backs it, whatever was registered, deregistered or failed before and
\* whatever is being registered: the entries of live regions are never shared,
\* and reg_mr does not return before the card has written the last one.
TranslationSound ==
  \A k \in DOMAIN live : \A p \in Pages(live[k]) :
    mrTable[k].va = live[k].va /\ Translate(k, p) = p

\* A registration returns: the thread and the card do not wait for each other.
RegistrationReturns == []<>(call = NoCall)

\* dereg_mr succeeds for a key that reg_mr has returned (mtt.rs:65, "Deregister
\* a memory region"): it is in the map that deregister takes it from.
DeregSucceeds == DOMAIN live \subseteq DOMAIN mrkeyMap

----------------------------------------------------------------------------
(* The invariants behind TranslationSound and the pinning of pages            *)

\* n entries of the page table from `base' on
Span(base, n) == base .. base + n - 1

MemTypeOK ==
  /\ load \in LOADS /\ regions \subseteq load.bufs /\ panicked \in BOOLEAN
  /\ freeKeys \in Seq(Keys) /\ pgtUsed \subseteq Entries
  /\ DOMAIN mrkeyMap \subseteq Keys /\ DOMAIN vaRange = DOMAIN mrkeyMap
  /\ DOMAIN live \subseteq Keys /\ \A k \in DOMAIN live : live[k] \in load.bufs
  /\ mrTable \in [Keys -> [va : Nat, base : Nat]] /\ pgt \in [Entries -> Int]
  /\ resp \in BOOLEAN /\ card \in Seq([index : Int, page : Int])
  /\ \/ call = NoCall
     \/ call \in [step : {"mtt", "pgt"}, key : Keys, b : load.bufs, next : Nat, end : Nat]

InCall == call # NoCall
CallBase == call.end - NumPages(call.b)

\* No key is given out twice.
KeysApart ==
  /\ \A i, j \in DOMAIN freeKeys : freeKeys[i] = freeKeys[j] => i = j
  /\ \A i \in DOMAIN freeKeys : freeKeys[i] \notin DOMAIN live \cup DOMAIN mrkeyMap
  /\ InCall => call.key \notin DOMAIN live /\ \A i \in DOMAIN freeKeys : freeKeys[i] # call.key

\* The page-table entries of a live region are in use, its own, and what dereg_mr
\* gives back.
SpansApart ==
  /\ \A k \in DOMAIN live : Span(mrTable[k].base, NumPages(live[k])) \subseteq pgtUsed
  /\ \A k, l \in DOMAIN live : k # l =>
       Span(mrTable[k].base, NumPages(live[k])) \cap Span(mrTable[l].base, NumPages(live[l])) = {}
  /\ \A k \in DOMAIN live \cap DOMAIN mrkeyMap :
       mrkeyMap[k].index = mrTable[k].base /\ mrkeyMap[k].count = NumPages(live[k])

\* The same of the region being registered, whose entries are not yet written.
CallSpan ==
  InCall =>
    /\ Span(CallBase, NumPages(call.b)) \subseteq pgtUsed
    /\ \A k \in DOMAIN live :
         Span(CallBase, NumPages(call.b)) \cap Span(mrTable[k].base, NumPages(live[k])) = {}
    /\ call.key \in DOMAIN mrkeyMap =>
         mrkeyMap[call.key].index = CallBase /\ mrkeyMap[call.key].count = NumPages(call.b)
    /\ CallBase \in Nat /\ call.next \in CallBase .. call.end

\* page-table entry i of the region being registered, and those written so far
CallPage(i) == Page(call.b.va) + i - CallBase
Written(n) == \A i \in CallBase .. n - 1 : pgt[i] = CallPage(i)
MttWritten == mrTable[call.key].va = call.b.va /\ mrTable[call.key].base = CallBase

\* The last n entries so far are in a command, or in the card, and those before
\* are written.
Queued(n) ==
  /\ cmd = [op |-> "pgt", index |-> call.next - n, count |-> n]
  /\ \A i \in 1 .. n : buf[i] = CallPage(call.next - n + i - 1)
  /\ Written(call.next - n)
Fetched(n) ==
  /\ Len(card) = n
  /\ \A i \in 1 .. n : /\ card[i].index = call.next - n + i - 1
                        /\ card[i].page = CallPage(call.next - n + i - 1)
  /\ Written(call.next - n)

\* One command is under way at a time, and is at exactly one place: in the
\* queue, in the card, or answered.
CommandInv ==
  /\ ~InCall => cmd = NoCmd /\ card = <<>> /\ ~resp
  /\ InCall /\ call.step = "mtt" =>
       /\ card = <<>> /\ call.next = CallBase
       /\ \/ ~resp /\ cmd = [op |-> "mtt", key |-> call.key, va |-> call.b.va, base |-> CallBase]
          \/ resp /\ cmd = NoCmd /\ MttWritten
  /\ InCall /\ call.step = "pgt" =>
       /\ MttWritten
       /\ \/ ~resp /\ card = <<>> /\ \E n \in 1 .. call.next - CallBase : Queued(n)
          \/ ~resp /\ cmd = NoCmd /\ \E n \in 1 .. call.next - CallBase : Fetched(n)
          \/ resp /\ cmd = NoCmd /\ card = <<>> /\ Written(call.next)

MemInv == MemTypeOK /\ KeysApart /\ SpansApart /\ CallSpan /\ CommandInv /\ TranslationSound
=============================================================================
