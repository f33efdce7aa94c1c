---------------------- MODULE MemoryRegistrationProofs ----------------------
(* Registering memory, for any number of keys, page-table entries and pages,  *)
(* any buffers and any size of a burst: every step of the driver and of the   *)
(* card keeps MemInv.  HostProofs draws the conclusions.                      *)
EXTENDS MemoryRegistration, WellFoundedInduction, TLAPS

\* A leaf that names no prover goes to the SMT solver, then to Zenon.
USE SMTT(60), ZenonT(60)

----------------------------------------------------------------------------
(* Pages, keys and page-table entries *)

LEMMA DivMono ==
    ASSUME NEW x \in Nat, NEW y \in Nat, NEW r \in Nat \ {0}, x <= y
    PROVE  x \div r \in Nat /\ x \div r <= y \div r
<1> DEFINE p == x \div r
           q == y \div r
<1>1. /\ p \in Nat /\ q \in Nat
      /\ x % r \in 0 .. r - 1 /\ y % r \in 0 .. r - 1
      /\ x = r * p + (x % r) /\ y = r * q + (y % r)
  OBVIOUS
<1> HIDE DEF p, q
<1>2. ~(q + 1 <= p)
  <2>1. SUFFICES ASSUME q + 1 <= p PROVE FALSE OBVIOUS
  <2>2. \A a, b, c \in Nat : a <= b => c * a <= c * b OBVIOUS
  <2>3. r * (q + 1) <= r * p BY <2>1, <2>2, <1>1
  <2>4. r * (q + 1) = r * q + r /\ r * q \in Nat /\ r * p \in Nat BY <1>1
  <2> QED BY <2>3, <2>4, <1>1
<1>3. p <= q BY <1>1, <1>2
<1> QED BY <1>1, <1>3 DEF p, q

LEMMA PageMono ==
    ASSUME NEW x \in Nat, NEW y \in Nat, x <= y
    PROVE  Page(x) \in Nat /\ Page(x) <= Page(y)
<1>1. PAGE_SIZE \in Nat \ {0} BY MemoryAssumption
<1> QED BY <1>1, DivMono DEF Page

Buffer(b) == b.va \in Nat /\ b.len \in Nat \ {0}

\* A buffer has at least one page, and its pages are consecutive.
LEMMA PageFacts ==
    ASSUME NEW b, Buffer(b)
    PROVE  /\ Page(b.va) \in Nat /\ Page(b.va + b.len - 1) \in Nat
           /\ NumPages(b) \in Nat \ {0}
           /\ Pages(b) = Page(b.va) .. Page(b.va) + NumPages(b) - 1
<1>1. /\ b.va \in Nat /\ b.va + b.len - 1 \in Nat /\ b.va <= b.va + b.len - 1
  BY DEF Buffer
<1>2. /\ Page(b.va) \in Nat /\ Page(b.va + b.len - 1) \in Nat
      /\ Page(b.va) <= Page(b.va + b.len - 1)
  <2>1. b.va + b.len - 1 <= b.va + b.len - 1 BY <1>1
  <2> QED BY <2>1, <1>1, PageMono
<1> QED BY <1>2 DEF Pages, NumPages

\* Every non-empty set of natural numbers has a smallest element.
LEMMA Smallest ==
    ASSUME NEW S \in SUBSET Nat, S # {}
    PROVE  \E x \in S : \A y \in S : x <= y
<1> DEFINE R == {ss \in Nat \X Nat : ss[1] < ss[2]}
<1>1. IsWellFoundedOn(R, Nat)
  BY NatLessThanWellFounded, Zenon DEF OpToRel
<1> HIDE DEF R
<1>2. PICK x \in S : \A y \in S : ~(<<y, x>> \in R)
  BY <1>1, WFMin, Zenon
<1>3. ASSUME NEW y \in S PROVE x <= y
  <2>1. x \in Nat /\ y \in Nat OBVIOUS
  <2>2. y < x => <<y, x>> \in R BY <2>1 DEF R
  <2> QED BY <2>1, <2>2, <1>2
<1> QED BY <1>3

\* PgtAlloc finds entries that are all free.
LEMMA FirstFitFacts ==
    ASSUME NEW n \in Nat \ {0}, Fits(n) # {}
    PROVE  /\ FirstFit(n) \in Nat
           /\ Span(FirstFit(n), n) \subseteq Entries
           /\ Span(FirstFit(n), n) \cap pgtUsed = {}
<1>1. Fits(n) \in SUBSET Nat BY MemoryAssumption DEF Fits, Entries
<1>2. \E i \in Fits(n) : \A j \in Fits(n) : i <= j BY <1>1, Smallest
<1>3. FirstFit(n) \in Fits(n) BY <1>2 DEF FirstFit
<1> QED BY <1>3, MemoryAssumption DEF Fits, Entries, Span

\* MrTableAlloc takes the last key of its stack.
LEMMA KeyFacts ==
    ASSUME freeKeys \in Seq(Keys), freeKeys # <<>>
    PROVE  /\ NextKey \in Keys /\ NextKey = freeKeys[Len(freeKeys)] /\ Len(freeKeys) \in DOMAIN freeKeys
           /\ KeysLeft \in Seq(Keys)
           /\ \A i \in DOMAIN KeysLeft :
                i \in DOMAIN freeKeys /\ KeysLeft[i] = freeKeys[i] /\ i # Len(freeKeys)
BY DEF NextKey, KeysLeft

----------------------------------------------------------------------------
(* Registration *)

LEMMA BufferFacts ==
    ASSUME MemTypeOK, NEW b \in load.bufs
    PROVE  /\ Buffer(b)
           /\ Page(b.va) \in Nat /\ NumPages(b) \in Nat \ {0}
           /\ Pages(b) = Page(b.va) .. Page(b.va) + NumPages(b) - 1
<1>1. Buffer(b) BY MemoryAssumption DEF MemTypeOK, Buffer
<1> QED BY <1>1, PageFacts

\* what is known of a call in progress
LEMMA CallFacts ==
    ASSUME MemTypeOK, call.step \in {"mtt", "pgt"}
    PROVE  /\ InCall /\ call.key \in Keys /\ call.b \in load.bufs
           /\ call.next \in Nat /\ call.end \in Nat
           /\ call \in [step : {"mtt", "pgt"}, key : Keys, b : load.bufs, next : Nat, end : Nat]
<1>1. call # NoCall BY DEF NoCall
<1> QED BY <1>1 DEF MemTypeOK, InCall

\* MrTableAlloc::new lists every key once.
LEMMA FreshKeys ==
    ASSUME NEW s, s = [i \in 1 .. MAX_MR_CNT |-> i - 1]
    PROVE  s \in Seq(Keys) /\ \A i, j \in DOMAIN s : s[i] = s[j] => i = j
<1>1. MAX_MR_CNT \in Nat BY MemoryAssumption
<1>2. \A i \in 1 .. MAX_MR_CNT : i - 1 \in Keys BY <1>1 DEF Keys
<1>3. s \in [1 .. MAX_MR_CNT -> Keys] BY <1>2
<1>4. s \in Seq(Keys) BY <1>1, <1>3
<1>5. ASSUME NEW i \in DOMAIN s, NEW j \in DOMAIN s, s[i] = s[j] PROVE i = j
  <2>1. i \in 1 .. MAX_MR_CNT /\ j \in 1 .. MAX_MR_CNT OBVIOUS
  <2>2. s[i] = i - 1 /\ s[j] = j - 1 BY <2>1
  <2>3. i \in Int /\ j \in Int /\ i - 1 = j - 1 BY <2>1, <2>2, <1>5
  <2> QED BY <2>3
<1> QED BY <1>4, <1>5

LEMMA MemInitial ==
    ASSUME MemInit
    PROVE  MemInv
<1>1. freeKeys \in Seq(Keys) /\ \A i, j \in DOMAIN freeKeys : freeKeys[i] = freeKeys[j] => i = j
  BY FreshKeys, Zenon DEF MemInit
<1>2. DOMAIN mrkeyMap = {} /\ DOMAIN vaRange = {} /\ DOMAIN live = {} BY DEF MemInit, None
<1>5. mrTable \in [Keys -> [va : Nat, base : Nat]] /\ pgt \in [Entries -> Int]
  BY DEF MemInit, NoPage
<1>6. card \in Seq([index : Int, page : Int]) BY DEF MemInit
<1>3. MemTypeOK BY <1>1, <1>2, <1>5, <1>6, Zenon DEF MemInit, MemTypeOK
<1>4. ~InCall BY DEF MemInit, InCall
<1> QED BY <1>1, <1>2, <1>3, <1>4
        DEF MemInit, MemInv, KeysApart, SpansApart, CallSpan, CommandInv, TranslationSound

\* A region whose rows in the card a step leaves alone is translated as before.
LEMMA TranslationKeeps ==
    ASSUME MemInv, pgt' = pgt,
           \A l \in DOMAIN live' : l \in DOMAIN live /\ live'[l] = live[l] /\ mrTable'[l] = mrTable[l]
    PROVE  TranslationSound'
<1> SUFFICES ASSUME NEW l \in DOMAIN live', NEW p \in Pages(live'[l])
             PROVE  /\ mrTable'[l].va = live'[l].va
                    /\ pgt'[mrTable'[l].base + p - Page(mrTable'[l].va)] = p
  BY ZenonT(60) DEF TranslationSound, Translate
<1>1. TranslationSound BY DEF MemInv
<1>2. l \in DOMAIN live /\ live'[l] = live[l] /\ mrTable'[l] = mrTable[l] OBVIOUS
<1>3. mrTable[l].va = live[l].va /\ pgt[mrTable[l].base + p - Page(mrTable[l].va)] = p
  BY <1>1, <1>2, Zenon DEF TranslationSound, Translate
<1> QED BY <1>2, <1>3, Zenon

LEMMA RegNoRoomStep ==
    ASSUME MemInv, NEW b \in load.bufs, RegNoRoom(b)
    PROVE  MemInv'
<1>1. /\ freeKeys # <<>> /\ freeKeys' = KeysLeft /\ call = NoCall
      /\ UNCHANGED <<load, build, pgtUsed, mrkeyMap, vaRange, regions, pinned, live, panicked,
                     call, buf, cmd, resp, card, mrTable, pgt>>
  BY DEF RegNoRoom, cardVars
<1>2. /\ freeKeys' \in Seq(Keys)
      /\ \A i \in DOMAIN freeKeys' : i \in DOMAIN freeKeys /\ freeKeys'[i] = freeKeys[i]
  <2>1. freeKeys \in Seq(Keys) BY DEF MemInv, MemTypeOK
  <2> QED BY <2>1, <1>1, KeyFacts, Zenon
<1>3. MemTypeOK' BY <1>1, <1>2 DEF MemInv, MemTypeOK
<1>4. ~InCall /\ ~InCall' BY <1>1 DEF InCall
<1>5. KeysApart' BY <1>1, <1>2, <1>4 DEF MemInv, KeysApart
<1>6. SpansApart' /\ TranslationSound'
  <2>1. TranslationSound' BY <1>1, TranslationKeeps, Zenon
  <2> QED BY <2>1, <1>1, ZenonT(30) DEF MemInv, SpansApart
<1>7. (CallSpan /\ CommandInv)' BY <1>1, <1>4 DEF MemInv, CallSpan, CommandInv
<1> QED BY <1>3, <1>5, <1>6, <1>7 DEF MemInv

\* What Alloc::alloc takes was free: no live region has the key or one of the
\* entries.
LEMMA AllocateFacts ==
    ASSUME MemInv, NEW b \in load.bufs, freeKeys # <<>>, Fits(NumPages(b)) # {}, Allocate(b)
    PROVE  LET k == NextKey
               base == FirstFit(NumPages(b))
           IN /\ k \in Keys /\ k \notin DOMAIN live /\ base \in Nat
              /\ freeKeys' \in Seq(Keys)
              /\ \A i \in DOMAIN freeKeys' : i \in DOMAIN freeKeys /\ freeKeys'[i] = freeKeys[i]
              /\ \A i \in DOMAIN freeKeys' : freeKeys'[i] # k
              /\ pgtUsed \subseteq pgtUsed' /\ pgtUsed' \subseteq Entries
              /\ Span(base, NumPages(b)) \subseteq pgtUsed'
              /\ Span(base, NumPages(b)) \cap pgtUsed = {}
              /\ DOMAIN mrkeyMap' \subseteq DOMAIN mrkeyMap \cup {k}
              /\ DOMAIN vaRange' = DOMAIN mrkeyMap'
              /\ \A l \in DOMAIN mrkeyMap' : l # k => l \in DOMAIN mrkeyMap /\ mrkeyMap'[l] = mrkeyMap[l]
              /\ k \in DOMAIN mrkeyMap' => mrkeyMap'[k].index = base /\ mrkeyMap'[k].count = NumPages(b)
<1> DEFINE k == NextKey
           n == NumPages(b)
           base == FirstFit(n)
           e == [index |-> base, count |-> n]
<1>1. n \in Nat \ {0} BY BufferFacts DEF MemInv
<1>2. /\ freeKeys' = KeysLeft /\ pgtUsed' = pgtUsed \cup Span(base, n)
      /\ mrkeyMap' = IF build = "debug" THEN Put(mrkeyMap, k, e) ELSE mrkeyMap
      /\ vaRange' = IF build = "debug" THEN Put(vaRange, k, b) ELSE vaRange
  BY DEF Allocate, Span
<1>3. /\ k \in Keys /\ k = freeKeys[Len(freeKeys)] /\ Len(freeKeys) \in DOMAIN freeKeys
      /\ freeKeys' \in Seq(Keys)
      /\ \A i \in DOMAIN freeKeys' :
           i \in DOMAIN freeKeys /\ freeKeys'[i] = freeKeys[i] /\ i # Len(freeKeys)
  BY <1>2, KeyFacts DEF MemInv, MemTypeOK
<1>4. base \in Nat /\ Span(base, n) \subseteq Entries /\ Span(base, n) \cap pgtUsed = {}
  BY <1>1, FirstFitFacts
<1> HIDE DEF n, base, k
<1>5. /\ k \notin DOMAIN live /\ k \notin DOMAIN mrkeyMap
      /\ \A i \in DOMAIN freeKeys' : freeKeys'[i] # k
  BY <1>3 DEF MemInv, KeysApart
<1>6. pgtUsed \subseteq Entries /\ DOMAIN vaRange = DOMAIN mrkeyMap BY DEF MemInv, MemTypeOK
<1>7. /\ DOMAIN mrkeyMap' \subseteq DOMAIN mrkeyMap \cup {k}
      /\ DOMAIN vaRange' = DOMAIN mrkeyMap'
      /\ \A l \in DOMAIN mrkeyMap' : l # k => l \in DOMAIN mrkeyMap /\ mrkeyMap'[l] = mrkeyMap[l]
      /\ k \in DOMAIN mrkeyMap' => mrkeyMap'[k].index = base /\ mrkeyMap'[k].count = n
  BY <1>2, <1>5, <1>6 DEF Put
<1> QED BY <1>2, <1>3, <1>4, <1>5, <1>6, <1>7 DEF k, n, base

\* What stays when a region is allocated.
LEMMA AllocateKeeps ==
    ASSUME MemInv, NEW b \in load.bufs, freeKeys # <<>>, Fits(NumPages(b)) # {}, Allocate(b),
           UNCHANGED <<live, mrTable, pgt>>
    PROVE  /\ (SpansApart /\ TranslationSound)'
           /\ \A i, j \in DOMAIN freeKeys' : freeKeys'[i] = freeKeys'[j] => i = j
           /\ \A i \in DOMAIN freeKeys' : freeKeys'[i] \notin DOMAIN live' \cup DOMAIN mrkeyMap'
<1> DEFINE k == NextKey
<1>1. /\ k \notin DOMAIN live /\ pgtUsed \subseteq pgtUsed'
      /\ \A i \in DOMAIN freeKeys' : i \in DOMAIN freeKeys /\ freeKeys'[i] = freeKeys[i]
      /\ \A i \in DOMAIN freeKeys' : freeKeys'[i] # k
      /\ DOMAIN mrkeyMap' \subseteq DOMAIN mrkeyMap \cup {k}
      /\ \A l \in DOMAIN mrkeyMap' : l # k => l \in DOMAIN mrkeyMap /\ mrkeyMap'[l] = mrkeyMap[l]
  BY AllocateFacts, Zenon
<1> HIDE DEF k
<1>2. SpansApart' BY <1>1 DEF MemInv, SpansApart
<1>3. TranslationSound' BY TranslationKeeps, Zenon
<1>4. KeysApart BY DEF MemInv
<1> QED BY <1>1, <1>2, <1>3, <1>4 DEF KeysApart

LEMMA RegPanicsStep ==
    ASSUME MemInv, NEW b \in load.bufs, RegPanics(b)
    PROVE  MemInv'
<1>1. /\ freeKeys # <<>> /\ Fits(NumPages(b)) # {} /\ Allocate(b) /\ call = NoCall /\ panicked' = TRUE
      /\ UNCHANGED <<load, build, regions, pinned, live, call, buf, cmd, resp, card, mrTable, pgt>>
  BY ZenonT(60) DEF RegPanics, cardVars
<1>2. /\ (SpansApart /\ TranslationSound)'
      /\ \A i, j \in DOMAIN freeKeys' : freeKeys'[i] = freeKeys'[j] => i = j
      /\ \A i \in DOMAIN freeKeys' : freeKeys'[i] \notin DOMAIN live' \cup DOMAIN mrkeyMap'
  BY <1>1, AllocateKeeps, Zenon
<1>3. /\ freeKeys' \in Seq(Keys) /\ pgtUsed' \subseteq Entries /\ NextKey \in Keys
      /\ DOMAIN mrkeyMap' \subseteq DOMAIN mrkeyMap \cup {NextKey}
      /\ DOMAIN vaRange' = DOMAIN mrkeyMap'
  BY <1>1, AllocateFacts, Zenon
<1>4. MemTypeOK' BY <1>1, <1>3, ZenonT(60) DEF MemInv, MemTypeOK
<1>5. ~InCall /\ ~InCall' BY <1>1 DEF InCall
<1>6. KeysApart' BY <1>2, <1>5 DEF KeysApart
<1>7. (CallSpan /\ CommandInv)' BY <1>1, <1>5, ZenonT(60) DEF MemInv, CallSpan, CommandInv
<1> QED BY <1>2, <1>4, <1>6, <1>7 DEF MemInv

\* A registration that gets to its first command, or fails before it.
LEMMA RegMrStep ==
    ASSUME MemInv, NEW b \in load.bufs, RegMr(b)
    PROVE  MemInv'
<1> DEFINE k == NextKey
           n == NumPages(b)
           base == FirstFit(n)
<1>1. /\ freeKeys # <<>> /\ Fits(n) # {} /\ Allocate(b) /\ call = NoCall
      /\ regions' = regions \cup {b}
      /\ UNCHANGED <<load, build, live, panicked, buf, resp, card, mrTable, pgt>>
  BY DEF RegMr, cardVars
<1>2. /\ (SpansApart /\ TranslationSound)'
      /\ \A i, j \in DOMAIN freeKeys' : freeKeys'[i] = freeKeys'[j] => i = j
      /\ \A i \in DOMAIN freeKeys' : freeKeys'[i] \notin DOMAIN live' \cup DOMAIN mrkeyMap'
  BY <1>1, AllocateKeeps
<1>3. /\ k \in Keys /\ k \notin DOMAIN live /\ base \in Nat
      /\ freeKeys' \in Seq(Keys)
      /\ \A i \in DOMAIN freeKeys' : freeKeys'[i] # k
      /\ pgtUsed' \subseteq Entries
      /\ Span(base, n) \subseteq pgtUsed'
      /\ Span(base, n) \cap pgtUsed = {}
      /\ DOMAIN mrkeyMap' \subseteq DOMAIN mrkeyMap \cup {k}
      /\ DOMAIN vaRange' = DOMAIN mrkeyMap'
      /\ k \in DOMAIN mrkeyMap' => mrkeyMap'[k].index = base /\ mrkeyMap'[k].count = n
  BY <1>1, AllocateFacts, Zenon
<1>4. n \in Nat \ {0} BY BufferFacts DEF MemInv
<1>5. ~InCall /\ cmd = NoCmd /\ card = <<>> /\ ~resp BY <1>1 DEF MemInv, CommandInv, InCall
<1>6. \A l \in DOMAIN live : Span(mrTable[l].base, NumPages(live[l])) \subseteq pgtUsed
  BY DEF MemInv, SpansApart
<1>7. CASE call' = call /\ cmd' = cmd
  <2>1. ~InCall' BY <1>7, <1>5 DEF InCall
  <2>2. MemTypeOK' BY <1>1, <1>3, <1>7, ZenonT(60) DEF MemInv, MemTypeOK
  <2>3. KeysApart' BY <1>2, <2>1 DEF KeysApart
  <2>4. (CallSpan /\ CommandInv)' BY <1>1, <1>5, <1>7, <2>1, ZenonT(60) DEF CallSpan, CommandInv
  <2> QED BY <1>2, <2>2, <2>3, <2>4 DEF MemInv
<1>8. CASE /\ call' = [step |-> "mtt", key |-> k, b |-> b, next |-> base, end |-> base + n]
           /\ cmd' = [op |-> "mtt", key |-> k, va |-> b.va, base |-> base]
  <2> HIDE DEF k, base
  <2>1. /\ InCall' /\ call'.key = k /\ call'.b = b /\ call'.step = "mtt"
        /\ call'.next = base /\ call'.end = base + n
    BY <1>8 DEF InCall, NoCall
  <2>2. CallBase' = base BY <2>1, <1>3, <1>4 DEF CallBase, NumPages, Pages, Page
  <2>3. MemTypeOK'
    <3>1. call' \in [step : {"mtt", "pgt"}, key : Keys, b : load'.bufs, next : Nat, end : Nat]
      <4>1. base + n \in Nat BY <1>3, <1>4
      <4>2. b \in load'.bufs BY <1>1
      <4> QED BY <4>1, <4>2, <1>3, <1>8, Zenon
    <3> QED BY <3>1, <1>1, <1>3, ZenonT(60) DEF MemInv, MemTypeOK
  <2>4. KeysApart' BY <1>1, <1>2, <1>3, <2>1, Zenon DEF KeysApart
  <2>5. NumPages(call'.b) = n BY <2>1
  <2>6. CallSpan'
    <3>1. \A l \in DOMAIN live' :
            Span(base, n) \cap Span(mrTable'[l].base, NumPages(live'[l])) = {}
      BY <1>1, <1>3, <1>6
    <3>2. base \in base .. call'.end BY <1>3, <1>4, <2>1
    <3>3. NumPages(call.b)' = n BY <2>1 DEF NumPages, Pages, Page
    <3>4. \A l : NumPages(live[l])' = NumPages(live'[l]) BY DEF NumPages, Pages, Page
    <3> QED BY <3>1, <3>2, <3>3, <3>4, <2>1, <2>2, <1>3 DEF CallSpan, Span
  <2>7. CommandInv' BY <2>1, <2>2, <1>1, <1>5, <1>8 DEF CommandInv
  <2> QED BY <1>2, <2>3, <2>4, <2>6, <2>7 DEF MemInv
<1> QED BY <1>7, <1>8, ZenonT(60) DEF RegMr

\* The keys and entries do not change; only how far the command has come.
LEMMA CallKeeps ==
    ASSUME MemInv, UNCHANGED <<hostVars, mrTable, pgt>>
    PROVE  (SpansApart /\ TranslationSound)'
<1>1. UNCHANGED <<live, mrkeyMap, pgtUsed, mrTable, pgt>> BY DEF hostVars
<1>2. TranslationSound' BY <1>1, TranslationKeeps, Zenon
<1> QED BY <1>1, <1>2, Zenon DEF MemInv, SpansApart

LEMMA WaitStep ==
    ASSUME MemInv, Wait
    PROVE  MemInv'
<1>1. /\ call.step \in {"mtt", "pgt"} /\ call.next < call.end /\ resp /\ PushPgt /\ resp' = FALSE
      /\ UNCHANGED <<hostVars, card, mrTable, pgt>>
  BY DEF Wait, cardVars
<1>2. /\ InCall /\ call.key \in Keys /\ call.b \in load.bufs /\ call.next \in Nat /\ call.end \in Nat
      /\ call \in [step : {"mtt", "pgt"}, key : Keys, b : load.bufs, next : Nat, end : Nat]
  BY <1>1, CallFacts DEF MemInv
<1>3. /\ NumPages(call.b) \in Nat \ {0} /\ Page(call.b.va) \in Nat
  BY <1>2, BufferFacts DEF MemInv
<1>4. PICK base \in Nat : base = CallBase /\ call.next \in base .. call.end
  BY <1>2 DEF MemInv, CallSpan
<1>5. PICK n \in Nat \ {0} :
        /\ n = IF call.end - call.next < BURST THEN call.end - call.next ELSE BURST
        /\ call.next + n <= call.end
  BY <1>1, <1>2, MemoryAssumption
<1>6. /\ buf' = [i \in 1 .. n |-> Page(call.b.va) + (call.next - base) + i - 1]
      /\ cmd' = [op |-> "pgt", index |-> call.next, count |-> n]
      /\ call' = [call EXCEPT !.step = "pgt", !.next = @ + n]
  BY <1>1, <1>4, <1>5 DEF PushPgt, CallBase
<1>7. card = <<>> /\ MttWritten /\ Written(call.next)
  <2>1. CASE call.step = "mtt"
    BY <2>1, <1>1, <1>2, <1>4 DEF MemInv, CommandInv, Written
  <2>2. CASE call.step = "pgt"
    BY <2>2, <1>1, <1>2 DEF MemInv, CommandInv
  <2> QED BY <2>1, <2>2, <1>1
<1>8. /\ call'.step = "pgt" /\ call'.next = call.next + n /\ call'.key = call.key
      /\ call'.b = call.b /\ call'.end = call.end
      /\ call' \in [step : {"mtt", "pgt"}, key : Keys, b : load.bufs, next : Nat, end : Nat]
  <2>1. call.next + n \in Nat BY <1>2, <1>5
  <2> QED BY <2>1, <1>2, <1>6, Zenon
<1>9. InCall' BY <1>8 DEF InCall, NoCall
<1>10. NumPages(call.b)' = NumPages(call.b) /\ Page(call.b.va)' = Page(call.b.va)
  BY <1>8 DEF NumPages, Pages, Page
<1>11. CallBase' = base BY <1>4, <1>8, <1>10 DEF CallBase
<1>12. UNCHANGED <<load, build, freeKeys, pgtUsed, mrkeyMap, vaRange, regions, live, panicked>>
  BY <1>1 DEF hostVars
<1>13. MemTypeOK' BY <1>1, <1>8, <1>12, ZenonT(60) DEF MemInv, MemTypeOK
<1>14. KeysApart' BY <1>2, <1>8, <1>9, <1>12 DEF MemInv, KeysApart
<1>15. (SpansApart /\ TranslationSound)' BY <1>1, CallKeeps
<1>16. CallSpan'
  <2>1. CallSpan BY DEF MemInv
  <2>2. call'.next \in base .. call'.end BY <1>4, <1>5, <1>8
  <2>3. \A l : NumPages(live[l])' = NumPages(live[l]) BY <1>12 DEF NumPages, Pages, Page
  <2> QED BY <2>1, <2>2, <2>3, <1>1, <1>2, <1>4, <1>8, <1>10, <1>11, <1>12 DEF CallSpan, Span
<1>17. \A i \in base .. call.next - 1 : pgt'[i] = Page(call.b.va) + i - base
  BY <1>1, <1>4, <1>7 DEF Written, CallPage
<1>18. CommandInv'
  <2>1. n \in 1 .. call'.next - base /\ call'.next - n = call.next
    <3>1. call'.next = call.next + n /\ call.next \in Nat /\ base <= call.next BY <1>2, <1>4, <1>8
    <3> QED BY <3>1, <1>4, <1>5
  <2>2. cmd' = [op |-> "pgt", index |-> call'.next - n, count |-> n] BY <2>1, <1>6
  <2>3. \A i \in 1 .. n : buf'[i] = Page(call.b.va) + (call'.next - n + i - 1) - base
    <3> SUFFICES ASSUME NEW i \in 1 .. n
                 PROVE  buf'[i] = Page(call.b.va) + (call'.next - n + i - 1) - base
      OBVIOUS
    <3>1. buf'[i] = Page(call.b.va) + (call.next - base) + i - 1 BY <1>6
    <3> QED BY <3>1, <2>1, <1>2, <1>3, <1>4
  <2>4. \A i \in base .. (call'.next - n) - 1 : pgt'[i] = Page(call.b.va) + i - base
    BY <2>1, <1>17
  <2>5. MttWritten' BY <1>1, <1>4, <1>7, <1>8, <1>11 DEF MttWritten
  <2>6. Queued(n)' BY <2>2, <2>3, <2>4, <1>10, <1>11 DEF Queued, CallPage, Written
  <2> QED BY <2>1, <2>5, <2>6, <1>1, <1>7, <1>8, <1>9, <1>11, ZenonT(60) DEF CommandInv
<1> QED BY <1>13, <1>14, <1>15, <1>16, <1>18 DEF MemInv

LEMMA RegReturnsStep ==
    ASSUME MemInv, RegReturns
    PROVE  MemInv'
<1>1. /\ call.step = "pgt" /\ call.next = call.end /\ resp
      /\ live' = Put(live, call.key, call.b) /\ call' = NoCall /\ resp' = FALSE
      /\ UNCHANGED <<load, build, freeKeys, pgtUsed, mrkeyMap, vaRange, regions, pinned, panicked,
                     buf, cmd, card, mrTable, pgt>>
  BY DEF RegReturns, cardVars
<1>2. InCall /\ call.key \in Keys /\ call.b \in load.bufs /\ call.next \in Nat /\ call.end \in Nat
  BY <1>1, CallFacts DEF MemInv
<1>3. /\ NumPages(call.b) \in Nat \ {0} /\ Page(call.b.va) \in Nat
      /\ Pages(call.b) = Page(call.b.va) .. Page(call.b.va) + NumPages(call.b) - 1
  BY <1>2, BufferFacts DEF MemInv
<1>4. PICK k \in Keys, b \in load.bufs : k = call.key /\ b = call.b BY <1>2
<1>5. /\ DOMAIN live' = DOMAIN live \cup {k} /\ live'[k] = b
      /\ \A l \in DOMAIN live : l # k => live'[l] = live[l]
  BY <1>1, <1>4 DEF Put
<1>6. cmd = NoCmd /\ card = <<>> /\ MttWritten /\ Written(call.next)
  BY <1>1, <1>2 DEF MemInv, CommandInv
<1>7. ~InCall' BY <1>1 DEF InCall
<1>8. k \notin DOMAIN live /\ \A i \in DOMAIN freeKeys : freeKeys[i] # k
  BY <1>2, <1>4 DEF MemInv, KeysApart
<1>9. MemTypeOK' BY <1>1, <1>4, <1>5, ZenonT(60) DEF MemInv, MemTypeOK
<1>10. KeysApart' BY <1>1, <1>5, <1>7, <1>8 DEF MemInv, KeysApart
<1>11. /\ CallBase \in Nat /\ mrTable[k].base = CallBase /\ mrTable[k].va = b.va
       /\ CallBase + NumPages(b) = call.end
  BY <1>2, <1>3, <1>4, <1>6 DEF MttWritten, CallBase, MemInv, CallSpan
<1>12. SpansApart'
  <2>1. /\ Span(mrTable[k].base, NumPages(b)) \subseteq pgtUsed
        /\ \A l \in DOMAIN live :
             Span(mrTable[k].base, NumPages(b)) \cap Span(mrTable[l].base, NumPages(live[l])) = {}
        /\ k \in DOMAIN mrkeyMap =>
             mrkeyMap[k].index = mrTable[k].base /\ mrkeyMap[k].count = NumPages(b)
    BY <1>2, <1>4, <1>11, Zenon DEF MemInv, CallSpan
  <2>2. SpansApart BY DEF MemInv
  <2>3. ASSUME NEW l \in DOMAIN live'
        PROVE  (l = k /\ live'[l] = b) \/ (l # k /\ l \in DOMAIN live /\ live'[l] = live[l])
    BY <1>5, Zenon
  <2>4. \A l \in DOMAIN live' : Span(mrTable[l].base, NumPages(live'[l])) \subseteq pgtUsed
    BY <2>1, <2>2, <2>3, ZenonT(30) DEF SpansApart
  <2>5. ASSUME NEW l \in DOMAIN live', NEW m \in DOMAIN live', l # m
        PROVE  Span(mrTable[l].base, NumPages(live'[l]))
                 \cap Span(mrTable[m].base, NumPages(live'[m])) = {}
    <3>1. CASE l = k BY <3>1, <2>1, <2>3, <2>5, Zenon
    <3>2. CASE m = k
      <4>1. Span(mrTable[m].base, NumPages(live'[m]))
              \cap Span(mrTable[l].base, NumPages(live'[l])) = {}
        BY <3>2, <2>1, <2>3, <2>5, Zenon
      <4> QED BY <4>1
    <3>3. CASE l # k /\ m # k BY <3>3, <2>2, <2>3, <2>5, Zenon DEF SpansApart
    <3> QED BY <3>1, <3>2, <3>3
  <2>6. \A l \in DOMAIN live' \cap DOMAIN mrkeyMap :
          mrkeyMap[l].index = mrTable[l].base /\ mrkeyMap[l].count = NumPages(live'[l])
    BY <2>1, <2>2, <2>3, Zenon DEF SpansApart
  <2>7. UNCHANGED <<mrTable, mrkeyMap, pgtUsed>> BY <1>1
  <2> QED BY <2>4, <2>5, <2>6, <2>7, Zenon DEF SpansApart
<1>13. TranslationSound'
  <2> SUFFICES ASSUME NEW l \in DOMAIN live', NEW p \in Pages(live'[l])
               PROVE  mrTable[l].va = live'[l].va
                      /\ pgt[mrTable[l].base + p - Page(mrTable[l].va)] = p
    BY <1>1, ZenonT(60) DEF TranslationSound, Translate
  <2>1. CASE l # k
    BY <2>1, <1>5 DEF MemInv, TranslationSound, Translate
  <2>2. CASE l = k
    <3>1. p \in Page(b.va) .. Page(b.va) + NumPages(b) - 1 BY <2>2, <1>3, <1>4, <1>5
    <3>2. CallBase + p - Page(b.va) \in CallBase .. call.next - 1
      BY <3>1, <1>1, <1>3, <1>4, <1>11
    <3>3. pgt[CallBase + p - Page(b.va)] = Page(b.va) + (CallBase + p - Page(b.va)) - CallBase
      BY <3>2, <1>4, <1>6, Zenon DEF Written, CallPage
    <3>4. p \in Int BY <3>1, <1>3, <1>4
    <3> QED BY <3>3, <3>4, <2>2, <1>3, <1>4, <1>5, <1>11
  <2> QED BY <2>1, <2>2
<1>14. CallSpan' /\ CommandInv'
  <2>1. cmd' = NoCmd /\ card' = <<>> /\ ~resp' BY <1>1, <1>6, Zenon
  <2> QED BY <2>1, <1>7, Zenon DEF CallSpan, CommandInv
<1> QED BY <1>9, <1>10, <1>12, <1>13, <1>14 DEF MemInv

LEMMA DeregMrStep ==
    ASSUME MemInv, NEW k \in Keys, DeregMr(k)
    PROVE  MemInv'
<1>1. /\ call = NoCall /\ k \in DOMAIN live /\ k \in DOMAIN mrkeyMap
      /\ freeKeys' = Append(freeKeys, k)
      /\ pgtUsed' = pgtUsed \ (mrkeyMap[k].index .. mrkeyMap[k].index + mrkeyMap[k].count - 1)
      /\ mrkeyMap' = Drop(mrkeyMap, k) /\ vaRange' = Drop(vaRange, k)
      /\ regions' \subseteq regions /\ live' = Drop(live, k)
      /\ UNCHANGED <<load, build, panicked, call, buf, cmd, resp, card, mrTable, pgt>>
  BY ZenonT(60) DEF DeregMr, cardVars
<1>2. /\ DOMAIN live' = DOMAIN live \ {k} /\ \A l \in DOMAIN live' : live'[l] = live[l]
      /\ DOMAIN mrkeyMap' = DOMAIN mrkeyMap \ {k} /\ DOMAIN vaRange' = DOMAIN vaRange \ {k}
      /\ \A l \in DOMAIN mrkeyMap' : mrkeyMap'[l] = mrkeyMap[l]
  BY <1>1, ZenonT(60) DEF Drop
<1>3. pgtUsed' = pgtUsed \ Span(mrTable[k].base, NumPages(live[k]))
  BY <1>1, ZenonT(60) DEF MemInv, SpansApart, Span
<1>4. ~InCall /\ ~InCall' BY <1>1, ZenonT(60) DEF InCall
<1>5. freeKeys \in Seq(Keys) BY ZenonT(60) DEF MemInv, MemTypeOK
<1>6. MemTypeOK'
  <2>1. freeKeys' \in Seq(Keys) BY <1>1, <1>5
  <2>2. pgtUsed' \subseteq Entries BY <1>3 DEF MemInv, MemTypeOK
  <2>3. UNCHANGED <<load, call, panicked, mrTable, pgt, resp>> BY <1>1
  <2> QED BY <1>1, <1>2, <2>1, <2>2, <2>3, ZenonT(60) DEF MemInv, MemTypeOK
<1>7. KeysApart'
  <2>1. /\ DOMAIN freeKeys' = 1 .. Len(freeKeys) + 1 /\ DOMAIN freeKeys = 1 .. Len(freeKeys)
        /\ Len(freeKeys) \in Nat /\ freeKeys'[Len(freeKeys) + 1] = k
        /\ \A i \in DOMAIN freeKeys : freeKeys'[i] = freeKeys[i]
    BY <1>1, <1>5
  <2>2. /\ \A i, j \in DOMAIN freeKeys : freeKeys[i] = freeKeys[j] => i = j
        /\ \A i \in DOMAIN freeKeys : freeKeys[i] \notin DOMAIN live \cup DOMAIN mrkeyMap
        /\ \A i \in DOMAIN freeKeys : freeKeys[i] # k
    BY <1>1 DEF MemInv, KeysApart
  <2>3. \A i \in DOMAIN freeKeys' : i \in DOMAIN freeKeys \/ i = Len(freeKeys) + 1 BY <2>1
  <2>4. \A i, j \in DOMAIN freeKeys' : freeKeys'[i] = freeKeys'[j] => i = j
    BY <2>1, <2>2, <2>3, Zenon
  <2>5. \A i \in DOMAIN freeKeys' : freeKeys'[i] \notin DOMAIN live' \cup DOMAIN mrkeyMap'
    BY <2>1, <2>2, <2>3, <1>2, ZenonT(30)
  <2> QED BY <2>4, <2>5, <1>4 DEF KeysApart
<1>8. SpansApart'
  <2> DEFINE S(l) == Span(mrTable[l].base, NumPages(live[l]))
  <2>1. /\ \A l \in DOMAIN live : S(l) \subseteq pgtUsed
        /\ \A l, m \in DOMAIN live : l # m => S(l) \cap S(m) = {}
        /\ pgtUsed' = pgtUsed \ S(k)
    BY <1>3 DEF MemInv, SpansApart
  <2>2. \A l \in DOMAIN live' : l \in DOMAIN live /\ l # k /\ S(l)' = S(l) BY <1>1, <1>2
  <2> HIDE DEF S
  <2>3. \A l \in DOMAIN live' : S(l)' \subseteq pgtUsed' BY <2>1, <2>2, <1>1
  <2>4. \A l, m \in DOMAIN live' : l # m => S(l)' \cap S(m)' = {} BY <2>1, <2>2
  <2>5. \A l \in DOMAIN live' \cap DOMAIN mrkeyMap' :
          mrkeyMap'[l].index = mrTable'[l].base /\ mrkeyMap'[l].count = NumPages(live'[l])
    BY <1>1, <1>2 DEF MemInv, SpansApart
  <2> QED BY <2>3, <2>4, <2>5 DEF SpansApart, S
<1>9. TranslationSound' BY <1>1, <1>2, TranslationKeeps, Zenon
<1>10. (CallSpan /\ CommandInv)' BY <1>1, <1>4, Zenon DEF MemInv, CallSpan, CommandInv
<1> QED BY <1>6, <1>7, <1>8, <1>9, <1>10 DEF MemInv

----------------------------------------------------------------------------
(* The card *)

\* A step of the card leaves the driver's state alone.
LEMMA CardKeeps ==
    ASSUME MemInv, UNCHANGED <<hostVars, call>>,
           mrTable' \in [Keys -> [va : Nat, base : Nat]], pgt' \in [Entries -> Int],
           resp' \in BOOLEAN, card' \in Seq([index : Int, page : Int])
    PROVE  /\ (MemTypeOK /\ KeysApart)' /\ InCall' = InCall
           /\ CallBase' = CallBase /\ NumPages(call.b)' = NumPages(call.b)
           /\ UNCHANGED <<load, pgtUsed, mrkeyMap, live>>
           /\ \A i : CallPage(i)' = CallPage(i)
<1>1. UNCHANGED <<load, build, freeKeys, pgtUsed, mrkeyMap, vaRange, regions, pinned, live, panicked, call>>
  BY DEF hostVars
<1>2. MemTypeOK' BY <1>1, ZenonT(60) DEF MemInv, MemTypeOK
<1>3. KeysApart' /\ InCall' = InCall BY <1>1 DEF MemInv, KeysApart, InCall
<1>4. CallBase' = CallBase /\ NumPages(call.b)' = NumPages(call.b) BY <1>1 DEF CallBase
<1>5. \A i : CallPage(i)' = CallPage(i) BY <1>1, <1>4 DEF CallPage
<1> QED BY <1>1, <1>2, <1>3, <1>4, <1>5

\* The table entry of a key that is being registered is not that of a live region.
LEMMA UpdateMrTableStep ==
    ASSUME MemInv, UpdateMrTable
    PROVE  MemInv'
<1>1. /\ cmd.op = "mtt" /\ card = <<>>
      /\ mrTable' = [mrTable EXCEPT ![cmd.key] = [va |-> cmd.va, base |-> cmd.base]]
      /\ cmd' = NoCmd /\ resp' = TRUE /\ UNCHANGED <<hostVars, call, buf, card, pgt>>
  BY DEF UpdateMrTable
<1>2. InCall
  <2>1. cmd # NoCmd BY <1>1 DEF NoCmd
  <2> QED BY <2>1 DEF MemInv, CommandInv
<1>3. /\ call \in [step : {"mtt", "pgt"}, key : Keys, b : load.bufs, next : Nat, end : Nat]
  BY <1>2 DEF MemInv, MemTypeOK, InCall
<1>4. call.step = "mtt"
  <2>1. cmd # NoCmd /\ \A n : ~Queued(n) BY <1>1 DEF NoCmd, Queued
  <2> QED BY <2>1, <1>2, <1>3 DEF MemInv, CommandInv
<1>5. PICK k \in Keys, b \in load.bufs, base \in Nat :
        /\ k = call.key /\ b = call.b /\ base = CallBase
        /\ cmd = [op |-> "mtt", key |-> k, va |-> b.va, base |-> base] /\ call.next = base
  <2>1. cmd # NoCmd BY <1>1 DEF NoCmd
  <2> QED BY <2>1, <1>2, <1>3, <1>4, ZenonT(60) DEF MemInv, CommandInv, CallSpan
<1>6. b.va \in Nat BY BufferFacts, ZenonT(60) DEF MemInv, Buffer
<1>7. mrTable \in [Keys -> [va : Nat, base : Nat]] /\ pgt \in [Entries -> Int] BY DEF MemInv, MemTypeOK
<1>8. /\ mrTable' \in [Keys -> [va : Nat, base : Nat]] /\ pgt' \in [Entries -> Int] /\ resp' \in BOOLEAN
      /\ mrTable'[k].va = b.va /\ mrTable'[k].base = base
      /\ \A l \in Keys : l # k => mrTable'[l] = mrTable[l]
  BY <1>1, <1>5, <1>6, <1>7
<1>9. /\ (MemTypeOK /\ KeysApart)' /\ InCall' = InCall
      /\ CallBase' = CallBase /\ NumPages(call.b)' = NumPages(call.b)
      /\ UNCHANGED <<load, pgtUsed, mrkeyMap, live>>
  <2>1. card' \in Seq([index : Int, page : Int]) BY <1>1 DEF MemInv, MemTypeOK
  <2> QED BY <2>1, <1>1, <1>8, CardKeeps
<1>10. \A l \in DOMAIN live : l \in Keys /\ l # k /\ mrTable'[l] = mrTable[l]
  BY <1>2, <1>5, <1>8 DEF MemInv, KeysApart, MemTypeOK
<1>11. (SpansApart /\ TranslationSound)'
  <2>1. SpansApart' BY <1>9, <1>10, ZenonT(60) DEF MemInv, SpansApart
  <2>2. TranslationSound' BY <1>1, <1>9, <1>10, TranslationKeeps, Zenon
  <2> QED BY <2>1, <2>2
<1>12. CallSpan' BY <1>1, <1>2, <1>9, <1>10, ZenonT(60) DEF MemInv, CallSpan
<1>13. CommandInv' BY <1>1, <1>2, <1>4, <1>5, <1>8, <1>9, ZenonT(60) DEF CommandInv, MttWritten
<1> QED BY <1>9, <1>11, <1>12, <1>13 DEF MemInv

LEMMA ReadBurstStep ==
    ASSUME MemInv, ReadBurst
    PROVE  MemInv'
<1>1. /\ cmd.op = "pgt" /\ card = <<>>
      /\ card' = [i \in 1 .. cmd.count |-> [index |-> cmd.index + i - 1, page |-> buf[i]]]
      /\ cmd' = NoCmd /\ UNCHANGED <<hostVars, call, buf, resp, mrTable, pgt>>
  BY DEF ReadBurst
<1>2. InCall
  <2>1. cmd # NoCmd BY <1>1 DEF NoCmd
  <2> QED BY <2>1 DEF MemInv, CommandInv
<1>3. call \in [step : {"mtt", "pgt"}, key : Keys, b : load.bufs, next : Nat, end : Nat]
  BY <1>2 DEF MemInv, MemTypeOK, InCall
<1>4. cmd # NoCmd BY <1>1 DEF NoCmd
<1>5. call.step = "pgt" BY <1>1, <1>2, <1>3, <1>4 DEF MemInv, CommandInv
<1>6. PICK n \in 1 .. call.next - CallBase : ~resp /\ MttWritten /\ Queued(n)
  BY <1>2, <1>4, <1>5 DEF MemInv, CommandInv
<1>12. PICK x \in Nat : x = call.next - n /\ n \in Nat BY <1>2, <1>3, <1>6 DEF MemInv, CallSpan
<1>13. \A i \in 1 .. n : CallPage(x + i - 1) \in Int
  <2>1. Page(call.b.va) \in Nat /\ CallBase \in Nat
    BY <1>2, <1>3, BufferFacts, ZenonT(60) DEF MemInv, CallSpan
  <2> QED BY <2>1, <1>12 DEF CallPage
<1>14. /\ card' \in Seq([index : Int, page : Int]) /\ Len(card') = n
       /\ \A i \in 1 .. n : card'[i].index = x + i - 1 /\ card'[i].page = CallPage(x + i - 1)
  <2>1. cmd.count = n /\ cmd.index = x BY <1>6, <1>12 DEF Queued
  <2>2. \A i \in 1 .. n : buf[i] = CallPage(x + i - 1) BY <1>6, <1>12 DEF Queued
  <2>3. card' = [i \in 1 .. n |-> [index |-> x + i - 1, page |-> buf[i]]] BY <2>1, <1>1
  <2>4. \A i \in 1 .. n : [index |-> x + i - 1, page |-> buf[i]] \in [index : Int, page : Int]
    BY <2>2, <1>12, <1>13
  <2>5. card' \in Seq([index : Int, page : Int]) /\ Len(card') = n
    <3> DEFINE T == [index : Int, page : Int]
               elt(i) == [index |-> x + i - 1, page |-> buf[i]]
    <3>1. card' = [i \in 1 .. n |-> elt(i)] /\ \A i \in 1 .. n : elt(i) \in T BY <2>3, <2>4
    <3> HIDE DEF T, elt
    <3>2. card' \in [1 .. n -> T] BY <3>1
    <3>3. card' \in Seq(T) /\ Len(card') = n BY <3>2, <1>12
    <3> QED BY <3>3 DEF T
  <2> QED BY <2>2, <2>3, <2>5
<1>7. /\ (MemTypeOK /\ KeysApart)' /\ InCall' = InCall
      /\ CallBase' = CallBase /\ NumPages(call.b)' = NumPages(call.b)
      /\ UNCHANGED <<load, pgtUsed, mrkeyMap, live>>
      /\ \A i : CallPage(i)' = CallPage(i)
  <2>1. /\ mrTable' \in [Keys -> [va : Nat, base : Nat]] /\ pgt' \in [Entries -> Int] /\ resp' \in BOOLEAN
    BY <1>1, ZenonT(60) DEF MemInv, MemTypeOK
  <2> QED BY <2>1, <1>1, <1>14, CardKeeps
<1>8. Fetched(n)'
  <2>1. Written(call.next - n) BY <1>6 DEF Queued
  <2> QED BY <2>1, <1>1, <1>7, <1>12, <1>14, ZenonT(60) DEF Fetched, Written
<1>9. (SpansApart /\ TranslationSound)' BY <1>1, CallKeeps
<1>10. CallSpan' BY <1>1, <1>2, <1>7, Zenon DEF MemInv, CallSpan
<1>11. CommandInv' BY <1>1, <1>2, <1>5, <1>6, <1>7, <1>8, Zenon DEF CommandInv, MttWritten
<1> QED BY <1>7, <1>9, <1>10, <1>11, ZenonT(60) DEF MemInv

\* The entries a command writes are those of the region being registered.
LEMMA WritePteStep ==
    ASSUME MemInv, WritePte
    PROVE  MemInv'
<1>1. /\ card # <<>> /\ pgt' = [pgt EXCEPT ![Head(card).index] = Head(card).page]
      /\ card' = Tail(card) /\ resp' = (Len(card) = 1)
      /\ UNCHANGED <<hostVars, call, buf, cmd, mrTable>>
  BY DEF WritePte
<1>2. InCall BY <1>1 DEF MemInv, CommandInv
<1>3. call \in [step : {"mtt", "pgt"}, key : Keys, b : load.bufs, next : Nat, end : Nat]
  BY <1>2 DEF MemInv, MemTypeOK, InCall
<1>4. call.step = "pgt" BY <1>1, <1>2, <1>3, ZenonT(60) DEF MemInv, CommandInv
<1>5. PICK n \in 1 .. call.next - CallBase : cmd = NoCmd /\ MttWritten /\ Fetched(n)
  BY <1>1, <1>2, <1>4 DEF MemInv, CommandInv
<1>6. PICK base \in Nat : base = CallBase /\ call.next \in base .. call.end
  BY <1>2, Zenon DEF MemInv, CallSpan
<1>7. PICK x \in Nat : x = call.next - n /\ x >= base /\ x < call.end /\ n \in Nat \ {0}
  BY <1>3, <1>5, <1>6
<1>8. NumPages(call.b) \in Nat \ {0} /\ Page(call.b.va) \in Nat
  BY <1>3, BufferFacts DEF MemInv
<1>9. /\ x \in Span(base, NumPages(call.b)) /\ x \in Entries
      /\ \A l \in DOMAIN live : x \notin Span(mrTable[l].base, NumPages(live[l]))
  <2>1. x \in Span(base, NumPages(call.b)) BY <1>3, <1>6, <1>7, <1>8 DEF Span, CallBase
  <2> QED BY <2>1, <1>2, <1>6 DEF MemInv, CallSpan, MemTypeOK
<1>10. \A i : CallPage(i) = Page(call.b.va) + i - base BY <1>6 DEF CallPage
<1>11. /\ card \in Seq([index : Int, page : Int]) /\ Len(card) = n
       /\ \A i \in 1 .. n : /\ card[i].index = x + i - 1
                             /\ card[i].page = Page(call.b.va) + (x + i - 1) - base
  BY <1>5, <1>7, <1>10, ZenonT(60) DEF Fetched, MemInv, MemTypeOK
<1>12. /\ Head(card).index = x /\ Head(card).page = Page(call.b.va) + x - base
       /\ Tail(card) \in Seq([index : Int, page : Int]) /\ Len(Tail(card)) = n - 1
       /\ \A i \in 1 .. n - 1 : /\ Tail(card)[i].index = (x + 1) + i - 1
                                 /\ Tail(card)[i].page = Page(call.b.va) + ((x + 1) + i - 1) - base
  <2>1. Head(card) = card[1] /\ 1 \in 1 .. n /\ x + 1 - 1 = x BY <1>1, <1>7, <1>11
  <2>2. /\ Tail(card) \in Seq([index : Int, page : Int]) /\ Len(Tail(card)) = n - 1
        /\ \A i \in 1 .. n - 1 : Tail(card)[i] = card[i + 1]
    BY <1>1, <1>7, <1>11
  <2>3. \A i \in 1 .. n - 1 : i + 1 \in 1 .. n /\ x + (i + 1) - 1 = (x + 1) + i - 1 BY <1>7
  <2> QED BY <2>1, <2>2, <2>3, <1>11, ZenonT(60)
<1>13. pgt \in [Entries -> Int] BY DEF MemInv, MemTypeOK
<1>14. /\ pgt' \in [Entries -> Int] /\ pgt'[x] = Page(call.b.va) + x - base
       /\ \A i \in Entries : i # x => pgt'[i] = pgt[i]
  <2>1. PICK v \in Int : v = Page(call.b.va) + x - base BY <1>6, <1>7, <1>8
  <2>2. pgt' = [pgt EXCEPT ![x] = v] BY <2>1, <1>1, <1>12, ZenonT(60)
  <2> QED BY <2>1, <2>2, <1>9, <1>13
<1>15. /\ (MemTypeOK /\ KeysApart)' /\ InCall' = InCall
       /\ CallBase' = CallBase /\ NumPages(call.b)' = NumPages(call.b)
       /\ UNCHANGED <<load, pgtUsed, mrkeyMap, live>>
       /\ \A i : CallPage(i)' = CallPage(i)
  <2>1. mrTable' \in [Keys -> [va : Nat, base : Nat]] /\ resp' \in BOOLEAN
    BY <1>1 DEF MemInv, MemTypeOK
  <2>2. card' \in Seq([index : Int, page : Int]) BY <1>1, <1>12
  <2> QED BY <2>1, <2>2, <1>1, <1>14, CardKeeps
<1>16. SpansApart' /\ CallSpan'
  <2>1. SpansApart' BY <1>1, <1>15, ZenonT(60) DEF MemInv, SpansApart
  <2>2. CallSpan' BY <1>1, <1>2, <1>15, ZenonT(60) DEF MemInv, CallSpan
  <2> QED BY <2>1, <2>2
<1>17. TranslationSound'
  <2> SUFFICES ASSUME NEW l \in DOMAIN live, NEW p \in Pages(live[l])
               PROVE  mrTable[l].va = live[l].va
                      /\ pgt'[mrTable[l].base + p - Page(mrTable[l].va)] = p
    BY <1>1, <1>15 DEF TranslationSound, Translate
  <2> DEFINE y == mrTable[l].base + p - Page(live[l].va)
  <2>1. live[l] \in load.bufs /\ l \in Keys /\ mrTable[l].base \in Nat BY DEF MemInv, MemTypeOK
  <2>2. /\ Page(live[l].va) \in Nat /\ NumPages(live[l]) \in Nat \ {0}
        /\ Pages(live[l]) = Page(live[l].va) .. Page(live[l].va) + NumPages(live[l]) - 1
    BY <2>1, BufferFacts DEF MemInv
  <2>3. y \in Span(mrTable[l].base, NumPages(live[l])) BY <2>1, <2>2 DEF Span
  <2>4. y \in Entries BY <2>3, ZenonT(60) DEF MemInv, SpansApart, MemTypeOK
  <2>5. y # x BY <2>3, <1>9, ZenonT(60)
  <2>6. mrTable[l].va = live[l].va /\ pgt[y] = p BY Zenon DEF MemInv, TranslationSound, Translate
  <2> QED BY <2>4, <2>5, <2>6, <1>14, ZenonT(60)
<1>18. \A i \in base .. x : pgt'[i] = Page(call.b.va) + i - base
  <2>1. \A i \in base .. x - 1 : pgt[i] = Page(call.b.va) + i - base
    BY <1>5, <1>6, <1>7, <1>10, Zenon DEF Fetched, Written
  <2>2. \A i \in base .. x : i = x \/ i \in base .. x - 1 BY <1>6, <1>7
  <2>3. \A i \in base .. x - 1 : i \in Entries /\ i # x BY <1>6, <1>7, <1>9, MemoryAssumption DEF Entries
  <2> QED BY <2>1, <2>2, <2>3, <1>14
<1>19. call' = call BY <1>1
<1>20. MttWritten' BY <1>1, <1>5, <1>15 DEF MttWritten
<1>21. CommandInv'
  <2>1. CASE n = 1
    <3>1. resp' = TRUE /\ card' = <<>>
      <4> DEFINE T == [index : Int, page : Int]
      <4>1. card' \in Seq(T) /\ Len(card') = 0 BY <2>1, <1>1, <1>12
      <4> HIDE DEF T
      <4>2. card' = <<>> BY <4>1
      <4> QED BY <4>2, <2>1, <1>1, <1>11, ZenonT(60)
    <3>2. Written(call.next)' BY <2>1, <1>6, <1>7, <1>10, <1>15, <1>18, <1>19 DEF Written
    <3> QED BY <3>1, <3>2, <1>1, <1>2, <1>4, <1>5, <1>15, <1>19, <1>20 DEF CommandInv
  <2>2. CASE n # 1
    <3>1. PICK m \in 1 .. call.next - CallBase : m = n - 1 /\ call.next - m = x + 1
      BY <2>2, <1>3, <1>5, <1>6, <1>7
    <3>2. resp' = FALSE BY <2>2, <1>1, <1>11, ZenonT(60)
    <3>3. Written(x + 1)' BY <1>6, <1>7, <1>10, <1>15, <1>18 DEF Written
    <3>4. /\ Len(card') = m
          /\ \A i \in 1 .. m : /\ card'[i].index = (x + 1) + i - 1
                                /\ card'[i].page = CallPage((x + 1) + i - 1)
      BY <3>1, <1>1, <1>10, <1>12, ZenonT(60)
    <3>5. Fetched(m)' BY <3>1, <3>3, <3>4, <1>15, <1>19, ZenonT(30) DEF Fetched
    <3> QED BY <3>1, <3>2, <3>5, <1>1, <1>2, <1>4, <1>5, <1>15, <1>19, <1>20 DEF CommandInv
  <2> QED BY <2>1, <2>2
<1> QED BY <1>15, <1>16, <1>17, <1>21 DEF MemInv

LEMMA MemStepInv ==
    ASSUME MemInv, MemNext
    PROVE  MemInv'
BY RegNoRoomStep, RegPanicsStep, RegMrStep, DeregMrStep, WaitStep, RegReturnsStep,
   UpdateMrTableStep, ReadBurstStep, WritePteStep
   DEF MemNext, CallStep, CardStep

=============================================================================
