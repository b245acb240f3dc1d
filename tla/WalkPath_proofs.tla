---------------------------- MODULE WalkPath_proofs -------------------------
(***************************************************************************)
(* Theorems about translation, for every size of the TLB, every set of     *)
(* pages and frames, and any page tables that lie in memory, with flushes, *)
(* writes of CR3 and changes of PG in any cycle.  What depends on what the *)
(* walker has read holds until the walker takes the acknowledge of a       *)
(* request that a flush has cancelled (misled); what does not, types,      *)
(* unique matches and the core's context, holds always.                    *)
(***************************************************************************)
EXTENDS WalkPath, FiniteSetTheorems, WellFoundedInduction, TLAPS

(***************************************************************************)
(* The TLB                                                                 *)
(***************************************************************************)
LEMMA NoneIsNoSlot == None \notin Slot
BY PageNoneAssumption DEF Slot

\* The slot of a fill is the matching one, when there is one.
LEMMA FillInPlace ==
  ASSUME UniqueMatch, NEW vpn, NEW j \in Matches(vpn)
  PROVE  FillSlot(vpn) = j
<1>1. Matches(vpn) = {j}
  BY DEF UniqueMatch, Matches
<1>2. j \in Nat
  BY DEF Matches, Slot
<1>3. Lowest({j}) = j
  BY <1>2 DEF Lowest
<1> QED  BY <1>1, <1>3 DEF FillSlot

\* No clock edge of the TLB makes two valid entries translate one page,
\* whatever its inputs: a fill goes to the entry of its page if there is one,
\* and nothing else makes an entry valid.
LEMMA UniqueMatchStep ==
  ASSUME UniqueMatch,
         NEW lookup, NEW fill, NEW invlpg, NEW flush_all,
         TlbClock(lookup, fill, invlpg, flush_all)
  PROVE  UniqueMatch'
<1> SUFFICES ASSUME NEW i \in Slot, NEW j \in Slot, i # j,
                    entry_valid'[i], entry_valid'[j], entry'[i].vpn = entry'[j].vpn
             PROVE  FALSE
  BY DEF UniqueMatch
<1> DEFINE slot == IF fill = None THEN None ELSE FillSlot(fill.vpn)
<1>1. /\ entry' = [k \in Slot |-> IF k = slot THEN fill ELSE entry[k]]
      /\ entry_valid' =
           [k \in Slot |-> (entry_valid[k] \/ k = slot) /\ k \notin Dropped(invlpg, flush_all)]
  BY DEF TlbClock
<1>2. \A k \in Slot : k = slot => fill # None
  BY NoneIsNoSlot
<1>3. ASSUME NEW k \in Slot, NEW m \in Slot, k = slot, m # slot,
             entry_valid'[m], entry'[k].vpn = entry'[m].vpn
      PROVE  FALSE
  <2>1. fill # None /\ k = FillSlot(fill.vpn)
    BY <1>2, <1>3
  <2>2. entry'[k] = fill /\ entry'[m] = entry[m] /\ entry_valid[m]
    BY <1>1, <1>3
  <2>3. m \in Matches(fill.vpn)
    BY <1>3, <2>2 DEF Matches
  <2>4. FillSlot(fill.vpn) = m
    BY <2>3, FillInPlace
  <2> QED  BY <2>1, <2>4, <1>3
<1>4. CASE i = slot
  BY <1>3, <1>4
<1>5. CASE j = slot
  BY <1>3, <1>5
<1>6. CASE i # slot /\ j # slot
  <2>1. entry_valid[i] /\ entry_valid[j] /\ entry[i].vpn = entry[j].vpn
    BY <1>1, <1>6
  <2> QED  BY <2>1 DEF UniqueMatch
<1> QED  BY <1>4, <1>5, <1>6

LEMMA UniqueMatchInit == TlbInit => UniqueMatch
BY DEF TlbInit, UniqueMatch

LEMMA UniqueMatchStutter == UniqueMatch /\ UNCHANGED tlb_vars => UniqueMatch'
BY DEF UniqueMatch, tlb_vars

\* bench/formal/f386_tlb_props.sv asserts this of the TLB with free inputs by
\* bounded model checking; here it is proved for every size and any time.
THEOREM TlbNeverDoublesAPage == TlbSpec => []UniqueMatch
<1>1. UniqueMatch /\ [TlbNext]_tlb_vars => UniqueMatch'
  BY UniqueMatchStep, UniqueMatchStutter DEF TlbNext
<1> QED  BY <1>1, UniqueMatchInit, PTL DEF TlbSpec

(***************************************************************************)
(* The whole path                                                          *)
(***************************************************************************)
\* Every step of the path is one clock edge of everything.
LEMMA NextIsCycle ==
  Next => \E event, req, hold, ifetch, data, busy, deliver :
            Cycle(event, req, hold, ifetch, data, busy, deliver)
BY DEF Next, Run

\* In the core the TLB is driven by the frontend, and the same holds there.
THEOREM UniqueMatchInCore == Spec => []UniqueMatch
<1>1. Init => UniqueMatch
  BY UniqueMatchInit DEF Init
<1>2. UniqueMatch /\ [Next]_vars => UniqueMatch'
  <2> SUFFICES ASSUME UniqueMatch, [Next]_vars PROVE UniqueMatch'
    OBVIOUS
  <2>1. ASSUME NEW event, NEW req, NEW hold, NEW ifetch, NEW data, NEW busy, NEW deliver,
               Cycle(event, req, hold, ifetch, data, busy, deliver)
        PROVE  UniqueMatch'
    <3>1. PICK paging_, flush_all_ : TlbClock(tlb_lookup(paging_), tlb_fill, None, flush_all_)
      BY <2>1 DEF Cycle, DtlbClock
    <3> QED  BY <3>1, UniqueMatchStep
  <2>2. CASE UNCHANGED vars
    BY <2>2, UniqueMatchStutter DEF vars
  <2> QED  BY <2>1, <2>2, NextIsCycle
<1> QED  BY <1>1, <1>2, PTL DEF Spec

\* The context the core keeps is that of the request in the frontend, whatever
\* flushes come and however long the walk takes.
THEOREM ContextCorrect == Spec => []ContextAgrees
<1>1. Init => ContextAgrees
  BY DEF Init, XlInit, ContextAgrees, dtlb_busy
<1>2. ContextAgrees /\ [Next]_vars => ContextAgrees'
  <2> SUFFICES ASSUME ContextAgrees, [Next]_vars PROVE ContextAgrees'
    OBVIOUS
  <2>1. ASSUME NEW event, NEW req, NEW hold, NEW ifetch, NEW data, NEW busy, NEW deliver,
               Cycle(event, req, hold, ifetch, data, busy, deliver)
        PROVE  ContextAgrees'
    <3> DEFINE flush_all == event \in Directory
               flush == event = "mispredict" \/ flush_all \/ paging # paging_prev
    <3>1. XlStep(flush \/ flush_all, req, paging, hold)
      BY <2>1 DEF Cycle, DtlbClock
    <3>2. xlat_ctx' = IF flush THEN None
                      ELSE IF req # None /\ ~dtlb_busy
                      THEN [linear |-> req.vpn, is_store |-> req.write] ELSE xlat_ctx
      BY <2>1 DEF Cycle
    <3>3. CASE flush
      BY <3>1, <3>3 DEF XlStep, XlFlush, ContextAgrees, dtlb_busy
    <3>4. CASE ~flush
      <4>1. CASE AcceptXl(req, paging)
        BY <3>2, <3>4, <4>1 DEF AcceptXl, ContextAgrees, dtlb_busy
      <4>2. CASE Lookup \/ LookedUp \/ Walk \/ Fill \/ Respond(hold)
        <5>1. dtlb_busy /\ xl_req' = xl_req
          BY <4>2 DEF Lookup, LookedUp, Walk, Fill, Respond, dtlb_busy
        <5> QED  BY <3>2, <3>4, <5>1 DEF ContextAgrees
      <4> QED  BY <3>1, <3>4, <4>1, <4>2 DEF XlStep
    <3> QED  BY <3>3, <3>4
  <2>2. CASE UNCHANGED vars
    BY <2>2 DEF vars, xl_vars, core_vars, ContextAgrees, dtlb_busy
  <2> QED  BY <2>1, <2>2, NextIsCycle
<1> QED  BY <1>1, <1>2, PTL DEF Spec

-----------------------------------------------------------------------------
(***************************************************************************)
(* The inductive invariant of translation                                  *)
(*                                                                         *)
(* What memory m says of a page under the directory in frame f, read as    *)
(* the port reads it.  Marks in the tables change none of it but the bits  *)
(* accessed and dirty.                                                     *)
(***************************************************************************)
TabAddr(m, f, vpn) == <<DirEntry(m, f, vpn).base, vpn[2]>>
TabEntry(m, f, vpn) == m[<<DirEntry(m, f, vpn).base, vpn[2] \div 2>>][0]

\* c holds what a TLB entry keeps of the table entry of a page.
Copies(m, f, vpn, c) ==
  LET t == TabEntry(m, f, vpn) IN
  /\ DirEntry(m, f, vpn).present /\ t.present
  /\ c.ppn = t.base /\ c.user = t.user /\ c.writable = t.writable
  /\ t.accessed /\ (c.dirty => t.dirty)

\* The directory has a table, and the table lets an access pass.
DirAllows(m, f, a) == DirEntry(m, f, a.vpn).present
TabAllows(m, f, a) ==
  LET t == TabEntry(m, f, a.vpn) IN
  t.present /\ (a.user => t.user) /\ (a.write => t.writable)

\* What the tables of memory m under frame f say of an access (Translations).
InTable(m, f, a) ==
  LET t == TabEntry(m, f, a.vpn) IN
  IF ~t.present THEN Refused(a, FALSE)
  ELSE IF (a.user /\ ~t.user) \/ (a.write /\ ~t.writable) THEN Refused(a, TRUE)
  ELSE Found(t.base)
Answers(m, f, a) ==
  LET d == DirEntry(m, f, a.vpn) IN
  IF ~d.present THEN {Refused(a, FALSE)}
  ELSE IF a.user /\ ~d.user THEN {Refused(a, TRUE), InTable(m, f, a)}
  ELSE {InTable(m, f, a)}

\* Words of the tables differ in marks only; so do two entries.
Marks(m, n) ==
  \A a \in Addr \ {DataAddr}, h \in 0..1 :
    /\ m[a][h].accessed => n[a][h].accessed
    /\ m[a][h].dirty => n[a][h].dirty
    /\ n[a][h].present = m[a][h].present /\ n[a][h].user = m[a][h].user
    /\ n[a][h].writable = m[a][h].writable /\ n[a][h].base = m[a][h].base
Remarked(old, new) ==
  /\ old.accessed => new.accessed
  /\ old.dirty => new.dirty
  /\ new = [old EXCEPT !.accessed = new.accessed, !.dirty = new.dirty]

(***************************************************************************)
(* What holds whatever the walker has been told: registers hold what their *)
(* reader expects to find there.                                           *)
(***************************************************************************)
Out == [ppn : Frame, dirty : BOOLEAN, user : BOOLEAN, writable : BOOLEAN]

\* The controller has something of the walker's.
ServesWalker == arb_state # "IDLE" /\ arb.source = "pt"

\* The frontend has a request, and paging is on while it looks it up.
SoundRequest ==
  /\ xl_state # "IDLE" => xl_req \in Access
  /\ xl_state \in {"LOOKUP", "WAIT_LOOKUP", "WALK", "FILL"} => paging_prev
  /\ xl_state = "WAIT_LOOKUP" /\ tlb_r # None =>
       /\ tlb_r.write = xl_req.write /\ tlb_r.user = xl_req.user
       /\ tlb_r.slot # None =>
            entry_valid[tlb_r.slot] /\ entry[tlb_r.slot].vpn = xl_req.vpn

\* The walker works for the frontend, and what it hands over can be filled.
InStep ==
  /\ walk_state # "IDLE" => xl_state = "WALK" /\ walk = xl_req /\ walk_req_sent
  /\ walk_done => xl_state = "WALK" /\ walk_req_sent /\ walk_state = "IDLE"
  /\ walk_done /\ walk_fault = None => walk_out \in Out
  /\ xl_state = "FILL" => walk_out \in Out /\ xl_resp = Found(walk_out.ppn)
  /\ \A i \in Slot : entry_valid[i] => entry[i] \in TlbEntry

\* Whoever uses an entry has been given one.
HasRead ==
  /\ walk_state = "PTE_FETCH" => pde # None
  /\ walk_state \in {"PTE_WAIT", "AD_UPDATE", "AD_WAIT"} => pte_addr \in Frame \X Index
  /\ walk_state \in {"AD_UPDATE", "AD_WAIT"} => pte # None
  /\ walk_state \in {"PTE_FETCH", "PTE_WAIT", "AD_UPDATE", "AD_WAIT"} => pt_rdata # None
  /\ pt_mem # None /\ pt_mem.wr => pt_mem.wdata # None /\ pt_rdata # None
  /\ ServesWalker /\ arb.wr => arb.wdata \in PageEntry /\ pt_rdata # None
  /\ pt_ack => pt_rdata # None

\* The controller serves the source its state says; fetch and data stay away
\* from the tables.
SoundBus ==
  /\ arb_state # "IDLE" => arb # None
  /\ arb_state = "PT" => arb.source = "pt"
  /\ arb_state = "DATA" => arb.source = "data"
  /\ arb_state = "IFETCH" => arb.source = "ifetch"
  /\ arb_state = "WAIT" => arb.source = "ifetch" \/ ~arb.wr
  /\ arb_state # "IDLE" /\ arb.source # "pt" =>
       arb.addr = DataAddr /\ (arb.wr => arb.wdata \in Val)
  /\ pt_ack => arb_state = "IDLE"
  /\ ddram_we =>
       /\ arb_state = "IDLE"
       /\ \/ ddram_be = "word" /\ ddram_addr = DataAddr /\ ddram_din \in Val
          \/ ddram_be = "low" /\ ddram_addr \in Addr /\ ddram_din \in PageEntry /\ pt_ack
  /\ ddram_rd => arb_state = "WAIT" /\ ddram_addr = arb.addr /\ rd_pending = None
  /\ rd_pending # None => arb_state = "WAIT" /\ ~ddram_rd /\ rd_pending = arb.addr

TypeInv ==
  WalkTypeOK /\ UniqueMatch /\ SoundRequest /\ InStep /\ HasRead /\ SoundBus

(***************************************************************************)
(* What holds until the walker is misled: it has read what is in memory.   *)
(***************************************************************************)
SoundTables == Mapped(mem)

\* Valid entries are copies of the tables' (TlbAgrees).
SoundTlb ==
  \A i \in Slot : entry_valid[i] => Copies(mem, sys_cr3, entry[i].vpn, entry[i])

\* The walker has found the entry for the request, and marked it.
WalkedWell ==
  Copies(mem, sys_cr3, xl_req.vpn, walk_out) /\ TabAllows(mem, sys_cr3, xl_req)

\* What the frontend gets from the walker, and what it answers, is the translation.
SoundAnswer ==
  /\ walk_done /\ walk_fault # None => Fault(walk_fault) \in Answers(mem, sys_cr3, xl_req)
  /\ walk_done /\ walk_fault = None => WalkedWell
  /\ xl_state = "FILL" => WalkedWell
  /\ xl_state = "RESP" =>
       xl_resp \in IF paging_prev THEN Answers(mem, sys_cr3, xl_req) ELSE {Found(xl_req.vpn)}

\* The walker's copies are those of the tables.
SoundWalker ==
  /\ walk_state \in {"PTE_FETCH", "PTE_WAIT", "AD_UPDATE", "AD_WAIT"} =>
       DirAllows(mem, sys_cr3, walk)
  /\ walk_state = "PTE_FETCH" => pde.base = DirEntry(mem, sys_cr3, walk.vpn).base
  /\ walk_state \in {"PTE_WAIT", "AD_UPDATE", "AD_WAIT"} =>
       pte_addr = TabAddr(mem, sys_cr3, walk.vpn)
  /\ walk_state \in {"AD_UPDATE", "AD_WAIT"} =>
       pte = TabEntry(mem, sys_cr3, walk.vpn) /\ TabAllows(mem, sys_cr3, walk)

\* The request the walker waits for.
Asked ==
  IF walk_state = "PDE_WAIT" THEN ReadFrom(<<sys_cr3, walk.vpn[1]>>)
  ELSE IF walk_state = "PTE_WAIT" THEN ReadFrom(pte_addr)
  ELSE [addr |-> pte_addr, wr |-> TRUE, wdata |-> Marked(pte)]

\* It is on the wire, or with the controller, or answered, or lost.  Beside it there
\* may be one that a flush has cancelled, until the new walk's first answer is
\* due.  Either kind writes nothing but marks.
SoundPort ==
  /\ orphan => Held /\ walk_state \in {"IDLE", "PDE_FETCH", "PDE_WAIT"}
  /\ Held /\ ~orphan => walk_state \in Waiting
  /\ pt_mem # None => walk_state \in Waiting /\ pt_mem = Asked /\ (Held => orphan)
  /\ ServesWalker /\ ~orphan =>
       arb.addr = WordOf(Asked.addr) /\ arb.wr = Asked.wr /\ arb.wdata = Asked.wdata
  /\ ServesWalker /\ arb.wr =>
       arb.addr # DataAddr /\ Remarked(mem[arb.addr][0], arb.wdata)
  /\ pt_ack /\ ~orphan =>
       /\ walk_state # "AD_WAIT" => ~ddram_we /\ pt_rdata = mem[WordOf(Asked.addr)][0]
       /\ walk_state = "AD_WAIT" =>
            /\ ddram_we /\ ddram_be = "low"
            /\ ddram_addr = WordOf(pte_addr) /\ ddram_din = Marked(pte)
  /\ ddram_we /\ ddram_be = "low" =>
       ddram_addr # DataAddr /\ Remarked(mem[ddram_addr][0], ddram_din)

WalkInv ==
  TypeInv /\ SoundTables /\ SoundTlb /\ SoundAnswer /\ SoundWalker /\ SoundPort

PathInv == TypeInv /\ (~misled => WalkInv)

-----------------------------------------------------------------------------
(***************************************************************************)
(* Tables                                                                  *)
(***************************************************************************)
LEMMA Nones ==
  None \notin Val /\ None \notin Addr /\ None \notin Half /\ None \notin PageEntry
    /\ None \notin FaultCode /\ None \notin Vpn /\ None \notin Frame
BY MemNoneAssumption, PageNoneAssumption, FaultAssumption, EntryAssumption

LEMMA WordParts ==
  ASSUME NEW m \in [Addr -> Val], NEW a \in Addr, NEW h \in 0..1
  PROVE  m[a] \in [0..1 -> PageEntry] /\ m[a][h] \in PageEntry
BY EntryAssumption

\* Both indices of a page are natural numbers; every entry is in a word of memory.
LEMMA Indices ==
  ASSUME NEW vpn \in Vpn
  PROVE  /\ vpn[1] \in Index /\ vpn[2] \in Index
         /\ vpn[1] \in Nat /\ vpn[2] \in Nat
         /\ \A f \in Frame : <<f, vpn[1] \div 2>> \in Addr /\ <<f, vpn[2] \div 2>> \in Addr
<1>1. vpn[1] \in Index /\ vpn[2] \in Index
  BY VpnAssumption
<1>2. vpn[1] \in Nat /\ vpn[2] \in Nat
  BY <1>1, IndexAssumption
<1>3. \A f \in Frame, i \in Index : <<f, i \div 2>> \in Addr
  BY FrameAssumption
<1> QED  BY <1>1, <1>2, <1>3

LEMMA WordsOfFrames == \A a \in Frame \X Index : WordOf(a) \in Addr
BY FrameAssumption DEF WordOf

\* The directory's entry is the low half of a word of the tables.
LEMMA DirWord ==
  ASSUME NEW m \in [Addr -> Val], Mapped(m), NEW f \in Directory, NEW vpn \in Vpn
  PROVE  /\ f \in Frame
         /\ WordOf(<<f, vpn[1]>>) = <<f, vpn[1] \div 2>>
         /\ WordOf(<<f, vpn[1]>>) \in Addr \ {DataAddr}
         /\ DirEntry(m, f, vpn) = m[WordOf(<<f, vpn[1]>>)][0]
         /\ DirEntry(m, f, vpn) \in PageEntry
<1>1. f \in Frame
  BY DirectoryAssumption
<1>2. WordOf(<<f, vpn[1]>>) = <<f, vpn[1] \div 2>>
  BY DEF WordOf
<1>3. <<f, vpn[1] \div 2>> \in Addr \ {DataAddr}
  BY <1>1, Indices DEF Mapped
<1>4. DirEntry(m, f, vpn) \in PageEntry
  BY <1>3, WordParts DEF DirEntry
<1> QED  BY <1>1, <1>2, <1>3, <1>4 DEF DirEntry

\* So is the table's, if the directory's is present.
LEMMA TabWord ==
  ASSUME NEW m \in [Addr -> Val], Mapped(m), NEW f \in Directory, NEW vpn \in Vpn,
         DirEntry(m, f, vpn).present
  PROVE  /\ TabAddr(m, f, vpn) \in Frame \X Index
         /\ WordOf(TabAddr(m, f, vpn)) = <<DirEntry(m, f, vpn).base, vpn[2] \div 2>>
         /\ WordOf(TabAddr(m, f, vpn)) \in Addr \ {DataAddr}
         /\ TabEntry(m, f, vpn) = m[WordOf(TabAddr(m, f, vpn))][0]
         /\ TabEntry(m, f, vpn) \in PageEntry
<1> DEFINE b == DirEntry(m, f, vpn).base
<1>1. b \in Frame
  BY DirWord DEF PageEntry
<1>2. TabAddr(m, f, vpn) = <<b, vpn[2]>>
  BY DEF TabAddr
<1>3. WordOf(TabAddr(m, f, vpn)) = <<b, vpn[2] \div 2>>
  BY <1>2 DEF WordOf
<1>4. <<b, vpn[2] \div 2>> \in Addr \ {DataAddr}
  BY <1>1, Indices DEF Mapped
<1>5. TabEntry(m, f, vpn) = m[<<b, vpn[2] \div 2>>][0]
  BY DEF TabEntry
<1> HIDE DEF b
<1>6. TabEntry(m, f, vpn) \in PageEntry
  BY <1>4, <1>5, WordParts
<1>7. TabAddr(m, f, vpn) \in Frame \X Index
  BY <1>1, <1>2, Indices
<1> USE DEF b
<1> QED  BY <1>3, <1>4, <1>5, <1>6, <1>7

\* The entries that are read as a page's are those in its words' low halves.
LEMMA EntriesRead ==
  ASSUME NEW vpn \in Vpn
  PROVE  /\ DirectoryEntry(vpn) = DirEntry(mem, sys_cr3, vpn)
         /\ TableEntry(vpn) = TabEntry(mem, sys_cr3, vpn)
<1>1. \A i \in Nat : (2 * (i \div 2)) \div 2 = i \div 2 /\ (2 * (i \div 2)) % 2 = 0
  OBVIOUS
<1>2. /\ (2 * (vpn[1] \div 2)) \div 2 = vpn[1] \div 2 /\ (2 * (vpn[1] \div 2)) % 2 = 0
      /\ (2 * (vpn[2] \div 2)) \div 2 = vpn[2] \div 2 /\ (2 * (vpn[2] \div 2)) % 2 = 0
  BY <1>1, Indices
<1>3. \A f : /\ Entry(<<f, ReadAs(vpn)[1]>>) = mem[<<f, vpn[1] \div 2>>][0]
             /\ Entry(<<f, ReadAs(vpn)[2]>>) = mem[<<f, vpn[2] \div 2>>][0]
  BY <1>2 DEF Entry, WordOf, ReadAs
<1>4. DirectoryEntry(vpn) = DirEntry(mem, sys_cr3, vpn)
  BY <1>3 DEF DirectoryEntry, DirEntry
<1>5. TableEntry(vpn) = TabEntry(mem, sys_cr3, vpn)
  BY <1>3, <1>4 DEF TableEntry, TabEntry
<1> QED  BY <1>4, <1>5

LEMMA TranslationRead ==
  ASSUME NEW a \in Access
  PROVE  Translations(a) = Answers(mem, sys_cr3, a)
<1>1. a.vpn \in Vpn
  BY DEF Access
<1> QED  BY <1>1, EntriesRead DEF Translations, ByTable, Answers, InTable

\* Marks leave all this as it is.
LEMMA MarksKeepEntries ==
  ASSUME NEW m \in [Addr -> Val], NEW n \in [Addr -> Val], Mapped(m), Marks(m, n),
         NEW f \in Directory, NEW vpn \in Vpn
  PROVE  LET d == DirEntry(m, f, vpn)
             e == DirEntry(n, f, vpn)
             t == TabEntry(m, f, vpn)
             u == TabEntry(n, f, vpn)
         IN  /\ e.present = d.present /\ e.user = d.user /\ e.base = d.base
             /\ d.present =>
                  /\ u.present = t.present /\ u.user = t.user
                  /\ u.writable = t.writable /\ u.base = t.base
                  /\ t.accessed => u.accessed
                  /\ t.dirty => u.dirty
<1> DEFINE d == DirEntry(m, f, vpn)
           e == DirEntry(n, f, vpn)
           t == TabEntry(m, f, vpn)
           u == TabEntry(n, f, vpn)
           w == <<f, vpn[1] \div 2>>
           x == <<d.base, vpn[2] \div 2>>
<1>1. w \in Addr \ {DataAddr} /\ d \in PageEntry
  BY DirWord
<1>2. d = m[w][0] /\ e = n[w][0]
  BY DEF DirEntry
<1>3. e.present = d.present /\ e.user = d.user /\ e.base = d.base
  BY <1>1, <1>2 DEF Marks
<1>4. ASSUME d.present
      PROVE  /\ u.present = t.present /\ u.user = t.user
             /\ u.writable = t.writable /\ u.base = t.base
             /\ t.accessed => u.accessed
             /\ t.dirty => u.dirty
  <2>1. x \in Addr \ {DataAddr}
    BY <1>4, TabWord
  <2>2. t = m[x][0] /\ u = n[x][0]
    BY <1>3 DEF TabEntry
  <2> HIDE DEF x, t, u
  <2> QED  BY <2>1, <2>2 DEF Marks
<1> QED  BY <1>3, <1>4

LEMMA MarksKeep ==
  ASSUME NEW m \in [Addr -> Val], NEW n \in [Addr -> Val], Mapped(m), Marks(m, n)
  PROVE  /\ Mapped(n)
         /\ \A f \in Directory, vpn \in Vpn :
              /\ DirEntry(n, f, vpn).present = DirEntry(m, f, vpn).present
              /\ DirEntry(n, f, vpn).user = DirEntry(m, f, vpn).user
              /\ DirEntry(n, f, vpn).base = DirEntry(m, f, vpn).base
              /\ TabAddr(n, f, vpn) = TabAddr(m, f, vpn)
              /\ \A c : Copies(m, f, vpn, c) => Copies(n, f, vpn, c)
         /\ \A f \in Directory, a \in Access :
              /\ DirAllows(m, f, a) => DirAllows(n, f, a)
              /\ DirAllows(m, f, a) /\ TabAllows(m, f, a) => TabAllows(n, f, a)
              /\ Answers(n, f, a) = Answers(m, f, a)
<1>1. \A f \in Directory, vpn \in Vpn :
        /\ DirEntry(n, f, vpn).present = DirEntry(m, f, vpn).present
        /\ DirEntry(n, f, vpn).user = DirEntry(m, f, vpn).user
        /\ DirEntry(n, f, vpn).base = DirEntry(m, f, vpn).base
  BY MarksKeepEntries
<1>2. Mapped(n)
  BY <1>1 DEF Mapped
<1>3. \A f \in Directory, vpn \in Vpn : TabAddr(n, f, vpn) = TabAddr(m, f, vpn)
  BY <1>1 DEF TabAddr
<1>4. ASSUME NEW f \in Directory, NEW vpn \in Vpn, NEW c, Copies(m, f, vpn, c)
      PROVE  Copies(n, f, vpn, c)
  BY <1>4, MarksKeepEntries DEF Copies
<1>5. ASSUME NEW f \in Directory, NEW a \in Access
      PROVE  /\ DirAllows(m, f, a) => DirAllows(n, f, a)
             /\ DirAllows(m, f, a) /\ TabAllows(m, f, a) => TabAllows(n, f, a)
             /\ Answers(n, f, a) = Answers(m, f, a)
  <2>1. a.vpn \in Vpn
    BY DEF Access
  <2>2. DirAllows(m, f, a) => DirAllows(n, f, a)
    BY <2>1, MarksKeepEntries DEF DirAllows
  <2>3. DirAllows(m, f, a) /\ TabAllows(m, f, a) => TabAllows(n, f, a)
    BY <2>1, MarksKeepEntries DEF DirAllows, TabAllows
  <2>4. Answers(n, f, a) = Answers(m, f, a)
    <3> DEFINE vpn == a.vpn
    <3>1. /\ DirEntry(n, f, vpn).present = DirEntry(m, f, vpn).present
          /\ DirEntry(n, f, vpn).user = DirEntry(m, f, vpn).user
          /\ DirEntry(m, f, vpn).present =>
               /\ TabEntry(n, f, vpn).present = TabEntry(m, f, vpn).present
               /\ TabEntry(n, f, vpn).user = TabEntry(m, f, vpn).user
               /\ TabEntry(n, f, vpn).writable = TabEntry(m, f, vpn).writable
               /\ TabEntry(n, f, vpn).base = TabEntry(m, f, vpn).base
      BY <2>1, MarksKeepEntries
    <3>2. DirEntry(m, f, vpn).present => InTable(n, f, a) = InTable(m, f, a)
      BY <3>1 DEF InTable
    <3> QED  BY <3>1, <3>2 DEF Answers
  <2> QED  BY <2>2, <2>3, <2>4
<1> QED  BY <1>1, <1>2, <1>3, <1>4, <1>5

-----------------------------------------------------------------------------
(***************************************************************************)
(* A clock cycle with its inputs                                           *)
(***************************************************************************)
Flushes(event) == event = "mispredict" \/ event \in Directory \/ paging # paging_prev

Step(event, req, hold, ifetch, data, busy, deliver) ==
  /\ req \in RequestInput(event) /\ hold \in BOOLEAN
  /\ [ifetch |-> ifetch, data |-> data] \in Traffic(busy)
  /\ busy \in BOOLEAN /\ deliver \in BOOLEAN
  /\ Cycle(event, req, hold, ifetch, data, busy, deliver)

LEMMA NextIsStep ==
  ASSUME Next
  PROVE  \E event, req, hold, ifetch, data, busy, deliver :
           Step(event, req, hold, ifetch, data, busy, deliver)
<1>1. PICK busy \in BusyInput, deliver \in DeliverInput : Run(busy, deliver)
  BY DEF Next
<1>2. PICK event \in Event :
        \E req \in RequestInput(event), hold \in HoldInput, t \in Traffic(busy) :
          Cycle(event, req, hold, t.ifetch, t.data, busy, deliver)
  BY <1>1 DEF Run
<1> PICK req \in RequestInput(event), hold \in HoldInput, t \in Traffic(busy) :
           Cycle(event, req, hold, t.ifetch, t.data, busy, deliver)
  BY <1>2
<1>3. busy \in BOOLEAN /\ deliver \in BOOLEAN /\ hold \in BOOLEAN
  BY <1>1 DEF BusyInput, DeliverInput, HoldInput
<1>4. [ifetch |-> t.ifetch, data |-> t.data] = t
  BY DEF Traffic
<1> QED  BY <1>3, <1>4 DEF Step

\* What comes in is a request or none, and touches no table.
LEMMA Inputs ==
  ASSUME NEW event, NEW req, NEW hold, NEW ifetch, NEW data, NEW busy, NEW deliver,
         Step(event, req, hold, ifetch, data, busy, deliver)
  PROVE  /\ req \in Access \cup {None}
         /\ ifetch \in {None, Reads} /\ data \in {None, Writes}
         /\ busy \in BOOLEAN /\ deliver \in BOOLEAN /\ hold \in BOOLEAN
<1>1. req \in Access \cup {None}
  BY DEF Step, RequestInput
<1>2. ifetch \in {None, Reads} /\ data \in {None, Writes}
  BY DEF Step, Traffic
<1> QED  BY <1>1, <1>2 DEF Step

\* What the parts do in a cycle.
LEMMA StepParts ==
  ASSUME NEW event, NEW req, NEW hold, NEW ifetch, NEW data, NEW busy, NEW deliver,
         Step(event, req, hold, ifetch, data, busy, deliver)
  PROVE  /\ Flushes(event) =>
              /\ XlFlush /\ walk_req_sent' = FALSE /\ UNCHANGED <<xl_req, xl_resp>>
              /\ CancelWalk
         /\ ~Flushes(event) =>
              /\ AcceptXl(req, paging) \/ Lookup \/ LookedUp \/ Walk \/ Fill \/ Respond(hold)
              /\ walk_req_sent' = walk_req_sent_next
              /\ \/ Take(walk_req) \/ FetchPde(sys_cr3) \/ Wait(pt_ack)
                 \/ PdeArrives(pt_ack, pt_rdata) \/ FetchPte
                 \/ PteArrives(pt_ack, pt_rdata) \/ UpdateAd \/ AdWritten(pt_ack)
         /\ TlbClock(tlb_lookup(paging), tlb_fill, None, event \in Directory)
         /\ CtrlClock(ifetch, data, PtPort, busy, Delivered(deliver))
         /\ DramClock(deliver, ddram_rd, ddram_we, ddram_addr, ddram_din, ddram_be)
         /\ sys_cr3' = IF event \in Directory THEN event ELSE sys_cr3
         /\ paging' = (paging # (event = "PG")) /\ paging_prev' = paging
         /\ Remember(Flushes(event))
<1> DEFINE flush_all == event \in Directory
           flush == event = "mispredict" \/ flush_all \/ paging # paging_prev
<1>1. /\ DtlbClock(flush, flush_all, req, hold, paging, sys_cr3, pt_ack, pt_rdata)
      /\ CtrlClock(ifetch, data, PtPort, busy, Delivered(deliver))
      /\ DramClock(deliver, ddram_rd, ddram_we, ddram_addr, ddram_din, ddram_be)
      /\ sys_cr3' = IF flush_all THEN event ELSE sys_cr3
      /\ paging' = (paging # (event = "PG")) /\ paging_prev' = paging
      /\ Remember(flush)
  BY DEF Step, Cycle
<1>2. /\ XlStep(flush \/ flush_all, req, paging, hold)
      /\ TlbClock(tlb_lookup(paging), tlb_fill, None, flush_all)
      /\ WalkerClock(flush \/ flush_all, walk_req, pt_ack, pt_rdata, sys_cr3)
  BY <1>1 DEF DtlbClock
<1>3. (Flushes(event) <=> flush \/ flush_all) /\ Flushes(event) = flush
  BY DEF Flushes
<1>4. CASE Flushes(event)
  <2>1. XlFlush /\ walk_req_sent' = FALSE /\ UNCHANGED <<xl_req, xl_resp>>
    BY <1>2, <1>3, <1>4 DEF XlStep
  <2>2. CancelWalk
    BY <1>2, <1>3, <1>4 DEF WalkerClock
  <2> QED  BY <1>1, <1>2, <1>3, <1>4, <2>1, <2>2
<1>5. CASE ~Flushes(event)
  <2>1. /\ AcceptXl(req, paging) \/ Lookup \/ LookedUp \/ Walk \/ Fill \/ Respond(hold)
        /\ walk_req_sent' = walk_req_sent_next
    BY <1>2, <1>3, <1>5 DEF XlStep
  <2>2. \/ Take(walk_req) \/ FetchPde(sys_cr3) \/ Wait(pt_ack)
        \/ PdeArrives(pt_ack, pt_rdata) \/ FetchPte
        \/ PteArrives(pt_ack, pt_rdata) \/ UpdateAd \/ AdWritten(pt_ack)
    BY <1>2, <1>3, <1>5 DEF WalkerClock
  <2> QED  BY <1>1, <1>2, <1>3, <1>5, <2>1, <2>2
<1> QED  BY <1>4, <1>5

\* No flush meets a walker that waits, nor is there one after a change of PG.

\* Without a flush, the context of translation stays.
LEMMA NoFlush ==
  ASSUME NEW event, ~Flushes(event)
  PROVE  event \notin Directory /\ paging = paging_prev
BY DEF Flushes

\* Unless the walker is misled, an acknowledge it goes by is that of its request.
LEMMA AckIsOwn ==
  ASSUME NEW event, NEW req, NEW hold, NEW ifetch, NEW data, NEW busy, NEW deliver,
         Step(event, req, hold, ifetch, data, busy, deliver),
         ~misled', ~Flushes(event), pt_ack, walk_state \in Waiting
  PROVE  ~orphan
BY StepParts DEF Remember

(***************************************************************************)
(* Types: what holds whatever the walker has been told                     *)
(***************************************************************************)
LEMMA LowestMatch ==
  ASSUME UniqueMatch, NEW vpn, Matches(vpn) # {}
  PROVE  Lowest(Matches(vpn)) \in Matches(vpn)
<1>1. PICK j : j \in Matches(vpn)
  OBVIOUS
<1>2. FillSlot(vpn) = j
  BY <1>1, FillInPlace
<1> QED  BY <1>1, <1>2 DEF FillSlot

LEMMA RequestStep ==
  ASSUME TypeInv,
         NEW event, NEW req, NEW hold, NEW ifetch, NEW data, NEW busy, NEW deliver,
         Step(event, req, hold, ifetch, data, busy, deliver)
  PROVE  SoundRequest'
<1>1. CASE Flushes(event)
  BY <1>1, StepParts DEF XlFlush, SoundRequest
<1>2. CASE ~Flushes(event)
  <2>1. paging = paging_prev /\ paging_prev' = paging /\ event \notin Directory
    BY <1>2, StepParts, NoFlush
  <2>2. AcceptXl(req, paging) \/ Lookup \/ LookedUp \/ Walk \/ Fill \/ Respond(hold)
    BY <1>2, StepParts
  <2>3. CASE AcceptXl(req, paging)
    BY <2>1, <2>3, Inputs DEF AcceptXl, SoundRequest
  <2>4. CASE Lookup
    <3>1. xl_state = "LOOKUP" /\ xl_state' = "WAIT_LOOKUP" /\ xl_req' = xl_req
      BY <2>4 DEF Lookup
    <3>2. xl_req \in Access /\ paging_prev
      BY <3>1 DEF TypeInv, SoundRequest
    <3>3. tlb_lookup(paging) = xl_req /\ tlb_fill = None
      BY <2>1, <3>1, <3>2 DEF tlb_lookup, tlb_fill
    <3>4. TlbClock(xl_req, None, None, event \in Directory)
      BY <3>3, StepParts
    <3>5. /\ tlb_r' = IF xl_req = None THEN None
                      ELSE [slot |-> IF Matches(xl_req.vpn) = {} THEN None
                                     ELSE Lowest(Matches(xl_req.vpn)),
                            write |-> xl_req.write, user |-> xl_req.user]
      BY <3>4 DEF TlbClock
    <3>6. \A i \in Slot : entry'[i] = entry[i] /\ entry_valid'[i] = entry_valid[i]
      <4>1. Dropped(None, event \in Directory) = {}
        BY <2>1 DEF Dropped
      <4>2. entry_valid \in [Slot -> BOOLEAN]
        BY DEF TypeInv, WalkTypeOK, TlbTypeOK
      <4> QED  BY <3>4, <4>1, <4>2, NoneIsNoSlot DEF TlbClock
    <3>7. tlb_r' # None => tlb_r'.write = xl_req.write /\ tlb_r'.user = xl_req.user
      BY <3>5
    <3>8. ASSUME tlb_r' # None, tlb_r'.slot # None
          PROVE  entry_valid'[tlb_r'.slot] /\ entry'[tlb_r'.slot].vpn = xl_req.vpn
      <4>1. tlb_r'.slot = Lowest(Matches(xl_req.vpn)) /\ Matches(xl_req.vpn) # {}
        BY <3>5, <3>8
      <4>2. tlb_r'.slot \in Matches(xl_req.vpn)
        BY <4>1, LowestMatch DEF TypeInv
      <4> QED  BY <3>6, <4>2 DEF Matches
    <3> QED  BY <2>1, <3>1, <3>2, <3>7, <3>8 DEF SoundRequest
  <2>5. CASE LookedUp \/ Walk \/ Fill \/ Respond(hold)
    <3>1. xl_req' = xl_req /\ xl_state' \in {"WALK", "FILL", "RESP", "IDLE"}
          /\ xl_state \in {"WAIT_LOOKUP", "WALK", "FILL", "RESP"}
          /\ (xl_state' \in {"WALK", "FILL"} => xl_state \in {"WAIT_LOOKUP", "WALK"})
      BY <2>5 DEF LookedUp, Walk, Fill, Respond
    <3> QED  BY <2>1, <3>1 DEF TypeInv, SoundRequest
  <2> QED  BY <2>2, <2>3, <2>4, <2>5
<1> QED  BY <1>1, <1>2

\* The frontend waits as long as the walker works.
LEMMA FrontendWaits ==
  ASSUME TypeInv, walk_state # "IDLE",
         NEW event, NEW req, NEW hold, NEW ifetch, NEW data, NEW busy, NEW deliver,
         Step(event, req, hold, ifetch, data, busy, deliver), ~Flushes(event)
  PROVE  /\ xl_state = "WALK" /\ xl_state' = "WALK" /\ walk_req_sent'
         /\ xl_req' = xl_req /\ walk = xl_req /\ walk \in Access /\ walk.vpn \in Vpn
         /\ event \notin Directory /\ sys_cr3' = sys_cr3
<1>1. xl_state = "WALK" /\ walk = xl_req /\ walk_req_sent /\ ~walk_done /\ xl_req \in Access
  BY DEF TypeInv, InStep, SoundRequest
<1>2. Walk
  BY <1>1, StepParts DEF AcceptXl, Lookup, LookedUp, Fill, Respond
<1>3. xl_state' = "WALK" /\ xl_req' = xl_req
  BY <1>1, <1>2 DEF Walk
<1>4. walk_req_sent' = walk_req_sent
  BY <1>1, StepParts DEF walk_req_sent_next, walker_busy
<1>5. event \notin Directory /\ sys_cr3' = sys_cr3
  BY StepParts DEF Flushes
<1> QED  BY <1>1, <1>3, <1>4, <1>5 DEF Access

\* A walk begins with the frontend's request.
LEMMA WalkBegins ==
  ASSUME TypeInv, Take(walk_req), walk_state' # "IDLE",
         NEW event, NEW req, NEW hold, NEW ifetch, NEW data, NEW busy, NEW deliver,
         Step(event, req, hold, ifetch, data, busy, deliver), ~Flushes(event)
  PROVE  /\ walk_state' = "PDE_FETCH" /\ walk' = xl_req /\ xl_req' = xl_req
         /\ xl_state' = "WALK" /\ walk_req_sent'
<1>1. walk_req # None /\ walk_state' = "PDE_FETCH" /\ walk' = walk_req
  BY DEF Take
<1>2. xl_state = "WALK" /\ ~walker_busy /\ ~walk_req_sent /\ walk_req = xl_req
  BY <1>1 DEF walk_req
<1>3. ~walk_done
  BY <1>2 DEF TypeInv, InStep
<1>4. Walk
  BY <1>2, StepParts DEF AcceptXl, Lookup, LookedUp, Fill, Respond
<1>5. walk_req_sent'
  BY <1>2, StepParts DEF walk_req_sent_next
<1> QED  BY <1>1, <1>2, <1>3, <1>4, <1>5 DEF Walk

\* What the frontend fills is what the walker has found.
LEMMA FillIsEntry ==
  ASSUME TypeInv, xl_state = "FILL"
  PROVE  /\ tlb_fill \in TlbEntry /\ tlb_fill.vpn = xl_req.vpn
         /\ tlb_fill = [vpn |-> xl_req.vpn, ppn |-> walk_out.ppn, dirty |-> walk_out.dirty,
                        user |-> walk_out.user, writable |-> walk_out.writable]
<1>1. xl_req.vpn \in Vpn /\ walk_out \in Out /\ xl_resp = Found(walk_out.ppn)
  BY DEF TypeInv, SoundRequest, InStep, Access
<1>2. tlb_fill = [vpn |-> xl_req.vpn, ppn |-> walk_out.ppn, dirty |-> walk_out.dirty,
                  user |-> walk_out.user, writable |-> walk_out.writable]
  BY <1>1 DEF tlb_fill, Found
<1> QED  BY <1>1, <1>2 DEF TlbEntry, Out

\* What comes from the port is an entry; once there is one, there always is.
LEMMA EntryRead ==
  ASSUME TypeInv
  PROVE  pt_ack => pt_rdata \in PageEntry
BY EntryAssumption DEF TypeInv, WalkTypeOK, CtrlTypeOK, HasRead

LEMMA MarkedIsEntry ==
  ASSUME TypeInv, walk_state \in {"AD_UPDATE", "AD_WAIT"}
  PROVE  /\ pte \in PageEntry /\ walk.write \in BOOLEAN /\ Marked(pte) \in PageEntry
         /\ pte_addr \in Frame \X Index
<1>1. pte \in PageEntry /\ walk.write \in BOOLEAN /\ pte_addr \in Frame \X Index
  BY DEF TypeInv, WalkTypeOK, WalkerTypeOK, HasRead, InStep, SoundRequest, Access
<1> QED  BY <1>1 DEF Marked, PageEntry

LEMMA InStepStep ==
  ASSUME TypeInv,
         NEW event, NEW req, NEW hold, NEW ifetch, NEW data, NEW busy, NEW deliver,
         Step(event, req, hold, ifetch, data, busy, deliver)
  PROVE  InStep'
<1>1. ASSUME walk_state' # "IDLE"
      PROVE  xl_state' = "WALK" /\ walk' = xl_req' /\ walk_req_sent'
  <2>1. ~Flushes(event)
    BY <1>1, StepParts DEF CancelWalk
  <2>2. CASE Take(walk_req)
    BY <1>1, <2>1, <2>2, WalkBegins
  <2>3. CASE ~Take(walk_req)
    <3>1. walk_state # "IDLE" /\ walk' = walk
      BY <2>1, <2>3, StepParts
         DEF FetchPde, Wait, PdeArrives, FetchPte, PteArrives, UpdateAd, AdWritten, Waiting
    <3> QED  BY <2>1, <3>1, FrontendWaits
  <2> QED  BY <2>2, <2>3
<1>2. ASSUME walk_done'
      PROVE  /\ xl_state' = "WALK" /\ walk_req_sent' /\ walk_state' = "IDLE"
             /\ walk_fault' = None => walk_out' \in Out
  <2>1. ~Flushes(event)
    BY <1>2, StepParts DEF CancelWalk, Quiet
  <2>2. PdeArrives(pt_ack, pt_rdata) \/ PteArrives(pt_ack, pt_rdata) \/ AdWritten(pt_ack)
    BY <1>2, <2>1, StepParts DEF Take, FetchPde, Wait, FetchPte, UpdateAd, Quiet, Goes
  <2>3. walk_state # "IDLE"
    BY <2>2 DEF PdeArrives, PteArrives, AdWritten
  <2>4. xl_state' = "WALK" /\ walk_req_sent' /\ walk \in Access
    BY <2>1, <2>3, FrontendWaits
  <2>5. \A present \in BOOLEAN :
          [user |-> walk.user, write |-> walk.write, present |-> present] # None
    BY <2>4, Nones DEF Access, FaultCode
  <2>6. CASE PdeArrives(pt_ack, pt_rdata)
    BY <1>2, <2>4, <2>5, <2>6 DEF PdeArrives, Faults, Goes
  <2>7. CASE PteArrives(pt_ack, pt_rdata)
    <3>1. pt_rdata \in PageEntry
      BY <2>7, EntryRead DEF PteArrives
    <3>2. CASE Faults(FALSE) \/ Faults(TRUE)
      BY <2>4, <2>5, <3>2 DEF Faults
    <3>3. CASE Succeeds(pt_rdata, pt_rdata.dirty)
      BY <2>4, <3>1, <3>3 DEF Succeeds, PageEntry, Out
    <3> QED  BY <1>2, <2>7, <3>2, <3>3 DEF PteArrives, Goes
  <2>8. CASE AdWritten(pt_ack)
    <3>1. pte \in PageEntry /\ walk.write \in BOOLEAN
      BY <2>8, MarkedIsEntry DEF AdWritten
    <3> QED  BY <2>4, <2>8, <3>1 DEF AdWritten, Succeeds, PageEntry, Out
  <2> QED  BY <2>2, <2>6, <2>7, <2>8
<1>3. ASSUME xl_state' = "FILL"
      PROVE  walk_out' \in Out /\ xl_resp' = Found(walk_out'.ppn)
  <2>1. ~Flushes(event)
    BY <1>3, StepParts DEF XlFlush
  <2>2. Walk
    BY <1>3, <2>1, StepParts DEF AcceptXl, Lookup, LookedUp, Fill, Respond
  <2>3. walk_done /\ walk_fault = None /\ xl_resp' = Found(walk_out.ppn)
    BY <1>3, <2>2 DEF Walk
  <2>4. walk_out \in Out /\ walk_state = "IDLE"
    BY <2>3 DEF TypeInv, InStep
  <2>5. Take(walk_req)
    BY <2>1, <2>4, StepParts
       DEF FetchPde, Wait, PdeArrives, FetchPte, PteArrives, UpdateAd, AdWritten, Waiting
  <2> QED  BY <2>3, <2>4, <2>5 DEF Take
<1>4. ASSUME NEW i \in Slot, entry_valid'[i]
      PROVE  entry'[i] \in TlbEntry
  <2>1. TlbClock(tlb_lookup(paging), tlb_fill, None, event \in Directory)
    BY StepParts
  <2> DEFINE slot == IF tlb_fill = None THEN None ELSE FillSlot(tlb_fill.vpn)
  <2>2. entry'[i] = (IF i = slot THEN tlb_fill ELSE entry[i]) /\ (entry_valid[i] \/ i = slot)
    BY <1>4, <2>1 DEF TlbClock
  <2>3. CASE i = slot
    BY <2>2, <2>3, NoneIsNoSlot, FillIsEntry DEF tlb_fill
  <2>4. CASE i # slot
    BY <2>2, <2>4 DEF TypeInv, InStep
  <2> QED  BY <2>3, <2>4
<1> QED  BY <1>1, <1>2, <1>3, <1>4 DEF InStep

\* What the controller takes when it is idle.
LEMMA Takes ==
  ASSUME NEW ifetch, NEW data, NEW busy, Accept(ifetch, data, PtPort, busy), arb_state' # "IDLE"
  PROVE  \/ /\ pt_mem # None /\ arb' # None /\ arb_state' = "PT" /\ arb'.source = "pt"
            /\ arb'.addr = WordOf(pt_mem.addr) /\ arb'.wr = pt_mem.wr
            /\ arb'.wdata = pt_mem.wdata
         \/ /\ data # None /\ arb' # None /\ arb_state' = "DATA" /\ arb'.source = "data"
            /\ arb'.addr = data.addr /\ arb'.wr = data.wr /\ arb'.wdata = data.wdata
         \/ /\ ifetch # None /\ arb' # None /\ arb_state' = "IFETCH" /\ arb'.source = "ifetch"
            /\ arb'.addr = ifetch.addr /\ arb'.wr = ifetch.wr /\ arb'.wdata = ifetch.wdata
<1> DEFINE From(port, q) ==
             [source |-> port, addr |-> q.addr, wr |-> q.wr, wdata |-> q.wdata]
           r == Selected(ifetch, data, PtPort)
<1>1. r # None /\ arb' = r /\ arb_state' = Serving[r.source]
  BY DEF Accept
<1>2. \/ PtPort # None /\ r = From("pt", PtPort)
      \/ data # None /\ r = From("data", data)
      \/ ifetch # None /\ r = From("ifetch", ifetch)
  BY <1>1 DEF Selected
<1>3. CASE PtPort # None /\ r = From("pt", PtPort)
  <2>1. /\ pt_mem # None
        /\ PtPort = [addr |-> WordOf(pt_mem.addr), wr |-> pt_mem.wr, wdata |-> pt_mem.wdata]
    BY <1>3 DEF PtPort
  <2>2. Serving["pt"] = "PT"
    BY DEF Serving
  <2> HIDE DEF r
  <2> QED  BY <1>1, <1>3, <2>1, <2>2
<1>4. CASE data # None /\ r = From("data", data)
  <2>1. Serving["data"] = "DATA"
    BY DEF Serving
  <2> HIDE DEF r
  <2> QED  BY <1>1, <1>4, <2>1
<1>5. CASE ifetch # None /\ r = From("ifetch", ifetch)
  <2>1. Serving["ifetch"] = "IFETCH"
    BY DEF Serving
  <2> HIDE DEF r
  <2> QED  BY <1>1, <1>5, <2>1
<1> QED  BY <1>2, <1>3, <1>4, <1>5

\* What the controller does for the walker in a cycle.
LEMMA ControllerServes ==
  ASSUME SoundBus, NEW ifetch, NEW data, NEW busy, NEW dout,
         CtrlClock(ifetch, data, PtPort, busy, dout)
  PROVE  /\ ServesWalker' =>
              /\ ~pt_ack'
              /\ \/ ServesWalker /\ arb' = arb
                 \/ /\ ~ServesWalker /\ pt_mem # None
                    /\ arb'.addr = WordOf(pt_mem.addr) /\ arb'.wr = pt_mem.wr
                    /\ arb'.wdata = pt_mem.wdata
         /\ pt_ack' =>
              /\ ServesWalker /\ arb_state' = "IDLE"
              /\ \/ /\ arb.wr /\ ddram_we' /\ ddram_be' = "low"
                    /\ ddram_addr' = arb.addr /\ ddram_din' = arb.wdata
                 \/ arb_state = "WAIT" /\ ~arb.wr /\ dout # None /\ pt_rdata' = dout[0]
                    /\ ~ddram_we'
<1>1. CASE arb_state = "IDLE" /\ Accept(ifetch, data, PtPort, busy)
  <2>1. ~pt_ack' /\ ~ServesWalker
    BY <1>1 DEF Accept, ServesWalker
  <2>2. ASSUME ServesWalker'
        PROVE  /\ pt_mem # None
               /\ arb'.addr = WordOf(pt_mem.addr) /\ arb'.wr = pt_mem.wr
               /\ arb'.wdata = pt_mem.wdata
    BY <1>1, <2>2, Takes DEF ServesWalker
  <2> QED  BY <2>1, <2>2
<1>2. CASE arb_state \in {"IFETCH", "DATA", "PT"} /\ Strobe(busy)
  <2>1. arb' = arb /\ (ServesWalker' => ServesWalker)
    BY <1>2 DEF Strobe, ServesWalker
  <2>2. ServesWalker' => ~pt_ack'
    BY <1>2 DEF Strobe, ServesWalker
  <2>3. ASSUME pt_ack'
        PROVE  /\ ServesWalker /\ arb_state' = "IDLE"
               /\ arb.wr /\ ddram_we' /\ ddram_be' = "low"
               /\ ddram_addr' = arb.addr /\ ddram_din' = arb.wdata
    BY <1>2, <2>3 DEF Strobe, ServesWalker
  <2> QED  BY <2>1, <2>2, <2>3
<1>3. CASE arb_state = "WAIT" /\ Collect(dout)
  <2>1. arb' = arb /\ (ServesWalker' => ServesWalker /\ ~pt_ack')
    BY <1>3 DEF Collect, ServesWalker
  <2>2. ASSUME pt_ack'
        PROVE  /\ ServesWalker /\ arb_state' = "IDLE"
               /\ dout # None /\ pt_rdata' = dout[0] /\ ~ddram_we'
    BY <1>3, <2>2 DEF Collect, ServesWalker
  <2>3. arb.source = "pt" => ~arb.wr
    BY <1>3 DEF SoundBus
  <2> QED  BY <1>3, <2>1, <2>2, <2>3 DEF ServesWalker
<1> QED  BY <1>1, <1>2, <1>3 DEF CtrlClock

\* An entry read is never unread.
LEMMA ReadStays ==
  ASSUME TypeInv, pt_rdata # None,
         NEW event, NEW req, NEW hold, NEW ifetch, NEW data, NEW busy, NEW deliver,
         Step(event, req, hold, ifetch, data, busy, deliver)
  PROVE  pt_rdata' # None
<1> DEFINE dout == Delivered(deliver)
<1>1. CtrlClock(ifetch, data, PtPort, busy, dout)
  BY StepParts
<1>2. dout # None => dout[0] \in Half
  <2>1. dout \in Val \cup {None}
    BY DEF Delivered, TypeInv, WalkTypeOK, DramTypeOK
  <2> HIDE DEF dout
  <2> QED  BY <2>1, EntryAssumption
<1> HIDE DEF dout
<1>3. pt_rdata' = pt_rdata \/ (dout # None /\ pt_rdata' = dout[0])
  BY <1>1 DEF CtrlClock, Accept, Strobe, Collect
<1> QED  BY <1>2, <1>3, Nones

LEMMA HasReadStep ==
  ASSUME TypeInv,
         NEW event, NEW req, NEW hold, NEW ifetch, NEW data, NEW busy, NEW deliver,
         Step(event, req, hold, ifetch, data, busy, deliver)
  PROVE  HasRead'
<1> DEFINE dout == Delivered(deliver)
<1>1. CtrlClock(ifetch, data, PtPort, busy, dout) /\ SoundBus /\ HasRead
  BY StepParts DEF TypeInv
<1>2. dout # None => dout[0] \in Half
  <2>1. dout \in Val \cup {None}
    BY DEF Delivered, TypeInv, WalkTypeOK, DramTypeOK
  <2> HIDE DEF dout
  <2> QED  BY <2>1, EntryAssumption
<1> HIDE DEF dout
<1>3. /\ ServesWalker' =>
           /\ ~pt_ack'
           /\ \/ ServesWalker /\ arb' = arb
              \/ /\ ~ServesWalker /\ pt_mem # None
                 /\ arb'.addr = WordOf(pt_mem.addr) /\ arb'.wr = pt_mem.wr
                 /\ arb'.wdata = pt_mem.wdata
      /\ pt_ack' => ServesWalker /\ (arb.wr \/ (dout # None /\ pt_rdata' = dout[0]))
  BY <1>1, ControllerServes
<1>4. pt_rdata # None => pt_rdata' # None
  BY ReadStays
<1>5. pt_ack' => pt_rdata' # None
  BY <1>1, <1>2, <1>3, <1>4, Nones DEF HasRead
<1>6. ServesWalker' /\ arb'.wr => arb'.wdata \in PageEntry /\ pt_rdata' # None
  <2>1. pt_mem # None /\ pt_mem.wr => pt_mem.wdata \in PageEntry /\ pt_rdata # None
    BY <1>1 DEF HasRead, TypeInv, WalkTypeOK, WalkerTypeOK
  <2> QED  BY <1>1, <1>3, <1>4, <2>1 DEF HasRead
<1>7. /\ walk_state' = "PTE_FETCH" => pde' # None
      /\ walk_state' \in {"PTE_WAIT", "AD_UPDATE", "AD_WAIT"} => pte_addr' \in Frame \X Index
      /\ walk_state' \in {"AD_UPDATE", "AD_WAIT"} => pte' # None
      /\ walk_state' \in {"PTE_FETCH", "PTE_WAIT", "AD_UPDATE", "AD_WAIT"} => pt_rdata # None
      /\ pt_mem' # None /\ pt_mem'.wr => pt_mem'.wdata # None /\ pt_rdata # None
  <2>1. CASE Flushes(event)
    BY <2>1, StepParts DEF CancelWalk, Quiet
  <2>2. CASE Take(walk_req) \/ FetchPde(sys_cr3)
    BY <2>2 DEF Take, Quiet, FetchPde, Goes, ReadFrom
  <2>3. CASE Wait(pt_ack)
    BY <1>1, <2>3 DEF Wait, Quiet, HasRead, Waiting
  <2>4. CASE PdeArrives(pt_ack, pt_rdata)
    <3>1. pt_rdata # None /\ pde' = pt_rdata /\ pt_mem' = None
      BY <1>1, <2>4 DEF PdeArrives, HasRead
    <3>2. walk_state' \in {"IDLE", "PTE_FETCH"}
      BY <2>4 DEF PdeArrives, Faults, Goes
    <3> QED  BY <3>1, <3>2
  <2>5. CASE FetchPte
    <3>1. pt_rdata # None /\ walk_state' = "PTE_WAIT" /\ pte_addr' = <<pde.base, walk.vpn[2]>>
          /\ ~pt_mem'.wr
      BY <1>1, <2>5 DEF FetchPte, Goes, HasRead, ReadFrom
    <3>2. pte_addr' \in Frame \X Index
      <4>1. pde \in PageEntry /\ walk.vpn \in Vpn
        BY <1>1, <2>5 DEF FetchPte, HasRead, TypeInv, WalkTypeOK, WalkerTypeOK, InStep,
                          SoundRequest, Access
      <4> QED  BY <3>1, <4>1, Indices DEF PageEntry
    <3> QED  BY <3>1, <3>2
  <2>6. CASE PteArrives(pt_ack, pt_rdata)
    <3>1. /\ pt_rdata # None /\ pte' = pt_rdata /\ pt_mem' = None
          /\ pte_addr' = pte_addr /\ pte_addr \in Frame \X Index
      BY <1>1, <2>6 DEF PteArrives, HasRead
    <3>2. walk_state' \in {"IDLE", "AD_UPDATE"}
      BY <2>6 DEF PteArrives, Faults, Succeeds, Goes
    <3> QED  BY <3>1, <3>2
  <2>7. CASE UpdateAd
    <3>1. /\ pt_rdata # None /\ pte' = pte /\ pte_addr' = pte_addr /\ pte # None
          /\ pte_addr \in Frame \X Index /\ walk_state' = "AD_WAIT" /\ pt_mem'.wdata = Marked(pte)
      BY <1>1, <2>7 DEF UpdateAd, Goes, HasRead
    <3>2. Marked(pte) # None
      BY <2>7, MarkedIsEntry, Nones DEF UpdateAd
    <3> QED  BY <3>1, <3>2
  <2>8. CASE AdWritten(pt_ack)
    BY <2>8 DEF AdWritten, Succeeds
  <2> QED  BY <2>1, <2>2, <2>3, <2>4, <2>5, <2>6, <2>7, <2>8, StepParts
<1> QED  BY <1>4, <1>5, <1>6, <1>7 DEF HasRead, ServesWalker

LEMMA BusStep ==
  ASSUME TypeInv,
         NEW event, NEW req, NEW hold, NEW ifetch, NEW data, NEW busy, NEW deliver,
         Step(event, req, hold, ifetch, data, busy, deliver)
  PROVE  SoundBus'
<1> DEFINE dout == Delivered(deliver)
<1>0. /\ CtrlClock(ifetch, data, PtPort, busy, dout)
      /\ DramClock(deliver, ddram_rd, ddram_we, ddram_addr, ddram_din, ddram_be)
  BY StepParts
<1>1. /\ CtrlClock(ifetch, data, PtPort, busy, dout)
      /\ rd_pending' = IF ddram_rd THEN ddram_addr
                       ELSE IF deliver THEN None ELSE rd_pending
  BY <1>0 DEF DramClock
<1>2. /\ ifetch \in {None, Reads} /\ data \in {None, Writes}
      /\ SoundBus /\ mem \in [Addr -> Val]
  BY Inputs DEF TypeInv, WalkTypeOK, DramTypeOK
<1>3. \E v \in Val : TRUE
  BY <1>2, AddrAssumption
<1>4. Writes.addr = DataAddr /\ Writes.wdata \in Val /\ Reads.addr = DataAddr /\ ~Reads.wr
  BY <1>3 DEF Writes, Reads
<1>5. CASE arb_state = "IDLE" /\ Accept(ifetch, data, PtPort, busy)
  <2>1. ~ddram_rd /\ rd_pending = None /\ ~ddram_rd' /\ ~ddram_we' /\ ~pt_ack'
    BY <1>2, <1>5 DEF SoundBus, Accept
  <2>2. rd_pending' = None
    BY <1>1, <2>1
  <2>3. arb_state' # "IDLE" =>
          /\ arb' # None
          /\ \/ arb_state' = "PT" /\ arb'.source = "pt"
             \/ /\ arb_state' = "DATA" /\ arb'.source = "data"
                /\ arb'.addr = DataAddr /\ arb'.wdata \in Val
             \/ /\ arb_state' = "IFETCH" /\ arb'.source = "ifetch"
                /\ arb'.addr = DataAddr /\ ~arb'.wr
    BY <1>2, <1>4, <1>5, Takes
  <2> QED  BY <2>1, <2>2, <2>3 DEF SoundBus
<1>6. CASE arb_state \in {"IFETCH", "DATA", "PT"} /\ Strobe(busy)
  <2>1. ~ddram_rd /\ rd_pending = None
    BY <1>2, <1>6 DEF SoundBus
  <2>2. rd_pending' = None /\ arb' = arb
    BY <1>1, <1>6, <2>1 DEF Strobe
  <2>3. /\ arb # None /\ (arb_state = "PT" => arb.source = "pt")
        /\ (arb_state = "DATA" => arb.source = "data")
        /\ (arb_state = "IFETCH" => arb.source = "ifetch")
        /\ (arb.source # "pt" => arb.addr = DataAddr /\ (arb.wr => arb.wdata \in Val))
    BY <1>2, <1>6 DEF SoundBus
  <2>4. CASE busy
    BY <1>6, <2>2, <2>3, <2>4 DEF Strobe, SoundBus
  <2>5. CASE ~busy /\ arb.wr /\ arb.source # "ifetch"
    <3>1. /\ arb_state' = "IDLE" /\ ~ddram_rd' /\ ddram_we'
          /\ ddram_addr' = arb.addr /\ ddram_din' = arb.wdata
          /\ ddram_be' = IF arb.source = "pt" THEN "low" ELSE "word"
          /\ pt_ack' = (arb.source = "pt")
      BY <1>6, <2>5 DEF Strobe
    <3>2. CASE arb.source = "pt"
      <4>1. arb \in Accepted /\ ServesWalker
        BY <1>6, <2>3, <3>2 DEF TypeInv, WalkTypeOK, CtrlTypeOK, ServesWalker
      <4>2. arb.addr \in Addr /\ arb.wdata \in PageEntry
        BY <2>5, <4>1 DEF Accepted, TypeInv, HasRead
      <4> QED  BY <2>2, <3>1, <3>2, <4>2 DEF SoundBus
    <3>3. CASE arb.source # "pt"
      BY <2>2, <2>3, <2>5, <3>1, <3>3 DEF SoundBus
    <3> QED  BY <3>2, <3>3
  <2>6. CASE ~busy /\ ~(arb.wr /\ arb.source # "ifetch")
    <3>1. /\ arb_state' = "WAIT" /\ ddram_rd' /\ ~ddram_we' /\ ddram_addr' = arb.addr /\ ~pt_ack'
      BY <1>6, <2>6 DEF Strobe
    <3> QED  BY <2>2, <2>3, <2>6, <3>1 DEF SoundBus
  <2> QED  BY <2>4, <2>5, <2>6
<1>7. CASE arb_state = "WAIT" /\ Collect(dout)
  <2>1. /\ ~ddram_we' /\ ~ddram_rd' /\ arb' = arb /\ arb # None
        /\ arb.source = "ifetch" \/ ~arb.wr
        /\ arb.source # "pt" => arb.addr = DataAddr /\ (arb.wr => arb.wdata \in Val)
        /\ ddram_rd => ddram_addr = arb.addr /\ rd_pending = None
        /\ rd_pending # None => ~ddram_rd /\ rd_pending = arb.addr
    BY <1>2, <1>7 DEF SoundBus, Collect
  <2>2. CASE dout = None
    <3>1. arb_state' = "WAIT" /\ ~pt_ack'
      BY <1>7, <2>2 DEF Collect
    <3>2. rd_pending' # None => rd_pending' = arb.addr
      BY <1>1, <2>1
    <3> QED  BY <2>1, <3>1, <3>2 DEF SoundBus
  <2>3. CASE dout # None
    <3>1. deliver /\ rd_pending # None
      BY <2>3 DEF Delivered
    <3>2. rd_pending' = None
      BY <1>1, <2>1, <3>1
    <3>3. /\ arb_state' = IF arb.source = "ifetch" /\ ~ifetch_phase THEN "IFETCH" ELSE "IDLE"
          /\ pt_ack' => arb.source = "pt"
      BY <1>7, <2>3 DEF Collect
    <3> QED  BY <2>1, <3>2, <3>3 DEF SoundBus
  <2> QED  BY <2>2, <2>3
<1> QED  BY <1>1, <1>5, <1>6, <1>7 DEF CtrlClock

LEMMA TlbTypes ==
  ASSUME TypeInv,
         NEW event, NEW req, NEW hold, NEW ifetch, NEW data, NEW busy, NEW deliver,
         Step(event, req, hold, ifetch, data, busy, deliver)
  PROVE  TlbTypeOK'
<1>1. TlbClock(tlb_lookup(paging), tlb_fill, None, event \in Directory) /\ TlbTypeOK
  BY StepParts DEF TypeInv, WalkTypeOK
<1>2. entry_valid' \in [Slot -> BOOLEAN]
  BY <1>1 DEF TlbClock, TlbTypeOK
<1>3. entry' \in [Slot -> TlbEntry \cup {None}]
  <2> DEFINE slot == IF tlb_fill = None THEN None ELSE FillSlot(tlb_fill.vpn)
  <2>1. entry' = [i \in Slot |-> IF i = slot THEN tlb_fill ELSE entry[i]]
    BY <1>1 DEF TlbClock
  <2>2. tlb_fill \in TlbEntry \cup {None}
    BY FillIsEntry DEF tlb_fill
  <2> HIDE DEF slot
  <2> QED  BY <1>1, <2>1, <2>2 DEF TlbTypeOK
<1>4. plru_tree' \in [Node -> BOOLEAN]
  <2>1. \A tree \in [Node -> BOOLEAN] : \A i : Touched(tree, i) \in [Node -> BOOLEAN]
    BY DEF Touched
  <2> DEFINE hits == IF tlb_lookup(paging) = None THEN {} ELSE Matches(tlb_lookup(paging).vpn)
             used == IF hits = {} THEN plru_tree ELSE Touched(plru_tree, Lowest(hits))
             slot == IF tlb_fill = None THEN None ELSE FillSlot(tlb_fill.vpn)
  <2>2. plru_tree' = IF tlb_fill = None THEN used ELSE Touched(used, slot)
    BY <1>1 DEF TlbClock
  <2>3. plru_tree \in [Node -> BOOLEAN]
    BY <1>1 DEF TlbTypeOK
  <2>4. used \in [Node -> BOOLEAN]
    <3> HIDE DEF hits
    <3> QED  BY <2>1, <2>3
  <2> HIDE DEF used, slot
  <2> QED  BY <2>1, <2>2, <2>4
<1>5. tlb_r' \in [slot : Slot \cup {None}, write : BOOLEAN, user : BOOLEAN] \cup {None}
  <2>1. tlb_lookup(paging) \in Access \cup {None}
    BY DEF tlb_lookup, TypeInv, SoundRequest
  <2> DEFINE l == tlb_lookup(paging)
  <2>2. tlb_r' = IF l = None THEN None
                 ELSE [slot |-> IF Matches(l.vpn) = {} THEN None ELSE Lowest(Matches(l.vpn)),
                       write |-> l.write, user |-> l.user]
    BY <1>1 DEF TlbClock
  <2>3. Matches(l.vpn) # {} => Lowest(Matches(l.vpn)) \in Slot
    BY LowestMatch DEF TypeInv, Matches
  <2> HIDE DEF l
  <2>4. CASE l = None
    BY <2>2, <2>4
  <2>5. CASE l # None
    <3>1. l.write \in BOOLEAN /\ l.user \in BOOLEAN
      BY <2>1, <2>5 DEF Access, l
    <3> QED  BY <2>2, <2>3, <2>5, <3>1
  <2> QED  BY <2>4, <2>5
<1> QED  BY <1>2, <1>3, <1>4, <1>5 DEF TlbTypeOK

LEMMA WalkerTypes ==
  ASSUME TypeInv,
         NEW event, NEW req, NEW hold, NEW ifetch, NEW data, NEW busy, NEW deliver,
         Step(event, req, hold, ifetch, data, busy, deliver)
  PROVE  WalkerTypeOK'
<1> USE DEF WalkerTypeOK
<1>1. WalkerTypeOK /\ sys_cr3 \in Frame
  BY DirectoryAssumption DEF TypeInv, WalkTypeOK
<1>2. walk_state # "IDLE" => walk \in Access /\ walk.vpn \in Vpn
                              /\ walk.vpn[1] \in Index /\ walk.vpn[2] \in Index
                              /\ walk.user \in BOOLEAN /\ walk.write \in BOOLEAN
  BY Indices DEF TypeInv, InStep, SoundRequest, Access
<1>3. CASE Flushes(event)
  <2>1. CancelWalk
    BY <1>3, StepParts
  <2> QED  BY <1>1, <2>1 DEF CancelWalk, Quiet
<1>4. CASE ~Flushes(event)
  <2>1. CASE Take(walk_req)
    <3>1. walk_req \in Access \cup {None}
      BY DEF walk_req, TypeInv, SoundRequest
    <3> QED  BY <1>1, <2>1, <3>1 DEF Take, Quiet
  <2>2. CASE FetchPde(sys_cr3)
    BY <1>1, <1>2, <2>2 DEF FetchPde, Goes, ReadFrom
  <2>3. CASE Wait(pt_ack)
    BY <1>1, <2>3 DEF Wait, Quiet
  <2>4. CASE PdeArrives(pt_ack, pt_rdata)
    <3>1. /\ walk_state = "PDE_WAIT" /\ pt_ack /\ pde' = pt_rdata /\ pt_mem' = None
          /\ walk' = walk /\ pte' = pte /\ pte_addr' = pte_addr
      BY <2>4 DEF PdeArrives
    <3>2. pt_rdata \in PageEntry
      BY <3>1, EntryRead
    <3>3. /\ walk_state' \in {"IDLE", "PTE_FETCH"} /\ walk_done' \in BOOLEAN
          /\ walk_fault' \in FaultCode \cup {None} /\ walk_out' = walk_out
      <4>1. Faults(FALSE) \/ Faults(TRUE) \/ (Goes("PTE_FETCH") /\ UNCHANGED walk_out)
        BY <2>4 DEF PdeArrives
      <4>2. \A present \in BOOLEAN :
              [user |-> walk.user, write |-> walk.write, present |-> present] \in FaultCode
        BY <1>2, <3>1 DEF FaultCode
      <4> QED  BY <4>1, <4>2 DEF Faults, Goes
    <3> QED  BY <1>1, <3>1, <3>2, <3>3
  <2>5. CASE FetchPte
    <3>1. walk_state = "PTE_FETCH" /\ pde \in PageEntry
      BY <1>1, <2>5 DEF FetchPte, TypeInv, HasRead
    <3>2. pde.base \in Frame
      BY <3>1 DEF PageEntry
    <3> QED  BY <1>1, <1>2, <2>5, <3>1, <3>2 DEF FetchPte, Goes, ReadFrom
  <2>6. CASE PteArrives(pt_ack, pt_rdata)
    <3>1. /\ walk_state = "PTE_WAIT" /\ pt_ack /\ pte' = pt_rdata /\ pt_mem' = None
          /\ walk' = walk /\ pde' = pde /\ pte_addr' = pte_addr
      BY <2>6 DEF PteArrives
    <3>2. pt_rdata \in PageEntry
      BY <3>1, EntryRead
    <3>3. /\ walk_state' \in {"IDLE", "AD_UPDATE"} /\ walk_done' \in BOOLEAN
          /\ walk_fault' \in FaultCode \cup {None}
      <4>1. \/ Faults(FALSE) \/ Faults(TRUE) \/ Goes("AD_UPDATE")
            \/ Succeeds(pt_rdata, pt_rdata.dirty)
        BY <2>6 DEF PteArrives
      <4>2. \A present \in BOOLEAN :
              [user |-> walk.user, write |-> walk.write, present |-> present] \in FaultCode
        BY <1>2, <3>1 DEF FaultCode
      <4> QED  BY <4>1, <4>2 DEF Faults, Succeeds, Goes
    <3>4. \/ walk_out' = walk_out
          \/ walk_out' = [ppn |-> pt_rdata.base, dirty |-> pt_rdata.dirty,
                          user |-> pt_rdata.user, writable |-> pt_rdata.writable]
      BY <2>6 DEF PteArrives, Faults, Succeeds
    <3> QED  BY <1>1, <3>1, <3>2, <3>3, <3>4 DEF PageEntry
  <2>7. CASE UpdateAd
    <3>1. walk_state = "AD_UPDATE"
      BY <2>7 DEF UpdateAd
    <3>2. pte_addr \in Frame \X Index /\ Marked(pte) \in PageEntry
      BY <3>1, MarkedIsEntry
    <3> QED  BY <1>1, <2>7, <3>2 DEF UpdateAd, Goes
  <2>8. CASE AdWritten(pt_ack)
    <3>1. walk_state = "AD_WAIT"
      BY <2>8 DEF AdWritten
    <3>2. pte \in PageEntry
      BY <3>1, MarkedIsEntry
    <3> QED  BY <1>1, <1>2, <2>8, <3>1, <3>2 DEF AdWritten, Succeeds, PageEntry
  <2> QED  BY <1>4, <2>1, <2>2, <2>3, <2>4, <2>5, <2>6, <2>7, <2>8, StepParts
<1> QED  BY <1>3, <1>4

LEMMA XlTypes ==
  ASSUME TypeInv,
         NEW event, NEW req, NEW hold, NEW ifetch, NEW data, NEW busy, NEW deliver,
         Step(event, req, hold, ifetch, data, busy, deliver)
  PROVE  XlTypeOK'
<1>1. XlTypeOK /\ TlbTypeOK /\ WalkerTypeOK
  BY DEF TypeInv, WalkTypeOK
<1>2. CASE Flushes(event)
  BY <1>1, <1>2, StepParts DEF XlFlush, XlTypeOK
<1>3. CASE ~Flushes(event)
  <2>1. walk_req_sent' \in BOOLEAN
    BY <1>1, <1>3, StepParts DEF walk_req_sent_next, XlTypeOK
  <2>2. \A f \in Frame \cup Vpn : Found(f) \in Response
    BY DEF Found, Response
  <2>3. \A c \in FaultCode : Fault(c) \in Response
    BY DEF Fault, Response
  <2>4. CASE AcceptXl(req, paging)
    <3>1. req # None => req \in Access /\ req.vpn \in Vpn
      BY Inputs DEF Access
    <3> QED  BY <1>1, <2>1, <2>2, <2>4, <3>1 DEF AcceptXl, XlTypeOK
  <2>5. CASE Lookup \/ Fill \/ Respond(hold)
    BY <1>1, <2>1, <2>5 DEF Lookup, Fill, Respond, XlTypeOK
  <2>6. CASE LookedUp
    <3>1. xl_state = "WAIT_LOOKUP" /\ xl_req' = xl_req /\ xl_state' \in {"RESP", "WALK"}
      BY <2>6 DEF LookedUp
    <3>2. CASE ~any_hit
      BY <1>1, <2>1, <2>6, <3>1, <3>2 DEF LookedUp, lookup_hit, lookup_fault, XlTypeOK
    <3>3. CASE any_hit
      <4>1. /\ tlb_r.slot \in Slot /\ entry_valid[tlb_r.slot]
            /\ tlb_r.user \in BOOLEAN /\ tlb_r.write \in BOOLEAN
        BY <1>1, <3>1, <3>3 DEF any_hit, TlbTypeOK, TypeInv, SoundRequest
      <4>2. entry[tlb_r.slot].ppn \in Frame
        BY <4>1 DEF TypeInv, InStep, TlbEntry
      <4>3. [user |-> tlb_r.user, write |-> tlb_r.write, present |-> TRUE] \in FaultCode
        BY <4>1 DEF FaultCode
      <4>4. xl_resp' \in Response \cup {None}
        <5>1. Found(entry[tlb_r.slot].ppn) \in Response
          BY <2>2, <4>2
        <5>2. Fault([user |-> tlb_r.user, write |-> tlb_r.write, present |-> TRUE]) \in Response
          BY <2>3, <4>3
        <5> QED  BY <1>1, <2>6, <5>1, <5>2 DEF LookedUp, XlTypeOK
      <4> QED  BY <1>1, <2>1, <3>1, <4>4 DEF XlTypeOK
    <3> QED  BY <3>2, <3>3
  <2>7. CASE Walk
    <3>1. xl_req' = xl_req /\ xl_state' \in {"WALK", "RESP", "FILL"}
      BY <2>7 DEF Walk
    <3>2. walk_done /\ walk_fault = None => walk_out.ppn \in Frame
      BY DEF TypeInv, InStep, Out
    <3>3. walk_fault # None => walk_fault \in FaultCode
      BY <1>1 DEF WalkerTypeOK
    <3>4. xl_resp' \in Response \cup {None}
      BY <1>1, <2>2, <2>3, <2>7, <3>2, <3>3 DEF Walk, XlTypeOK
    <3> QED  BY <1>1, <2>1, <3>1, <3>4 DEF XlTypeOK
  <2> QED  BY <1>3, <2>4, <2>5, <2>6, <2>7, StepParts
<1> QED  BY <1>2, <1>3

LEMMA CtrlTypes ==
  ASSUME TypeInv,
         NEW event, NEW req, NEW hold, NEW ifetch, NEW data, NEW busy, NEW deliver,
         Step(event, req, hold, ifetch, data, busy, deliver)
  PROVE  CtrlTypeOK'
<1> DEFINE dout == Delivered(deliver)
<1>1. CtrlTypeOK /\ DramTypeOK /\ WalkerTypeOK /\ SoundBus
  BY DEF TypeInv, WalkTypeOK
<1>2. CtrlClock(ifetch, data, PtPort, busy, dout)
  BY StepParts
<1>3. /\ ifetch \in {None, Reads} /\ data \in {None, Writes} /\ busy \in BOOLEAN
  BY Inputs
<1>4. dout \in Val \cup {None} /\ (dout # None => dout[0] \in Half)
  <2>1. dout \in Val \cup {None}
    BY <1>1 DEF Delivered, DramTypeOK
  <2> HIDE DEF dout
  <2> QED  BY <2>1, ValAssumption
<1>5. CASE arb_state = "IDLE" /\ Accept(ifetch, data, PtPort, busy)
  <2> DEFINE r == Selected(ifetch, data, PtPort)
             From(port, q) ==
               [source |-> port, addr |-> q.addr, wr |-> q.wr, wdata |-> q.wdata]
  <2>1. r # None => r \in Accepted
    <3>1. PtPort # None => From("pt", PtPort) \in Accepted
      <4> SUFFICES ASSUME PtPort # None PROVE From("pt", PtPort) \in Accepted
        OBVIOUS
      <4>1. /\ pt_mem # None
            /\ PtPort = [addr |-> WordOf(pt_mem.addr), wr |-> pt_mem.wr, wdata |-> pt_mem.wdata]
        BY DEF PtPort
      <4>2. pt_mem.wr \in BOOLEAN /\ pt_mem.wdata \in PageEntry \cup {None}
        BY <1>1, <4>1 DEF WalkerTypeOK
      <4>3. WordOf(pt_mem.addr) \in Addr
        BY <1>1, <4>1, WordsOfFrames DEF WalkerTypeOK
      <4> QED  BY <4>1, <4>2, <4>3, EntryAssumption DEF Accepted
    <3>2. \E v \in Val : TRUE
      BY <1>1, AddrAssumption DEF DramTypeOK
    <3>3. From("data", Writes) \in Accepted /\ From("ifetch", Reads) \in Accepted
      BY <3>2, DataAssumption DEF Reads, Writes, Accepted
    <3> QED  BY <1>3, <3>1, <3>3 DEF Selected
  <2>2. arb' \in Accepted \cup {None}
    <3>1. arb' = arb \/ (r # None /\ arb' = r)
      BY <1>5 DEF Accept
    <3> HIDE DEF r
    <3> QED  BY <1>1, <2>1, <3>1 DEF CtrlTypeOK
  <2>3. arb_state' \in {"IDLE", "PT", "DATA", "IFETCH"}
    BY <1>5, Takes
  <2>4. ifetch_phase' \in BOOLEAN
    BY <1>5 DEF Accept
  <2>5. /\ ifetch_valid' = FALSE /\ data_ack' = FALSE /\ pt_ack' = FALSE
        /\ ddram_rd' = FALSE /\ ddram_we' = FALSE
        /\ data_rdata' = data_rdata /\ pt_rdata' = pt_rdata
        /\ ddram_addr' = ddram_addr /\ ddram_din' = ddram_din /\ ddram_be' = ddram_be
    BY <1>5 DEF Accept
  <2> QED  BY <1>1, <2>2, <2>3, <2>4, <2>5 DEF CtrlTypeOK
<1>6. CASE arb_state \in {"IFETCH", "DATA", "PT"} /\ Strobe(busy)
  <2>1. arb \in Accepted
    BY <1>1, <1>6 DEF CtrlTypeOK, SoundBus
  <2>2. arb.addr \in Addr /\ arb.wdata \in Val \cup Half \cup {None} /\ arb.wr \in BOOLEAN
    BY <2>1 DEF Accepted
  <2>3. /\ arb' = arb /\ ifetch_phase' = ifetch_phase /\ data_rdata' = data_rdata
        /\ pt_rdata' = pt_rdata /\ ifetch_valid' = FALSE
        /\ arb_state' \in {arb_state, "IDLE", "WAIT"}
        /\ ddram_addr' \in {ddram_addr, arb.addr} /\ ddram_din' \in {ddram_din, arb.wdata}
        /\ ddram_be' \in {ddram_be, "low", "word"}
    BY <1>6 DEF Strobe
  <2>4. /\ ddram_rd' \in BOOLEAN /\ ddram_we' \in BOOLEAN
        /\ data_ack' \in BOOLEAN /\ pt_ack' \in BOOLEAN
    BY <1>6 DEF Strobe
  <2>5. /\ arb_state' \in {"IDLE", "IFETCH", "DATA", "PT", "WAIT"}
        /\ arb' \in Accepted \cup {None}
        /\ ifetch_phase' \in BOOLEAN /\ ifetch_valid' \in BOOLEAN
    BY <1>1, <1>6, <2>3 DEF CtrlTypeOK
  <2>6. /\ ddram_addr' \in Addr \cup {None} /\ ddram_din' \in Val \cup Half \cup {None}
        /\ ddram_be' \in {"word", "low"}
        /\ data_rdata' \in Val \cup {None} /\ pt_rdata' \in Half \cup {None}
    BY <1>1, <2>2, <2>3 DEF CtrlTypeOK
  <2> QED  BY <2>4, <2>5, <2>6 DEF CtrlTypeOK
<1>7. CASE arb_state = "WAIT" /\ Collect(dout)
  <2>1. /\ arb_state' \in {"WAIT", "IFETCH", "IDLE"} /\ arb' = arb
        /\ ddram_rd' = FALSE /\ ddram_we' = FALSE
        /\ ddram_addr' = ddram_addr /\ ddram_din' = ddram_din /\ ddram_be' = ddram_be
    BY <1>7 DEF Collect
  <2>2. /\ ifetch_phase' \in BOOLEAN /\ ifetch_valid' \in BOOLEAN
        /\ data_ack' \in BOOLEAN /\ pt_ack' \in BOOLEAN
    BY <1>7 DEF Collect
  <2>3. data_rdata' \in Val \cup {None} /\ pt_rdata' \in Half \cup {None}
    <3> HIDE DEF dout
    <3> QED  BY <1>1, <1>4, <1>7 DEF Collect, CtrlTypeOK
  <2> QED  BY <1>1, <2>1, <2>2, <2>3 DEF CtrlTypeOK
<1> QED  BY <1>2, <1>5, <1>6, <1>7 DEF CtrlClock

LEMMA DramTypes ==
  ASSUME TypeInv,
         NEW event, NEW req, NEW hold, NEW ifetch, NEW data, NEW busy, NEW deliver,
         Step(event, req, hold, ifetch, data, busy, deliver)
  PROVE  DramTypeOK'
<1>1. DramClock(deliver, ddram_rd, ddram_we, ddram_addr, ddram_din, ddram_be)
  BY StepParts
<1>2. mem' \in [Addr -> Val]
  <2>1. mem \in [Addr -> Val] /\ mem' = Written(ddram_we, ddram_addr, ddram_din, ddram_be)
    BY <1>1 DEF TypeInv, WalkTypeOK, DramTypeOK, DramClock
  <2>2. CASE ~ddram_we
    BY <2>1, <2>2 DEF Written
  <2>3. CASE ddram_we /\ ddram_be = "low"
    <3>1. ddram_addr \in Addr /\ ddram_din \in PageEntry
      BY <2>3 DEF TypeInv, SoundBus
    <3>2. mem[ddram_addr] \in [0..1 -> PageEntry]
      BY <2>1, <3>1, WordParts
    <3>3. [mem[ddram_addr] EXCEPT ![0] = ddram_din] \in Val
      BY <3>1, <3>2, EntryAssumption
    <3>4. mem' = [mem EXCEPT ![ddram_addr] = [mem[ddram_addr] EXCEPT ![0] = ddram_din]]
      BY <2>1, <2>3, <3>1 DEF Written
    <3> QED  BY <2>1, <3>1, <3>3, <3>4
  <2>4. CASE ddram_we /\ ddram_be # "low"
    <3>1. ddram_addr = DataAddr /\ ddram_din \in Val
      BY <2>4 DEF TypeInv, SoundBus
    <3> QED  BY <2>1, <2>4, <3>1 DEF Written
  <2> QED  BY <2>2, <2>3, <2>4
<1>3. ddram_rd => ddram_addr \in Addr
  <2>1. ddram_rd => arb \in Accepted /\ ddram_addr = arb.addr
    BY DEF TypeInv, WalkTypeOK, CtrlTypeOK, SoundBus
  <2> QED  BY <2>1 DEF Accepted
<1>4. rd_pending \in Addr \cup {None}
  BY DEF TypeInv, WalkTypeOK, DramTypeOK
<1> QED  BY <1>1, <1>2, <1>3, <1>4 DEF DramClock, DramTypeOK

LEMMA TypesStep ==
  ASSUME TypeInv,
         NEW event, NEW req, NEW hold, NEW ifetch, NEW data, NEW busy, NEW deliver,
         Step(event, req, hold, ifetch, data, busy, deliver)
  PROVE  WalkTypeOK'
<1>1. TlbTypeOK' /\ WalkerTypeOK' /\ XlTypeOK' /\ CtrlTypeOK' /\ DramTypeOK'
  BY TlbTypes, WalkerTypes, XlTypes, CtrlTypes, DramTypes
<1>2. sys_cr3' \in Directory
  BY StepParts DEF TypeInv, WalkTypeOK
<1>3. paging' \in BOOLEAN /\ paging_prev' \in BOOLEAN
  <2>1. paging' = (paging # (event = "PG")) /\ paging_prev' = paging
    BY StepParts
  <2>2. paging \in BOOLEAN
    BY DEF TypeInv, WalkTypeOK
  <2> QED  BY <2>1, <2>2
<1>4. xlat_ctx' \in [linear : Vpn, is_store : BOOLEAN] \cup {None}
  <2>1. \/ xlat_ctx' = None \/ xlat_ctx' = xlat_ctx
        \/ req # None /\ xlat_ctx' = [linear |-> req.vpn, is_store |-> req.write]
    BY DEF Step, Cycle
  <2>2. req # None => req.vpn \in Vpn /\ req.write \in BOOLEAN
    BY Inputs DEF Access
  <2> QED  BY <2>1, <2>2 DEF TypeInv, WalkTypeOK
<1>5. orphan' \in BOOLEAN /\ misled' \in BOOLEAN
  <2>1. Remember(Flushes(event)) /\ misled \in BOOLEAN
    BY StepParts DEF TypeInv, WalkTypeOK
  <2> QED  BY <2>1 DEF Remember
<1> QED  BY <1>1, <1>2, <1>3, <1>4, <1>5 DEF WalkTypeOK

LEMMA TypeInvStep ==
  ASSUME TypeInv,
         NEW event, NEW req, NEW hold, NEW ifetch, NEW data, NEW busy, NEW deliver,
         Step(event, req, hold, ifetch, data, busy, deliver)
  PROVE  TypeInv'
<1>1. WalkTypeOK'
  BY TypesStep
<1>2. UniqueMatch'
  <2>1. TlbClock(tlb_lookup(paging), tlb_fill, None, event \in Directory)
    BY StepParts
  <2>2. PICK lookup, fill, flush_all : TlbClock(lookup, fill, None, flush_all)
    BY <2>1
  <2> QED  BY <2>2, UniqueMatchStep DEF TypeInv
<1>3. SoundRequest' /\ InStep' /\ HasRead' /\ SoundBus'
  BY RequestStep, InStepStep, HasReadStep, BusStep
<1> QED  BY <1>1, <1>2, <1>3 DEF TypeInv

(***************************************************************************)
(* Memory, as long as the walker has not been misled                       *)
(***************************************************************************)
\* The word of the table entry that a walk is about.
MarkedWord == WordOf(TabAddr(mem, sys_cr3, walk.vpn))

\* While the walker waits for its write, it holds the entry that is in memory.
LEMMA WalkersCopy ==
  ASSUME WalkInv, walk_state \in {"AD_UPDATE", "AD_WAIT"}
  PROVE  /\ MarkedWord \in Addr \ {DataAddr} /\ WordOf(pte_addr) = MarkedWord
         /\ pte = mem[MarkedWord][0] /\ pte \in PageEntry
<1>1. walk \in Access /\ walk.vpn \in Vpn
  BY DEF WalkInv, TypeInv, InStep, SoundRequest, Access
<1>2. /\ mem \in [Addr -> Val] /\ Mapped(mem) /\ sys_cr3 \in Directory
      /\ DirEntry(mem, sys_cr3, walk.vpn).present
      /\ pte_addr = TabAddr(mem, sys_cr3, walk.vpn)
      /\ pte = TabEntry(mem, sys_cr3, walk.vpn)
  BY DEF WalkInv, TypeInv, WalkTypeOK, DramTypeOK, SoundTables, SoundWalker, DirAllows
<1> QED  BY <1>1, <1>2, TabWord DEF MarkedWord

\* The net effect of a cycle on memory: the low half of a word of the tables is
\* replaced by a mark of its own, be it for a walk or what a flush has left of one.
LEMMA MemoryStep ==
  ASSUME WalkInv, NEW deliver,
         DramClock(deliver, ddram_rd, ddram_we, ddram_addr, ddram_din, ddram_be)
  PROVE  /\ ~ddram_we => mem' = mem
         /\ ddram_we /\ ddram_be = "low" =>
              /\ pt_ack /\ ddram_addr \in Addr \ {DataAddr} /\ ddram_din \in PageEntry
              /\ Remarked(mem[ddram_addr][0], ddram_din)
              /\ mem' = [mem EXCEPT ![ddram_addr] = [@ EXCEPT ![0] = ddram_din]]
         /\ ~(ddram_we /\ ddram_be = "low") =>
              \A a \in Addr \ {DataAddr} : mem'[a] = mem[a]
<1>1. mem \in [Addr -> Val] /\ mem' = Written(ddram_we, ddram_addr, ddram_din, ddram_be)
  BY DEF WalkInv, TypeInv, WalkTypeOK, DramTypeOK, DramClock
<1>2. CASE ~ddram_we
  BY <1>1, <1>2 DEF Written
<1>3. CASE ddram_we /\ ddram_be = "low"
  <2>1. /\ pt_ack /\ ddram_addr \in Addr \ {DataAddr} /\ ddram_din \in PageEntry
        /\ Remarked(mem[ddram_addr][0], ddram_din)
    BY <1>3 DEF WalkInv, TypeInv, SoundBus, SoundPort
  <2> QED  BY <1>1, <1>3, <2>1 DEF Written
<1>4. CASE ddram_we /\ ddram_be # "low"
  <2>1. ddram_addr = DataAddr /\ ddram_din \in Val
    BY <1>4 DEF WalkInv, TypeInv, SoundBus
  <2>2. mem' = [mem EXCEPT ![DataAddr] = ddram_din]
    BY <1>1, <1>4, <2>1 DEF Written
  <2> QED  BY <1>1, <1>4, <2>1, <2>2
<1> QED  BY <1>2, <1>3, <1>4

\* Memory changes only by marks of low halves, as OnlyMarks says.
LEMMA MemoryRemarked ==
  ASSUME WalkInv, NEW deliver,
         DramClock(deliver, ddram_rd, ddram_we, ddram_addr, ddram_din, ddram_be),
         NEW a \in Addr \ {DataAddr}
  PROVE  Remarked(mem[a][0], mem'[a][0]) /\ mem'[a][1] = mem[a][1]
<1>1. /\ mem \in [Addr -> Val] /\ mem[a] \in [0..1 -> PageEntry]
      /\ mem[a][0] \in PageEntry
  BY WordParts DEF WalkInv, TypeInv, WalkTypeOK, DramTypeOK
<1>2. \A e \in PageEntry : Remarked(e, e)
  BY DEF PageEntry, Remarked
<1>3. CASE mem'[a] = mem[a]
  BY <1>1, <1>2, <1>3
<1>4. CASE mem'[a] # mem[a]
  <2>1. ddram_we /\ ddram_be = "low"
    BY <1>4, MemoryStep
  <2>2. /\ ddram_addr \in Addr /\ Remarked(mem[ddram_addr][0], ddram_din)
        /\ mem' = [mem EXCEPT ![ddram_addr] = [@ EXCEPT ![0] = ddram_din]]
    BY <2>1, MemoryStep
  <2>3. a = ddram_addr /\ mem'[a] = [mem[a] EXCEPT ![0] = ddram_din]
    BY <1>1, <1>4, <2>2
  <2>4. mem'[a][0] = ddram_din /\ mem'[a][1] = mem[a][1]
    BY <1>1, <2>3
  <2> QED  BY <2>2, <2>3, <2>4
<1> QED  BY <1>3, <1>4

LEMMA MemoryMarks ==
  ASSUME WalkInv, NEW deliver,
         DramClock(deliver, ddram_rd, ddram_we, ddram_addr, ddram_din, ddram_be)
  PROVE  Marks(mem, mem')
<1> SUFFICES ASSUME NEW a \in Addr \ {DataAddr}, NEW h \in 0..1
             PROVE  /\ mem[a][h].accessed => mem'[a][h].accessed
                    /\ mem[a][h].dirty => mem'[a][h].dirty
                    /\ mem'[a][h].present = mem[a][h].present
                    /\ mem'[a][h].user = mem[a][h].user
                    /\ mem'[a][h].writable = mem[a][h].writable
                    /\ mem'[a][h].base = mem[a][h].base
  BY DEF Marks
<1>1. mem[a][0] \in PageEntry
  BY WordParts DEF WalkInv, TypeInv, WalkTypeOK, DramTypeOK
<1>2. Remarked(mem[a][0], mem'[a][0]) /\ mem'[a][1] = mem[a][1]
  BY MemoryRemarked
<1>3. ASSUME NEW old \in PageEntry, NEW new, Remarked(old, new)
      PROVE  /\ old.accessed => new.accessed
             /\ old.dirty => new.dirty
             /\ new.present = old.present /\ new.user = old.user
             /\ new.writable = old.writable /\ new.base = old.base
  BY <1>3 DEF Remarked, PageEntry
<1>4. CASE h = 0
  BY <1>1, <1>2, <1>3, <1>4
<1>5. CASE h = 1
  BY <1>2, <1>5
<1> QED  BY <1>4, <1>5

\* What no flush by CR3 comes between, stays so.
LEMMA Kept ==
  ASSUME WalkInv,
         NEW event, NEW req, NEW hold, NEW ifetch, NEW data, NEW busy, NEW deliver,
         Step(event, req, hold, ifetch, data, busy, deliver)
  PROVE  /\ mem \in [Addr -> Val] /\ mem' \in [Addr -> Val]
         /\ Mapped(mem) /\ Mapped(mem') /\ sys_cr3 \in Directory /\ sys_cr3' \in Directory
         /\ event \notin Directory => sys_cr3' = sys_cr3
         /\ \A f \in Directory, vpn \in Vpn :
              /\ DirEntry(mem', f, vpn).present = DirEntry(mem, f, vpn).present
              /\ DirEntry(mem', f, vpn).user = DirEntry(mem, f, vpn).user
              /\ DirEntry(mem', f, vpn).base = DirEntry(mem, f, vpn).base
              /\ TabAddr(mem', f, vpn) = TabAddr(mem, f, vpn)
              /\ \A c : Copies(mem, f, vpn, c) => Copies(mem', f, vpn, c)
         /\ \A f \in Directory, a \in Access :
              /\ DirAllows(mem, f, a) => DirAllows(mem', f, a)
              /\ DirAllows(mem, f, a) /\ TabAllows(mem, f, a) => TabAllows(mem', f, a)
              /\ Answers(mem', f, a) = Answers(mem, f, a)
<1>1. mem \in [Addr -> Val] /\ Mapped(mem) /\ sys_cr3 \in Directory
  BY DEF WalkInv, TypeInv, WalkTypeOK, DramTypeOK, SoundTables
<1>2. DramClock(deliver, ddram_rd, ddram_we, ddram_addr, ddram_din, ddram_be)
  BY StepParts
<1>3. mem' \in [Addr -> Val] /\ Marks(mem, mem')
  BY <1>2, MemoryMarks, TypesStep DEF WalkInv, WalkTypeOK, DramTypeOK
<1>4. /\ sys_cr3' \in Directory
      /\ event \notin Directory => sys_cr3' = sys_cr3
  BY <1>1, StepParts
<1> QED  BY <1>1, <1>3, <1>4, MarksKeep

LEMMA TablesStep ==
  ASSUME WalkInv,
         NEW event, NEW req, NEW hold, NEW ifetch, NEW data, NEW busy, NEW deliver,
         Step(event, req, hold, ifetch, data, busy, deliver)
  PROVE  SoundTables'
BY Kept DEF WalkInv, SoundTables

(***************************************************************************)
(* The TLB                                                                 *)
(***************************************************************************)
\* What the frontend fills is a copy of the entry of the page it has walked for.
LEMMA FillCopies ==
  ASSUME WalkInv, xl_state = "FILL"
  PROVE  /\ tlb_fill.vpn \in Vpn
         /\ Copies(mem, sys_cr3, tlb_fill.vpn, tlb_fill)
<1>1. xl_req.vpn \in Vpn /\ Copies(mem, sys_cr3, xl_req.vpn, walk_out)
  BY DEF WalkInv, TypeInv, SoundRequest, SoundAnswer, WalkedWell, Access
<1>2. tlb_fill = [vpn |-> xl_req.vpn, ppn |-> walk_out.ppn, dirty |-> walk_out.dirty,
                  user |-> walk_out.user, writable |-> walk_out.writable]
  BY FillIsEntry DEF WalkInv
<1> QED  BY <1>1, <1>2 DEF Copies

LEMMA TlbStep ==
  ASSUME WalkInv,
         NEW event, NEW req, NEW hold, NEW ifetch, NEW data, NEW busy, NEW deliver,
         Step(event, req, hold, ifetch, data, busy, deliver)
  PROVE  SoundTlb'
<1>1. TlbClock(tlb_lookup(paging), tlb_fill, None, event \in Directory)
  BY StepParts
<1>2. ASSUME NEW i \in Slot, entry_valid'[i]
      PROVE  Copies(mem', sys_cr3', entry'[i].vpn, entry'[i])
  <2> DEFINE slot == IF tlb_fill = None THEN None ELSE FillSlot(tlb_fill.vpn)
  <2>1. /\ entry'[i] = IF i = slot THEN tlb_fill ELSE entry[i]
        /\ (entry_valid[i] \/ i = slot) /\ i \notin Dropped(None, event \in Directory)
    BY <1>1, <1>2 DEF TlbClock
  <2>2. event \notin Directory
    BY <2>1 DEF Dropped
  <2>3. sys_cr3' = sys_cr3 /\ sys_cr3 \in Directory
    BY <2>2, Kept
  <2>4. CASE i = slot
    <3>1. xl_state = "FILL"
      BY <2>4, NoneIsNoSlot DEF tlb_fill
    <3>2. entry'[i] = tlb_fill
      BY <2>1, <2>4
    <3>3. Copies(mem, sys_cr3, tlb_fill.vpn, tlb_fill) /\ tlb_fill.vpn \in Vpn
      BY <3>1, FillCopies
    <3> HIDE DEF slot
    <3> QED  BY <2>3, <3>2, <3>3, Kept
  <2>5. CASE i # slot
    <3>1. entry'[i] = entry[i] /\ entry_valid[i]
      BY <2>1, <2>5
    <3>2. entry[i] \in TlbEntry /\ Copies(mem, sys_cr3, entry[i].vpn, entry[i])
      BY <3>1 DEF WalkInv, TypeInv, InStep, SoundTlb
    <3>3. entry[i].vpn \in Vpn
      BY <3>2 DEF TlbEntry
    <3> HIDE DEF slot
    <3> QED  BY <2>3, <3>1, <3>2, <3>3, Kept
  <2> QED  BY <2>4, <2>5
<1> QED  BY <1>2 DEF SoundTlb

(***************************************************************************)
(* The walker                                                              *)
(***************************************************************************)
\* Only the walker's write changes a word of the tables.
LEMMA EntriesKept ==
  ASSUME WalkInv, ~(ddram_we /\ ddram_be = "low"),
         NEW event, NEW req, NEW hold, NEW ifetch, NEW data, NEW busy, NEW deliver,
         Step(event, req, hold, ifetch, data, busy, deliver),
         NEW vpn \in Vpn
  PROVE  /\ DirEntry(mem', sys_cr3, vpn) = DirEntry(mem, sys_cr3, vpn)
         /\ DirEntry(mem, sys_cr3, vpn).present =>
              TabEntry(mem', sys_cr3, vpn) = TabEntry(mem, sys_cr3, vpn)
<1>1. \A a \in Addr \ {DataAddr} : mem'[a] = mem[a]
  BY StepParts, MemoryStep
<1>2. /\ WordOf(<<sys_cr3, vpn[1]>>) \in Addr \ {DataAddr}
      /\ WordOf(<<sys_cr3, vpn[1]>>) = <<sys_cr3, vpn[1] \div 2>>
  BY Kept, DirWord
<1>3. DirEntry(mem', sys_cr3, vpn) = DirEntry(mem, sys_cr3, vpn)
  BY <1>1, <1>2 DEF DirEntry
<1>4. ASSUME DirEntry(mem, sys_cr3, vpn).present
      PROVE  TabEntry(mem', sys_cr3, vpn) = TabEntry(mem, sys_cr3, vpn)
  <2> DEFINE x == <<DirEntry(mem, sys_cr3, vpn).base, vpn[2] \div 2>>
  <2>1. x \in Addr \ {DataAddr}
    <3>1. mem \in [Addr -> Val] /\ Mapped(mem) /\ sys_cr3 \in Directory
      BY Kept
    <3>2. WordOf(TabAddr(mem, sys_cr3, vpn)) = x
      BY <1>4, <3>1, TabWord
    <3>3. WordOf(TabAddr(mem, sys_cr3, vpn)) \in Addr \ {DataAddr}
      BY <1>4, <3>1, TabWord
    <3> HIDE DEF x
    <3> QED  BY <3>2, <3>3
  <2>2. TabEntry(mem', sys_cr3, vpn) = mem'[x][0]
    BY <1>3 DEF TabEntry
  <2>3. TabEntry(mem, sys_cr3, vpn) = mem[x][0]
    BY DEF TabEntry
  <2> HIDE DEF x
  <2> QED  BY <1>1, <2>1, <2>2, <2>3
<1> QED  BY <1>3, <1>4

\* Nothing is written to the tables unless it is acknowledged to the walker.
LEMMA NoMarkUnseen ==
  ASSUME WalkInv, \/ ~pt_ack \/ walk_state = "AD_UPDATE"
                  \/ walk_state = "PTE_WAIT" /\ ~orphan
  PROVE  ~(ddram_we /\ ddram_be = "low")
BY DEF WalkInv, TypeInv, SoundBus, SoundPort, Held, Waiting

\* An acknowledge brings the entry the walker has asked for.
LEMMA AckBrings ==
  ASSUME WalkInv, pt_ack, ~orphan
  PROVE  /\ walk_state \in Waiting
         /\ walk_state = "PDE_WAIT" =>
              /\ pt_rdata = DirEntry(mem, sys_cr3, walk.vpn)
              /\ pt_rdata \in PageEntry
         /\ walk_state = "PTE_WAIT" =>
              /\ pt_rdata = TabEntry(mem, sys_cr3, walk.vpn)
              /\ pt_rdata \in PageEntry
<1>1. walk_state \in Waiting
  BY DEF WalkInv, SoundPort, Held
<1>2. walk \in Access /\ walk.vpn \in Vpn
  BY <1>1 DEF WalkInv, TypeInv, InStep, SoundRequest, Access, Waiting
<1>3. mem \in [Addr -> Val] /\ Mapped(mem) /\ sys_cr3 \in Directory
  BY DEF WalkInv, TypeInv, WalkTypeOK, DramTypeOK, SoundTables
<1>4. CASE walk_state = "PDE_WAIT"
  <2>1. pt_rdata = mem[WordOf(<<sys_cr3, walk.vpn[1]>>)][0]
    BY <1>4 DEF WalkInv, SoundPort, Asked, ReadFrom
  <2> QED  BY <1>1, <1>2, <1>3, <1>4, <2>1, DirWord
<1>5. CASE walk_state = "PTE_WAIT"
  <2>1. pt_rdata = mem[WordOf(pte_addr)][0]
    BY <1>5 DEF WalkInv, SoundPort, Asked, ReadFrom
  <2>2. /\ pte_addr = TabAddr(mem, sys_cr3, walk.vpn)
        /\ DirEntry(mem, sys_cr3, walk.vpn).present
    BY <1>5 DEF WalkInv, SoundWalker, DirAllows
  <2> QED  BY <1>1, <1>2, <1>3, <1>5, <2>1, <2>2, TabWord
<1> QED  BY <1>1, <1>4, <1>5

LEMMA WalkerStep ==
  ASSUME WalkInv,
         NEW event, NEW req, NEW hold, NEW ifetch, NEW data, NEW busy, NEW deliver,
         Step(event, req, hold, ifetch, data, busy, deliver), ~misled'
  PROVE  SoundWalker'
<1>1. CASE walk_state' = "IDLE"
  BY <1>1 DEF SoundWalker
<1>2. CASE walk_state' # "IDLE"
  <2>1. ~Flushes(event)
    BY <1>2, StepParts DEF CancelWalk
  <2>2. CASE Take(walk_req)
    BY <1>2, <2>1, <2>2, WalkBegins DEF SoundWalker, WalkInv
  <2>3. CASE ~Take(walk_req)
    <3>1. \/ FetchPde(sys_cr3) \/ Wait(pt_ack)
          \/ PdeArrives(pt_ack, pt_rdata) \/ FetchPte
          \/ PteArrives(pt_ack, pt_rdata) \/ UpdateAd \/ AdWritten(pt_ack)
      BY <2>1, <2>3, StepParts
    <3>2. walk_state # "IDLE" /\ walk' = walk
      BY <3>1 DEF FetchPde, Wait, PdeArrives, FetchPte, PteArrives, UpdateAd, AdWritten, Waiting
    <3>3. /\ xl_state' = "WALK" /\ walk_req_sent' /\ walk' = xl_req' /\ sys_cr3' = sys_cr3
          /\ walk \in Access /\ walk.vpn \in Vpn
      BY <2>1, <3>2, FrontendWaits DEF WalkInv
    <3>4. sys_cr3 \in Directory
      BY Kept
    \* Marks do not change the way of the walk.
    <3>12. /\ DirEntry(mem', sys_cr3', walk'.vpn).base = DirEntry(mem, sys_cr3, walk.vpn).base
           /\ TabAddr(mem', sys_cr3', walk'.vpn) = TabAddr(mem, sys_cr3, walk.vpn)
           /\ DirAllows(mem, sys_cr3, walk) => DirAllows(mem', sys_cr3', walk')
           /\ DirAllows(mem, sys_cr3, walk) /\ TabAllows(mem, sys_cr3, walk) =>
                TabAllows(mem', sys_cr3', walk')
      <4>1. /\ DirEntry(mem', sys_cr3, walk.vpn).base = DirEntry(mem, sys_cr3, walk.vpn).base
            /\ TabAddr(mem', sys_cr3, walk.vpn) = TabAddr(mem, sys_cr3, walk.vpn)
            /\ DirAllows(mem, sys_cr3, walk) => DirAllows(mem', sys_cr3, walk)
            /\ DirAllows(mem, sys_cr3, walk) /\ TabAllows(mem, sys_cr3, walk) =>
                 TabAllows(mem', sys_cr3, walk)
        BY <3>3, <3>4, Kept
      <4>2. sys_cr3' = sys_cr3 /\ walk' = walk
        BY <3>2, <3>3
      <4> QED BY <4>1, <4>2
    <3>5. CASE FetchPde(sys_cr3)
      BY <3>3, <3>5 DEF FetchPde, Goes, SoundWalker
    <3>6. CASE Wait(pt_ack)
      <4>1. /\ walk_state' = walk_state /\ pde' = pde /\ pte' = pte /\ pte_addr' = pte_addr
            /\ walk_state \in Waiting /\ ~pt_ack
        BY <3>6 DEF Wait
      <4>2. walk_state \in {"PTE_WAIT", "AD_WAIT"} =>
              /\ DirAllows(mem', sys_cr3', walk') /\ pte_addr' = TabAddr(mem', sys_cr3', walk'.vpn)
        BY <3>12, <4>1 DEF WalkInv, SoundWalker
      <4>3. walk_state = "AD_WAIT" =>
              /\ pte' = TabEntry(mem', sys_cr3', walk'.vpn) /\ TabAllows(mem', sys_cr3', walk')
        <5> SUFFICES ASSUME walk_state = "AD_WAIT"
                     PROVE  /\ pte' = TabEntry(mem', sys_cr3', walk'.vpn)
                            /\ TabAllows(mem', sys_cr3', walk')
          OBVIOUS
        <5>1. /\ DirAllows(mem, sys_cr3, walk) /\ TabAllows(mem, sys_cr3, walk)
              /\ pte = TabEntry(mem, sys_cr3, walk.vpn)
          BY DEF WalkInv, SoundWalker
        <5>2. TabEntry(mem', sys_cr3, walk.vpn) = TabEntry(mem, sys_cr3, walk.vpn)
          BY <3>3, <4>1, <5>1, NoMarkUnseen, EntriesKept DEF DirAllows
        <5> QED  BY <3>2, <3>3, <3>12, <4>1, <5>1, <5>2
      <4> QED  BY <3>3, <4>1, <4>2, <4>3 DEF SoundWalker, Waiting
    <3>7. CASE PdeArrives(pt_ack, pt_rdata)
      <4>1. walk_state = "PDE_WAIT" /\ pt_ack /\ ~orphan /\ pde' = pt_rdata
        BY <2>1, <3>7, AckIsOwn DEF PdeArrives, Waiting
      <4>2. pt_rdata = DirEntry(mem, sys_cr3, walk.vpn) /\ pt_rdata \in PageEntry
        BY <4>1, AckBrings
      <4>3. /\ walk_state' = "PTE_FETCH" /\ pt_rdata.present
            /\ walk.user => pt_rdata.user
        BY <1>2, <3>7 DEF PdeArrives, Faults, Goes
      <4>4. DirAllows(mem', sys_cr3', walk')
        BY <3>12, <4>2, <4>3 DEF DirAllows
      <4>5. pde'.base = DirEntry(mem', sys_cr3', walk'.vpn).base
        BY <3>12, <4>1, <4>2
      <4> QED  BY <3>3, <4>3, <4>4, <4>5 DEF SoundWalker
    <3>8. CASE FetchPte
      <4>1. /\ walk_state = "PTE_FETCH" /\ walk_state' = "PTE_WAIT"
            /\ pte_addr' = <<pde.base, walk.vpn[2]>>
        BY <3>8 DEF FetchPte, Goes
      <4>2. DirAllows(mem', sys_cr3', walk')
        BY <3>12, <4>1 DEF WalkInv, SoundWalker
      <4>3. pte_addr' = TabAddr(mem', sys_cr3', walk'.vpn)
        <5>1. pte_addr' = TabAddr(mem, sys_cr3, walk.vpn)
          BY <4>1 DEF WalkInv, SoundWalker, TabAddr
        <5> QED  BY <3>12, <5>1
      <4> QED  BY <3>3, <4>1, <4>2, <4>3 DEF SoundWalker
    <3>9. CASE PteArrives(pt_ack, pt_rdata)
      <4>1. /\ walk_state = "PTE_WAIT" /\ pt_ack /\ ~orphan
            /\ pte' = pt_rdata /\ pte_addr' = pte_addr
        BY <2>1, <3>9, AckIsOwn DEF PteArrives, Waiting
      <4>2. pt_rdata = TabEntry(mem, sys_cr3, walk.vpn) /\ pt_rdata \in PageEntry
        BY <4>1, AckBrings
      <4>3. /\ walk_state' = "AD_UPDATE" /\ pt_rdata.present
            /\ walk.user => pt_rdata.user
            /\ walk.write => pt_rdata.writable
        BY <1>2, <3>9 DEF PteArrives, Faults, Succeeds, Goes
      <4>4. /\ DirAllows(mem, sys_cr3, walk) /\ DirAllows(mem', sys_cr3', walk')
            /\ pte_addr' = TabAddr(mem', sys_cr3', walk'.vpn)
        BY <3>12, <4>1 DEF WalkInv, SoundWalker
      <4>5. pte' = TabEntry(mem', sys_cr3', walk'.vpn)
        BY <3>2, <3>3, <4>1, <4>2, <4>4, NoMarkUnseen, EntriesKept DEF DirAllows
      <4>6. TabAllows(mem, sys_cr3, walk)
        BY <4>2, <4>3 DEF TabAllows
      <4>7. TabAllows(mem', sys_cr3', walk')
        BY <3>12, <4>4, <4>6
      <4> QED  BY <3>3, <4>3, <4>4, <4>5, <4>7 DEF SoundWalker
    <3>10. CASE UpdateAd
      <4>1. /\ walk_state = "AD_UPDATE" /\ walk_state' = "AD_WAIT"
            /\ pte' = pte /\ pte_addr' = pte_addr
        BY <3>10 DEF UpdateAd, Goes
      <4>2. /\ DirAllows(mem, sys_cr3, walk) /\ TabAllows(mem, sys_cr3, walk)
            /\ pte_addr = TabAddr(mem, sys_cr3, walk.vpn)
            /\ pte = TabEntry(mem, sys_cr3, walk.vpn)
        BY <4>1 DEF WalkInv, SoundWalker
      <4>3. /\ DirAllows(mem', sys_cr3', walk') /\ TabAllows(mem', sys_cr3', walk')
            /\ pte_addr' = TabAddr(mem', sys_cr3', walk'.vpn)
        BY <3>12, <4>1, <4>2
      <4>4. pte' = TabEntry(mem', sys_cr3', walk'.vpn)
        BY <3>2, <3>3, <4>1, <4>2, NoMarkUnseen, EntriesKept DEF DirAllows
      <4> QED  BY <3>3, <4>1, <4>3, <4>4 DEF SoundWalker
    <3>11. CASE AdWritten(pt_ack)
      BY <1>2, <3>11 DEF AdWritten, Succeeds
    <3> QED  BY <3>1, <3>5, <3>6, <3>7, <3>8, <3>9, <3>10, <3>11
  <2> QED  BY <2>2, <2>3
<1> QED  BY <1>1, <1>2

(***************************************************************************)
(* The answer                                                              *)
(***************************************************************************)
\* What the tables say in the cases that the walker, or the TLB, tells apart.
LEMMA TablesSay ==
  ASSUME NEW m, NEW f, NEW a
  PROVE  LET d == DirEntry(m, f, a.vpn)
             t == TabEntry(m, f, a.vpn)
             Code(present) == [user |-> a.user, write |-> a.write, present |-> present]
         IN  /\ ~d.present => Fault(Code(FALSE)) \in Answers(m, f, a)
             /\ d.present /\ a.user /\ ~d.user => Fault(Code(TRUE)) \in Answers(m, f, a)
             /\ d.present /\ ~t.present => Fault(Code(FALSE)) \in Answers(m, f, a)
             /\ d.present /\ t.present /\ ((a.user /\ ~t.user) \/ (a.write /\ ~t.writable))
                  => Fault(Code(TRUE)) \in Answers(m, f, a)
             /\ d.present /\ TabAllows(m, f, a) => Found(t.base) \in Answers(m, f, a)
BY DEF Answers, InTable, Refused, TabAllows

LEMMA CodeIsFault ==
  ASSUME NEW a \in Access, NEW present \in BOOLEAN
  PROVE  [user |-> a.user, write |-> a.write, present |-> present] \in FaultCode
BY DEF Access, FaultCode

\* A walk that has found and marked its entry.
LEMMA MarkedEntry ==
  ASSUME WalkInv, walk_state = "AD_WAIT", pt_ack, ~orphan,
         NEW event, NEW req, NEW hold, NEW ifetch, NEW data, NEW busy, NEW deliver,
         Step(event, req, hold, ifetch, data, busy, deliver)
  PROVE  TabEntry(mem', sys_cr3, walk.vpn) = Marked(pte)
<1>1. walk \in Access /\ walk.vpn \in Vpn
  BY DEF WalkInv, TypeInv, InStep, SoundRequest, Access
<1>2. /\ ddram_we /\ ddram_be = "low"
      /\ ddram_addr = MarkedWord /\ ddram_din = Marked(pte)
  BY WalkersCopy DEF WalkInv, SoundPort
<1>3. mem' = [mem EXCEPT ![MarkedWord] = [@ EXCEPT ![0] = Marked(pte)]]
  BY <1>2, StepParts, MemoryStep
<1>4. MarkedWord \in Addr
  BY WalkersCopy
<1>5. mem \in [Addr -> Val] /\ mem[MarkedWord] \in [0..1 -> PageEntry]
  BY <1>4, Kept, WordParts
<1>6. mem'[MarkedWord][0] = Marked(pte)
  BY <1>3, <1>4, <1>5
<1>7. MarkedWord = <<DirEntry(mem', sys_cr3, walk.vpn).base, walk.vpn[2] \div 2>>
  <2>1. MarkedWord = <<DirEntry(mem, sys_cr3, walk.vpn).base, walk.vpn[2] \div 2>>
    BY DEF MarkedWord, TabAddr, WordOf
  <2> QED  BY <1>1, <2>1, Kept
<1> QED  BY <1>6, <1>7 DEF TabEntry

LEMMA WalkAnswers ==
  ASSUME WalkInv, walk_done',
         NEW event, NEW req, NEW hold, NEW ifetch, NEW data, NEW busy, NEW deliver,
         Step(event, req, hold, ifetch, data, busy, deliver), ~misled'
  PROVE  /\ walk_fault' # None => Fault(walk_fault') \in Answers(mem', sys_cr3', xl_req')
         /\ walk_fault' = None => WalkedWell'
<1>1. ~Flushes(event)
  BY StepParts DEF CancelWalk, Quiet
<1>2. PdeArrives(pt_ack, pt_rdata) \/ PteArrives(pt_ack, pt_rdata) \/ AdWritten(pt_ack)
  BY <1>1, StepParts DEF Take, FetchPde, Wait, FetchPte, UpdateAd, Quiet, Goes
<1>3. walk_state # "IDLE"
  BY <1>2 DEF PdeArrives, PteArrives, AdWritten
<1>4. /\ xl_req' = walk /\ sys_cr3' = sys_cr3
      /\ walk \in Access /\ walk.vpn \in Vpn /\ sys_cr3 \in Directory
  BY <1>1, <1>3, FrontendWaits, Kept DEF WalkInv
<1>5. Answers(mem', sys_cr3', xl_req') = Answers(mem, sys_cr3, walk)
  BY <1>4, Kept
<1> DEFINE Code(present) == [user |-> walk.user, write |-> walk.write, present |-> present]
<1>9. ~orphan
  BY <1>1, <1>2, AckIsOwn DEF PdeArrives, PteArrives, AdWritten, Waiting
<1>6. CASE PdeArrives(pt_ack, pt_rdata)
  <2>1. /\ pt_rdata = DirEntry(mem, sys_cr3, walk.vpn) /\ pt_rdata \in PageEntry
    BY <1>6, <1>9, AckBrings DEF PdeArrives
  <2>2. CASE ~pt_rdata.present
    <3>1. walk_fault' = Code(FALSE)
      BY <1>6, <2>2 DEF PdeArrives, Faults
    <3>2. Fault(Code(FALSE)) \in Answers(mem, sys_cr3, walk)
      BY <2>1, <2>2, TablesSay DEF DirAllows
    <3>3. walk_fault' # None
      BY <1>4, <3>1, CodeIsFault, Nones
    <3> QED  BY <1>4, <1>5, <3>1, <3>2, <3>3
  <2>3. CASE pt_rdata.present
    <3>1. pt_rdata.present /\ walk.user /\ ~pt_rdata.user
      BY <1>6, <2>3 DEF PdeArrives, Goes
    <3>2. walk_fault' = Code(TRUE)
      BY <1>6, <3>1 DEF PdeArrives, Faults
    <3>3. Fault(Code(TRUE)) \in Answers(mem, sys_cr3, walk)
      BY <2>1, <3>1, TablesSay
    <3>4. walk_fault' # None
      BY <1>4, <3>2, CodeIsFault, Nones
    <3> QED  BY <1>4, <1>5, <3>2, <3>3, <3>4
  <2> QED  BY <2>2, <2>3
<1>7. CASE PteArrives(pt_ack, pt_rdata)
  <2>1. /\ pt_rdata = TabEntry(mem, sys_cr3, walk.vpn) /\ pt_rdata \in PageEntry
        /\ DirAllows(mem, sys_cr3, walk)
    BY <1>7, <1>9, AckBrings DEF PteArrives, WalkInv, SoundWalker
  <2>2. CASE ~pt_rdata.present
    <3>1. walk_fault' = Code(FALSE)
      BY <1>7, <2>2 DEF PteArrives, Faults
    <3>2. Fault(Code(FALSE)) \in Answers(mem, sys_cr3, walk)
      BY <2>1, <2>2, TablesSay DEF DirAllows
    <3>3. walk_fault' # None
      BY <1>4, <3>1, CodeIsFault, Nones
    <3> QED  BY <1>4, <1>5, <3>1, <3>2, <3>3
  <2>3. CASE /\ pt_rdata.present
             /\ (walk.user /\ ~pt_rdata.user) \/ (walk.write /\ ~pt_rdata.writable)
    <3>1. walk_fault' = Code(TRUE)
      BY <1>7, <2>3 DEF PteArrives, Faults
    <3>2. Fault(Code(TRUE)) \in Answers(mem, sys_cr3, walk)
      BY <2>1, <2>3, TablesSay DEF DirAllows
    <3>3. walk_fault' # None
      BY <1>4, <3>1, CodeIsFault, Nones
    <3> QED  BY <1>4, <1>5, <3>1, <3>2, <3>3
  <2>4. CASE /\ pt_rdata.present
             /\ ~((walk.user /\ ~pt_rdata.user) \/ (walk.write /\ ~pt_rdata.writable))
    <3>1. /\ pt_rdata.accessed /\ (walk.write => pt_rdata.dirty)
          /\ Succeeds(pt_rdata, pt_rdata.dirty)
      BY <1>7, <2>4 DEF PteArrives, Goes
    <3>2. /\ walk_fault' = None
          /\ walk_out' = [ppn |-> pt_rdata.base, dirty |-> pt_rdata.dirty,
                          user |-> pt_rdata.user, writable |-> pt_rdata.writable]
      BY <3>1 DEF Succeeds
    <3>4. Copies(mem, sys_cr3, walk.vpn, walk_out')
      BY <2>1, <2>4, <3>1, <3>2 DEF Copies, DirAllows
    <3>5. TabAllows(mem, sys_cr3, walk)
      BY <2>1, <2>4 DEF TabAllows
    <3>6. /\ Copies(mem', sys_cr3', xl_req'.vpn, walk_out')
          /\ TabAllows(mem', sys_cr3', xl_req')
      BY <1>4, <2>1, <3>4, <3>5, Kept
    <3> QED  BY <3>2, <3>6 DEF WalkedWell
  <2> QED  BY <2>2, <2>3, <2>4
<1>8. CASE AdWritten(pt_ack)
  <2>1. /\ walk_state = "AD_WAIT" /\ pt_ack
        /\ walk_fault' = None
        /\ walk_out' = [ppn |-> pte.base, dirty |-> (pte.dirty \/ walk.write),
                        user |-> pte.user, writable |-> pte.writable]
    BY <1>8 DEF AdWritten, Succeeds
  <2>2. /\ pte \in PageEntry /\ pte = TabEntry(mem, sys_cr3, walk.vpn)
        /\ DirAllows(mem, sys_cr3, walk) /\ TabAllows(mem, sys_cr3, walk)
    BY <2>1, WalkersCopy DEF WalkInv, SoundWalker
  <2>3. TabEntry(mem', sys_cr3, walk.vpn) = Marked(pte)
    BY <1>9, <2>1, MarkedEntry
  <2>6. /\ DirAllows(mem', sys_cr3', xl_req') /\ TabAllows(mem', sys_cr3', xl_req')
    BY <1>4, <2>2, Kept
  <2>7. Copies(mem', sys_cr3', xl_req'.vpn, walk_out')
    <3>1. /\ Marked(pte).present = pte.present /\ Marked(pte).user = pte.user
          /\ Marked(pte).writable = pte.writable /\ Marked(pte).base = pte.base
          /\ Marked(pte).accessed /\ Marked(pte).dirty = (pte.dirty \/ walk.write)
      BY <2>2 DEF Marked, PageEntry
    <3>2. DirEntry(mem', sys_cr3, walk.vpn).present /\ pte.present
      BY <1>4, <2>2, <2>6 DEF DirAllows, TabAllows
    <3> QED  BY <1>4, <2>1, <2>3, <3>1, <3>2 DEF Copies
  <2> QED  BY <2>1, <2>6, <2>7 DEF WalkedWell
<1> QED  BY <1>2, <1>6, <1>7, <1>8

LEMMA WellIsTranslation ==
  ASSUME WalkedWell
  PROVE  Found(walk_out.ppn) \in Answers(mem, sys_cr3, xl_req)
BY TablesSay DEF WalkedWell, Copies

\* After a walk, what it has found stays until it is filled.
LEMMA WellStays ==
  ASSUME WalkInv, WalkedWell, xl_req \in Access,
         NEW event, NEW req, NEW hold, NEW ifetch, NEW data, NEW busy, NEW deliver,
         Step(event, req, hold, ifetch, data, busy, deliver), ~Flushes(event),
         xl_req' = xl_req, walk_out' = walk_out
  PROVE  WalkedWell'
<1>1. sys_cr3' = sys_cr3 /\ sys_cr3 \in Directory /\ xl_req.vpn \in Vpn
  BY Kept, NoFlush DEF Access
<1>2. Copies(mem', sys_cr3', xl_req'.vpn, walk_out')
  BY <1>1, Kept DEF WalkedWell
<1>3. TabAllows(mem', sys_cr3', xl_req')
  BY <1>1, Kept DEF WalkedWell, Copies, DirAllows
<1> QED  BY <1>2, <1>3 DEF WalkedWell

\* A hit answers as the table does, whatever the directory.
LEMMA LookupAnswers ==
  ASSUME WalkInv, LookedUp, xl_state' = "RESP"
  PROVE  xl_resp' \in Answers(mem, sys_cr3, xl_req)
<1> DEFINE e == entry[tlb_r.slot]
           d == DirEntry(mem, sys_cr3, xl_req.vpn)
           t == TabEntry(mem, sys_cr3, xl_req.vpn)
<1>1. xl_state = "WAIT_LOOKUP" /\ tlb_r # None /\ tlb_r.slot # None
  BY DEF LookedUp, lookup_fault, lookup_hit, any_hit
<1>2. /\ tlb_r.write = xl_req.write /\ tlb_r.user = xl_req.user
      /\ entry_valid[tlb_r.slot] /\ e.vpn = xl_req.vpn
      /\ xl_req \in Access /\ xl_req.vpn \in Vpn
  BY <1>1 DEF WalkInv, TypeInv, SoundRequest, Access
<1>3. tlb_r.slot \in Slot
  BY <1>1 DEF WalkInv, TypeInv, WalkTypeOK, TlbTypeOK
<1>4. Copies(mem, sys_cr3, xl_req.vpn, e)
  BY <1>2, <1>3 DEF WalkInv, SoundTlb
<1>5. d.present /\ t.present
      /\ e.ppn = t.base /\ e.user = t.user /\ e.writable = t.writable
  BY <1>4 DEF Copies
<1>7. perm_ok <=> (xl_req.user => t.user) /\ (xl_req.write => t.writable)
  BY <1>2, <1>5 DEF perm_ok
<1> HIDE DEF d, t, e
<1>8. CASE perm_ok
  <2>1. xl_resp' = Found(e.ppn)
    BY <1>1, <1>8 DEF LookedUp, lookup_fault, lookup_hit, any_hit, e
  <2>2. TabAllows(mem, sys_cr3, xl_req)
    BY <1>5, <1>7, <1>8 DEF TabAllows, t
  <2>3. Found(t.base) \in Answers(mem, sys_cr3, xl_req)
    BY <1>5, <2>2, TablesSay DEF d, t
  <2> QED  BY <1>5, <2>1, <2>3
<1>9. CASE ~perm_ok
  <2>1. xl_resp' = Fault([user |-> tlb_r.user, write |-> tlb_r.write, present |-> TRUE])
    BY <1>1, <1>9 DEF LookedUp, lookup_fault, any_hit
  <2>2. (xl_req.user /\ ~t.user) \/ (xl_req.write /\ ~t.writable)
    BY <1>7, <1>9
  <2>3. Fault([user |-> xl_req.user, write |-> xl_req.write, present |-> TRUE])
          \in Answers(mem, sys_cr3, xl_req)
    BY <1>5, <2>2, TablesSay DEF d, t
  <2> QED  BY <1>2, <2>1, <2>3
<1> QED  BY <1>8, <1>9

LEMMA AnswerStep ==
  ASSUME WalkInv,
         NEW event, NEW req, NEW hold, NEW ifetch, NEW data, NEW busy, NEW deliver,
         Step(event, req, hold, ifetch, data, busy, deliver), ~misled'
  PROVE  SoundAnswer'
<1>1. ASSUME walk_done'
      PROVE  /\ walk_fault' # None => Fault(walk_fault') \in Answers(mem', sys_cr3', xl_req')
             /\ walk_fault' = None => WalkedWell'
  BY <1>1, WalkAnswers
<1>2. ASSUME xl_state' \in {"FILL", "RESP"}
      PROVE  ~Flushes(event)
  BY <1>2, StepParts DEF XlFlush
<1>3. ASSUME xl_state' = "FILL"
      PROVE  WalkedWell'
  <2>1. Walk
    BY <1>2, <1>3, StepParts DEF AcceptXl, Lookup, LookedUp, Fill, Respond
  <2>2. /\ xl_state = "WALK" /\ walk_done /\ walk_fault = None
        /\ xl_req' = xl_req
    BY <1>3, <2>1 DEF Walk
  <2>3. WalkedWell /\ walk_state = "IDLE" /\ xl_req \in Access
    BY <2>2 DEF WalkInv, TypeInv, InStep, SoundAnswer, SoundRequest
  <2>4. Take(walk_req)
    BY <1>2, <1>3, <2>3, StepParts
       DEF FetchPde, Wait, PdeArrives, FetchPte, PteArrives, UpdateAd, AdWritten, Waiting
  <2>5. walk_out' = walk_out
    BY <2>4 DEF Take
  <2> QED  BY <1>2, <1>3, <2>2, <2>3, <2>5, WellStays
<1>4. ASSUME xl_state' = "RESP"
      PROVE  xl_resp' \in IF paging_prev' THEN Answers(mem', sys_cr3', xl_req')
                          ELSE {Found(xl_req'.vpn)}
  <2>1. /\ paging_prev' = paging /\ paging = paging_prev /\ sys_cr3' = sys_cr3
        /\ sys_cr3 \in Directory
    BY <1>2, <1>4, Kept, StepParts, NoFlush
  <2>2. AcceptXl(req, paging) \/ LookedUp \/ Walk \/ Fill \/ Respond(hold)
    BY <1>2, <1>4, StepParts DEF Lookup
  <2>3. CASE AcceptXl(req, paging)
    BY <1>4, <2>1, <2>3 DEF AcceptXl
  <2>4. CASE ~AcceptXl(req, paging)
    <3>1. xl_req' = xl_req /\ xl_state # "IDLE"
      BY <2>2, <2>4 DEF LookedUp, Walk, Fill, Respond
    <3>2. xl_req \in Access
      BY <3>1 DEF WalkInv, TypeInv, SoundRequest
    <3>3. Answers(mem', sys_cr3', xl_req') = Answers(mem, sys_cr3, xl_req)
      BY <2>1, <3>1, <3>2, Kept
    <3>4. CASE LookedUp
      <4>1. paging_prev
        BY <3>4 DEF LookedUp, WalkInv, TypeInv, SoundRequest
      <4>2. xl_resp' \in Answers(mem, sys_cr3, xl_req)
        BY <1>4, <2>1, <3>4, <4>1, LookupAnswers
      <4> QED  BY <2>1, <3>3, <4>1, <4>2
    <3>5. CASE Walk
      <4>1. /\ xl_state = "WALK" /\ walk_done /\ walk_fault # None
            /\ xl_resp' = Fault(walk_fault)
        BY <1>4, <3>5 DEF Walk
      <4>2. paging_prev /\ Fault(walk_fault) \in Answers(mem, sys_cr3, xl_req)
        BY <4>1 DEF WalkInv, TypeInv, InStep, SoundRequest, SoundAnswer
      <4> QED  BY <2>1, <3>3, <4>1, <4>2
    <3>6. CASE Fill
      <4>1. xl_state = "FILL" /\ xl_resp' = xl_resp
        BY <3>6 DEF Fill
      <4>2. paging_prev /\ WalkedWell /\ xl_resp = Found(walk_out.ppn)
        BY <4>1 DEF WalkInv, TypeInv, InStep, SoundRequest, SoundAnswer
      <4>3. xl_resp \in Answers(mem, sys_cr3, xl_req)
        BY <4>2, WellIsTranslation
      <4> QED  BY <2>1, <3>3, <4>1, <4>2, <4>3
    <3>7. CASE Respond(hold)
      <4>1. xl_state = "RESP" /\ xl_resp' = xl_resp
        BY <3>7 DEF Respond
      <4>2. xl_resp \in IF paging_prev THEN Answers(mem, sys_cr3, xl_req) ELSE {Found(xl_req.vpn)}
        BY <1>4, <2>1, <4>1 DEF WalkInv, SoundAnswer
      <4> QED  BY <2>1, <3>1, <3>3, <4>1, <4>2
    <3> QED  BY <2>2, <2>4, <3>4, <3>5, <3>6, <3>7
  <2> QED  BY <2>3, <2>4
<1> QED  BY <1>1, <1>3, <1>4 DEF SoundAnswer

(***************************************************************************)
(* The port                                                                *)
(***************************************************************************)
\* As long as there is no answer, the walker waits.
LEMMA WalkerWaits ==
  ASSUME TypeInv, walk_state \in Waiting, ~pt_ack,
         NEW event, NEW req, NEW hold, NEW ifetch, NEW data, NEW busy, NEW deliver,
         Step(event, req, hold, ifetch, data, busy, deliver), ~Flushes(event)
  PROVE  /\ walk_state' = walk_state /\ pt_mem' = None /\ Asked' = Asked
         /\ pte_addr' = pte_addr /\ pte' = pte /\ Marked(pte)' = Marked(pte)
<1>1. Wait(pt_ack)
  BY StepParts
     DEF Take, FetchPde, PdeArrives, FetchPte, PteArrives, UpdateAd, AdWritten, Waiting
<1>2. sys_cr3' = sys_cr3
  BY StepParts DEF Flushes
<1> QED  BY <1>1, <1>2 DEF Wait, Quiet, Asked, Marked, ReadFrom

\* The walker asks when it does not wait for anything.
LEMMA WalkerAsks ==
  ASSUME NEW event, NEW req, NEW hold, NEW ifetch, NEW data, NEW busy, NEW deliver,
         Step(event, req, hold, ifetch, data, busy, deliver), pt_mem' # None
  PROVE  /\ walk_state \notin Waiting /\ walk_state' \in Waiting /\ pt_mem' = Asked'
<1>1. ~Flushes(event)
  BY StepParts DEF CancelWalk, Quiet
<1>2. FetchPde(sys_cr3) \/ FetchPte \/ UpdateAd
  BY <1>1, StepParts DEF Take, Wait, PdeArrives, PteArrives, AdWritten, Quiet
<1>3. sys_cr3' = sys_cr3
  BY <1>1, StepParts DEF Flushes
<1>4. CASE FetchPde(sys_cr3)
  BY <1>3, <1>4 DEF FetchPde, Goes, Asked, ReadFrom, Waiting
<1>5. CASE FetchPte
  BY <1>5 DEF FetchPte, Goes, Asked, ReadFrom, Waiting
<1>6. CASE UpdateAd
  BY <1>6 DEF UpdateAd, Goes, Asked, Marked, Waiting
<1> QED  BY <1>2, <1>4, <1>5, <1>6

\* The step of the history: what is not cancelled has been the walker's, and it waits
\* for it still.
LEMMA OwnStays ==
  ASSUME WalkInv,
         NEW event, NEW req, NEW hold, NEW ifetch, NEW data, NEW busy, NEW deliver,
         Step(event, req, hold, ifetch, data, busy, deliver), ~misled', Held', ~orphan'
  PROVE  /\ ~Flushes(event) /\ walk_state \in Waiting /\ ~pt_ack
         /\ ServesWalker => ~orphan
         /\ ServesWalker \/ (pt_mem # None /\ ServesWalker')
         /\ walk_state' = walk_state /\ Asked' = Asked
         /\ pte_addr' = pte_addr /\ Marked(pte)' = Marked(pte)
<1>1. ~Flushes(event) /\ ~(arb_state # "IDLE" /\ orphan)
  BY StepParts DEF Remember
<1>2. /\ CtrlClock(ifetch, data, PtPort, busy, Delivered(deliver)) /\ SoundBus /\ SoundPort
      /\ TypeInv
  BY StepParts DEF WalkInv, TypeInv
<1>3. ServesWalker \/ (pt_mem # None /\ ServesWalker')
  BY <1>2, ControllerServes DEF Held, ServesWalker
<1>4. ServesWalker => ~orphan /\ ~pt_ack /\ walk_state \in Waiting
  BY <1>1, <1>2 DEF ServesWalker, SoundBus, SoundPort, Held
<1>5. pt_mem # None => walk_state \in Waiting /\ (pt_ack => orphan)
  BY <1>2 DEF SoundPort, Held
<1>6. walk_state \in Waiting /\ ~pt_ack
  BY <1>1, <1>3, <1>4, <1>5, AckIsOwn
<1> QED  BY <1>1, <1>2, <1>3, <1>4, <1>6, WalkerWaits

\* What is cancelled stays so until it is answered; no answer is taken meanwhile.
LEMMA OrphanStays ==
  ASSUME WalkInv,
         NEW event, NEW req, NEW hold, NEW ifetch, NEW data, NEW busy, NEW deliver,
         Step(event, req, hold, ifetch, data, busy, deliver), orphan'
  PROVE  Held' /\ walk_state' \in {"IDLE", "PDE_FETCH", "PDE_WAIT"}
<1>1. Held' /\ (Flushes(event) \/ (arb_state # "IDLE" /\ orphan))
  BY StepParts DEF Remember
<1>2. CASE Flushes(event)
  BY <1>1, <1>2, StepParts DEF CancelWalk
<1>3. CASE ~Flushes(event)
  <2>1. ~pt_ack /\ walk_state \in {"IDLE", "PDE_FETCH", "PDE_WAIT"}
    BY <1>1, <1>3 DEF WalkInv, TypeInv, SoundBus, SoundPort
  <2>2. Take(walk_req) \/ FetchPde(sys_cr3) \/ Wait(pt_ack)
    BY <1>3, <2>1, StepParts DEF PdeArrives, FetchPte, PteArrives, UpdateAd, AdWritten
  <2> QED  BY <1>1, <2>1, <2>2 DEF Take, FetchPde, Goes, Wait
<1> QED  BY <1>2, <1>3

\* While the controller has a request, memory stays as it is.
LEMMA ServedQuietly ==
  ASSUME WalkInv, arb_state # "IDLE",
         NEW event, NEW req, NEW hold, NEW ifetch, NEW data, NEW busy, NEW deliver,
         Step(event, req, hold, ifetch, data, busy, deliver)
  PROVE  mem' = mem
<1>1. ~ddram_we
  BY DEF WalkInv, TypeInv, SoundBus
<1> QED  BY <1>1, StepParts, MemoryStep

\* A write that the controller has is one of marks, whoever waits for it.
LEMMA ServedMarks ==
  ASSUME WalkInv,
         NEW event, NEW req, NEW hold, NEW ifetch, NEW data, NEW busy, NEW deliver,
         Step(event, req, hold, ifetch, data, busy, deliver), ServesWalker', arb'.wr
  PROVE  arb'.addr # DataAddr /\ Remarked(mem'[arb'.addr][0], arb'.wdata)
<1>1. CtrlClock(ifetch, data, PtPort, busy, Delivered(deliver)) /\ SoundBus
  BY StepParts DEF WalkInv, TypeInv
<1>2. \/ ServesWalker /\ arb' = arb
      \/ /\ ~ServesWalker /\ pt_mem # None
         /\ arb'.addr = WordOf(pt_mem.addr) /\ arb'.wr = pt_mem.wr
         /\ arb'.wdata = pt_mem.wdata
  BY <1>1, ControllerServes
<1>3. CASE ServesWalker /\ arb' = arb
  <2>1. mem' = mem
    BY <1>3, ServedQuietly DEF ServesWalker
  <2>2. arb.addr # DataAddr /\ Remarked(mem[arb.addr][0], arb.wdata)
    BY <1>3 DEF WalkInv, SoundPort
  <2> QED  BY <1>3, <2>1, <2>2
<1>4. CASE /\ pt_mem # None
           /\ arb'.addr = WordOf(pt_mem.addr) /\ arb'.wr = pt_mem.wr
           /\ arb'.wdata = pt_mem.wdata
  <2>1. walk_state \in Waiting /\ pt_mem = Asked /\ (Held => orphan)
    BY <1>4 DEF WalkInv, SoundPort
  <2>2. walk_state = "AD_WAIT" /\ pt_mem.addr = pte_addr /\ pt_mem.wdata = Marked(pte)
    BY <1>4, <2>1 DEF Asked, ReadFrom, Waiting
  <2>3. /\ MarkedWord \in Addr \ {DataAddr} /\ arb'.addr = MarkedWord
        /\ pte = mem[MarkedWord][0] /\ pte \in PageEntry /\ arb'.wdata = Marked(pte)
    BY <1>4, <2>2, WalkersCopy
  <2>4. ~pt_ack
    BY <2>1, <2>2 DEF WalkInv, SoundPort, Held
  <2>5. mem'[MarkedWord] = mem[MarkedWord]
    BY <2>3, <2>4, StepParts, MemoryStep
  <2>6. walk.write \in BOOLEAN
    BY <2>2, MarkedIsEntry DEF WalkInv
  <2>7. Remarked(pte, Marked(pte))
    BY <2>3, <2>6 DEF Remarked, Marked, PageEntry
  <2> QED  BY <2>3, <2>5, <2>7
<1> QED  BY <1>2, <1>3, <1>4

LEMMA PortStep ==
  ASSUME WalkInv,
         NEW event, NEW req, NEW hold, NEW ifetch, NEW data, NEW busy, NEW deliver,
         Step(event, req, hold, ifetch, data, busy, deliver), ~misled'
  PROVE  SoundPort'
<1>1. /\ CtrlClock(ifetch, data, PtPort, busy, Delivered(deliver)) /\ SoundBus /\ SoundPort
      /\ TypeInv'
  BY StepParts, TypeInvStep DEF WalkInv, TypeInv
<1>2. /\ ServesWalker' =>
           /\ ~pt_ack'
           /\ \/ ServesWalker /\ arb' = arb
              \/ /\ ~ServesWalker /\ pt_mem # None
                 /\ arb'.addr = WordOf(pt_mem.addr) /\ arb'.wr = pt_mem.wr
                 /\ arb'.wdata = pt_mem.wdata
      /\ pt_ack' =>
           /\ ServesWalker /\ arb_state' = "IDLE"
           /\ \/ /\ arb.wr /\ ddram_we' /\ ddram_be' = "low"
                 /\ ddram_addr' = arb.addr /\ ddram_din' = arb.wdata
              \/ /\ arb_state = "WAIT" /\ ~arb.wr /\ Delivered(deliver) # None
                 /\ pt_rdata' = Delivered(deliver)[0] /\ ~ddram_we'
  BY <1>1, ControllerServes
<1>3. orphan' => Held' /\ walk_state' \in {"IDLE", "PDE_FETCH", "PDE_WAIT"}
  BY OrphanStays
<1>4. Held' /\ ~orphan' => walk_state' \in Waiting
  BY OwnStays
<1>5. ASSUME pt_mem' # None
      PROVE  walk_state' \in Waiting /\ pt_mem' = Asked' /\ (Held' => orphan')
  <2>1. walk_state \notin Waiting /\ walk_state' \in Waiting /\ pt_mem' = Asked'
    BY <1>5, WalkerAsks
  <2> QED  BY <2>1, OwnStays
<1>6. ASSUME ServesWalker', ~orphan'
      PROVE  /\ arb'.addr = WordOf(Asked'.addr) /\ arb'.wr = Asked'.wr
             /\ arb'.wdata = Asked'.wdata
  <2>1. Held' /\ Asked' = Asked /\ (ServesWalker => ~orphan)
    BY <1>6, OwnStays DEF Held, ServesWalker
  <2>2. arb'.addr = WordOf(Asked.addr) /\ arb'.wr = Asked.wr /\ arb'.wdata = Asked.wdata
    BY <1>1, <1>2, <1>6, <2>1 DEF SoundPort
  <2> QED  BY <2>1, <2>2
<1>7. ServesWalker' /\ arb'.wr =>
        arb'.addr # DataAddr /\ Remarked(mem'[arb'.addr][0], arb'.wdata)
  BY ServedMarks
<1>8. ASSUME pt_ack', ~orphan'
      PROVE  /\ walk_state' # "AD_WAIT" =>
                  ~ddram_we' /\ pt_rdata' = mem'[WordOf(Asked'.addr)][0]
             /\ walk_state' = "AD_WAIT" =>
                  /\ ddram_we' /\ ddram_be' = "low"
                  /\ ddram_addr' = WordOf(pte_addr') /\ ddram_din' = Marked(pte)'
  <2>1. /\ walk_state \in Waiting /\ walk_state' = walk_state /\ Asked' = Asked
        /\ pte_addr' = pte_addr /\ Marked(pte)' = Marked(pte) /\ ServesWalker /\ ~orphan
    BY <1>2, <1>8, OwnStays DEF Held
  <2>2. arb.addr = WordOf(Asked.addr) /\ arb.wr = Asked.wr /\ arb.wdata = Asked.wdata
    BY <1>1, <2>1 DEF SoundPort
  <2>3. Asked.wr <=> walk_state = "AD_WAIT"
    BY <2>1 DEF Asked, ReadFrom, Waiting
  <2>4. CASE walk_state = "AD_WAIT"
    <3>1. /\ ddram_we' /\ ddram_be' = "low"
          /\ ddram_addr' = arb.addr /\ ddram_din' = arb.wdata
      BY <1>2, <1>8, <2>2, <2>3, <2>4
    <3>2. Asked.addr = pte_addr /\ Asked.wdata = Marked(pte)
      BY <2>4 DEF Asked
    <3> QED  BY <2>1, <2>2, <2>4, <3>1, <3>2
  <2>5. CASE walk_state # "AD_WAIT"
    <3>1. /\ arb_state = "WAIT" /\ Delivered(deliver) # None
          /\ pt_rdata' = Delivered(deliver)[0] /\ ~ddram_we'
      BY <1>2, <1>8, <2>2, <2>3, <2>5
    <3>2. Delivered(deliver) = mem[arb.addr]
      BY <1>1, <3>1 DEF Delivered, SoundBus
    <3>3. mem' = mem
      BY <3>1, ServedQuietly
    <3> QED  BY <2>1, <2>2, <2>5, <3>1, <3>2, <3>3
  <2> QED  BY <2>4, <2>5
<1>9. ASSUME ddram_we', ddram_be' = "low"
      PROVE  ddram_addr' # DataAddr /\ Remarked(mem'[ddram_addr'][0], ddram_din')
  <2>1. pt_ack'
    BY <1>1, <1>9 DEF TypeInv, SoundBus
  <2>2. /\ ServesWalker /\ arb.wr /\ ddram_addr' = arb.addr /\ ddram_din' = arb.wdata
    BY <1>2, <1>9, <2>1
  <2>3. arb.addr # DataAddr /\ Remarked(mem[arb.addr][0], arb.wdata)
    BY <1>1, <2>2 DEF SoundPort
  <2>4. mem' = mem
    BY <2>2, ServedQuietly DEF ServesWalker
  <2> QED  BY <2>2, <2>3, <2>4
<1> QED  BY <1>3, <1>4, <1>5, <1>6, <1>7, <1>8, <1>9 DEF SoundPort

-----------------------------------------------------------------------------
(***************************************************************************)
(* The theorems                                                            *)
(***************************************************************************)
LEMMA PathInvInit == Init => PathInv
<1> SUFFICES ASSUME Init PROVE TypeInv /\ WalkInv
  BY DEF PathInv
<1>1. mem \in [Addr -> Val] /\ mem \in Tables /\ sys_cr3 \in Directory
  BY TablesAssumption DEF Init
<1>2. WalkTypeOK
  BY <1>1 DEF Init, TlbInit, WalkerInit, XlInit, CtrlInit, WalkTypeOK, TlbTypeOK,
              WalkerTypeOK, XlTypeOK, CtrlTypeOK, DramTypeOK
<1>3. UniqueMatch /\ SoundRequest /\ InStep
  BY UniqueMatchInit DEF Init, TlbInit, WalkerInit, XlInit, SoundRequest, InStep
<1>4. HasRead /\ SoundBus
  BY DEF Init, WalkerInit, CtrlInit, HasRead, SoundBus, ServesWalker
<1>5. SoundTables
  BY <1>1, MappedAssumption DEF SoundTables
<1>6. SoundTlb /\ SoundAnswer /\ SoundWalker
  BY DEF Init, TlbInit, WalkerInit, XlInit, SoundTlb, SoundAnswer, SoundWalker
<1>7. SoundPort
  BY DEF Init, WalkerInit, CtrlInit, SoundPort, ServesWalker, Held
<1> QED  BY <1>2, <1>3, <1>4, <1>5, <1>6, <1>7 DEF TypeInv, WalkInv

LEMMA PathInvStutter == PathInv /\ UNCHANGED vars => PathInv'
<1> SUFFICES ASSUME PathInv, UNCHANGED vars PROVE PathInv'
  OBVIOUS
<1> USE DEF vars, tlb_vars, walker_vars, xl_vars, ctrl_vars, dram_vars, core_vars, history_vars
<1>1. TypeInv'
  <2>1. WalkTypeOK'
    BY DEF PathInv, TypeInv, WalkTypeOK, TlbTypeOK, WalkerTypeOK, XlTypeOK, CtrlTypeOK,
           DramTypeOK
  <2>2. UniqueMatch'
    BY UniqueMatchStutter DEF PathInv, TypeInv
  <2>3. SoundRequest' /\ InStep'
    BY DEF PathInv, TypeInv, SoundRequest, InStep
  <2>4. HasRead' /\ SoundBus'
    BY DEF PathInv, TypeInv, HasRead, SoundBus, ServesWalker
  <2> QED  BY <2>1, <2>2, <2>3, <2>4 DEF TypeInv
<1>2. ASSUME WalkInv PROVE WalkInv'
  <2>1. SoundTables' /\ SoundTlb'
    BY <1>2 DEF WalkInv, SoundTables, SoundTlb
  <2>2. SoundAnswer' /\ SoundWalker'
    BY <1>2 DEF WalkInv, SoundAnswer, SoundWalker, WalkedWell
  <2>3. SoundPort'
    BY <1>2 DEF WalkInv, SoundPort, Asked, Marked, ServesWalker, Held
  <2> QED  BY <1>1, <2>1, <2>2, <2>3 DEF WalkInv
<1> QED  BY <1>1, <1>2 DEF PathInv

LEMMA AlwaysPathInv == Spec => []PathInv
<1>1. PathInv /\ [Next]_vars => PathInv'
  <2> SUFFICES ASSUME PathInv, [Next]_vars PROVE PathInv'
    OBVIOUS
  <2>1. ASSUME NEW event, NEW req, NEW hold, NEW ifetch, NEW data, NEW busy, NEW deliver,
               Step(event, req, hold, ifetch, data, busy, deliver)
        PROVE  PathInv'
    <3>1. TypeInv'
      BY <2>1, TypeInvStep DEF PathInv
    <3>2. ASSUME ~misled' PROVE WalkInv'
      <4>1. WalkInv
        BY <2>1, <3>2, StepParts DEF PathInv, Remember
      <4>2. SoundTables' /\ SoundTlb' /\ SoundAnswer' /\ SoundWalker' /\ SoundPort'
        BY <2>1, <3>2, <4>1, TablesStep, TlbStep, AnswerStep, WalkerStep, PortStep
      <4> QED  BY <3>1, <4>2 DEF WalkInv
    <3> QED  BY <3>1, <3>2 DEF PathInv
  <2>2. CASE UNCHANGED vars
    BY <2>2, PathInvStutter
  <2> QED  BY <2>1, <2>2, NextIsStep
<1> QED  BY <1>1, PathInvInit, PTL DEF Spec

\* Every register holds what it is declared to hold, and every address that
\* reaches the memory controller is one of memory: the walker never strays, even
\* after it has taken the answer to a walk that a flush has cancelled.
THEOREM WalkTypeCorrect == Spec => []WalkTypeOK
<1>1. PathInv => WalkTypeOK
  BY DEF PathInv, TypeInv
<1> QED  BY <1>1, AlwaysPathInv, PTL

\* Until the walker takes the acknowledge of a cancelled request, every valid entry
\* of the TLB is a copy of the table entry of its page under the present CR3, which
\* has been marked: flushes and writes of CR3 in any cycle do not change it.
THEOREM TlbIsCoherent == Spec => []TlbAgrees
<1>1. PathInv => TlbAgrees
  <2> SUFFICES ASSUME PathInv, ~misled, NEW i \in Slot, entry_valid[i]
               PROVE  LET e == entry[i]
                          t == TableEntry(e.vpn)
                      IN  /\ DirectoryEntry(e.vpn).present /\ t.present
                          /\ e.ppn = t.base /\ e.user = t.user /\ e.writable = t.writable
                          /\ t.accessed /\ (e.dirty => t.dirty)
    BY DEF TlbAgrees
  <2>1. Copies(mem, sys_cr3, entry[i].vpn, entry[i]) /\ entry[i].vpn \in Vpn
    BY DEF PathInv, TypeInv, InStep, TlbEntry, WalkInv, SoundTlb
  <2> QED  BY <2>1, EntriesRead DEF Copies
<1> QED  BY <1>1, AlwaysPathInv, PTL

\* Until then, every response is the translation of its access by the tables CR3
\* points to, by a hit as by a walk, with cancelled walks of any number before it.
THEOREM TranslationCorrect == Spec => []TranslatesByTables
<1>1. PathInv => TranslatesByTables
  <2> SUFFICES ASSUME PathInv, ~misled, xl_state = "RESP", paging = paging_prev
               PROVE  xl_resp \in IF paging THEN Translations(xl_req) ELSE {Found(xl_req.vpn)}
    BY DEF TranslatesByTables, FlushCancels
  <2>1. xl_req \in Access
    BY DEF PathInv, TypeInv, SoundRequest
  <2>2. xl_resp \in IF paging_prev THEN Answers(mem, sys_cr3, xl_req) ELSE {Found(xl_req.vpn)}
    BY DEF PathInv, WalkInv, SoundAnswer
  <2> QED  BY <2>1, <2>2, TranslationRead
<1> QED  BY <1>1, AlwaysPathInv, PTL

\* Until then, the tables change by nothing but accessed and dirty bits that are
\* set, the entry beside stays as it is, and a write that a flush has left behind
\* with the controller is no exception.
THEOREM WalkerOnlyMarks == Spec => OnlyMarks
<1> DEFINE Keeps ==
      mem' # mem /\ ~misled =>
        \A a \in Addr \ {DataAddr} :
          /\ mem'[a][1] = mem[a][1]
          /\ LET old == mem[a][0]
                 new == mem'[a][0]
             IN  /\ old.accessed => new.accessed
                 /\ old.dirty => new.dirty
                 /\ new = [old EXCEPT !.accessed = new.accessed, !.dirty = new.dirty]
<1>1. PathInv /\ [Next]_vars => [Keeps]_vars
  <2> SUFFICES ASSUME PathInv, Next PROVE Keeps
    OBVIOUS
  <2>1. PICK deliver :
          DramClock(deliver, ddram_rd, ddram_we, ddram_addr, ddram_din, ddram_be)
    BY DEF Next, Run, Cycle
  <2> QED  BY <2>1, MemoryRemarked DEF PathInv, Remarked
<1>2. []PathInv /\ [][Next]_vars => [][Keeps]_vars
  BY <1>1, PTL
<1> QED  BY <1>2, AlwaysPathInv, PTL DEF Spec, OnlyMarks

(***************************************************************************)
(* Finite induction and recursion                                          *)
(***************************************************************************)
\* Every nonempty set of numbers up to n has a least one.
LEMMA Least ==
  ASSUME NEW n \in Nat, NEW T \in SUBSET (0..n), T # {}
  PROVE  \E t \in T : \A s \in T : t <= s
<1> DEFINE Lower == {0..t : t \in T}
           Less == StrictSubsetOrdering(0..n)
<1>1. IsWellFoundedOn(Less, SUBSET (0..n))
  <2>1. IsFiniteSet(0..n)
    BY FS_Interval
  <2> QED BY <2>1, FS_StrictSubsetOrderingWellFounded, FS_FiniteSubsetsOfFinite
<1>2. Lower \subseteq SUBSET (0..n) /\ Lower # {}
  <2>1. \A t \in T : 0..t \in SUBSET (0..n)
    OBVIOUS
  <2> QED BY <2>1
<1> HIDE DEF Less
<1>3. PICK U \in Lower : \A V \in Lower : <<V, U>> \notin Less
  BY <1>1, <1>2, WFMin
<1>4. PICK t \in T : U = 0..t
  BY <1>3
<1>5. ASSUME NEW s \in T PROVE t <= s
  <2> SUFFICES ASSUME ~(t <= s) PROVE FALSE
    OBVIOUS
  <2>1. s \in 0..n /\ t \in 0..n /\ s < t
    OBVIOUS
  <2> DEFINE V == 0..s
             W == 0..t
  <2>2. V \in SUBSET (0..n) /\ W \in SUBSET (0..n) /\ V \subseteq W /\ t \in W /\ t \notin V
    BY <2>1
  <2>3. V \in Lower
    BY Zenon
  <2> HIDE DEF V, W
  <2>4. <<V, W>> \in StrictSubsetOrdering(0..n)
    BY ONLY <2>2 DEF StrictSubsetOrdering
  <2> QED BY <1>3, <1>4, <2>3, <2>4 DEF Less, W
<1> QED BY <1>5

LEMMA FiniteInduction ==
  ASSUME NEW n \in Nat, NEW S, 0 \in S,
         \A k \in 0..n : k < n /\ k \in S => k + 1 \in S
  PROVE  \A k \in 0..n : k \in S
<1> SUFFICES ASSUME (0..n) \ S # {} PROVE FALSE
  OBVIOUS
<1>1. PICK t \in (0..n) \ S : \A s \in (0..n) \ S : t <= s
  BY Least
<1>2. t # 0 /\ t - 1 \in 0..n /\ t - 1 < n /\ t - 1 + 1 = t
  BY <1>1
<1>3. t - 1 \in S
  BY <1>1, <1>2
<1> QED BY <1>1, <1>2, <1>3

\* A function on 0..n can be defined from its first value and a step.
LEMMA FiniteRecursion ==
  ASSUME NEW n \in Nat, NEW x \in Int, NEW g \in [Int -> Int]
  PROVE  \E f \in [0..n -> Int] : f[0] = x /\ \A l \in 1..n : f[l] = g[f[l - 1]]
<1> DEFINE S == {k \in 0..n : \E f \in [0..k -> Int] :
                   f[0] = x /\ \A l \in 1..k : f[l] = g[f[l - 1]]}
<1>1. 0 \in S
  <2> DEFINE f == [l \in 0..0 |-> x]
  <2>1. f \in [0..0 -> Int] /\ f[0] = x /\ \A l \in 1..0 : f[l] = g[f[l - 1]]
    OBVIOUS
  <2>2. 0 \in 0..n
    OBVIOUS
  <2> HIDE DEF f
  <2> QED BY <2>1, <2>2
<1>2. \A k \in 0..n : k < n /\ k \in S => k + 1 \in S
  <2> SUFFICES ASSUME NEW k \in 0..n, k < n, k \in S PROVE k + 1 \in S
    OBVIOUS
  <2>1. PICK f \in [0..k -> Int] : f[0] = x /\ \A l \in 1..k : f[l] = g[f[l - 1]]
    OBVIOUS
  <2> DEFINE h == [l \in 0..(k + 1) |-> IF l = k + 1 THEN g[f[k]] ELSE f[l]]
  <2>2. h \in [0..(k + 1) -> Int]
    OBVIOUS
  <2>3. h[0] = x
    BY <2>1
  <2>4. ASSUME NEW l \in 1..(k + 1) PROVE h[l] = g[h[l - 1]]
    <3>1. CASE l = k + 1
      BY <3>1
    <3>2. CASE l # k + 1
      <4>1. l \in 1..k /\ l \in 0..(k + 1) /\ l - 1 \in 0..(k + 1) /\ l - 1 # k + 1
        BY <3>2
      <4> QED BY <2>1, <3>2, <4>1
    <3> QED BY <3>1, <3>2
  <2>5. k + 1 \in 0..n
    OBVIOUS
  <2> HIDE DEF h
  <2> QED BY <2>2, <2>3, <2>4, <2>5
<1> HIDE DEF S
<1>3. \A k \in 0..n : k \in S
  BY <1>1, <1>2, FiniteInduction
<1>4. n \in S
  BY <1>3
<1> QED BY <1>4 DEF S

(***************************************************************************)
(* The replacement tree                                                    *)
(***************************************************************************)
\* It has two leaves at least.
LEMMA Leaves == 2^Levels \in Nat /\ 2^Levels >= 2
<1> DEFINE S == 1..Levels
<1>1. IsFiniteSet(S) /\ Cardinality(S) = Levels
  BY LevelsAssumption, FS_Interval
<1>2. IsFiniteSet(SUBSET S) /\ Cardinality(SUBSET S) = 2^Levels
  BY <1>1, FS_SUBSET
<1>3. {{}, {1}} \subseteq SUBSET S
  BY LevelsAssumption
<1>4. Cardinality({{}, {1}}) = 2
  <2>1. IsFiniteSet({{}}) /\ Cardinality({{}}) = 1
    BY FS_Singleton
  <2>2. {1} \notin {{}}
    OBVIOUS
  <2>3. Cardinality({{}} \cup {{1}}) = Cardinality({{}}) + 1
    BY <2>1, <2>2, FS_AddElement, Zenon
  <2>4. {{}} \cup {{1}} = {{}, {1}}
    OBVIOUS
  <2> QED BY <2>1, <2>3, <2>4
<1>5. Cardinality({{}, {1}}) <= Cardinality(SUBSET S)
  BY <1>2, <1>3, FS_Subset
<1>6. Cardinality(SUBSET S) \in Nat
  BY <1>2, FS_CardinalityType
<1> QED BY <1>2, <1>4, <1>5, <1>6

\* A path goes from a leaf to the parent, and so on.
LEMMA PathIs ==
  ASSUME NEW i \in Slot
  PROVE  \E up \in [0..Levels -> Int] :
           /\ up[0] = Leaf(i)
           /\ \A l \in 1..Levels : up[l] = (up[l - 1] - 1) \div 2
           /\ Path(i) = {up[l] : l \in 0..Levels}
<1> DEFINE g == [y \in Int |-> (y - 1) \div 2]
           up == CHOOSE f : f = [l \in 0..Levels |-> IF l = 0 THEN Leaf(i)
                                                     ELSE (f[l - 1] - 1) \div 2]
<1>1. Levels \in Nat /\ Leaf(i) \in Int
  BY LevelsAssumption, Leaves DEF Leaf, Slot
<1>2. g \in [Int -> Int]
  OBVIOUS
<1>3. PICK f \in [0..Levels -> Int] : f[0] = Leaf(i) /\ \A l \in 1..Levels : f[l] = g[f[l - 1]]
  <2> HIDE DEF g
  <2> QED BY <1>1, <1>2, FiniteRecursion
<1>4. ASSUME NEW l \in 1..Levels PROVE f[l] = (f[l - 1] - 1) \div 2
  <2>1. l - 1 \in 0..Levels
    BY <1>1
  <2>2. f[l - 1] \in Int
    BY <2>1
  <2> QED BY <1>3, <2>2
<1>5. f = [l \in 0..Levels |-> IF l = 0 THEN Leaf(i) ELSE (f[l - 1] - 1) \div 2]
  <2>1. \A l \in 0..Levels : f[l] = IF l = 0 THEN Leaf(i) ELSE (f[l - 1] - 1) \div 2
    BY <1>1, <1>3, <1>4
  <2> QED BY <2>1
<1>6. up = [l \in 0..Levels |-> IF l = 0 THEN Leaf(i) ELSE (up[l - 1] - 1) \div 2]
  BY <1>5, Zenon
<1>7. Path(i) = {up[l] : l \in 0..Levels}
  BY DEF Path
<1> HIDE DEF up
<1>8. up[0] = Leaf(i) /\ \A l \in 1..Levels : up[l] = (up[l - 1] - 1) \div 2
  BY <1>1, <1>6
<1>9. \A l \in 0..Levels : up[l] \in Int
  <2> DEFINE S == {l \in 0..Levels : up[l] \in Int}
  <2>1. 0 \in S
    BY <1>1, <1>8
  <2>2. \A k \in 0..Levels : k < Levels /\ k \in S => k + 1 \in S
    <3> SUFFICES ASSUME NEW k \in 0..Levels, k < Levels, up[k] \in Int
                 PROVE  k + 1 \in 0..Levels /\ up[k + 1] \in Int
      OBVIOUS
    <3>1. k + 1 \in 1..Levels /\ k + 1 - 1 = k
      BY <1>1
    <3>2. up[k + 1] = (up[k] - 1) \div 2
      BY <1>8, <3>1
    <3> QED BY <3>1, <3>2
  <2> HIDE DEF S
  <2>3. \A k \in 0..Levels : k \in S
    BY <1>1, <2>1, <2>2, FiniteInduction
  <2> QED BY <2>3 DEF S
<1>10. up \in [0..Levels -> Int]
  BY <1>6, <1>9
<1> QED BY <1>7, <1>8, <1>10

\* The search for a victim goes from the root to a child, and so on.
LEMMA VictimIs ==
  ASSUME NEW tree
  PROVE  \E down \in [0..Levels -> Int] :
           /\ down[0] = 0
           /\ \A l \in 1..Levels :
                down[l] = 2 * down[l - 1] + (IF tree[down[l - 1]] THEN 2 ELSE 1)
           /\ plru_victim(tree) = down[Levels] - (2^Levels - 1)
<1> DEFINE g == [y \in Int |-> 2 * y + (IF tree[y] THEN 2 ELSE 1)]
           down == CHOOSE f : f = [l \in 0..Levels |->
             IF l = 0 THEN 0 ELSE 2 * f[l - 1] + (IF tree[f[l - 1]] THEN 2 ELSE 1)]
<1>1. Levels \in Nat
  BY LevelsAssumption
<1>2. g \in [Int -> Int]
  OBVIOUS
<1>3. PICK f \in [0..Levels -> Int] : f[0] = 0 /\ \A l \in 1..Levels : f[l] = g[f[l - 1]]
  <2>1. 0 \in Int
    OBVIOUS
  <2> HIDE DEF g
  <2> QED BY <1>1, <1>2, <2>1, FiniteRecursion
<1>4. ASSUME NEW l \in 1..Levels
      PROVE  f[l] = 2 * f[l - 1] + (IF tree[f[l - 1]] THEN 2 ELSE 1)
  <2>1. l - 1 \in 0..Levels
    BY <1>1
  <2>2. f[l - 1] \in Int
    BY <2>1
  <2> QED BY <1>3, <2>2
<1>5. f = [l \in 0..Levels |-> IF l = 0 THEN 0
                               ELSE 2 * f[l - 1] + (IF tree[f[l - 1]] THEN 2 ELSE 1)]
  <2>1. \A l \in 0..Levels : f[l] = IF l = 0 THEN 0
                                    ELSE 2 * f[l - 1] + (IF tree[f[l - 1]] THEN 2 ELSE 1)
    BY <1>1, <1>3, <1>4
  <2> QED BY <2>1
<1>6. down = [l \in 0..Levels |-> IF l = 0 THEN 0
                                  ELSE 2 * down[l - 1] + (IF tree[down[l - 1]] THEN 2 ELSE 1)]
  BY <1>5, Zenon
<1>7. plru_victim(tree) = down[Levels] - (2^Levels - 1)
  BY DEF plru_victim
<1> HIDE DEF down
<1>8. /\ down[0] = 0
      /\ \A l \in 1..Levels :
           down[l] = 2 * down[l - 1] + (IF tree[down[l - 1]] THEN 2 ELSE 1)
  BY <1>1, <1>6
<1>9. \A l \in 0..Levels : down[l] \in Int
  <2> DEFINE S == {l \in 0..Levels : down[l] \in Int}
  <2>1. 0 \in S
    BY <1>1, <1>8
  <2>2. \A k \in 0..Levels : k < Levels /\ k \in S => k + 1 \in S
    <3> SUFFICES ASSUME NEW k \in 0..Levels, k < Levels, down[k] \in Int
                 PROVE  k + 1 \in 0..Levels /\ down[k + 1] \in Int
      OBVIOUS
    <3>1. k + 1 \in 1..Levels /\ k + 1 - 1 = k
      BY <1>1
    <3>2. down[k + 1] = 2 * down[k] + (IF tree[down[k]] THEN 2 ELSE 1)
      BY <1>8, <3>1
    <3> QED BY <3>1, <3>2
  <2> HIDE DEF S
  <2>3. \A k \in 0..Levels : k \in S
    BY <1>1, <2>1, <2>2, FiniteInduction
  <2> QED BY <2>3 DEF S
<1>10. down \in [0..Levels -> Int]
  BY <1>6, <1>9
<1> QED BY <1>7, <1>8, <1>10

\* Were the entry just used the victim, the search would go up the path that
\* its use has turned the root away from.
LEMMA TouchedIsCold ==
  ASSUME NEW tree, NEW i \in Slot
  PROVE  plru_victim(Touched(tree, i)) # i
<1> DEFINE t == Touched(tree, i)
           n == Levels
<1>1. n \in Nat /\ n >= 1 /\ 2^n \in Nat /\ 2^n >= 2
  BY LevelsAssumption, Leaves
<1> SUFFICES ASSUME plru_victim(t) = i PROVE FALSE
  OBVIOUS
<1>2. PICK up \in [0..n -> Int] :
        /\ up[0] = Leaf(i)
        /\ \A l \in 1..n : up[l] = (up[l - 1] - 1) \div 2
        /\ Path(i) = {up[l] : l \in 0..n}
  BY PathIs
<1>3. PICK down \in [0..n -> Int] :
        /\ down[0] = 0
        /\ \A l \in 1..n : down[l] = 2 * down[l - 1] + (IF t[down[l - 1]] THEN 2 ELSE 1)
        /\ plru_victim(t) = down[n] - (2^n - 1)
  <2> HIDE DEF t
  <2> QED BY VictimIs
<1>4. up[0] = down[n]
  <2>1. i \in Int /\ down[n] \in Int
    BY <1>1 DEF Slot
  <2> HIDE DEF t
  <2> QED BY <1>1, <1>2, <1>3, <2>1 DEF Leaf
<1>5. t[0] = IF 1 \in Path(i) THEN TRUE ELSE IF 2 \in Path(i) THEN FALSE ELSE tree[0]
  BY <1>1 DEF Touched, Node
<1> HIDE DEF t
<1>6. \A l \in 0..n : up[l] = down[n - l]
  <2> DEFINE S == {l \in 0..n : up[l] = down[n - l]}
  <2>1. 0 \in S
    BY <1>1, <1>4
  <2>2. \A k \in 0..n : k < n /\ k \in S => k + 1 \in S
    <3> SUFFICES ASSUME NEW k \in 0..n, k < n, up[k] = down[n - k]
                 PROVE  k + 1 \in 0..n /\ up[k + 1] = down[n - (k + 1)]
      OBVIOUS
    <3> DEFINE a == down[n - k]
               b == down[n - (k + 1)]
    <3>1. /\ k + 1 \in 1..n /\ k + 1 - 1 = k /\ n - k \in 1..n /\ n - k - 1 = n - (k + 1)
          /\ n - (k + 1) \in 0..n
      BY <1>1
    <3>2. up[k + 1] = (a - 1) \div 2
      BY <1>2, <3>1
    <3>3. a = 2 * b + 2 \/ a = 2 * b + 1
      BY <1>3, <3>1
    <3>4. b \in Int
      BY <3>1
    <3> HIDE DEF a, b
    <3>5. (a - 1) \div 2 = b
      BY ONLY <3>3, <3>4
    <3> QED BY <3>1, <3>2, <3>5 DEF b
  <2> HIDE DEF S
  <2>3. \A k \in 0..n : k \in S
    BY <1>1, <2>1, <2>2, FiniteInduction
  <2> QED BY <2>3 DEF S
<1>7. up[n - 1] = down[1] /\ up[n] = 0 /\ down[1] = IF t[0] THEN 2 ELSE 1
  BY <1>1, <1>3, <1>6
<1>8. up[n - 1] \in Path(i)
  <2>1. n - 1 \in 0..n
    BY <1>1
  <2> QED BY <1>2, <2>1
<1>9. CASE 1 \notin Path(i)
  BY <1>5, <1>7, <1>8, <1>9
<1>10. CASE 1 \in Path(i)
  <2>1. up[n - 1] = 2
    BY <1>5, <1>7, <1>10
  <2>2. PICK a \in 0..n : up[a] = 1
    BY <1>2, <1>10
  <2>3. a < n - 1
    <3>1. a # n - 1 /\ a # n
      BY <1>7, <2>1, <2>2
    <3> QED BY ONLY <1>1, <3>1, a \in 0..n
  <2> DEFINE S == {l \in 0..n : l <= a \/ up[l] <= 0}
  <2>4. 0 \in S
    BY <1>1
  <2>5. \A k \in 0..n : k < n /\ k \in S => k + 1 \in S
    <3> SUFFICES ASSUME NEW k \in 0..n, k < n, k \in S, ~(k + 1 <= a)
                 PROVE  k + 1 \in 0..n /\ up[k + 1] <= 0
      <4> TAKE k \in 0..n
      <4> HAVE k < n /\ k \in S
      <4>1. k + 1 \in 0..n
        BY <1>1
      <4>2. CASE k + 1 <= a
        BY <4>1, <4>2
      <4>3. CASE ~(k + 1 <= a)
        BY <4>3
      <4> QED BY <4>2, <4>3
    <3>1. k + 1 \in 1..n /\ k + 1 - 1 = k /\ up[k] \in Int
      BY <1>1
    <3>2. up[k + 1] = (up[k] - 1) \div 2
      BY <1>2, <3>1
    <3>3. up[k] <= 1
      <4>1. k <= a \/ up[k] <= 0
        OBVIOUS
      <4>2. k <= a => k = a
        OBVIOUS
      <4> QED BY <2>2, <3>1, <4>1, <4>2
    <3> QED BY <3>1, <3>2, <3>3
  <2> HIDE DEF S
  <2>6. \A k \in 0..n : k \in S
    BY <1>1, <2>4, <2>5, FiniteInduction
  <2>7. n - 1 \in S
    BY <1>1, <2>6
  <2> QED BY <2>1, <2>3, <2>7 DEF S
<1> QED BY <1>9, <1>10

\* What a lookup or a fill has just used is not the next victim, for every size of
\* the TLB and in every state of its replacement tree.
THEOREM VictimStaysCold == Spec => []VictimIsCold
<1>1. VictimIsCold
  BY TouchedIsCold DEF VictimIsCold
<1> QED BY <1>1, PTL
=============================================================================
