---------------------------- MODULE MemPath_proofs --------------------------
(***************************************************************************)
(* Theorems about the memory path, for any addresses and contents of       *)
(* memory and every depth of the pending table: it accounts for every      *)
(* request, each acknowledge meets the request it belongs to, and the path *)
(* is a serial memory, with flushes in any cycle.                          *)
(***************************************************************************)
EXTENDS MemPath, SequenceTheorems, TLAPS

-----------------------------------------------------------------------------
(***************************************************************************)
(* The inductive invariant                                                 *)
(***************************************************************************)

\* A store carries data, and the MMIO path only loads.
SoundRequest(r) ==
  /\ r \in Request
  /\ r.wr => r.data \in Val /\ r.client = "lsq"

\* What the shim holds are requests; it reads a word for a load.
SoundShim ==
  /\ \A j \in DOMAIN fifo : SoundRequest(fifo[j])
  /\ shim_state # "IDLE" => SoundRequest(lat)
  /\ shim_state = "RESPOND" /\ ~lat.wr => lat_rdata \in Val

\* Addresses are there when they are needed.
SoundLoads ==
  /\ ld_state = "WAIT" => ld_wait_addr \in Addr
  /\ io_state # "IDLE" => io_addr \in Addr

\* The pointers of the pending table are its count apart.
PointersAgree == pend_wr_ptr = (pend_rd_ptr + pend_count) % PendDepth

\* Only the load that waits is pending, and it is pending once.
LoadEntry(i) == pend_valid[i] /\ pend_data[i].is_load

OneLoad ==
  /\ be_resp # None => ld_state = "WAIT" /\ ld_req_issued
  /\ \A i \in PendId : LoadEntry(i) =>
       /\ ld_state = "WAIT" /\ ld_req_issued /\ be_resp = None
       /\ pend_data[i].addr = ld_wait_addr
       /\ \A j \in PendId : LoadEntry(j) => i = j

\* The controller serves the source its state says, and reads unless it
\* writes for the data port.
SoundSource ==
  /\ arb_state # "PT"
  /\ arb_state # "IDLE" => arb # None
  /\ arb_state = "DATA" => arb.source = "data"
  /\ arb_state = "IFETCH" => arb.source = "ifetch" /\ ~arb.wr
  /\ arb_state = "WAIT" => arb.source \in {"data", "ifetch"} /\ ~arb.wr
  /\ data_ack => arb_state = "IDLE" /\ arb # None /\ arb.source = "data"

\* What the controller does for the data port it does for the request that
\* the shim has latched and knows to be accepted.
ServesLatched ==
  data_ack \/ (arb_state # "IDLE" /\ arb.source = "data") =>
    /\ shim_state \in {"WAIT_ACK", "DRAIN"} /\ req_accepted_q
    /\ arb.addr = lat.addr /\ arb.wr = lat.wr /\ arb.wdata = lat.data

\* Strobes belong to the request being served, and the word that memory holds
\* for the controller is the one it waits for.
SoundBus ==
  /\ ddram_we <=> data_ack /\ arb.wr
  /\ ddram_we => ddram_addr = arb.addr /\ ddram_din = arb.wdata /\ ddram_be = "word"
  /\ ddram_rd => arb_state = "WAIT" /\ ddram_addr = arb.addr /\ rd_pending = None
  /\ rd_pending # None => arb_state = "WAIT" /\ ~ddram_rd /\ rd_pending = arb.addr
  /\ data_ack /\ ~arb.wr => data_rdata = mem[arb.addr]

PathInv ==
  /\ TypeOK /\ Accounted /\ IoAccounted
  /\ SoundShim /\ SoundLoads /\ PointersAgree /\ OneLoad
  /\ SoundSource /\ ServesLatched /\ SoundBus

-----------------------------------------------------------------------------
(***************************************************************************)
(* A clock cycle with its inputs                                           *)
(***************************************************************************)
Step(flush, busy, deliver, ld, st) ==
  /\ flush \in BOOLEAN /\ busy \in BOOLEAN /\ deliver \in BOOLEAN
  /\ st \in StoreInput /\ ld \in LoadInput(flush, st)
  /\ Cycle(flush, busy, deliver, ld, st)

\* What passes between the parts in a cycle.
Rsp0(flush) == routed(shim_rsp, "lsq", flush)
Rsp1(flush) == routed(shim_rsp, "io", flush)
Grant0(flush, st) ==
  c0_req_ready(lsq_req(flush, st), io_req(flush), flush, req_ready(flush))
Grant1(flush) == c1_req_ready(io_req(flush), flush, req_ready(flush))
Down(flush, st) == dn_req(lsq_req(flush, st), io_req(flush), flush)
Taken(flush) == dn_rsp_ready(shim_rsp, flush, rsp_id_valid(shim_rsp), io_rsp_ready)
DataReq ==
  IF data_req(data_ack) THEN [addr |-> lat.addr, wr |-> lat.wr, wdata |-> lat.data] ELSE None

LEMMA StepParts ==
  ASSUME NEW flush, NEW busy, NEW deliver, NEW ld, NEW st, Step(flush, busy, deliver, ld, st)
  PROVE  /\ LsqClock(flush, ld.cached, None, st, Grant0(flush, st), Rsp0(flush))
         /\ IoClock(flush, ld.mmio, Grant1(flush), Rsp1(flush))
         /\ ShimClock(flush, Down(flush, st), data_gnt(DataReq, None, busy), data_ack,
                      data_rdata, Taken(flush))
         /\ CtrlClock(fetch_req(flush), DataReq, None, busy, Delivered(deliver))
         /\ DramClock(deliver, ddram_rd, ddram_we, ddram_addr, ddram_din, ddram_be)
         /\ ld_in_flight' =
              (/\ ~flush /\ ld_cdb = None /\ ~io_cdb_valid
               /\ ld_in_flight \/ ld.cached # None \/ ld.mmio # None)
BY DEF Step, Cycle, Rsp0, Rsp1, Grant0, Grant1, Down, Taken, DataReq

\* Indices of the pending table wrap at its depth.
LEMMA Wrap ==
  ASSUME NEW x \in 0..(2 * PendDepth - 1)
  PROVE  x % PendDepth = IF x < PendDepth THEN x ELSE x - PendDepth
<1>1. PendDepth \in Nat /\ PendDepth >= 1
  BY DepthAssumption
<1>2. /\ x \div PendDepth \in Int /\ x % PendDepth \in 0..(PendDepth - 1)
      /\ x = PendDepth * (x \div PendDepth) + (x % PendDepth)
  BY <1>1
<1>3. CASE x < PendDepth
  <2>1. x \div PendDepth = 0
    BY <1>1, <1>2, <1>3
  <2> QED BY <1>1, <1>2, <1>3, <2>1
<1>4. CASE x >= PendDepth
  <2>1. x \div PendDepth = 1
    BY <1>1, <1>2, <1>4
  <2> QED BY <1>1, <1>2, <1>4, <2>1
<1> QED BY <1>1, <1>3, <1>4

LEMMA InitInv == Init => PathInv
<1> SUFFICES ASSUME Init PROVE PathInv
  OBVIOUS
<1>1. TypeOK
  <2>0. 0 \in PendId /\ PendDepth \in Nat
    BY DepthAssumption DEF PendId
  <2>1. LsqTypeOK
    <3> USE <2>0 DEF Init, LsqInit
    <3>1. pend_valid \in [PendId -> BOOLEAN] /\ pend_data \in [PendId -> PendEntry \cup {None}]
      OBVIOUS
    <3>2. pend_count \in 0..PendDepth /\ pend_wr_ptr \in PendId /\ pend_rd_ptr \in PendId
      OBVIOUS
    <3> QED BY <3>1, <3>2 DEF LsqTypeOK
  <2>2. IoTypeOK
    BY DEF Init, IoInit, IoTypeOK
  <2>4. ShimTypeOK
    <3>1. << >> \in Seq(Request) /\ Len(<< >>) = 0
      BY EmptySeq
    <3>2. fifo \in Seq(Request) /\ Len(fifo) <= PendDepth
      BY <3>1, <2>0, DepthAssumption DEF Init, ShimInit
    <3> QED BY <3>2 DEF Init, ShimInit, ShimTypeOK
  <2>3. CtrlTypeOK /\ DramTypeOK
    BY DEF Init, CtrlInit, DramInit, CtrlTypeOK, DramTypeOK
  <2> QED BY <2>1, <2>2, <2>3, <2>4 DEF TypeOK, Init
<1>2. InPath = << >>
  BY DEF Init, ShimInit, InPath, Serving_
<1>3. Places("lsq") = {} /\ Places("io") = {}
  BY <1>2 DEF Places
<1>4. Accounted /\ IoAccounted
  <2>1. 1..pend_count = {} /\ \A i \in PendId : ~pend_valid[i]
    BY DEF Init, LsqInit
  <2> DEFINE place == [k \in 1..pend_count |-> 0]
  <2>2. place \in [1..pend_count -> Places("lsq")]
    BY <2>1
  <2>3. Accounted
    BY <2>1, <2>2, <1>3 DEF Accounted
  <2> QED BY <2>3, <1>3 DEF IoAccounted, Init, IoInit
<1>5. PointersAgree
  BY DepthAssumption, Wrap DEF Init, LsqInit, PointersAgree
<1>6. SoundShim /\ SoundLoads /\ OneLoad
  BY DEF Init, LsqInit, IoInit, ShimInit, SoundShim, SoundLoads, OneLoad, LoadEntry
<1>7. SoundSource /\ ServesLatched /\ SoundBus
  BY DEF Init, CtrlInit, DramInit, SoundSource, ServesLatched, SoundBus
<1> QED BY <1>1, <1>4, <1>5, <1>6, <1>7 DEF PathInv

-----------------------------------------------------------------------------
(***************************************************************************)
(* The channel from the clients to the shim and back                       *)
(***************************************************************************)

\* A request goes into the path, a response comes out.
Pushed(flush, st) == Down(flush, st) # None /\ req_ready(flush)
Popped(flush) == shim_state = "RESPOND" /\ Taken(flush)

LEMMA DepthPositive == PendDepth \in Nat /\ PendDepth >= 1 /\ 0 \in PendId
BY DepthAssumption DEF PendId

LEMMA RequestsSound ==
  ASSUME PathInv, NEW flush, NEW busy, NEW deliver, NEW ld, NEW st,
         Step(flush, busy, deliver, ld, st)
  PROVE  /\ lsq_req(flush, st) # None =>
              /\ SoundRequest(lsq_req(flush, st)) /\ lsq_req(flush, st).client = "lsq"
              /\ lsq_req(flush, st).id = pend_wr_ptr
              /\ ~flush /\ pend_count # PendDepth
         /\ io_req(flush) # None =>
              /\ SoundRequest(io_req(flush)) /\ io_req(flush).client = "io"
              /\ ~flush /\ io_state = "ISSUE" /\ io_req(flush).addr = io_addr
              /\ ~io_req(flush).wr
         /\ issue_load(flush) =>
              /\ lsq_req(flush, st) = Load("lsq", pend_wr_ptr, ld_wait_addr)
              /\ ld_wait_addr \in Addr /\ lsq_req(flush, st) # None
         /\ lsq_req(flush, st) # None /\ ~issue_load(flush) =>
              /\ lsq_req(flush, st) = Store(pend_wr_ptr, st.addr, st.data)
              /\ st.addr \in Addr /\ st.data \in Val
<1>1. pend_wr_ptr \in PendId
  BY DEF PathInv, TypeOK, LsqTypeOK
<1>2. ASSUME issue_load(flush)
      PROVE  ld_wait_addr \in Addr
  BY <1>2 DEF issue_load, PathInv, SoundLoads
<1>3. ASSUME issue_load(flush)
      PROVE  /\ SoundRequest(Load("lsq", pend_wr_ptr, ld_wait_addr))
             /\ Load("lsq", pend_wr_ptr, ld_wait_addr) # None
  <2> DEFINE r == Load("lsq", pend_wr_ptr, ld_wait_addr)
  <2>1. r \in Request /\ ~r.wr
    BY <1>1, <1>2, <1>3 DEF Load, Request
  <2> QED BY <2>1, ChannelAssumption DEF SoundRequest
<1>4. ASSUME st # None
      PROVE  st.addr \in Addr /\ st.data \in Val /\ SoundRequest(Store(pend_wr_ptr, st.addr, st.data))
  <2>1. st \in [addr : Addr, data : Val]
    BY <1>4 DEF Step, StoreInput
  <2> QED BY <2>1, <1>1 DEF Store, SoundRequest, Request
<1>5. ASSUME io_req(flush) # None
      PROVE  /\ SoundRequest(io_req(flush)) /\ io_req(flush).client = "io"
             /\ ~flush /\ io_state = "ISSUE" /\ io_req(flush).addr = io_addr
             /\ ~io_req(flush).wr
  <2>1. io_addr \in Addr /\ io_state = "ISSUE" /\ ~flush
    BY <1>5 DEF io_req, PathInv, SoundLoads
  <2> QED BY <2>1, DepthPositive DEF io_req, Load, SoundRequest, Request
<1>6. lsq_req(flush, st) # None => ~flush /\ pend_count # PendDepth
  BY DEF lsq_req, issue_load, can_issue
<1>7. CASE issue_load(flush)
  <2>1. lsq_req(flush, st) = Load("lsq", pend_wr_ptr, ld_wait_addr)
    BY <1>7 DEF lsq_req
  <2> QED BY <2>1, <1>2, <1>3, <1>5, <1>6, <1>7 DEF Load
<1>8. CASE ~issue_load(flush)
  <2>1. lsq_req(flush, st) # None =>
          st # None /\ lsq_req(flush, st) = Store(pend_wr_ptr, st.addr, st.data)
    BY <1>8 DEF lsq_req
  <2>2. lsq_req(flush, st) # None =>
          /\ SoundRequest(lsq_req(flush, st)) /\ lsq_req(flush, st).client = "lsq"
          /\ lsq_req(flush, st).id = pend_wr_ptr /\ st.addr \in Addr /\ st.data \in Val
    <3>1. /\ Store(pend_wr_ptr, st.addr, st.data).client = "lsq"
          /\ Store(pend_wr_ptr, st.addr, st.data).id = pend_wr_ptr
      BY DEF Store
    <3> QED BY <2>1, <3>1, <1>4
  <2> QED BY <2>1, <2>2, <1>5, <1>6, <1>8
<1> QED BY <1>7, <1>8

LEMMA Channel ==
  ASSUME PathInv, NEW flush, NEW busy, NEW deliver, NEW ld, NEW st,
         Step(flush, busy, deliver, ld, st)
  PROVE  /\ Down(flush, st) # None => SoundRequest(Down(flush, st)) /\ ~flush
         /\ Grant0(flush, st) <=> Pushed(flush, st) /\ Down(flush, st).client = "lsq"
         /\ Grant0(flush, st) => Down(flush, st) = lsq_req(flush, st)
         /\ Grant1(flush) <=> Pushed(flush, st) /\ Down(flush, st).client = "io"
         /\ Grant1(flush) => io_state = "ISSUE" /\ Down(flush, st).addr = io_addr
         /\ io_state # "ISSUE" /\ Down(flush, st) # None => Down(flush, st).client = "lsq"
         /\ flush => ~Grant0(flush, st) /\ ~Grant1(flush) /\ ~Pushed(flush, st)
BY RequestsSound DEF Down, dn_req, Grant0, Grant1, c0_req_ready, c1_req_ready, Pushed

LEMMA Responses ==
  ASSUME PathInv, NEW flush
  PROVE  /\ Rsp0(flush) # None <=> shim_state = "RESPOND" /\ lat.client = "lsq" /\ ~flush
         /\ Rsp1(flush) # None <=> shim_state = "RESPOND" /\ lat.client = "io" /\ ~flush
         /\ Rsp0(flush) # None => Rsp0(flush).client = "lsq" /\ Rsp0(flush).id = lat.id
                                  /\ Rsp0(flush).rdata = lat_rdata
         /\ Rsp1(flush) # None => Rsp1(flush).rdata = lat_rdata
         /\ shim_state = "RESPOND" => lat \in Request
         /\ Popped(flush) <=>
              shim_state = "RESPOND" /\ (flush \/ IF lat.client = "io" THEN io_rsp_ready
                                                  ELSE pend_valid[lat.id])
<1>1. CASE shim_state # "RESPOND"
  BY <1>1 DEF Rsp0, Rsp1, routed, shim_rsp, Popped
<1>2. CASE shim_state = "RESPOND"
  <2>1. lat \in Request /\ lat_rdata \in Val \cup {None}
    BY <1>2 DEF PathInv, SoundShim, SoundRequest, TypeOK, ShimTypeOK
  <2>2. lat.client \in {"lsq", "io"} /\ lat.id \in PendId
    BY <2>1 DEF Request
  <2>3. shim_rsp = [client |-> lat.client, id |-> lat.id, rdata |-> lat_rdata]
    BY <1>2 DEF shim_rsp
  <2>4. shim_rsp # None
    BY <2>1, <2>2, <2>3, ChannelAssumption DEF Response
  <2>5. Popped(flush) <=>
          (flush \/ IF lat.client = "io" THEN io_rsp_ready ELSE pend_valid[lat.id])
    BY <1>2, <2>2, <2>3, <2>4 DEF Popped, Taken, dn_rsp_ready, rsp_id_valid
  <2> QED BY <1>2, <2>1, <2>2, <2>3, <2>4, <2>5 DEF Rsp0, Rsp1, routed
<1> QED BY <1>1, <1>2

-----------------------------------------------------------------------------
(***************************************************************************)
(* How the path moves                                                      *)
(***************************************************************************)
PathOf(s, l, f) == (IF s \in {"ISSUE", "WAIT_ACK", "RESPOND"} THEN <<l>> ELSE << >>) \o f
Served(s) == IF s \in {"ISSUE", "WAIT_ACK", "RESPOND"} THEN 1 ELSE 0

LEMMA PathShape ==
  ASSUME NEW s, NEW l, NEW f \in Seq(Request), Served(s) = 1 => l \in Request
  PROVE  /\ PathOf(s, l, f) \in Seq(Request)
         /\ Len(PathOf(s, l, f)) = Served(s) + Len(f) /\ Len(f) \in Nat
         /\ DOMAIN PathOf(s, l, f) = 1..(Served(s) + Len(f))
         /\ Served(s) = 1 => PathOf(s, l, f)[1] = l
         /\ \A j \in 1..Len(f) : PathOf(s, l, f)[j + Served(s)] = f[j]
<1>1. CASE Served(s) = 1
  <2>1. <<l>> \in Seq(Request) /\ Len(<<l>>) = 1 /\ <<l>>[1] = l
    BY <1>1
  <2>2. PathOf(s, l, f) = <<l>> \o f
    BY <1>1 DEF PathOf, Served
  <2>3. /\ <<l>> \o f \in Seq(Request) /\ Len(<<l>> \o f) = 1 + Len(f)
        /\ \A i \in 1..(1 + Len(f)) : (<<l>> \o f)[i] = IF i <= 1 THEN l ELSE f[i - 1]
    BY <2>1, ConcatProperties
  <2>4. Len(f) \in Nat /\ DOMAIN (<<l>> \o f) = 1..(1 + Len(f))
    BY <2>3, LenProperties
  <2> QED BY <1>1, <2>2, <2>3, <2>4
<1>2. CASE Served(s) = 0
  <2>1. PathOf(s, l, f) = f
    BY <1>2, ConcatEmptySeq DEF PathOf, Served
  <2> QED BY <1>2, <2>1, LenProperties
<1> QED BY <1>1, <1>2 DEF Served

\* What is in the path now, and what the invariant says of it.
LEMMA PathNow ==
  ASSUME PathInv
  PROVE  /\ InPath = PathOf(shim_state, lat, fifo) /\ InPath \in Seq(Request)
         /\ fifo \in Seq(Request) /\ Len(fifo) \in 0..PendDepth
         /\ Len(InPath) = Served(shim_state) + Len(fifo) /\ Len(InPath) \in Nat
         /\ DOMAIN InPath = 1..Len(InPath)
         /\ Served(shim_state) = 1 => InPath[1] = lat /\ lat \in Request
         /\ \A j \in 1..Len(fifo) : InPath[j + Served(shim_state)] = fifo[j]
<1>1. InPath = PathOf(shim_state, lat, fifo)
  BY DEF InPath, Serving_, PathOf
<1>2. fifo \in Seq(Request) /\ Len(fifo) <= PendDepth
  BY DEF PathInv, TypeOK, ShimTypeOK
<1>3. Served(shim_state) = 1 => lat \in Request
  BY DEF PathInv, SoundShim, SoundRequest, Served
<1>4. Served(shim_state) \in {0, 1}
  BY DEF Served
<1> QED BY <1>1, <1>2, <1>3, <1>4, PathShape

\* A cycle without a flush takes the oldest request off the FIFO when the shim
\* is idle and adds a new one at the end.
LEMMA FifoMoves ==
  ASSUME PathInv, NEW flush, NEW busy, NEW deliver, NEW ld, NEW st,
         Step(flush, busy, deliver, ld, st), ~flush,
         NEW m, m = Len(fifo) - (IF fifo_rd_en(flush) THEN 1 ELSE 0)
  PROVE  /\ m \in Nat /\ m <= Len(fifo)
         /\ fifo' \in Seq(Request) /\ Len(fifo') <= PendDepth
         /\ Len(fifo') = m + (IF Pushed(flush, st) THEN 1 ELSE 0)
         /\ fifo_rd_en(flush) => \A i \in 1..m : fifo'[i] = fifo[i + 1]
         /\ ~fifo_rd_en(flush) => \A i \in 1..m : fifo'[i] = fifo[i]
         /\ Pushed(flush, st) => /\ fifo'[m + 1] = Down(flush, st)
                                 /\ Down(flush, st) \in Request
         /\ fifo_rd_en(flush) => /\ shim_state = "IDLE" /\ Len(fifo) >= 1
                                 /\ lat' = fifo[1] /\ fifo[1] \in Request
         /\ ~fifo_rd_en(flush) => lat' = lat
         /\ shim_state = "IDLE" /\ ~fifo_rd_en(flush) => Len(fifo) = 0
<1> DEFINE w == Pushed(flush, st)
           rd == fifo_rd_en(flush)
           rest == IF rd THEN Tail(fifo) ELSE fifo
           req == Down(flush, st)
<1>1. /\ fifo' = IF w THEN Append(rest, req) ELSE rest
      /\ shim_state' = shim_next(flush, data_ack, Taken(flush))
      /\ lat' = IF rd THEN Head(fifo) ELSE lat
  BY StepParts DEF ShimClock, Pushed
<1>2. rd => fifo # << >> /\ shim_state = "IDLE"
  BY DEF fifo_rd_en
<1>3. /\ fifo \in Seq(Request) /\ Len(fifo) \in Nat /\ Len(fifo) <= PendDepth
      /\ PendDepth \in Nat
      /\ w => Len(fifo) < PendDepth /\ req \in Request
  <2>1. w => Len(fifo) < PendDepth /\ req # None
    BY DEF Pushed, req_ready
  <2>2. req # None => req \in Request
    BY Channel DEF SoundRequest
  <2>3. fifo \in Seq(Request) /\ Len(fifo) \in 0..PendDepth /\ PendDepth \in Nat
    BY PathNow, DepthPositive
  <2> QED BY <2>1, <2>2, <2>3
<1>16. w \in BOOLEAN /\ rd \in BOOLEAN
  BY DEF Pushed, fifo_rd_en
<1>4. /\ rest \in Seq(Request) /\ Len(rest) = Len(fifo) - (IF rd THEN 1 ELSE 0)
      /\ Len(rest) \in Nat
      /\ \A i \in 1..Len(rest) : rest[i] = fifo[i + (IF rd THEN 1 ELSE 0)]
      /\ rd => Head(fifo) = fifo[1] /\ Head(fifo) \in Request /\ Len(fifo) >= 1
  <2>1. CASE rd
    BY <2>1, <1>2, <1>3, HeadTailProperties, EmptySeq
  <2>2. CASE ~rd
    BY <2>2, <1>3
  <2> QED BY <2>1, <2>2
<1> HIDE DEF rest, w, rd, req
<1>5. /\ fifo' \in Seq(Request) /\ Len(fifo') = Len(rest) + (IF w THEN 1 ELSE 0)
      /\ Len(rest) <= Len(fifo') /\ Len(fifo') \in Nat
      /\ \A i \in 1..Len(rest) : fifo'[i] = rest[i]
      /\ w => fifo'[Len(rest) + 1] = req
  <2>1. CASE w
    BY <2>1, <1>1, <1>3, <1>4, AppendProperties
  <2>2. CASE ~w
    BY <2>2, <1>1, <1>4
  <2> QED BY <2>1, <2>2
<1>6. Len(fifo') <= PendDepth
  BY <1>3, <1>4, <1>5
<1>7. Len(rest) = m /\ m \in Nat /\ m <= Len(fifo)
  BY <1>3, <1>4, <1>16 DEF rd
<1>8. shim_state = "IDLE" /\ ~rd => Len(fifo) = 0
  BY EmptySeq DEF rd, fifo_rd_en
<1>9. rd => \A i \in 1..m : fifo'[i] = fifo[i + 1]
  <2> SUFFICES ASSUME rd, NEW i \in 1..m PROVE fifo'[i] = fifo[i + 1]
    OBVIOUS
  <2>1. i \in 1..Len(rest)
    BY <1>7
  <2> QED BY <1>4, <1>5, <2>1
<1>10. ~rd => \A i \in 1..m : fifo'[i] = fifo[i]
  <2> SUFFICES ASSUME ~rd, NEW i \in 1..m PROVE fifo'[i] = fifo[i]
    OBVIOUS
  <2>1. i \in 1..Len(rest) /\ i + 0 = i
    BY <1>7
  <2>2. fifo'[i] = rest[i] /\ rest[i] = fifo[i + 0]
    BY <1>4, <1>5, <2>1
  <2> QED BY <2>1, <2>2
<1> QED BY <1>1, <1>2, <1>3, <1>4, <1>5, <1>6, <1>7, <1>8, <1>9, <1>10 DEF w, req, rd

\* A cycle without a flush takes the oldest request off the path when it is
\* answered and adds a new one at the end.
LEMMA PathMoves ==
  ASSUME PathInv, NEW flush, NEW busy, NEW deliver, NEW ld, NEW st,
         Step(flush, busy, deliver, ld, st), ~flush,
         NEW n, n = Len(InPath) - (IF Popped(flush) THEN 1 ELSE 0)
  PROVE  /\ fifo' \in Seq(Request) /\ Len(fifo') <= PendDepth
         /\ n \in Nat /\ (Popped(flush) => InPath # << >>)
         /\ InPath' \in Seq(Request)
         /\ DOMAIN InPath' = 1..(n + (IF Pushed(flush, st) THEN 1 ELSE 0))
         /\ \A j \in 1..n : InPath'[j] = InPath[j + (IF Popped(flush) THEN 1 ELSE 0)]
         /\ Pushed(flush, st) => InPath'[n + 1] = Down(flush, st)
<1> DEFINE w == Pushed(flush, st)
           rd == fifo_rd_en(flush)
           rest == IF rd THEN Tail(fifo) ELSE fifo
           req == Down(flush, st)
<1>1. /\ fifo' = IF w THEN Append(rest, req) ELSE rest
      /\ shim_state' = shim_next(flush, data_ack, Taken(flush))
      /\ lat' = IF rd THEN Head(fifo) ELSE lat
  BY StepParts DEF ShimClock, Pushed
<1>2. rd => fifo # << >> /\ shim_state = "IDLE"
  BY DEF fifo_rd_en
<1>3. /\ fifo \in Seq(Request) /\ Len(fifo) \in Nat /\ Len(fifo) <= PendDepth
      /\ PendDepth \in Nat
      /\ w => Len(fifo) < PendDepth /\ req \in Request
  <2>1. w => Len(fifo) < PendDepth /\ req # None
    BY DEF Pushed, req_ready
  <2>2. req # None => req \in Request
    BY Channel DEF SoundRequest
  <2>3. fifo \in Seq(Request) /\ Len(fifo) \in 0..PendDepth /\ PendDepth \in Nat
    BY PathNow, DepthPositive
  <2> QED BY <2>1, <2>2, <2>3
<1>16. w \in BOOLEAN /\ rd \in BOOLEAN
  BY DEF Pushed, fifo_rd_en
<1>4. /\ rest \in Seq(Request) /\ Len(rest) = Len(fifo) - (IF rd THEN 1 ELSE 0)
      /\ Len(rest) \in Nat
      /\ \A i \in 1..Len(rest) : rest[i] = fifo[i + (IF rd THEN 1 ELSE 0)]
      /\ rd => Head(fifo) = fifo[1] /\ Head(fifo) \in Request /\ Len(fifo) >= 1
  <2>1. CASE rd
    BY <2>1, <1>2, <1>3, HeadTailProperties, EmptySeq
  <2>2. CASE ~rd
    BY <2>2, <1>3
  <2> QED BY <2>1, <2>2
<1> HIDE DEF rest, w, rd, req
<1>5. /\ fifo' \in Seq(Request) /\ Len(fifo') = Len(rest) + (IF w THEN 1 ELSE 0)
      /\ Len(rest) <= Len(fifo') /\ Len(fifo') \in Nat
      /\ \A i \in 1..Len(rest) : fifo'[i] = rest[i]
      /\ w => fifo'[Len(rest) + 1] = req
  <2>1. CASE w
    BY <2>1, <1>1, <1>3, <1>4, AppendProperties
  <2>2. CASE ~w
    BY <2>2, <1>1, <1>4
  <2> QED BY <2>1, <2>2
<1>6. Len(fifo') <= PendDepth
  BY <1>3, <1>4, <1>5
<1> DEFINE h == Served(shim_state)
           g == Served(shim_state')
           p == IF Popped(flush) THEN 1 ELSE 0
           r == IF rd THEN 1 ELSE 0
<1>7. /\ g + p = h + r /\ h \in {0, 1} /\ g \in {0, 1} /\ p \in {0, 1} /\ r \in {0, 1}
      /\ p <= h
      /\ rd => g = 1 /\ h = 0
      /\ g = 1 /\ ~rd => p = 0 /\ h = 1
  <2>1. shim_state \in {"IDLE", "ISSUE", "WAIT_ACK", "RESPOND", "DRAIN"}
    BY DEF PathInv, TypeOK, ShimTypeOK
  <2>2. CASE shim_state = "IDLE"
    BY <2>2, <1>1, <1>16 DEF shim_next, Served, Popped, rd
  <2>3. CASE shim_state # "IDLE"
    <3>1. ~rd
      BY <2>3, <1>2
    <3> QED BY <2>1, <2>3, <3>1, <1>1 DEF shim_next, Served, Popped
  <2> QED BY <2>2, <2>3
<1> HIDE DEF h, g, p, r
<1>17. /\ r = (IF rd THEN 1 ELSE 0) /\ p = (IF Popped(flush) THEN 1 ELSE 0)
       /\ h = Served(shim_state) /\ g = Served(shim_state')
  BY DEF r, p, h, g
<1> USE <1>17
<1>8. g = 1 => lat' \in Request
  BY <1>1, <1>4, <1>7, PathNow
<1>9. InPath' = PathOf(shim_state', lat', fifo')
  BY DEF InPath, Serving_, PathOf
<1>10. /\ InPath' \in Seq(Request) /\ DOMAIN InPath' = 1..(g + Len(fifo'))
       /\ g = 1 => InPath'[1] = lat'
       /\ \A j \in 1..Len(fifo') : InPath'[j + g] = fifo'[j]
  BY <1>5, <1>8, <1>9, PathShape
<1>11. n = h + Len(fifo) - p /\ n = g + Len(rest) /\ n \in Nat
  BY <1>3, <1>4, <1>7, PathNow
<1>12. ASSUME NEW j \in 1..n
       PROVE  InPath'[j] = InPath[j + p]
  <2>1. CASE g = 1 /\ j = 1
    <3>1. InPath'[j] = lat'
      BY <2>1, <1>10
    <3>2. CASE rd
      <4>1. j + p = 1 + h /\ 1 \in 1..Len(fifo)
        BY <2>1, <3>2, <1>3, <1>4, <1>7
      <4> QED BY <3>1, <3>2, <4>1, <1>1, <1>4, PathNow
    <3>3. CASE ~rd
      <4>1. j + p = 1 /\ h = 1
        BY <2>1, <3>3, <1>7
      <4> QED BY <3>1, <3>3, <4>1, <1>1, PathNow
    <3> QED BY <3>2, <3>3
  <2>2. CASE ~(g = 1 /\ j = 1)
    <3>1. j - g \in 1..Len(rest)
      BY <2>2, <1>4, <1>7, <1>11
    <3>2. j - g \in 1..Len(fifo') /\ (j - g) + g = j
      <4>1. j - g \in 1..Len(fifo')
        <5>1. Len(rest) \in Nat /\ Len(fifo') \in Nat /\ Len(rest) <= Len(fifo')
          BY <1>4, <1>5
        <5> QED BY ONLY <3>1, <5>1
      <4>2. j \in Int /\ g \in Int
        BY <1>7, <1>11
      <4> QED BY <4>1, <4>2
    <3>3. InPath'[j] = fifo'[j - g]
      BY <3>2, <1>10
    <3>4. fifo'[j - g] = fifo[(j - g) + r]
      BY <3>1, <1>4, <1>5
    <3>5. (j - g) + r \in 1..Len(fifo) /\ ((j - g) + r) + h = j + p
      <4>1. /\ Len(rest) = Len(fifo) - r /\ Len(rest) \in Nat /\ Len(fifo) \in Nat
            /\ j \in Int /\ n \in Nat
        BY <1>3, <1>4, <1>11
      <4>2. g + p = h + r /\ h \in Int /\ g \in Int /\ p \in Int /\ r \in {0, 1}
        BY <1>7
      <4> QED BY ONLY <3>1, <4>1, <4>2
    <3> QED BY <3>3, <3>4, <3>5, PathNow
  <2> QED BY <2>1, <2>2
<1>13. w => InPath'[n + 1] = req
  <2> SUFFICES ASSUME w PROVE InPath'[n + 1] = req
    OBVIOUS
  <2>1. Len(rest) + 1 \in 1..Len(fifo') /\ (Len(rest) + 1) + g = n + 1
    <3>1. Len(fifo') = Len(rest) + 1 /\ Len(rest) \in Nat
      BY <1>4, <1>5
    <3>2. n = g + Len(rest) /\ g \in Int
      BY <1>7, <1>11
    <3> QED BY ONLY <3>1, <3>2
  <2> QED BY <2>1, <1>5, <1>10
<1>14. Popped(flush) => InPath # << >>
  BY <1>7, PathNow, EmptySeq
<1>15. g + Len(fifo') = n + (IF w THEN 1 ELSE 0)
  <2>1. Len(fifo') = Len(rest) + (IF w THEN 1 ELSE 0) /\ Len(rest) \in Nat
    BY <1>4, <1>5
  <2>2. n = g + Len(rest) /\ g \in {0, 1}
    BY <1>7, <1>11
  <2>3. CASE w
    BY <2>1, <2>2, <2>3
  <2>4. CASE ~w
    BY <2>1, <2>2, <2>4
  <2> QED BY <2>3, <2>4
<1> QED BY <1>5, <1>6, <1>10, <1>11, <1>12, <1>13, <1>14, <1>15 DEF w, req

-----------------------------------------------------------------------------
(***************************************************************************)
(* The pending table                                                       *)
(***************************************************************************)
Ring(r, k) == (r + k - 1) % PendDepth

LEMMA RingFacts ==
  ASSUME NEW r \in PendId
  PROVE  /\ \A k \in 1..(PendDepth + 1) : Ring(r, k) \in PendId
         /\ Ring(r, 1) = r
         /\ \A k, l \in 1..PendDepth : Ring(r, k) = Ring(r, l) => k = l
         /\ NextId(r) \in PendId
         /\ \A k \in 1..PendDepth : Ring(NextId(r), k) = Ring(r, k + 1)
         /\ \A k \in 1..PendDepth : NextId(Ring(r, k)) = Ring(r, k + 1)
<1>1. PendDepth \in Nat /\ PendDepth >= 1 /\ r \in 0..(PendDepth - 1) /\ r \in Nat
  BY DepthPositive DEF PendId
<1>2. ASSUME NEW k \in 1..(PendDepth + 1)
      PROVE  /\ Ring(r, k) = IF r + k - 1 < PendDepth THEN r + k - 1
                             ELSE r + k - 1 - PendDepth
             /\ Ring(r, k) \in 0..(PendDepth - 1)
  <2> DEFINE x == r + k - 1
  <2>1. x \in 0..(2 * PendDepth - 1)
    BY <1>1
  <2> HIDE DEF x
  <2>2. x % PendDepth = IF x < PendDepth THEN x ELSE x - PendDepth
    BY <2>1, Wrap
  <2>3. Ring(r, k) = IF x < PendDepth THEN x ELSE x - PendDepth
    BY <2>2 DEF Ring, x
  <2> QED BY <1>1, <2>1, <2>3 DEF x
<1>3. Ring(r, 1) = r
  BY <1>1, <1>2
<1>7. ASSUME NEW i \in 0..(PendDepth - 1)
      PROVE  NextId(i) = IF i + 1 < PendDepth THEN i + 1 ELSE 0
  <2> DEFINE x == i + 1
  <2>1. x \in 0..(2 * PendDepth - 1) /\ NextId(i) = x % PendDepth
    BY <1>1 DEF NextId
  <2> HIDE DEF x
  <2>2. x % PendDepth = IF x < PendDepth THEN x ELSE x - PendDepth
    BY <2>1, Wrap
  <2> QED BY <1>1, <2>1, <2>2 DEF x
<1>4. NextId(r) = IF r + 1 < PendDepth THEN r + 1 ELSE 0
  BY <1>1, <1>7
<1>5. ASSUME NEW k \in 1..PendDepth
      PROVE  Ring(NextId(r), k) = Ring(r, k + 1)
  <2> DEFINE x == NextId(r) + k - 1
  <2>1. x \in 0..(2 * PendDepth - 1)
    BY <1>1, <1>4
  <2>2. x = (r + 1) + k - 1 \/ (x = k - 1 /\ r + 1 = PendDepth)
    BY <1>1, <1>4
  <2> HIDE DEF x
  <2>3. x % PendDepth = IF x < PendDepth THEN x ELSE x - PendDepth
    BY <2>1, Wrap
  <2>4. Ring(NextId(r), k) = IF x < PendDepth THEN x ELSE x - PendDepth
    BY <2>3 DEF Ring, x
  <2>5. k + 1 \in 1..(PendDepth + 1)
    BY <1>1
  <2>6. Ring(r, k + 1) = IF r + (k + 1) - 1 < PendDepth THEN r + (k + 1) - 1
                         ELSE r + (k + 1) - 1 - PendDepth
    BY <1>2, <2>5
  <2> QED BY <1>1, <2>2, <2>4, <2>6
<1>6. ASSUME NEW k \in 1..PendDepth, NEW l \in 1..PendDepth, Ring(r, k) = Ring(r, l)
      PROVE  k = l
  BY <1>1, <1>2, <1>6
<1>8. ASSUME NEW k \in 1..PendDepth
      PROVE  NextId(Ring(r, k)) = Ring(r, k + 1)
  <2>1. k \in 1..(PendDepth + 1) /\ k + 1 \in 1..(PendDepth + 1)
    BY <1>1
  <2>2. /\ Ring(r, k) \in 0..(PendDepth - 1)
        /\ Ring(r, k) = IF r + k - 1 < PendDepth THEN r + k - 1 ELSE r + k - 1 - PendDepth
        /\ Ring(r, k + 1) = IF r + (k + 1) - 1 < PendDepth THEN r + (k + 1) - 1
                            ELSE r + (k + 1) - 1 - PendDepth
    BY <1>2, <2>1
  <2>3. NextId(Ring(r, k)) = IF Ring(r, k) + 1 < PendDepth THEN Ring(r, k) + 1 ELSE 0
    BY <1>7, <2>2
  <2> QED BY <1>1, <2>2, <2>3
<1> QED BY <1>1, <1>2, <1>3, <1>4, <1>5, <1>6, <1>8 DEF PendId

\* The response to the load/store queue answers its oldest pending request.
LEMMA OldestAnswered ==
  ASSUME PathInv, shim_state = "RESPOND", lat.client = "lsq"
  PROVE  /\ pend_count >= 1 /\ lat.id = pend_rd_ptr /\ pend_valid[pend_rd_ptr]
         /\ pend_data[pend_rd_ptr] = [is_load |-> ~lat.wr, addr |-> lat.addr]
         /\ \A place \in [1..pend_count -> Places("lsq")] :
              (/\ \A j \in Places("lsq") : \E k \in 1..pend_count : place[k] = j
               /\ \A k \in 1..pend_count : \A l \in 1..(k - 1) : place[l] < place[k])
              => place[1] = 1
<1>1. 1 \in Places("lsq") /\ InPath[1] = lat /\ Places("lsq") \subseteq 1..Len(InPath)
      /\ Len(InPath) \in Nat
  <2>1. Served(shim_state) = 1
    BY DEF Served
  <2>2. 1 \in 1..Len(InPath)
    BY PathNow, <2>1
  <2> QED BY PathNow, <2>1, <2>2 DEF Places
<1>2. pend_count \in 0..PendDepth /\ pend_rd_ptr \in PendId /\ PendDepth \in Nat
  BY DepthPositive DEF PathInv, TypeOK, LsqTypeOK
<1>3. ASSUME NEW place \in [1..pend_count -> Places("lsq")],
             \A j \in Places("lsq") : \E k \in 1..pend_count : place[k] = j,
             \A k \in 1..pend_count : \A l \in 1..(k - 1) : place[l] < place[k]
      PROVE  pend_count >= 1 /\ place[1] = 1
  <2>1. PICK k \in 1..pend_count : place[k] = 1
    BY <1>1, <1>3
  <2>2. 1 \in 1..pend_count /\ pend_count >= 1
    BY <1>2, <2>1
  <2>3. place[1] \in 1..Len(InPath)
    BY <1>1, <2>2
  <2>4. k = 1
    <3> SUFFICES ASSUME k # 1 PROVE FALSE
      OBVIOUS
    <3>1. 1 \in 1..(k - 1)
      BY <1>2, <2>1
    <3>2. place[1] < place[k]
      BY <1>3, <3>1
    <3> QED BY <2>1, <2>3, <3>2, <1>1
  <2> QED BY <2>1, <2>2, <2>4
<1>4. PICK place \in [1..pend_count -> Places("lsq")] :
        /\ \A j \in Places("lsq") : \E k \in 1..pend_count : place[k] = j
        /\ \A k \in 1..pend_count :
             /\ \A l \in 1..(k - 1) : place[l] < place[k]
             /\ InPath[place[k]].id = Nth(k)
             /\ pend_data[Nth(k)] = [is_load |-> ~InPath[place[k]].wr,
                                     addr |-> InPath[place[k]].addr]
  BY DEF PathInv, Accounted
<1>5. pend_count >= 1 /\ place[1] = 1 /\ 1 \in 1..pend_count
  <2>1. \A k \in 1..pend_count : \A l \in 1..(k - 1) : place[l] < place[k]
    BY <1>4
  <2>2. pend_count >= 1 /\ place[1] = 1
    BY <1>3, <1>4, <2>1
  <2> QED BY <1>2, <2>2
<1>6. Nth(1) = pend_rd_ptr
  BY <1>2, RingFacts DEF Nth, Ring
<1>7. lat.id = pend_rd_ptr
      /\ pend_data[pend_rd_ptr] = [is_load |-> ~lat.wr, addr |-> lat.addr]
  BY <1>1, <1>4, <1>5, <1>6
<1>8. pend_valid[pend_rd_ptr]
  BY <1>2, <1>5, <1>6 DEF PathInv, Accounted
<1> QED BY <1>3, <1>5, <1>7, <1>8

\* Without a flush the table takes in what is granted at its end, and lets go
\* of its oldest entry when that is answered.
Answered == shim_state = "RESPOND" /\ lat.client = "lsq"
LEMMA TableMoves ==
  ASSUME PathInv, NEW flush, NEW busy, NEW deliver, NEW ld, NEW st,
         Step(flush, busy, deliver, ld, st), ~flush
  PROVE  /\ rsp_id_valid(Rsp0(flush)) <=> Answered
         /\ Answered => Rsp0(flush).id = pend_rd_ptr /\ pend_count >= 1 /\ Popped(flush)
                        /\ Rsp0(flush).rdata = lat_rdata
         /\ Grant0(flush, st) => pend_count < PendDepth /\ pend_wr_ptr = Nth(pend_count + 1)
         /\ pend_count' = pend_count + (IF Grant0(flush, st) THEN 1 ELSE 0)
                            - (IF Answered THEN 1 ELSE 0)
         /\ pend_rd_ptr' = IF Answered THEN NextId(pend_rd_ptr) ELSE pend_rd_ptr
         /\ pend_valid' = [i \in PendId |->
              /\ pend_valid[i] \/ (Grant0(flush, st) /\ i = pend_wr_ptr)
              /\ ~(Answered /\ i = pend_rd_ptr)]
<1>1. Answered => /\ pend_count >= 1 /\ lat.id = pend_rd_ptr /\ pend_valid[pend_rd_ptr]
  BY OldestAnswered DEF Answered
<1>2. /\ Rsp0(flush) # None <=> Answered
      /\ Answered => Rsp0(flush).client = "lsq" /\ Rsp0(flush).id = pend_rd_ptr
                     /\ Rsp0(flush).rdata = lat_rdata
  BY <1>1, Responses DEF Answered
<1>3. rsp_id_valid(Rsp0(flush)) <=> Answered
  BY <1>1, <1>2 DEF rsp_id_valid
<1>4. Answered => Popped(flush)
  BY <1>1, Responses DEF Answered
<1>5. pend_rd_ptr \in PendId /\ pend_count \in 0..PendDepth /\ PendDepth \in Nat
  BY DepthPositive DEF PathInv, TypeOK, LsqTypeOK
<1>6. pend_count # 0 => pend_valid[pend_rd_ptr]
  <2> SUFFICES ASSUME pend_count # 0 PROVE pend_valid[pend_rd_ptr]
    OBVIOUS
  <2>1. Nth(1) = pend_rd_ptr /\ 1 \in 1..pend_count
    BY <1>5, RingFacts DEF Nth, Ring
  <2> QED BY <1>5, <2>1 DEF PathInv, Accounted
<1>7. Grant0(flush, st) => pend_count < PendDepth /\ pend_wr_ptr = Nth(pend_count + 1)
  <2> SUFFICES ASSUME Grant0(flush, st)
               PROVE  pend_count < PendDepth /\ pend_wr_ptr = Nth(pend_count + 1)
    OBVIOUS
  <2>1. lsq_req(flush, st) # None
    BY DEF Grant0, c0_req_ready
  <2>2. pend_count # PendDepth
    BY <2>1, RequestsSound
  <2>3. pend_rd_ptr + (pend_count + 1) - 1 = pend_rd_ptr + pend_count
    BY <1>5 DEF PendId
  <2> QED BY <1>5, <2>2, <2>3 DEF PathInv, PointersAgree, Nth
<1>8. LsqClock(flush, ld.cached, None, st, Grant0(flush, st), Rsp0(flush))
  BY StepParts
<1>9. /\ pend_count' = pend_count + (IF Grant0(flush, st) THEN 1 ELSE 0)
                         - (IF Answered THEN 1 ELSE 0)
      /\ pend_rd_ptr' = IF Answered THEN NextId(pend_rd_ptr) ELSE pend_rd_ptr
  BY <1>2, <1>3, <1>6, <1>8 DEF LsqClock, Active
<1>10. pend_valid' = [i \in PendId |->
         /\ pend_valid[i] \/ (Grant0(flush, st) /\ i = pend_wr_ptr)
         /\ ~(Answered /\ i = pend_rd_ptr)]
  BY <1>2, <1>3, <1>8 DEF LsqClock, Active
<1> QED BY <1>1, <1>2, <1>3, <1>4, <1>7, <1>9, <1>10

\* A flush empties the path.
LEMMA FlushEmpties ==
  ASSUME PathInv, NEW flush, NEW busy, NEW deliver, NEW ld, NEW st,
         Step(flush, busy, deliver, ld, st), flush
  PROVE  InPath' = << >> /\ fifo' = << >>
<1>1. shim_state \in {"IDLE", "ISSUE", "WAIT_ACK", "RESPOND", "DRAIN"}
  BY DEF PathInv, TypeOK, ShimTypeOK
<1>2. fifo' = << >> /\ shim_state' = shim_next(flush, data_ack, Taken(flush))
  BY StepParts DEF ShimClock
<1>3. shim_state' \notin {"ISSUE", "WAIT_ACK", "RESPOND"}
  BY <1>1, <1>2 DEF shim_next, fifo_rd_en
<1>4. InPath' = << >> \o << >>
  BY <1>2, <1>3 DEF InPath, Serving_
<1>5. << >> \in Seq(Request)
  BY EmptySeq
<1> QED BY <1>2, <1>4, <1>5, ConcatEmptySeq

LEMMA TableData ==
  ASSUME PathInv, NEW flush, NEW busy, NEW deliver, NEW ld, NEW st,
         Step(flush, busy, deliver, ld, st), ~flush
  PROVE  /\ Grant0(flush, st) =>
              /\ Down(flush, st).id = pend_wr_ptr
              /\ pend_data'[pend_wr_ptr] =
                   [is_load |-> ~Down(flush, st).wr, addr |-> Down(flush, st).addr]
              /\ \A i \in PendId : i # pend_wr_ptr => pend_data'[i] = pend_data[i]
              /\ Down(flush, st).wr <=> ~issue_load(flush)
              /\ issue_load(flush) => Down(flush, st).addr = ld_wait_addr
         /\ ~Grant0(flush, st) => pend_data' = pend_data
<1>1. pend_data' = IF Grant0(flush, st)
                   THEN [pend_data EXCEPT ![pend_wr_ptr] =
                           [is_load |-> issue_load(flush),
                            addr |-> IF issue_load(flush) THEN ld_wait_addr ELSE st.addr]]
                   ELSE pend_data
  <2>1. pend_data' = IF Grant0(flush, st)
                     THEN [pend_data EXCEPT ![pend_wr_ptr] =
                             [is_load |-> issue_load(FALSE),
                              addr |-> IF issue_load(FALSE) THEN ld_wait_addr ELSE st.addr]]
                     ELSE pend_data
    BY StepParts DEF LsqClock, Active
  <2>2. issue_load(flush) = issue_load(FALSE)
    BY DEF issue_load, can_issue
  <2> QED BY <2>1, <2>2
<1>2. pend_data \in [PendId -> PendEntry \cup {None}] /\ pend_wr_ptr \in PendId
  BY DEF PathInv, TypeOK, LsqTypeOK
<1>3. ASSUME Grant0(flush, st)
      PROVE  /\ Down(flush, st) = lsq_req(flush, st) /\ lsq_req(flush, st) # None
             /\ Down(flush, st).id = pend_wr_ptr
  BY <1>3, Channel, RequestsSound DEF Grant0, c0_req_ready
<1>5. ASSUME Grant0(flush, st), issue_load(flush)
      PROVE  /\ ~Down(flush, st).wr /\ Down(flush, st).addr = ld_wait_addr
             /\ ld_wait_addr \in Addr
  BY <1>3, <1>5, RequestsSound DEF Load
<1>6. ASSUME Grant0(flush, st), ~issue_load(flush)
      PROVE  Down(flush, st).wr /\ Down(flush, st).addr = st.addr /\ st.addr \in Addr
  BY <1>3, <1>6, RequestsSound DEF Store
<1>7. issue_load(flush) \in BOOLEAN
  BY DEF issue_load, can_issue
<1>8. CASE ~Grant0(flush, st)
  BY <1>1, <1>2, <1>8
<1>9. CASE Grant0(flush, st)
  <2> DEFINE e == [is_load |-> issue_load(flush),
                   addr |-> IF issue_load(flush) THEN ld_wait_addr ELSE st.addr]
  <2>1. e \in PendEntry
    BY <1>5, <1>6, <1>7, <1>9 DEF PendEntry
  <2>2. e = [is_load |-> ~Down(flush, st).wr, addr |-> Down(flush, st).addr]
    <3>1. Down(flush, st).wr \in BOOLEAN
      <4>1. Down(flush, st) # None
        BY <1>3, <1>9
      <4>2. Down(flush, st) \in Request
        BY <4>1, Channel DEF SoundRequest
      <4> QED BY <4>2 DEF Request
    <3>2. CASE issue_load(flush)
      <4>1. issue_load(flush) = ~Down(flush, st).wr
        BY <3>1, <3>2, <1>5, <1>7, <1>9
      <4> QED BY <4>1, <3>2, <1>5, <1>9
    <3>3. CASE ~issue_load(flush)
      <4>1. issue_load(flush) = ~Down(flush, st).wr
        BY <3>1, <3>3, <1>6, <1>7, <1>9
      <4> QED BY <4>1, <3>3, <1>6, <1>9
    <3> QED BY <3>2, <3>3
  <2>3. pend_data' = [pend_data EXCEPT ![pend_wr_ptr] = e]
    BY <1>1, <1>9
  <2> HIDE DEF e
  <2>4. /\ pend_data'[pend_wr_ptr] = e
        /\ \A i \in PendId : i # pend_wr_ptr => pend_data'[i] = pend_data[i]
    BY <1>2, <2>1, <2>3
  <2> QED BY <1>3, <1>5, <1>6, <1>9, <2>2, <2>4
<1> QED BY <1>8, <1>9

LEMMA TableDataType ==
  ASSUME PathInv, NEW flush, NEW busy, NEW deliver, NEW ld, NEW st,
         Step(flush, busy, deliver, ld, st), ~flush
  PROVE  pend_data' \in [PendId -> PendEntry \cup {None}]
<1>1. pend_data \in [PendId -> PendEntry \cup {None}] /\ pend_wr_ptr \in PendId
  BY DEF PathInv, TypeOK, LsqTypeOK
<1>2. LsqClock(flush, ld.cached, None, st, Grant0(flush, st), Rsp0(flush))
  BY StepParts
<1> DEFINE e == [is_load |-> issue_load(FALSE),
                 addr |-> IF issue_load(FALSE) THEN ld_wait_addr ELSE st.addr]
<1>3. pend_data' = IF Grant0(flush, st) THEN [pend_data EXCEPT ![pend_wr_ptr] = e] ELSE pend_data
  BY <1>2 DEF LsqClock, Active
<1>4. ASSUME Grant0(flush, st)
      PROVE  e \in PendEntry
  <2>1. lsq_req(flush, st) # None
    BY <1>4 DEF Grant0, c0_req_ready
  <2>2. issue_load(FALSE) = issue_load(flush) /\ issue_load(FALSE) \in BOOLEAN
    BY DEF issue_load, can_issue
  <2>3. CASE issue_load(flush)
    <3>1. ld_wait_addr \in Addr
      BY <2>3, RequestsSound
    <3> QED BY <2>2, <2>3, <3>1 DEF PendEntry
  <2>4. CASE ~issue_load(flush)
    <3>1. st.addr \in Addr
      BY <2>1, <2>4, RequestsSound
    <3> QED BY <2>2, <2>4, <3>1 DEF PendEntry
  <2> QED BY <2>3, <2>4
<1> HIDE DEF e
<1> QED BY <1>1, <1>3, <1>4

LEMMA TableKept ==
  ASSUME PathInv, NEW flush, NEW busy, NEW deliver, NEW ld, NEW st,
         Step(flush, busy, deliver, ld, st), ~flush, Grant0(flush, st)
  PROVE  \A i \in PendId : i # pend_wr_ptr => pend_data'[i] = pend_data[i]
<1>1. pend_data \in [PendId -> PendEntry \cup {None}]
  BY DEF PathInv, TypeOK, LsqTypeOK
<1>2. LsqClock(flush, ld.cached, None, st, Grant0(flush, st), Rsp0(flush))
  BY StepParts
<1>3. pend_data' = [pend_data EXCEPT ![pend_wr_ptr] =
                      [is_load |-> issue_load(FALSE),
                       addr |-> IF issue_load(FALSE) THEN ld_wait_addr ELSE st.addr]]
  BY <1>2 DEF LsqClock, Active
<1> QED BY <1>1, <1>3

\* Every cycle keeps the accounts of the load/store queue.
LEMMA AccountedStep ==
  ASSUME PathInv, NEW flush, NEW busy, NEW deliver, NEW ld, NEW st,
         Step(flush, busy, deliver, ld, st)
  PROVE  Accounted'
<1>1. CASE flush
  <2>1. pend_count' = 0 /\ pend_valid' = [i \in PendId |-> FALSE]
    BY <1>1, StepParts DEF LsqClock, Forget
  <2>2. InPath' = << >>
    BY <1>1, FlushEmpties
  <2>3. Places("lsq")' = {}
    BY <2>2 DEF Places
  <2>4. 1..pend_count' = {}
    BY <2>1
  <2> DEFINE place == [k \in 1..pend_count' |-> 0]
  <2>5. place \in [1..pend_count' -> Places("lsq")']
    BY <2>4
  <2> QED BY <2>1, <2>3, <2>4, <2>5 DEF Accounted
<1>2. CASE ~flush
  <2> DEFINE g == Grant0(flush, st)
             w == Pushed(flush, st)
             p == IF Popped(flush) THEN 1 ELSE 0
             d == IF Answered THEN 1 ELSE 0
             a == IF g THEN 1 ELSE 0
             n == Len(InPath) - p
             count == pend_count
  <2>1. PICK place \in [1..count -> Places("lsq")] :
          /\ \A j \in Places("lsq") : \E k \in 1..count : place[k] = j
          /\ \A k \in 1..count :
               /\ \A l \in 1..(k - 1) : place[l] < place[k]
               /\ InPath[place[k]].id = Nth(k)
               /\ pend_data[Nth(k)] = [is_load |-> ~InPath[place[k]].wr,
                                       addr |-> InPath[place[k]].addr]
    BY DEF PathInv, Accounted
  <2>2. /\ pend_count' = count + a - d
        /\ pend_rd_ptr' = IF Answered THEN NextId(pend_rd_ptr) ELSE pend_rd_ptr
        /\ pend_valid' = [i \in PendId |->
             /\ pend_valid[i] \/ (g /\ i = pend_wr_ptr)
             /\ ~(Answered /\ i = pend_rd_ptr)]
        /\ Answered => count >= 1 /\ Popped(flush)
        /\ g => count < PendDepth /\ pend_wr_ptr = Nth(count + 1)
    BY <1>2, TableMoves
  <2>3. /\ count \in 0..PendDepth /\ PendDepth \in Nat /\ pend_rd_ptr \in PendId
        /\ a \in {0, 1} /\ d \in {0, 1} /\ p \in {0, 1}
        /\ (a = 1 <=> g) /\ (d = 1 <=> Answered) /\ (p = 1 <=> Popped(flush))
    BY DepthPositive DEF PathInv, TypeOK, LsqTypeOK
  <2>4. /\ n \in Nat
        /\ DOMAIN InPath' = 1..(n + (IF w THEN 1 ELSE 0))
        /\ DOMAIN InPath = 1..(n + p)
        /\ \A j \in 1..n : InPath'[j] = InPath[j + p]
        /\ w => InPath'[n + 1] = Down(flush, st)
    <3>1. Len(InPath) \in Nat /\ DOMAIN InPath = 1..Len(InPath)
      BY PathNow
    <3> DEFINE m == n
    <3>2. m = Len(InPath) - (IF Popped(flush) THEN 1 ELSE 0)
      OBVIOUS
    <3> HIDE DEF m
    <3>3. /\ m \in Nat
          /\ DOMAIN InPath' = 1..(m + (IF Pushed(flush, st) THEN 1 ELSE 0))
          /\ \A j \in 1..m : InPath'[j] = InPath[j + (IF Popped(flush) THEN 1 ELSE 0)]
          /\ Pushed(flush, st) => InPath'[m + 1] = Down(flush, st)
      BY <1>2, <3>2, PathMoves
    <3>4. Len(InPath) = m + p
      <4>1. CASE Popped(flush)
        BY <3>1, <3>2, <3>3, <4>1
      <4>2. CASE ~Popped(flush)
        BY <3>1, <3>2, <3>3, <4>2
      <4> QED BY <4>1, <4>2
    <3> QED BY <3>1, <3>3, <3>4 DEF m
  <2>5. g => w /\ Down(flush, st).client = "lsq"
    BY Channel
  <2>6. w /\ Down(flush, st).client = "lsq" => g
    BY Channel
  <2>7. Answered => place[1] = 1
    BY <2>1, OldestAnswered DEF Answered
  <2>8. Popped(flush) => InPath[1] = lat /\ (lat.client = "lsq" <=> Answered)
    BY PathNow DEF Popped, Answered, Served
  <2>18. g => \A i \in PendId : i # pend_wr_ptr => pend_data'[i] = pend_data[i]
    BY <1>2, TableKept
  <2> HIDE DEF g, w, p, d, a, n, count
  <2>9. \A k \in 1..(count + a - d) :
          /\ k + d \in 1..PendDepth /\ Nth(k)' = Nth(k + d) /\ Nth(k)' \in PendId
          /\ k + d <= count + a
    <3> TAKE k \in 1..(count + a - d)
    <3>1. k + d \in 1..PendDepth /\ k \in 1..PendDepth /\ k + d <= count + a
      BY <2>2, <2>3
    <3>2. pend_rd_ptr' \in PendId /\ Ring(pend_rd_ptr', k) = Ring(pend_rd_ptr, k + d)
      <4>1. CASE Answered
        BY <4>1, <2>2, <2>3, <3>1, RingFacts
      <4>2. CASE ~Answered
        <5>1. d = 0 /\ k + d = k
          BY <4>2, <2>3, <3>1
        <5> QED BY <4>2, <5>1, <2>2, <2>3
      <4> QED BY <4>1, <4>2
    <3>3. Nth(k)' = Ring(pend_rd_ptr', k) /\ Nth(k + d) = Ring(pend_rd_ptr, k + d)
      BY DEF Nth, Ring
    <3>4. Ring(pend_rd_ptr', k) \in PendId
      <4>1. k \in 1..(PendDepth + 1)
        BY <2>3, <3>1
      <4> QED BY <4>1, <3>2, RingFacts
    <3> QED BY <3>1, <3>2, <3>3, <3>4
  <2>10. \A m \in (1 + d)..count :
           /\ place[m] \in Places("lsq") /\ place[m] - p \in 1..n
           /\ InPath'[place[m] - p] = InPath[place[m]]
           /\ place[m] - p \in Places("lsq")'
    <3> TAKE m \in (1 + d)..count
    <3>1. m \in 1..count /\ (d = 1 => 1 \in 1..(m - 1))
      BY <2>3
    <3>2. place[m] \in Places("lsq") /\ place[m] \in 1..(n + p) /\ InPath[place[m]].client = "lsq"
      BY <2>1, <2>4, <3>1 DEF Places
    <3>3. place[m] > p
      <4>1. CASE d = 1
        <5>1. place[1] = 1 /\ place[1] < place[m]
          BY <4>1, <2>1, <2>3, <2>7, <3>1
        <5> QED BY <5>1, <2>3, <2>4, <3>2
      <4>2. CASE d = 0
        <5>1. p = 1 => place[m] # 1
          BY <4>2, <2>3, <2>8, <3>2
        <5> QED BY <5>1, <2>3, <2>4, <3>2
      <4> QED BY <4>1, <4>2, <2>3
    <3>4. place[m] - p \in 1..n /\ (place[m] - p) + p = place[m]
      BY <2>3, <2>4, <3>2, <3>3
    <3>5. InPath'[place[m] - p] = InPath[place[m]]
      BY <2>4, <3>4
    <3>6. place[m] - p \in DOMAIN InPath'
      BY <2>4, <3>4
    <3> QED BY <3>2, <3>4, <3>5, <3>6 DEF Places
  <2>11. g => n + 1 \in Places("lsq")'
    BY <2>4, <2>5 DEF Places
  <2> DEFINE place2 == [k \in 1..pend_count' |-> IF k + d <= count THEN place[k + d] - p ELSE n + 1]
  <2>12. \A k \in 1..pend_count' :
           /\ k \in 1..(count + a - d)
           /\ place2[k] = IF k + d <= count THEN place[k + d] - p ELSE n + 1
           /\ k + d <= count => k + d \in (1 + d)..count
           /\ ~(k + d <= count) => g /\ k + d = count + 1
    <3> TAKE k \in 1..pend_count'
    <3>1. k \in 1..(count + a - d)
      BY <2>2
    <3>2. k + d <= count + a
      BY <2>9, <3>1
    <3>3. k + d <= count => k + d \in (1 + d)..count
      BY <2>3, <3>1
    <3>4. ~(k + d <= count) => a = 1 /\ k + d = count + 1
      BY <2>3, <3>1, <3>2
    <3> QED BY <2>3, <3>1, <3>3, <3>4
  <2>13. place2 \in [1..pend_count' -> Places("lsq")']
    <3>1. \A k \in 1..pend_count' : place2[k] \in Places("lsq")'
      BY <2>10, <2>11, <2>12
    <3> QED BY <3>1
  <2>14. \A k \in 1..pend_count' : \A l \in 1..(k - 1) : place2[l] < place2[k]
    <3> TAKE k \in 1..pend_count'
    <3> TAKE l \in 1..(k - 1)
    <3>1. l \in 1..pend_count' /\ l + d < k + d /\ k \in Int /\ l \in Int
      BY <2>2, <2>3, <2>12
    <3>2. l + d \in (1 + d)..count /\ l + d \in 1..((k + d) - 1) /\ l + d <= count
      BY <2>3, <2>12, <3>1
    <3>3. place2[l] = place[l + d] - p /\ place[l + d] - p \in 1..n
      BY <2>10, <2>12, <3>1, <3>2
    <3>4. CASE k + d <= count
      <4>1. k + d \in 1..count /\ k + d \in (1 + d)..count
        BY <2>3, <2>12, <3>4
      <4>2. place[l + d] < place[k + d]
        BY <2>1, <3>2, <4>1
      <4>3. place2[k] = place[k + d] - p /\ place[k + d] \in 1..(n + p)
        BY <2>4, <2>10, <2>12, <3>4, <4>1 DEF Places
      <4>4. place[l + d] \in 1..(n + p)
        BY <2>4, <2>10, <3>2 DEF Places
      <4> QED BY <2>3, <2>4, <3>3, <4>2, <4>3, <4>4
    <3>5. CASE ~(k + d <= count)
      BY <2>4, <2>12, <3>3, <3>5
    <3> QED BY <3>4, <3>5
  <2>15. \A j \in Places("lsq")' : \E k \in 1..pend_count' : place2[k] = j
    <3> TAKE j \in Places("lsq")'
    <3>1. j \in DOMAIN InPath' /\ InPath'[j].client = "lsq"
      BY DEF Places
    <3>2. CASE j \in 1..n
      <4>1. j + p \in DOMAIN InPath /\ InPath[j + p].client = "lsq"
        BY <2>3, <2>4, <3>1, <3>2
      <4>2. PICK m \in 1..count : place[m] = j + p
        BY <2>1, <4>1 DEF Places
      <4>3. d = 1 => m # 1
        BY <2>2, <2>3, <2>4, <2>7, <3>2, <4>2
      <4>4. m \in (1 + d)..count
        BY <2>3, <4>2, <4>3
      <4>5. m - d \in 1..pend_count' /\ (m - d) + d = m /\ m <= count
        BY <2>2, <2>3, <4>4
      <4>6. place2[m - d] = place[m] - p
        BY <2>12, <4>5
      <4>7. place[m] - p = j
        BY <2>3, <2>4, <3>2, <4>2
      <4> QED BY <4>5, <4>6, <4>7
    <3>3. CASE j \notin 1..n
      <4>1. w /\ j = n + 1
        BY <2>4, <3>1, <3>3
      <4>2. g
        BY <2>4, <2>6, <3>1, <4>1
      <4>3. (count + 1) - d \in 1..pend_count' /\ ((count + 1) - d) + d = count + 1
        BY <2>2, <2>3, <4>2
      <4>4. place2[(count + 1) - d] = n + 1
        BY <2>3, <2>12, <4>3
      <4> QED BY <4>1, <4>3, <4>4
    <3> QED BY <3>2, <3>3
  <2>16. \A k \in 1..pend_count' :
           /\ InPath'[place2[k]].id = Nth(k)'
           /\ pend_data'[Nth(k)'] = [is_load |-> ~InPath'[place2[k]].wr,
                                     addr |-> InPath'[place2[k]].addr]
    <3> TAKE k \in 1..pend_count'
    <3>1. k + d \in 1..PendDepth /\ Nth(k)' = Nth(k + d) /\ Nth(k)' \in PendId
      BY <2>9, <2>12
    <3>2. CASE k + d <= count
      <4>1. k + d \in (1 + d)..count /\ k + d \in 1..count
        BY <2>3, <2>12, <3>2, <3>1
      <4>2. InPath'[place2[k]] = InPath[place[k + d]]
        BY <2>10, <2>12, <3>2, <4>1
      <4>3. g => Nth(k + d) # pend_wr_ptr
        <5> SUFFICES ASSUME g PROVE Nth(k + d) # pend_wr_ptr
          OBVIOUS
        <5>1. count + 1 \in 1..PendDepth /\ k + d # count + 1
          BY <2>2, <2>3, <3>2
        <5>2. Ring(pend_rd_ptr, k + d) # Ring(pend_rd_ptr, count + 1)
          BY <2>3, <3>1, <5>1, RingFacts
        <5> QED BY <2>2, <5>2 DEF Nth, Ring
      <4>4. pend_data'[Nth(k + d)] = pend_data[Nth(k + d)]
        <5>1. Nth(k + d) \in PendId
          BY <3>1
        <5>2. CASE g
          BY <2>18, <4>3, <5>1, <5>2
        <5>3. CASE ~g
          BY <1>2, <5>3, TableData DEF g
        <5> QED BY <5>2, <5>3
      <4> QED BY <2>1, <3>1, <4>1, <4>2, <4>4
    <3>3. CASE ~(k + d <= count)
      <4>1. g /\ k + d = count + 1 /\ place2[k] = n + 1
        BY <2>12, <3>3
      <4>2. InPath'[place2[k]] = Down(flush, st) /\ Nth(k)' = pend_wr_ptr
        BY <2>2, <2>4, <2>5, <3>1, <4>1
      <4> QED BY <1>2, <4>1, <4>2, TableData DEF g
    <3> QED BY <3>2, <3>3
  <2>17. \A i \in PendId : pend_valid'[i] <=> \E k \in 1..pend_count' : i = Nth(k)'
    <3> TAKE i \in PendId
    <3>1. pend_valid[i] <=> \E k \in 1..count : i = Nth(k)
      BY DEF PathInv, Accounted, count
    <3>2. pend_valid'[i] <=> /\ pend_valid[i] \/ (g /\ i = pend_wr_ptr)
                             /\ ~(Answered /\ i = pend_rd_ptr)
      BY <2>2
    <3>3. pend_rd_ptr = Nth(1)
      BY <2>3, RingFacts DEF Nth, Ring
    <3>4. ASSUME pend_valid'[i]
          PROVE  \E k \in 1..pend_count' : i = Nth(k)'
      <4>1. PICK m \in 1..(count + a) : i = Nth(m)
        <5>1. CASE pend_valid[i]
          <6>1. PICK k \in 1..count : i = Nth(k)
            BY <3>1, <5>1
          <6>2. k \in 1..(count + a)
            BY <2>3, <6>1
          <6> QED BY <6>1, <6>2
        <5>2. CASE g /\ i = pend_wr_ptr
          <6>1. count + 1 \in 1..(count + a)
            BY <2>3, <5>2
          <6> QED BY <2>2, <5>2, <6>1
        <5> QED BY <3>2, <3>4, <5>1, <5>2
      <4>2. d = 1 => m # 1
        BY <2>3, <3>2, <3>3, <3>4, <4>1
      <4>3. PICK k \in 1..pend_count' : k + d = m
        <5>1. m - d \in 1..pend_count' /\ (m - d) + d = m
          BY <2>2, <2>3, <4>1, <4>2
        <5> QED BY <5>1
      <4>4. Nth(k)' = Nth(m)
        BY <2>9, <2>12, <4>3
      <4> QED BY <4>1, <4>3, <4>4
    <3>5. ASSUME NEW k \in 1..pend_count', i = Nth(k)'
          PROVE  pend_valid'[i]
      <4>1. k + d \in 1..PendDepth /\ i = Nth(k + d)
        BY <2>9, <2>12, <3>5
      <4>2. pend_valid[i] \/ (g /\ i = pend_wr_ptr)
        <5>1. CASE k + d <= count
          <6>1. k + d \in 1..count
            BY <2>3, <4>1, <5>1
          <6> QED BY <3>1, <4>1, <6>1
        <5>2. CASE ~(k + d <= count)
          BY <2>2, <2>12, <4>1, <5>2
        <5> QED BY <5>1, <5>2
      <4>3. Answered => i # pend_rd_ptr
        <5> SUFFICES ASSUME Answered PROVE i # pend_rd_ptr
          OBVIOUS
        <5>1. k + d # 1 /\ 1 \in 1..PendDepth
          BY <2>3, <2>12, <4>1
        <5>2. Ring(pend_rd_ptr, k + d) # Ring(pend_rd_ptr, 1)
          BY <2>3, <4>1, <5>1, RingFacts
        <5> QED BY <3>3, <4>1, <5>2 DEF Nth, Ring
      <4> QED BY <3>2, <4>2, <4>3
    <3> QED BY <3>4, <3>5
  <2> HIDE DEF place2
  <2>19. \E place_ \in [1..pend_count' -> Places("lsq")'] :
           /\ \A j \in Places("lsq")' : \E k \in 1..pend_count' : place_[k] = j
           /\ \A k \in 1..pend_count' :
                /\ \A l \in 1..(k - 1) : place_[l] < place_[k]
                /\ InPath'[place_[k]].id = Nth(k)'
                /\ pend_data'[Nth(k)'] = [is_load |-> ~InPath'[place_[k]].wr,
                                          addr |-> InPath'[place_[k]].addr]
    BY ONLY <2>13, <2>14, <2>15, <2>16
  <2> QED BY ONLY <2>17, <2>19 DEF Accounted
<1> QED BY <1>1, <1>2

-----------------------------------------------------------------------------
(***************************************************************************)
(* The controller and memory                                               *)
(***************************************************************************)

\* What the controller chooses in ARB_IDLE: the data port before fetch.
Choice(flush, busy) ==
  IF busy THEN None ELSE Selected(fetch_req(flush), DataReq, None)

LEMMA ChoiceFacts ==
  ASSUME PathInv, NEW flush, NEW busy
  PROVE  /\ DataReq # None <=> shim_state \in {"ISSUE", "WAIT_ACK"} /\ ~data_ack
         /\ Choice(flush, busy) # None =>
              /\ Choice(flush, busy) \in Accepted /\ ~busy
              /\ Choice(flush, busy).source \in {"data", "ifetch"}
         /\ Choice(flush, busy) # None /\ Choice(flush, busy).source = "data" =>
              /\ DataReq # None /\ Choice(flush, busy).addr = lat.addr
              /\ Choice(flush, busy).wr = lat.wr /\ Choice(flush, busy).wdata = lat.data
         /\ Choice(flush, busy) # None /\ Choice(flush, busy).source = "ifetch" =>
              ~Choice(flush, busy).wr
<1>1. shim_state \in {"ISSUE", "WAIT_ACK"} => lat \in Request
  BY DEF PathInv, SoundShim, SoundRequest
<1>2. data_req(data_ack) <=> shim_state \in {"ISSUE", "WAIT_ACK"} /\ ~data_ack
  BY DEF data_req
<1> DEFINE d == [addr |-> lat.addr, wr |-> lat.wr, wdata |-> lat.data]
           f == [addr |-> CHOOSE a \in Addr : TRUE, wr |-> FALSE, wdata |-> None]
<1>3. data_req(data_ack) => d \in PortRequest
  BY <1>1, <1>2 DEF Request, PortRequest
<1>4. data_req(data_ack) => d # None
  BY <1>3, PortAssumption
<1>5. DataReq = IF data_req(data_ack) THEN d ELSE None
  BY DEF DataReq
<1>6. (CHOOSE a \in Addr : TRUE) \in Addr
  BY AddrAssumption
<1>7. fetch_req(flush) # None => fetch_req(flush) = f
  BY DEF fetch_req
<1> DEFINE dd == [source |-> "data", addr |-> lat.addr, wr |-> lat.wr, wdata |-> lat.data]
           ff == [source |-> "ifetch", addr |-> CHOOSE a \in Addr : TRUE, wr |-> FALSE,
                  wdata |-> None]
<1>8. Choice(flush, busy) # None =>
        ~busy /\ ((data_req(data_ack) /\ Choice(flush, busy) = dd) \/ Choice(flush, busy) = ff)
  <2> SUFFICES ASSUME Choice(flush, busy) # None
               PROVE  ~busy /\ (\/ data_req(data_ack) /\ Choice(flush, busy) = dd
                                \/ Choice(flush, busy) = ff)
    OBVIOUS
  <2>1. ~busy /\ Choice(flush, busy) = Selected(fetch_req(flush), DataReq, None)
    BY DEF Choice
  <2>2. CASE data_req(data_ack)
    <3>1. DataReq = d /\ d # None
      BY <1>4, <1>5, <2>2
    <3>2. Selected(fetch_req(flush), d, None) = dd
      BY <3>1 DEF Selected
    <3> QED BY <2>1, <2>2, <3>1, <3>2
  <2>3. CASE ~data_req(data_ack)
    <3>1. DataReq = None
      BY <1>5, <2>3
    <3>2. fetch_req(flush) = f
      BY <1>7, <2>1, <3>1 DEF Selected
    <3>3. Selected(f, None, None) = ff \/ Selected(f, None, None) = None
      BY DEF Selected
    <3> QED BY <2>1, <3>1, <3>2, <3>3
  <2> QED BY <2>2, <2>3
<1>9. data_req(data_ack) => dd \in Accepted
  BY <1>1, <1>2 DEF Request, Accepted
<1>10. ff \in Accepted
  BY <1>6 DEF Accepted
<1>11. DataReq # None <=> shim_state \in {"ISSUE", "WAIT_ACK"} /\ ~data_ack
  BY <1>2, <1>4, <1>5
<1>12. /\ dd.source = "data" /\ dd.addr = lat.addr /\ dd.wr = lat.wr /\ dd.wdata = lat.data
       /\ ff.source = "ifetch" /\ ~ff.wr
  OBVIOUS
<1> HIDE DEF d, f, dd, ff
<1> QED BY <1>2, <1>8, <1>9, <1>10, <1>11, <1>12

\* The controller and memory go on serving what they serve.
LEMMA CtrlStep ==
  ASSUME PathInv, NEW flush, NEW busy, NEW deliver, NEW ld, NEW st,
         Step(flush, busy, deliver, ld, st)
  PROVE  SoundSource' /\ ServesLatched' /\ SoundBus'
<1> DEFINE r == Choice(flush, busy)
           dout == Delivered(deliver)
<1>1. /\ SoundSource /\ ServesLatched /\ SoundBus
      /\ arb_state \in {"IDLE", "IFETCH", "DATA", "PT", "WAIT"}
      /\ data_ack \in BOOLEAN /\ ddram_rd \in BOOLEAN /\ ddram_we \in BOOLEAN
      /\ shim_state \in {"IDLE", "ISSUE", "WAIT_ACK", "RESPOND", "DRAIN"}
      /\ deliver \in BOOLEAN /\ busy \in BOOLEAN
  BY DEF PathInv, TypeOK, CtrlTypeOK, ShimTypeOK, Step
<1>2. /\ CtrlClock(fetch_req(flush), DataReq, None, busy, dout)
      /\ mem' = Written(ddram_we, ddram_addr, ddram_din, ddram_be)
      /\ rd_pending' = IF ddram_rd THEN ddram_addr ELSE IF deliver THEN None ELSE rd_pending
      /\ shim_state' = shim_next(flush, data_ack, Taken(flush))
      /\ lat' = IF fifo_rd_en(flush) THEN Head(fifo) ELSE lat
      /\ req_accepted_q' =
           (shim_state # "IDLE" /\ (data_gnt(DataReq, None, busy) \/ req_accepted_q))
  <2>1. DramClock(deliver, ddram_rd, ddram_we, ddram_addr, ddram_din, ddram_be)
    BY StepParts
  <2>2. ShimClock(flush, Down(flush, st), data_gnt(DataReq, None, busy), data_ack,
                  data_rdata, Taken(flush))
    BY StepParts
  <2>3. CtrlClock(fetch_req(flush), DataReq, None, busy, dout)
    BY StepParts
  <2> QED BY <2>1, <2>2, <2>3 DEF DramClock, ShimClock
<1>3. shim_state # "IDLE" => lat' = lat
  BY <1>2 DEF fifo_rd_en
<1>4. CASE arb_state = "IDLE"
  <2>1. /\ arb_state' = IF r = None THEN "IDLE" ELSE Serving[r.source]
        /\ arb' = IF r = None THEN arb ELSE r
        /\ data_ack' = FALSE /\ ddram_rd' = FALSE /\ ddram_we' = FALSE
    BY <1>2, <1>4 DEF CtrlClock, Accept, Choice
  <2>2. r # None => /\ r.source \in {"data", "ifetch"} /\ (r.source = "ifetch" => ~r.wr)
                    /\ arb_state' = IF r.source = "data" THEN "DATA" ELSE "IFETCH"
    BY <2>1, ChoiceFacts DEF Serving
  <2>3. SoundSource'
    BY <2>1, <2>2 DEF SoundSource
  <2>4. rd_pending' = None
    BY <1>1, <1>2, <1>4 DEF SoundBus
  <2>5. SoundBus'
    BY <2>1, <2>4 DEF SoundBus
  <2>6. ServesLatched'
    <3> SUFFICES ASSUME r # None, r.source = "data"
                 PROVE  ServesLatched'
      BY <2>1, <2>2 DEF ServesLatched
    <3>1. /\ shim_state \in {"ISSUE", "WAIT_ACK"} /\ ~data_ack /\ ~busy /\ DataReq # None
          /\ r.addr = lat.addr /\ r.wr = lat.wr /\ r.wdata = lat.data
      BY ChoiceFacts
    <3>2. req_accepted_q' /\ lat' = lat
      BY <1>2, <1>3, <1>4, <3>1 DEF data_gnt
    <3>3. shim_state' \in {"WAIT_ACK", "DRAIN"}
      BY <1>2, <3>1 DEF shim_next
    <3> QED BY <2>1, <3>1, <3>2, <3>3 DEF ServesLatched
  <2> QED BY <2>3, <2>5, <2>6
<1>5. ASSUME arb_state # "IDLE", arb' = arb
      PROVE  ServesLatched'
  <2> SUFFICES ASSUME arb.source = "data" PROVE ServesLatched'
    BY <1>1, <1>2, <1>5 DEF CtrlClock, Strobe, Collect, ServesLatched
  <2>1. /\ shim_state \in {"WAIT_ACK", "DRAIN"} /\ req_accepted_q /\ ~data_ack
        /\ arb.addr = lat.addr /\ arb.wr = lat.wr /\ arb.wdata = lat.data
    BY <1>1, <1>5 DEF ServesLatched, SoundSource
  <2>2. shim_state' \in {"WAIT_ACK", "DRAIN"} /\ req_accepted_q' /\ lat' = lat
    BY <1>2, <1>3, <2>1 DEF shim_next
  <2> QED BY <1>5, <2>1, <2>2 DEF ServesLatched
<1>6. CASE arb_state \in {"IFETCH", "DATA"}
  <2> DEFINE writes == arb.wr /\ arb.source # "ifetch"
  <2>1. /\ arb_state' = IF busy THEN arb_state ELSE IF writes THEN "IDLE" ELSE "WAIT"
        /\ ddram_rd' = (~busy /\ ~writes) /\ ddram_we' = (~busy /\ writes)
        /\ ddram_addr' = IF busy THEN ddram_addr ELSE arb.addr
        /\ ddram_din' = IF busy \/ ~writes THEN ddram_din ELSE arb.wdata
        /\ ddram_be' = IF busy \/ ~writes THEN ddram_be
                       ELSE IF arb.source = "pt" THEN "low" ELSE "word"
        /\ data_ack' = (~busy /\ writes /\ arb.source = "data")
        /\ arb' = arb
    BY <1>2, <1>6 DEF CtrlClock, Strobe
  <2>2. /\ arb # None
        /\ arb_state = "DATA" => arb.source = "data"
        /\ arb_state = "IFETCH" => arb.source = "ifetch" /\ ~arb.wr
    BY <1>1, <1>6 DEF SoundSource
  <2>3. SoundSource'
    BY <1>1, <1>6, <2>1, <2>2 DEF SoundSource
  <2>4. rd_pending' = None
    BY <1>1, <1>2, <1>6 DEF SoundBus
  <2>5. SoundBus'
    BY <1>1, <1>6, <2>1, <2>2, <2>4 DEF SoundBus
  <2>6. ServesLatched'
    BY <1>5, <1>6, <2>1
  <2> QED BY <2>3, <2>5, <2>6
<1>7. CASE arb_state = "WAIT"
  <2>1. /\ arb_state' = IF dout = None THEN "WAIT"
                         ELSE IF arb.source = "ifetch" /\ ~ifetch_phase THEN "IFETCH" ELSE "IDLE"
        /\ data_ack' = (dout # None /\ arb.source = "data")
        /\ data_rdata' = IF dout # None /\ arb.source = "data" THEN dout ELSE data_rdata
        /\ ddram_rd' = FALSE /\ ddram_we' = FALSE /\ arb' = arb
    BY <1>2, <1>7 DEF CtrlClock, Collect
  <2>2. arb # None /\ arb.source \in {"data", "ifetch"} /\ ~arb.wr
    BY <1>1, <1>7 DEF SoundSource
  <2>3. SoundSource'
    BY <2>1, <2>2 DEF SoundSource
  <2>4. dout # None => rd_pending # None /\ deliver /\ dout = mem[rd_pending]
    BY DEF Delivered
  <2>5. /\ ~data_ack /\ ~ddram_we /\ mem' = mem
        /\ ddram_rd => rd_pending = None /\ ddram_addr = arb.addr
        /\ rd_pending # None => rd_pending = arb.addr /\ ~ddram_rd
    BY <1>1, <1>2, <1>7 DEF SoundSource, SoundBus, Written
  <2>6. rd_pending' # None => dout = None /\ rd_pending' = arb.addr
    BY <1>1, <1>2, <2>4, <2>5
  <2>7. data_ack' => data_rdata' = mem'[arb.addr]
    BY <2>1, <2>4, <2>5
  <2>8. SoundBus'
    BY <2>1, <2>2, <2>6, <2>7 DEF SoundBus
  <2>9. ServesLatched'
    BY <1>5, <1>7, <2>1
  <2> QED BY <2>3, <2>8, <2>9
<1>8. arb_state # "PT"
  BY <1>1 DEF SoundSource
<1> QED BY <1>1, <1>4, <1>6, <1>7, <1>8

-----------------------------------------------------------------------------
(***************************************************************************)
(* The load that waits, cached or not                                      *)
(***************************************************************************)

\* What a cycle without a flush does to the load state machine.
LEMMA LoadMoves ==
  ASSUME PathInv, NEW flush, NEW busy, NEW deliver, NEW ld, NEW st,
         Step(flush, busy, deliver, ld, st), ~flush
  PROVE  /\ be_resp' = IF Answered /\ ~lat.wr THEN lat_rdata ELSE None
         /\ store_drain_ack' = (Answered /\ lat.wr)
         /\ ld_pipe' = ld.cached
         /\ ld_state' = IF ld_state = "IDLE" THEN IF ld_pipe # None THEN "WAIT" ELSE "IDLE"
                        ELSE IF ld_state = "WAIT" /\ be_resp # None THEN "IDLE" ELSE "WAIT"
         /\ ld_wait_addr' = IF ld_state = "IDLE" /\ ld_pipe # None THEN ld_pipe ELSE ld_wait_addr
         /\ ld_req_issued' \in BOOLEAN
         /\ ld_req_issued' <=> (/\ ~(ld_state = "WAIT" /\ be_resp # None)
                                /\ \/ ld_req_issued
                                   \/ Grant0(flush, st) /\ issue_load(flush))
         /\ ld_cdb' = IF ld_state = "IDLE" THEN None
                      ELSE IF ld_state = "WAIT" /\ be_resp # None THEN be_resp ELSE None
<1>1. Active(ld.cached, None, st, Grant0(flush, st), Rsp0(flush))
  BY StepParts DEF LsqClock
<1>2. /\ rsp_id_valid(Rsp0(flush)) <=> Answered
      /\ Answered => Rsp0(flush).id = pend_rd_ptr /\ Rsp0(flush).rdata = lat_rdata
  BY TableMoves
<1>3. Answered => (pend_data[pend_rd_ptr].is_load <=> ~lat.wr)
  <2> SUFFICES ASSUME Answered PROVE pend_data[pend_rd_ptr].is_load <=> ~lat.wr
    OBVIOUS
  <2>1. /\ pend_data[pend_rd_ptr] = [is_load |-> ~lat.wr, addr |-> lat.addr]
        /\ lat \in Request
    BY OldestAnswered, Responses DEF Answered
  <2>2. lat.wr \in BOOLEAN
    BY <2>1 DEF Request
  <2>3. pend_data[pend_rd_ptr].is_load = ~lat.wr
    BY <2>1
  <2> QED BY <2>2, <2>3
<1>4. issue_load(flush) <=> issue_load(FALSE)
  BY DEF issue_load, can_issue
<1>5. /\ be_resp' = IF Answered /\ ~lat.wr THEN lat_rdata ELSE None
      /\ store_drain_ack' = (Answered /\ lat.wr)
  BY <1>1, <1>2, <1>3 DEF Active
<1>6. /\ ld_req_issued' \in BOOLEAN
      /\ ld_req_issued' <=> (/\ ~(ld_state = "WAIT" /\ be_resp # None)
                             /\ \/ ld_req_issued
                                \/ Grant0(flush, st) /\ issue_load(flush))
  BY <1>1, <1>4 DEF Active
<1> QED BY <1>1, <1>5, <1>6 DEF Active

LEMMA OneLoadStep ==
  ASSUME PathInv, NEW flush, NEW busy, NEW deliver, NEW ld, NEW st,
         Step(flush, busy, deliver, ld, st)
  PROVE  OneLoad'
<1>1. CASE flush
  <2>1. be_resp' = None /\ pend_valid' = [i \in PendId |-> FALSE]
    BY <1>1, StepParts DEF LsqClock, Forget
  <2> QED BY <2>1 DEF OneLoad, LoadEntry
<1>2. CASE ~flush
  <2> DEFINE g == Grant0(flush, st)
             New(i) == g /\ i = pend_wr_ptr
  <2>1. /\ be_resp' = (IF Answered /\ ~lat.wr THEN lat_rdata ELSE None)
        /\ ld_state = "WAIT" /\ be_resp = None => ld_state' = "WAIT"
        /\ ld_state = "WAIT" => ld_wait_addr' = ld_wait_addr
        /\ be_resp = None =>
             (ld_req_issued' <=> ld_req_issued \/ (g /\ issue_load(flush)))
    <3>1. be_resp = None =>
             (ld_req_issued' <=> ld_req_issued \/ (g /\ issue_load(flush)))
      BY <1>2, LoadMoves
    <3>2. be_resp' = (IF Answered /\ ~lat.wr THEN lat_rdata ELSE None)
      BY <1>2, LoadMoves
    <3>3. /\ ld_state = "WAIT" /\ be_resp = None => ld_state' = "WAIT"
          /\ ld_state = "WAIT" => ld_wait_addr' = ld_wait_addr
      BY <1>2, LoadMoves
    <3> QED BY <3>1, <3>2, <3>3
  <2>2. /\ be_resp # None => ld_state = "WAIT" /\ ld_req_issued
        /\ \A i \in PendId : LoadEntry(i) =>
             /\ ld_state = "WAIT" /\ ld_req_issued /\ be_resp = None
             /\ pend_data[i].addr = ld_wait_addr
             /\ \A j \in PendId : LoadEntry(j) => i = j
    BY DEF PathInv, OneLoad
  <2>3. /\ Answered /\ ~lat.wr => LoadEntry(pend_rd_ptr)
        /\ pend_rd_ptr \in PendId
    <3>1. pend_rd_ptr \in PendId
      BY DEF PathInv, TypeOK, LsqTypeOK
    <3> SUFFICES ASSUME Answered, ~lat.wr PROVE LoadEntry(pend_rd_ptr)
      BY <3>1
    <3>2. /\ pend_valid[pend_rd_ptr]
          /\ pend_data[pend_rd_ptr] = [is_load |-> ~lat.wr, addr |-> lat.addr]
      BY OldestAnswered DEF Answered
    <3>3. pend_data[pend_rd_ptr].is_load = ~lat.wr
      BY <3>2
    <3> QED BY <3>2, <3>3 DEF LoadEntry
  <2>4. issue_load(flush) => ld_state = "WAIT" /\ ~ld_req_issued
    BY DEF issue_load
  <2>5. ASSUME NEW i \in PendId, LoadEntry(i)', ~New(i)
        PROVE  LoadEntry(i) /\ pend_data'[i] = pend_data[i] /\ ~(Answered /\ i = pend_rd_ptr)
    <3>1. pend_valid[i] /\ ~(Answered /\ i = pend_rd_ptr)
      BY <1>2, <2>5, TableMoves DEF LoadEntry
    <3>2. pend_data'[i] = pend_data[i]
      <4>1. CASE g
        BY <1>2, <2>5, <4>1, TableKept
      <4>2. CASE ~g
        BY <1>2, <4>2, TableData
      <4> QED BY <4>1, <4>2
    <3> QED BY <2>5, <3>1, <3>2 DEF LoadEntry
  <2>6. ASSUME NEW i \in PendId, LoadEntry(i)', New(i)
        PROVE  g /\ issue_load(flush) /\ pend_data'[i].addr = ld_wait_addr
    <3>1. /\ pend_data'[i] = [is_load |-> ~Down(flush, st).wr, addr |-> Down(flush, st).addr]
          /\ Down(flush, st).wr <=> ~issue_load(flush)
          /\ issue_load(flush) => Down(flush, st).addr = ld_wait_addr
      BY <1>2, <2>6, TableData
    <3>2. pend_data'[i].is_load
      BY <2>6 DEF LoadEntry
    <3>3. pend_data'[i].is_load = ~Down(flush, st).wr
          /\ pend_data'[i].addr = Down(flush, st).addr
      BY <3>1
    <3>4. issue_load(flush)
      BY <3>1, <3>2, <3>3
    <3> QED BY <2>6, <3>1, <3>3, <3>4
  <2>7. be_resp' # None => ld_state' = "WAIT" /\ ld_req_issued'
    BY <2>1, <2>2, <2>3
  <2>8. ASSUME NEW i \in PendId, LoadEntry(i)'
        PROVE  /\ ld_state' = "WAIT" /\ ld_req_issued' /\ be_resp' = None
               /\ pend_data'[i].addr = ld_wait_addr'
               /\ \A j \in PendId : LoadEntry(j)' => i = j
    <3>1. CASE New(i)
      <4>1. g /\ issue_load(flush) /\ pend_data'[i].addr = ld_wait_addr
        BY <2>6, <2>8, <3>1
      <4>2. ld_state = "WAIT" /\ be_resp = None /\ \A j \in PendId : ~LoadEntry(j)
        BY <2>2, <2>4, <4>1
      <4>3. be_resp' = None
        BY <2>1, <2>3, <4>2
      <4>4. \A j \in PendId : LoadEntry(j)' => i = j
        BY <2>5, <3>1, <4>2
      <4> HIDE DEF g, New
      <4> QED BY <2>1, <4>1, <4>2, <4>3, <4>4
    <3>2. CASE ~New(i)
      <4>1. LoadEntry(i) /\ pend_data'[i] = pend_data[i] /\ ~(Answered /\ i = pend_rd_ptr)
        BY <2>5, <2>8, <3>2
      <4>2. /\ ld_state = "WAIT" /\ ld_req_issued /\ be_resp = None
            /\ pend_data[i].addr = ld_wait_addr
            /\ \A j \in PendId : LoadEntry(j) => i = j
        BY <2>2, <4>1
      <4>3. be_resp' = None
        BY <2>1, <2>3, <4>1, <4>2
      <4>4. \A j \in PendId : LoadEntry(j)' => i = j
        BY <2>4, <2>5, <2>6, <4>2
      <4> HIDE DEF g, New
      <4> QED BY <2>1, <4>1, <4>2, <4>3, <4>4
    <3> QED BY <3>1, <3>2
  <2> QED BY <2>7, <2>8 DEF OneLoad
<1> QED BY <1>1, <1>2

\* Every cycle keeps the account of the MMIO path.
LEMMA IoAccountedStep ==
  ASSUME PathInv, NEW flush, NEW busy, NEW deliver, NEW ld, NEW st,
         Step(flush, busy, deliver, ld, st)
  PROVE  IoAccounted'
<1>1. /\ io_state' = io_next(flush, ld.mmio, Grant1(flush), Rsp1(flush))
      /\ io_addr' = IF ld.mmio # None THEN ld.mmio ELSE io_addr
  BY StepParts DEF IoClock
<1>2. ld.mmio # None => io_state = "IDLE"
  BY DEF Step, LoadInput, io_ld_ready
<1>3. io_state \in {"IDLE", "ISSUE", "WAIT", "CDB", "DRAIN"}
  BY DEF PathInv, TypeOK, IoTypeOK
<1>4. CASE flush
  <2>1. InPath' = << >>
    BY <1>4, FlushEmpties
  <2>2. Places("io")' = {}
    BY <2>1 DEF Places
  <2>3. ~Grant1(flush)
    BY <1>4, Channel
  <2>4. Rsp1(flush) = None
    BY <1>4 DEF Rsp1, routed
  <2>5. io_state' # "WAIT"
    BY <1>1, <1>3, <1>4, <2>3, <2>4 DEF io_next
  <2> QED BY <2>2, <2>5 DEF IoAccounted
<1>5. CASE ~flush
  <2> DEFINE w == Pushed(flush, st)
             p == IF Popped(flush) THEN 1 ELSE 0
             n == Len(InPath) - p
  <2>1. /\ n \in Nat /\ p \in {0, 1} /\ (p = 1 <=> Popped(flush))
        /\ DOMAIN InPath' = 1..(n + (IF w THEN 1 ELSE 0))
        /\ DOMAIN InPath = 1..(n + p)
        /\ \A j \in 1..n : InPath'[j] = InPath[j + p]
        /\ w => InPath'[n + 1] = Down(flush, st)
    <3>1. Len(InPath) \in Nat /\ DOMAIN InPath = 1..Len(InPath)
      BY PathNow
    <3> DEFINE m == n
    <3>2. m = Len(InPath) - (IF Popped(flush) THEN 1 ELSE 0)
      OBVIOUS
    <3> HIDE DEF m
    <3>3. /\ m \in Nat
          /\ DOMAIN InPath' = 1..(m + (IF Pushed(flush, st) THEN 1 ELSE 0))
          /\ \A j \in 1..m : InPath'[j] = InPath[j + (IF Popped(flush) THEN 1 ELSE 0)]
          /\ Pushed(flush, st) => InPath'[m + 1] = Down(flush, st)
      BY <1>5, <3>2, PathMoves
    <3>4. Len(InPath) = m + p
      <4>1. CASE Popped(flush)
        BY <3>1, <3>2, <3>3, <4>1
      <4>2. CASE ~Popped(flush)
        BY <3>1, <3>2, <3>3, <4>2
      <4> QED BY <4>1, <4>2
    <3> QED BY <3>1, <3>3, <3>4 DEF m
  <2>2. /\ Grant1(flush) <=> w /\ Down(flush, st).client = "io"
        /\ Grant1(flush) => io_state = "ISSUE" /\ Down(flush, st).addr = io_addr
    BY Channel
  <2>3. /\ Rsp1(flush) # None <=> shim_state = "RESPOND" /\ lat.client = "io"
        /\ Popped(flush) => shim_state = "RESPOND" /\ InPath[1] = lat
        /\ Rsp1(flush) # None /\ io_state = "WAIT" => Popped(flush)
    <3>1. shim_state = "RESPOND" => InPath[1] = lat
      BY PathNow DEF Served
    <3>2. Popped(flush) => shim_state = "RESPOND"
      BY DEF Popped
    <3>3. Rsp1(flush) # None <=> shim_state = "RESPOND" /\ lat.client = "io"
      BY <1>5, Responses
    <3>4. io_state = "WAIT" => io_rsp_ready
      BY DEF io_rsp_ready
    <3>5. Rsp1(flush) # None /\ io_state = "WAIT" => Popped(flush)
      BY <3>3, <3>4, Responses
    <3> QED BY <3>1, <3>2, <3>3, <3>5
  <2> HIDE DEF w, p, n
  <2>4. \A j \in DOMAIN InPath' :
          j \in Places("io")' <=> \/ j \in 1..n /\ j + p \in Places("io")
                                  \/ Grant1(flush) /\ j = n + 1
    <3> TAKE j \in DOMAIN InPath'
    <3>1. j \in 1..n \/ (w /\ j = n + 1 /\ j \notin 1..n)
      BY <2>1
    <3>2. CASE j \in 1..n
      <4>1. j + p \in DOMAIN InPath /\ InPath'[j] = InPath[j + p] /\ j # n + 1
        BY <2>1, <3>2
      <4> QED BY <3>2, <4>1 DEF Places
    <3>3. CASE w /\ j = n + 1 /\ j \notin 1..n
      BY <2>1, <2>2, <3>3 DEF Places
    <3> QED BY <3>1, <3>2, <3>3
  <2>5. CASE io_state = "WAIT"
    <3>1. ~Grant1(flush) /\ io_addr' = io_addr
      BY <1>1, <1>2, <2>2, <2>5
    <3>2. PICK i \in DOMAIN InPath : Places("io") = {i} /\ InPath[i].addr = io_addr
      BY <2>5 DEF PathInv, IoAccounted
    <3>3. InPath[i].client = "io" /\ i \in 1..(n + p)
      BY <2>1, <3>2 DEF Places
    <3>4. CASE Rsp1(flush) # None
      <4>1. io_state' # "WAIT"
        BY <1>1, <1>5, <2>5, <3>4 DEF io_next
      <4>2. p = 1 /\ 1 \in DOMAIN InPath /\ InPath[1].client = "io"
        BY <2>1, <2>3, <2>5, <3>3, <3>4
      <4>3. i = 1
        BY <3>2, <4>2 DEF Places
      <4>4. Places("io")' = {}
        <5>1. \A j \in DOMAIN InPath' : j \notin Places("io")'
          BY <2>1, <2>4, <3>1, <3>2, <4>2, <4>3
        <5> QED BY <5>1 DEF Places
      <4> QED BY <4>1, <4>4 DEF IoAccounted
    <3>5. CASE Rsp1(flush) = None
      <4>1. io_state' = "WAIT"
        BY <1>1, <1>5, <2>5, <3>5 DEF io_next
      <4>2. i - p \in 1..n /\ (i - p) + p = i
        <5>1. p = 1 => i # 1
          BY <2>1, <2>3, <3>3, <3>5
        <5> QED BY <2>1, <3>3, <5>1
      <4>3. i - p \in DOMAIN InPath' /\ InPath'[i - p] = InPath[i]
        BY <2>1, <4>2
      <4>4. \A j \in DOMAIN InPath' : j \in Places("io")' <=> j = i - p
        BY <2>1, <2>4, <3>1, <3>2, <4>2
      <4>5. Places("io")' = {i - p}
        BY <4>3, <4>4 DEF Places
      <4> QED BY <3>1, <3>2, <4>1, <4>3, <4>5 DEF IoAccounted
    <3> QED BY <3>4, <3>5
  <2>6. CASE io_state # "WAIT"
    <3>1. Places("io") = {}
      BY <2>6 DEF PathInv, IoAccounted
    <3>2. CASE Grant1(flush)
      <4>1. io_state' = "WAIT" /\ io_addr' = io_addr
        BY <1>1, <1>2, <1>5, <2>2, <3>2 DEF io_next
      <4>2. n + 1 \in DOMAIN InPath' /\ InPath'[n + 1].addr = io_addr
        BY <2>1, <2>2, <3>2
      <4>3. Places("io")' = {n + 1}
        <5>1. \A j \in DOMAIN InPath' : j \in Places("io")' <=> j = n + 1
          BY <2>4, <3>1, <3>2
        <5> QED BY <4>2, <5>1 DEF Places
      <4> QED BY <4>1, <4>2, <4>3 DEF IoAccounted
    <3>3. CASE ~Grant1(flush)
      <4>1. io_state' # "WAIT"
        BY <1>1, <1>3, <1>5, <2>6, <3>3 DEF io_next
      <4>2. Places("io")' = {}
        <5>1. \A j \in DOMAIN InPath' : j \notin Places("io")'
          BY <2>4, <3>1, <3>3
        <5> QED BY <5>1 DEF Places
      <4> QED BY <4>1, <4>2 DEF IoAccounted
    <3> QED BY <3>2, <3>3
  <2> QED BY <2>5, <2>6
<1> QED BY <1>4, <1>5

-----------------------------------------------------------------------------
(***************************************************************************)
(* The rest of the invariant, and the theorems                             *)
(***************************************************************************)
LEMMA SoundShimStep ==
  ASSUME PathInv, NEW flush, NEW busy, NEW deliver, NEW ld, NEW st,
         Step(flush, busy, deliver, ld, st)
  PROVE  SoundShim' /\ ShimTypeOK'
<1> DEFINE w == Pushed(flush, st)
           rd == fifo_rd_en(flush)
           rest == IF rd THEN Tail(fifo) ELSE fifo
           req == Down(flush, st)
<1>1. /\ fifo' = IF flush THEN << >> ELSE IF w THEN Append(rest, req) ELSE rest
      /\ shim_state' = shim_next(flush, data_ack, Taken(flush))
      /\ lat' = IF rd THEN Head(fifo) ELSE lat
      /\ lat_rdata' = IF shim_state = "WAIT_ACK" /\ data_ack THEN data_rdata ELSE lat_rdata
      /\ req_accepted_q' \in BOOLEAN
  BY StepParts DEF ShimClock, Pushed
<1>2. /\ fifo \in Seq(Request) /\ Len(fifo) \in Nat /\ Len(fifo) <= PendDepth
      /\ lat \in Request \cup {None} /\ lat_rdata \in Val \cup {None}
      /\ shim_state \in {"IDLE", "ISSUE", "WAIT_ACK", "RESPOND", "DRAIN"}
      /\ PendDepth \in Nat /\ DOMAIN fifo = 1..Len(fifo)
  BY PathNow, DepthPositive, LenProperties DEF PathInv, TypeOK, ShimTypeOK
<1>3. /\ \A j \in 1..Len(fifo) : SoundRequest(fifo[j])
      /\ shim_state # "IDLE" => SoundRequest(lat)
      /\ shim_state = "RESPOND" /\ ~lat.wr => lat_rdata \in Val
  BY <1>2 DEF PathInv, SoundShim
<1>4. data_rdata \in Val \cup {None} /\ mem \in [Addr -> Val]
  BY DEF PathInv, TypeOK, CtrlTypeOK, DramTypeOK
<1>5. w => SoundRequest(req) /\ req \in Request /\ ~flush
  BY Channel DEF Pushed, SoundRequest
<1>6. rd => fifo # << >> /\ shim_state = "IDLE"
  BY DEF fifo_rd_en
<1>7. rd => /\ Tail(fifo) \in Seq(Request) /\ Len(Tail(fifo)) = Len(fifo) - 1
            /\ \A i \in 1..Len(Tail(fifo)) : Tail(fifo)[i] = fifo[i + 1]
            /\ Head(fifo) = fifo[1] /\ Len(fifo) >= 1
  BY <1>2, <1>6, HeadTailProperties, EmptySeq
<1>8. /\ rest \in Seq(Request) /\ Len(rest) \in Nat
      /\ \A i \in 1..Len(rest) : SoundRequest(rest[i])
  <2>1. CASE rd
    <3>1. rest = Tail(fifo) /\ Len(rest) = Len(fifo) - 1 /\ Len(rest) \in Nat
          /\ rest \in Seq(Request)
      BY <1>2, <1>7, <2>1
    <3>2. ASSUME NEW i \in 1..Len(rest)
          PROVE  SoundRequest(rest[i])
      <4>1. i + 1 \in 1..Len(fifo)
        <5>1. Len(fifo) \in Nat /\ Len(rest) = Len(fifo) - 1 /\ i \in 1..Len(rest)
          BY <1>2, <3>1, <3>2
        <5> HIDE DEF rest
        <5> QED BY ONLY <5>1
      <4>2. rest[i] = fifo[i + 1]
        BY <1>7, <2>1, <3>1, <3>2
      <4> QED BY <1>3, <4>1, <4>2
    <3> QED BY <3>1, <3>2
  <2>2. CASE ~rd
    BY <1>2, <1>3, <2>2
  <2> QED BY <2>1, <2>2
<1> HIDE DEF rest, req, w, rd
<1>9. fifo' \in Seq(Request) /\ \A j \in DOMAIN fifo' : SoundRequest(fifo'[j])
  <2>1. CASE flush
    <3>1. fifo' = << >> /\ << >> \in Seq(Request) /\ DOMAIN fifo' = {}
      BY <2>1, <1>1, EmptySeq
    <3> QED BY <3>1
  <2>2. CASE ~flush /\ w
    <3>1. /\ fifo' = Append(rest, req) /\ fifo' \in Seq(Request)
          /\ Len(fifo') = Len(rest) + 1
          /\ \A i \in 1..Len(rest) : fifo'[i] = rest[i]
          /\ fifo'[Len(rest) + 1] = req
      BY <2>2, <1>1, <1>5, <1>8, AppendProperties
    <3>2. DOMAIN fifo' = 1..(Len(rest) + 1)
      BY <3>1, LenProperties
    <3>3. ASSUME NEW j \in DOMAIN fifo'
          PROVE  SoundRequest(fifo'[j])
      <4>1. j \in 1..Len(rest) \/ j = Len(rest) + 1
        BY <1>8, <3>2, <3>3
      <4>2. CASE j \in 1..Len(rest)
        <5>1. fifo'[j] = rest[j]
          BY <3>1, <4>2
        <5> QED BY <1>8, <4>2, <5>1
      <4>3. CASE j = Len(rest) + 1
        <5>1. fifo'[j] = req
          BY <3>1, <4>3
        <5> QED BY <1>5, <2>2, <5>1
      <4> QED BY <4>1, <4>2, <4>3
    <3> QED BY <3>1, <3>3
  <2>3. CASE ~flush /\ ~w
    <3>1. fifo' = rest /\ DOMAIN fifo' = 1..Len(rest)
      BY <2>3, <1>1, <1>8, LenProperties
    <3> QED BY <1>8, <3>1
  <2> QED BY <2>1, <2>2, <2>3
<1>10. SoundRequest(lat') \/ (lat' = lat /\ ~rd)
  BY <1>1, <1>2, <1>3, <1>7
<1>11. shim_state' # "IDLE" => SoundRequest(lat')
  <2>1. shim_state = "IDLE" /\ ~rd => shim_state' = "IDLE"
    BY <1>1 DEF shim_next, rd
  <2> QED BY <1>3, <1>10, <2>1
<1>12. shim_state' = "RESPOND" /\ ~lat'.wr => lat_rdata' \in Val
  <2> SUFFICES ASSUME shim_state' = "RESPOND", ~lat'.wr
               PROVE  lat_rdata' \in Val
    OBVIOUS
  <2>1. \/ shim_state = "WAIT_ACK" /\ data_ack
        \/ shim_state = "RESPOND"
    BY <1>1, <1>2 DEF shim_next
  <2>2. lat' = lat
    BY <1>1, <1>6, <2>1
  <2>3. CASE shim_state = "WAIT_ACK" /\ data_ack
    <3>1. arb.addr = lat.addr /\ arb.wr = lat.wr
      BY <2>3 DEF PathInv, ServesLatched
    <3>2. data_rdata = mem[lat.addr]
      BY <2>2, <2>3, <3>1 DEF PathInv, SoundBus
    <3>3. lat.addr \in Addr
      BY <1>3, <2>3 DEF SoundRequest, Request
    <3> QED BY <1>1, <1>4, <2>3, <3>2, <3>3
  <2>4. CASE shim_state = "RESPOND"
    BY <1>1, <1>3, <2>2, <2>4
  <2> QED BY <2>1, <2>3, <2>4
<1>13. Len(fifo') <= PendDepth
  <2>1. CASE flush
    <3>1. fifo' = << >>
      BY <2>1, FlushEmpties
    <3>2. Len(<< >>) = 0
      BY EmptySeq
    <3> QED BY <1>2, <3>1, <3>2
  <2>2. CASE ~flush
    <3> DEFINE n == Len(InPath) - (IF Popped(flush) THEN 1 ELSE 0)
    <3> HIDE DEF n
    <3>1. n = Len(InPath) - (IF Popped(flush) THEN 1 ELSE 0)
      BY DEF n
    <3> QED BY <2>2, <3>1, PathMoves
  <2> QED BY <2>1, <2>2
<1>14. /\ shim_state' \in {"IDLE", "ISSUE", "WAIT_ACK", "RESPOND", "DRAIN"}
       /\ lat_rdata' \in Val \cup {None}
  BY <1>1, <1>2, <1>4 DEF shim_next
<1>15. lat' \in Request \cup {None}
  BY <1>2, <1>10 DEF SoundRequest
<1>16. SoundShim'
  BY <1>9, <1>11, <1>12 DEF SoundShim
<1> QED BY <1>1, <1>9, <1>13, <1>14, <1>15, <1>16 DEF ShimTypeOK

LEMMA LsqTypeStep ==
  ASSUME PathInv, NEW flush, NEW busy, NEW deliver, NEW ld, NEW st,
         Step(flush, busy, deliver, ld, st)
  PROVE  LsqTypeOK' /\ PointersAgree'
<1>1. LsqTypeOK
  BY DEF PathInv, TypeOK
<1>2. CASE flush
  <2>1. Forget
    BY <1>2, StepParts DEF LsqClock
  <2>2. pend_valid' \in [PendId -> BOOLEAN]
    BY <2>1 DEF Forget
  <2>3. pend_wr_ptr' = 0 /\ pend_rd_ptr' = 0 /\ pend_count' = 0
    BY <2>1 DEF Forget
  <2>4. 0 \in PendId /\ 0 \in 0..PendDepth /\ (0 + 0) % PendDepth = 0
    <3>1. 0 \in PendId /\ 0 \in 0..PendDepth /\ 0 \in 0..(2 * PendDepth - 1)
      BY DepthPositive
    <3>2. 0 % PendDepth = 0
      BY <3>1, Wrap, DepthPositive
    <3> QED BY <3>1, <3>2
  <2>5. PointersAgree'
    BY <2>3, <2>4 DEF PointersAgree
  <2>6. pend_count' \in 0..PendDepth /\ pend_wr_ptr' \in PendId /\ pend_rd_ptr' \in PendId
    BY <2>3, <2>4
  <2> QED BY <1>1, <2>1, <2>2, <2>5, <2>6 DEF LsqTypeOK, Forget
<1>3. CASE ~flush
  <2>1. ld.cached \in Addr \cup {None}
    BY DEF Step, LoadInput
  <2>2. lat_rdata \in Val \cup {None}
    BY DEF PathInv, TypeOK, ShimTypeOK
  <2>3. /\ be_resp' = IF Answered /\ ~lat.wr THEN lat_rdata ELSE None
        /\ store_drain_ack' = (Answered /\ lat.wr)
        /\ ld_pipe' = ld.cached
        /\ ld_state' = IF ld_state = "IDLE" THEN IF ld_pipe # None THEN "WAIT" ELSE "IDLE"
                       ELSE IF ld_state = "WAIT" /\ be_resp # None THEN "IDLE" ELSE "WAIT"
        /\ ld_wait_addr' = IF ld_state = "IDLE" /\ ld_pipe # None THEN ld_pipe ELSE ld_wait_addr
        /\ ld_req_issued' \in BOOLEAN
        /\ ld_cdb' = IF ld_state = "IDLE" THEN None
                     ELSE IF ld_state = "WAIT" /\ be_resp # None THEN be_resp ELSE None
    BY <1>3, LoadMoves
  <2>4. /\ be_resp' \in Val \cup {None} /\ ld_pipe' \in Addr \cup {None}
        /\ ld_state' \in {"IDLE", "WAIT"} /\ ld_wait_addr' \in Addr \cup {None}
        /\ ld_cdb' \in Val \cup {None} /\ store_drain_ack' \in BOOLEAN
    BY <1>1, <2>1, <2>2, <2>3 DEF LsqTypeOK
  <2>5. /\ pend_count' = pend_count + (IF Grant0(flush, st) THEN 1 ELSE 0)
                           - (IF Answered THEN 1 ELSE 0)
        /\ pend_rd_ptr' = IF Answered THEN NextId(pend_rd_ptr) ELSE pend_rd_ptr
        /\ pend_valid' = [i \in PendId |->
             /\ pend_valid[i] \/ (Grant0(flush, st) /\ i = pend_wr_ptr)
             /\ ~(Answered /\ i = pend_rd_ptr)]
        /\ Answered => pend_count >= 1
        /\ Grant0(flush, st) => pend_count < PendDepth
    BY <1>3, TableMoves
  <2>6. pend_wr_ptr' = IF Grant0(flush, st) THEN NextId(pend_wr_ptr) ELSE pend_wr_ptr
    BY <1>3, StepParts DEF LsqClock, Active
  <2>7. /\ pend_count \in 0..PendDepth /\ pend_rd_ptr \in PendId /\ pend_wr_ptr \in PendId
        /\ PendDepth \in Nat /\ pend_rd_ptr \in Nat
    BY <1>1, DepthPositive DEF LsqTypeOK, PendId
  <2>8. pend_valid' \in [PendId -> BOOLEAN]
    BY <2>5
  <2>9. pend_count' \in 0..PendDepth
    BY <2>5, <2>7
  <2>10. pend_rd_ptr' \in PendId /\ pend_wr_ptr' \in PendId
    BY <2>5, <2>6, <2>7, RingFacts
  <2>11. pend_data' \in [PendId -> PendEntry \cup {None}]
    BY <1>3, TableDataType
  <2>12. LsqTypeOK'
    BY <2>3, <2>4, <2>8, <2>9, <2>10, <2>11 DEF LsqTypeOK
  <2>13. PointersAgree'
    <3> DEFINE c == pend_count
               a == IF Grant0(flush, st) THEN 1 ELSE 0
               d == IF Answered THEN 1 ELSE 0
    <3>1. pend_wr_ptr = Ring(pend_rd_ptr, c + 1)
      <4>1. pend_rd_ptr + (c + 1) - 1 = pend_rd_ptr + c
        BY <2>7
      <4> QED BY <4>1 DEF PathInv, PointersAgree, Ring
    <3>2. /\ a \in {0, 1} /\ d \in {0, 1} /\ (a = 1 <=> Grant0(flush, st))
          /\ (d = 1 <=> Answered) /\ pend_count' = c + a - d /\ c \in 0..PendDepth
      BY <2>5, <2>7
    <3> HIDE DEF c, a, d
    <3>3. pend_wr_ptr' = Ring(pend_rd_ptr, c + a + 1)
      <4>1. CASE a = 1
        <5>1. c + 1 \in 1..PendDepth /\ c + a + 1 = (c + 1) + 1
          BY <2>5, <2>7, <3>2, <4>1 DEF c
        <5>2. NextId(Ring(pend_rd_ptr, c + 1)) = Ring(pend_rd_ptr, (c + 1) + 1)
          BY <2>7, <5>1, RingFacts
        <5> QED BY <2>6, <3>1, <3>2, <4>1, <5>1, <5>2
      <4>2. CASE a = 0
        <5>1. c + a + 1 = c + 1
          BY <3>2, <4>2
        <5> QED BY <2>6, <3>1, <3>2, <4>2, <5>1
      <4> QED BY <3>2, <4>1, <4>2
    <3>4. Ring(pend_rd_ptr', pend_count' + 1) = Ring(pend_rd_ptr, c + a + 1)
      <4>1. CASE d = 1
        <5>1. c + a \in 1..PendDepth /\ pend_count' + 1 = c + a
          BY <2>5, <2>7, <3>2, <4>1 DEF c
        <5>2. Ring(NextId(pend_rd_ptr), c + a) = Ring(pend_rd_ptr, c + a + 1)
          BY <2>7, <5>1, RingFacts
        <5> QED BY <2>5, <3>2, <4>1, <5>1, <5>2
      <4>2. CASE d = 0
        <5>1. pend_count' + 1 = c + a + 1
          BY <3>2, <4>2
        <5> QED BY <2>5, <3>2, <4>2, <5>1
      <4> QED BY <3>2, <4>1, <4>2
    <3>5. pend_rd_ptr' + (pend_count' + 1) - 1 = pend_rd_ptr' + pend_count'
      BY <2>9, <2>10, <2>7 DEF PendId
    <3> QED BY <3>3, <3>4, <3>5 DEF PointersAgree, Ring
  <2> QED BY <2>12, <2>13
<1> QED BY <1>2, <1>3

LEMMA OtherTypesStep ==
  ASSUME PathInv, NEW flush, NEW busy, NEW deliver, NEW ld, NEW st,
         Step(flush, busy, deliver, ld, st)
  PROVE  IoTypeOK' /\ SoundLoads' /\ CtrlTypeOK' /\ DramTypeOK' /\ ld_in_flight' \in BOOLEAN
<1>1. LsqTypeOK /\ IoTypeOK /\ ShimTypeOK /\ CtrlTypeOK /\ DramTypeOK /\ SoundLoads
  BY DEF PathInv, TypeOK
<1>2. ld.cached \in Addr \cup {None} /\ ld.mmio \in Addr \cup {None}
  BY DEF Step, LoadInput
<1>3. IoClock(flush, ld.mmio, Grant1(flush), Rsp1(flush))
  BY StepParts
<1>4. /\ io_state' = io_next(flush, ld.mmio, Grant1(flush), Rsp1(flush))
      /\ io_addr' = IF ld.mmio # None THEN ld.mmio ELSE io_addr
      /\ io_rdata' = IF io_state = "WAIT" /\ Rsp1(flush) # None THEN Rsp1(flush).rdata ELSE io_rdata
  BY <1>3 DEF IoClock
<1>5. IoTypeOK'
  <2>1. Rsp1(flush) # None => Rsp1(flush).rdata \in Val \cup {None}
    BY <1>1, Responses DEF ShimTypeOK
  <2>2. io_state' \in {"IDLE", "ISSUE", "WAIT", "CDB", "DRAIN"}
    BY <1>1, <1>4 DEF io_next, IoTypeOK
  <2> QED BY <1>1, <1>2, <1>4, <2>1, <2>2 DEF IoTypeOK
<1>6. SoundLoads'
  <2>1. io_state' # "IDLE" => io_addr' \in Addr
    <3>1. io_state = "IDLE" /\ ld.mmio = None => io_state' = "IDLE"
      BY <1>4 DEF io_next
    <3> QED BY <1>1, <1>2, <1>4, <3>1 DEF SoundLoads
  <2>2. ld_state' = "WAIT" => ld_wait_addr' \in Addr
    <3>1. CASE flush
      BY <3>1, StepParts DEF LsqClock, Forget
    <3>2. CASE ~flush
      BY <1>1, <3>2, LoadMoves DEF LsqTypeOK, SoundLoads
    <3> QED BY <3>1, <3>2
  <2> QED BY <2>1, <2>2 DEF SoundLoads
<1>7. DramTypeOK'
  <2>1. /\ mem' = Written(ddram_we, ddram_addr, ddram_din, ddram_be)
        /\ rd_pending' = IF ddram_rd THEN ddram_addr ELSE IF deliver THEN None ELSE rd_pending
    <3>1. DramClock(deliver, ddram_rd, ddram_we, ddram_addr, ddram_din, ddram_be)
      BY StepParts
    <3> QED BY <3>1 DEF DramClock
  <2>2. ddram_we => ddram_addr \in Addr /\ ddram_din \in Val /\ ddram_be = "word"
    <3> SUFFICES ASSUME ddram_we PROVE ddram_addr \in Addr /\ ddram_din \in Val /\ ddram_be = "word"
      OBVIOUS
    <3>1. /\ data_ack /\ arb.wr /\ ddram_addr = arb.addr /\ ddram_din = arb.wdata
          /\ ddram_be = "word"
      BY DEF PathInv, SoundBus
    <3>2. /\ shim_state \in {"WAIT_ACK", "DRAIN"}
          /\ arb.addr = lat.addr /\ arb.wr = lat.wr /\ arb.wdata = lat.data
      BY <3>1 DEF PathInv, ServesLatched
    <3>3. SoundRequest(lat) /\ lat.wr
      BY <3>1, <3>2 DEF PathInv, SoundShim
    <3> QED BY <3>1, <3>2, <3>3 DEF SoundRequest, Request
  <2>3. mem' \in [Addr -> Val]
    BY <1>1, <2>1, <2>2 DEF Written, DramTypeOK
  <2> QED BY <1>1, <2>1, <2>3 DEF DramTypeOK, CtrlTypeOK
<1>8. CtrlTypeOK'
  <2> DEFINE r == Choice(flush, busy)
             dout == Delivered(deliver)
  <2>1. CtrlClock(fetch_req(flush), DataReq, None, busy, dout)
    BY StepParts
  <2>2. busy \in BOOLEAN
    BY DEF Step
  <2>3. CASE arb_state = "IDLE" /\ Accept(fetch_req(flush), DataReq, None, busy)
    <3>1. /\ arb_state' = IF r = None THEN "IDLE" ELSE Serving[r.source]
          /\ arb' = IF r = None THEN arb ELSE r
          /\ ifetch_phase' = (ifetch_phase /\ ~(r # None /\ r.source = "ifetch"))
          /\ ifetch_valid' = FALSE /\ data_ack' = FALSE /\ pt_ack' = FALSE
          /\ ddram_rd' = FALSE /\ ddram_we' = FALSE
          /\ UNCHANGED <<data_rdata, pt_rdata, ddram_addr, ddram_din, ddram_be>>
      BY <2>3 DEF Accept, Choice
    <3>2. r # None => r \in Accepted /\ r.source \in {"data", "ifetch"}
      BY ChoiceFacts
    <3>3. arb_state' \in {"IDLE", "DATA", "IFETCH"}
      BY <3>1, <3>2 DEF Serving
    <3>4. arb' \in Accepted \cup {None}
      BY <1>1, <3>1, <3>2 DEF CtrlTypeOK
    <3>5. ifetch_phase' \in BOOLEAN
      BY <3>1
    <3> QED BY <1>1, <3>1, <3>3, <3>4, <3>5 DEF CtrlTypeOK
  <2>4. CASE arb_state \in {"IFETCH", "DATA", "PT"} /\ Strobe(busy)
    <3>1. arb \in Accepted
      BY <1>1, <2>4 DEF PathInv, SoundSource, CtrlTypeOK
    <3>2. arb.addr \in Addr /\ arb.wdata \in Val \cup Half \cup {None} /\ arb.wr \in BOOLEAN
      BY <3>1 DEF Accepted
    <3>3. arb_state' \in {"IDLE", "IFETCH", "DATA", "PT", "WAIT"}
      BY <2>4 DEF Strobe
    <3>4. /\ ddram_addr' \in Addr \cup {None} /\ ddram_din' \in Val \cup Half \cup {None}
          /\ ddram_be' \in {"word", "low"}
      BY <1>1, <2>4, <3>2 DEF Strobe, CtrlTypeOK
    <3>5. /\ ddram_rd' \in BOOLEAN /\ ddram_we' \in BOOLEAN /\ data_ack' \in BOOLEAN
          /\ pt_ack' \in BOOLEAN
      BY <2>4 DEF Strobe
    <3> QED BY <1>1, <2>4, <3>3, <3>4, <3>5 DEF Strobe, CtrlTypeOK
  <2>5. CASE arb_state = "WAIT" /\ Collect(dout)
    <3>1. dout # None => dout \in Val
      BY <1>1 DEF Delivered, DramTypeOK
    <3>2. arb.source # "pt"
      BY <2>5 DEF PathInv, SoundSource
    <3>3. arb_state' \in {"IDLE", "IFETCH", "WAIT"} /\ data_rdata' \in Val \cup {None}
      BY <1>1, <2>5, <3>1 DEF Collect, CtrlTypeOK
    <3>4. pt_rdata' = pt_rdata
      BY <2>5, <3>2 DEF Collect
    <3>5. /\ ifetch_phase' \in BOOLEAN /\ ifetch_valid' \in BOOLEAN /\ data_ack' \in BOOLEAN
          /\ pt_ack' \in BOOLEAN
      BY <2>5 DEF Collect
    <3> QED BY <1>1, <2>5, <3>3, <3>4, <3>5 DEF Collect, CtrlTypeOK
  <2> QED BY <2>1, <2>3, <2>4, <2>5 DEF CtrlClock
<1>9. ld_in_flight' \in BOOLEAN
  BY StepParts
<1> QED BY <1>5, <1>6, <1>7, <1>8, <1>9

LEMMA StepInv ==
  ASSUME PathInv, NEW flush, NEW busy, NEW deliver, NEW ld, NEW st,
         Step(flush, busy, deliver, ld, st)
  PROVE  PathInv'
<1>1. TypeOK'
  BY LsqTypeStep, SoundShimStep, OtherTypesStep DEF TypeOK
<1>2. Accounted' /\ IoAccounted' /\ OneLoad' /\ PointersAgree'
  BY AccountedStep, IoAccountedStep, OneLoadStep, LsqTypeStep
<1>3. SoundShim' /\ SoundLoads' /\ SoundSource' /\ ServesLatched' /\ SoundBus'
  BY SoundShimStep, OtherTypesStep, CtrlStep
<1> QED BY <1>1, <1>2, <1>3 DEF PathInv

LEMMA NextInv == PathInv /\ [Next]_vars => PathInv'
<1> SUFFICES ASSUME PathInv, [Next]_vars PROVE PathInv'
  OBVIOUS
<1>1. CASE Next
  <2>1. PICK flush \in BOOLEAN, busy \in BOOLEAN, deliver \in BOOLEAN :
          Run(flush, busy, deliver)
    BY <1>1 DEF Next, BusyInput, DeliverInput
  <2>2. PICK st \in StoreInput : \E ld \in LoadInput(flush, st) : Cycle(flush, busy, deliver, ld, st)
    BY <2>1 DEF Run
  <2>3. PICK ld \in LoadInput(flush, st) : Cycle(flush, busy, deliver, ld, st)
    BY <2>2
  <2>4. Step(flush, busy, deliver, ld, st)
    BY <2>3 DEF Step
  <2> QED BY <2>4, StepInv
<1>2. CASE UNCHANGED vars
  <2> USE <1>2 DEF vars, lsq_vars, io_vars, shim_vars, ctrl_vars, dram_vars, core_vars
  <2>1. TypeOK'
    BY DEF PathInv, TypeOK, LsqTypeOK, IoTypeOK, ShimTypeOK, CtrlTypeOK, DramTypeOK
  <2>2. InPath' = InPath
    BY DEF InPath, Serving_
  <2>3. Accounted' /\ IoAccounted'
    <3>1. Places("lsq")' = Places("lsq") /\ Places("io")' = Places("io")
      BY <2>2 DEF Places
    <3>2. IoAccounted'
      BY <2>2, <3>1 DEF PathInv, IoAccounted
    <3>3. pend_count' = pend_count /\ pend_valid' = pend_valid /\ pend_data' = pend_data
          /\ pend_rd_ptr' = pend_rd_ptr
      OBVIOUS
    <3>4. Accounted'
      <4>1. PICK place \in [1..pend_count -> Places("lsq")] :
              /\ \A j \in Places("lsq") : \E k \in 1..pend_count : place[k] = j
              /\ \A k \in 1..pend_count :
                   /\ \A l \in 1..(k - 1) : place[l] < place[k]
                   /\ InPath[place[k]].id = Nth(k)
                   /\ pend_data[Nth(k)] = [is_load |-> ~InPath[place[k]].wr,
                                           addr |-> InPath[place[k]].addr]
        BY ONLY PathInv DEF PathInv, Accounted
      <4>2. \A k : Nth(k)' = Nth(k)
        BY ONLY <3>3 DEF Nth
      <4>3. \A i \in PendId : pend_valid[i] <=> \E k \in 1..pend_count : i = Nth(k)
        BY ONLY PathInv DEF PathInv, Accounted
      <4>4. \A i \in PendId : pend_valid'[i] <=> \E k \in 1..pend_count' : i = Nth(k)'
        BY ONLY <3>3, <4>2, <4>3
      <4>5. /\ place \in [1..pend_count' -> Places("lsq")']
            /\ \A j \in Places("lsq")' : \E k \in 1..pend_count' : place[k] = j
        BY ONLY <3>1, <3>3, <4>1
      <4>6. \A k \in 1..pend_count' :
              /\ \A l \in 1..(k - 1) : place[l] < place[k]
              /\ InPath'[place[k]].id = Nth(k)'
              /\ pend_data'[Nth(k)'] = [is_load |-> ~InPath'[place[k]].wr,
                                        addr |-> InPath'[place[k]].addr]
        BY ONLY <2>2, <3>3, <4>1, <4>2
      <4> QED BY ONLY <4>4, <4>5, <4>6 DEF Accounted
    <3> QED BY <3>2, <3>4
  <2>4. SoundShim' /\ SoundLoads' /\ PointersAgree' /\ OneLoad'
    BY DEF PathInv, SoundShim, SoundLoads, PointersAgree, OneLoad, LoadEntry
  <2>5. SoundSource' /\ ServesLatched' /\ SoundBus'
    BY DEF PathInv, SoundSource, ServesLatched, SoundBus
  <2> QED BY <2>1, <2>3, <2>4, <2>5 DEF PathInv
<1> QED BY <1>1, <1>2

LEMMA AlwaysPathInv == Spec => []PathInv
<1>1. Init => PathInv
  BY InitInv
<1>2. PathInv /\ [Next]_vars => PathInv'
  BY NextInv
<1> QED BY <1>1, <1>2, PTL DEF Spec

\* The registers of the path keep to the values they are declared for, and
\* the request FIFO and the pending table never hold more than their depth.
THEOREM PathTypeCorrect == Spec => []TypeOK
<1>1. PathInv => TypeOK
  BY DEF PathInv
<1> QED BY <1>1, AlwaysPathInv, PTL

\* Whatever the flushes, the stalls of memory and the traffic of fetch, the
\* pending table and the path agree: each operation the load/store queue waits
\* for is in exactly one place, in order, and nothing else of its is.
THEOREM RequestsAccounted == Spec => []Accounted
<1>1. PathInv => Accounted
  BY DEF PathInv
<1> QED BY <1>1, AlwaysPathInv, PTL

\* The MMIO path waits for a response exactly when its one load is under way.
THEOREM IoRequestsAccounted == Spec => []IoAccounted
<1>1. PathInv => IoAccounted
  BY DEF PathInv
<1> QED BY <1>1, AlwaysPathInv, PTL

\* An acknowledge of the controller is for the request the shim has latched,
\* also when a flush came while the controller was serving it.
THEOREM AcksMeetRequests == Spec => []AckExpected
<1>1. PathInv => AckExpected
  BY DEF PathInv, ServesLatched, AckExpected
<1> QED BY <1>1, AlwaysPathInv, PTL

-----------------------------------------------------------------------------
(***************************************************************************)
(* The path implements a serial memory                                     *)
(***************************************************************************)
Pend(r) ==
  [client |-> r.client, wr |-> r.wr, addr |-> r.addr, data |-> r.data, status |-> "waiting"]

\* The operation in the shim, and whether there is one.
Held == shim_state \in {"ISSUE", "WAIT_ACK", "RESPOND"} \/ (shim_state = "DRAIN" /\ req_accepted_q)
HeldOp ==
  [client |-> lat.client, wr |-> lat.wr, addr |-> lat.addr,
   data |-> IF shim_state = "RESPOND" /\ ~lat.wr THEN lat_rdata ELSE lat.data,
   status |-> IF shim_state = "RESPOND" THEN "done"
              ELSE IF shim_state = "DRAIN" THEN "orphan" ELSE "waiting"]
Holds == IF Held THEN 1 ELSE 0

OpsShape ==
  /\ Ops \in Seq(Serial!Op) /\ DOMAIN Ops = 1..(Holds + Len(fifo))
  /\ Len(Ops) = Holds + Len(fifo) /\ Len(fifo) \in Nat
  /\ Held => Ops[1] = HeldOp
  /\ \A j \in 1..Len(fifo) : Ops[j + Holds] = Pend(fifo[j])

LEMMA OpsNow == PathInv => OpsShape
<1> SUFFICES ASSUME PathInv PROVE OpsShape
  OBVIOUS
<1> DEFINE first == IF Held THEN <<HeldOp>> ELSE << >>
           rest == [k \in 1..Len(fifo) |-> Pend(fifo[k])]
<1>1. shim_state \in {"IDLE", "ISSUE", "WAIT_ACK", "RESPOND", "DRAIN"}
      /\ lat_rdata \in Val \cup {None}
  BY DEF PathInv, TypeOK, ShimTypeOK
<1>2. Held => lat \in Request
  BY DEF Held, PathInv, SoundShim, SoundRequest
<1>3. Held => HeldOp \in Serial!Op
  BY <1>1, <1>2 DEF HeldOp, Request, Serial!Op
<1>4. fifo \in Seq(Request) /\ Len(fifo) \in Nat
  BY PathNow
<1>5. \A j \in 1..Len(fifo) : Pend(fifo[j]) \in Serial!Op
  <2> TAKE j \in 1..Len(fifo)
  <2>1. fifo[j] \in Request
    BY <1>4, ElementOfSeq
  <2> QED BY <2>1 DEF Pend, Request, Serial!Op
<1>6. rest \in Seq(Serial!Op) /\ Len(rest) = Len(fifo)
  <2>1. rest \in [1..Len(fifo) -> Serial!Op]
    BY <1>5
  <2> QED BY <1>4, <2>1
<1>7. first \in Seq(Serial!Op) /\ Len(first) = Holds /\ (Held => first[1] = HeldOp)
  <2>1. CASE Held
    <3>1. <<HeldOp>> \in Seq(Serial!Op) /\ Len(<<HeldOp>>) = 1 /\ <<HeldOp>>[1] = HeldOp
      BY <1>3, <2>1
    <3> QED BY <2>1, <3>1 DEF Holds
  <2>2. CASE ~Held
    BY <2>2, EmptySeq DEF Holds
  <2> QED BY <2>1, <2>2
<1>8. Ops = first \o rest
  <2>1. CASE shim_state \in {"ISSUE", "WAIT_ACK"}
    BY <2>1 DEF Ops, Held, HeldOp, Pend
  <2>2. CASE shim_state = "RESPOND"
    <3>1. CASE lat.wr
      BY <2>2, <3>1 DEF Ops, Held, HeldOp, Pend
    <3>2. CASE ~lat.wr
      BY <2>2, <3>2 DEF Ops, Held, HeldOp, Pend
    <3> QED BY <3>1, <3>2
  <2>3. CASE shim_state = "DRAIN"
    BY <2>3 DEF Ops, Held, HeldOp, Pend
  <2>4. CASE shim_state = "IDLE"
    BY <2>4 DEF Ops, Held, Pend
  <2> QED BY <1>1, <2>1, <2>2, <2>3, <2>4
<1>9. \A j \in 1..Len(fifo) : rest[j] = Pend(fifo[j])
  OBVIOUS
<1>10. Holds \in {0, 1} /\ (Held <=> Holds = 1)
  BY DEF Holds
<1> HIDE DEF first, rest
<1>11. /\ Ops \in Seq(Serial!Op) /\ Len(Ops) = Holds + Len(fifo)
       /\ \A i \in 1..(Holds + Len(fifo)) :
            Ops[i] = IF i <= Holds THEN first[i] ELSE rest[i - Holds]
  <2>1. /\ first \o rest \in Seq(Serial!Op) /\ Len(first \o rest) = Len(first) + Len(rest)
        /\ \A i \in 1..(Len(first) + Len(rest)) :
             (first \o rest)[i] = IF i <= Len(first) THEN first[i] ELSE rest[i - Len(first)]
    <3>1. first \in Seq(Serial!Op) /\ rest \in Seq(Serial!Op)
      BY <1>6, <1>7
    <3> QED BY ONLY <3>1, ConcatProperties
  <2> QED BY <1>6, <1>7, <1>8, <2>1
<1>12. Held => Ops[1] = HeldOp
  BY <1>4, <1>7, <1>10, <1>11
<1>13. ASSUME NEW j \in 1..Len(fifo)
       PROVE  Ops[j + Holds] = Pend(fifo[j])
  <2>1. j + Holds \in 1..(Holds + Len(fifo)) /\ ~(j + Holds <= Holds) /\ (j + Holds) - Holds = j
    BY <1>4, <1>10
  <2> QED BY <1>9, <1>11, <2>1
<1> QED BY <1>4, <1>11, <1>12, <1>13, LenProperties DEF OpsShape

LEMMA OpsNext == PathInv' => OpsShape'
BY OpsNow, PTL

\* A cycle that does not flush keeps the operations but for the oldest one,
\* and may add a waiting one at the end.
LEMMA OpsThen ==
  ASSUME NEW old \in Seq(Serial!Op), Ops' \in Seq(Serial!Op), NEW w \in BOOLEAN,
         Len(Ops') = Len(old) + (IF w THEN 1 ELSE 0),
         \A i \in 1..Len(old) : Ops'[i] = old[i],
         w => Ops'[Len(old) + 1].status = "waiting"
  PROVE  Serial!Then(old)
<1>1. Len(old) \in Nat /\ DOMAIN old = 1..Len(old) /\ Len(Ops') \in Nat
  BY LenProperties
<1>2. CASE w
  <2>1. Len(Ops') = Len(old) + 1 /\ Len(old) + 1 \in 1..Len(Ops')
    BY <1>1, <1>2
  <2>2. Ops'[Len(Ops')] \in Serial!Op
    BY <2>1, ElementOfSeq
  <2> QED BY <1>1, <1>2, <2>1, <2>2 DEF Serial!Then
<1>3. CASE ~w
  <2>1. Len(Ops') = Len(old)
    BY <1>1, <1>3
  <2>2. Ops' = old
    BY <2>1, SeqEqual
  <2> QED BY <2>2 DEF Serial!Then
<1> QED BY <1>2, <1>3

\* Where the operations that wait in the FIFO are after a cycle without a
\* flush that finds the shim busy.
LEMMA OpsMove ==
  ASSUME PathInv, PathInv', NEW flush, NEW busy, NEW deliver, NEW ld, NEW st,
         Step(flush, busy, deliver, ld, st), ~flush, shim_state # "IDLE"
  PROVE  /\ OpsShape /\ OpsShape' /\ Holds \in {0, 1} /\ Holds' \in {0, 1}
         /\ (Held <=> Holds = 1) /\ (Held' <=> Holds' = 1)
         /\ Len(Ops') = Holds' + Len(fifo) + (IF Pushed(flush, st) THEN 1 ELSE 0)
         /\ \A i \in 1..Len(fifo) : Ops'[i + Holds'] = Ops[i + Holds]
         /\ Pushed(flush, st) => Ops'[Len(fifo) + 1 + Holds'].status = "waiting"
<1> DEFINE m == Len(fifo) - (IF fifo_rd_en(flush) THEN 1 ELSE 0)
<1>1. ~fifo_rd_en(flush)
  BY DEF fifo_rd_en
<1>2. /\ Len(fifo) \in Nat /\ Len(fifo') = Len(fifo) + (IF Pushed(flush, st) THEN 1 ELSE 0)
      /\ \A i \in 1..Len(fifo) : fifo'[i] = fifo[i]
      /\ Pushed(flush, st) => fifo'[Len(fifo) + 1] = Down(flush, st)
  <2>1. m = Len(fifo) - (IF fifo_rd_en(flush) THEN 1 ELSE 0)
    OBVIOUS
  <2>2. Len(fifo) \in Nat
    BY PathNow
  <2>3. m = Len(fifo)
    BY <1>1, <2>2
  <2> HIDE DEF m
  <2>4. /\ Len(fifo') = m + (IF Pushed(flush, st) THEN 1 ELSE 0)
        /\ \A i \in 1..m : fifo'[i] = fifo[i]
        /\ Pushed(flush, st) => fifo'[m + 1] = Down(flush, st)
    <3>1. Len(fifo') = m + (IF Pushed(flush, st) THEN 1 ELSE 0)
      BY <2>1, FifoMoves
    <3>2. \A i \in 1..m : fifo'[i] = fifo[i]
      BY <1>1, <2>1, FifoMoves
    <3>3. Pushed(flush, st) => fifo'[m + 1] = Down(flush, st)
      BY <2>1, FifoMoves
    <3> QED BY <3>1, <3>2, <3>3
  <2> QED BY <2>2, <2>3, <2>4
<1>3. OpsShape /\ OpsShape'
  BY OpsNow, OpsNext
<1>4. /\ Holds \in {0, 1} /\ Holds' \in {0, 1}
      /\ (Held <=> Holds = 1) /\ (Held' <=> Holds' = 1)
  BY DEF Holds
<1>5. Len(Ops') = Holds' + Len(fifo')
  BY <1>3 DEF OpsShape
<1>6. ASSUME NEW i \in 1..Len(fifo)
      PROVE  Ops'[i + Holds'] = Ops[i + Holds]
  <2>1. i \in 1..Len(fifo')
    BY <1>2
  <2>2. Ops'[i + Holds'] = Pend(fifo'[i])
    BY <1>3, <2>1 DEF OpsShape, Pend
  <2>3. Ops[i + Holds] = Pend(fifo[i])
    BY <1>3 DEF OpsShape
  <2> QED BY <1>2, <2>2, <2>3
<1>7. ASSUME Pushed(flush, st)
      PROVE  Ops'[Len(fifo) + 1 + Holds'].status = "waiting"
  <2>1. Len(fifo) + 1 \in 1..Len(fifo')
    BY <1>2, <1>7
  <2>2. Ops'[(Len(fifo) + 1) + Holds'] = Pend(fifo'[Len(fifo) + 1])
    BY <1>3, <2>1 DEF OpsShape, Pend
  <2> QED BY <2>2 DEF Pend
<1>8. Len(Ops') = Holds' + Len(fifo) + (IF Pushed(flush, st) THEN 1 ELSE 0)
  BY <1>2, <1>4, <1>5
<1> QED BY <1>3, <1>4, <1>6, <1>7, <1>8

\* The shim goes on with what it holds, or with nothing.
LEMMA OpsKept ==
  ASSUME PathInv, PathInv', NEW flush, NEW busy, NEW deliver, NEW ld, NEW st,
         Step(flush, busy, deliver, ld, st), ~flush, shim_state # "IDLE",
         Held' <=> Held, Held => HeldOp' = HeldOp
  PROVE  Serial!Then(Ops)
<1>1. /\ OpsShape /\ OpsShape' /\ Holds \in {0, 1} /\ Holds' = Holds
      /\ (Held <=> Holds = 1)
      /\ Len(Ops') = Holds + Len(fifo) + (IF Pushed(flush, st) THEN 1 ELSE 0)
      /\ \A i \in 1..Len(fifo) : Ops'[i + Holds] = Ops[i + Holds]
      /\ Pushed(flush, st) => Ops'[Len(fifo) + 1 + Holds].status = "waiting"
  BY OpsMove
<1>2. /\ Ops \in Seq(Serial!Op) /\ Ops' \in Seq(Serial!Op) /\ Len(fifo) \in Nat
      /\ Len(Ops) = Holds + Len(fifo)
      /\ Held => Ops[1] = HeldOp /\ Ops'[1] = HeldOp
  BY <1>1 DEF OpsShape
<1>3. ASSUME NEW j \in 1..Len(Ops)
      PROVE  Ops'[j] = Ops[j]
  <2>1. CASE j = 1 /\ Holds = 1
    BY <1>1, <1>2, <2>1
  <2>2. CASE ~(j = 1 /\ Holds = 1)
    <3>1. j - Holds \in 1..Len(fifo) /\ (j - Holds) + Holds = j
      BY <1>1, <1>2, <2>2
    <3> QED BY <1>1, <3>1
  <2> QED BY <2>1, <2>2
<1>4. Len(Ops') = Len(Ops) + (IF Pushed(flush, st) THEN 1 ELSE 0)
  BY <1>1, <1>2
<1>5. Pushed(flush, st) => Ops'[Len(Ops) + 1].status = "waiting"
  <2>1. Len(fifo) + 1 + Holds = Len(Ops) + 1
    BY <1>1, <1>2
  <2> QED BY <1>1, <2>1
<1>6. Pushed(flush, st) \in BOOLEAN
  BY DEF Pushed, req_ready
<1> QED BY <1>2, <1>3, <1>4, <1>5, <1>6, OpsThen

\* What the shim held has gone.
LEMMA OpsDropped ==
  ASSUME PathInv, PathInv', NEW flush, NEW busy, NEW deliver, NEW ld, NEW st,
         Step(flush, busy, deliver, ld, st), ~flush, shim_state # "IDLE",
         Held, ~Held'
  PROVE  Serial!Then(Tail(Ops))
<1>1. /\ OpsShape /\ OpsShape' /\ Holds = 1 /\ Holds' = 0
      /\ Len(Ops') = Holds' + Len(fifo) + (IF Pushed(flush, st) THEN 1 ELSE 0)
      /\ \A i \in 1..Len(fifo) : Ops'[i + Holds'] = Ops[i + Holds]
      /\ Pushed(flush, st) => Ops'[Len(fifo) + 1 + Holds'].status = "waiting"
  BY OpsMove
<1>2. /\ Ops \in Seq(Serial!Op) /\ Ops' \in Seq(Serial!Op) /\ Len(fifo) \in Nat
      /\ Len(Ops) = 1 + Len(fifo)
  BY <1>1 DEF OpsShape
<1>3. /\ Tail(Ops) \in Seq(Serial!Op) /\ Len(Tail(Ops)) = Len(fifo)
      /\ \A i \in 1..Len(fifo) : Tail(Ops)[i] = Ops[i + 1]
  <2>1. Ops # << >>
    BY <1>2, EmptySeq
  <2> QED BY <1>2, <2>1, HeadTailProperties
<1>4. ASSUME NEW j \in 1..Len(fifo)
      PROVE  Ops'[j] = Tail(Ops)[j]
  <2>1. j + Holds' = j /\ j + Holds = j + 1
    BY <1>1, <1>2
  <2> QED BY <1>1, <1>3, <2>1
<1>5. Len(Ops') = Len(Tail(Ops)) + (IF Pushed(flush, st) THEN 1 ELSE 0)
  BY <1>1, <1>2, <1>3
<1>6. Pushed(flush, st) => Ops'[Len(Tail(Ops)) + 1].status = "waiting"
  <2>1. Len(fifo) + 1 + Holds' = Len(fifo) + 1
    BY <1>1, <1>2
  <2> QED BY <1>1, <1>3, <2>1
<1>7. Pushed(flush, st) \in BOOLEAN
  BY DEF Pushed, req_ready
<1>8. \A j \in 1..Len(Tail(Ops)) : Ops'[j] = Tail(Ops)[j]
  BY <1>3, <1>4
<1> HIDE DEF Holds
<1> QED BY <1>2, <1>3, <1>5, <1>6, <1>7, <1>8, OpsThen

\* What the shim holds has taken effect.
LEMMA OpsReplaced ==
  ASSUME PathInv, PathInv', NEW flush, NEW busy, NEW deliver, NEW ld, NEW st,
         Step(flush, busy, deliver, ld, st), ~flush, shim_state # "IDLE",
         Held, Held', NEW op \in Serial!Op, HeldOp' = op
  PROVE  Serial!Then(<<op>> \o Tail(Ops))
<1>1. /\ OpsShape /\ OpsShape' /\ Holds = 1 /\ Holds' = 1
      /\ Len(Ops') = Holds' + Len(fifo) + (IF Pushed(flush, st) THEN 1 ELSE 0)
      /\ \A i \in 1..Len(fifo) : Ops'[i + Holds'] = Ops[i + Holds]
      /\ Pushed(flush, st) => Ops'[Len(fifo) + 1 + Holds'].status = "waiting"
  BY OpsMove
<1>2. /\ Ops \in Seq(Serial!Op) /\ Ops' \in Seq(Serial!Op) /\ Len(fifo) \in Nat
      /\ Len(Ops) = 1 + Len(fifo) /\ Ops'[1] = op
  BY <1>1 DEF OpsShape
<1>3. /\ Tail(Ops) \in Seq(Serial!Op) /\ Len(Tail(Ops)) = Len(fifo)
      /\ \A i \in 1..Len(fifo) : Tail(Ops)[i] = Ops[i + 1]
  <2>1. Ops # << >>
    BY <1>2, EmptySeq
  <2> QED BY <1>2, <2>1, HeadTailProperties
<1> DEFINE old == <<op>> \o Tail(Ops)
<1>4. /\ old \in Seq(Serial!Op) /\ Len(old) = 1 + Len(fifo) /\ old[1] = op
      /\ \A i \in 1..Len(fifo) : old[i + 1] = Tail(Ops)[i]
  <2>1. <<op>> \in Seq(Serial!Op) /\ Len(<<op>>) = 1 /\ <<op>>[1] = op
    OBVIOUS
  <2>2. /\ old \in Seq(Serial!Op) /\ Len(old) = 1 + Len(fifo)
        /\ \A i \in 1..(1 + Len(fifo)) : old[i] = IF i <= 1 THEN <<op>>[i] ELSE Tail(Ops)[i - 1]
    BY <1>3, <2>1, ConcatProperties
  <2> HIDE DEF old
  <2>3. ASSUME NEW i \in 1..Len(fifo)
        PROVE  old[i + 1] = Tail(Ops)[i]
    <3>1. i + 1 \in 1..(1 + Len(fifo)) /\ ~(i + 1 <= 1) /\ (i + 1) - 1 = i
      BY <1>2
    <3> QED BY <2>2, <3>1
  <2>4. 1 \in 1..(1 + Len(fifo)) /\ 1 <= 1
    BY <1>2
  <2>5. old[1] = op
    BY <2>1, <2>2, <2>4
  <2> QED BY <2>2, <2>3, <2>5
<1> HIDE DEF old
<1>5. ASSUME NEW j \in 1..Len(old)
      PROVE  Ops'[j] = old[j]
  <2>1. CASE j = 1
    BY <1>2, <1>4, <2>1
  <2>2. CASE j # 1
    <3>1. j - 1 \in 1..Len(fifo) /\ (j - 1) + 1 = j
      BY <1>2, <1>4, <2>2
    <3>2. old[j] = Ops[(j - 1) + 1]
      BY <1>3, <1>4, <3>1
    <3>3. Ops'[(j - 1) + 1] = Ops[(j - 1) + 1]
      BY <1>1, <3>1
    <3> QED BY <3>1, <3>2, <3>3
  <2> QED BY <2>1, <2>2
<1>6. Len(Ops') = Len(old) + (IF Pushed(flush, st) THEN 1 ELSE 0)
  BY <1>1, <1>2, <1>4
<1>7. Pushed(flush, st) => Ops'[Len(old) + 1].status = "waiting"
  <2>1. Len(fifo) + 1 + Holds' = Len(old) + 1
    BY <1>1, <1>2, <1>4
  <2> QED BY <1>1, <2>1
<1>8. Pushed(flush, st) \in BOOLEAN
  BY DEF Pushed, req_ready
<1>9. Serial!Then(old)
  BY <1>2, <1>4, <1>5, <1>6, <1>7, <1>8, OpsThen
<1> QED BY <1>9 DEF old

\* The idle shim takes the oldest operation out of the FIFO.
LEMMA OpsTaken ==
  ASSUME PathInv, PathInv', NEW flush, NEW busy, NEW deliver, NEW ld, NEW st,
         Step(flush, busy, deliver, ld, st), ~flush, shim_state = "IDLE"
  PROVE  Serial!Then(Ops)
<1> DEFINE rd == fifo_rd_en(flush)
           m == Len(fifo) - (IF rd THEN 1 ELSE 0)
<1>1. m = Len(fifo) - (IF fifo_rd_en(flush) THEN 1 ELSE 0)
  OBVIOUS
<1> HIDE DEF m
<1>2. /\ m \in Nat /\ m <= Len(fifo)
      /\ Len(fifo') = m + (IF Pushed(flush, st) THEN 1 ELSE 0)
      /\ rd => \A i \in 1..m : fifo'[i] = fifo[i + 1]
      /\ Pushed(flush, st) => fifo'[m + 1] = Down(flush, st)
      /\ rd => Len(fifo) >= 1 /\ lat' = fifo[1]
      /\ ~rd => Len(fifo) = 0
  BY <1>1, FifoMoves
<1>3. shim_state' = IF rd THEN "ISSUE" ELSE "IDLE"
  <2>1. shim_state' = shim_next(flush, data_ack, Taken(flush))
    BY StepParts DEF ShimClock
  <2> QED BY <2>1 DEF shim_next
<1>4. /\ Ops \in Seq(Serial!Op) /\ Ops' \in Seq(Serial!Op) /\ Len(fifo) \in Nat
      /\ Len(Ops) = Len(fifo) /\ \A j \in 1..Len(fifo) : Ops[j + 0] = Pend(fifo[j])
      /\ Len(Ops') = Holds' + Len(fifo')
      /\ \A j \in 1..Len(fifo') : Ops'[j + Holds'] = Pend(fifo'[j])
      /\ Held' => Ops'[1] = HeldOp'
  <2>1. OpsShape /\ OpsShape' /\ Holds = 0
    BY OpsNow, OpsNext DEF Holds, Held
  <2> QED BY <2>1 DEF OpsShape, Pend
<1>5. Holds' = (IF rd THEN 1 ELSE 0) /\ (rd => Held')
  BY <1>3 DEF Holds, Held
<1>6. Len(Ops') = Len(Ops) + (IF Pushed(flush, st) THEN 1 ELSE 0)
  BY <1>1, <1>2, <1>4, <1>5
<1>7. Pushed(flush, st) => Ops'[Len(Ops) + 1].status = "waiting"
  <2> SUFFICES ASSUME Pushed(flush, st) PROVE Ops'[Len(Ops) + 1].status = "waiting"
    OBVIOUS
  <2>1. m + 1 \in 1..Len(fifo') /\ (m + 1) + Holds' = Len(Ops) + 1
    BY <1>1, <1>2, <1>4, <1>5
  <2>2. Ops'[(m + 1) + Holds'] = Pend(fifo'[m + 1])
    BY <1>4, <2>1
  <2> QED BY <2>1, <2>2 DEF Pend
<1>8. ASSUME NEW j \in 1..Len(Ops)
      PROVE  Ops'[j] = Ops[j]
  <2>1. rd /\ m = Len(fifo) - 1 /\ Holds' = 1
    BY <1>1, <1>2, <1>4, <1>5, <1>8
  <2>2. Ops[j] = Pend(fifo[j])
    <3>1. j + 0 = j /\ j \in 1..Len(fifo)
      BY <1>4
    <3> QED BY <1>4, <3>1
  <2>3. CASE j = 1
    <3>1. Ops'[1] = HeldOp'
      BY <1>4, <1>5, <2>1
    <3>2. HeldOp' = Pend(lat')
      BY <1>3, <2>1 DEF HeldOp, Pend
    <3> QED BY <1>2, <2>1, <2>2, <2>3, <3>1, <3>2
  <2>4. CASE j # 1
    <3>1. /\ j - 1 \in 1..m /\ j - 1 \in 1..Len(fifo') /\ (j - 1) + 1 = j
      BY <1>2, <1>4, <2>1, <2>4
    <3>2. Ops'[(j - 1) + Holds'] = Pend(fifo'[j - 1])
      BY <1>4, <3>1
    <3>3. fifo'[j - 1] = fifo[(j - 1) + 1]
      BY <1>2, <2>1, <3>1
    <3> QED BY <2>1, <2>2, <3>1, <3>2, <3>3
  <2> QED BY <2>3, <2>4
<1>9. Pushed(flush, st) \in BOOLEAN
  BY DEF Pushed, req_ready
<1> QED BY <1>4, <1>6, <1>7, <1>8, <1>9, OpsThen

\* A reply is given when the shim is in S_RESPOND, and it is the reply to what
\* the shim holds.
LEMMA Replies ==
  ASSUME PathInv, NEW flush, NEW busy, NEW deliver, NEW ld, NEW st,
         Step(flush, busy, deliver, ld, st)
  PROVE  /\ flush \/ shim_state # "RESPOND" => Reply' = None
         /\ ~flush /\ shim_state = "RESPOND" =>
              /\ Popped(flush)
              /\ Reply' = IF lat.wr
                          THEN [client |-> lat.client, wr |-> TRUE, addr |-> None, data |-> None]
                          ELSE [client |-> lat.client, wr |-> FALSE, addr |-> lat.addr,
                                data |-> lat_rdata]
<1>1. /\ io_state' = io_next(flush, ld.mmio, Grant1(flush), Rsp1(flush))
      /\ io_addr' = IF ld.mmio # None THEN ld.mmio ELSE io_addr
      /\ io_rdata' = IF io_state = "WAIT" /\ Rsp1(flush) # None THEN Rsp1(flush).rdata ELSE io_rdata
  BY StepParts DEF IoClock
<1>2. io_state' = "CDB" <=> io_state = "WAIT" /\ Rsp1(flush) # None /\ ~flush
  <2>1. io_state \in {"IDLE", "ISSUE", "WAIT", "CDB", "DRAIN"}
    BY DEF PathInv, TypeOK, IoTypeOK
  <2> QED BY <1>1, <2>1 DEF io_next
<1>3. flush \/ shim_state # "RESPOND" => io_state' # "CDB"
  BY <1>2, Responses
<1>4. CASE flush
  <2>1. be_resp' = None /\ store_drain_ack' = FALSE
    BY <1>4, StepParts DEF LsqClock, Forget
  <2> QED BY <1>3, <1>4, <2>1 DEF Reply
<1>5. CASE ~flush /\ shim_state # "RESPOND"
  <2>1. be_resp' = None /\ ~store_drain_ack'
    <3>1. ~Answered
      BY <1>5 DEF Answered
    <3>2. be_resp' = (IF Answered /\ ~lat.wr THEN lat_rdata ELSE None)
      BY <1>5, LoadMoves
    <3>3. store_drain_ack' = (Answered /\ lat.wr)
      BY <1>5, LoadMoves
    <3> QED BY <3>1, <3>2, <3>3
  <2> QED BY <1>3, <1>5, <2>1 DEF Reply
<1>6. CASE ~flush /\ shim_state = "RESPOND"
  <2>1. /\ lat \in Request /\ (lat.wr => lat.client = "lsq") /\ (~lat.wr => lat_rdata \in Val)
        /\ InPath[1] = lat /\ 1 \in DOMAIN InPath
    <3>1. lat \in Request /\ (lat.wr => lat.client = "lsq") /\ (~lat.wr => lat_rdata \in Val)
      BY <1>6 DEF PathInv, SoundShim, SoundRequest
    <3>2. InPath[1] = lat /\ DOMAIN InPath = 1..(1 + Len(fifo)) /\ Len(fifo) \in Nat
      BY <1>6, PathNow DEF Served
    <3> QED BY <3>1, <3>2
  <2>2. CASE lat.client = "lsq"
    <3>1. /\ Answered /\ Popped(flush)
          /\ be_resp' = IF ~lat.wr THEN lat_rdata ELSE None
          /\ store_drain_ack' = (lat.wr)
      <4>1. Answered
        BY <1>6, <2>2 DEF Answered
      <4>2. Popped(flush)
        BY <1>6, <4>1, TableMoves
      <4>3. be_resp' = (IF Answered /\ ~lat.wr THEN lat_rdata ELSE None)
        BY <1>6, LoadMoves
      <4>4. store_drain_ack' = (Answered /\ lat.wr)
        BY <1>6, LoadMoves
      <4>5. lat.wr \in BOOLEAN
        BY <2>1 DEF Request
      <4> QED BY <4>1, <4>2, <4>3, <4>4, <4>5
    <3>4. io_state' # "CDB"
      BY <1>2, <2>2, Responses
    <3>2. CASE lat.wr
      <4>1. be_resp' = None /\ store_drain_ack'
        BY <3>1, <3>2
      <4>2. Reply' = [client |-> "lsq", wr |-> TRUE, addr |-> None, data |-> None]
        BY <3>4, <4>1 DEF Reply
      <4> QED BY <1>6, <2>2, <3>1, <3>2, <4>2
    <3>3. CASE ~lat.wr
      <4>1. be_resp' = lat_rdata /\ be_resp' # None /\ ~store_drain_ack'
        BY <2>1, <3>1, <3>3, MemNoneAssumption
      <4>2. ld_wait_addr' = lat.addr
        <5>1. /\ pend_valid[pend_rd_ptr]
              /\ pend_data[pend_rd_ptr] = [is_load |-> ~lat.wr, addr |-> lat.addr]
          BY <1>6, <2>2, OldestAnswered
        <5>2. pend_data[pend_rd_ptr].is_load = ~lat.wr /\ pend_data[pend_rd_ptr].addr = lat.addr
          BY <5>1
        <5>3. LoadEntry(pend_rd_ptr) /\ pend_rd_ptr \in PendId
          BY <3>3, <5>1, <5>2 DEF LoadEntry, PathInv, TypeOK, LsqTypeOK
        <5>4. ld_state = "WAIT" /\ ld_wait_addr = lat.addr
          BY <5>2, <5>3 DEF PathInv, OneLoad
        <5>5. ld_wait_addr' = IF ld_state = "IDLE" /\ ld_pipe # None THEN ld_pipe ELSE ld_wait_addr
          BY <1>6, LoadMoves
        <5> QED BY <5>4, <5>5
      <4>3. Reply' = [client |-> "lsq", wr |-> FALSE, addr |-> lat.addr, data |-> lat_rdata]
        BY <3>4, <4>1, <4>2 DEF Reply
      <4> QED BY <1>6, <2>2, <3>1, <3>3, <4>3
    <3> QED BY <3>2, <3>3
  <2>3. CASE lat.client = "io"
    <3>1. 1 \in Places("io")
      BY <2>1, <2>3 DEF Places
    <3>2. io_state = "WAIT" /\ io_addr = lat.addr
      <4>1. io_state = "WAIT"
        BY <3>1 DEF PathInv, IoAccounted
      <4>2. PICK j \in DOMAIN InPath : Places("io") = {j} /\ InPath[j].addr = io_addr
        BY <4>1 DEF PathInv, IoAccounted
      <4> QED BY <2>1, <3>1, <4>1, <4>2
    <3>3. Rsp1(flush) # None /\ Rsp1(flush).rdata = lat_rdata /\ Popped(flush)
      BY <1>6, <2>3, <3>2, Responses DEF io_rsp_ready
    <3>4. ld.mmio = None
      BY <3>2 DEF Step, LoadInput, io_ld_ready
    <3>5. io_state' = "CDB" /\ io_addr' = lat.addr /\ io_rdata' = lat_rdata
      BY <1>1, <1>2, <1>6, <3>2, <3>3, <3>4
    <3>6. be_resp' = None /\ ~store_drain_ack'
      <4>1. ~Answered
        BY <2>3 DEF Answered
      <4>2. be_resp' = (IF Answered /\ ~lat.wr THEN lat_rdata ELSE None)
        BY <1>6, LoadMoves
      <4>3. store_drain_ack' = (Answered /\ lat.wr)
        BY <1>6, LoadMoves
      <4> QED BY <4>1, <4>2, <4>3
    <3>7. ~lat.wr
      BY <2>1, <2>3
    <3> QED BY <1>6, <2>3, <3>3, <3>5, <3>6, <3>7 DEF Reply
  <2> QED BY <2>1, <2>2, <2>3 DEF Request
<1> QED BY <1>4, <1>5, <1>6

\* Memory changes when the controller acknowledges, as what the shim holds asks.
LEMMA Effects ==
  ASSUME PathInv, NEW flush, NEW busy, NEW deliver, NEW ld, NEW st,
         Step(flush, busy, deliver, ld, st)
  PROVE  /\ ~data_ack => mem' = mem
         /\ data_ack => /\ shim_state \in {"WAIT_ACK", "DRAIN"} /\ Held
                        /\ mem' = Serial!Effect(HeldOp)
                        /\ ~lat.wr => data_rdata = mem[lat.addr]
<1>1. mem' = Written(ddram_we, ddram_addr, ddram_din, ddram_be)
  <2>1. DramClock(deliver, ddram_rd, ddram_we, ddram_addr, ddram_din, ddram_be)
    BY StepParts
  <2> QED BY <2>1 DEF DramClock
<1>2. CASE ~data_ack
  BY <1>1, <1>2 DEF PathInv, SoundBus, Written
<1>3. CASE data_ack
  <2>1. /\ shim_state \in {"WAIT_ACK", "DRAIN"} /\ req_accepted_q
        /\ arb.addr = lat.addr /\ arb.wr = lat.wr /\ arb.wdata = lat.data
    BY <1>3 DEF PathInv, ServesLatched
  <2>2. /\ ddram_we <=> lat.wr
        /\ ddram_we => ddram_addr = lat.addr /\ ddram_din = lat.data /\ ddram_be = "word"
        /\ ~lat.wr => data_rdata = mem[lat.addr]
    BY <1>3, <2>1 DEF PathInv, SoundBus
  <2>3. mem' = IF lat.wr THEN [mem EXCEPT ![lat.addr] = lat.data] ELSE mem
    BY <1>1, <2>2 DEF Written
  <2>4. HeldOp.wr = lat.wr /\ HeldOp.addr = lat.addr /\ HeldOp.data = lat.data
    BY <2>1 DEF HeldOp
  <2>5. mem' = Serial!Effect(HeldOp)
    <3>1. CASE lat.wr
      BY <2>3, <2>4, <3>1 DEF Serial!Effect
    <3>2. CASE ~lat.wr
      BY <2>3, <2>4, <3>2 DEF Serial!Effect
    <3> QED BY <3>1, <3>2
  <2> QED BY <1>3, <2>1, <2>2, <2>5 DEF Held
<1> QED BY <1>2, <1>3

\* The oldest operation is the one the shim holds.
LEMMA OldestHeld ==
  ASSUME PathInv, Held
  PROVE  /\ Ops # << >> /\ Head(Ops) = HeldOp /\ Ops \in Seq(Serial!Op)
         /\ HeldOp \in Serial!Op
<1>1. /\ Ops \in Seq(Serial!Op) /\ Len(Ops) = 1 + Len(fifo) /\ Len(fifo) \in Nat
      /\ Ops[1] = HeldOp
  BY OpsNow DEF OpsShape, Holds
<1>2. Ops # << >> /\ 1 \in 1..Len(Ops)
  BY <1>1, EmptySeq
<1>3. Head(Ops) = Ops[1]
  BY <1>1, <1>2
<1> QED BY <1>1, <1>2, <1>3, ElementOfSeq

\* A step of the path is a step of the serial memory.
LEMMA SerialStep ==
  ASSUME PathInv, PathInv', NEW flush, NEW busy, NEW deliver, NEW ld, NEW st,
         Step(flush, busy, deliver, ld, st)
  PROVE  Serial!Next
<1>1. /\ shim_state' = shim_next(flush, data_ack, Taken(flush))
      /\ lat' = IF fifo_rd_en(flush) THEN Head(fifo) ELSE lat
      /\ lat_rdata' = IF shim_state = "WAIT_ACK" /\ data_ack THEN data_rdata ELSE lat_rdata
      /\ req_accepted_q' =
           (shim_state # "IDLE" /\ (data_gnt(DataReq, None, busy) \/ req_accepted_q))
  <2>1. ShimClock(flush, Down(flush, st), data_gnt(DataReq, None, busy), data_ack,
                  data_rdata, Taken(flush))
    BY StepParts
  <2> QED BY <2>1 DEF ShimClock
<1>2. shim_state # "IDLE" => lat' = lat
  BY <1>1 DEF fifo_rd_en
<1>3. /\ shim_state \in {"IDLE", "ISSUE", "WAIT_ACK", "RESPOND", "DRAIN"}
      /\ data_ack \in BOOLEAN /\ flush \in BOOLEAN
      /\ data_ack => shim_state \in {"WAIT_ACK", "DRAIN"} /\ req_accepted_q
  BY DEF PathInv, TypeOK, ShimTypeOK, CtrlTypeOK, Step, ServesLatched
<1>4. CASE ~flush /\ ~data_ack /\ shim_state # "RESPOND"
  <2>1. mem' = mem /\ Reply' = None
    BY <1>4, Effects, Replies
  <2>2. Serial!Then(Ops)
    <3>1. CASE shim_state = "IDLE"
      BY <1>4, <3>1, OpsTaken
    <3>2. CASE shim_state # "IDLE"
      <4>1. Held' <=> Held
        BY <1>1, <1>3, <1>4, <3>2 DEF Held, shim_next
      <4>2. Held => HeldOp' = HeldOp
        BY <1>1, <1>2, <1>3, <1>4, <3>2 DEF Held, HeldOp, shim_next
      <4> QED BY <1>4, <3>2, <4>1, <4>2, OpsKept
    <3> QED BY <3>1, <3>2
  <2> QED BY <2>1, <2>2 DEF Serial!Next, Serial!Issue
<1>5. CASE ~flush /\ data_ack
  <2>1. /\ Held /\ mem' = Serial!Effect(HeldOp) /\ Reply' = None
        /\ shim_state \in {"WAIT_ACK", "DRAIN"}
        /\ ~lat.wr => data_rdata = mem[lat.addr]
    BY <1>5, Effects, Replies
  <2>2. /\ Ops # << >> /\ Head(Ops) = HeldOp /\ Ops \in Seq(Serial!Op) /\ HeldOp \in Serial!Op
    BY <2>1, OldestHeld
  <2>3. Tail(Ops) \in Seq(Serial!Op)
    BY <2>2, HeadTailProperties
  <2>4. CASE shim_state = "WAIT_ACK"
    <3>1. HeldOp.status = "waiting"
      BY <2>4 DEF HeldOp
    <3>2. shim_state' = "RESPOND" /\ lat' = lat /\ lat_rdata' = data_rdata
      BY <1>1, <1>2, <1>5, <2>4 DEF shim_next
    <3>3. HeldOp' = Serial!Done(HeldOp) /\ Held'
      <4>1. lat.wr \in BOOLEAN
        BY <2>2 DEF HeldOp, Serial!Op
      <4>2. HeldOp' = [client |-> lat.client, wr |-> lat.wr, addr |-> lat.addr,
                       data |-> IF ~lat.wr THEN data_rdata ELSE lat.data, status |-> "done"]
        BY <3>2 DEF HeldOp
      <4>3. Serial!Done(HeldOp) =
              [client |-> lat.client, wr |-> lat.wr, addr |-> lat.addr,
               data |-> IF lat.wr THEN lat.data ELSE mem[lat.addr], status |-> "done"]
        BY <2>4 DEF HeldOp, Serial!Done
      <4>4. CASE lat.wr
        BY <3>2, <4>2, <4>3, <4>4 DEF Held
      <4>5. CASE ~lat.wr
        BY <2>1, <3>2, <4>2, <4>3, <4>5 DEF Held
      <4> QED BY <4>4, <4>5
    <3>4. Serial!Done(HeldOp) \in Serial!Op
      <4>1. OpsShape' /\ Held'
        BY <3>3, OpsNext
      <4>2. Ops' \in Seq(Serial!Op) /\ Ops'[1] = HeldOp' /\ 1 \in 1..Len(Ops')
        BY <4>1 DEF OpsShape, Holds
      <4>3. Ops'[1] \in Serial!Op
        BY <4>2, ElementOfSeq
      <4> QED BY <3>3, <4>2, <4>3
    <3> DEFINE op == Serial!Done(HeldOp)
    <3>5. op \in Serial!Op /\ HeldOp' = op /\ Held'
      BY <3>3, <3>4
    <3> HIDE DEF op
    <3>6. Serial!Then(<<op>> \o Tail(Ops))
      BY <1>5, <2>1, <2>4, <3>5, OpsReplaced
    <3>7. Serial!Then(<<Serial!Done(Head(Ops))>> \o Tail(Ops))
      BY <2>2, <3>6 DEF op
    <3> QED BY <2>1, <2>2, <3>1, <3>7 DEF Serial!Next, Serial!TakeEffect, Serial!Pending
  <2>5. CASE shim_state = "DRAIN"
    <3>1. HeldOp.status = "orphan"
      BY <2>5 DEF HeldOp
    <3>2. ~Held'
      BY <1>1, <1>5, <2>5 DEF shim_next, Held
    <3>3. Serial!Then(Tail(Ops))
      BY <1>5, <2>1, <2>5, <3>2, OpsDropped
    <3>4. << >> \o Tail(Ops) = Tail(Ops)
      BY <2>3, ConcatEmptySeq
    <3> QED BY <2>1, <2>2, <3>1, <3>3, <3>4 DEF Serial!Next, Serial!TakeEffect, Serial!Pending
  <2> QED BY <2>1, <2>4, <2>5
<1>6. CASE ~flush /\ ~data_ack /\ shim_state = "RESPOND"
  <2>1. /\ mem' = mem /\ Popped(flush)
        /\ Reply' = IF lat.wr
                    THEN [client |-> lat.client, wr |-> TRUE, addr |-> None, data |-> None]
                    ELSE [client |-> lat.client, wr |-> FALSE, addr |-> lat.addr,
                          data |-> lat_rdata]
    BY <1>6, Effects, Replies
  <2>2. Held /\ ~Held'
    BY <1>1, <1>6, <2>1 DEF Held, shim_next, Popped
  <2>3. /\ Ops # << >> /\ Head(Ops) = HeldOp
    BY <2>2, OldestHeld
  <2>4. /\ HeldOp.status = "done" /\ HeldOp.client = lat.client /\ HeldOp.wr = lat.wr
        /\ HeldOp.addr = lat.addr /\ (~lat.wr => HeldOp.data = lat_rdata)
    BY <1>6 DEF HeldOp
  <2>5. Serial!Then(Tail(Ops))
    BY <1>6, <2>2, OpsDropped
  <2>6. Reply' = IF Head(Ops).wr
                 THEN [client |-> Head(Ops).client, wr |-> TRUE, addr |-> None, data |-> None]
                 ELSE [client |-> Head(Ops).client, wr |-> FALSE, addr |-> Head(Ops).addr,
                       data |-> Head(Ops).data]
    <3>1. CASE lat.wr
      BY <2>1, <2>3, <2>4, <3>1
    <3>2. CASE ~lat.wr
      BY <2>1, <2>3, <2>4, <3>2
    <3> QED BY <3>1, <3>2
  <2> QED BY <2>1, <2>3, <2>4, <2>5, <2>6 DEF Serial!Next, Serial!Answer
<1>7. CASE flush
  <2>1. Reply' = None
    BY <1>7, Replies
  <2>2. fifo' = << >>
    BY <1>7, FlushEmpties
  <2>3. OpsShape' /\ Len(fifo') = 0
    BY <2>2, OpsNext, EmptySeq
  <2>4. shim_state' \in {"IDLE", "DRAIN"}
    BY <1>1, <1>3, <1>7 DEF shim_next, fifo_rd_en
  <2>5. CASE ~Held'
    <3>1. Ops' \in Seq(Serial!Op) /\ Len(Ops') = 0
      BY <2>3, <2>5 DEF OpsShape, Holds
    <3>2. Ops' = << >>
      BY <3>1, EmptySeq
    <3>3. CASE ~data_ack
      BY <2>1, <3>2, <3>3, Effects DEF Serial!Next, Serial!Flush
    <3>4. CASE data_ack
      <4>1. Held /\ mem' = Serial!Effect(HeldOp) /\ shim_state \in {"WAIT_ACK", "DRAIN"}
        BY <3>4, Effects
      <4>2. Ops # << >> /\ Head(Ops) = HeldOp
        BY <4>1, OldestHeld
      <4>3. HeldOp.status # "done"
        BY <4>1 DEF HeldOp
      <4> QED BY <2>1, <3>2, <4>1, <4>2, <4>3 DEF Serial!Next, Serial!Flush, Serial!Pending
    <3> QED BY <1>3, <3>3, <3>4
  <2>6. CASE Held'
    <3>1. shim_state' = "DRAIN"
      BY <2>4, <2>6 DEF Held
    <3>2. /\ shim_state \in {"ISSUE", "WAIT_ACK"} \/ (shim_state = "DRAIN" /\ req_accepted_q)
          /\ ~data_ack /\ lat' = lat
      BY <1>1, <1>2, <1>3, <1>7, <3>1 DEF shim_next, fifo_rd_en
    <3>3. Held /\ mem' = mem
      BY <3>2, Effects DEF Held
    <3>4. Ops # << >> /\ Head(Ops) = HeldOp /\ HeldOp.status # "done"
      BY <3>2, <3>3, OldestHeld DEF HeldOp
    <3>5. HeldOp' = [HeldOp EXCEPT !.status = "orphan"]
      BY <3>1, <3>2 DEF HeldOp
    <3>6. Ops' = <<HeldOp'>>
      <4>1. Ops' \in Seq(Serial!Op) /\ Len(Ops') = 1 /\ Ops'[1] = HeldOp'
        BY <2>3, <2>6 DEF OpsShape, Holds
      <4>2. HeldOp' \in Serial!Op
        <5>1. 1 \in 1..Len(Ops')
          BY <4>1
        <5> QED BY <4>1, <5>1, ElementOfSeq
      <4>3. <<HeldOp'>> \in Seq(Serial!Op) /\ Len(<<HeldOp'>>) = 1 /\ <<HeldOp'>>[1] = HeldOp'
        BY <4>2
      <4> QED BY <4>1, <4>3, SeqEqual
    <3> QED BY <2>1, <3>3, <3>4, <3>5, <3>6 DEF Serial!Next, Serial!Flush, Serial!Pending
  <2> QED BY <2>5, <2>6
<1> QED BY <1>3, <1>4, <1>5, <1>6, <1>7

\* The memory path is a serial memory: its operations take effect one at a
\* time in the order in which they were issued, and each is answered with what
\* memory held at its turn.  A flush cancels them, but for the one the
\* controller has accepted, which takes effect unheard.
THEOREM PathIsSerialMemory == Spec => SerialMemorySpec
<1>1. Init => Serial!Init
  <2> SUFFICES ASSUME Init PROVE Serial!Init
    OBVIOUS
  <2>1. PathInv
    BY InitInv
  <2>2. Len(Ops) = 0 /\ Ops \in Seq(Serial!Op)
    <3>1. fifo = << >> /\ ~Held
      BY DEF Init, ShimInit, Held
    <3>2. Len(fifo) = 0
      BY <3>1, EmptySeq
    <3> QED BY <2>1, <3>1, <3>2, OpsNow DEF OpsShape, Holds
  <2>3. Ops = << >>
    BY <2>2, EmptySeq
  <2>4. Reply = None
    BY DEF Init, LsqInit, IoInit, Reply
  <2> QED BY <2>3, <2>4 DEF Init, DramInit, Serial!Init
<1>2. PathInv /\ PathInv' /\ [Next]_vars => [Serial!Next]_(Serial!vars)
  <2> SUFFICES ASSUME PathInv, PathInv', [Next]_vars PROVE [Serial!Next]_(Serial!vars)
    OBVIOUS
  <2>1. CASE Next
    <3>1. PICK flush \in BOOLEAN, busy \in BOOLEAN, deliver \in BOOLEAN :
            Run(flush, busy, deliver)
      BY <2>1 DEF Next, BusyInput, DeliverInput
    <3>2. PICK st \in StoreInput : \E ld \in LoadInput(flush, st) : Cycle(flush, busy, deliver, ld, st)
      BY <3>1 DEF Run
    <3>3. PICK ld \in LoadInput(flush, st) : Cycle(flush, busy, deliver, ld, st)
      BY <3>2
    <3>4. Step(flush, busy, deliver, ld, st)
      BY <3>3 DEF Step
    <3> QED BY <3>4, SerialStep
  <2>2. CASE UNCHANGED vars
    <3>1. Ops' = Ops
      BY <2>2 DEF vars, shim_vars, Ops
    <3>2. Reply' = Reply
      BY <2>2 DEF vars, lsq_vars, io_vars, Reply
    <3>3. mem' = mem
      BY <2>2 DEF vars, dram_vars
    <3> QED BY <3>1, <3>2, <3>3 DEF Serial!vars
  <2> QED BY <2>1, <2>2
<1> QED BY <1>1, <1>2, AlwaysPathInv, PTL DEF Spec, SerialMemorySpec, Serial!Spec
=============================================================================
