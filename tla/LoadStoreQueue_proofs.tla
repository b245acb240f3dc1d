------------------------ MODULE LoadStoreQueue_proofs -----------------------
(***************************************************************************)
(* Theorems about the load and store queues, for every size of the queues, *)
(* of the pending table and of the reorder buffer, any addresses and data, *)
(* and with flushes in any cycle: the pointers of the store queue agree    *)
(* with what is on its way to memory, the queue is total store order, and  *)
(* each load that memory answers gets one answer, its own.                 *)
(***************************************************************************)
EXTENDS LoadStoreQueue, SequenceTheorems, FiniteSetTheorems,
        WellFoundedInduction, TLAPS

-----------------------------------------------------------------------------
(***************************************************************************)
(* The inductive invariant                                                 *)
(***************************************************************************)

\* The k-th slot of a ring of n slots, counted from slot r.
Ring(n, r, k) == (r + k - 1) % n

\* The pending table is the ring of the requests on their way, oldest first.
PendingInOrder ==
  /\ pend_count = Len(chan)
  /\ pend_wr_ptr = Ring(PendDepth, pend_rd_ptr, Len(chan) + 1)
  /\ \A i \in PendId :
       pend_valid[i] <=> \E k \in 1..Len(chan) : i = Ring(PendDepth, pend_rd_ptr, k)
  /\ \A k \in 1..Len(chan) :
       LET r == chan[k] IN
       /\ r.client = "lsq" /\ r.id = Ring(PendDepth, pend_rd_ptr, k)
       /\ r.wr => r.data \in Val
       /\ pend_data[r.id] = [is_load |-> ~r.wr, addr |-> r.addr]

\* Addresses and data are there when they are needed, and a load has an entry
\* of the load queue.
Known ==
  /\ ld_state = "WAIT" => ld_wait_addr \in Addr
  /\ \A i \in SqIdx : sq_ready[i] => sq_entry[i] \in Word
  /\ \A k \in DOMAIN rob : rob[k].op = "load" => rob[k].idx \in LqIdx

QueueInv == TypeOK /\ SqAccounted /\ PendingInOrder /\ Known

\* Tags name the instructions in flight; a load's entry of the load queue has
\* its tag or that of a younger load which was given the same entry.
Tagged ==
  /\ \A k, l \in DOMAIN rob : rob[k].tag = rob[l].tag => k = l
  /\ \A k \in DOMAIN rob : rob[k].op = "load" =>
       \E j \in DOMAIN rob : /\ j >= k /\ rob[j].op = "load"
                             /\ lq_rob_tag[rob[k].idx] = rob[j].tag

\* The load in entry i of the load queue has been issued and has no result yet.
Underway(i) ==
  \E k \in DOMAIN rob : rob[k].op = "load" /\ rob[k].stage = "issued" /\ rob[k].idx = i

\* One load at a time is in the pipe register, waits for memory or has its
\* result on the bus.
OneLoad ==
  /\ ld_pipe # None =>
       /\ ld_pipe_fwd = None /\ ld_state = "IDLE" /\ ld_cdb = None
       /\ ld_in_flight /\ Underway(ld_pipe_idx)
  /\ ld_pipe_fwd # None =>
       ld_state = "IDLE" /\ ld_cdb = None /\ ld_in_flight /\ Underway(ld_pipe_idx)
  /\ ld_state = "WAIT" => ld_cdb = None /\ ld_in_flight /\ Underway(ld_result_idx)
  /\ ld_cdb # None =>
       /\ ld_in_flight
       /\ \E k \in DOMAIN rob : rob[k].op = "load" /\ rob[k].tag = ld_cdb_tag

\* Each store in flight has an entry of its own, which is ready when the store
\* is done, and not committed; a committed store is ready.
StoresHeld ==
  /\ \A k \in DOMAIN rob : rob[k].op = "store" =>
       LET i == rob[k].idx IN
       /\ i \in SqIdx /\ sq_valid[i] /\ ~sq_committed[i]
       /\ rob[k].stage # "issued" /\ (sq_ready[i] <=> rob[k].stage = "done")
       /\ \A l \in DOMAIN rob : rob[l].op = "store" /\ rob[l].idx = i => l = k
  /\ \A i \in SqIdx : sq_valid[i] /\ sq_committed[i] => sq_ready[i]

\* The stores on their way to memory are the oldest in the queue, in order:
\* nth[k] is how many there are among the k oldest requests.
Acked == IF store_drain_ack THEN 1 ELSE 0

Sent(k, n) ==
  /\ n \in 1..sq_count
  /\ [addr |-> chan[k].addr, data |-> chan[k].data] = sq_entry[SqAt(Acked + n)]

ChannelInOrder ==
  \E nth \in [0..Len(chan) -> 0..Len(chan)] :
    /\ nth[0] = 0 /\ Acked + nth[Len(chan)] = Issued
    /\ \A j, k \in 0..Len(chan) : j <= k => nth[j] <= nth[k] /\ nth[k] - nth[j] <= k - j
    /\ \A k \in 1..Len(chan) :
         /\ nth[k] = nth[k - 1] + (IF chan[k].wr THEN 1 ELSE 0)
         /\ chan[k].wr => Sent(k, nth[k])

OrderInv == QueueInv /\ Tagged /\ OneLoad /\ StoresHeld /\ ChannelInOrder

-----------------------------------------------------------------------------
(***************************************************************************)
(* Rings                                                                   *)
(***************************************************************************)
LEMMA Sizes ==
  /\ PendDepth \in Nat /\ PendDepth >= 1 /\ SqN \in Nat /\ SqN >= PendDepth + 2
  /\ LqN \in Nat /\ LqN >= 1 /\ RobN \in Nat /\ RobN >= 1
  /\ PendId = 0..(PendDepth - 1) /\ SqIdx = 0..(SqN - 1) /\ LqIdx = 0..(LqN - 1)
BY DepthAssumption, QueueAssumption, DrainAssumption DEF PendId, SqIdx, LqIdx

LEMMA Wrap ==
  ASSUME NEW n \in Nat, n >= 1, NEW x \in 0..(2 * n - 1)
  PROVE  x % n = IF x < n THEN x ELSE x - n
<1>1. /\ x \div n \in Int /\ x % n \in 0..(n - 1)
      /\ x = n * (x \div n) + (x % n)
  OBVIOUS
<1>2. CASE x < n
  <2>1. x \div n = 0
    BY <1>1, <1>2
  <2> QED BY <1>1, <1>2, <2>1
<1>3. CASE x >= n
  <2>1. x \div n = 1
    BY <1>1, <1>3
  <2> QED BY <1>1, <1>3, <2>1
<1> QED BY <1>2, <1>3

LEMMA RingIs ==
  ASSUME NEW n \in Nat, n >= 1, NEW r \in 0..(n - 1), NEW k \in 0..(n + 1)
  PROVE  /\ k >= 1 => Ring(n, r, k) = IF r + k - 1 < n THEN r + k - 1 ELSE r + k - 1 - n
         /\ k >= 1 => Ring(n, r, k) \in 0..(n - 1)
         /\ k <= n => Ring(n, r, k + 1) = IF r + k < n THEN r + k ELSE r + k - n
<1>1. ASSUME NEW l \in 1..(n + 1)
      PROVE  Ring(n, r, l) = IF r + l - 1 < n THEN r + l - 1 ELSE r + l - 1 - n
  <2> DEFINE x == r + l - 1
  <2>1. x \in 0..(2 * n - 1)
    OBVIOUS
  <2> HIDE DEF x
  <2>2. x % n = IF x < n THEN x ELSE x - n
    BY <2>1, Wrap
  <2> QED BY <2>2 DEF Ring, x
<1>2. k <= n => /\ k + 1 \in 1..(n + 1) /\ r + (k + 1) - 1 = r + k
  OBVIOUS
<1>3. k >= 1 => k \in 1..(n + 1)
  OBVIOUS
<1>4. k <= n => Ring(n, r, k + 1) = IF r + k < n THEN r + k ELSE r + k - n
  BY <1>1, <1>2
<1>5. k >= 1 => Ring(n, r, k) = IF r + k - 1 < n THEN r + k - 1 ELSE r + k - 1 - n
  BY <1>1, <1>3
<1> QED BY <1>4, <1>5

LEMMA RingFacts ==
  ASSUME NEW n \in Nat, n >= 1, NEW r \in 0..(n - 1)
  PROVE  /\ \A k \in 1..(n + 1) : Ring(n, r, k) \in 0..(n - 1)
         /\ Ring(n, r, 1) = r
         /\ \A k, l \in 1..n : Ring(n, r, k) = Ring(n, r, l) => k = l
         /\ (r + 1) % n \in 0..(n - 1)
         /\ \A k \in 1..n : Ring(n, (r + 1) % n, k) = Ring(n, r, k + 1)
         /\ \A k \in 1..n : (Ring(n, r, k) + 1) % n = Ring(n, r, k + 1)
<1>1. ASSUME NEW k \in 1..(n + 1)
      PROVE  /\ Ring(n, r, k) = IF r + k - 1 < n THEN r + k - 1 ELSE r + k - 1 - n
             /\ Ring(n, r, k) \in 0..(n - 1)
  BY RingIs
<1>2. ASSUME NEW i \in 0..(n - 1)
      PROVE  (i + 1) % n = IF i + 1 < n THEN i + 1 ELSE 0
  <2> DEFINE x == i + 1
  <2>1. x \in 0..(2 * n - 1)
    OBVIOUS
  <2> HIDE DEF x
  <2>2. x % n = IF x < n THEN x ELSE x - n
    BY <2>1, Wrap
  <2> QED BY <2>1, <2>2 DEF x
<1>3. (r + 1) % n = IF r + 1 < n THEN r + 1 ELSE 0
  BY <1>2
<1>4. ASSUME NEW k \in 1..n
      PROVE  Ring(n, (r + 1) % n, k) = Ring(n, r, k + 1)
  <2> DEFINE s == (r + 1) % n
  <2>1. s \in 0..(n - 1) /\ s = IF r + 1 < n THEN r + 1 ELSE 0
    BY <1>3
  <2> HIDE DEF s
  <2>2. Ring(n, s, k) = IF s + k - 1 < n THEN s + k - 1 ELSE s + k - 1 - n
    <3>1. k \in 0..(n + 1) /\ k >= 1
      OBVIOUS
    <3> QED BY <2>1, <3>1, RingIs
  <2>3. Ring(n, r, k + 1) = IF r + k < n THEN r + k ELSE r + k - n
    BY RingIs
  <2>4. Ring(n, s, k) = Ring(n, r, k + 1)
    BY <2>1, <2>2, <2>3
  <2> QED BY <2>4 DEF s
<1>5. ASSUME NEW k \in 1..n
      PROVE  (Ring(n, r, k) + 1) % n = Ring(n, r, k + 1)
  <2>1. k \in 1..(n + 1)
    OBVIOUS
  <2>2. (Ring(n, r, k) + 1) % n = IF Ring(n, r, k) + 1 < n THEN Ring(n, r, k) + 1 ELSE 0
    BY <1>1, <1>2, <2>1
  <2>3. Ring(n, r, k + 1) = IF r + k < n THEN r + k ELSE r + k - n
    BY RingIs
  <2> QED BY <1>1, <2>1, <2>2, <2>3
<1>6. ASSUME NEW k \in 1..n, NEW l \in 1..n, Ring(n, r, k) = Ring(n, r, l)
      PROVE  k = l
  BY <1>1, <1>6
<1>7. Ring(n, r, 1) = r /\ (r + 1) % n \in 0..(n - 1)
  BY <1>1, <1>3
<1> QED BY <1>1, <1>4, <1>5, <1>6, <1>7

\* A window of c slots from r becomes one from s when it takes in slots at its
\* end and lets go of slots at its front.
Moves(n, r, c, in, out, s) ==
  /\ s \in 0..(n - 1)
  /\ \A k \in 1..n : Ring(n, s, k) = Ring(n, r, k + out)
  /\ Ring(n, s, c + in - out + 1) =
       IF in = 1 THEN (Ring(n, r, c + 1) + 1) % n ELSE Ring(n, r, c + 1)
  /\ \A i \in 0..(n - 1) :
       (\E k \in 1..(c + in - out) : i = Ring(n, s, k)) <=>
         /\ (\E k \in 1..c : i = Ring(n, r, k)) \/ (in = 1 /\ i = Ring(n, r, c + 1))
         /\ ~(out = 1 /\ i = r)

LEMMA WindowMoves ==
  ASSUME NEW n \in Nat, n >= 1, NEW r \in 0..(n - 1), NEW c \in 0..n,
         NEW in \in {0, 1}, NEW out \in {0, 1}, in = 1 => c < n, out = 1 => c >= 1,
         NEW s, s = IF out = 1 THEN (r + 1) % n ELSE r
  PROVE  Moves(n, r, c, in, out, s)
<1> DEFINE At(k) == Ring(n, r, k)
           At_(k) == Ring(n, s, k)
           m == c + in - out
<1>1. /\ \A k \in 1..(n + 1) : At(k) \in 0..(n - 1)
      /\ At(1) = r
      /\ \A k, l \in 1..n : At(k) = At(l) => k = l
      /\ (r + 1) % n \in 0..(n - 1)
      /\ \A k \in 1..n : Ring(n, (r + 1) % n, k) = At(k + 1)
      /\ \A k \in 1..n : (At(k) + 1) % n = At(k + 1)
  BY RingFacts
<1>2. m \in 0..n /\ m + out = c + in /\ c + in \in 0..n
  OBVIOUS
<1>3. s \in 0..(n - 1)
  BY <1>1
<1>4. ASSUME NEW k \in 1..n PROVE At_(k) = At(k + out)
  <2>1. CASE out = 1
    BY <1>1, <2>1
  <2>2. CASE out = 0
    <3>1. k + out = k
      BY <2>2
    <3> QED BY <2>2, <3>1
  <2> QED BY <2>1, <2>2
<1> HIDE DEF At, At_, m
<1>5. At(c + in + 1) = IF in = 1 THEN (At(c + 1) + 1) % n ELSE At(c + 1)
  <2>1. CASE in = 1
    <3>1. c + 1 \in 1..n /\ c + in + 1 = (c + 1) + 1
      BY ONLY <2>1, in = 1 => c < n, c \in 0..n, n \in Nat
    <3> QED BY <1>1, <2>1, <3>1
  <2>2. CASE in = 0
    <3>1. c + in + 1 = c + 1
      BY ONLY <2>2, c \in 0..n, n \in Nat
    <3> QED BY <2>2, <3>1
  <2> QED BY <2>1, <2>2
<1>6. At_(m + 1) = At(c + in + 1)
  <2>1. CASE out = 1
    <3>1. m + 1 \in 1..n /\ m + 1 + out = c + in + 1
      BY ONLY <1>2, <2>1, c \in 0..n, n \in Nat, in \in {0, 1}
    <3> QED BY <1>4, <3>1
  <2>2. CASE out = 0
    <3>1. m + 1 = c + in + 1
      BY ONLY <1>2, <2>2, c \in 0..n, n \in Nat, in \in {0, 1}
    <3> QED BY <2>2, <3>1 DEF At, At_
  <2> QED BY <2>1, <2>2
<1>7. ASSUME NEW i, NEW k \in 1..m, i = At_(k)
      PROVE  /\ (\E l \in 1..c : i = At(l)) \/ (in = 1 /\ i = At(c + 1))
             /\ ~(out = 1 /\ i = r)
  <2>1. /\ k \in 1..n /\ k + out \in 1..n /\ (k + out \in 1..c \/ (in = 1 /\ k + out = c + 1))
        /\ 1 \in 1..n /\ (out = 1 => k + out # 1)
    BY ONLY <1>2, c \in 0..n, n \in Nat, in \in {0, 1}, out \in {0, 1}, k \in 1..m
  <2>2. i = At(k + out)
    BY <1>4, <1>7, <2>1
  <2> QED BY <1>1, <2>1, <2>2
<1>8. ASSUME NEW i, (\E k \in 1..c : i = At(k)) \/ (in = 1 /\ i = At(c + 1)), ~(out = 1 /\ i = r)
      PROVE  \E k \in 1..m : i = At_(k)
  <2>1. PICK l \in 1..(c + in) : i = At(l)
    <3>1. \A k \in 1..c : k \in 1..(c + in)
      BY ONLY c \in 0..n, n \in Nat, in \in {0, 1}
    <3>2. in = 1 => c + 1 \in 1..(c + in)
      BY ONLY c \in 0..n, n \in Nat, in \in {0, 1}
    <3> QED BY <1>8, <3>1, <3>2
  <2>2. out = 1 => l # 1
    BY <1>1, <1>8, <2>1
  <2> DEFINE k == l - out
  <2>3. k \in 1..m /\ k \in 1..n /\ k + out = l
    BY ONLY <1>2, <2>1, <2>2, c \in 0..n, n \in Nat, in \in {0, 1}, out \in {0, 1}
  <2> HIDE DEF k
  <2>4. i = At_(k)
    BY <1>4, <2>1, <2>3
  <2> QED BY <2>3, <2>4
<1> QED BY <1>3, <1>4, <1>5, <1>6, <1>7, <1>8 DEF At, At_, m, Moves

-----------------------------------------------------------------------------
(***************************************************************************)
(* What passes between queue and memory in a cycle                         *)
(***************************************************************************)
Step(d, ld, st, r, accept, serve) ==
  /\ d \in DispatchInput /\ ld \in LoadInput /\ st \in StoreInput /\ r \in RetireInput
  /\ ld = None \/ st = None
  /\ accept \in BOOLEAN /\ serve \in BOOLEAN
  /\ Cycle(d, ld, st, r, accept, serve)

Req == lsq_req(FALSE, drain_store)
Granted(accept) == Req # None /\ accept
Answers(serve) == serve /\ chan # << >>
Rsp(serve) == IF Served(serve) = None THEN None ELSE Answer(Served(serve))
Sends(accept) == Granted(accept) /\ Req.wr
One(b) == IF b THEN 1 ELSE 0

Entered(ld) == IF ld = None THEN FALSE ELSE lq_valid[rob[ld.k].idx]
Source(ld) == IF Entered(ld) THEN Forwards(ld.addr) ELSE None

LEMMA StepParts ==
  ASSUME NEW d, NEW ld, NEW st, NEW r, NEW accept, NEW serve,
         Step(d, ld, st, r, accept, serve)
  PROVE  /\ Active(IF Entered(ld) /\ Source(ld) = None THEN ld.addr ELSE None, ld_pipe_fwd,
                   drain_store, Granted(accept), Rsp(serve))
         /\ LqClock(d = "load", FreeTag)
         /\ SqClock(d = "store", st, Commits(r), Granted(accept) /\ Req.wr)
         /\ RobClock(d, ld, st, r)
         /\ ld_pipe_idx' = IF Entered(ld) THEN rob[ld.k].idx ELSE ld_pipe_idx
         /\ ld_pipe_fwd' = IF Source(ld) # None THEN sq_entry[Source(ld)].data ELSE None
         /\ ld_result_idx' = IF ld_state = "IDLE" /\ (ld_pipe # None \/ ld_pipe_fwd # None)
                             THEN ld_pipe_idx ELSE ld_result_idx
         /\ ld_cdb_tag' = IF Executed # None THEN lq_rob_tag[Executed] ELSE ld_cdb_tag
         /\ ld_in_flight' = (ld_cdb = None /\ (ld_in_flight \/ ld # None))
         /\ mem' = Effect(Served(serve))
         /\ chan' = (IF Served(serve) = None THEN chan ELSE Tail(chan)) \o
                    (IF Granted(accept) THEN <<Req>> ELSE << >>)
BY DEF Step, Cycle, Req, Granted, Rsp, Entered, Source, LsqClock

\* The request offered is the waiting load, or the store at the drain pointer.
LEMMA RequestFacts ==
  ASSUME QueueInv, Req # None
  PROVE  /\ pend_count < PendDepth
         /\ Req \in Request /\ Req.client = "lsq" /\ Req.id = pend_wr_ptr
         /\ Req.wr <=> ~issue_load(FALSE)
         /\ ~Req.wr => Req.addr = ld_wait_addr
         /\ Req.wr => /\ drain_store \in Word /\ drain_store = sq_entry[sq_drain_ptr]
                      /\ Req.addr = drain_store.addr /\ Req.data = drain_store.data
                      /\ Req.data \in Val
                      /\ sq_valid[sq_drain_ptr] /\ sq_committed[sq_drain_ptr]
                      /\ sq_ready[sq_drain_ptr]
<1>1. /\ pend_wr_ptr \in PendId /\ pend_count \in 0..PendDepth /\ PendDepth \in Nat
      /\ sq_drain_ptr \in SqIdx
  BY Sizes DEF QueueInv, TypeOK, LsqTypeOK
<1>2. CASE issue_load(FALSE)
  <2>1. Req = Load("lsq", pend_wr_ptr, ld_wait_addr)
    BY <1>2 DEF Req, lsq_req
  <2>2. ld_wait_addr \in Addr /\ pend_count # PendDepth
    BY <1>2 DEF issue_load, can_issue, QueueInv, Known
  <2>3. /\ Req.client = "lsq" /\ Req.id = pend_wr_ptr /\ Req.wr = FALSE
        /\ Req.addr = ld_wait_addr /\ Req \in Request
    BY <1>1, <2>1, <2>2 DEF Load, Request
  <2>4. pend_count < PendDepth
    BY ONLY <1>1, <2>2
  <2> QED BY <1>2, <2>3, <2>4
<1>3. CASE ~issue_load(FALSE)
  <2>1. /\ pend_count # PendDepth /\ drain_store # None
        /\ Req = Store(pend_wr_ptr, drain_store.addr, drain_store.data)
    BY <1>3 DEF Req, lsq_req, can_issue
  <2>2. /\ sq_valid[sq_drain_ptr] /\ sq_committed[sq_drain_ptr] /\ sq_ready[sq_drain_ptr]
        /\ drain_store = sq_entry[sq_drain_ptr]
    BY <2>1 DEF drain_store
  <2>3. drain_store \in Word /\ drain_store.addr \in Addr /\ drain_store.data \in Val
    BY <1>1, <2>2 DEF QueueInv, Known, Word
  <2>4. /\ Req.client = "lsq" /\ Req.id = pend_wr_ptr /\ Req.wr = TRUE
        /\ Req.addr = drain_store.addr /\ Req.data = drain_store.data /\ Req \in Request
    BY <1>1, <2>1, <2>3 DEF Store, Request
  <2>5. pend_count < PendDepth
    BY ONLY <1>1, <2>1
  <2> QED BY <1>3, <2>1, <2>2, <2>3, <2>4, <2>5
<1> QED BY <1>2, <1>3

\* Memory answers the oldest request, which the pending table knows.
LEMMA AnswerFacts ==
  ASSUME QueueInv, NEW serve \in BOOLEAN
  PROVE  /\ Served(serve) # None <=> Answers(serve)
         /\ rsp_id_valid(Rsp(serve)) <=> Answers(serve)
         /\ Answers(serve) =>
              /\ Len(chan) \in Nat /\ Len(chan) >= 1 /\ chan[1] \in Request
              /\ Served(serve) = chan[1] /\ Rsp(serve) # None
              /\ Rsp(serve).id = pend_rd_ptr /\ chan[1].id = pend_rd_ptr
              /\ Rsp(serve).rdata = IF chan[1].wr THEN None ELSE mem[chan[1].addr]
              /\ Rsp(serve).rdata \in Val \cup {None}
              /\ pend_valid[pend_rd_ptr] /\ pend_data[pend_rd_ptr].is_load = ~chan[1].wr
<1>1. /\ chan \in Seq(Request) /\ mem \in [Addr -> Val] /\ pend_rd_ptr \in PendId
  BY DEF QueueInv, TypeOK, LsqTypeOK
<1>2. CASE ~Answers(serve)
  <2>1. Served(serve) = None /\ Rsp(serve) = None
    BY <1>2 DEF Answers, Served, Rsp
  <2> QED BY <1>2, <2>1 DEF rsp_id_valid
<1>3. CASE Answers(serve)
  <2>1. Len(chan) \in Nat /\ Len(chan) >= 1 /\ 1 \in 1..Len(chan) /\ Head(chan) = chan[1]
    BY <1>1, <1>3, EmptySeq, HeadTailProperties DEF Answers
  <2>2. chan[1] \in Request
    BY <1>1, <2>1, ElementOfSeq
  <2>3. Served(serve) = chan[1] /\ Served(serve) # None
    BY <1>3, <2>1, <2>2, ChannelAssumption DEF Served, Answers
  <2>4. Rsp(serve) = [client |-> "lsq", id |-> chan[1].id,
                      rdata |-> IF chan[1].wr THEN None ELSE mem[chan[1].addr]]
    BY <2>3 DEF Rsp, Answer
  <2>5. Rsp(serve).rdata \in Val \cup {None} /\ Rsp(serve) \in Response
    BY <1>1, <2>2, <2>4 DEF Response, Request
  <2>6. Rsp(serve) # None
    BY <2>5, ChannelAssumption
  <2>7. Ring(PendDepth, pend_rd_ptr, 1) = pend_rd_ptr
    BY <1>1, Sizes, RingFacts
  <2>8. /\ chan[1].id = pend_rd_ptr /\ pend_valid[pend_rd_ptr]
        /\ pend_data[pend_rd_ptr] = [is_load |-> ~chan[1].wr, addr |-> chan[1].addr]
    BY <1>1, <2>1, <2>7 DEF QueueInv, PendingInOrder
  <2> QED BY <1>3, <2>1, <2>2, <2>3, <2>4, <2>5, <2>6, <2>8 DEF rsp_id_valid
<1> QED BY <1>2, <1>3

LEMMA TableMoves ==
  ASSUME QueueInv, NEW d, NEW ld, NEW st, NEW r, NEW accept, NEW serve,
         Step(d, ld, st, r, accept, serve)
  PROVE  LET g == Granted(accept)
             s == Answers(serve)
         IN  /\ g => pend_count < PendDepth
             /\ s => pend_count >= 1
             /\ pend_count' = pend_count + One(g) - One(s)
             /\ pend_rd_ptr' = IF s THEN (pend_rd_ptr + 1) % PendDepth ELSE pend_rd_ptr
             /\ pend_wr_ptr' = IF g THEN (pend_wr_ptr + 1) % PendDepth ELSE pend_wr_ptr
             /\ pend_valid' = [i \in PendId |-> /\ pend_valid[i] \/ (g /\ i = pend_wr_ptr)
                                                /\ ~(s /\ i = pend_rd_ptr)]
             /\ pend_data' = IF g THEN [pend_data EXCEPT ![pend_wr_ptr] =
                                          [is_load |-> ~Req.wr, addr |-> Req.addr]]
                             ELSE pend_data
             /\ store_drain_ack' = (s /\ chan[1].wr)
             /\ be_resp' \in Val \cup {None}
<1> DEFINE g == Granted(accept)
           s == Answers(serve)
           rsp == Rsp(serve)
           fwd == IF Entered(ld) /\ Source(ld) = None THEN ld.addr ELSE None
<1>1. serve \in BOOLEAN /\ accept \in BOOLEAN /\ Active(fwd, ld_pipe_fwd, drain_store, g, rsp)
  BY StepParts DEF Step
<1>2. /\ pend_count \in 0..PendDepth /\ PendDepth \in Nat /\ pend_rd_ptr \in PendId
      /\ pend_count = Len(chan)
  BY Sizes DEF QueueInv, TypeOK, LsqTypeOK, PendingInOrder
<1>3. pend_count # 0 => pend_valid[pend_rd_ptr]
  <2> SUFFICES ASSUME pend_count # 0 PROVE pend_valid[pend_rd_ptr]
    OBVIOUS
  <2>1. 1 \in 1..Len(chan)
    BY ONLY <1>2, pend_count # 0
  <2>2. Ring(PendDepth, pend_rd_ptr, 1) = pend_rd_ptr
    BY <1>2, Sizes, RingFacts
  <2> QED BY <1>2, <2>1, <2>2 DEF QueueInv, PendingInOrder
<1>4. /\ rsp_id_valid(rsp) <=> s
      /\ s => /\ Len(chan) >= 1 /\ rsp.id = pend_rd_ptr
              /\ pend_data[pend_rd_ptr].is_load = ~chan[1].wr
              /\ rsp.rdata \in Val \cup {None}
  BY <1>1, AnswerFacts
<1>5. g => /\ pend_count < PendDepth /\ Req.wr = ~issue_load(FALSE)
           /\ ~Req.wr => Req.addr = ld_wait_addr
           /\ Req.wr => Req.addr = drain_store.addr
  <2> SUFFICES ASSUME g PROVE /\ pend_count < PendDepth /\ Req.wr = ~issue_load(FALSE)
                              /\ ~Req.wr => Req.addr = ld_wait_addr
                              /\ Req.wr => Req.addr = drain_store.addr
    OBVIOUS
  <2>1. Req # None
    BY DEF Granted
  <2>2. Req.wr \in BOOLEAN
    BY <2>1, RequestFacts DEF Request
  <2> QED BY <2>1, <2>2, RequestFacts DEF issue_load, can_issue
<1> HIDE DEF g, s, rsp, fwd
<1>6. /\ pend_count' = pend_count + One(g) - One(s)
      /\ pend_rd_ptr' = IF s THEN (pend_rd_ptr + 1) % PendDepth ELSE pend_rd_ptr
      /\ pend_wr_ptr' = IF g THEN (pend_wr_ptr + 1) % PendDepth ELSE pend_wr_ptr
  BY <1>1, <1>2, <1>3, <1>4 DEF Active, One, NextId
<1>7. pend_valid' = [i \in PendId |-> /\ pend_valid[i] \/ (g /\ i = pend_wr_ptr)
                                      /\ ~(s /\ i = pend_rd_ptr)]
  BY <1>1, <1>4 DEF Active
<1>8. pend_data' = IF g THEN [pend_data EXCEPT ![pend_wr_ptr] =
                                [is_load |-> ~Req.wr, addr |-> Req.addr]]
                   ELSE pend_data
  <2>1. pend_data' =
          IF g THEN [pend_data EXCEPT ![pend_wr_ptr] =
                       [is_load |-> issue_load(FALSE),
                        addr |-> IF issue_load(FALSE) THEN ld_wait_addr ELSE drain_store.addr]]
          ELSE pend_data
    BY <1>1 DEF Active
  <2>2. issue_load(FALSE) \in BOOLEAN
    BY DEF issue_load, can_issue
  <2>3. g => /\ issue_load(FALSE) = ~Req.wr
             /\ Req.addr = IF issue_load(FALSE) THEN ld_wait_addr ELSE drain_store.addr
    BY <1>5, <2>2
  <2> QED BY <2>1, <2>3
<1>9. store_drain_ack' = (s /\ chan[1].wr)
  BY <1>1, <1>4 DEF Active
<1>10. be_resp' \in Val \cup {None}
  BY <1>1, <1>4 DEF Active
<1> QED BY <1>2, <1>4, <1>5, <1>6, <1>7, <1>8, <1>9, <1>10 DEF g, s

LEMMA ChannelMoves ==
  ASSUME QueueInv, NEW d, NEW ld, NEW st, NEW r, NEW accept, NEW serve,
         Step(d, ld, st, r, accept, serve)
  PROVE  LET g == Granted(accept)
             s == Answers(serve)
         IN  /\ chan' \in Seq(Request) /\ Len(chan) \in Nat
             /\ Len(chan') = Len(chan) + One(g) - One(s)
             /\ \A k \in 1..Len(chan') :
                  chan'[k] = IF k + One(s) <= Len(chan) THEN chan[k + One(s)] ELSE Req
<1> DEFINE g == Granted(accept)
           s == Answers(serve)
           rest == IF s THEN Tail(chan) ELSE chan
           more == IF g THEN <<Req>> ELSE << >>
<1>1. serve \in BOOLEAN /\ chan \in Seq(Request) /\ Len(chan) \in Nat
  BY LenProperties DEF Step, QueueInv, TypeOK
<1>2. chan' = rest \o more
  <2>1. Served(serve) # None <=> Answers(serve)
    BY <1>1, AnswerFacts
  <2>2. chan' = (IF Served(serve) = None THEN chan ELSE Tail(chan)) \o
                (IF Granted(accept) THEN <<Req>> ELSE << >>)
    BY DEF Step, Cycle, Req, Granted
  <2> QED BY ONLY <2>1, <2>2 DEF rest, more
<1>3. /\ rest \in Seq(Request) /\ Len(rest) = Len(chan) - One(s) /\ Len(rest) \in Nat
      /\ \A k \in 1..Len(rest) : rest[k] = chan[k + One(s)]
  <2>1. CASE s
    <3>1. chan # << >>
      BY <2>1 DEF Answers
    <3>2. Len(chan) >= 1
      BY <1>1, <2>1, AnswerFacts
    <3>3. /\ Tail(chan) \in Seq(Request) /\ Len(Tail(chan)) = Len(chan) - 1
          /\ \A k \in 1..Len(Tail(chan)) : Tail(chan)[k] = chan[k + 1]
      BY <1>1, <3>1, HeadTailProperties
    <3> HIDE DEF s
    <3> QED BY <1>1, <2>1, <3>2, <3>3 DEF One
  <2>2. CASE ~s
    <3> HIDE DEF s
    <3> QED BY <1>1, <2>2 DEF One
  <2> QED BY <2>1, <2>2
<1>8. One(g) \in {0, 1} /\ One(s) \in {0, 1} /\ (g <=> One(g) = 1)
  BY DEF One
<1>4. more \in Seq(Request) /\ Len(more) = One(g) /\ (g => more[1] = Req)
  <2>1. g => Req \in Request
    BY RequestFacts DEF Granted
  <2> HIDE DEF g
  <2> QED BY <2>1 DEF One
<1> HIDE DEF rest, more
<1>5. /\ rest \o more \in Seq(Request) /\ Len(rest \o more) = Len(rest) + Len(more)
      /\ \A k \in 1..Len(rest) + Len(more) :
           (rest \o more)[k] = IF k <= Len(rest) THEN rest[k] ELSE more[k - Len(rest)]
  BY <1>3, <1>4, ConcatProperties
<1> HIDE DEF g, s
<1>6. Len(chan') = Len(chan) + One(g) - One(s)
  BY ONLY <1>1, <1>2, <1>3, <1>4, <1>5 DEF One
<1>7. ASSUME NEW k \in 1..Len(chan')
      PROVE  chan'[k] = IF k + One(s) <= Len(chan) THEN chan[k + One(s)] ELSE Req
  <2>1. k \in 1..(Len(rest) + Len(more))
    BY ONLY <1>2, <1>5, <1>7
  <2>2. chan'[k] = IF k <= Len(rest) THEN rest[k] ELSE more[k - Len(rest)]
    BY ONLY <1>2, <1>5, <2>1
  <2>3. CASE k <= Len(rest)
    <3>1. k \in 1..Len(rest) /\ k + One(s) <= Len(chan)
      BY ONLY <1>1, <1>3, <2>1, <2>3 DEF One
    <3> QED BY ONLY <1>3, <2>2, <2>3, <3>1
  <2>4. CASE ~(k <= Len(rest))
    <3>1. One(g) = 1 /\ k - Len(rest) = 1
      BY ONLY <1>1, <1>3, <1>4, <1>8, <2>1, <2>4
    <3>2. g
      BY ONLY <1>8, <3>1
    <3>3. ~(k + One(s) <= Len(chan))
      BY ONLY <1>1, <1>3, <2>1, <2>4 DEF One
    <3> QED BY ONLY <1>4, <2>2, <2>4, <3>1, <3>2, <3>3
  <2> QED BY ONLY <2>3, <2>4
<1> QED BY <1>1, <1>2, <1>5, <1>6, <1>7 DEF g, s

LEMMA PendingStep ==
  ASSUME QueueInv, NEW d, NEW ld, NEW st, NEW r, NEW accept, NEW serve,
         Step(d, ld, st, r, accept, serve)
  PROVE  PendingInOrder'
<1> DEFINE g == Granted(accept)
           s == Answers(serve)
           n == Len(chan)
           m == Len(chan')
           in == One(g)
           out == One(s)
           At(k) == Ring(PendDepth, pend_rd_ptr, k)
           At_(k) == Ring(PendDepth, pend_rd_ptr', k)
<1>1. /\ PendDepth \in Nat /\ PendDepth >= 1 /\ n \in Nat /\ n <= PendDepth /\ pend_count = n
      /\ pend_rd_ptr \in 0..(PendDepth - 1) /\ pend_wr_ptr \in 0..(PendDepth - 1)
      /\ PendId = 0..(PendDepth - 1) /\ pend_wr_ptr = At(n + 1)
      /\ pend_data \in [PendId -> PendEntry \cup {None}]
  BY Sizes, ChannelMoves DEF QueueInv, TypeOK, LsqTypeOK, PendingInOrder
<1>2. /\ g => n < PendDepth
      /\ s => n >= 1
      /\ pend_count' = n + in - out
      /\ pend_rd_ptr' = IF s THEN (pend_rd_ptr + 1) % PendDepth ELSE pend_rd_ptr
      /\ pend_wr_ptr' = IF g THEN (pend_wr_ptr + 1) % PendDepth ELSE pend_wr_ptr
      /\ pend_valid' = [i \in PendId |-> /\ pend_valid[i] \/ (g /\ i = pend_wr_ptr)
                                         /\ ~(s /\ i = pend_rd_ptr)]
      /\ pend_data' = IF g THEN [pend_data EXCEPT ![pend_wr_ptr] =
                                   [is_load |-> ~Req.wr, addr |-> Req.addr]]
                      ELSE pend_data
  BY <1>1, TableMoves
<1>3. /\ m = n + in - out
      /\ \A k \in 1..m : chan'[k] = IF k + out <= n THEN chan[k + out] ELSE Req
  BY ChannelMoves
<1>4. g => Req.client = "lsq" /\ Req.id = pend_wr_ptr /\ (Req.wr => Req.data \in Val)
  BY RequestFacts DEF Granted
<1>5. \A k \in 1..n : /\ chan[k].client = "lsq" /\ chan[k].id = At(k)
                      /\ chan[k].wr => chan[k].data \in Val
                      /\ pend_data[At(k)] = [is_load |-> ~chan[k].wr, addr |-> chan[k].addr]
  BY DEF QueueInv, PendingInOrder
<1>6. \A i \in PendId : pend_valid[i] <=> \E k \in 1..n : i = At(k)
  BY DEF QueueInv, PendingInOrder
<1>7. /\ \A k \in 1..(PendDepth + 1) : At(k) \in PendId
      /\ At(1) = pend_rd_ptr
      /\ \A k, l \in 1..PendDepth : At(k) = At(l) => k = l
  BY <1>1, RingFacts
<1>8. in \in {0, 1} /\ out \in {0, 1} /\ (g <=> in = 1) /\ (s <=> out = 1)
  BY DEF One
<1> HIDE DEF g, s, n, m, in, out, At, At_
<1>0. /\ PendDepth \in Nat /\ PendDepth >= 1 /\ n \in 0..PendDepth
      /\ in \in {0, 1} /\ out \in {0, 1} /\ (in = 1 => n < PendDepth) /\ (out = 1 => n >= 1)
      /\ m = n + in - out
  BY ONLY <1>1, <1>2, <1>3, <1>8
<1>9. /\ \A k \in 1..PendDepth : At_(k) = At(k + out)
      /\ At_(m + 1) = IF g THEN (At(n + 1) + 1) % PendDepth ELSE At(n + 1)
      /\ \A i \in PendId :
           (\E k \in 1..m : i = At_(k)) <=>
             /\ (\E k \in 1..n : i = At(k)) \/ (g /\ i = At(n + 1))
             /\ ~(s /\ i = pend_rd_ptr)
  <2>1. pend_rd_ptr' = IF out = 1 THEN (pend_rd_ptr + 1) % PendDepth ELSE pend_rd_ptr
    BY <1>2, <1>8
  <2>2. pend_rd_ptr \in 0..(PendDepth - 1) /\ PendId = 0..(PendDepth - 1)
    BY <1>1
  <2>3. Moves(PendDepth, pend_rd_ptr, n, in, out, pend_rd_ptr')
    BY <1>0, <2>1, <2>2, WindowMoves
  <2> QED BY <1>0, <1>8, <2>2, <2>3 DEF At, At_, Moves
<1>10. m \in Nat /\ m <= PendDepth /\ m + out = n + in
       /\ n + in \in Nat /\ n + in <= PendDepth
  BY ONLY <1>0
<1>11. pend_wr_ptr' = At_(m + 1)
  BY <1>1, <1>2, <1>9
<1>12. ASSUME NEW i \in PendId PROVE pend_valid'[i] <=> \E k \in 1..m : i = At_(k)
  BY <1>1, <1>2, <1>6, <1>9
<1>13. ASSUME NEW k \in 1..m
       PROVE  /\ chan'[k].client = "lsq" /\ chan'[k].id = At_(k)
              /\ chan'[k].wr => chan'[k].data \in Val
              /\ pend_data'[At_(k)] = [is_load |-> ~chan'[k].wr, addr |-> chan'[k].addr]
  <2> DEFINE l == k + out
  <2>1. k \in 1..PendDepth /\ l \in 1..(n + in) /\ l \in 1..PendDepth
    BY ONLY <1>0, <1>8, <1>10, <1>13
  <2>2. At_(k) = At(l) /\ At(l) \in PendId
    <3>1. l \in 1..(PendDepth + 1)
      BY ONLY <1>1, <2>1
    <3> QED BY <1>7, <1>9, <2>1, <3>1
  <2>3. chan'[k] = IF l <= n THEN chan[l] ELSE Req
    BY <1>3
  <2> HIDE DEF l
  <2>4. CASE l <= n
    <3>1. l \in 1..n /\ l # n + 1 /\ (g => n + 1 \in 1..PendDepth)
      BY ONLY <1>0, <1>8, <2>1, <2>4
    <3>2. g => At(l) # pend_wr_ptr
      BY <1>1, <1>7, <2>1, <3>1
    <3>3. pend_data'[At(l)] = pend_data[At(l)]
      BY <1>1, <1>2, <2>2, <3>2
    <3> QED BY <1>5, <2>2, <2>3, <2>4, <3>1, <3>3
  <2>5. CASE ~(l <= n)
    <3>1. g /\ l = n + 1
      BY ONLY <1>0, <1>8, <2>1, <2>5
    <3>2. At(l) = pend_wr_ptr
      BY <1>1, <3>1
    <3>3. pend_data'[At(l)] = [is_load |-> ~Req.wr, addr |-> Req.addr]
      BY <1>1, <1>2, <2>2, <3>1, <3>2
    <3> QED BY <1>4, <2>2, <2>3, <2>5, <3>1, <3>2, <3>3
  <2> QED BY <2>4, <2>5
<1>14. pend_count' = m
  BY <1>2, <1>3
<1> QED BY <1>11, <1>12, <1>13, <1>14 DEF PendingInOrder, m, At_

-----------------------------------------------------------------------------
(***************************************************************************)
(* The store queue                                                         *)
(***************************************************************************)
Stores == {i \in PendId : pend_valid[i] /\ ~pend_data[i].is_load}

LEMMA StoresFinite ==
  ASSUME QueueInv
  PROVE  /\ IsFiniteSet(Stores) /\ Cardinality(Stores) \in Nat
         /\ Issued = Cardinality(Stores) + Acked /\ Acked \in {0, 1} /\ Issued \in Nat
         /\ store_drain_ack <=> Acked = 1
         /\ pend_count < PendDepth =>
              /\ ~pend_valid[pend_wr_ptr]
              /\ Cardinality(Stores) <= PendDepth - 1
<1>1. IsFiniteSet(PendId) /\ Cardinality(PendId) = PendDepth
  BY Sizes, FS_Interval
<1>2. IsFiniteSet(Stores) /\ Cardinality(Stores) \in Nat
  BY <1>1, FS_Subset, FS_CardinalityType DEF Stores
<1>3. Acked \in {0, 1} /\ (store_drain_ack <=> Acked = 1)
  BY DEF Acked, QueueInv, TypeOK, LsqTypeOK
<1>4. Issued = Cardinality(Stores) + Acked
  BY DEF Issued, Stores, Acked
<1>5. ASSUME pend_count < PendDepth
      PROVE  ~pend_valid[pend_wr_ptr] /\ Cardinality(Stores) <= PendDepth - 1
  <2> DEFINE n == Len(chan)
  <2>1. /\ n = pend_count /\ pend_wr_ptr = Ring(PendDepth, pend_rd_ptr, n + 1)
        /\ \A i \in PendId : pend_valid[i] <=> \E k \in 1..n : i = Ring(PendDepth, pend_rd_ptr, k)
        /\ pend_wr_ptr \in PendId /\ pend_rd_ptr \in PendId /\ pend_count \in 0..PendDepth
    BY DEF QueueInv, TypeOK, LsqTypeOK, PendingInOrder
  <2> HIDE DEF n
  <2>2. n + 1 \in 1..PendDepth /\ \A k \in 1..n : k \in 1..PendDepth /\ k # n + 1
    BY <2>1, <1>5, Sizes
  <2>3. \A k, l \in 1..PendDepth :
          Ring(PendDepth, pend_rd_ptr, k) = Ring(PendDepth, pend_rd_ptr, l) => k = l
    BY <2>1, Sizes, RingFacts
  <2>4. ~pend_valid[pend_wr_ptr]
    BY <2>1, <2>2, <2>3
  <2>5. Stores \in SUBSET (PendId \ {pend_wr_ptr})
    BY <2>4 DEF Stores
  <2>6. /\ IsFiniteSet(PendId \ {pend_wr_ptr})
        /\ Cardinality(PendId \ {pend_wr_ptr}) = PendDepth - 1
    BY <1>1, <2>1, FS_RemoveElement
  <2>7. Cardinality(Stores) <= Cardinality(PendId \ {pend_wr_ptr})
    BY <2>5, <2>6, FS_Subset
  <2> QED BY <2>4, <2>6, <2>7
<1>6. Issued \in Nat
  BY <1>2, <1>3, <1>4
<1> QED BY <1>2, <1>3, <1>4, <1>5, <1>6

\* A store that is sent is issued; it stays so until its acknowledge has been
\* on the bus for a cycle.
LEMMA IssuedMoves ==
  ASSUME QueueInv, NEW d, NEW ld, NEW st, NEW r, NEW accept, NEW serve,
         Step(d, ld, st, r, accept, serve)
  PROVE  /\ Issued' = Issued + One(Sends(accept)) - Acked
         /\ Acked' = One(Answers(serve) /\ chan[1].wr)
         /\ Cardinality(Stores') = Cardinality(Stores) + One(Sends(accept)) - Acked'
<1> DEFINE g == Granted(accept)
           s == Answers(serve)
           w == Sends(accept)
           a == s /\ chan[1].wr
           more == IF w THEN Stores \cup {pend_wr_ptr} ELSE Stores
           next == IF a THEN more \ {pend_rd_ptr} ELSE more
<1>1. /\ g => pend_count < PendDepth
      /\ pend_valid' = [i \in PendId |-> /\ pend_valid[i] \/ (g /\ i = pend_wr_ptr)
                                         /\ ~(s /\ i = pend_rd_ptr)]
      /\ pend_data' = IF g THEN [pend_data EXCEPT ![pend_wr_ptr] =
                                   [is_load |-> ~Req.wr, addr |-> Req.addr]]
                      ELSE pend_data
      /\ store_drain_ack' = a
  BY TableMoves
<1>2. g => Req.wr \in BOOLEAN
  BY RequestFacts DEF Granted, Request
<1>3. w <=> g /\ Req.wr
  BY DEF Sends
<1>4. serve \in BOOLEAN /\ chan \in Seq(Request)
  BY DEF Step, QueueInv, TypeOK
<1>5. s => /\ pend_rd_ptr \in PendId /\ pend_valid[pend_rd_ptr]
           /\ pend_data[pend_rd_ptr].is_load = ~chan[1].wr /\ chan[1].wr \in BOOLEAN
  <2>1. pend_rd_ptr \in PendId
    BY DEF QueueInv, TypeOK, LsqTypeOK
  <2>2. s => /\ pend_valid[pend_rd_ptr]
             /\ pend_data[pend_rd_ptr].is_load = ~chan[1].wr /\ chan[1] \in Request
    BY <1>4, AnswerFacts
  <2> QED BY <2>1, <2>2 DEF Request
<1>6. /\ IsFiniteSet(Stores) /\ Cardinality(Stores) \in Nat
      /\ Issued = Cardinality(Stores) + Acked /\ Acked \in {0, 1}
      /\ g => ~pend_valid[pend_wr_ptr]
  BY <1>1, StoresFinite
<1>7. /\ pend_data \in [PendId -> PendEntry \cup {None}] /\ pend_wr_ptr \in PendId
  BY DEF QueueInv, TypeOK, LsqTypeOK
<1> HIDE DEF g, s, w
<1>8. Stores' = next
  <2>1. ASSUME NEW i \in PendId PROVE i \in Stores' <=> i \in next
    <3>1. CASE i = pend_wr_ptr /\ g
      <4>1. pend_data'[i] = [is_load |-> ~Req.wr, addr |-> Req.addr]
        BY <1>1, <1>7, <3>1
      <4>2. pend_data'[i].is_load = ~Req.wr
        BY <4>1
      <4>3. ~(s /\ i = pend_rd_ptr)
        BY <1>5, <1>6, <3>1
      <4>4. pend_valid'[i]
        BY <1>1, <3>1, <4>3
      <4>5. i \notin Stores
        BY <1>6, <3>1 DEF Stores
      <4> QED BY <1>2, <1>3, <3>1, <4>2, <4>3, <4>4, <4>5 DEF Stores
    <3>2. CASE ~(i = pend_wr_ptr /\ g)
      <4>1. pend_data'[i] = pend_data[i] /\ (pend_valid'[i] <=> pend_valid[i] /\ ~(s /\ i = pend_rd_ptr))
        BY <1>1, <1>7, <3>2
      <4>2. i \in Stores' <=> i \in Stores /\ ~(s /\ i = pend_rd_ptr)
        BY <4>1 DEF Stores
      <4>3. i \in more <=> i \in Stores
        BY <1>3, <3>2
      <4>4. i \in Stores /\ s /\ i = pend_rd_ptr => a
        BY <1>5 DEF Stores
      <4> QED BY <4>2, <4>3, <4>4
    <3> QED BY <3>1, <3>2
  <2>2. \A i : i \in Stores' => i \in PendId
    BY DEF Stores
  <2>3. \A i : i \in next => i \in PendId
    BY <1>7 DEF Stores
  <2> QED BY <2>1, <2>2, <2>3
<1>9. /\ IsFiniteSet(more)
      /\ Cardinality(more) = Cardinality(Stores) + One(w)
  <2>1. CASE w
    <3>1. pend_wr_ptr \notin Stores
      BY <1>3, <1>6, <2>1 DEF Stores
    <3> QED BY <1>6, <2>1, <3>1, FS_AddElement DEF One
  <2>2. CASE ~w
    BY <1>6, <2>2 DEF One
  <2> QED BY <2>1, <2>2
<1>10. a => pend_rd_ptr \in more
  BY <1>5 DEF Stores
<1> HIDE DEF more
<1>11. Cardinality(next) = Cardinality(more) - One(a)
  <2>1. CASE a
    BY <1>9, <1>10, <2>1, FS_RemoveElement DEF One
  <2>2. CASE ~a
    <3>1. Cardinality(more) \in Nat
      BY <1>9, FS_CardinalityType
    <3> QED BY <2>2, <3>1 DEF One
  <2> QED BY <2>1, <2>2
<1>12. Acked' = One(a)
  BY <1>1 DEF Acked, One
<1>13. One(w) \in {0, 1} /\ One(a) \in {0, 1}
  BY DEF One
<1>14. Issued' = Cardinality(Stores') + Acked'
  BY DEF Issued, Stores, Acked
<1> HIDE DEF next, a
<1>15. Cardinality(Stores') = Cardinality(Stores) + One(w) - One(a)
  BY <1>6, <1>8, <1>9, <1>11, <1>13
<1>16. Issued' = Issued + One(w) - Acked
  BY <1>6, <1>12, <1>13, <1>14, <1>15
<1> QED BY <1>12, <1>15, <1>16 DEF w, a, s

\* The store queue takes in what is dispatched at its end, and lets go of its
\* oldest store when that has been acknowledged; the drain pointer moves with
\* what is sent.
LEMMA QueueMoves ==
  ASSUME QueueInv, NEW d, NEW ld, NEW st, NEW r, NEW accept, NEW serve,
         Step(d, ld, st, r, accept, serve)
  PROVE  LET e == One(d = "store")
             w == One(Sends(accept))
         IN  /\ sq_count \in Nat /\ e \in {0, 1} /\ w \in {0, 1} /\ Acked \in {0, 1}
             /\ e = 1 => sq_count < SqN
             /\ Issued \in Nat /\ Acked <= Issued /\ Issued + w <= sq_count /\ sq_count <= SqN
             /\ w = 1 => sq_drain_ptr = SqAt(Issued + 1)
             /\ sq_count' = sq_count + e - Acked
             /\ Issued' = Issued + w - Acked
             /\ Moves(SqN, sq_head, sq_count, e, Acked, sq_head')
             /\ Moves(SqN, sq_head, Issued, w, Acked, sq_head')
             /\ sq_tail = SqAt(sq_count + 1) /\ sq_drain_ptr = SqAt(Issued + 1)
             /\ sq_tail' = IF e = 1 THEN (sq_tail + 1) % SqN ELSE sq_tail
             /\ sq_drain_ptr' = IF w = 1 THEN (sq_drain_ptr + 1) % SqN ELSE sq_drain_ptr
             /\ sq_valid' = [i \in SqIdx |-> /\ sq_valid[i] \/ (e = 1 /\ i = sq_tail)
                                             /\ ~(Acked = 1 /\ i = sq_head)]
<1> DEFINE e == One(d = "store")
           w == One(Sends(accept))
           c == sq_count
           I == Issued
           a == Acked
           deq == store_drain_ack /\ sq_valid[sq_head] /\ sq_committed[sq_head]
<1>1. /\ SqN \in Nat /\ SqN >= PendDepth + 2 /\ PendDepth \in Nat /\ c \in 0..SqN
      /\ sq_head \in 0..(SqN - 1) /\ sq_tail \in 0..(SqN - 1) /\ SqIdx = 0..(SqN - 1)
      /\ sq_drain_ptr \in SqIdx
  BY Sizes DEF QueueInv, TypeOK
<1>2. /\ e \in {0, 1} /\ w \in {0, 1} /\ (e = 1 <=> d = "store") /\ (w = 1 <=> Sends(accept))
  BY DEF One
<1>3. /\ I \in Nat /\ a \in {0, 1} /\ I = Cardinality(Stores) + a /\ Cardinality(Stores) \in Nat
      /\ store_drain_ack <=> a = 1
  BY StoresFinite
<1>4. /\ I <= c /\ sq_tail = (sq_head + c) % SqN /\ sq_drain_ptr = (sq_head + I) % SqN
      /\ {i \in SqIdx : sq_valid[i]} = {SqAt(i) : i \in 1..c}
      /\ \A i \in 1..I : sq_committed[SqAt(i)]
  BY DEF QueueInv, SqAccounted
<1>5. \A k : SqAt(k) = Ring(SqN, sq_head, k)
  BY DEF SqAt, Ring
<1>6. /\ \A k \in 1..(SqN + 1) : SqAt(k) \in SqIdx
      /\ SqAt(1) = sq_head
      /\ \A k, l \in 1..SqN : SqAt(k) = SqAt(l) => k = l
  <2>1. /\ \A k \in 1..(SqN + 1) : Ring(SqN, sq_head, k) \in 0..(SqN - 1)
        /\ Ring(SqN, sq_head, 1) = sq_head
        /\ \A k, l \in 1..SqN : Ring(SqN, sq_head, k) = Ring(SqN, sq_head, l) => k = l
    <3>1. SqN >= 1
      BY <1>1
    <3> QED BY <1>1, <3>1, RingFacts
  <2> QED BY <1>1, <1>5, <2>1
<1>7. \A i \in SqIdx : sq_valid[i] <=> \E k \in 1..c : i = SqAt(k)
  BY <1>4
<1>8. sq_tail = SqAt(c + 1) /\ sq_drain_ptr = SqAt(I + 1)
  <2>1. sq_head + (c + 1) - 1 = sq_head + c /\ sq_head + (I + 1) - 1 = sq_head + I
    BY ONLY <1>1, <1>3
  <2> QED BY <1>4, <2>1 DEF SqAt
<1>9. e = 1 => c < SqN
  <2>1. d = "store" => ~sq_full
    BY IdleAssumption DEF Step, DispatchInput
  <2> QED BY <1>1, <1>2, <2>1 DEF sq_full
<1>10. deq <=> a = 1
  <2>1. a = 1 => 1 \in 1..c /\ 1 \in 1..I
    <3>1. I = Cardinality(Stores) + a /\ Cardinality(Stores) \in Nat /\ I <= c /\ c \in Nat
      BY <1>1, <1>3, <1>4
    <3> QED BY ONLY <3>1
  <2>2. a = 1 => sq_valid[sq_head] /\ sq_committed[sq_head]
    BY <1>1, <1>4, <1>6, <1>7, <2>1
  <2> QED BY <1>3, <2>2
<1>11. SqClock(d = "store", st, Commits(r), Granted(accept) /\ Req.wr)
  BY StepParts
<1>12. w = 1 => I + 1 <= c
  <2> SUFFICES ASSUME w = 1 PROVE I + 1 <= c
    OBVIOUS
  <2>1. Req # None /\ Req.wr
    BY <1>2 DEF Sends, Granted
  <2>2. pend_count < PendDepth /\ sq_valid[sq_drain_ptr]
    BY <2>1, RequestFacts
  <2>3. Cardinality(Stores) <= PendDepth - 1
    BY <2>2, StoresFinite
  <2>4. I + 1 \in 1..SqN
    BY <1>1, <1>3, <2>3
  <2>5. PICK k \in 1..c : SqAt(I + 1) = SqAt(k)
    BY <1>1, <1>7, <1>8, <2>2
  <2>6. k \in 1..SqN
    BY ONLY <1>1, <2>5
  <2>7. k = I + 1
    BY <1>6, <2>4, <2>5, <2>6
  <2> QED BY <2>5, <2>7
<1>13. I' = I + w - a
  BY IssuedMoves
<1> HIDE DEF e, w, I, a, c
<1>14. c' = c + e - a
  <2>1. c' = sq_count_next(d = "store", deq)
    BY <1>11 DEF SqClock, c
  <2> QED BY <1>2, <1>3, <1>10, <2>1 DEF sq_count_next, c
<1>15. /\ sq_head' = IF a = 1 THEN (sq_head + 1) % SqN ELSE sq_head
       /\ sq_tail' = IF e = 1 THEN (sq_tail + 1) % SqN ELSE sq_tail
  BY <1>2, <1>10, <1>11 DEF SqClock
<1>16. sq_drain_ptr' = IF w = 1 THEN (sq_drain_ptr + 1) % SqN ELSE sq_drain_ptr
  BY <1>2, <1>11 DEF SqClock, Sends
<1>17. sq_valid' = [i \in SqIdx |-> /\ sq_valid[i] \/ (e = 1 /\ i = sq_tail)
                                    /\ ~(a = 1 /\ i = sq_head)]
  BY <1>2, <1>10, <1>11 DEF SqClock
<1>18. /\ a <= I /\ I + w <= c /\ I \in 0..SqN
       /\ a = 1 => c >= 1
       /\ a = 1 => I >= 1
       /\ w = 1 => I < SqN
  BY ONLY <1>1, <1>2, <1>3, <1>4, <1>12
<1>19. Moves(SqN, sq_head, c, e, a, sq_head') /\ Moves(SqN, sq_head, I, w, a, sq_head')
  <2>1. SqN >= 1
    BY ONLY <1>1
  <2>2. Moves(SqN, sq_head, c, e, a, sq_head')
    BY <1>1, <1>2, <1>3, <1>9, <1>15, <1>18, <2>1, WindowMoves
  <2>3. Moves(SqN, sq_head, I, w, a, sq_head')
    BY <1>1, <1>2, <1>3, <1>15, <1>18, <2>1, WindowMoves
  <2> QED BY <2>2, <2>3
<1>20. c \in Nat /\ c <= SqN
  BY ONLY <1>1
<1> QED BY <1>2, <1>3, <1>8, <1>9, <1>13, <1>14, <1>15, <1>16, <1>17, <1>18, <1>19, <1>20
        DEF e, w, I, a, c

LEMMA AccountedStep ==
  ASSUME QueueInv, NEW d, NEW ld, NEW st, NEW r, NEW accept, NEW serve,
         Step(d, ld, st, r, accept, serve)
  PROVE  SqAccounted' /\ sq_count' \in 0..SqN
<1> DEFINE e == One(d = "store")
           w == One(Sends(accept))
           c == sq_count
           I == Issued
           a == Acked
           At(k) == Ring(SqN, sq_head, k)
           At_(k) == Ring(SqN, sq_head', k)
<1>1. /\ c \in Nat /\ e \in {0, 1} /\ w \in {0, 1} /\ a \in {0, 1} /\ (e = 1 => c < SqN)
      /\ I \in Nat /\ a <= I /\ I + w <= c /\ c <= SqN
      /\ c' = c + e - a /\ I' = I + w - a
      /\ Moves(SqN, sq_head, c, e, a, sq_head')
      /\ Moves(SqN, sq_head, I, w, a, sq_head')
      /\ sq_tail = At(c + 1) /\ sq_drain_ptr = At(I + 1)
      /\ sq_tail' = IF e = 1 THEN (sq_tail + 1) % SqN ELSE sq_tail
      /\ sq_drain_ptr' = IF w = 1 THEN (sq_drain_ptr + 1) % SqN ELSE sq_drain_ptr
      /\ sq_valid' = [i \in SqIdx |-> /\ sq_valid[i] \/ (e = 1 /\ i = sq_tail)
                                      /\ ~(a = 1 /\ i = sq_head)]
  BY QueueMoves DEF SqAt, Ring
<1>2. SqN \in Nat /\ SqN >= 3 /\ SqIdx = 0..(SqN - 1) /\ sq_head \in 0..(SqN - 1)
  BY Sizes DEF QueueInv, TypeOK
<1>3. \A i \in SqIdx : sq_valid[i] <=> \E k \in 1..c : i = At(k)
  BY DEF QueueInv, SqAccounted, SqAt, Ring
<1>4. /\ \A i \in 1..I : sq_committed[At(i)]
      /\ w = 1 => sq_committed[sq_drain_ptr]
  <2>1. \A i \in 1..I : sq_committed[At(i)]
    BY DEF QueueInv, SqAccounted, SqAt, Ring
  <2>2. w = 1 => Req # None /\ Req.wr
    BY DEF One, Sends, Granted
  <2>3. w = 1 => sq_committed[sq_drain_ptr]
    BY <2>2, RequestFacts
  <2> QED BY <2>1, <2>3
<1>5. \A i \in SqIdx : sq_committed[i] /\ ~(d = "store" /\ i = sq_tail) => sq_committed'[i]
  BY StepParts DEF SqClock
<1>6. e = 1 <=> d = "store"
  BY DEF One
<1>7. /\ \A k \in 1..(SqN + 1) : At(k) \in SqIdx
      /\ \A k, l \in 1..SqN : At(k) = At(l) => k = l
  <2>1. SqN >= 1
    BY <1>2
  <2> QED BY <1>2, <2>1, RingFacts
<1>8. \A k : SqAt(k)' = At_(k)
  BY DEF SqAt, Ring
<1>9. /\ \A k \in 1..SqN : At_(k) = At(k + a)
      /\ At_(c + e - a + 1) = IF e = 1 THEN (At(c + 1) + 1) % SqN ELSE At(c + 1)
      /\ At_(I + w - a + 1) = IF w = 1 THEN (At(I + 1) + 1) % SqN ELSE At(I + 1)
      /\ \A i \in SqIdx :
           (\E k \in 1..(c + e - a) : i = At_(k)) <=>
             /\ (\E k \in 1..c : i = At(k)) \/ (e = 1 /\ i = At(c + 1))
             /\ ~(a = 1 /\ i = sq_head)
      /\ sq_head' \in 0..(SqN - 1)
  BY <1>1, <1>2 DEF Moves
<1> HIDE DEF e, w, c, I, a, At, At_
<1>10. c' \in 0..SqN /\ I' \in Nat /\ I' <= c'
  BY ONLY <1>1, <1>2
<1>11. sq_tail' = (sq_head' + c') % SqN /\ sq_drain_ptr' = (sq_head' + I') % SqN
  <2>1. sq_tail' = At_(c' + 1) /\ sq_drain_ptr' = At_(I' + 1)
    BY <1>1, <1>9
  <2>2. sq_head' + (c' + 1) - 1 = sq_head' + c' /\ sq_head' + (I' + 1) - 1 = sq_head' + I'
    BY ONLY <1>2, <1>9, <1>10
  <2> QED BY <2>1, <2>2 DEF At_, Ring
<1>12. {i \in SqIdx : sq_valid[i]}' = {SqAt(i) : i \in 1..sq_count}'
  <2>1. \A i \in SqIdx : sq_valid'[i] <=> \E k \in 1..c' : i = At_(k)
    BY <1>1, <1>3, <1>9
  <2>2. ASSUME NEW k \in 1..c' PROVE At_(k) \in SqIdx
    <3>1. k \in 1..SqN /\ k + a \in 1..(SqN + 1)
      BY ONLY <1>1, <1>2, <1>10, <2>2
    <3> QED BY <1>7, <1>9, <3>1
  <2> QED BY <1>8, <2>1, <2>2 DEF c
<1>13. ASSUME NEW k \in 1..I' PROVE sq_committed'[At_(k)]
  <2>1. k \in 1..SqN /\ k + a \in 1..SqN /\ k + a \in 1..(SqN + 1) /\ k + a \in 1..c
        /\ (k + a \in 1..I \/ (w = 1 /\ k + a = I + 1))
    BY ONLY <1>1, <1>2, <1>10, <1>13
  <2>2. At_(k) = At(k + a) /\ At(k + a) \in SqIdx
    BY <1>7, <1>9, <2>1
  <2>3. sq_committed[At(k + a)]
    BY <1>1, <1>4, <2>1
  <2>4. ~(d = "store" /\ At(k + a) = sq_tail)
    <3> SUFFICES ASSUME d = "store" PROVE At(k + a) # At(c + 1)
      BY <1>1
    <3>1. c + 1 \in 1..SqN /\ k + a # c + 1
      BY ONLY <1>1, <1>2, <1>6, <2>1, d = "store"
    <3> QED BY <1>7, <2>1, <3>1
  <2> QED BY <1>5, <2>2, <2>3, <2>4
<1>14. SqAccounted'
  <2>1. \A i \in 1..I' : sq_committed'[SqAt(i)']
    BY <1>8, <1>13
  <2> QED BY <1>10, <1>11, <1>12, <2>1 DEF SqAccounted, c, I
<1> QED BY <1>10, <1>14 DEF c

-----------------------------------------------------------------------------
(***************************************************************************)
(* The surrounding core                                                    *)
(***************************************************************************)

\* A set of naturals up to n has a largest one: of its upper sets one is
\* contained in no other.
LEMMA Largest ==
  ASSUME NEW n \in Nat, NEW T \in SUBSET (0..n), T # {}
  PROVE  Max(T) \in T /\ \A t \in T : t <= Max(T)
<1> DEFINE Upper == {t..n : t \in T}
           Less == StrictSubsetOrdering(0..n)
<1>1. IsFiniteSet(0..n)
  BY FS_Interval
<1>2. IsWellFoundedOn(Less, SUBSET (0..n))
  BY <1>1, FS_StrictSubsetOrderingWellFounded, FS_FiniteSubsetsOfFinite
<1>3. Upper \subseteq SUBSET (0..n) /\ Upper # {}
  <2>1. \A t \in T : t..n \in SUBSET (0..n)
    OBVIOUS
  <2> QED BY <2>1
<1> HIDE DEF Less
<1>4. PICK U \in Upper : \A V \in Upper : <<V, U>> \notin Less
  BY <1>2, <1>3, WFMin
<1>5. PICK t0 \in T : U = t0..n
  BY <1>4
<1>6. ASSUME NEW t \in T PROVE t <= t0
  <2> SUFFICES ASSUME ~(t <= t0) PROVE FALSE
    OBVIOUS
  <2>1. t \in 0..n /\ t0 \in 0..n /\ t0 < t
    OBVIOUS
  <2>2. t..n \subseteq t0..n /\ t0 \in t0..n /\ t0 \notin t..n
    BY <2>1
  <2>3. <<t..n, t0..n>> \in StrictSubsetOrdering(0..n)
    <3>1. t..n \in SUBSET (0..n) /\ t0..n \in SUBSET (0..n) /\ t..n # t0..n
      BY <2>1, <2>2
    <3> HIDE <2>1
    <3> DEFINE V == t..n
               W == t0..n
    <3>2. V \in SUBSET (0..n) /\ W \in SUBSET (0..n) /\ V # W /\ V \subseteq W
      BY <2>2, <3>1
    <3> HIDE DEF V, W
    <3>3. <<V, W>> \in StrictSubsetOrdering(0..n)
      BY ONLY <3>2 DEF StrictSubsetOrdering
    <3> QED BY <3>3 DEF V, W
  <2>4. t..n \in Upper
    BY Zenon
  <2> QED BY <1>4, <1>5, <2>3, <2>4 DEF Less
<1>7. \A t \in T : t0 >= t
  BY <1>6
<1>8. Max(T) \in T /\ \A t \in T : Max(T) >= t
  BY <1>7 DEF Max
<1> QED BY <1>8

LEMMA ForwardsWell ==
  ASSUME QueueInv, NEW addr, Forwards(addr) # None
  PROVE  /\ Forwards(addr) \in SqIdx
         /\ sq_entry[Forwards(addr)] \in Word
<1>1. Matches(addr) # {} /\ Forwards(addr) = Max(Matches(addr))
  BY DEF Forwards
<1>2. Matches(addr) \in SUBSET (0..(SqN - 1)) /\ SqN - 1 \in Nat
  BY Sizes DEF Matches
<1>3. Forwards(addr) \in Matches(addr)
  BY <1>1, <1>2, Largest
<1> QED BY <1>3 DEF Matches, QueueInv, Known

\* With fewer instructions in flight than tags, some tag is free.
LEMMA FreeTagIs ==
  ASSUME TypeOK, Len(rob) # RobN
  PROVE  FreeTag \in Tag /\ \A k \in DOMAIN rob : rob[k].tag # FreeTag
<1> DEFINE n == Len(rob)
<1>1. /\ rob \in Seq(MemInstr) /\ n \in Nat /\ n <= RobN /\ RobN \in Nat /\ DOMAIN rob = 1..n
      /\ n # RobN
  BY Sizes, LenProperties DEF TypeOK
<1> HIDE DEF n
<1>2. n < RobN
  BY ONLY <1>1
<1>3. \E t \in Tag : \A k \in DOMAIN rob : rob[k].tag # t
  <2> SUFFICES ASSUME \A t \in Tag : \E k \in DOMAIN rob : rob[k].tag = t
               PROVE  FALSE
    OBVIOUS
  <2> DEFINE f == [t \in Tag |-> CHOOSE k \in 1..n : rob[k].tag = t]
  <2>1. \A t \in Tag : f[t] \in 1..n /\ rob[f[t]].tag = t
    BY <1>1
  <2>2. f \in [Tag -> 1..n]
    BY <2>1
  <2>3. IsFiniteSet(Tag) /\ Cardinality(Tag) = RobN
    <3>1. RobN - 1 \in Int /\ 0 \in Int /\ ~(0 > RobN - 1) /\ (RobN - 1) - 0 + 1 = RobN
      BY ONLY <1>1, <1>2
    <3> QED BY <3>1, FS_Interval DEF Tag
  <2>4. IsFiniteSet(1..n) /\ Cardinality(1..n) = n
    <3>1. n \in Int /\ 1 \in Int /\ (IF 1 > n THEN 0 ELSE n - 1 + 1) = n
      BY ONLY <1>1
    <3> QED BY <3>1, FS_Interval
  <2> HIDE DEF f
  <2>5. Cardinality(1..n) < Cardinality(Tag)
    BY <1>2, <2>3, <2>4
  <2> DEFINE K == 1..n
  <2> HIDE DEF K
  <2>6. \E x, y \in Tag : x # y /\ f[x] = f[y]
    <3>1. IsFiniteSet(K) /\ Cardinality(K) < Cardinality(Tag) /\ f \in [Tag -> K]
      BY <2>2, <2>4, <2>5 DEF K
    <3> QED BY <2>3, <3>1, FS_PigeonHole
  <2> QED BY <2>1, <2>6
<1> QED BY <1>3 DEF FreeTag, n

\* What may come from the core in a cycle.
LEMMA InputsWell ==
  ASSUME QueueInv, NEW d, NEW ld, NEW st, NEW r, NEW accept, NEW serve,
         Step(d, ld, st, r, accept, serve)
  PROVE  /\ d \in {None, "load", "store"} /\ (d # None => Len(rob) < RobN)
         /\ ld # None => /\ ld.k \in DOMAIN rob /\ ld.addr \in Addr /\ ~ld_in_flight
                         /\ rob[ld.k].op = "load" /\ rob[ld.k].stage = "waiting"
         /\ st # None => /\ st.k \in DOMAIN rob /\ st.addr \in Addr /\ st.data \in Val
                         /\ rob[st.k].op = "store" /\ rob[st.k].stage = "waiting"
                         /\ st.idx = rob[st.k].idx
         /\ Len(r) \in Nat /\ DOMAIN r = 1..Len(r) /\ Len(r) <= Len(rob)
         /\ \A k \in 1..Len(r) : rob[k].stage = "done"
<1>1. rob \in Seq(MemInstr) /\ Len(rob) \in Nat /\ Len(rob) <= RobN /\ RobN \in Nat
  BY Sizes, LenProperties DEF QueueInv, TypeOK
<1>2. d \in {None, "load", "store"} /\ (d # None => Len(rob) < RobN)
  BY <1>1 DEF Step, DispatchInput
<1>3. ld # None => /\ ld.k \in DOMAIN rob /\ ld.addr \in Addr /\ ~ld_in_flight
                   /\ rob[ld.k].op = "load" /\ rob[ld.k].stage = "waiting"
  BY DEF Step, LoadInput, Waiting
<1>4. st # None => /\ st.k \in DOMAIN rob /\ st.addr \in Addr /\ st.data \in Val
                   /\ rob[st.k].op = "store" /\ rob[st.k].stage = "waiting"
                   /\ st.idx = rob[st.k].idx
  <2> SUFFICES ASSUME st # None
               PROVE  /\ st.k \in DOMAIN rob /\ st.addr \in Addr /\ st.data \in Val
                      /\ rob[st.k].op = "store" /\ rob[st.k].stage = "waiting"
                      /\ st.idx = rob[st.k].idx
    OBVIOUS
  <2>1. PICK k \in Waiting("store"), w \in Word :
          st = [k |-> k, idx |-> rob[k].idx, addr |-> w.addr, data |-> w.data]
    BY DEF Step, StoreInput
  <2>2. st.k = k /\ st.idx = rob[k].idx /\ st.addr = w.addr /\ st.data = w.data
    BY <2>1
  <2> QED BY <2>1, <2>2 DEF Waiting, Word
<1>5. /\ r \in {<< >>, <<"U">>, <<"V">>, <<"U", "V">>} /\ Len(r) <= Len(rob)
      /\ \A k \in DOMAIN r : rob[k].stage = "done"
  BY DEF Step, RetireInput
<1>6. Len(r) \in Nat /\ DOMAIN r = 1..Len(r)
  <2>1. << >> \in Seq({"U", "V"}) /\ <<"U">> \in Seq({"U", "V"})
        /\ <<"V">> \in Seq({"U", "V"}) /\ <<"U", "V">> \in Seq({"U", "V"})
    OBVIOUS
  <2>2. r \in Seq({"U", "V"})
    BY <1>5, <2>1
  <2> QED BY <2>2, LenProperties
<1> QED BY <1>2, <1>3, <1>4, <1>5, <1>6

\* The instructions that retire leave at the front, one that is dispatched
\* comes in at the end, and results change stages only.
LEMMA RobMoves ==
  ASSUME QueueInv, NEW d, NEW ld, NEW st, NEW r, NEW accept, NEW serve,
         Step(d, ld, st, r, accept, serve)
  PROVE  LET e == One(d # None)
             q == Len(r)
             n == Len(rob)
         IN  /\ rob' \in Seq(MemInstr) /\ n \in Nat /\ q \in 0..n
             /\ DOMAIN rob = 1..n /\ DOMAIN rob' = 1..(n - q + e)
             /\ Len(rob') = n - q + e /\ Len(rob') <= RobN
             /\ \A k \in 1..(n - q) :
                  /\ k + q \in 1..n
                  /\ rob'[k].tag = rob[k + q].tag /\ rob'[k].op = rob[k + q].op
                  /\ rob'[k].idx = rob[k + q].idx /\ rob'[k].stage = Stage(k + q, ld, st)
             /\ d # None =>
                  /\ rob'[n - q + 1].tag = FreeTag /\ rob'[n - q + 1].op = d
                  /\ rob'[n - q + 1].idx = IF d = "load" THEN lq_tail ELSE sq_tail
                  /\ rob'[n - q + 1].stage = "waiting"
<1> DEFINE e == One(d # None)
           q == Len(r)
           n == Len(rob)
           now == [k \in DOMAIN rob |-> [rob[k] EXCEPT !.stage = Stage(k, ld, st)]]
           new == [tag |-> FreeTag, op |-> d, stage |-> "waiting",
                   idx |-> IF d = "load" THEN lq_tail ELSE sq_tail]
           more == IF d = None THEN << >> ELSE <<new>>
           rest == SubSeq(now, q + 1, n)
<1>1. /\ rob \in Seq(MemInstr) /\ n \in Nat /\ n <= RobN /\ RobN \in Nat /\ DOMAIN rob = 1..n
      /\ lq_tail \in LqIdx /\ sq_tail \in SqIdx
  BY Sizes, LenProperties DEF QueueInv, TypeOK
<1>2. q \in 0..n /\ d \in {None, "load", "store"} /\ (d # None => n < RobN)
  BY <1>1, InputsWell
<1>3. rob' = rest \o more
  BY DEF Step, Cycle, RobClock
<1>4. /\ now \in Seq(MemInstr) /\ Len(now) = n
      /\ \A k \in 1..n : /\ now[k].tag = rob[k].tag /\ now[k].op = rob[k].op
                         /\ now[k].idx = rob[k].idx /\ now[k].stage = Stage(k, ld, st)
  <2>1. \A k \in 1..n : rob[k] \in MemInstr
    BY <1>1, ElementOfSeq
  <2>2. \A k \in 1..n : Stage(k, ld, st) \in {"waiting", "issued", "done"}
    BY <2>1 DEF Stage, MemInstr
  <2>3. \A k \in 1..n : /\ now[k] \in MemInstr
                        /\ now[k].tag = rob[k].tag /\ now[k].op = rob[k].op
                        /\ now[k].idx = rob[k].idx /\ now[k].stage = Stage(k, ld, st)
    BY <1>1, <2>1, <2>2 DEF MemInstr
  <2>4. now = [k \in 1..n |-> now[k]]
    BY <1>1
  <2>5. now \in [1..n -> MemInstr]
    BY <2>3, <2>4
  <2> HIDE DEF now
  <2>6. now \in Seq(MemInstr) /\ Len(now) = n
    <3>1. now \in Seq(MemInstr)
      BY <1>1, <2>5, SeqDef
    <3> QED BY <1>1, <2>5, <3>1, LenProperties
  <2> QED BY <2>3, <2>6
<1>5. d # None => new \in MemInstr
  <2>1. d # None => FreeTag \in Tag
    <3>1. TypeOK /\ (d # None => Len(rob) # RobN)
      <4>1. TypeOK
        BY DEF QueueInv
      <4>2. d # None => n # RobN
        <5> HIDE DEF n
        <5> SUFFICES ASSUME d # None, n = RobN PROVE FALSE
          OBVIOUS
        <5>1. n < RobN
          BY <1>2
        <5> QED BY ONLY <5>1, <1>1, n = RobN
      <4> QED BY <4>1, <4>2
    <3> QED BY <3>1, FreeTagIs
  <2> QED BY <1>1, <1>2, <2>1 DEF MemInstr
<1>6. /\ more \in Seq(MemInstr) /\ Len(more) = One(d # None)
      /\ d # None => more[1] = new
  <2>1. CASE d = None
    <3>1. more = << >>
      BY <2>1
    <3> QED BY <2>1, <3>1, EmptySeq DEF One
  <2>2. CASE d # None
    <3>1. more = <<new>> /\ new \in MemInstr
      BY <1>5, <2>2
    <3> HIDE DEF new, more
    <3> QED BY <2>2, <3>1 DEF One
  <2> QED BY <2>1, <2>2
<1> HIDE DEF now, n, q
<1>7. /\ rest \in Seq(MemInstr) /\ Len(rest) = n - q
      /\ \A k \in 1..(n - q) : rest[k] = now[k + q]
  <2>1. /\ q + 1 \in 1..(Len(now) + 1) /\ n \in (q + 1 - 1)..Len(now)
    BY ONLY <1>1, <1>2, <1>4
  <2>2. /\ rest \in Seq(MemInstr)
        /\ Len(rest) = IF q + 1 <= n THEN n - (q + 1) + 1 ELSE 0
        /\ \A k \in 1..(n - (q + 1) + 1) : rest[k] = now[(q + 1) + k - 1]
    BY <1>4, <2>1, SubSeqProperties
  <2>3. Len(rest) = n - q
    BY ONLY <1>1, <1>2, <2>2
  <2>4. \A k \in 1..(n - q) : k \in 1..(n - (q + 1) + 1) /\ (q + 1) + k - 1 = k + q
    BY ONLY <1>1, <1>2
  <2> QED BY <2>2, <2>3, <2>4
<1> HIDE DEF rest, more, new
<1>8. /\ rest \o more \in Seq(MemInstr) /\ Len(rest \o more) = Len(rest) + Len(more)
      /\ \A k \in 1..(Len(rest) + Len(more)) :
           (rest \o more)[k] = IF k <= Len(rest) THEN rest[k] ELSE more[k - Len(rest)]
  BY <1>6, <1>7, ConcatProperties
<1>9. e \in {0, 1} /\ (d # None <=> e = 1) /\ e = One(d # None)
  BY DEF One
<1> HIDE DEF e
<1>10. rob' \in Seq(MemInstr) /\ Len(rob') = n - q + e /\ DOMAIN rob' = 1..(n - q + e)
  <2>1. rob' \in Seq(MemInstr) /\ Len(rob') = n - q + e
    BY ONLY <1>3, <1>6, <1>7, <1>8, <1>9
  <2> QED BY <2>1, LenProperties
<1>11. n - q + e <= RobN
  BY ONLY <1>1, <1>2, <1>9
<1>12. ASSUME NEW k \in 1..(n - q)
       PROVE  /\ k + q \in 1..n
              /\ rob'[k].tag = rob[k + q].tag /\ rob'[k].op = rob[k + q].op
              /\ rob'[k].idx = rob[k + q].idx /\ rob'[k].stage = Stage(k + q, ld, st)
  <2>1. k \in 1..(Len(rest) + Len(more)) /\ k <= Len(rest) /\ k + q \in 1..n
    BY ONLY <1>1, <1>2, <1>6, <1>7, <1>9, <1>12
  <2>2. rob'[k] = now[k + q]
    BY <1>3, <1>7, <1>8, <2>1
  <2> QED BY <1>4, <2>1, <2>2
<1>13. d # None => rob'[n - q + 1] = new
  <2> SUFFICES ASSUME d # None PROVE rob'[n - q + 1] = new
    OBVIOUS
  <2>1. /\ n - q + 1 \in 1..(Len(rest) + Len(more)) /\ ~(n - q + 1 <= Len(rest))
        /\ (n - q + 1) - Len(rest) = 1
    BY ONLY <1>1, <1>2, <1>6, <1>7, <1>9, d # None
  <2> QED BY <1>3, <1>6, <1>8, <2>1
<1>14. /\ new.tag = FreeTag /\ new.op = d /\ new.stage = "waiting"
       /\ new.idx = IF d = "load" THEN lq_tail ELSE sq_tail
  BY DEF new
<1> QED BY <1>1, <1>2, <1>10, <1>11, <1>12, <1>13, <1>14 DEF e, n, q

LEMMA LqStep ==
  ASSUME QueueInv, NEW d, NEW ld, NEW st, NEW r, NEW accept, NEW serve,
         Step(d, ld, st, r, accept, serve)
  PROVE  /\ lq_valid' \in [LqIdx -> BOOLEAN] /\ lq_executed' \in [LqIdx -> BOOLEAN]
         /\ lq_rob_tag' \in [LqIdx -> Tag]
         /\ lq_head' \in LqIdx /\ lq_tail' \in LqIdx /\ lq_count' \in 0..(2 * LqN - 1)
<1> DEFINE m == 2 * LqN
<1>1. LqClock(d = "load", FreeTag)
  BY StepParts
<1>2. /\ lq_valid \in [LqIdx -> BOOLEAN] /\ lq_executed \in [LqIdx -> BOOLEAN]
      /\ lq_rob_tag \in [LqIdx -> Tag] /\ lq_head \in LqIdx /\ lq_tail \in LqIdx
      /\ LqIdx = 0..(LqN - 1) /\ LqN \in Nat /\ LqN >= 1 /\ m \in Nat /\ m = LqN + LqN
      /\ lq_count \in 0..(m - 1)
  BY Sizes DEF QueueInv, TypeOK
<1>3. d = "load" => lq_count < LqN /\ FreeTag \in Tag
  <2>1. d = "load" => ~lq_full /\ Len(rob) # RobN
    BY IdleAssumption DEF Step, DispatchInput
  <2> QED BY <1>2, <2>1, FreeTagIs DEF lq_full, QueueInv
<1>4. lq_valid' \in [LqIdx -> BOOLEAN] /\ lq_executed' \in [LqIdx -> BOOLEAN]
  BY <1>1, <1>2 DEF LqClock
<1>5. lq_rob_tag' \in [LqIdx -> Tag]
  BY <1>1, <1>2, <1>3 DEF LqClock
<1>6. \A x \in 0..(LqN - 1) : (x + 1) % LqN \in LqIdx
  BY <1>2, RingFacts
<1>7. lq_head' \in LqIdx /\ lq_tail' \in LqIdx
  <2>1. /\ lq_head' \in {lq_head, (lq_head + 1) % LqN}
        /\ lq_tail' \in {lq_tail, (lq_tail + 1) % LqN}
    BY <1>1 DEF LqClock
  <2> QED BY <1>2, <1>6, <2>1
<1>8. lq_count' \in {lq_count, (lq_count + m - 1) % m} \/ (d = "load" /\ lq_count' = lq_count + 1)
  BY <1>1 DEF LqClock
<1> HIDE DEF m
<1>9. (lq_count + m - 1) % m \in 0..(m - 1)
  <2> DEFINE x == lq_count + m - 1
  <2>1. x \in Int /\ m \in Nat /\ m >= 1
    BY ONLY <1>2
  <2> HIDE DEF x
  <2>2. x % m \in 0..(m - 1)
    BY ONLY <2>1
  <2> QED BY <2>2 DEF x
<1>10. d = "load" => lq_count + 1 \in 0..(m - 1)
  BY ONLY <1>2, <1>3
<1>11. lq_count' \in 0..(m - 1)
  BY ONLY <1>2, <1>8, <1>9, <1>10
<1> QED BY <1>4, <1>5, <1>7, <1>11 DEF m

LEMMA SqStep ==
  ASSUME QueueInv, NEW d, NEW ld, NEW st, NEW r, NEW accept, NEW serve,
         Step(d, ld, st, r, accept, serve)
  PROVE  /\ sq_valid' \in [SqIdx -> BOOLEAN] /\ sq_ready' \in [SqIdx -> BOOLEAN]
         /\ sq_committed' \in [SqIdx -> BOOLEAN]
         /\ sq_entry' \in [SqIdx -> Word \cup {None}]
         /\ sq_head' \in SqIdx /\ sq_tail' \in SqIdx /\ sq_drain_ptr' \in SqIdx
         /\ \A i \in SqIdx : sq_ready'[i] => sq_entry'[i] \in Word
<1>1. SqClock(d = "store", st, Commits(r), Granted(accept) /\ Req.wr)
  BY StepParts
<1>2. /\ sq_valid \in [SqIdx -> BOOLEAN] /\ sq_ready \in [SqIdx -> BOOLEAN]
      /\ sq_committed \in [SqIdx -> BOOLEAN] /\ sq_entry \in [SqIdx -> Word \cup {None}]
      /\ sq_head \in SqIdx /\ sq_tail \in SqIdx /\ sq_drain_ptr \in SqIdx
      /\ SqIdx = 0..(SqN - 1) /\ SqN \in Nat /\ SqN >= 1
      /\ \A i \in SqIdx : sq_ready[i] => sq_entry[i] \in Word
  BY Sizes DEF QueueInv, TypeOK, Known
<1>3. st # None => [addr |-> st.addr, data |-> st.data] \in Word
  <2>1. st # None => st.addr \in Addr /\ st.data \in Val
    BY InputsWell
  <2> QED BY <2>1 DEF Word
<1>4. sq_valid' \in [SqIdx -> BOOLEAN]
  BY <1>1 DEF SqClock
<1>5. sq_ready' \in [SqIdx -> BOOLEAN] /\ sq_committed' \in [SqIdx -> BOOLEAN]
  BY <1>1 DEF SqClock
<1> DEFINE computed(i) == st # None /\ st.idx = i /\ sq_valid[i]
           e == [addr |-> st.addr, data |-> st.data]
<1>6. /\ sq_entry' = [i \in SqIdx |-> IF computed(i) THEN e ELSE sq_entry[i]]
      /\ \A i \in SqIdx : sq_ready'[i] => computed(i) \/ sq_ready[i]
  BY <1>1 DEF SqClock
<1>7. \A i : computed(i) => e \in Word
  BY <1>3
<1> HIDE DEF computed, e
<1>8. sq_entry' \in [SqIdx -> Word \cup {None}]
  BY <1>2, <1>6, <1>7
<1>9. \A i \in SqIdx : sq_ready'[i] => sq_entry'[i] \in Word
  BY <1>2, <1>6, <1>7
<1>10. \A x \in 0..(SqN - 1) : (x + 1) % SqN \in SqIdx
  BY <1>2, RingFacts
<1>11. /\ sq_head' \in {sq_head, (sq_head + 1) % SqN}
       /\ sq_tail' \in {sq_tail, (sq_tail + 1) % SqN}
       /\ sq_drain_ptr' \in {sq_drain_ptr, (sq_drain_ptr + 1) % SqN}
  BY <1>1 DEF SqClock
<1>12. sq_head' \in SqIdx /\ sq_tail' \in SqIdx /\ sq_drain_ptr' \in SqIdx
  BY <1>2, <1>10, <1>11
<1> QED BY <1>4, <1>5, <1>8, <1>9, <1>12

LEMMA LsqStep ==
  ASSUME QueueInv, NEW d, NEW ld, NEW st, NEW r, NEW accept, NEW serve,
         Step(d, ld, st, r, accept, serve)
  PROVE  LsqTypeOK' /\ (ld_state' = "WAIT" => ld_wait_addr' \in Addr)
<1> DEFINE fwd == IF Entered(ld) /\ Source(ld) = None THEN ld.addr ELSE None
<1>1. Active(fwd, ld_pipe_fwd, drain_store, Granted(accept), Rsp(serve))
  BY StepParts
<1>2. LsqTypeOK /\ ld_pipe_fwd \in Val \cup {None} /\ (ld_state = "WAIT" => ld_wait_addr \in Addr)
  BY DEF QueueInv, TypeOK, Known
<1>3. fwd \in Addr \cup {None}
  <2>1. ld # None => ld.addr \in Addr
    BY InputsWell
  <2> QED BY <2>1 DEF Entered
<1> HIDE DEF fwd
<1>4. ld_pipe' \in Addr \cup {None} /\ ld_state' \in {"IDLE", "WAIT"}
      /\ ld_wait_addr' \in Addr \cup {None}
      /\ (ld_state' = "WAIT" => ld_wait_addr' \in Addr)
  BY <1>1, <1>2, <1>3 DEF Active, LsqTypeOK
<1>5. ld_req_issued' \in BOOLEAN /\ ld_cdb' \in Val \cup {None}
  BY <1>1, <1>2 DEF Active, LsqTypeOK
<1>6. LET g == Granted(accept)
          s == Answers(serve)
      IN  /\ g => pend_count < PendDepth
          /\ s => pend_count >= 1
          /\ pend_count' = pend_count + One(g) - One(s)
          /\ pend_rd_ptr' = IF s THEN (pend_rd_ptr + 1) % PendDepth ELSE pend_rd_ptr
          /\ pend_wr_ptr' = IF g THEN (pend_wr_ptr + 1) % PendDepth ELSE pend_wr_ptr
          /\ pend_valid' = [i \in PendId |-> /\ pend_valid[i] \/ (g /\ i = pend_wr_ptr)
                                             /\ ~(s /\ i = pend_rd_ptr)]
          /\ pend_data' = IF g THEN [pend_data EXCEPT ![pend_wr_ptr] =
                                       [is_load |-> ~Req.wr, addr |-> Req.addr]]
                          ELSE pend_data
          /\ store_drain_ack' = (s /\ chan[1].wr)
          /\ be_resp' \in Val \cup {None}
  BY TableMoves
<1>7. pend_valid' \in [PendId -> BOOLEAN] /\ be_resp' \in Val \cup {None}
  BY <1>6
<1>8. store_drain_ack' \in BOOLEAN
  BY <1>1 DEF Active
<1>9. pend_data' \in [PendId -> PendEntry \cup {None}]
  <2>1. Granted(accept) => [is_load |-> ~Req.wr, addr |-> Req.addr] \in PendEntry
    <3>1. Granted(accept) => Req \in Request
      BY RequestFacts DEF Granted
    <3> QED BY <3>1 DEF Request, PendEntry
  <2>2. pend_data \in [PendId -> PendEntry \cup {None}]
    BY <1>2 DEF LsqTypeOK
  <2> QED BY <1>6, <2>1, <2>2
<1>10. \A x \in 0..(PendDepth - 1) : (x + 1) % PendDepth \in PendId
  <2>1. PendDepth \in Nat /\ PendDepth >= 1 /\ PendId = 0..(PendDepth - 1)
    BY Sizes
  <2> QED BY <2>1, RingFacts
<1>11. pend_wr_ptr' \in PendId /\ pend_rd_ptr' \in PendId
  <2>1. pend_wr_ptr \in 0..(PendDepth - 1) /\ pend_rd_ptr \in 0..(PendDepth - 1)
    BY <1>2, Sizes DEF LsqTypeOK
  <2> QED BY <1>6, <1>10, <2>1 DEF PendId
<1>12. pend_count' \in 0..PendDepth
  <2> DEFINE in == One(Granted(accept))
             out == One(Answers(serve))
  <2>1. /\ in \in {0, 1} /\ out \in {0, 1} /\ (in = 1 => pend_count < PendDepth)
        /\ (out = 1 => pend_count >= 1) /\ pend_count' = pend_count + in - out
    BY <1>6 DEF One
  <2>2. pend_count \in 0..PendDepth /\ PendDepth \in Nat
    BY <1>2, Sizes DEF LsqTypeOK
  <2> HIDE DEF in, out
  <2> QED BY ONLY <2>1, <2>2
<1> QED BY <1>4, <1>5, <1>7, <1>8, <1>9, <1>11, <1>12 DEF LsqTypeOK

LEMMA LoadRegistersStep ==
  ASSUME QueueInv, NEW d, NEW ld, NEW st, NEW r, NEW accept, NEW serve,
         Step(d, ld, st, r, accept, serve)
  PROVE  /\ ld_pipe_idx' \in LqIdx /\ ld_result_idx' \in LqIdx /\ ld_cdb_tag' \in Tag
         /\ ld_pipe_fwd' \in Val \cup {None} /\ ld_in_flight' \in BOOLEAN
         /\ mem' \in [Addr -> Val]
<1>1. /\ ld_pipe_idx \in LqIdx /\ ld_result_idx \in LqIdx /\ ld_cdb_tag \in Tag
      /\ lq_rob_tag \in [LqIdx -> Tag] /\ mem \in [Addr -> Val]
      /\ \A k \in DOMAIN rob : rob[k].op = "load" => rob[k].idx \in LqIdx
  BY DEF QueueInv, TypeOK, Known
<1>2. ld_pipe_idx' \in LqIdx
  <2>1. ld # None => rob[ld.k].idx \in LqIdx
    BY <1>1, InputsWell
  <2>2. ld_pipe_idx' = IF Entered(ld) THEN rob[ld.k].idx ELSE ld_pipe_idx
    BY StepParts
  <2> QED BY <1>1, <2>1, <2>2 DEF Entered
<1>3. ld_result_idx' \in LqIdx
  <2>1. ld_result_idx' \in {ld_pipe_idx, ld_result_idx}
    BY StepParts
  <2> QED BY <1>1, <2>1
<1>4. ld_cdb_tag' \in Tag
  <2>1. Executed # None => Executed \in LqIdx
    BY <1>1 DEF Executed
  <2>2. ld_cdb_tag' = IF Executed # None THEN lq_rob_tag[Executed] ELSE ld_cdb_tag
    BY StepParts
  <2> QED BY <1>1, <2>1, <2>2
<1>5. ld_pipe_fwd' \in Val \cup {None}
  <2>1. ld_pipe_fwd' = IF Source(ld) # None THEN sq_entry[Source(ld)].data ELSE None
    BY StepParts
  <2>2. CASE Source(ld) # None
    <3>1. Source(ld) = Forwards(ld.addr)
      BY <2>2 DEF Source
    <3>2. sq_entry[Source(ld)] \in Word
      BY <2>2, <3>1, ForwardsWell
    <3> QED BY <2>1, <2>2, <3>2 DEF Word
  <2> QED BY <2>1, <2>2
<1>6. ld_in_flight' \in BOOLEAN
  <2>1. ld_in_flight' = (ld_cdb = None /\ (ld_in_flight \/ ld # None))
    BY StepParts
  <2> QED BY <2>1
<1>7. mem' \in [Addr -> Val]
  <2>0. mem' = Effect(Served(serve))
    BY DEF Step, Cycle
  <2>1. mem' = Effect(Served(serve)) /\ serve \in BOOLEAN
    BY <2>0 DEF Step
  <2>2. Served(serve) # None => /\ Served(serve) = chan[1] /\ Answers(serve)
                                /\ Len(chan) \in Nat /\ Len(chan) >= 1
    BY <2>1, AnswerFacts
  <2>3. Served(serve) # None => 1 \in 1..Len(chan)
    BY <2>2
  <2>4. Served(serve) # None /\ Served(serve).wr => Served(serve).data \in Val
    BY <2>2, <2>3 DEF QueueInv, PendingInOrder
  <2> QED BY <1>1, <2>1, <2>4 DEF Effect
<1> QED BY <1>2, <1>3, <1>4, <1>5, <1>6, <1>7

LEMMA CycleKeepsQueueInv ==
  ASSUME QueueInv, NEW d, NEW ld, NEW st, NEW r, NEW accept, NEW serve,
         Step(d, ld, st, r, accept, serve)
  PROVE  QueueInv'
<1>1. SqAccounted' /\ sq_count' \in 0..SqN
  BY AccountedStep
<1>2. PendingInOrder'
  BY PendingStep
<1>3. rob' \in Seq(MemInstr) /\ Len(rob') <= RobN
  BY RobMoves
<1>4. chan' \in Seq(Request) /\ Len(chan') <= PendDepth
  <2>1. chan' \in Seq(Request)
    BY ChannelMoves
  <2>2. Len(chan') = pend_count' /\ pend_count' \in 0..PendDepth
    BY <1>2, LsqStep DEF PendingInOrder, LsqTypeOK
  <2> QED BY <2>1, <2>2, Sizes
<1>5. TypeOK'
  <2>1. /\ sq_valid' \in [SqIdx -> BOOLEAN] /\ sq_ready' \in [SqIdx -> BOOLEAN]
        /\ sq_committed' \in [SqIdx -> BOOLEAN]
        /\ sq_entry' \in [SqIdx -> Word \cup {None}]
        /\ sq_head' \in SqIdx /\ sq_tail' \in SqIdx /\ sq_drain_ptr' \in SqIdx
    BY SqStep
  <2>2. LsqTypeOK'
    BY LsqStep
  <2>3. /\ lq_valid' \in [LqIdx -> BOOLEAN] /\ lq_executed' \in [LqIdx -> BOOLEAN]
        /\ lq_rob_tag' \in [LqIdx -> Tag]
        /\ lq_head' \in LqIdx /\ lq_tail' \in LqIdx /\ lq_count' \in 0..(2 * LqN - 1)
    BY LqStep
  <2> QED BY <1>1, <1>3, <1>4, <2>1, <2>2, <2>3, LoadRegistersStep DEF TypeOK
<1>6. Known'
  <2>1. ASSUME NEW k \in DOMAIN rob', rob'[k].op = "load" PROVE rob'[k].idx \in LqIdx
    <3> DEFINE q == Len(r)
               n == Len(rob)
               e == One(d # None)
    <3>1. /\ n \in Nat /\ q \in 0..n /\ DOMAIN rob' = 1..(n - q + e) /\ DOMAIN rob = 1..n
          /\ \A l \in 1..(n - q) :
               /\ l + q \in 1..n /\ rob'[l].op = rob[l + q].op /\ rob'[l].idx = rob[l + q].idx
          /\ d # None => /\ rob'[n - q + 1].op = d
                         /\ rob'[n - q + 1].idx = IF d = "load" THEN lq_tail ELSE sq_tail
      BY RobMoves
    <3>2. e \in {0, 1} /\ (e = 1 => d # None)
      BY DEF One
    <3>3. lq_tail \in LqIdx
      BY DEF QueueInv, TypeOK
    <3> HIDE DEF n, q, e
    <3>4. k \in 1..(n - q) \/ (e = 1 /\ k = n - q + 1)
      BY ONLY <3>1, <3>2, <2>1
    <3>5. CASE k \in 1..(n - q)
      <4>1. rob[k + q].op = "load" /\ k + q \in DOMAIN rob
        BY <2>1, <3>1, <3>5
      <4> QED BY <3>1, <3>5, <4>1 DEF QueueInv, Known
    <3>6. CASE e = 1 /\ k = n - q + 1
      BY <2>1, <3>1, <3>2, <3>3, <3>6
    <3> QED BY <3>4, <3>5, <3>6
  <2>2. ld_state' = "WAIT" => ld_wait_addr' \in Addr
    BY LsqStep
  <2>3. \A i \in SqIdx : sq_ready'[i] => sq_entry'[i] \in Word
    BY SqStep
  <2> QED BY <2>1, <2>2, <2>3 DEF Known
<1> QED BY <1>1, <1>2, <1>5, <1>6 DEF QueueInv

-----------------------------------------------------------------------------
(***************************************************************************)
(* The queue stays accounted for                                           *)
(***************************************************************************)

\* An empty queue with nothing pending and no load on its way.
Empty ==
  /\ pend_valid = [i \in PendId |-> FALSE]
  /\ pend_wr_ptr = 0 /\ pend_rd_ptr = 0 /\ pend_count = 0 /\ store_drain_ack = FALSE
  /\ sq_valid = [i \in SqIdx |-> FALSE] /\ sq_ready = [i \in SqIdx |-> FALSE]
  /\ sq_head = 0 /\ sq_tail = 0 /\ sq_count = 0 /\ sq_drain_ptr = 0
  /\ ld_state = "IDLE" /\ ld_pipe = None /\ ld_pipe_fwd = None /\ ld_cdb = None
  /\ rob = << >> /\ chan = << >>

LEMMA EmptyAccounted ==
  ASSUME Empty
  PROVE  SqAccounted /\ PendingInOrder /\ Known /\ Issued = 0
<1>1. 0 % SqN = 0 /\ 0 % PendDepth = 0
  <2>1. 0 \in 0..(2 * SqN - 1) /\ 0 \in 0..(2 * PendDepth - 1)
        /\ SqN \in Nat /\ SqN >= 1 /\ PendDepth \in Nat /\ PendDepth >= 1
    BY Sizes
  <2> QED BY <2>1, Wrap
<1>2. Len(chan) = 0 /\ DOMAIN rob = {} /\ 1..0 = {}
  <2>1. chan = << >> /\ rob = << >>
    BY DEF Empty
  <2>2. Len(chan) = 0 /\ DOMAIN rob = 1..0
    BY <2>1
  <2> QED BY <2>2
<1>3. {i \in PendId : pend_valid[i] /\ ~pend_data[i].is_load} = {}
  BY DEF Empty
<1>4. Issued = 0
  <2>1. Cardinality({i \in PendId : pend_valid[i] /\ ~pend_data[i].is_load}) = 0
    BY <1>3, FS_EmptySet
  <2>2. store_drain_ack = FALSE
    BY DEF Empty
  <2> QED BY <2>1, <2>2 DEF Issued
<1>5. SqAccounted
  <2>1. /\ sq_head + sq_count = 0 /\ sq_head + Issued = 0 /\ sq_tail = 0 /\ sq_drain_ptr = 0
        /\ Issued <= sq_count /\ 1..sq_count = {} /\ 1..Issued = {}
    BY <1>4, <1>2 DEF Empty
  <2>2. {i \in SqIdx : sq_valid[i]} = {}
    BY DEF Empty
  <2> QED BY <1>1, <2>1, <2>2 DEF SqAccounted
<1>6. PendingInOrder
  <2>1. Ring(PendDepth, 0, 0 + 1) = 0
    BY <1>1 DEF Ring
  <2> QED BY <1>2, <2>1 DEF PendingInOrder, Empty
<1>7. Known
  BY <1>2 DEF Known, Empty
<1> QED BY <1>4, <1>5, <1>6, <1>7

LEMMA FlushEmpties ==
  ASSUME QueueInv, NEW serve \in BOOLEAN, Flush(serve)
  PROVE  Empty' /\ QueueInv'
<1>1. Forget /\ LqReset /\ SqReset
  BY DEF Flush, LsqClock
<1>2. Empty'
  BY <1>1 DEF Flush, Forget, SqReset, Empty
<1>3. SqAccounted' /\ PendingInOrder' /\ Known'
  BY <1>2, EmptyAccounted, PTL
<1>4. TypeOK'
  <2>1. 0 \in PendId /\ 0 \in SqIdx /\ 0 \in LqIdx /\ 0 \in 0..PendDepth /\ 0 \in 0..SqN
        /\ 0 \in 0..(2 * LqN - 1) /\ 0 <= PendDepth /\ 0 <= RobN
    BY Sizes
  <2>2. LsqTypeOK'
    BY <1>1, <2>1 DEF Forget, LsqTypeOK, QueueInv, TypeOK
  <2>3. /\ lq_valid' \in [LqIdx -> BOOLEAN] /\ lq_executed' \in [LqIdx -> BOOLEAN]
        /\ lq_rob_tag' \in [LqIdx -> Tag]
        /\ lq_head' \in LqIdx /\ lq_tail' \in LqIdx /\ lq_count' \in 0..(2 * LqN - 1)
    BY <1>1, <2>1 DEF LqReset, QueueInv, TypeOK
  <2>4. /\ sq_valid' \in [SqIdx -> BOOLEAN] /\ sq_ready' \in [SqIdx -> BOOLEAN]
        /\ sq_committed' \in [SqIdx -> BOOLEAN]
        /\ sq_entry' \in [SqIdx -> Word \cup {None}]
        /\ sq_head' \in SqIdx /\ sq_tail' \in SqIdx /\ sq_drain_ptr' \in SqIdx
        /\ sq_count' \in 0..SqN
    BY <1>1, <2>1 DEF SqReset, QueueInv, TypeOK
  <2>5. /\ ld_pipe_idx' \in LqIdx /\ ld_result_idx' \in LqIdx /\ ld_cdb_tag' \in Tag
        /\ ld_pipe_fwd' \in Val \cup {None} /\ ld_in_flight' \in BOOLEAN
    BY DEF Flush, QueueInv, TypeOK
  <2>6. /\ rob' \in Seq(MemInstr) /\ Len(rob') <= RobN
        /\ chan' \in Seq(Request) /\ Len(chan') <= PendDepth
    BY <2>1, EmptySeq DEF Flush
  <2>7. mem' \in [Addr -> Val]
    <3>1. mem' = Effect(Served(serve)) /\ mem \in [Addr -> Val]
      BY DEF Flush, QueueInv, TypeOK
    <3>2. Served(serve) # None => /\ Served(serve) = chan[1] /\ Len(chan) \in Nat /\ Len(chan) >= 1
      BY AnswerFacts
    <3>3. Served(serve) # None => 1 \in 1..Len(chan)
      BY <3>2
    <3>4. Served(serve) # None /\ Served(serve).wr => Served(serve).data \in Val
      BY <3>2, <3>3 DEF QueueInv, PendingInOrder
    <3> QED BY <3>1, <3>4 DEF Effect
  <2> QED BY <2>2, <2>3, <2>4, <2>5, <2>6, <2>7 DEF TypeOK
<1> QED BY <1>2, <1>3, <1>4 DEF QueueInv

LEMMA InitQueueInv == Init => QueueInv
<1> SUFFICES ASSUME Init PROVE QueueInv
  OBVIOUS
<1>1. Empty
  BY DEF Init, LsqInit, Empty
<1>2. SqAccounted /\ PendingInOrder /\ Known
  BY <1>1, EmptyAccounted
<1>3. TypeOK
  <2>1. 0 \in PendId /\ 0 \in SqIdx /\ 0 \in LqIdx /\ 0 \in 0..PendDepth /\ 0 \in 0..SqN
        /\ 0 \in 0..(2 * LqN - 1) /\ 0 <= PendDepth /\ 0 <= RobN /\ 0 \in Tag
    BY Sizes DEF Tag
  <2>2. LsqTypeOK
    BY <2>1 DEF Init, LsqInit, LsqTypeOK
  <2>3. /\ rob \in Seq(MemInstr) /\ Len(rob) <= RobN
        /\ chan \in Seq(Request) /\ Len(chan) <= PendDepth
    BY <2>1, EmptySeq DEF Init
  <2>4. /\ lq_valid \in [LqIdx -> BOOLEAN] /\ lq_executed \in [LqIdx -> BOOLEAN]
        /\ lq_rob_tag \in [LqIdx -> Tag]
        /\ lq_head \in LqIdx /\ lq_tail \in LqIdx /\ lq_count \in 0..(2 * LqN - 1)
    BY <2>1 DEF Init
  <2>5. /\ sq_valid \in [SqIdx -> BOOLEAN] /\ sq_ready \in [SqIdx -> BOOLEAN]
        /\ sq_committed \in [SqIdx -> BOOLEAN]
        /\ sq_entry \in [SqIdx -> Word \cup {None}]
        /\ sq_head \in SqIdx /\ sq_tail \in SqIdx /\ sq_drain_ptr \in SqIdx
        /\ sq_count \in 0..SqN
    BY <2>1 DEF Init
  <2>6. /\ ld_pipe_idx \in LqIdx /\ ld_result_idx \in LqIdx /\ ld_cdb_tag \in Tag
        /\ ld_pipe_fwd \in Val \cup {None} /\ ld_in_flight \in BOOLEAN
        /\ mem \in [Addr -> Val]
    BY <2>1 DEF Init
  <2> QED BY <2>2, <2>3, <2>4, <2>5, <2>6 DEF TypeOK
<1> QED BY <1>2, <1>3 DEF QueueInv

\* A clock cycle is a cycle of the queue with some inputs, or a flush.
LEMMA NextIs ==
  ASSUME Next
  PROVE  \/ \E d, ld, st, r, accept, serve : Step(d, ld, st, r, accept, serve)
         \/ \E serve \in BOOLEAN : Flush(serve)
<1>1. CASE \E accept, serve \in BOOLEAN : Run(accept, serve)
  <2>1. PICK accept \in BOOLEAN, serve \in BOOLEAN : Run(accept, serve)
    BY <1>1
  <2>2. PICK d \in DispatchInput, ld \in LoadInput, st \in StoreInput, r \in RetireInput :
          (ld = None \/ st = None) /\ Cycle(d, ld, st, r, accept, serve)
    BY <2>1 DEF Run
  <2>3. Step(d, ld, st, r, accept, serve)
    BY <2>2 DEF Step
  <2> QED BY <2>3
<1> QED BY <1>1 DEF Next, AcceptInput, ServeInput

LEMMA UnchangedQueueInv == QueueInv /\ UNCHANGED vars => QueueInv'
<1> SUFFICES ASSUME QueueInv, UNCHANGED vars PROVE QueueInv'
  OBVIOUS
<1> USE DEF vars, lsq_vars, lq_vars, sq_vars, ld_vars
<1>1. LsqTypeOK'
  BY DEF QueueInv, TypeOK, LsqTypeOK
<1>2. TypeOK'
  BY <1>1 DEF QueueInv, TypeOK
<1>3. Issued' = Issued /\ \A k : SqAt(k)' = SqAt(k)
  BY DEF Issued, SqAt
<1>4. SqAccounted'
  BY <1>3 DEF QueueInv, SqAccounted
<1>5. PendingInOrder' /\ Known'
  BY DEF QueueInv, PendingInOrder, Known, Ring
<1> QED BY <1>2, <1>4, <1>5 DEF QueueInv

LEMMA AlwaysQueueInv == Spec => []QueueInv
<1>1. QueueInv /\ [Next]_vars => QueueInv'
  <2> SUFFICES ASSUME QueueInv, [Next]_vars PROVE QueueInv'
    OBVIOUS
  <2>1. CASE Next
    <3>1. CASE \E d, ld, st, r, accept, serve : Step(d, ld, st, r, accept, serve)
      BY <3>1, CycleKeepsQueueInv
    <3>2. CASE \E serve \in BOOLEAN : Flush(serve)
      BY <3>2, FlushEmpties
    <3> QED BY <2>1, <3>1, <3>2, NextIs
  <2>2. CASE UNCHANGED vars
    BY <2>2, UnchangedQueueInv
  <2> QED BY <2>1, <2>2
<1> QED BY <1>1, InitQueueInv, PTL DEF Spec

\* The registers of the queues keep to the values they are declared for: the
\* store queue never holds more than its entries, and the channel no more
\* requests than the pending table.
THEOREM QueueTypeCorrect == Spec => []TypeOK
<1>1. QueueInv => TypeOK
  BY DEF QueueInv
<1> QED BY <1>1, AlwaysQueueInv, PTL

\* Head, tail, count, drain pointer, pending table and acknowledge always
\* agree: what an acknowledge dequeues is the store that was written.
THEOREM StoresAccounted == Spec => []SqAccounted
<1>1. QueueInv => SqAccounted
  BY DEF QueueInv
<1> QED BY <1>1, AlwaysQueueInv, PTL

-----------------------------------------------------------------------------
(***************************************************************************)
(* Loads                                                                   *)
(***************************************************************************)

\* What completes, in terms of the instruction: a store when it is computed,
\* a load when its result is on the bus.
LEMMA StageIs ==
  ASSUME OrderInv, NEW d, NEW ld, NEW st, NEW r, NEW accept, NEW serve,
         Step(d, ld, st, r, accept, serve), NEW k \in DOMAIN rob
  PROVE  LET now == Stage(k, ld, st) IN
         /\ rob[k].op \in {"load", "store"} /\ rob[k].stage \in {"waiting", "issued", "done"}
         /\ rob[k].op = "store" =>
              now = IF st # None /\ st.k = k THEN "done" ELSE rob[k].stage
         /\ rob[k].op = "load" =>
              now = IF ld_cdb # None /\ ld_cdb_tag = rob[k].tag THEN "done"
                    ELSE IF ld # None /\ ld.k = k THEN "issued" ELSE rob[k].stage
<1>1. rob[k].op \in {"load", "store"} /\ rob[k].stage \in {"waiting", "issued", "done"}
  <2>1. rob \in Seq(MemInstr)
    BY DEF OrderInv, QueueInv, TypeOK
  <2>2. rob[k] \in MemInstr
    BY <2>1, ElementOfSeq, LenProperties
  <2> QED BY <2>2 DEF MemInstr
<1>2. /\ ld # None => rob[ld.k].op = "load" /\ rob[ld.k].stage = "waiting"
      /\ st # None => rob[st.k].op = "store" /\ rob[st.k].stage = "waiting"
  BY InputsWell DEF OrderInv
<1>3. ld_cdb # None /\ ld_cdb_tag = rob[k].tag => rob[k].op = "load"
  BY DEF OrderInv, OneLoad, Tagged
<1> QED BY <1>1, <1>2, <1>3 DEF Stage

\* What the instructions that stay become.
LEMMA Stays ==
  ASSUME OrderInv, NEW d, NEW ld, NEW st, NEW r, NEW accept, NEW serve,
         Step(d, ld, st, r, accept, serve), NEW k \in DOMAIN rob,
         rob[k].stage # "done"
  PROVE  LET j == k - Len(r) IN
         /\ j \in DOMAIN rob' /\ j \in 1..(Len(rob) - Len(r)) /\ k > Len(r)
         /\ rob'[j].tag = rob[k].tag /\ rob'[j].op = rob[k].op /\ rob'[j].idx = rob[k].idx
         /\ rob'[j].stage = Stage(k, ld, st)
         /\ \A l \in DOMAIN rob : l >= k =>
              /\ l - Len(r) \in DOMAIN rob' /\ l - Len(r) \in 1..(Len(rob) - Len(r))
              /\ rob'[l - Len(r)].tag = rob[l].tag /\ rob'[l - Len(r)].op = rob[l].op
<1> DEFINE q == Len(r)
           n == Len(rob)
           e == One(d # None)
<1>1. /\ n \in Nat /\ q \in 0..n /\ DOMAIN rob = 1..n /\ DOMAIN rob' = 1..(n - q + e)
      /\ \A j \in 1..(n - q) :
           /\ rob'[j].tag = rob[j + q].tag /\ rob'[j].op = rob[j + q].op
           /\ rob'[j].idx = rob[j + q].idx /\ rob'[j].stage = Stage(j + q, ld, st)
  BY RobMoves DEF OrderInv
<1>2. \A j \in 1..q : rob[j].stage = "done"
  BY InputsWell DEF OrderInv
<1>3. e \in {0, 1}
  BY DEF One
<1> HIDE DEF q, n, e
<1>4. k \in 1..n /\ k \notin 1..q
  BY <1>1, <1>2
<1>5. \A l \in 1..n : l >= k => /\ l - q \in 1..(n - q) /\ l - q \in 1..(n - q + e)
                                /\ (l - q) + q = l
  BY ONLY <1>1, <1>3, <1>4
<1>6. k - q \in 1..(n - q) /\ k - q \in 1..(n - q + e) /\ (k - q) + q = k /\ k > q
  BY ONLY <1>1, <1>3, <1>4
<1> QED BY <1>1, <1>5, <1>6 DEF q, n

\* A load on its way stays so until its result is on the bus.
LEMMA UnderwayStays ==
  ASSUME OrderInv, NEW d, NEW ld, NEW st, NEW r, NEW accept, NEW serve,
         Step(d, ld, st, r, accept, serve), ld_cdb = None, NEW i
  PROVE  /\ Underway(i) => Underway(i)'
         /\ ld # None /\ i = rob[ld.k].idx => Underway(i)'
<1>1. ASSUME NEW k \in DOMAIN rob, rob[k].op = "load", rob[k].idx = i,
             rob[k].stage = "issued" \/ (rob[k].stage = "waiting" /\ ld # None /\ ld.k = k)
      PROVE  Underway(i)'
  <2>1. Stage(k, ld, st) = "issued"
    BY <1>1, StageIs
  <2>2. rob[k].stage # "done"
    BY <1>1
  <2>3. /\ k - Len(r) \in DOMAIN rob' /\ rob'[k - Len(r)].op = "load"
        /\ rob'[k - Len(r)].idx = i /\ rob'[k - Len(r)].stage = "issued"
    BY <1>1, <2>1, <2>2, Stays
  <2> QED BY <2>3 DEF Underway
<1>2. ld # None => ld.k \in DOMAIN rob /\ rob[ld.k].op = "load" /\ rob[ld.k].stage = "waiting"
  BY InputsWell DEF OrderInv
<1> QED BY <1>1, <1>2 DEF Underway

LEMMA OneLoadStep ==
  ASSUME OrderInv, NEW d, NEW ld, NEW st, NEW r, NEW accept, NEW serve,
         Step(d, ld, st, r, accept, serve)
  PROVE  OneLoad'
<1> DEFINE in == IF Entered(ld) /\ Source(ld) = None THEN ld.addr ELSE None
<1>1. OneLoad /\ QueueInv
  BY DEF OrderInv
<1>2. /\ Active(in, ld_pipe_fwd, drain_store, Granted(accept), Rsp(serve))
      /\ ld_pipe_idx' = IF Entered(ld) THEN rob[ld.k].idx ELSE ld_pipe_idx
      /\ ld_pipe_fwd' = IF Source(ld) # None THEN sq_entry[Source(ld)].data ELSE None
      /\ ld_result_idx' = IF ld_state = "IDLE" /\ (ld_pipe # None \/ ld_pipe_fwd # None)
                          THEN ld_pipe_idx ELSE ld_result_idx
      /\ ld_cdb_tag' = IF Executed # None THEN lq_rob_tag[Executed] ELSE ld_cdb_tag
      /\ ld_in_flight' = (ld_cdb = None /\ (ld_in_flight \/ ld # None))
  BY StepParts
<1>3. /\ ld_pipe' = in
      /\ ld_state' = IF ld_state = "IDLE" THEN IF ld_pipe # None THEN "WAIT" ELSE "IDLE"
                     ELSE IF ld_state = "WAIT" /\ be_resp # None THEN "IDLE" ELSE "WAIT"
      /\ ld_cdb' = IF ld_state = "IDLE" THEN ld_pipe_fwd
                   ELSE IF ld_state = "WAIT" /\ be_resp # None THEN be_resp ELSE None
  BY <1>2 DEF Active
<1>4. ld_state \in {"IDLE", "WAIT"} /\ ld_in_flight \in BOOLEAN
  BY <1>1 DEF QueueInv, TypeOK, LsqTypeOK
<1>5. ld # None => ~ld_in_flight
  BY <1>1, InputsWell
<1>6. ld # None => /\ ld_pipe = None /\ ld_pipe_fwd = None /\ ld_state = "IDLE" /\ ld_cdb = None
  BY <1>1, <1>4, <1>5 DEF OneLoad
<1>7. ASSUME ld_pipe' # None \/ ld_pipe_fwd' # None
      PROVE  /\ ld # None /\ Entered(ld) /\ (ld_pipe' # None => ld_pipe_fwd' = None)
             /\ ld_state' = "IDLE" /\ ld_cdb' = None /\ ld_in_flight' /\ Underway(ld_pipe_idx)'
  <2>1. ld # None /\ Entered(ld) /\ (ld_pipe' # None => ld_pipe_fwd' = None)
    BY <1>2, <1>3, <1>7 DEF Entered, Source
  <2>2. ld_state' = "IDLE" /\ ld_cdb' = None /\ ld_in_flight'
    BY <1>2, <1>3, <1>6, <2>1
  <2>3. ld_pipe_idx' = rob[ld.k].idx
    BY <1>2, <2>1
  <2>4. \E k \in DOMAIN rob' : rob'[k].op = "load" /\ rob'[k].stage = "issued"
                               /\ rob'[k].idx = rob[ld.k].idx
    BY <1>6, <2>1, UnderwayStays DEF Underway
  <2>5. Underway(ld_pipe_idx)'
    BY <2>3, <2>4 DEF Underway
  <2> QED BY <2>1, <2>2, <2>5
<1>8. ASSUME ld_state' = "WAIT"
      PROVE  ld_cdb' = None /\ ld_in_flight' /\ Underway(ld_result_idx)'
  <2>1. CASE ld_state = "IDLE"
    <3>1. ld_pipe # None /\ ld_pipe_fwd = None /\ ld_cdb = None /\ ld_in_flight
          /\ Underway(ld_pipe_idx)
      BY <1>1, <1>3, <1>8, <2>1 DEF OneLoad
    <3>2. ld_result_idx' = ld_pipe_idx /\ ld_cdb' = None /\ ld_in_flight'
      BY <1>2, <1>3, <2>1, <3>1
    <3>3. \E k \in DOMAIN rob' : rob'[k].op = "load" /\ rob'[k].stage = "issued"
                                 /\ rob'[k].idx = ld_pipe_idx
      BY <3>1, UnderwayStays DEF Underway
    <3> QED BY <3>2, <3>3 DEF Underway
  <2>2. CASE ld_state = "WAIT"
    <3>1. ld_cdb = None /\ ld_in_flight /\ Underway(ld_result_idx) /\ be_resp = None
      BY <1>1, <1>3, <1>8, <2>2 DEF OneLoad
    <3>2. ld_result_idx' = ld_result_idx /\ ld_cdb' = None /\ ld_in_flight'
      BY <1>2, <1>3, <2>2, <3>1
    <3>3. \E k \in DOMAIN rob' : rob'[k].op = "load" /\ rob'[k].stage = "issued"
                                 /\ rob'[k].idx = ld_result_idx
      BY <3>1, UnderwayStays DEF Underway
    <3> QED BY <3>2, <3>3 DEF Underway
  <2> QED BY <1>4, <2>1, <2>2
<1>9. ASSUME ld_cdb' # None
      PROVE  /\ ld_in_flight'
             /\ \E k \in DOMAIN rob' : rob'[k].op = "load" /\ rob'[k].tag = ld_cdb_tag'
  <2>1. /\ ld_cdb = None /\ ld_in_flight
        /\ Executed # None /\ Executed \in LqIdx /\ Underway(Executed)
    <3>1. ld_pipe_idx \in LqIdx /\ ld_result_idx \in LqIdx /\ \A i \in LqIdx : i # None
      BY <1>1, IdleAssumption DEF QueueInv, TypeOK, LqIdx
    <3>2. CASE ld_state = "IDLE"
      <4>1. ld_pipe_fwd # None
        BY <1>3, <1>9, <3>2
      <4>2. Executed = ld_pipe_idx
        BY <3>2, <4>1 DEF Executed
      <4> QED BY <1>1, <3>1, <4>1, <4>2 DEF OneLoad
    <3>3. CASE ld_state = "WAIT"
      <4>1. be_resp # None
        BY <1>3, <1>9, <3>3
      <4>2. Executed = ld_result_idx
        BY <3>3, <4>1 DEF Executed
      <4> QED BY <1>1, <3>1, <3>3, <4>2 DEF OneLoad
    <3> QED BY <1>4, <3>2, <3>3
  <2>2. ld_in_flight' /\ ld_cdb_tag' = lq_rob_tag[Executed]
    BY <1>2, <2>1
  <2>3. PICK k \in DOMAIN rob : /\ rob[k].op = "load" /\ rob[k].stage = "issued"
                                /\ rob[k].idx = Executed
    BY <2>1 DEF Underway
  <2>4. PICK l \in DOMAIN rob : l >= k /\ rob[l].op = "load" /\ lq_rob_tag[Executed] = rob[l].tag
    BY <2>3 DEF OrderInv, Tagged
  <2>5. rob[k].stage # "done"
    BY <2>3
  <2>6. /\ l - Len(r) \in DOMAIN rob'
        /\ rob'[l - Len(r)].tag = rob[l].tag /\ rob'[l - Len(r)].op = rob[l].op
    BY <2>4, <2>5, Stays
  <2> QED BY <2>2, <2>4, <2>6
<1>10. /\ ld_pipe' # None =>
            /\ ld_pipe_fwd' = None /\ ld_state' = "IDLE" /\ ld_cdb' = None
            /\ ld_in_flight' /\ Underway(ld_pipe_idx)'
       /\ ld_pipe_fwd' # None =>
            ld_state' = "IDLE" /\ ld_cdb' = None /\ ld_in_flight' /\ Underway(ld_pipe_idx)'
  BY <1>7
<1> QED BY <1>8, <1>9, <1>10 DEF OneLoad

LEMMA TaggedStep ==
  ASSUME OrderInv, NEW d, NEW ld, NEW st, NEW r, NEW accept, NEW serve,
         Step(d, ld, st, r, accept, serve)
  PROVE  Tagged'
<1> DEFINE q == Len(r)
           n == Len(rob)
           e == One(d # None)
<1>1. /\ n \in Nat /\ q \in 0..n /\ DOMAIN rob = 1..n /\ DOMAIN rob' = 1..(n - q + e)
      /\ \A k \in 1..(n - q) :
           /\ k + q \in 1..n
           /\ rob'[k].tag = rob[k + q].tag /\ rob'[k].op = rob[k + q].op
           /\ rob'[k].idx = rob[k + q].idx
      /\ d # None =>
           /\ rob'[n - q + 1].tag = FreeTag /\ rob'[n - q + 1].op = d
           /\ rob'[n - q + 1].idx = IF d = "load" THEN lq_tail ELSE sq_tail
  BY RobMoves DEF OrderInv
<1>2. e \in {0, 1} /\ (e = 1 <=> d # None)
  BY DEF One
<1>3. d # None => \A k \in DOMAIN rob : rob[k].tag # FreeTag
  <2>1. TypeOK
    BY DEF OrderInv, QueueInv
  <2>2. d # None => n < RobN
    BY InputsWell DEF OrderInv
  <2>3. d # None => Len(rob) # RobN
    <3> HIDE DEF n
    <3>1. n < RobN => n # RobN
      BY <1>1, Sizes
    <3> QED BY <2>2, <3>1 DEF n
  <2> QED BY <2>1, <2>3, FreeTagIs
<1>4. \A k, l \in DOMAIN rob : rob[k].tag = rob[l].tag => k = l
  BY DEF OrderInv, Tagged
<1>5. /\ lq_rob_tag' = [i \in LqIdx |-> IF d = "load" /\ i = lq_tail THEN FreeTag ELSE lq_rob_tag[i]]
      /\ lq_tail \in LqIdx
      /\ \A k \in DOMAIN rob : rob[k].op = "load" => rob[k].idx \in LqIdx
  <2>1. LqClock(d = "load", FreeTag)
    BY StepParts DEF OrderInv
  <2> QED BY <2>1 DEF LqClock, OrderInv, QueueInv, TypeOK, Known
<1> HIDE DEF q, n, e
<1>6. \A k \in DOMAIN rob' : k \in 1..(n - q) \/ (d # None /\ k = n - q + 1)
  BY <1>1, <1>2
<1>7. ASSUME NEW k \in DOMAIN rob', NEW l \in DOMAIN rob', rob'[k].tag = rob'[l].tag
      PROVE  k = l
  <2>1. CASE k \in 1..(n - q) /\ l \in 1..(n - q)
    <3>1. k + q = l + q
      BY <1>1, <1>4, <1>7, <2>1
    <3> QED BY ONLY <3>1, <1>1, <2>1
  <2>2. CASE ~(k \in 1..(n - q)) \/ ~(l \in 1..(n - q))
    BY <1>1, <1>3, <1>6, <1>7, <2>2
  <2> QED BY <2>1, <2>2
<1>8. ASSUME NEW k \in DOMAIN rob', rob'[k].op = "load"
      PROVE  \E j \in DOMAIN rob' : /\ j >= k /\ rob'[j].op = "load"
                                    /\ lq_rob_tag'[rob'[k].idx] = rob'[j].tag
  <2>1. d # None => n - q + 1 \in DOMAIN rob' /\ n - q + 1 >= k
    BY ONLY <1>1, <1>2, <1>8
  <2>2. CASE d = "load" /\ rob'[k].idx = lq_tail
    <3>1. d # None
      BY <2>2, IdleAssumption
    <3>2. lq_rob_tag'[rob'[k].idx] = rob'[n - q + 1].tag /\ rob'[n - q + 1].op = "load"
      BY <1>1, <1>5, <2>2, <3>1
    <3> QED BY <2>1, <3>1, <3>2
  <2>3. CASE ~(d = "load" /\ rob'[k].idx = lq_tail)
    <3>1. k \in 1..(n - q)
      BY <1>1, <1>6, <1>8, <2>3
    <3>2. /\ k + q \in DOMAIN rob /\ rob[k + q].op = "load" /\ rob'[k].idx = rob[k + q].idx
      BY <1>1, <1>8, <3>1
    <3>3. lq_rob_tag'[rob'[k].idx] = lq_rob_tag[rob[k + q].idx]
      BY <1>5, <2>3, <3>2
    <3>4. PICK l \in DOMAIN rob : /\ l >= k + q /\ rob[l].op = "load"
                                  /\ lq_rob_tag[rob[k + q].idx] = rob[l].tag
      BY <3>2 DEF OrderInv, Tagged
    <3>5. l - q \in 1..(n - q) /\ l - q \in DOMAIN rob' /\ (l - q) + q = l /\ l - q >= k
      <4>1. n \in Nat /\ q \in 0..n /\ e \in {0, 1} /\ l \in 1..n /\ l >= k + q /\ k \in 1..(n - q)
        BY <1>1, <1>2, <3>1, <3>4
      <4>2. l - q \in 1..(n - q) /\ l - q \in 1..(n - q + e) /\ (l - q) + q = l /\ l - q >= k
        BY ONLY <4>1
      <4> QED BY <1>1, <4>2
    <3>6. rob'[l - q].op = "load" /\ rob'[l - q].tag = rob[l].tag
      BY <1>1, <3>4, <3>5
    <3> QED BY <3>3, <3>4, <3>5, <3>6
  <2> QED BY <2>2, <2>3
<1> QED BY <1>7, <1>8 DEF Tagged

-----------------------------------------------------------------------------
(***************************************************************************)
(* Stores                                                                  *)
(***************************************************************************)
LEMMA SlotFacts ==
  ASSUME QueueInv
  PROVE  /\ \A k \in 1..(SqN + 1) : SqAt(k) \in SqIdx
         /\ SqAt(1) = sq_head /\ SqAt(sq_count + 1) = sq_tail
         /\ \A k, l \in 1..SqN : SqAt(k) = SqAt(l) => k = l
         /\ \A i \in SqIdx : sq_valid[i] <=> \E k \in 1..sq_count : i = SqAt(k)
         /\ sq_count < SqN => ~sq_valid[sq_tail]
         /\ Acked = 1 => sq_valid[sq_head] /\ sq_committed[sq_head]
         /\ Acked \in {0, 1} /\ Issued \in Nat /\ Acked <= Issued /\ Issued <= sq_count
         /\ sq_count \in 0..SqN
         /\ \A k \in 1..Issued : sq_committed[SqAt(k)] /\ sq_valid[SqAt(k)]
<1>1. /\ SqN \in Nat /\ SqN >= 1 /\ sq_head \in 0..(SqN - 1) /\ SqIdx = 0..(SqN - 1)
      /\ sq_count \in 0..SqN
  BY Sizes DEF QueueInv, TypeOK
<1>2. \A k : SqAt(k) = Ring(SqN, sq_head, k)
  BY DEF SqAt, Ring
<1>3. /\ \A k \in 1..(SqN + 1) : SqAt(k) \in SqIdx
      /\ SqAt(1) = sq_head
      /\ \A k, l \in 1..SqN : SqAt(k) = SqAt(l) => k = l
  <2>1. /\ \A k \in 1..(SqN + 1) : Ring(SqN, sq_head, k) \in 0..(SqN - 1)
        /\ Ring(SqN, sq_head, 1) = sq_head
        /\ \A k, l \in 1..SqN : Ring(SqN, sq_head, k) = Ring(SqN, sq_head, l) => k = l
    BY <1>1, RingFacts
  <2> QED BY <1>1, <1>2, <2>1
<1>4. /\ sq_tail = (sq_head + sq_count) % SqN
      /\ {i \in SqIdx : sq_valid[i]} = {SqAt(i) : i \in 1..sq_count}
      /\ Issued <= sq_count
      /\ \A i \in 1..Issued : sq_committed[SqAt(i)]
  BY DEF QueueInv, SqAccounted
<1>5. SqAt(sq_count + 1) = sq_tail
  <2>1. sq_head + (sq_count + 1) - 1 = sq_head + sq_count
    BY <1>1
  <2> QED BY <1>4, <2>1 DEF SqAt
<1>6. \A i \in SqIdx : sq_valid[i] <=> \E k \in 1..sq_count : i = SqAt(k)
  BY <1>4
<1>7. sq_count < SqN => ~sq_valid[sq_tail]
  <2> SUFFICES ASSUME sq_count < SqN PROVE ~sq_valid[sq_tail]
    OBVIOUS
  <2>1. sq_count + 1 \in 1..SqN /\ \A k \in 1..sq_count : k \in 1..SqN /\ k # sq_count + 1
    BY <1>1
  <2>2. sq_tail \in SqIdx
    BY DEF QueueInv, TypeOK
  <2> QED BY <1>3, <1>5, <1>6, <2>1, <2>2
<1>8. /\ Acked \in {0, 1} /\ Issued \in Nat /\ Acked <= Issued
  <2>1. Cardinality(Stores) \in Nat /\ Issued = Cardinality(Stores) + Acked /\ Acked \in {0, 1}
    BY StoresFinite
  <2> QED BY <2>1
<1>9. ASSUME NEW k \in 1..Issued PROVE sq_committed[SqAt(k)] /\ sq_valid[SqAt(k)]
  <2>1. k \in 1..sq_count /\ k \in 1..(SqN + 1)
    BY <1>1, <1>4, <1>8
  <2> QED BY <1>3, <1>4, <1>6, <2>1
<1>10. Acked = 1 => sq_valid[sq_head] /\ sq_committed[sq_head]
  <2>1. Acked = 1 => 1 \in 1..Issued
    BY <1>8
  <2> QED BY <1>3, <1>9, <2>1
<1> QED BY <1>1, <1>3, <1>4, <1>5, <1>6, <1>7, <1>8, <1>9, <1>10

\* What happens to the entry of a store in the queue, and what is in the entry
\* of a store that comes in.
LEMMA EntryMoves ==
  ASSUME OrderInv, NEW d, NEW ld, NEW st, NEW r, NEW accept, NEW serve,
         Step(d, ld, st, r, accept, serve)
  PROVE  /\ \A i \in SqIdx : sq_valid[i] =>
              /\ ~(d = "store" /\ i = sq_tail)
              /\ sq_committed[i] => sq_committed'[i]
              /\ sq_committed'[i] =>
                   \/ sq_committed[i]
                   \/ \E k \in 1..Len(r) : rob[k].op = "store" /\ rob[k].idx = i
              /\ sq_ready'[i] <=> sq_ready[i] \/ (st # None /\ st.idx = i)
              /\ sq_ready[i] => ~(st # None /\ st.idx = i) /\ sq_entry'[i] = sq_entry[i]
              /\ sq_valid'[i] <=> ~(Acked = 1 /\ i = sq_head)
         /\ \A i \in SqIdx : sq_valid'[i] => sq_valid[i] \/ (d = "store" /\ i = sq_tail)
         /\ d = "store" => /\ sq_tail \in SqIdx /\ ~sq_valid[sq_tail] /\ sq_valid'[sq_tail]
                           /\ ~sq_committed'[sq_tail] /\ ~sq_ready'[sq_tail]
<1>1. SqClock(d = "store", st, Commits(r), Granted(accept) /\ Req.wr)
  BY StepParts DEF OrderInv
<1>2. /\ sq_count < SqN => ~sq_valid[sq_tail]
      /\ Acked = 1 => sq_valid[sq_head] /\ sq_committed[sq_head]
  BY SlotFacts DEF OrderInv
<1>3. d = "store" => sq_count < SqN
  <2>1. QueueInv
    BY DEF OrderInv
  <2>2. One(d = "store") = 1 => sq_count < SqN
    BY <2>1, QueueMoves
  <2> QED BY <2>2 DEF One
<1>4. sq_valid' = [i \in SqIdx |-> /\ sq_valid[i] \/ (One(d = "store") = 1 /\ i = sq_tail)
                                   /\ ~(Acked = 1 /\ i = sq_head)]
  BY QueueMoves DEF OrderInv
<1>5. One(d = "store") = 1 <=> d = "store"
  BY DEF One
<1>6. sq_tail \in SqIdx /\ sq_head \in SqIdx
  BY DEF OrderInv, QueueInv, TypeOK
<1>7. \A i \in Commits(r) : \E k \in 1..Len(r) : rob[k].op = "store" /\ rob[k].idx = i
  <2>1. DOMAIN r = 1..Len(r)
    BY InputsWell DEF OrderInv
  <2> QED BY <2>1 DEF Commits
<1>8. ASSUME st # None
      PROVE  st.idx \in SqIdx /\ ~sq_ready[st.idx]
  <2>1. /\ st.k \in DOMAIN rob /\ rob[st.k].op = "store" /\ rob[st.k].stage = "waiting"
        /\ st.idx = rob[st.k].idx
    BY <1>8, InputsWell DEF OrderInv
  <2> QED BY <2>1 DEF OrderInv, StoresHeld
<1>9. ASSUME NEW i \in SqIdx, sq_valid[i]
      PROVE  /\ ~(d = "store" /\ i = sq_tail)
             /\ sq_committed[i] => sq_committed'[i]
             /\ sq_committed'[i] => sq_committed[i] \/ i \in Commits(r)
             /\ sq_ready'[i] <=> sq_ready[i] \/ (st # None /\ st.idx = i)
             /\ sq_ready[i] => ~(st # None /\ st.idx = i) /\ sq_entry'[i] = sq_entry[i]
             /\ sq_valid'[i] <=> ~(Acked = 1 /\ i = sq_head)
  <2>1. ~(d = "store" /\ i = sq_tail)
    BY <1>2, <1>3, <1>9
  <2>2. sq_ready[i] => ~(st # None /\ st.idx = i)
    BY <1>8
  <2>3. /\ sq_committed[i] => sq_committed'[i]
        /\ sq_committed'[i] => sq_committed[i] \/ i \in Commits(r)
    BY <1>1, <2>1 DEF SqClock
  <2>4. /\ sq_ready'[i] <=> sq_ready[i] \/ (st # None /\ st.idx = i)
        /\ ~(st # None /\ st.idx = i) => sq_entry'[i] = sq_entry[i]
    BY <1>1, <1>9, <2>1 DEF SqClock
  <2>5. sq_valid'[i] <=> ~(Acked = 1 /\ i = sq_head)
    BY <1>4, <1>9
  <2> QED BY <2>1, <2>2, <2>3, <2>4, <2>5
<1>10. \A i \in SqIdx : sq_valid'[i] => sq_valid[i] \/ (d = "store" /\ i = sq_tail)
  BY <1>4, <1>5
<1>11. ASSUME d = "store"
       PROVE  /\ ~sq_valid[sq_tail] /\ sq_valid'[sq_tail]
              /\ ~sq_committed'[sq_tail] /\ ~sq_ready'[sq_tail]
  <2>1. ~sq_valid[sq_tail] /\ (Acked = 1 => sq_tail # sq_head)
    BY <1>2, <1>3, <1>11
  <2>2. sq_valid'[sq_tail]
    BY <1>4, <1>5, <1>6, <1>11, <2>1
  <2>3. ~sq_committed'[sq_tail] /\ ~sq_ready'[sq_tail]
    BY <1>1, <1>6, <1>11, <2>1 DEF SqClock
  <2> QED BY <2>1, <2>2, <2>3
<1> QED BY <1>6, <1>7, <1>9, <1>10, <1>11

LEMMA StoresHeldStep ==
  ASSUME OrderInv, NEW d, NEW ld, NEW st, NEW r, NEW accept, NEW serve,
         Step(d, ld, st, r, accept, serve)
  PROVE  StoresHeld'
<1> DEFINE q == Len(r)
           n == Len(rob)
           e == One(d # None)
<1>1. /\ n \in Nat /\ q \in 0..n /\ DOMAIN rob = 1..n /\ DOMAIN rob' = 1..(n - q + e)
      /\ \A k \in 1..(n - q) :
           /\ k + q \in 1..n
           /\ rob'[k].op = rob[k + q].op
           /\ rob'[k].idx = rob[k + q].idx /\ rob'[k].stage = Stage(k + q, ld, st)
      /\ d # None =>
           /\ rob'[n - q + 1].op = d /\ rob'[n - q + 1].stage = "waiting"
           /\ rob'[n - q + 1].idx = IF d = "load" THEN lq_tail ELSE sq_tail
  BY RobMoves DEF OrderInv
<1>2. e \in {0, 1} /\ (e = 1 <=> d # None)
  BY DEF One
<1>3. /\ \A k \in DOMAIN rob : rob[k].op = "store" =>
           LET i == rob[k].idx IN
           /\ i \in SqIdx /\ sq_valid[i] /\ ~sq_committed[i]
           /\ rob[k].stage # "issued" /\ (sq_ready[i] <=> rob[k].stage = "done")
           /\ \A l \in DOMAIN rob : rob[l].op = "store" /\ rob[l].idx = i => l = k
      /\ \A i \in SqIdx : sq_valid[i] /\ sq_committed[i] => sq_ready[i]
  BY DEF OrderInv, StoresHeld
<1>4. /\ \A i \in SqIdx : sq_valid[i] =>
           /\ ~(d = "store" /\ i = sq_tail)
           /\ sq_committed'[i] =>
                \/ sq_committed[i]
                \/ \E k \in 1..q : rob[k].op = "store" /\ rob[k].idx = i
           /\ sq_ready'[i] <=> sq_ready[i] \/ (st # None /\ st.idx = i)
           /\ sq_valid'[i] <=> ~(Acked = 1 /\ i = sq_head)
      /\ \A i \in SqIdx : sq_valid'[i] => sq_valid[i] \/ (d = "store" /\ i = sq_tail)
      /\ d = "store" => /\ sq_tail \in SqIdx /\ ~sq_valid[sq_tail] /\ sq_valid'[sq_tail]
                        /\ ~sq_committed'[sq_tail] /\ ~sq_ready'[sq_tail]
  BY EntryMoves
<1>5. \A k \in 1..q : rob[k].stage = "done"
  BY InputsWell DEF OrderInv
<1>6. Acked = 1 => sq_committed[sq_head]
  BY SlotFacts DEF OrderInv
<1>7. st # None => /\ st.k \in DOMAIN rob /\ rob[st.k].op = "store" /\ rob[st.k].stage = "waiting"
                   /\ st.idx = rob[st.k].idx
  BY InputsWell DEF OrderInv
<1>8. \A k \in DOMAIN rob : rob[k].op = "store" =>
        Stage(k, ld, st) = IF st # None /\ st.k = k THEN "done" ELSE rob[k].stage
  BY StageIs
<1> HIDE DEF q, n, e
<1>9. \A k \in DOMAIN rob' : k \in 1..(n - q) \/ (d # None /\ k = n - q + 1)
  BY <1>1, <1>2
<1>10. ASSUME NEW k \in 1..(n - q), rob'[k].op = "store"
       PROVE  LET i == rob'[k].idx IN
              /\ i = rob[k + q].idx /\ k + q \in DOMAIN rob /\ rob[k + q].op = "store"
              /\ i \in SqIdx /\ sq_valid'[i] /\ ~sq_committed'[i] /\ sq_valid[i]
              /\ rob'[k].stage # "issued" /\ (sq_ready'[i] <=> rob'[k].stage = "done")
  <2> DEFINE i == rob'[k].idx
  <2>1. /\ i = rob[k + q].idx /\ k + q \in DOMAIN rob /\ rob[k + q].op = "store"
        /\ rob'[k].stage = Stage(k + q, ld, st)
    BY <1>1, <1>10
  <2>2. /\ i \in SqIdx /\ sq_valid[i] /\ ~sq_committed[i] /\ rob[k + q].stage # "issued"
        /\ (sq_ready[i] <=> rob[k + q].stage = "done")
        /\ \A l \in DOMAIN rob : rob[l].op = "store" /\ rob[l].idx = i => l = k + q
    BY <1>3, <2>1
  <2> HIDE DEF i
  <2>3. sq_valid'[i]
    BY <1>4, <1>6, <2>2
  <2>4. \A l \in 1..q : l \in DOMAIN rob /\ l # k + q
    <3>1. \A l \in 1..q : l \in 1..n /\ l # k + q
      <4>1. n \in Nat /\ q \in 0..n /\ k \in 1..(n - q)
        BY <1>1
      <4> QED BY ONLY <4>1
    <3> QED BY <1>1, <3>1
  <2>5. ~sq_committed'[i]
    BY <1>4, <2>2, <2>4
  <2>6. st # None => (st.idx = i <=> st.k = k + q)
    BY <1>7, <2>1, <2>2
  <2>7. rob'[k].stage # "issued" /\ (sq_ready'[i] <=> rob'[k].stage = "done")
    BY <1>4, <1>8, <2>1, <2>2, <2>6
  <2> QED BY <2>1, <2>2, <2>3, <2>5, <2>7 DEF i
<1>11. ASSUME NEW k \in DOMAIN rob', rob'[k].op = "store", k \notin 1..(n - q)
       PROVE  d = "store" /\ k = n - q + 1 /\ rob'[k].idx = sq_tail /\ rob'[k].stage = "waiting"
  BY <1>1, <1>9, <1>11
<1>12. ASSUME NEW k \in DOMAIN rob', rob'[k].op = "store"
       PROVE  LET i == rob'[k].idx IN
              /\ i \in SqIdx /\ sq_valid'[i] /\ ~sq_committed'[i]
              /\ rob'[k].stage # "issued" /\ (sq_ready'[i] <=> rob'[k].stage = "done")
              /\ \A l \in DOMAIN rob' : rob'[l].op = "store" /\ rob'[l].idx = i => l = k
  <2>1. CASE k \in 1..(n - q)
    <3>1. ASSUME NEW l \in DOMAIN rob', rob'[l].op = "store", rob'[l].idx = rob'[k].idx
          PROVE  l = k
      <4>1. CASE l \in 1..(n - q)
        <5>1. l + q = k + q
          BY <1>3, <1>10, <1>12, <2>1, <3>1, <4>1
        <5> QED BY ONLY <1>1, <2>1, <4>1, <5>1
      <4>2. CASE l \notin 1..(n - q)
        BY <1>4, <1>10, <1>11, <1>12, <2>1, <3>1, <4>2
      <4> QED BY <4>1, <4>2
    <3> QED BY <1>10, <1>12, <2>1, <3>1
  <2>2. CASE k \notin 1..(n - q)
    <3>1. ASSUME NEW l \in DOMAIN rob', rob'[l].op = "store", rob'[l].idx = rob'[k].idx
          PROVE  l = k
      BY <1>4, <1>10, <1>11, <1>12, <2>2, <3>1
    <3> QED BY <1>4, <1>11, <1>12, <2>2, <3>1
  <2> QED BY <2>1, <2>2
<1>13. ASSUME NEW i \in SqIdx, sq_valid'[i], sq_committed'[i] PROVE sq_ready'[i]
  <2>1. sq_valid[i]
    BY <1>4, <1>13
  <2>2. ASSUME NEW k \in 1..q, rob[k].op = "store", rob[k].idx = i PROVE sq_ready[i]
    <3>1. k \in DOMAIN rob
      BY ONLY <1>1, k \in 1..q
    <3> QED BY <1>3, <1>5, <2>2, <3>1
  <2> QED BY <1>3, <1>4, <1>13, <2>1, <2>2
<1> QED BY <1>12, <1>13 DEF StoresHeld

\* A request takes a store along in the order of the queue.
LEMMA ChannelInOrderStep ==
  ASSUME OrderInv, NEW d, NEW ld, NEW st, NEW r, NEW accept, NEW serve,
         Step(d, ld, st, r, accept, serve)
  PROVE  ChannelInOrder'
<1> DEFINE n == Len(chan)
           m == Len(chan')
           in == One(Granted(accept))
           out == One(Answers(serve))
           w == One(Sends(accept))
           a == Acked
           b == Acked'
           I == Issued
           c == sq_count
           At_(k) == Ring(SqN, sq_head', k)
<1>1. QueueInv
  BY DEF OrderInv
<1>2. PICK nth \in [0..n -> 0..n] :
        /\ nth[0] = 0 /\ a + nth[n] = I
        /\ \A j, k \in 0..n : j <= k => nth[j] <= nth[k] /\ nth[k] - nth[j] <= k - j
        /\ \A k \in 1..n :
             /\ nth[k] = nth[k - 1] + (IF chan[k].wr THEN 1 ELSE 0)
             /\ chan[k].wr => Sent(k, nth[k])
  BY DEF OrderInv, ChannelInOrder
<1>3. /\ n \in Nat /\ m = n + in - out
      /\ \A k \in 1..m : chan'[k] = IF k + out <= n THEN chan[k + out] ELSE Req
  BY <1>1, ChannelMoves
<1>4. /\ I' = I + w - a /\ b = One(Answers(serve) /\ chan[1].wr)
  BY <1>1, IssuedMoves
<1>5. /\ in \in {0, 1} /\ out \in {0, 1} /\ w \in {0, 1} /\ (in = 1 <=> Granted(accept))
      /\ (out = 1 <=> Answers(serve)) /\ (w = 1 <=> Sends(accept))
  BY DEF One
<1>6. /\ in = 0 => w = 0
      /\ in = 1 => (w = 1 <=> Req.wr)
  BY <1>5 DEF Sends
<1>7. out = 1 => n >= 1
  <2>1. serve \in BOOLEAN
    BY DEF Step
  <2> QED BY <1>1, <1>5, <2>1, AnswerFacts
<1>8. /\ a \in {0, 1} /\ I \in Nat /\ a <= I /\ I <= c /\ c \in 0..SqN /\ SqN \in Nat
      /\ I + w <= c
  <2>1. w = 1 => I + w <= c
    BY <1>1, QueueMoves
  <2>2. a \in {0, 1} /\ I \in Nat /\ a <= I /\ I <= c /\ c \in 0..SqN /\ SqN \in Nat
    BY <1>1, SlotFacts, Sizes
  <2> HIDE DEF a, I, c, w
  <2> QED BY <1>5, <2>1, <2>2
<1>9. \A k \in 1..SqN : At_(k) = SqAt(k + a)
  <2>1. Moves(SqN, sq_head, sq_count, One(d = "store"), Acked, sq_head')
    BY <1>1, QueueMoves
  <2>2. \A k \in 1..SqN : Ring(SqN, sq_head', k) = Ring(SqN, sq_head, k + Acked)
    BY <2>1 DEF Moves
  <2> QED BY <2>2 DEF SqAt, Ring
<1>10. b = nth[out]
  <2>1. CASE out = 1
    <3>1. 1 \in 1..n /\ 1 - 1 = 0
      BY ONLY <1>3, <1>7, <2>1
    <3>2. nth[1] = nth[0] + (IF chan[1].wr THEN 1 ELSE 0)
      BY <1>2, <3>1
    <3> QED BY <1>2, <1>4, <1>5, <2>1, <3>2 DEF One
  <2>2. CASE out = 0
    BY <1>2, <1>4, <1>5, <2>2 DEF One
  <2> QED BY <1>5, <2>1, <2>2
<1>11. \A k \in 1..n : chan[k].wr =>
         /\ nth[k] \in 1..c
         /\ [addr |-> chan[k].addr, data |-> chan[k].data] = sq_entry[SqAt(a + nth[k])]
  BY <1>2 DEF Sent
<1>12. w = 1 => [addr |-> Req.addr, data |-> Req.data] = sq_entry[SqAt(I + 1)]
  <2> SUFFICES ASSUME w = 1
               PROVE  [addr |-> Req.addr, data |-> Req.data] = sq_entry[SqAt(I + 1)]
    OBVIOUS
  <2>1. Req # None /\ Req.wr
    BY <1>5 DEF Sends, Granted
  <2>2. /\ drain_store \in Word /\ drain_store = sq_entry[sq_drain_ptr]
        /\ Req.addr = drain_store.addr /\ Req.data = drain_store.data
    BY <1>1, <2>1, RequestFacts
  <2>3. sq_drain_ptr = SqAt(I + 1)
    BY <1>1, QueueMoves
  <2> QED BY <2>2, <2>3 DEF Word
<1>13. \A k \in 1..(I + w) : sq_entry'[SqAt(k)] = sq_entry[SqAt(k)] /\ k \in 1..SqN
  <2>1. ASSUME NEW k \in 1..(I + w) PROVE sq_entry'[SqAt(k)] = sq_entry[SqAt(k)] /\ k \in 1..SqN
    <3>0. \A j \in 1..(SqN + 1) : SqAt(j) \in SqIdx
      BY <1>1, SlotFacts
    <3>1. k \in 1..SqN /\ k \in 1..(SqN + 1) /\ (k \in 1..I \/ (w = 1 /\ k = I + 1))
      <4> HIDE DEF I, w, c, a
      <4> QED BY ONLY <1>5, <1>8, <2>1
    <3>2. SqAt(k) \in SqIdx /\ sq_valid[SqAt(k)] /\ sq_committed[SqAt(k)]
      <4>1. CASE k \in 1..I
        BY <1>1, <3>0, <3>1, <4>1, SlotFacts
      <4>2. CASE w = 1 /\ k = I + 1
        <5>1. sq_drain_ptr = SqAt(k)
          BY <1>1, <4>2, QueueMoves
        <5>2. Req # None /\ Req.wr
          BY <1>5, <4>2 DEF Sends, Granted
        <5> QED BY <1>1, <3>0, <3>1, <5>1, <5>2, RequestFacts
      <4> QED BY <3>1, <4>1, <4>2
    <3>3. sq_ready[SqAt(k)]
      BY <3>2 DEF OrderInv, StoresHeld
    <3> QED BY <3>1, <3>2, <3>3, EntryMoves
  <2> QED BY <2>1
<1>14. I' <= c'
  BY <1>1, AccountedStep DEF SqAccounted
<1>15. c' \in 0..SqN
  BY <1>1, AccountedStep
<1> DEFINE g == [k \in 0..(n + in) |-> IF k <= n THEN nth[k] ELSE nth[n] + w]
           nth_ == [k \in 0..m |-> g[k + out] - g[out]]
<1> HIDE DEF n, m, in, out, w, a, b, I, c, At_
<1>0. /\ n \in Nat /\ m = n + in - out /\ in \in {0, 1} /\ out \in {0, 1} /\ w \in {0, 1}
      /\ out = 1 => n >= 1
  BY <1>3, <1>5, <1>7
<1>16. \A k \in 0..n : nth[k] \in 0..n
  BY <1>2
<1>17. n + in \in Nat /\ m \in Nat /\ m + out = n + in /\ out \in 0..n /\ out \in 0..(n + in)
       /\ \A k \in 0..m : k + out \in 0..(n + in)
  BY ONLY <1>0
<1>18. /\ \A k \in 0..(n + in) : g[k] \in Nat
       /\ \A k \in 0..n : g[k] = nth[k]
       /\ in = 1 => g[n + 1] = nth[n] + w
  <2>1. \A k \in 0..(n + in) : g[k] = IF k <= n THEN nth[k] ELSE nth[n] + w
    OBVIOUS
  <2>2. n \in 0..n /\ \A k \in 0..n : k \in 0..(n + in) /\ k <= n
    BY ONLY <1>0
  <2>3. in = 1 => n + 1 \in 0..(n + in) /\ ~(n + 1 <= n)
    BY ONLY <1>0
  <2>4. \A k \in 0..(n + in) : k <= n => k \in 0..n
    BY ONLY <1>0
  <2> HIDE DEF g
  <2>5. \A k \in 0..(n + in) : g[k] \in Nat
    <3>1. nth[n] + w \in Nat /\ \A k \in 0..n : nth[k] \in Nat
      BY <1>5, <1>16, <2>2
    <3> QED BY <2>1, <2>4, <3>1
  <2> QED BY <2>1, <2>2, <2>3, <2>5
<1>19. ASSUME NEW j \in 0..(n + in), NEW k \in 0..(n + in), j <= k
       PROVE  g[j] <= g[k] /\ g[k] - g[j] <= k - j
  <2> HIDE DEF g
  <2>1. CASE k \in 0..n
    <3>1. j \in 0..n
      BY ONLY <1>0, <1>19, <2>1
    <3> QED BY <1>2, <1>18, <1>19, <2>1, <3>1
  <2>2. CASE k \notin 0..n
    <3>1. in = 1 /\ k = n + 1
      BY ONLY <1>0, <1>19, <2>2
    <3>2. CASE j \in 0..n
      <4>1. g[j] = nth[j] /\ g[k] = nth[n] + w
        BY <1>18, <3>1, <3>2
      <4>2. n \in 0..n /\ j <= n
        BY ONLY <1>0, <3>2
      <4>3. nth[j] <= nth[n] /\ nth[n] - nth[j] <= n - j /\ nth[j] \in Nat /\ nth[n] \in Nat
        BY <1>2, <1>16, <3>2, <4>2
      <4> DEFINE x == nth[n]
                 y == nth[j]
                 u == g[k]
                 v == g[j]
      <4>4. /\ y <= x /\ x - y <= n - j /\ x \in Nat /\ y \in Nat /\ n \in Nat /\ j \in 0..n
            /\ k = n + 1 /\ w \in {0, 1} /\ u = x + w /\ v = y
        BY <1>0, <3>1, <3>2, <4>1, <4>3
      <4> HIDE DEF x, y, u, v
      <4>5. v <= u /\ u - v <= k - j
        BY ONLY <4>4
      <4> QED BY <4>5 DEF u, v
    <3>3. CASE j \notin 0..n
      <4>1. j = k
        BY ONLY <1>0, <1>19, <3>1, <3>3
      <4> QED BY <1>18, <4>1
    <3> QED BY <3>2, <3>3
  <2> QED BY <2>1, <2>2
<1> HIDE DEF g
<1>20. g[out] = b /\ g[0] = 0 /\ a + g[n + in] = I + w /\ b \in Nat
  <2>1. g[out] = b /\ g[0] = 0 /\ b \in Nat
    <3>1. 0 \in 0..n
      BY <1>3
    <3> QED BY <1>2, <1>10, <1>17, <1>18, <3>1
  <2>2. CASE in = 1
    <3>1. nth[n] \in Nat
      BY <1>3, <1>16
    <3>2. g[n + in] = nth[n] + w
      BY <1>18, <2>2
    <3>3. a + nth[n] = I /\ I \in Nat /\ a \in {0, 1}
      BY <1>2, <1>8
    <3>4. a + (nth[n] + w) = I + w
      BY ONLY <1>0, <3>1, <3>3
    <3> QED BY <2>1, <3>2, <3>4
  <2>3. CASE in = 0
    <3>1. n + in = n /\ n \in 0..n
      BY <1>3, <2>3
    <3>2. g[n] = nth[n] /\ w = 0 /\ I + 0 = I
      BY <1>6, <1>8, <1>18, <2>3, <3>1
    <3> QED BY <1>2, <2>1, <3>1, <3>2
  <2> QED BY <1>5, <2>2, <2>3
<1>21. \A k \in 0..m : nth_[k] = g[k + out] - b
  BY <1>20
<1> HIDE DEF nth_
<1>22. ASSUME NEW k \in 0..m
       PROVE  /\ nth_[k] \in 0..m /\ nth_[k] <= k /\ nth_[k] + b = g[k + out]
              /\ k + out \in 0..(n + in) /\ g[k + out] \in Nat
  <2>1. k + out \in 0..(n + in) /\ out \in 0..(n + in) /\ out <= k + out /\ k + out - out = k
    BY ONLY <1>0, <1>17, <1>22
  <2>2. g[out] <= g[k + out] /\ g[k + out] - g[out] <= k + out - out
        /\ g[k + out] \in Nat /\ g[out] \in Nat
    BY <1>18, <1>19, <2>1
  <2>3. nth_[k] = g[k + out] - g[out]
    BY <1>20, <1>21
  <2>4. nth_[k] \in 0..m /\ nth_[k] <= k /\ nth_[k] + g[out] = g[k + out]
    BY ONLY <1>17, <1>22, <2>1, <2>2, <2>3
  <2> QED BY <1>20, <2>1, <2>2, <2>4
<1>23. nth_ \in [0..m -> 0..m]
  <2>1. nth_ = [k \in 0..m |-> nth_[k]]
    BY DEF nth_
  <2> QED BY <1>22, <2>1
<1>24. nth_[0] = 0 /\ b + nth_[m] = I'
  <2>1. 0 \in 0..m /\ m \in 0..m /\ 0 + out = out
    BY ONLY <1>5, <1>17
  <2>2. nth_[0] = 0
    BY <1>20, <1>21, <2>1
  <2>3. nth_[m] + b = g[n + in] /\ nth_[m] \in Nat
    BY <1>17, <1>22, <2>1
  <2>4. g[n + in] = I + w - a /\ g[n + in] \in Nat
    <3>1. n + in \in 0..(n + in)
      BY <1>17
    <3>2. g[n + in] \in Nat
      BY <1>18, <3>1
    <3> QED BY ONLY <1>5, <1>8, <1>20, <3>2
  <2>5. b + nth_[m] = nth_[m] + b
    BY <1>20, <2>3
  <2> QED BY <1>4, <2>2, <2>3, <2>4, <2>5
<1>25. ASSUME NEW j \in 0..m, NEW k \in 0..m, j <= k
       PROVE  nth_[j] <= nth_[k] /\ nth_[k] - nth_[j] <= k - j
  <2>1. /\ j + out \in 0..(n + in) /\ k + out \in 0..(n + in) /\ j + out <= k + out
        /\ (k + out) - (j + out) = k - j
    BY ONLY <1>5, <1>17, <1>25
  <2>2. /\ g[j + out] <= g[k + out] /\ g[k + out] - g[j + out] <= (k + out) - (j + out)
    BY <1>19, <2>1
  <2>3. /\ nth_[j] \in 0..m /\ nth_[k] \in 0..m
        /\ nth_[j] + b = g[j + out] /\ nth_[k] + b = g[k + out]
    BY <1>22
  <2>4. nth_[j] \in Nat /\ nth_[k] \in Nat /\ b \in Nat
    BY ONLY <1>17, <1>20, <2>3
  <2>5. nth_[j] + b <= nth_[k] + b /\ (nth_[k] + b) - (nth_[j] + b) <= k - j
    BY ONLY <2>1, <2>2, <2>3
  <2> QED BY ONLY <2>4, <2>5
<1>26. ASSUME NEW k \in 1..m
       PROVE  /\ nth_[k] = nth_[k - 1] + (IF chan'[k].wr THEN 1 ELSE 0)
              /\ chan'[k].wr =>
                   /\ nth_[k] \in 1..c'
                   /\ [addr |-> chan'[k].addr, data |-> chan'[k].data] = sq_entry'[At_(b + nth_[k])]
  <2> DEFINE l == k + out
  <2>1. /\ k \in 0..m /\ k - 1 \in 0..m /\ l \in 1..(n + in) /\ (k - 1) + out = l - 1
        /\ l - 1 \in 0..n /\ l \in 0..(n + in) /\ l - 1 \in 0..(n + in) /\ 0 \in 0..m
        /\ (l \in 1..n \/ (in = 1 /\ l = n + 1)) /\ n + in \in 0..(n + in)
        /\ k - 1 <= k
    BY ONLY <1>0, <1>17, <1>26
  <2>2. chan'[k] = IF l <= n THEN chan[l] ELSE Req
    BY <1>3
  <2> HIDE DEF l
  <2>3. /\ g[l] = g[l - 1] + (IF chan'[k].wr THEN 1 ELSE 0)
        /\ chan'[k].wr => [addr |-> chan'[k].addr, data |-> chan'[k].data] = sq_entry[SqAt(a + g[l])]
    <3>1. CASE l \in 1..n
      <4>1. l <= n /\ l \in 0..n
        BY ONLY <1>0, <3>1
      <4> QED BY <1>2, <1>11, <1>18, <2>1, <2>2, <3>1, <4>1
    <3>2. CASE in = 1 /\ l = n + 1
      <4>1. ~(l <= n) /\ l - 1 = n /\ n \in 0..n
        BY ONLY <1>0, <3>2
      <4>2. chan'[k] = Req /\ g[l] = nth[n] + w /\ g[l - 1] = nth[n]
        BY <1>18, <2>2, <3>2, <4>1
      <4>3. w = IF Req.wr THEN 1 ELSE 0
        BY <1>5, <1>6, <3>2
      <4>4. w = 1 => a + g[l] = I + 1
        <5>1. nth[n] \in Nat
          BY <1>16, <4>1
        <5>2. a + nth[n] = I /\ a \in {0, 1}
          BY <1>2, <1>8
        <5>3. g[l] = nth[n] + w
          BY <4>2
        <5> QED BY ONLY <5>1, <5>2, <5>3
      <4> QED BY <1>5, <1>12, <4>2, <4>3, <4>4
    <3> QED BY <2>1, <3>1, <3>2
  <2>4. /\ nth_[k] + b = g[l] /\ nth_[k - 1] + b = g[l - 1] /\ nth_[k] \in 0..m /\ nth_[k - 1] \in 0..m
        /\ g[l] \in Nat /\ g[l - 1] \in Nat
    <3>1. nth_[k - 1] + b = g[(k - 1) + out] /\ nth_[k - 1] \in 0..m /\ g[(k - 1) + out] \in Nat
      BY <1>22, <2>1
    <3>2. nth_[k] + b = g[k + out] /\ nth_[k] \in 0..m /\ g[k + out] \in Nat
      BY <1>22, <2>1
    <3> QED BY <2>1, <3>1, <3>2 DEF l
  <2>5. nth_[k] = nth_[k - 1] + (IF chan'[k].wr THEN 1 ELSE 0)
    <3> DEFINE x == IF chan'[k].wr THEN 1 ELSE 0
    <3>1. x \in {0, 1} /\ g[l] = g[l - 1] + x
      BY <2>3
    <3> HIDE DEF x
    <3>2. nth_[k] = nth_[k - 1] + x
      <4> DEFINE u == nth_[k]
                 v == nth_[k - 1]
                 y == g[l]
                 z == g[l - 1]
      <4>1. /\ m \in Nat /\ b \in Nat /\ u \in 0..m /\ v \in 0..m /\ y \in Nat /\ z \in Nat
            /\ u + b = y /\ v + b = z /\ y = z + x /\ x \in {0, 1}
        BY <1>17, <1>20, <2>4, <3>1
      <4> HIDE DEF u, v, y, z
      <4>2. u = v + x
        BY ONLY <4>1
      <4> QED BY <4>2 DEF u, v
    <3> QED BY <3>2 DEF x
  <2>6. ASSUME chan'[k].wr
        PROVE  /\ nth_[k] \in 1..c'
               /\ [addr |-> chan'[k].addr, data |-> chan'[k].data] = sq_entry'[At_(b + nth_[k])]
    <3>1. nth_[k] = nth_[k - 1] + 1
      BY <2>5, <2>6
    <3>2. nth_[k] <= nth_[m] /\ nth_[m] \in 0..m
      <4>1. m \in 0..m /\ k <= m
        BY ONLY <1>17, <1>26
      <4> QED BY <1>22, <1>25, <2>1, <4>1
    <3>3. g[l] <= g[n + in] /\ g[n + in] \in Nat
      <4>1. l <= n + in
        BY ONLY <1>17, <2>1
      <4> QED BY <1>18, <1>19, <2>1, <4>1
    <3>4. /\ nth_[k] \in 1..c' /\ b + nth_[k] = g[l] /\ b + nth_[k] \in 1..SqN
          /\ a + g[l] \in 1..(I + w) /\ (b + nth_[k]) + a = a + g[l]
      <4> DEFINE x == nth_[k]
                 y == g[l]
                 z == nth_[m]
                 u == g[n + in]
                 v == nth_[k - 1]
                 I_ == I'
                 c_ == c'
      <4>1. /\ x = v + 1 /\ x <= z /\ x \in 0..m /\ v \in 0..m /\ z \in 0..m /\ m \in Nat
            /\ x + b = y /\ y <= u /\ u \in Nat /\ b \in Nat /\ a \in {0, 1} /\ w \in {0, 1}
            /\ a + u = I + w /\ b + z = I_ /\ I_ <= c_ /\ c_ \in 0..SqN /\ SqN \in Nat
            /\ y \in Nat /\ I \in Nat
        BY <1>5, <1>8, <1>14, <1>15, <1>17, <1>20, <1>24, <2>4, <3>1, <3>2, <3>3
      <4> HIDE DEF x, y, z, u, v, I_, c_
      <4>2. /\ x \in 1..c_ /\ b + x = y /\ b + x \in 1..SqN /\ a + y \in 1..(I + w)
            /\ (b + x) + a = a + y
        BY ONLY <4>1
      <4> QED BY <4>2 DEF x, y, c_
    <3>5. At_(b + nth_[k]) = SqAt(a + g[l])
      BY <1>9, <3>4
    <3>6. sq_entry'[SqAt(a + g[l])] = sq_entry[SqAt(a + g[l])]
      BY <1>13, <3>4
    <3> QED BY <2>3, <2>6, <3>4, <3>5, <3>6
  <2> QED BY <2>5, <2>6
<1> QED
  <2>1. \E f \in [0..m -> 0..m] :
          /\ f[0] = 0 /\ b + f[m] = I'
          /\ \A j, k \in 0..m : j <= k => f[j] <= f[k] /\ f[k] - f[j] <= k - j
          /\ \A k \in 1..m :
               /\ f[k] = f[k - 1] + (IF chan'[k].wr THEN 1 ELSE 0)
               /\ chan'[k].wr =>
                    /\ f[k] \in 1..c'
                    /\ [addr |-> chan'[k].addr, data |-> chan'[k].data] = sq_entry'[At_(b + f[k])]
    BY <1>23, <1>24, <1>25, <1>26
  <2> QED BY <2>1 DEF ChannelInOrder, Sent, m, b, I, c, At_, SqAt, Ring

-----------------------------------------------------------------------------
(***************************************************************************)
(* The invariant                                                           *)
(***************************************************************************)
LEMMA EmptyOrdered ==
  ASSUME Empty
  PROVE  Tagged /\ OneLoad /\ StoresHeld /\ ChannelInOrder
<1>1. /\ chan = << >> /\ rob = << >> /\ ld_state = "IDLE" /\ ld_pipe = None
      /\ ld_pipe_fwd = None /\ ld_cdb = None /\ \A i \in SqIdx : ~sq_valid[i]
      /\ store_drain_ack = FALSE
  BY DEF Empty
<1>2. Len(chan) = 0 /\ DOMAIN rob = {}
  <2>1. DOMAIN rob = 1..0 /\ 1..0 = {}
    BY <1>1
  <2> QED BY <1>1, <2>1
<1>3. Tagged /\ StoresHeld
  BY <1>1, <1>2 DEF Tagged, StoresHeld
<1>4. OneLoad
  BY <1>1 DEF OneLoad
<1>5. ChannelInOrder
  <2> DEFINE none == [k \in 0..0 |-> 0]
  <2>1. Acked = 0 /\ Issued = 0
    BY <1>1, EmptyAccounted DEF Acked
  <2>2. /\ 0 \in 0..0 /\ none \in [0..0 -> 0..0] /\ none[0] = 0 /\ 1..0 = {}
        /\ \A j, k \in 0..0 : none[j] <= none[k] /\ none[k] - none[j] <= k - j
    OBVIOUS
  <2> HIDE DEF none
  <2>3. Acked + none[Len(chan)] = Issued
    BY <1>2, <2>1, <2>2
  <2> QED BY <1>2, <2>2, <2>3 DEF ChannelInOrder
<1> QED BY <1>3, <1>4, <1>5

LEMMA AlwaysOrderInv == Spec => []OrderInv
<1>1. Init => OrderInv
  <2>1. Init => Empty
    BY DEF Init, LsqInit, Empty
  <2> QED BY <2>1, InitQueueInv, EmptyOrdered DEF OrderInv
<1>2. OrderInv /\ [Next]_vars => OrderInv'
  <2> SUFFICES ASSUME OrderInv, [Next]_vars PROVE OrderInv'
    OBVIOUS
  <2>0. QueueInv
    BY DEF OrderInv
  <2>1. CASE \E d, ld, st, r, accept, serve : Step(d, ld, st, r, accept, serve)
    <3>1. PICK d, ld, st, r, accept, serve : Step(d, ld, st, r, accept, serve)
      BY <2>1
    <3>2. QueueInv'
      BY <2>0, <3>1, CycleKeepsQueueInv
    <3>3. Tagged' /\ OneLoad'
      BY <3>1, TaggedStep, OneLoadStep
    <3>4. StoresHeld' /\ ChannelInOrder'
      BY <3>1, StoresHeldStep, ChannelInOrderStep
    <3> QED BY <3>2, <3>3, <3>4 DEF OrderInv
  <2>2. CASE \E serve \in BOOLEAN : Flush(serve)
    <3>1. Empty' /\ QueueInv'
      BY <2>0, <2>2, FlushEmpties
    <3>2. Tagged' /\ OneLoad' /\ StoresHeld' /\ ChannelInOrder'
      BY <3>1, EmptyOrdered, PTL
    <3> QED BY <3>1, <3>2 DEF OrderInv
  <2>3. CASE UNCHANGED vars
    <3> USE DEF vars, lsq_vars, lq_vars, sq_vars, ld_vars
    <3>1. QueueInv'
      BY <2>0, <2>3, UnchangedQueueInv
    <3>2. Tagged' /\ OneLoad' /\ StoresHeld'
      BY <2>3 DEF OrderInv, Tagged, OneLoad, Underway, StoresHeld
    <3>3. ChannelInOrder'
      <4>1. Issued' = Issued /\ Acked' = Acked
        BY <2>3 DEF Issued, Acked
      <4>2. chan' = chan /\ sq_count' = sq_count /\ sq_entry' = sq_entry /\ sq_head' = sq_head
        BY <2>3
      <4>3. ChannelInOrder
        BY DEF OrderInv
      <4>4. ASSUME NEW k, NEW n PROVE Sent(k, n)' <=> Sent(k, n)
        BY ONLY <4>1, <4>2 DEF Sent, SqAt
      <4>5. Len(chan') = Len(chan)
        BY <4>2
      <4> QED BY ONLY <4>1, <4>2, <4>3, <4>4, <4>5 DEF ChannelInOrder
    <3> QED BY <3>1, <3>2, <3>3 DEF OrderInv
  <2> QED BY <2>1, <2>2, <2>3, NextIs
<1> QED BY <1>1, <1>2, PTL DEF Spec

-----------------------------------------------------------------------------
(***************************************************************************)
(* The queue is total store order                                          *)
(***************************************************************************)

\* The abstract store that an entry stands for.
Entry(ready, entry, committed) ==
  LET w == IF ready THEN entry ELSE [addr |-> None, data |-> None]
  IN  [addr |-> w.addr, data |-> w.data, committed |-> committed]

WellWritten ==
  /\ ToWrite \in Seq(Tso!Store) /\ Len(ToWrite) = sq_count - Acked
  /\ \A k \in 1..(sq_count - Acked) :
       ToWrite[k] = Entry(sq_ready[SqAt(Acked + k)], sq_entry[SqAt(Acked + k)],
                          sq_committed[SqAt(Acked + k)])

LEMMA ToWriteIs == ASSUME OrderInv PROVE WellWritten
<1> DEFINE n == sq_count - Acked
           At(k) == SqAt(Acked + k)
<1>1. QueueInv
  BY DEF OrderInv
<1>2. /\ Acked \in {0, 1} /\ sq_count \in 0..SqN /\ SqN \in Nat /\ Acked <= sq_count
      /\ \A k \in 1..(SqN + 1) : SqAt(k) \in SqIdx
  <2>1. /\ Acked \in {0, 1} /\ sq_count \in 0..SqN /\ SqN \in Nat
        /\ Issued \in Nat /\ Acked <= Issued /\ Issued <= sq_count
    BY <1>1, SlotFacts, Sizes
  <2>2. \A k \in 1..(SqN + 1) : SqAt(k) \in SqIdx
    BY <1>1, SlotFacts
  <2>3. Acked <= sq_count
    BY <2>1
  <2> QED BY <2>1, <2>2, <2>3
<1>3. n \in Nat /\ \A k \in 1..n : At(k) \in SqIdx
  <2>1. n \in Nat /\ \A k \in 1..n : Acked + k \in 1..(SqN + 1)
    BY <1>2
  <2> QED BY <1>2, <2>1
<1>4. ToWrite = [k \in 1..n |-> Entry(sq_ready[At(k)], sq_entry[At(k)], sq_committed[At(k)])]
  BY DEF ToWrite, Entry, Acked
<1>5. ASSUME NEW i \in SqIdx
      PROVE  Entry(sq_ready[i], sq_entry[i], sq_committed[i]) \in Tso!Store
  <2>1. sq_ready[i] \in BOOLEAN /\ sq_committed[i] \in BOOLEAN /\ (sq_ready[i] => sq_entry[i] \in Word)
    BY <1>1 DEF QueueInv, TypeOK, Known
  <2>2. CASE sq_ready[i]
    BY <2>1, <2>2 DEF Entry, Word, Tso!Store
  <2>3. CASE ~sq_ready[i]
    BY <2>1, <2>3 DEF Entry, Tso!Store
  <2> QED BY <2>1, <2>2, <2>3
<1> HIDE DEF n, At
<1>6. ToWrite \in [1..n -> Tso!Store]
  BY <1>3, <1>4, <1>5
<1>7. ToWrite \in Seq(Tso!Store) /\ Len(ToWrite) = n
  <2>1. ToWrite \in Seq(Tso!Store)
    BY <1>3, <1>6, SeqDef
  <2> QED BY <1>3, <1>6, <2>1, LenProperties
<1>8. \A k \in 1..n :
        ToWrite[k] = Entry(sq_ready[At(k)], sq_entry[At(k)], sq_committed[At(k)])
  BY <1>4
<1> QED BY <1>7, <1>8 DEF WellWritten, n, At

\* A store is written when it is the oldest that is left to write, and it has
\* committed.
LEMMA WritesOldest ==
  ASSUME OrderInv, NEW serve \in BOOLEAN
  PROVE  /\ ~(Answers(serve) /\ chan[1].wr) => Effect(Served(serve)) = mem
         /\ Answers(serve) /\ chan[1].wr =>
              /\ Acked + 1 <= Issued
              /\ Tso!Writable /\ Effect(Served(serve)) = Tso!Written
<1>1. QueueInv
  BY DEF OrderInv
<1>2. /\ Served(serve) # None <=> Answers(serve)
      /\ Answers(serve) => Served(serve) = chan[1] /\ Len(chan) \in Nat /\ Len(chan) >= 1
  BY <1>1, AnswerFacts
<1>3. ~(Answers(serve) /\ chan[1].wr) => Effect(Served(serve)) = mem
  BY <1>2 DEF Effect
<1>4. ASSUME Answers(serve), chan[1].wr
      PROVE  /\ Acked + 1 <= Issued
             /\ Tso!Writable /\ Effect(Served(serve)) = Tso!Written
  <2> DEFINE n == Len(chan)
             i == SqAt(Acked + 1)
  <2>1. n \in Nat /\ n >= 1 /\ Effect(Served(serve)) = [mem EXCEPT ![chan[1].addr] = chan[1].data]
    BY <1>2, <1>4 DEF Effect
  <2>2. PICK nth \in [0..n -> 0..n] :
          /\ nth[0] = 0 /\ Acked + nth[n] = Issued
          /\ \A j, k \in 0..n : j <= k => nth[j] <= nth[k]
          /\ \A k \in 1..n :
               /\ nth[k] = nth[k - 1] + (IF chan[k].wr THEN 1 ELSE 0)
               /\ chan[k].wr => Sent(k, nth[k])
    BY DEF OrderInv, ChannelInOrder
  <2> HIDE DEF n
  <2>3. /\ 1 \in 1..n /\ 1 - 1 = 0 /\ 1 \in 0..n /\ n \in 0..n /\ 1 <= n
    BY ONLY <2>1
  <2>4. nth[1] = 1 /\ Sent(1, 1) /\ nth[1] <= nth[n]
    <3>1. nth[1] = nth[1 - 1] + 1 /\ Sent(1, nth[1])
      BY <1>4, <2>2, <2>3
    <3> QED BY <2>2, <2>3, <3>1
  <2>5. [addr |-> chan[1].addr, data |-> chan[1].data] = sq_entry[i]
    BY <2>4 DEF Sent
  <2>6. Acked + 1 \in 1..Issued /\ Acked + 1 <= Issued /\ sq_count - Acked >= 1
        /\ Acked + 1 \in 1..(SqN + 1) /\ sq_count - Acked \in Nat
    <3>1. /\ Acked \in {0, 1} /\ Issued \in Nat /\ Issued <= sq_count /\ sq_count \in 0..SqN
          /\ SqN \in Nat
      BY <1>1, SlotFacts, Sizes
    <3>2. nth[n] \in 0..n
      BY <2>2, <2>3
    <3>3. Acked + nth[n] = Issued /\ 1 <= nth[n]
      BY <2>2, <2>4
    <3> QED BY ONLY <2>1, <3>1, <3>2, <3>3
  <2>7. i \in SqIdx /\ sq_valid[i] /\ sq_committed[i]
    BY <1>1, <2>6, SlotFacts
  <2>8. sq_ready[i]
    BY <2>7 DEF OrderInv, StoresHeld
  <2>9. /\ ToWrite \in Seq(Tso!Store) /\ Len(ToWrite) = sq_count - Acked
        /\ ToWrite[1] = Entry(sq_ready[i], sq_entry[i], sq_committed[i])
    <3>1. 1 \in 1..(sq_count - Acked)
      BY <2>6
    <3> QED BY <3>1, ToWriteIs DEF WellWritten
  <2>10. ToWrite # << >> /\ Head(ToWrite) = ToWrite[1]
    BY <2>6, <2>9, EmptySeq, HeadTailProperties
  <2>11. ToWrite[1] = [addr |-> sq_entry[i].addr, data |-> sq_entry[i].data,
                       committed |-> sq_committed[i]]
    BY <2>8, <2>9 DEF Entry
  <2>12. ToWrite[1].addr = chan[1].addr /\ ToWrite[1].data = chan[1].data
    BY <2>5, <2>11
  <2>13. Tso!Writable
    BY <2>7, <2>10, <2>11 DEF Tso!Writable
  <2>14. Effect(Served(serve)) = Tso!Written
    BY <2>1, <2>10, <2>12 DEF Tso!Written
  <2> QED BY <2>6, <2>13, <2>14
<1> QED BY <1>3, <1>4

\* A cycle advances the stores in the queue, and takes one in at the end when
\* a store is dispatched.
LEMMA StoresAdvance ==
  ASSUME OrderInv, NEW d, NEW ld, NEW st, NEW r, NEW accept, NEW serve,
         Step(d, ld, st, r, accept, serve)
  PROVE  /\ Acked' = 0 => Tso!Then(ToWrite)
         /\ Acked' = 1 => Tso!Then(Tail(ToWrite))
         /\ Len(ToWrite') <= SqN
<1> DEFINE a == Acked
           b == Acked'
           c == sq_count
           c_ == sq_count'
           e == One(d = "store")
           At(k) == SqAt(k)
           At_(k) == Ring(SqN, sq_head', k)
           old == IF b = 1 THEN Tail(ToWrite) ELSE ToWrite
           new == ToWrite'
           Old(i) == Entry(sq_ready[i], sq_entry[i], sq_committed[i])
           New(i) == Entry(sq_ready'[i], sq_entry'[i], sq_committed'[i])
           n == c - a - b
<1>1. QueueInv /\ OrderInv'
  <2>1. QueueInv
    BY DEF OrderInv
  <2>2. QueueInv'
    BY <2>1, CycleKeepsQueueInv
  <2>3. Tagged' /\ OneLoad' /\ StoresHeld' /\ ChannelInOrder'
    BY TaggedStep, OneLoadStep, StoresHeldStep, ChannelInOrderStep
  <2> QED BY <2>1, <2>2, <2>3 DEF OrderInv
<1>2. WellWritten /\ WellWritten'
  BY <1>1, ToWriteIs, PTL
<1>3. /\ c \in Nat /\ e \in {0, 1} /\ a \in {0, 1} /\ (e = 1 => c < SqN) /\ c <= SqN
      /\ Issued \in Nat /\ a <= Issued /\ Issued <= c /\ SqN \in Nat
      /\ c_ = c + e - a
  <2>1. /\ sq_count \in Nat /\ e \in {0, 1} /\ Acked \in {0, 1} /\ (e = 1 => sq_count < SqN)
        /\ sq_count <= SqN /\ sq_count' = sq_count + e - Acked
    BY <1>1, QueueMoves
  <2> QED BY <1>1, <2>1, SlotFacts, Sizes
<1>4. b \in {0, 1} /\ (b = 1 => a + 1 <= Issued)
  <2>1. b = One(Answers(serve) /\ chan[1].wr) /\ serve \in BOOLEAN
    BY <1>1, IssuedMoves DEF Step
  <2> QED BY <2>1, WritesOldest DEF One
<1>5. \A k \in 1..SqN : At_(k) = At(k + a)
  <2>1. Moves(SqN, sq_head, sq_count, One(d = "store"), Acked, sq_head')
    BY <1>1, QueueMoves
  <2> QED BY <2>1 DEF Moves, SqAt, Ring
<1>6. /\ ToWrite \in Seq(Tso!Store) /\ Len(ToWrite) = c - a
      /\ \A k \in 1..(c - a) : ToWrite[k] = Old(At(a + k))
      /\ new \in Seq(Tso!Store) /\ Len(new) = c_ - b
      /\ \A k \in 1..(c_ - b) : new[k] = New(At_(b + k))
  BY <1>2 DEF WellWritten, SqAt, Ring
<1>7. e = 1 <=> d = "store"
  BY DEF One
<1>8. /\ \A k \in 1..c : At(k) \in SqIdx /\ sq_valid[At(k)]
      /\ At(c + 1) = sq_tail
  <2>1. /\ \A k \in 1..(SqN + 1) : At(k) \in SqIdx
        /\ \A i \in SqIdx : sq_valid[i] <=> \E k \in 1..c : i = At(k)
        /\ At(c + 1) = sq_tail
    BY <1>1, SlotFacts
  <2>2. \A k \in 1..c : k \in 1..(SqN + 1)
    BY <1>3, Sizes
  <2> QED BY <2>1, <2>2
<1>9. ASSUME NEW i \in SqIdx, sq_valid[i] PROVE Tso!Grows(Old(i), New(i))
  <2>1. /\ sq_committed[i] => sq_committed'[i]
        /\ sq_ready[i] => sq_ready'[i] /\ sq_entry'[i] = sq_entry[i]
    BY <1>9, EntryMoves
  <2>2. CASE sq_ready[i]
    BY <2>1, <2>2 DEF Entry, Tso!Grows
  <2>3. CASE ~sq_ready[i]
    <3>1. Old(i).addr = None /\ Old(i).committed = sq_committed[i]
      BY <2>3 DEF Entry
    <3>2. New(i).committed = sq_committed'[i]
      BY DEF Entry
    <3> HIDE DEF Old, New
    <3> QED BY <2>1, <3>1, <3>2 DEF Tso!Grows
  <2> QED BY <2>2, <2>3
<1>10. d = "store" => New(sq_tail) = Tso!Unresolved
  <2>1. d = "store" => /\ sq_tail \in SqIdx /\ ~sq_committed'[sq_tail] /\ ~sq_ready'[sq_tail]
    BY EntryMoves
  <2>2. sq_committed' \in [SqIdx -> BOOLEAN]
    BY <1>1, SqStep
  <2>3. d = "store" => sq_committed'[sq_tail] = FALSE
    BY <2>1, <2>2
  <2> QED BY <2>1, <2>3 DEF Entry, Tso!Unresolved
<1> HIDE DEF a, b, c, c_, e, At, At_, Old, New, n
<1>11. n \in Nat /\ n = c - a - b /\ c_ - b = n + e /\ c - a \in Nat /\ c_ - b <= SqN
       /\ (b = 1 => c - a >= 1 /\ n = (c - a) - 1) /\ (b = 0 => n = c - a)
  <2>1. n = c - a - b
    BY DEF n
  <2> QED BY ONLY <1>3, <1>4, <2>1
<1>12. /\ Len(old) = n
       /\ \A k \in 1..n : old[k] = Old(At(a + b + k)) /\ a + b + k \in 1..c
  <2>1. ASSUME NEW k \in 1..n
        PROVE  /\ k + 1 \in Nat /\ k \in 1..(c - a) /\ (b = 1 => k + 1 \in 1..(c - a))
               /\ (b = 1 => a + (k + 1) = a + b + k) /\ (b = 0 => a + k = a + b + k)
               /\ a + b + k \in 1..c
    BY ONLY <1>3, <1>4, <1>11, <2>1
  <2>2. CASE b = 1
    <3>1. ToWrite # << >>
      BY <1>6, <1>11, <2>2, EmptySeq
    <3>2. Len(Tail(ToWrite)) = c - a - 1 /\ \A k \in 1..(c - a - 1) : Tail(ToWrite)[k] = ToWrite[k + 1]
      BY <1>6, <3>1, HeadTailProperties
    <3>3. \A k \in 1..n : old[k] = ToWrite[k + 1]
      BY <1>11, <2>2, <3>2
    <3> QED BY <1>6, <1>11, <2>1, <2>2, <3>2, <3>3
  <2>3. CASE b = 0
    BY <1>6, <1>11, <2>1, <2>3
  <2> QED BY <1>4, <2>2, <2>3
<1>13. ASSUME NEW k \in 1..n
       PROVE  new[k] \in Tso!Store /\ Tso!Grows(old[k], new[k])
  <2>1. k \in 1..(c_ - b) /\ b + k \in 1..SqN /\ (b + k) + a = a + b + k
    BY ONLY <1>3, <1>4, <1>11, <1>13
  <2>2. new[k] = New(At_(b + k)) /\ At_(b + k) = At(a + b + k)
    BY <1>5, <1>6, <2>1
  <2>3. new[k] \in Tso!Store
    BY <1>6, <2>1, ElementOfSeq
  <2>4. old[k] = Old(At(a + b + k)) /\ At(a + b + k) \in SqIdx /\ sq_valid[At(a + b + k)]
    BY <1>8, <1>12
  <2> QED BY <1>9, <2>2, <2>3, <2>4
<1>14. e = 1 => new[n + 1] = Tso!Unresolved
  <2> SUFFICES ASSUME e = 1 PROVE new[n + 1] = Tso!Unresolved
    OBVIOUS
  <2>1. n + 1 \in 1..(c_ - b) /\ b + (n + 1) \in 1..SqN /\ (b + (n + 1)) + a = c + 1
    BY ONLY <1>3, <1>4, <1>11, e = 1
  <2>2. new[n + 1] = New(At_(b + (n + 1))) /\ At_(b + (n + 1)) = At(c + 1)
    BY <1>5, <1>6, <2>1
  <2> QED BY <1>7, <1>8, <1>10, <2>2
<1>15. Len(new) = n + e
  BY <1>6, <1>11
<1> HIDE DEF old
<1>16. Tso!Then(old)
  <2>1. Len(new) = Len(old) \/ (Len(new) = Len(old) + 1 /\ new[Len(old) + 1] = Tso!Unresolved)
    <3>1. CASE e = 0
      <4>1. n + e = n
        BY <1>11, <3>1
      <4> QED BY <1>12, <1>15, <4>1
    <3>2. CASE e = 1
      BY <1>12, <1>14, <1>15, <3>2
    <3> QED BY <1>3, <3>1, <3>2
  <2> QED BY <1>12, <1>13, <2>1 DEF Tso!Then
<1>17. Len(new) <= SqN
  BY <1>6, <1>11
<1> QED BY <1>16, <1>17 DEF old, b

\* The queue over its memory implements total store order (TotalStoreOrder):
\* memory sees the stores in program order, each once and none before it has
\* committed, whatever the loads between them, the order in which addresses
\* are computed and the time answers take; a flush drops them all, but for the
\* one that memory may be writing.
THEOREM StoresReachMemoryInOrder == Spec => StoresInOrder
<1>1. Init => Tso!Init
  <2> SUFFICES ASSUME Init PROVE Tso!Init
    OBVIOUS
  <2>1. sq_count = 0 /\ store_drain_ack = FALSE /\ mem \in [Addr -> Val]
    BY DEF Init, LsqInit
  <2>2. Empty
    BY DEF Init, LsqInit, Empty
  <2>3. WellWritten
    BY <2>2, InitQueueInv, EmptyOrdered, ToWriteIs DEF OrderInv
  <2>4. ToWrite = << >>
    <3>0. Acked = 0
      BY <2>1 DEF Acked
    <3>1. sq_count - Acked = 0
      BY <2>1, <3>0
    <3>2. ToWrite \in Seq(Tso!Store) /\ Len(ToWrite) = 0
      BY <2>3, <3>1 DEF WellWritten
    <3> QED BY <3>2, EmptySeq
  <2> QED BY <2>1, <2>4 DEF Tso!Init
<1>2. OrderInv /\ [Next]_vars => [Tso!Next]_(Tso!vars)
  <2> SUFFICES ASSUME OrderInv, [Next]_vars PROVE [Tso!Next]_(Tso!vars)
    OBVIOUS
  <2>0. QueueInv
    BY DEF OrderInv
  <2>1. CASE \E d, ld, st, r, accept, serve : Step(d, ld, st, r, accept, serve)
    <3>1. PICK d, ld, st, r, accept, serve : Step(d, ld, st, r, accept, serve)
      BY <2>1
    <3>2. /\ Acked' = 0 => Tso!Then(ToWrite)
          /\ Acked' = 1 => Tso!Then(Tail(ToWrite))
          /\ Len(ToWrite') <= SqN
      BY <3>1, StoresAdvance
    <3>3. serve \in BOOLEAN /\ mem' = Effect(Served(serve))
      BY <3>1 DEF Step, Cycle
    <3>4. Acked' = One(Answers(serve) /\ chan[1].wr)
      BY <2>0, <3>1, IssuedMoves
    <3>5. CASE Answers(serve) /\ chan[1].wr
      <4>1. Tso!Write
        BY <3>2, <3>3, <3>4, <3>5, WritesOldest DEF One, Tso!Write
      <4> QED BY <3>2, <4>1 DEF Tso!Next
    <3>6. CASE ~(Answers(serve) /\ chan[1].wr)
      <4>1. Tso!Advance
        BY <3>2, <3>3, <3>4, <3>6, WritesOldest DEF One, Tso!Advance
      <4> QED BY <3>2, <4>1 DEF Tso!Next
    <3> QED BY <3>5, <3>6
  <2>2. CASE \E serve \in BOOLEAN : Flush(serve)
    <3>1. PICK serve \in BOOLEAN : Flush(serve)
      BY <2>2
    <3>2. Empty' /\ QueueInv'
      BY <2>0, <3>1, FlushEmpties
    <3>3. WellWritten'
      <4>1. Tagged' /\ OneLoad' /\ StoresHeld' /\ ChannelInOrder'
        BY <3>2, EmptyOrdered, PTL
      <4>2. OrderInv'
        BY <3>2, <4>1 DEF OrderInv
      <4> QED BY <4>2, ToWriteIs, PTL
    <3>4. ToWrite' = << >> /\ Len(ToWrite') = 0
      <4>1. sq_count' = 0 /\ store_drain_ack' = FALSE
        BY <3>2 DEF Empty
      <4>0. Acked' = 0
        BY <4>1 DEF Acked
      <4>2. sq_count' - Acked' = 0
        BY <4>0, <4>1
      <4>3. ToWrite' \in Seq(Tso!Store) /\ Len(ToWrite') = 0
        BY <3>3, <4>2 DEF WellWritten
      <4> QED BY <4>3, EmptySeq
    <3>5. mem' = Effect(Served(serve))
      BY <3>1 DEF Flush
    <3>6. Tso!Squash
      BY <3>4, <3>5, WritesOldest DEF Tso!Squash
    <3>7. Len(ToWrite') <= SqN
      BY <3>4, Sizes
    <3> QED BY <3>6, <3>7 DEF Tso!Next
  <2>3. CASE UNCHANGED vars
    <3>1. ToWrite' = ToWrite /\ mem' = mem
      BY <2>3 DEF ToWrite, SqAt, vars, lsq_vars, sq_vars
    <3> QED BY <3>1 DEF Tso!vars
  <2> QED BY <2>1, <2>2, <2>3, NextIs
<1> QED BY <1>1, <1>2, AlwaysOrderInv, PTL DEF Spec, StoresInOrder, Tso!Spec

-----------------------------------------------------------------------------
(***************************************************************************)
(* Loads                                                                   *)
(***************************************************************************)

\* A load is on its way to memory once at most: from its request until the
\* answer is registered there is one load in the channel, the one that waits.
LoadAsked ==
  /\ ld_req_issued => ld_state = "WAIT"
  /\ be_resp # None => ld_req_issued
  /\ \A k \in 1..Len(chan) : ~chan[k].wr =>
       /\ ld_req_issued /\ be_resp = None /\ chan[k].addr = ld_wait_addr
       /\ \A l \in 1..Len(chan) : ~chan[l].wr => l = k

LoadInv == QueueInv /\ LoadAsked

\* What a cycle does to the load that waits.
LEMMA LoadMoves ==
  ASSUME LoadInv, NEW d, NEW ld, NEW st, NEW r, NEW accept, NEW serve,
         Step(d, ld, st, r, accept, serve)
  PROVE  LET asks == Granted(accept) /\ ~Req.wr
             told == Answers(serve) /\ ~chan[1].wr
             done == ld_state = "WAIT" /\ be_resp # None
         IN  /\ asks => /\ ld_state = "WAIT" /\ ~ld_req_issued /\ be_resp = None
                        /\ Req.addr = ld_wait_addr
             /\ told => /\ ld_state = "WAIT" /\ ld_req_issued /\ be_resp = None
                        /\ chan[1].addr = ld_wait_addr
             /\ be_resp' = IF told THEN mem[chan[1].addr] ELSE None
             /\ ld_req_issued' = (~done /\ (ld_req_issued \/ asks))
             /\ ld_state = "WAIT" /\ ~done => ld_state' = "WAIT" /\ ld_wait_addr' = ld_wait_addr
<1> DEFINE asks == Granted(accept) /\ ~Req.wr
           told == Answers(serve) /\ ~chan[1].wr
           done == ld_state = "WAIT" /\ be_resp # None
           fwd == IF Entered(ld) /\ Source(ld) = None THEN ld.addr ELSE None
<1>1. /\ serve \in BOOLEAN /\ LoadAsked /\ QueueInv
      /\ Active(fwd, ld_pipe_fwd, drain_store, Granted(accept), Rsp(serve))
  BY StepParts DEF Step, LoadInv
<1>2. asks => /\ ld_state = "WAIT" /\ ~ld_req_issued /\ be_resp = None
              /\ Req.addr = ld_wait_addr
  <2> SUFFICES ASSUME asks
               PROVE  /\ ld_state = "WAIT" /\ ~ld_req_issued /\ be_resp = None
                      /\ Req.addr = ld_wait_addr
    OBVIOUS
  <2>1. Req # None /\ ~Req.wr
    BY DEF Granted
  <2>2. issue_load(FALSE) /\ Req.addr = ld_wait_addr
    BY <1>1, <2>1, RequestFacts
  <2> QED BY <1>1, <2>2 DEF issue_load, LoadAsked
<1>3. Granted(accept) => (issue_load(FALSE) <=> ~Req.wr)
  BY <1>1, RequestFacts DEF Granted
<1>4. /\ rsp_id_valid(Rsp(serve)) <=> Answers(serve)
      /\ Answers(serve) =>
           /\ Len(chan) \in Nat /\ Len(chan) >= 1 /\ Rsp(serve).id = pend_rd_ptr
           /\ Rsp(serve).rdata = IF chan[1].wr THEN None ELSE mem[chan[1].addr]
           /\ pend_data[pend_rd_ptr].is_load = ~chan[1].wr
  BY <1>1, AnswerFacts
<1>5. told => /\ ld_state = "WAIT" /\ ld_req_issued /\ be_resp = None
              /\ chan[1].addr = ld_wait_addr
  <2> SUFFICES ASSUME told
               PROVE  /\ ld_state = "WAIT" /\ ld_req_issued /\ be_resp = None
                      /\ chan[1].addr = ld_wait_addr
    OBVIOUS
  <2>1. 1 \in 1..Len(chan)
    BY <1>4
  <2> QED BY <1>1, <2>1 DEF LoadAsked
<1>6. be_resp' = IF told THEN mem[chan[1].addr] ELSE None
  BY <1>1, <1>4 DEF Active
<1>7. /\ ld_req_issued' = (~done /\ (ld_req_issued \/ asks))
      /\ ld_state = "WAIT" /\ ~done => ld_state' = "WAIT" /\ ld_wait_addr' = ld_wait_addr
  BY <1>1, <1>3 DEF Active
<1> QED BY <1>2, <1>5, <1>6, <1>7

LEMMA LoadAskedStep ==
  ASSUME LoadInv, NEW d, NEW ld, NEW st, NEW r, NEW accept, NEW serve,
         Step(d, ld, st, r, accept, serve)
  PROVE  LoadAsked'
<1> DEFINE g == Granted(accept)
           s == Answers(serve)
           asks == g /\ ~Req.wr
           told == s /\ ~chan[1].wr
           done == ld_state = "WAIT" /\ be_resp # None
<1>1. /\ asks => /\ ld_state = "WAIT" /\ ~ld_req_issued /\ be_resp = None
                 /\ Req.addr = ld_wait_addr
      /\ told => ld_state = "WAIT" /\ ld_req_issued /\ be_resp = None
      /\ be_resp' = IF told THEN mem[chan[1].addr] ELSE None
      /\ ld_req_issued' = (~done /\ (ld_req_issued \/ asks))
      /\ ld_state = "WAIT" /\ ~done => ld_state' = "WAIT" /\ ld_wait_addr' = ld_wait_addr
  BY LoadMoves
<1>2. /\ Len(chan) \in Nat /\ Len(chan') = Len(chan) + One(g) - One(s)
      /\ \A k \in 1..Len(chan') :
           chan'[k] = IF k + One(s) <= Len(chan) THEN chan[k + One(s)] ELSE Req
      /\ Len(chan') \in Nat
  <2>1. QueueInv
    BY DEF LoadInv
  <2>2. /\ Len(chan) \in Nat /\ Len(chan') = Len(chan) + One(g) - One(s)
        /\ \A k \in 1..Len(chan') :
             chan'[k] = IF k + One(s) <= Len(chan) THEN chan[k + One(s)] ELSE Req
        /\ chan' \in Seq(Request)
    BY <2>1, ChannelMoves
  <2> QED BY <2>2, LenProperties
<1>3. /\ One(g) \in {0, 1} /\ One(s) \in {0, 1}
      /\ (One(g) = 1 <=> g) /\ (One(s) = 1 <=> s)
  BY DEF One
<1>4. /\ ld_req_issued => ld_state = "WAIT"
      /\ be_resp # None => ld_req_issued
      /\ \A k \in 1..Len(chan) : ~chan[k].wr =>
           /\ ld_req_issued /\ be_resp = None /\ chan[k].addr = ld_wait_addr
           /\ \A l \in 1..Len(chan) : ~chan[l].wr => l = k
  BY DEF LoadInv, LoadAsked
<1> HIDE DEF g, s
<1>5. ld_req_issued' => ld_state' = "WAIT" /\ ld_wait_addr' = ld_wait_addr
  BY <1>1, <1>4
<1>6. be_resp' # None => ld_req_issued'
  BY <1>1
\* A load in the channel was there before, or is the one that now asks.
<1>7. ASSUME NEW k \in 1..Len(chan'), ~chan'[k].wr
      PROVE  \/ /\ k + One(s) \in 1..Len(chan) /\ ~chan[k + One(s)].wr
                /\ chan'[k] = chan[k + One(s)]
             \/ asks /\ k = Len(chan') /\ chan'[k] = Req
  <2>1. CASE k + One(s) <= Len(chan)
    <3>1. k + One(s) \in 1..Len(chan)
      BY ONLY <1>2, <1>3, <2>1, k \in 1..Len(chan')
    <3> QED BY <1>2, <1>7, <2>1, <3>1
  <2>2. CASE ~(k + One(s) <= Len(chan))
    <3>1. One(g) = 1 /\ k = Len(chan')
      BY ONLY <1>2, <1>3, <2>2, k \in 1..Len(chan')
    <3>2. g /\ chan'[k] = Req
      BY <1>2, <1>3, <2>2, <3>1
    <3> QED BY <1>7, <3>1, <3>2
  <2> QED BY <2>1, <2>2
<1>8. ASSUME NEW k \in 1..Len(chan'), ~chan'[k].wr
      PROVE  /\ ld_req_issued' /\ be_resp' = None /\ chan'[k].addr = ld_wait_addr'
             /\ \A l \in 1..Len(chan') : ~chan'[l].wr => l = k
  <2>1. CASE k + One(s) \in 1..Len(chan) /\ ~chan[k + One(s)].wr /\ chan'[k] = chan[k + One(s)]
    <3>1. /\ ld_req_issued /\ be_resp = None /\ chan[k + One(s)].addr = ld_wait_addr
          /\ \A l \in 1..Len(chan) : ~chan[l].wr => l = k + One(s)
      BY <1>4, <2>1
    <3>2. ld_req_issued' /\ ~asks /\ ld_wait_addr' = ld_wait_addr
      BY <1>1, <1>4, <1>5, <3>1
    <3>3. ~told
      <4> SUFFICES ASSUME told PROVE FALSE
        OBVIOUS
      <4>0. s
        OBVIOUS
      <4>1. One(s) = 1
        BY <1>3, <4>0
      <4>2. 1 \in 1..Len(chan)
        BY ONLY <1>2, <1>3, <2>1, k \in 1..Len(chan')
      <4>3. 1 = k + One(s)
        BY <3>1, <4>2
      <4> QED BY ONLY <1>2, <4>1, <4>3, k \in 1..Len(chan')
    <3>4. ASSUME NEW l \in 1..Len(chan'), ~chan'[l].wr PROVE l = k
      <4>1. l + One(s) = k + One(s)
        BY <1>7, <3>1, <3>2, <3>4
      <4> QED BY ONLY <1>2, <1>3, <4>1, l \in 1..Len(chan'), k \in 1..Len(chan')
    <3>5. be_resp' = None
      BY <1>1, <3>3
    <3> QED BY <2>1, <3>1, <3>2, <3>4, <3>5
  <2>2. CASE asks /\ k = Len(chan') /\ chan'[k] = Req
    <3>1. ~ld_req_issued /\ be_resp = None /\ Req.addr = ld_wait_addr
      BY <1>1, <2>2
    <3>2. ld_req_issued' /\ ld_wait_addr' = ld_wait_addr
      BY <1>1, <1>5, <2>2, <3>1
    <3>3. be_resp' = None
      BY <1>1, <3>1
    <3>4. ASSUME NEW l \in 1..Len(chan'), ~chan'[l].wr PROVE l = k
      BY <1>4, <1>7, <2>2, <3>1, <3>4
    <3> QED BY <2>2, <3>1, <3>2, <3>3, <3>4
  <2> QED BY <1>7, <1>8, <2>1, <2>2
<1> QED BY <1>5, <1>6, <1>8 DEF LoadAsked

\* A flush empties the channel and forgets load and answer.
LEMMA FlushForgetsLoad ==
  ASSUME QueueInv, NEW serve \in BOOLEAN, Flush(serve)
  PROVE  LoadAsked' /\ be_resp' = None
<1>1. ld_req_issued' = FALSE /\ be_resp' = None /\ chan' = << >>
  BY DEF Flush, LsqClock, Forget
<1>2. 1..Len(chan') = {}
  BY <1>1
<1> QED BY <1>1, <1>2 DEF LoadAsked

LEMMA AlwaysLoadInv == Spec => []LoadInv
<1>1. Init => LoadInv
  <2> SUFFICES ASSUME Init PROVE LoadAsked
    BY InitQueueInv DEF LoadInv
  <2>1. ld_req_issued = FALSE /\ be_resp = None /\ chan = << >>
    BY DEF Init, LsqInit
  <2>2. 1..Len(chan) = {}
    BY <2>1
  <2> QED BY <2>1, <2>2 DEF LoadAsked
<1>2. LoadInv /\ QueueInv' /\ [Next]_vars => LoadInv'
  <2> SUFFICES ASSUME LoadInv, [Next]_vars PROVE LoadAsked'
    BY DEF LoadInv
  <2>1. CASE \E d, ld, st, r, accept, serve : Step(d, ld, st, r, accept, serve)
    BY <2>1, LoadAskedStep
  <2>2. CASE \E serve \in BOOLEAN : Flush(serve)
    BY <2>2, FlushForgetsLoad DEF LoadInv
  <2>3. CASE UNCHANGED vars
    BY <2>3 DEF LoadInv, LoadAsked, vars, lsq_vars
  <2> QED BY <2>1, <2>2, <2>3, NextIs
<1> QED BY <1>1, <1>2, AlwaysQueueInv, PTL DEF Spec

\* Every answer of memory that the queue takes for a load is the one answer to
\* the load that waits, and the value of memory at its address.
THEOREM LoadsGetTheirAnswer == Spec => LoadsReadMemory
<1>1. LoadInv /\ [Next]_vars =>
        [be_resp' # None =>
           ld_state = "WAIT" /\ be_resp = None /\ be_resp' = mem[ld_wait_addr]]_vars
  <2> SUFFICES ASSUME LoadInv, Next, be_resp' # None
               PROVE  ld_state = "WAIT" /\ be_resp = None /\ be_resp' = mem[ld_wait_addr]
    OBVIOUS
  <2>1. CASE \E d, ld, st, r, accept, serve : Step(d, ld, st, r, accept, serve)
    BY <2>1, LoadMoves
  <2>2. CASE \E serve \in BOOLEAN : Flush(serve)
    BY <2>2, FlushForgetsLoad DEF LoadInv
  <2> QED BY <2>1, <2>2, NextIs
<1> QED BY <1>1, AlwaysLoadInv, PTL DEF Spec, LoadsReadMemory
=============================================================================
