------------------------------ MODULE SplitPhase ----------------------------
(***************************************************************************)
(* What travels on the split-phase memory channel (mem_req_t and mem_rsp_t *)
(* of rtl/top/f386_pkg.sv).  The client bit of the transaction id   *)
(* becomes a field of its own.  Size, byte enables and cacheability travel *)
(* along unchanged and are left out, and so are response codes other than  *)
(* OK, the only one the shim gives.                                        *)
(***************************************************************************)
EXTENDS MemTypes, Integers

CONSTANT PendDepth  \* CONF_LSQ_OUTSTANDING_DEPTH: pending table, request FIFO

ASSUME DepthAssumption == PendDepth \in Nat /\ PendDepth >= 1

PendId == 0..(PendDepth - 1)

\* Client 0 is the load/store queue, client 1 the MMIO path (whose id is 0).
Load(client, id, addr) ==
  [client |-> client, id |-> id, wr |-> FALSE, addr |-> addr, data |-> None]

Store(id, addr, data) ==
  [client |-> "lsq", id |-> id, wr |-> TRUE, addr |-> addr, data |-> data]

Request ==
  [client : {"lsq", "io"}, id : PendId, wr : BOOLEAN, addr : Addr, data : Val \cup {None}]

Response == [client : {"lsq", "io"}, id : PendId, rdata : Val \cup {None}]

\* A channel that carries nothing is told apart from one that carries something.
ASSUME ChannelAssumption == None \notin Request /\ None \notin Response
=============================================================================
