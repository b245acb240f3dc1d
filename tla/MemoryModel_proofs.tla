------------------------- MODULE MemoryModel_proofs -------------------------
(***************************************************************************)
(* Theorems about the memory of the testbenches, for every page size,      *)
(* every number of pages and every set of stored values: it is a flat      *)
(* memory, and pages are not seen.                                         *)
(***************************************************************************)
EXTENDS MemoryModel, TLAPS

\* An address is its page and its offset.
LEMMA AddressParts ==
  ASSUME NEW a \in Addr
  PROVE  /\ page_of(a) \in PageNum /\ offset_of(a) \in Offset
         /\ page_of(a) * PageSize + offset_of(a) = a
<1>1. PageSize \in Nat /\ PageSize > 0 /\ Pages \in Nat /\ Pages > 0
  BY PagesAssumption
<1>2. a \in Nat /\ a < PageSize * Pages
  <2>1. PageSize * Pages \in Nat
    BY <1>1
  <2> QED BY <2>1 DEF Addr, Space
<1>3. /\ a \div PageSize \in Int /\ a % PageSize \in 0..(PageSize - 1)
      /\ a = PageSize * (a \div PageSize) + (a % PageSize)
  BY <1>1, <1>2
<1>4. a \div PageSize >= 0 /\ a \div PageSize < Pages
  BY <1>1, <1>2, <1>3
<1>5. PageSize * (a \div PageSize) = (a \div PageSize) * PageSize
  BY <1>1, <1>3
<1> QED BY <1>1, <1>3, <1>4, <1>5 DEF page_of, offset_of, PageNum, Offset

\* A stored value is a string of bytes.
LEMMA ImageBytes ==
  ASSUME NEW w \in Image, NEW i \in DOMAIN w
  PROVE  w[i] \in Byte
BY ImageAssumption

\* A store leaves the pages pages.
LEMMA StoredPages ==
  ASSUME MemTypeOK, NEW a \in Addr, NEW w \in Image
  PROVE  Stored(a, w) \in [PageNum -> [Offset -> Byte] \cup {Nothing}]
<1> SUFFICES ASSUME NEW p \in PageNum
             PROVE  Stored(a, w)[p] \in [Offset -> Byte] \cup {Nothing}
  BY DEF Stored
<1>1. get_or_alloc_page(p) \in [Offset -> Byte]
  BY ByteAssumption DEF MemTypeOK, get_or_alloc_page
<1>2. CASE \A o \in Offset : Index(a, p, o) \notin DOMAIN w
  BY <1>2 DEF Stored, MemTypeOK
<1>3. CASE ~\A o \in Offset : Index(a, p, o) \notin DOMAIN w
  <2>1. Stored(a, w)[p] =
          [o \in Offset |-> IF Index(a, p, o) \in DOMAIN w THEN w[Index(a, p, o)]
                            ELSE get_or_alloc_page(p)[o]]
    BY <1>3 DEF Stored
  <2>2. \A o \in Offset : (IF Index(a, p, o) \in DOMAIN w THEN w[Index(a, p, o)]
                           ELSE get_or_alloc_page(p)[o]) \in Byte
    BY <1>1, ImageBytes
  <2> QED BY <2>1, <2>2
<1> QED BY <1>2, <1>3

\* Every operation is a store, or a file that did not open.
LEMMA Operations ==
  ASSUME MemNext
  PROVE  \/ \E a \in Addr, w \in Image : Store(a, w)
         \/ UNCHANGED mem_vars
BY DEF MemNext, write8, write16, write32, fill, load_binary, Sized

LEMMA MemTypeStep ==
  ASSUME MemTypeOK, [MemNext]_mem_vars
  PROVE  MemTypeOK'
<1>1. CASE UNCHANGED mem_vars
  BY <1>1 DEF MemTypeOK, mem_vars
<1>2. ASSUME NEW a \in Addr, NEW w \in Image, Store(a, w)
      PROVE  MemTypeOK'
  BY <1>2, StoredPages DEF MemTypeOK, Store
<1> QED BY <1>1, <1>2, Operations

\* Pages hold bytes, one for each of their offsets, or are not there: whatever
\* the stores, no page is cut short.
THEOREM MemTypeCorrect == MemSpec => []MemTypeOK
<1>1. MemInit => MemTypeOK
  BY DEF MemInit, MemTypeOK
<1> QED BY <1>1, MemTypeStep, PTL DEF MemSpec

-----------------------------------------------------------------------------
\* After a store every address reads as in a flat memory: the byte of the store
\* that lies there, or what it read as before.
LEMMA ReadAfterStore ==
  ASSUME MemTypeOK, NEW a \in Addr, NEW w \in Image, Store(a, w), NEW b \in Addr
  PROVE  read8(b)' = IF Flat!Index(a, b) \in DOMAIN w THEN w[Flat!Index(a, b)] ELSE read8(b)
<1> DEFINE p == page_of(b)
           o == offset_of(b)
<1>1. p \in PageNum /\ o \in Offset /\ Index(a, p, o) = Flat!Index(a, b)
  <2>1. p \in PageNum /\ o \in Offset /\ p * PageSize + o = b
    BY AddressParts
  <2> HIDE DEF p, o
  <2>2. Index(a, p, o) = (b - a) % Space
    BY <2>1 DEF Index
  <2> QED BY <2>1, <2>2 DEF Flat!Index
<1>2. read8(b)' = IF pages'[p] = Nothing THEN Unmapped ELSE pages'[p][o]
  BY DEF read8, get_page, page_of, offset_of
<1>3. read8(b) = get_or_alloc_page(p)[o]
  BY <1>1 DEF read8, get_page, get_or_alloc_page
<1>4. pages'[p] = IF \A x \in Offset : Index(a, p, x) \notin DOMAIN w THEN pages[p]
                  ELSE [x \in Offset |-> IF Index(a, p, x) \in DOMAIN w THEN w[Index(a, p, x)]
                                         ELSE get_or_alloc_page(p)[x]]
  BY <1>1 DEF Store, Stored
<1>5. CASE \A x \in Offset : Index(a, p, x) \notin DOMAIN w
  <2>1. pages'[p] = pages[p] /\ Flat!Index(a, b) \notin DOMAIN w
    BY <1>1, <1>4, <1>5
  <2> QED BY <2>1, <1>2 DEF read8, get_page
<1>6. CASE ~\A x \in Offset : Index(a, p, x) \notin DOMAIN w
  <2>1. pages'[p] = [x \in Offset |-> IF Index(a, p, x) \in DOMAIN w THEN w[Index(a, p, x)]
                                      ELSE get_or_alloc_page(p)[x]]
    BY <1>4, <1>6
  <2>2. pages'[p] # Nothing
    <3>1. Stored(a, w)[p] \in [Offset -> Byte]
      <4>1. get_or_alloc_page(p) \in [Offset -> Byte]
        BY <1>1, ByteAssumption DEF MemTypeOK, get_or_alloc_page
      <4>2. \A x \in Offset : (IF Index(a, p, x) \in DOMAIN w THEN w[Index(a, p, x)]
                               ELSE get_or_alloc_page(p)[x]) \in Byte
        BY <4>1, ImageBytes
      <4> QED BY <2>1, <4>2 DEF Store
    <3> QED BY <3>1, NoPageAssumption DEF Store
  <2>3. read8(b)' = IF Index(a, p, o) \in DOMAIN w THEN w[Index(a, p, o)]
                    ELSE get_or_alloc_page(p)[o]
    BY <1>1, <1>2, <2>1, <2>2
  <2> QED BY <2>3, <1>1, <1>3
<1> QED BY <1>5, <1>6

\* The paged memory implements the flat one (MemoryIsFlat): across page ends,
\* the end of the address space and first writes, a store changes the bytes it
\* names and no other, and what was never stored reads as Unmapped.
THEOREM ImplementsFlat == MemSpec => MemoryIsFlat
<1>1. MemInit => Flat!Init
  <2> SUFFICES ASSUME MemInit
               PROVE  Flat!Init
    OBVIOUS
  <2>1. \A a \in Addr : read8(a) = Unmapped
    BY AddressParts DEF MemInit, read8, get_page
  <2> QED BY <2>1 DEF MemInit, Flat!Init, Addr
<1>2. MemTypeOK /\ [MemNext]_mem_vars
        => [Flat!Next]_<<[a \in Addr |-> read8(a)], stored>>
  <2> SUFFICES ASSUME MemTypeOK, [MemNext]_mem_vars
               PROVE  [Flat!Next]_<<[a \in Addr |-> read8(a)], stored>>
    OBVIOUS
  <2>1. CASE UNCHANGED mem_vars
    BY <2>1 DEF mem_vars, read8, get_page
  <2>2. ASSUME NEW a \in Addr, NEW w \in Image, Store(a, w)
        PROVE  Flat!Next
    <3>1. stored' = [addr |-> a, bytes |-> w] /\ stored' # Nothing
      BY <2>2, NoPageAssumption DEF Store
    <3>2. stored'.addr = a /\ stored'.bytes = w
      BY <3>1
    <3>3. \A b \in Addr : read8(b)' = IF Flat!Index(a, b) \in DOMAIN w
                                      THEN w[Flat!Index(a, b)]
                                      ELSE [c \in Addr |-> read8(c)][b]
      BY <2>2, ReadAfterStore
    <3>4. Flat!Apply(a, w)
      BY <3>3 DEF Flat!Apply, Addr
    <3> QED BY <3>1, <3>2, <3>4 DEF Flat!Next
  <2> QED BY <2>1, <2>2, Operations
<1> QED BY <1>1, <1>2, MemTypeCorrect, PTL DEF MemSpec, MemoryIsFlat, Flat!Spec
=============================================================================
