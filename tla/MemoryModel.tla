----------------------------- MODULE MemoryModel ----------------------------
(***************************************************************************)
(* The memory behind the Verilator testbenches                             *)
(* (bench/verilator/memory_model.h): pages that are allocated when a byte  *)
(* of theirs is first written.                                             *)
(*                                                                         *)
(* An operation runs to its end between two clock edges, so each is one    *)
(* step.  A value of several bytes is the function from 0 to its bytes, in *)
(* the order in which shifts and masks take it apart, lowest first.        *)
(* Addresses are unsigned and wrap.                                        *)
(***************************************************************************)
EXTENDS Integers, FiniteSets

CONSTANTS
  PageSize,  \* PAGE_SIZE
  Pages,     \* pages in the address space
  Byte,
  Unmapped,  \* 0xFF
  Image,     \* the values, fillings and files that callers store
  Nothing       \* no page, no store yet, a file that does not open

Space == PageSize * Pages
Addr == 0..(Space - 1)
PageNum == 0..(Pages - 1)
Offset == 0..(PageSize - 1)

ASSUME PagesAssumption == PageSize \in Nat \ {0} /\ Pages \in Nat \ {0}
ASSUME ByteAssumption == Unmapped \in Byte
ASSUME ImageAssumption ==
  \A w \in Image : \E n \in 0..Space : w \in [0..(n - 1) -> Byte]
ASSUME NoPageAssumption ==
  /\ Nothing \notin Image
  /\ Nothing \notin [Offset -> Byte]
  /\ \A a \in Addr, w \in Image : Nothing # [addr |-> a, bytes |-> w]

VARIABLES
  pages,   \* pages_: the contents of a page, or Nothing
  stored   \* the last store, for the comparison with a flat memory

mem_vars == <<pages, stored>>

MemTypeOK ==
  /\ pages \in [PageNum -> [Offset -> Byte] \cup {Nothing}]
  /\ stored \in [addr : Addr, bytes : Image] \cup {Nothing}

MemInit ==
  /\ pages = [p \in PageNum |-> Nothing]
  /\ stored = Nothing

-----------------------------------------------------------------------------
page_of(a) == a \div PageSize
offset_of(a) == a % PageSize

(***************************************************************************)
(* Reads do not allocate.                                                  *)
(***************************************************************************)
get_page(p) == pages[p]

read8(a) ==
  IF get_page(page_of(a)) = Nothing THEN Unmapped
  ELSE get_page(page_of(a))[offset_of(a)]

\* n bytes from a on.
Word(a, n) == [i \in 0..(n - 1) |-> read8((a + i) % Space)]

read16(a) == Word(a, 2)
read32(a) == Word(a, 4)

\* A block for the fetch unit: 16 bytes in the code.
read128(a, n) == Word(a, n)

(***************************************************************************)
(* Writes are made of single bytes.                                        *)
(***************************************************************************)
\* A fresh page is full of the byte that it was read as before.
get_or_alloc_page(p) ==
  IF pages[p] = Nothing THEN [o \in Offset |-> Unmapped] ELSE pages[p]

\* Where offset o of page p lies in a value stored at a.
Index(a, p, o) == ((p * PageSize + o) - a) % Space

\* Slip: the page is looked up once, for the first byte.
Stored_one_page(a, w) ==
  [p \in PageNum |->
     IF p # page_of(a) THEN pages[p]
     ELSE [o \in Offset |->
             IF Index(a, p, o) \in DOMAIN w THEN w[Index(a, p, o)]
             ELSE get_or_alloc_page(p)[o]]]

\* The pages once every byte of w has been written, from a on.
Stored(a, w) ==
  [p \in PageNum |->
     IF \A o \in Offset : Index(a, p, o) \notin DOMAIN w THEN pages[p]
     ELSE [o \in Offset |->
             IF Index(a, p, o) \in DOMAIN w THEN w[Index(a, p, o)]
             ELSE get_or_alloc_page(p)[o]]]

Store(a, w) ==
  /\ pages' = Stored(a, w)
  /\ stored' = [addr |-> a, bytes |-> w]

\* The stored values that have n bytes.
Sized(n) == {w \in Image : DOMAIN w = 0..(n - 1)}

write8(a, w) == w \in Sized(1) /\ Store(a, w)
write16(a, w) == w \in Sized(2) /\ Store(a, w)
write32(a, w) == w \in Sized(4) /\ Store(a, w)

\* count times the same byte; w is count copies of it.
fill(base, w) == (\A i, j \in DOMAIN w : w[i] = w[j]) /\ Store(base, w)

\* A file that does not open leaves the memory as it is.
load_binary(file, base) ==
  IF file = Nothing THEN UNCHANGED mem_vars ELSE Store(base, file)

(***************************************************************************)
(* Statistics                                                              *)
(***************************************************************************)
pages_allocated == Cardinality({p \in PageNum : pages[p] # Nothing})
bytes_allocated == pages_allocated * PageSize

-----------------------------------------------------------------------------
\* Any caller.
MemNext ==
  \E a \in Addr, w \in Image \cup {Nothing} :
    \/ write8(a, w) \/ write16(a, w) \/ write32(a, w)
    \/ w # Nothing /\ fill(a, w)
    \/ load_binary(w, a)

MemSpec == MemInit /\ [][MemNext]_mem_vars

-----------------------------------------------------------------------------
(***************************************************************************)
(* Properties                                                              *)
(***************************************************************************)
Flat == INSTANCE FlatMemory
          WITH None <- Nothing, flat <- [a \in Addr |-> read8(a)]

\* Pages are invisible: stores that cross a page or the end of the address
\* space, and allocation on the way, leave every byte outside the store alone
\* and put each byte of it where a flat memory has it.
MemoryIsFlat == Flat!Spec
=============================================================================
