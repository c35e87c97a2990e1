------------------------------ MODULE PageMap -------------------------------
(***************************************************************************)
(* The page map: create_page_map of x86_64/boot32.c lays out three levels  *)
(* of tables one after the other in __page_map, and x86_64/page_map.c      *)
(* finds the descriptor of a page by computing its place, without walking  *)
(* the tables as the processor does (PageWalk, external).  The processor   *)
(* may keep a translation it has used (tlb) until invlpg.                  *)
(*                                                                         *)
(* The tables hold descriptors with the fields of struct page_desc at      *)
(* their widths, which are constants.  Flags are sets of names.            *)
(***************************************************************************)
EXTENDS Integers, FiniteSets

CONSTANTS
  TableBits,      \* 2^TableBits is PAGE_TABLE_DESCS: 9 in the code
  Addr0Shift,     \* PAGE_DESC_ADDR0_BS, also the bits of PAGE_TABLE_SIZE: 12
  IntBits,        \* PAGE_DESC_ADDR1_BS, also the bits of an int: 32
  AddrBits,       \* the bits of an address: 64
  Avail0Bits, Avail1Bits,   \* the bits of avail0 and avail1: 3 and 11
  Pages,          \* the pages of CONFIG_ADDR_SPACE_SIZE
  Base,           \* the address of __page_map
  FirstPage, LastPage,      \* the pages of the kernel
  Virt, Phys, Flags, Avail  \* what map_page is called with

D == 2 ^ TableBits
PageSize == 2 ^ (Addr0Shift + TableBits)
Addr0Bits == IntBits - Addr0Shift

(* SIZE_ELEMENTS *)
Elements(size, unit) == (size + unit - 1) \div unit
PDs == Elements(Pages, D)
PDPTs == Elements(PDs, D)
Tables == PDs + PDPTs + 1

(* An address has twice the bits of an int, and the kernel is below the    *)
(* 4 GB that boot32 can address.                                           *)
ASSUME PageMapAssumption ==
  /\ TableBits \in Nat \ {0} /\ Addr0Shift \in Nat
  /\ IntBits \in Nat /\ IntBits > Addr0Shift + TableBits /\ AddrBits = 2 * IntBits
  /\ Avail0Bits \in Nat /\ Avail1Bits \in Nat
  /\ Pages \in Nat \ {0} /\ PDPTs <= D
  /\ FirstPage \in Nat /\ LastPage \in Nat /\ FirstPage <= LastPage /\ LastPage < Pages
  /\ (LastPage + 1) * PageSize <= 2 ^ IntBits
  /\ Base \in Nat /\ Base % 2 ^ Addr0Shift = 0
  /\ Base + Tables * 2 ^ Addr0Shift <= 2 ^ IntBits
  /\ Virt \subseteq 0 .. Pages * PageSize - 1
  /\ Phys \subseteq 0 .. 2 ^ (AddrBits - Addr0Shift) - 1 /\ Avail \subseteq Nat

(* The laws of powers for these constants.  They hold whatever the         *)
(* constants are; they are stated because the proofs need them and the     *)
(* provers know ^ for given numbers only.                                  *)
ASSUME PowerLaws ==
  /\ \A n \in {TableBits, Addr0Shift, Addr0Bits, Addr0Bits - TableBits, IntBits - 1,
               Avail0Bits, Avail1Bits} : 2 ^ n \in Nat \ {0}
  /\ PageSize = 2 ^ Addr0Shift * 2 ^ TableBits
  /\ 2 ^ Addr0Bits = 2 ^ TableBits * 2 ^ (Addr0Bits - TableBits)
  /\ 2 ^ IntBits = 2 ^ Addr0Shift * 2 ^ Addr0Bits
  /\ 2 ^ IntBits = 2 * 2 ^ (IntBits - 1)
  /\ 2 ^ AddrBits = 2 ^ IntBits * 2 ^ IntBits
  /\ 2 ^ (AddrBits - Addr0Shift) = 2 ^ IntBits * 2 ^ Addr0Bits
  /\ 2 ^ (Avail0Bits + Avail1Bits) = 2 ^ Avail0Bits * 2 ^ Avail1Bits

VARIABLES
  map,       \* __page_map: the descriptors of every table
  tlb,       \* the translations of pages the processor keeps
  touched    \* the pages that map_page or unmap_page was called for

pageMapVars == <<map, tlb, touched>>
-----------------------------------------------------------------------------
(* FLAGS_MASK; PAGE_MAPPING_NOEXEC is a field of its own *)
FLAGS_MASK == {"write", "pwt", "pcd", "accessed", "dirty"}

NoDesc == [present |-> FALSE, ps_pat |-> FALSE, flags |-> {}, avail0 |-> 0,
           address0 |-> 0, address1 |-> 0, avail1 |-> 0, noexec |-> FALSE]

set_page_desc(present, page, address) ==
  IF present
  THEN [NoDesc EXCEPT
         !.present = TRUE, !.flags = {"write"}, !.ps_pat = page,
         !.address0 = (address \div 2 ^ Addr0Shift) % 2 ^ Addr0Bits,
         !.address1 = (address \div 2 ^ IntBits) % 2 ^ Addr0Bits]
  ELSE NoDesc

(* The tables in the order next_table goes through them: the PML4, and     *)
(* for each of its entries a PDPT followed by the page directories of that *)
(* PDPT.                                                                   *)
Pdpt(i) == 1 + i * (D + 1)
Pd(i, j) == Pdpt(i) + 1 + j
TableAddress(n) == Base + n * 2 ^ Addr0Shift

(* Faulty variants, each named for what it gets wrong, are kept next to    *)
(* the definition they vary; nothing uses them in the specification.       *)
IsKernelPage_NotLast(page) == FirstPage <= page /\ page < LastPage

IsKernelPage(page) == FirstPage <= page /\ page <= LastPage

(* Each level in turn *)
Pml4Table ==
  [e \in 0 .. D - 1 |->
     IF e < PDPTs THEN set_page_desc(TRUE, FALSE, TableAddress(Pdpt(e))) ELSE NoDesc]

PdptTable(i) ==
  [e \in 0 .. D - 1 |->
     IF i * D + e < PDs THEN set_page_desc(TRUE, FALSE, TableAddress(Pd(i, e))) ELSE NoDesc]

PdTable(i, j) ==
  [e \in 0 .. D - 1 |->
     LET page == (i * D + j) * D + e
     IN  set_page_desc(IsKernelPage(page), TRUE, page * PageSize)]

create_page_map ==
  [n \in 0 .. Tables - 1 |->
     LET i == (n - 1) \div (D + 1)
         r == (n - 1) % (D + 1)
     IN  IF n = 0 THEN Pml4Table ELSE IF r = 0 THEN PdptTable(i) ELSE PdTable(i, r - 1)]
-----------------------------------------------------------------------------
get_page_desc_OnePdpt(virt_addr) ==
  LET page == virt_addr \div PageSize
  IN  [table |-> page \div D + 2, entry |-> page % D]

get_page_desc(virt_addr) ==
  LET page == virt_addr \div PageSize
      table == page \div D
  IN  [table |-> table + 2 + table \div D, entry |-> page % D]

DescOf(virt_addr) ==
  map[get_page_desc(virt_addr).table][get_page_desc(virt_addr).entry]

(* An int of IntBits bits with these bits *)
AsInt(x) ==
  LET low == x % 2 ^ IntBits
  IN  IF low < 2 ^ (IntBits - 1) THEN low ELSE low - 2 ^ IntBits

Absent == [present |-> FALSE]

FlagsOf(desc) == desc.flags \cup (IF desc.noexec THEN {"noexec"} ELSE {})

(* address0, a bit field, is promoted to int before it is shifted *)
get_page_mapping(virt_addr) ==
  LET desc == DescOf(virt_addr)
  IN  IF ~desc.present THEN Absent
      ELSE [present |-> TRUE,
            phys |-> (desc.address1 * 2 ^ IntBits + AsInt(desc.address0 * 2 ^ Addr0Shift))
                       % 2 ^ AddrBits,
            flags |-> FlagsOf(desc),
            avail |-> desc.avail0 + desc.avail1 * 2 ^ Avail0Bits]

Write(virt_addr, desc) ==
  /\ map' = [map EXCEPT ![get_page_desc(virt_addr).table]
                         [get_page_desc(virt_addr).entry] = desc]
  /\ touched' = touched \cup {virt_addr \div PageSize}

Invlpg_Nothing(virt_addr) == UNCHANGED tlb

Invlpg(virt_addr) == tlb' = [tlb EXCEPT ![virt_addr \div PageSize] = Absent]

Address0_NotAligned(phys_addr) == (phys_addr \div 2 ^ Addr0Shift) % 2 ^ Addr0Bits

Address0(phys_addr) == ((phys_addr \div PageSize) * D) % 2 ^ Addr0Bits

map_page(virt_addr, phys_addr, flags, avail_data) ==
  /\ Write(virt_addr,
       [present |-> TRUE, ps_pat |-> TRUE,
        avail0 |-> avail_data % 2 ^ Avail0Bits,
        address0 |-> Address0(phys_addr),
        address1 |-> (phys_addr \div 2 ^ IntBits) % 2 ^ Addr0Bits,
        avail1 |-> (avail_data \div 2 ^ Avail0Bits) % 2 ^ Avail1Bits,
        flags |-> flags \cap FLAGS_MASK,
        noexec |-> "noexec" \in flags])
  /\ Invlpg(virt_addr)

unmap_page(virt_addr) == Write(virt_addr, NoDesc) /\ Invlpg(virt_addr)
-----------------------------------------------------------------------------
(* What the processor does: it follows the address in the descriptor of    *)
(* one level to the table of the next.                                     *)
AddressIn(desc) == desc.address1 * 2 ^ IntBits + desc.address0 * 2 ^ Addr0Shift
TableIn(desc) == (AddressIn(desc) - Base) \div 2 ^ Addr0Shift

PageWalk(page) ==
  LET pml4e == map[0][page \div (D * D)]
      pdpte == map[TableIn(pml4e)][(page \div D) % D]
      pde == map[TableIn(pdpte)][page % D]
  IN  IF ~pml4e.present \/ ~pdpte.present \/ ~pde.present THEN Absent
      ELSE [present |-> TRUE, phys |-> AddressIn(pde), large |-> pde.ps_pat,
            flags |-> FlagsOf(pde)]

Access(page) ==
  /\ PageWalk(page).present
  /\ tlb' = [tlb EXCEPT ![page] = PageWalk(page)]
  /\ UNCHANGED <<map, touched>>
-----------------------------------------------------------------------------
PageMapInit ==
  /\ map = create_page_map
  /\ tlb = [p \in 0 .. Pages - 1 |-> Absent]
  /\ touched = {}

PageMapNext ==
  \E v \in Virt :
    \/ \E phys \in Phys, flags \in Flags, avail \in Avail :
         map_page(v, phys, flags, avail)
    \/ unmap_page(v)
    \/ Access(v \div PageSize)

PageMapSpec == PageMapInit /\ [][PageMapNext]_pageMapVars
-----------------------------------------------------------------------------
Translation == [p \in 0 .. Pages - 1 |-> PageWalk(p)]

Requested(phys, flags) ==
  [present |-> TRUE, phys |-> (phys \div PageSize) * PageSize, large |-> TRUE,
   flags |-> flags \cap (FLAGS_MASK \cup {"noexec"})]

(* map_page and unmap_page change what the processor translates the page   *)
(* of their argument to, as requested, and no other page: the descriptor   *)
(* they compute the place of is the one the processor walks to.  The bits  *)
(* of avail_data that are usable are there for get_page_mapping.           *)
MapsAsRequested ==
  [][\A v \in Virt :
       LET page == v \div PageSize
       IN  /\ \A phys \in Phys, flags \in Flags, avail \in Avail :
                map_page(v, phys, flags, avail) =>
                  /\ Translation' = [Translation EXCEPT ![page] = Requested(phys, flags)]
                  /\ get_page_mapping(v)'.avail = avail % 2 ^ (Avail0Bits + Avail1Bits)
           /\ unmap_page(v) => Translation' = [Translation EXCEPT ![page] = Absent]]_pageMapVars

(* The translation the processor uses: the one it keeps, or the tables'.   *)
Used(page) == IF tlb[page].present THEN tlb[page] ELSE PageWalk(page)

(* What get_page_mapping says is what the processor on which the functions *)
(* are called does, which may have used the page before it was mapped      *)
(* anew; provided that bit 31 of the physical address is clear: with it    *)
(* set the address comes back with all bits above it set.                  *)
GetTellsTheTruth ==
  \A v \in Virt :
    LET said == get_page_mapping(v)
        true == Used(v \div PageSize)
    IN  /\ said.present = true.present
        /\ said.present =>
             /\ said.flags = true.flags
             /\ (true.phys \div 2 ^ (IntBits - 1)) % 2 = 0 => said.phys = true.phys

(* Pages nobody has mapped or unmapped are as boot32 left them: the pages  *)
(* of the kernel are mapped to themselves and no other is mapped.          *)
BootMapping ==
  \A p \in (0 .. Pages - 1) \ touched :
    IF p \in FirstPage .. LastPage
    THEN PageWalk(p) = [present |-> TRUE, phys |-> p * PageSize, large |-> TRUE,
                    flags |-> {"write"}]
    ELSE PageWalk(p) = Absent
=============================================================================
