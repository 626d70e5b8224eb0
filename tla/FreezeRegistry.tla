--------------------------- MODULE FreezeRegistry ---------------------------
(***************************************************************************)
(* Frozen values of the guest's memory (webserver/freeze.cpp).  Web server *)
(* threads change the registry, each time under its mutex.  At the end of  *)
(* every frame the emulation thread copies the registry and writes the     *)
(* copied entries into memory, byte by byte, while the registry may change *)
(* again.  An address is a linear one: each byte is written where the      *)
(* guest's paging puts it at that moment, by the handler of that page, and *)
(* a page that is not present makes the guest serve a page fault inside    *)
(* the call (memory.cpp, paging.h, paging.cpp).                            *)
(***************************************************************************)
EXTENDS Naturals, Sequences, SequencesExt

CONSTANTS
    AddressSpace,  \* number of addresses (2^32)
    MemTotal,      \* bytes of guest memory
    PageSize,      \* bytes of a page (4096)
    RamPages,      \* physical pages whose handler stores what is written;
                   \* ROM and addresses without memory ignore it
    Mappings,      \* what the guest can make of its linear pages: the
                   \* physical page of each, or Absent
    Absent,
    ByteBase,      \* values of a byte (256)
    Addresses,     \* addresses clients use
    Values,        \* values clients use
    MaxEntries     \* entries the registry holds (256)

Widths == {1, 2, 4}

ASSUME FreezeAssumption ==
    /\ AddressSpace \in Nat /\ MemTotal \in 0 .. AddressSpace /\ ByteBase \in Nat \ {0}
    /\ Addresses \subseteq 0 .. AddressSpace - 1
    /\ Values \subseteq Nat
    /\ MaxEntries \in Nat
    /\ \A m \in Mappings : \A a \in 0 .. AddressSpace - 1 : a \div PageSize \in DOMAIN m

VARIABLES
    entries,       \* the registry, in the order of insertion
    mem,           \* guest memory, by physical address
    map,           \* the mapping in force (the page tables and the TLB)
    phase,         \* "guest" while the guest runs, "apply" inside
                   \* ApplyFreezes, "applied" when it returns
    snapshot,      \* the copy ApplyFreezes works on
    next,          \* its next entry
    byte,          \* the next byte of that entry
    faulted        \* ghost: the call met a page that was not present

call == <<phase, snapshot, next, byte, faulted>>
freezeVars == <<entries, mem, map, call>>

FreezeInit ==
    /\ entries = <<>>
    /\ mem = [a \in 0 .. MemTotal - 1 |-> 0]
    /\ map \in Mappings
    /\ phase = "guest" /\ snapshot = <<>> /\ next = 1 /\ byte = 0 /\ faulted = FALSE

-----------------------------------------------------------------------------
(* The registry.                                                           *)

\* The sum is computed in 32 bits.
InRange(a, w) == (a + w) % AddressSpace <= MemTotal

Find(s, a) == SelectInSeq(s, LAMBDA e : e.address = a)

Room(s) == Len(s) < MaxEntries

\* An entry for the same address is changed in its place.
Add(e) ==
    LET i == Find(entries, e.address)
    IN  \/ i # 0 /\ entries' = [entries EXCEPT ![i] = e]
        \/ i = 0 /\ Room(entries) /\ entries' = Append(entries, e)

Post(a, v, w) ==
    /\ InRange(a, w)
    /\ Add([address |-> a, value |-> v, width |-> w])
    /\ UNCHANGED <<mem, map, call>>

RemoveFreeze(a) ==
    \E i \in DOMAIN entries :
        /\ entries[i].address = a
        /\ \A j \in 1 .. i - 1 : entries[j].address # a
        /\ entries' = RemoveAt(entries, i)

Delete(a) ==
    /\ RemoveFreeze(a)
    /\ UNCHANGED <<mem, map, call>>

Clear ==
    /\ entries' = <<>>
    /\ UNCHANGED <<mem, map, call>>

-----------------------------------------------------------------------------
(* The emulation thread.                                                   *)

\* The addresses at which a write changes memory.
Stored == {p \in 0 .. MemTotal - 1 : p \div PageSize \in RamPages}

\* The guest runs on; the copy is gone with the call's frame.
GuestRuns ==
    /\ phase \in {"guest", "applied"}
    /\ phase' = "guest"
    /\ snapshot' = <<>> /\ next' = 1 /\ byte' = 0 /\ faulted' = FALSE
    /\ UNCHANGED entries

GuestWrites(a, b) == GuestRuns /\ mem' = [mem EXCEPT ![a] = b] /\ UNCHANGED map

GuestRemaps(m) == GuestRuns /\ map' = m /\ UNCHANGED mem

FrameEnds ==
    /\ phase \in {"guest", "applied"}
    /\ phase' = "apply"
    /\ snapshot' = entries /\ next' = 1 /\ byte' = 0 /\ faulted' = FALSE
    /\ UNCHANGED <<entries, mem, map>>

\* What byte i of a value counts for.
Weight(i) ==
    <<1, ByteBase, ByteBase * ByteBase, ByteBase * ByteBase * ByteBase>>[i + 1]

HighByteFirst(e, i) == (e.value \div Weight(e.width - 1 - i)) % ByteBase  \* mutant

Byte(e, i) == (e.value \div Weight(i)) % ByteBase

\* The linear address of byte i; after the last address comes the first.
Linear(e, i) == (e.address + i) % AddressSpace

Physical(a) == map[a \div PageSize] * PageSize + (a % PageSize)

LiveEntries == entries                          \* mutant

\* The loop runs over the copy.
Applied == snapshot

\* One byte of MEM_BlockWrite.
WriteByte ==
    /\ phase = "apply" /\ next <= Len(Applied)
    /\ LET e == Applied[next]
            a == Linear(e, byte)
            last == byte + 1 >= e.width
       IN  /\ map[a \div PageSize] # Absent
           /\ mem' = [p \in DOMAIN mem |->
                         IF p \in Stored /\ p = Physical(a) THEN Byte(e, byte) ELSE mem[p]]
           /\ next' = IF last THEN next + 1 ELSE next
           /\ byte' = IF last THEN 0 ELSE byte + 1
    /\ UNCHANGED <<entries, map, phase, snapshot, faulted>>

\* The page of the next byte is not present.  The guest's handler runs in a
\* machine loop of its own, in which frames may end too, until the page is
\* there: it may have written any memory and made any other mapping.
PageFault ==
    /\ phase = "apply" /\ next <= Len(Applied)
    /\ LET page == Linear(Applied[next], byte) \div PageSize
       IN  /\ map[page] = Absent
           /\ map' \in {m \in Mappings : m[page] # Absent}
    /\ \E ram \in [Stored -> 0 .. ByteBase - 1] :
          mem' = [p \in DOMAIN mem |-> IF p \in Stored THEN ram[p] ELSE mem[p]]
    /\ faulted' = TRUE
    /\ UNCHANGED <<entries, phase, snapshot, next, byte>>

ApplyReturns ==
    /\ phase = "apply" /\ next > Len(Applied)
    /\ phase' = "applied"
    /\ UNCHANGED <<entries, mem, map, snapshot, next, byte, faulted>>

-----------------------------------------------------------------------------

FreezeNext ==
    \/ \E a \in Addresses, v \in Values, w \in Widths : Post(a, v, w)
    \/ \E a \in Addresses : Delete(a)
    \/ Clear
    \/ \E a \in Stored, b \in 0 .. ByteBase - 1 : GuestWrites(a, b)
    \/ \E m \in Mappings : GuestRemaps(m)
    \/ FrameEnds \/ WriteByte \/ PageFault \/ ApplyReturns

FreezeSpec == FreezeInit /\ [][FreezeNext]_freezeVars

-----------------------------------------------------------------------------

Entry == [address : Addresses, value : Values, width : Widths]

\* Types of the registry and of memory; the registry keeps its limit.
FreezeTypeOK ==
    /\ entries \in Seq(Entry) /\ Len(entries) <= MaxEntries
    /\ snapshot \in Seq(Entry)
    /\ mem \in [0 .. MemTotal - 1 -> 0 .. ByteBase - 1] /\ map \in Mappings
    /\ phase \in {"guest", "apply", "applied"}
    /\ next \in 1 .. MaxEntries + 1 /\ byte \in 0 .. 3 /\ faulted \in BOOLEAN

\* Where byte k of the copy's entry i goes, and what is written after it.
At(i, k) == Physical(Linear(snapshot[i], k))

Later(j, l, i, k) == j > i \/ (j = i /\ l > k)

Overwritten(i, k) ==
    \E j \in DOMAIN snapshot : \E l \in 0 .. snapshot[j].width - 1 :
        Later(j, l, i, k) /\ At(j, l) = At(i, k)

\* When ApplyFreezes returns, the guest finds at the linear addresses of the
\* registry, as it was at the end of the frame, the little-endian bytes of
\* its values, although clients changed the registry since.  The exceptions:
\* a byte that a later one of the registry overwrote, also through a second
\* address of the same page; a page that does not store; and a call during
\* which the guest served a page fault, as it may have written over anything.
FrozenHolds ==
    phase = "applied" /\ ~faulted =>
        \A i \in DOMAIN snapshot : \A k \in 0 .. snapshot[i].width - 1 :
            At(i, k) \in Stored /\ ~Overwritten(i, k) =>
                \E high \in 0 .. snapshot[i].value, low \in 0 .. Weight(k) - 1 :
                    snapshot[i].value = (high * ByteBase + mem[At(i, k)]) * Weight(k) + low

=============================================================================
