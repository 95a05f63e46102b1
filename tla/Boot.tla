-------------------------------- MODULE Boot --------------------------------
(***************************************************************************)
(* How the boot CPU finds its memory, as main.c runs it: dtb_init() walks  *)
(* the device tree (Dtb) and reports banks of RAM to physmem.c (Physmem),  *)
(* kvminit() builds the direct map (Dmap) and withholds the kernel image   *)
(* with the tables it took from boot_alloc(), kinit() carves the array of  *)
(* page descriptors from what is left and puts the rest on the free list.  *)
(* One node of the device tree is a step, and so are kvminit() and         *)
(* kinit(): nothing else runs yet.                                         *)
(*                                                                         *)
(* A machine is a record of what its firmware describes, and Blob() the    *)
(* description.                                                            *)
(***************************************************************************)
EXTENDS Physmem, Dtb

CONSTANTS
    Machine,        \* bound: the machines
    BootMpidr,      \* read_mpidr() of the boot CPU
    ImageAddr,      \* bound: where the kernel image may start and end
    DescSize        \* sizeof(struct page)

ASSUME BootAssumption == ImageAddr \subseteq 0..MemEnd /\ DescSize \in Nat \ {0}

VARIABLES
    machine,                \* history: until kvminit(), the machine
    node,                   \* the node dtb_init() is at
    dtb,                    \* the globals of dtb.c
    hwregions, exregions,   \* the lists, hwcnt and excnt being their lengths
    vm_phys_segs,
    boot_freemem,
    dmap,                   \* the tables of the direct map
    stage,                  \* "dtb", "banks", "mapped" (after kvminit), "running", "panic"
    npages, freelist,
    ram, image, array       \* history: pages of RAM, of the image with the boot tables,
                            \* and of the descriptors

vars == <<machine, node, dtb, hwregions, exregions, vm_phys_segs, boot_freemem, dmap, stage,
          npages, freelist, ram, image, array>>

-----------------------------------------------------------------------------
(* The firmware's description *)

Node(name, props, kids) ==
    <<[type |-> "BEGIN_NODE", name |-> name]>> \o props \o kids \o <<[type |-> "END_NODE"]>>
Prop(name, value) == <<[type |-> "PROP", name |-> name, value |-> value]>>
Cells(x, n) == IF n = 1 THEN <<x>> ELSE <<x \div CELL, x % CELL>>

\* The cells in a base address and in a size; 0 is a property that is left out.
Acells(m) == IF m.acells = 0 THEN 2 ELSE m.acells
Scells(m) == IF m.scells = 0 THEN 1 ELSE m.scells
CellProp(name, n) == IF n = 0 THEN <<>> ELSE Prop(name, <<n>>)

MemoryNode(m, banks) ==
    Node("memory",
         Prop("reg", FlattenSeq([i \in DOMAIN banks |->
                         Cells(banks[i].base, Acells(m)) \o Cells(banks[i].size, Scells(m))])),
         <<>>)

\* A CPU, with its caches below it.
CpuNode(cpu) ==
    Node("cpu", Prop("reg", Cells(cpu, IF cpu < CELL THEN 1 ELSE 2)), Node("cache", <<>>, <<>>))

UartNode(m) ==
    Node("pl011",
         Prop("interrupts", <<m.uart, 1, 4>>)
             \o (IF m.clock = "own" THEN Prop("clock-frequency", <<24>>) ELSE <<>>)
             \o Prop("clocks", <<9>>) \o Prop("reg", <<0, 9, 0, 1>>), <<>>)

\* The nodes below a bus have the names that dtb_init() looks for, and are none of its.
BusNode(m) ==
    Node("soc", <<>>, CpuNode(CELL + 1) \o MemoryNode(m, <<[base |-> 8, size |-> 1]>>)
                          \o Node("clk", Prop("phandle", <<9>>)
                                             \o Prop("clock-frequency", <<25>>), <<>>))

Tokens(m) ==
    Node("", CellProp("#address-cells", m.acells) \o CellProp("#size-cells", m.scells),
         Node("psci", Prop("method", <<SMC>>), <<>>)
             \o Node("cpus", <<>>, Node("cpu-map", <<>>, <<>>)
                    \o FlattenSeq([i \in DOMAIN m.cpus |-> CpuNode(m.cpus[i])]))
             \o BusNode(m)
             \o FlattenSeq([i \in DOMAIN m.memory |-> MemoryNode(m, m.memory[i])])
             \o UartNode(m)
             \o Node("timer", Prop("interrupts", <<1, 13, 4, m.timer, 14, 4>>), <<>>)
             \o Node("intc", Prop("reg", <<0, 8, 0, 1, 0, 10, 0, 1>>), <<>>))

Blob(m) ==
    CASE m.shape = "plain" -> Append(Tokens(m), [type |-> "END"])
      [] m.shape = "nops" -> FlattenSeq([i \in DOMAIN Tokens(m) |->
                                 <<[type |-> "NOP"], Tokens(m)[i]>>]) \o <<[type |-> "END"]>>
      [] m.shape = "cut" -> Tokens(m)

RamOf(m) ==
    UNION {UNION {Pages(m.memory[i][j].base, m.memory[i][j].base + m.memory[i][j].size) :
                      j \in DOMAIN m.memory[i]} : i \in DOMAIN m.memory}

-----------------------------------------------------------------------------
Init ==
    /\ machine \in Machine
    /\ node = [props |-> 1, depth |-> -1] /\ dtb = DtbInit(BootMpidr)
    /\ hwregions = <<>> /\ exregions = <<>> /\ vm_phys_segs = <<>>
    /\ boot_freemem = 0 /\ dmap = BootTables
    /\ stage = "dtb"
    /\ npages = 0 /\ freelist = <<>>
    /\ ram = {} /\ image = {} /\ array = {}

Panics ==
    /\ stage' = "panic"
    /\ UNCHANGED <<machine, node, dtb, hwregions, exregions, vm_phys_segs, boot_freemem, dmap,
                   npages, freelist, ram, image, array>>

\* hwregions once a node's banks are reported, and whether there was room for them.
Report(banks) ==
    FoldLeft(LAMBDA hw, bank :
                 IF hw.ok THEN physmem_hardware_region(hw.list, bank.base, bank.size) ELSE hw,
             [ok |-> TRUE, list |-> hwregions], banks)

\* One round of dtb_init(), at the node `at'.
DtbNode(blob, at) ==
    /\ at.found = "node"
    /\ IF ParseNode(dtb, blob, at).panic \/ ~Report(Banks(dtb, blob, at)).ok THEN Panics
       ELSE /\ node' = [props |-> at.props, depth |-> at.depth]
            /\ dtb' = ParseNode(dtb, blob, at)
            /\ hwregions' = Report(Banks(dtb, blob, at)).list
            /\ UNCHANGED <<machine, exregions, vm_phys_segs, boot_freemem, dmap, stage, npages,
                           freelist, ram, image, array>>

\* The end of dtb_init(), behind the last node or in a block that it cannot read.
DtbEnd(blob, at) ==
    /\ at.found # "node"
    /\ IF at.found = "panic" \/ DtbDone(dtb, blob).panic THEN Panics
       ELSE /\ stage' = "banks"
            /\ dtb' = DtbDone(dtb, blob)
            /\ ram' = RamOf(machine)
            /\ UNCHANGED <<machine, node, hwregions, exregions, vm_phys_segs, boot_freemem,
                           dmap, npages, freelist, image, array>>

\* dtb_init()
Dtb_init ==
    /\ stage = "dtb"
    /\ \E blob \in {Blob(machine)} : \E at \in {fdt_next_node(blob, node.props, node.depth)} :
        DtbNode(blob, at) \/ DtbEnd(blob, at)

\* The direct map of the segments.
Mapped(segs) ==
    FoldLeft(LAMBDA t, seg : dmap_bank(t, seg.addr, Limit(seg)), BootTables, segs)

\* Mutant: the boot tables are not withheld with the image.
HeldImage(end, top) == end

\* What kvminit() withholds, from stext to here.
Held(end, top) == top

\* kvminit() with the kernel image in [stext, end): the direct map, with tables that
\* boot_alloc() takes behind the image.  The image was loaded into RAM.
Kvminit(stext, end) ==
    LET segs == physmem_avail(hwregions, exregions)
        top == PGROUNDUP(end) + Mapped(segs).count * PGSIZE
        without == physmem_exclude_region(exregions, stext, Held(end, top) - stext)
    IN  /\ stage = "banks" /\ Around(stext, end - stext) \subseteq ram
        /\ IF \/ Len(segs) > VM_PHYSSEG_MAX
              \/ \E i \in DOMAIN segs : Reserved(segs[i].addr, Limit(segs[i]))
              \/ ~without.ok
           THEN Panics
           ELSE /\ vm_phys_segs' = segs
                /\ dmap' = Mapped(segs)
                /\ boot_freemem' = top
                /\ image' = Around(stext, top - stext)
                /\ exregions' = without.list
                /\ stage' = "mapped"
                /\ machine' = "described" /\ node' = "read"
                /\ UNCHANGED <<dtb, hwregions, npages, freelist, ram, array>>

\* Mutant: a segment's descriptors start behind its own number of them.
first_page_behind(segs, i) == physmem_size(SubSeq(segs, 1, i)) \div PGSIZE

\* The descriptors of a segment follow those of the segments before it.
first_page(segs, i) == physmem_size(SubSeq(segs, 1, i - 1)) \div PGSIZE

pa_to_page(segs, pa) ==
    LET i == physmem_seg(segs, pa)
    IN  first_page(segs, i) + (pa - segs[i].addr) \div PGSIZE

page_to_pa(segs, pg) ==
    LET i == CHOOSE j \in DOMAIN segs :
                 pg >= first_page(segs, j)
                     /\ pg < first_page(segs, j) + segs[j].size \div PGSIZE
    IN  segs[i].addr + (pg - first_page(segs, i)) * PGSIZE

\* Descriptor numbers in the order in which the loop puts them on the free list.
FreeList(segs) ==
    Reverse(FoldLeft(LAMBDA list, seg :
                list \o [k \in 1..seg.size \div PGSIZE |->
                             pa_to_page(segs, seg.addr + (k - 1) * PGSIZE)], <<>>, segs))

\* kinit()
Kinit ==
    LET before == physmem_avail(hwregions, exregions)
        count == physmem_size(before) \div PGSIZE
        bytes == PGROUNDUP(count * DescSize)
        seg == physmem_seg(before, boot_freemem)
        without == physmem_exclude_region(exregions, boot_freemem, bytes)
        after == physmem_avail(hwregions, without.list)
    IN  /\ stage = "mapped"
        /\ IF \/ Len(before) > VM_PHYSSEG_MAX
              \/ seg = 0
              \/ boot_freemem + bytes > Limit(before[IF seg = 0 THEN 1 ELSE seg])
              \/ ~without.ok
              \/ Len(after) > VM_PHYSSEG_MAX
           THEN Panics
           ELSE /\ npages' = count
                /\ array' = Pages(boot_freemem, boot_freemem + bytes)
                /\ exregions' = without.list
                /\ vm_phys_segs' = after
                /\ freelist' = FreeList(after)
                /\ boot_freemem' = boot_freemem + bytes
                /\ stage' = "running"
                /\ UNCHANGED <<machine, node, dtb, hwregions, dmap, ram, image>>

Next ==
    \/ Dtb_init
    \/ \E stext, end \in ImageAddr : stext < end /\ Kvminit(stext, end)
    \/ Kinit

Spec == Init /\ [][Next]_vars

-----------------------------------------------------------------------------
(* Properties *)

\* Regions are whole pages, none is empty, and no list outgrows its array.
TypeOK ==
    /\ \A list \in {hwregions, exregions, vm_phys_segs} : \A i \in DOMAIN list :
        list[i].addr % PGSIZE = 0 /\ list[i].size % PGSIZE = 0 /\ list[i].size > 0
    /\ Len(hwregions) <= MAX_HWCNT /\ Len(exregions) <= MAX_EXCNT
    /\ Len(vm_phys_segs) <= VM_PHYSSEG_MAX
    /\ stage \in {"dtb", "banks", "mapped", "running", "panic"}

\* What dtb_init() leaves is what the machine has: exactly its whole pages of RAM, the
\* boot CPU first and then each other CPU once, as many as fit, and the interrupts and the
\* clock of the devices.  Nodes of the same name in other places do not count.
ReadsTheMachine ==
    stage = "banks" =>
        LET cpus == dtb.cpu_mpidr
        IN  /\ PagesOf(hwregions) = RamOf(machine)
            /\ cpus[1] = BootMpidr /\ IsInjective(cpus)
            /\ ToSet(cpus) \subseteq ToSet(machine.cpus)
            /\ Len(cpus) = Min({NCPU_MAX, Cardinality(ToSet(machine.cpus))})
            /\ dtb.uart_irq = IF machine.uart = 0 THEN GIC_SPI_BASE + 1 ELSE GIC_PPI_BASE + 1
            /\ dtb.timer_irq = IF machine.timer = 0 THEN GIC_SPI_BASE + 14 ELSE GIC_PPI_BASE + 14
            /\ dtb.uart_clk = IF machine.clock = "own" THEN 24 ELSE 25

\* Once kinit() is done, the segments are exactly the RAM that is not the kernel image,
\* a boot table or a page of descriptors.
SegmentsAreExact ==
    stage = "running" => PagesOf(vm_phys_segs) = ram \ (image \cup array)

\* Every page that is free has a descriptor of its own, pa_to_page() and page_to_pa()
\* are inverse, and no descriptor lies beyond the array, which was sized before it was
\* itself withheld.
DescriptorsFit ==
    stage = "running" =>
        LET free == PagesOf(vm_phys_segs)
        IN  /\ ToSet(freelist) = {pa_to_page(vm_phys_segs, p * PGSIZE) : p \in free}
            /\ IsInjective(freelist) /\ Len(freelist) = Cardinality(free)
            /\ \A p \in free :
                /\ page_to_pa(vm_phys_segs, pa_to_page(vm_phys_segs, p * PGSIZE)) = p * PGSIZE
                /\ pa_to_page(vm_phys_segs, p * PGSIZE) < npages

\* From kvminit() on the direct map has exactly the machine's RAM, each page at its own
\* address, whatever the alignment of the banks.
MapsExactly ==
    stage \in {"mapped", "running"} =>
        \A x \in BLOCK_SIZE_1G..KSTACK_WINDOW_L1 * BLOCK_SIZE_1G - 1 :
            x % PGSIZE = 0 =>
                Translate(dmap, x) = IF x \div PGSIZE \in ram THEN x ELSE None
=============================================================================
