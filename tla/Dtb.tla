-------------------------------- MODULE Dtb --------------------------------
(***************************************************************************)
(* The device tree: the reader of src/libkern/fdt.c, and what the parsers  *)
(* of src/arch/dtb.c take from a node.                                     *)
(*                                                                         *)
(* The structure block is a sequence of tokens.  A token that              *)
(* fdt_next_tag() refuses, for any of its reasons, has the type "BAD", and *)
(* so has what is behind the end of the block.  The value of a property is *)
(* a sequence of cells, its length in bytes four times theirs.  A node's   *)
(* name stands for the part that fdt_node_is() compares.                   *)
(***************************************************************************)
EXTENDS Integers, Sequences, SequencesExt

CONSTANTS
    NCPU_MAX,
    CELL        \* how many values a cell can have

ASSUME DtbAssumption == NCPU_MAX \in Nat \ {0} /\ CELL \in Nat \ {0}

GIC_PPI_BASE == 16
GIC_SPI_BASE == 32

SMC == 1

\* No property: a value that no property has.
NoValue == <<-1>>

-----------------------------------------------------------------------------
(* fdt.c *)

fdt64(cells) == cells[1] * CELL + cells[2]

fdt_next_tag(blob, p) == IF p \in DOMAIN blob THEN blob[p] ELSE [type |-> "BAD"]

\* The node after position p, when depth is that of the node p is in.  The walk ends at
\* FDT_END, or panics.
RECURSIVE fdt_next_node(_, _, _)
fdt_next_node(blob, p, depth) ==
    LET tag == fdt_next_tag(blob, p)
    IN  CASE tag.type = "BEGIN_NODE" ->
                 [found |-> "node", name |-> tag.name, depth |-> depth + 1, props |-> p + 1]
          [] tag.type = "END_NODE" -> fdt_next_node(blob, p + 1, depth - 1)
          [] tag.type \in {"PROP", "NOP"} -> fdt_next_node(blob, p + 1, depth)
          [] tag.type = "END" -> [found |-> "end"]
          [] tag.type = "BAD" -> [found |-> "panic"]

\* Mutant: the search does not stop when it leaves the parent.
RECURSIVE SubnodesBeyond(_, _, _, _)
SubnodesBeyond(blob, depth, p, at) ==
    LET node == fdt_next_node(blob, p, at)
    IN  IF node.found # "node" THEN <<>>
        ELSE (IF node.depth = depth + 1 THEN <<node>> ELSE <<>>)
                 \o SubnodesBeyond(blob, depth, node.props, node.depth)

\* The nodes that fdt_first_subnode() and fdt_next_subnode() give for a parent at
\* `depth', from position p at depth `at' on.
RECURSIVE Subnodes(_, _, _, _)
Subnodes(blob, depth, p, at) ==
    LET node == fdt_next_node(blob, p, at)
    IN  IF node.found # "node" THEN <<>>
        ELSE IF node.depth <= depth THEN <<>>
        ELSE (IF node.depth = depth + 1 THEN <<node>> ELSE <<>>)
                 \o Subnodes(blob, depth, node.props, node.depth)

\* A BAD token ends the list: the panic is the walk's, which comes to the same token.
RECURSIVE fdt_getprop(_, _, _)
fdt_getprop(blob, p, name) ==
    LET tag == fdt_next_tag(blob, p)
    IN  IF tag.type = "NOP" THEN fdt_getprop(blob, p + 1, name)
        ELSE IF tag.type # "PROP" THEN NoValue
        ELSE IF tag.name = name THEN tag.value
        ELSE fdt_getprop(blob, p + 1, name)

\* fdt_prop_u32(): what *out becomes when it was `old'.
fdt_prop_u32(blob, p, name, old) ==
    LET v == fdt_getprop(blob, p, name)
    IN  IF v = NoValue \/ v = <<>> THEN old ELSE v[1]

\* The "clock-frequency" of the first node from p on with this phandle, or `old'.
RECURSIVE ClockOf(_, _, _, _, _)
ClockOf(blob, p, depth, phandle, old) ==
    LET node == fdt_next_node(blob, p, depth)
    IN  IF node.found # "node" THEN old
        ELSE IF fdt_prop_u32(blob, node.props, "phandle", 0) = phandle
        THEN fdt_prop_u32(blob, node.props, "clock-frequency", old)
        ELSE ClockOf(blob, node.props, node.depth, phandle, old)

-----------------------------------------------------------------------------
(* dtb.c.  A record d holds its globals, and whether a parser has panicked. *)

DtbInit(boot_mpidr) ==
    [root_acells |-> 2, root_scells |-> 1, cpu_mpidr |-> <<boot_mpidr>>,
     boot_found |-> FALSE, nbanks |-> 0, timer_irq |-> 0, timer_freq |-> 0,
     uart_irq |-> 0, uart_clk |-> 0, uart_clk_phandle |-> 0, uart_base |-> 0,
     gicd_base |-> 0, gicr_base |-> 0, psci_conduit |-> "hvc", panic |-> FALSE]

\* dtb_intid() of an interrupt, with 0 for its panic.
dtb_intid(type, number) ==
    CASE type = 0 -> GIC_SPI_BASE + number
      [] type = 1 -> GIC_PPI_BASE + number
      [] OTHER -> 0

dtb_parse_root(d, blob, node) ==
    [d EXCEPT !.root_acells = fdt_prop_u32(blob, node.props, "#address-cells", @),
              !.root_scells = fdt_prop_u32(blob, node.props, "#size-cells", @)]

\* One round of the loop of dtb_parse_cpus(), for a "cpu" whose "reg" is reg.
ParseCpu(d, reg) ==
    LET mpidr == IF Len(reg) = 1 THEN reg[1] ELSE fdt64(reg)
        k == {i \in DOMAIN d.cpu_mpidr : d.cpu_mpidr[i] = mpidr}
    IN  IF reg \in {NoValue, <<>>} THEN d
        ELSE IF 1 \in k THEN [d EXCEPT !.boot_found = TRUE, !.panic = @ \/ d.boot_found]
        ELSE IF k # {} THEN [d EXCEPT !.panic = TRUE]
        ELSE IF Len(d.cpu_mpidr) < NCPU_MAX
        THEN [d EXCEPT !.cpu_mpidr = Append(@, mpidr)] ELSE d

dtb_parse_cpus(d, blob, node) ==
    FoldLeft(LAMBDA e, cpu :
                 IF cpu.name = "cpu" THEN ParseCpu(e, fdt_getprop(blob, cpu.props, "reg"))
                 ELSE e,
             d, Subnodes(blob, node.depth, node.props, node.depth))

fdt_cells(cells, n) == IF n = 1 THEN cells[1] ELSE fdt64(cells)

\* The (base, size) pairs of a "reg".
Pairs(d, reg) ==
    LET ec == d.root_acells + d.root_scells
    IN  [i \in 1..Len(reg) \div ec |->
            [base |-> fdt_cells(SubSeq(reg, (i - 1) * ec + 1, Len(reg)), d.root_acells),
             size |-> fdt_cells(SubSeq(reg, (i - 1) * ec + d.root_acells + 1, Len(reg)),
                                d.root_scells)]]

\* The panic of fdt_cells(), which a "reg" too short for a pair does not reach.
BadCells(d, reg) ==
    /\ {d.root_acells, d.root_scells} \ {1, 2} # {}
    /\ d.root_acells + d.root_scells <= Len(reg)

\* The banks dtb_parse_memory() reports.
Banks(d, blob, node) ==
    LET reg == fdt_getprop(blob, node.props, "reg")
    IN  IF node.depth # 1 \/ node.name # "memory" \/ reg = NoValue \/ BadCells(d, reg)
        THEN <<>> ELSE SelectSeq(Pairs(d, reg), LAMBDA bank : bank.size > 0)

dtb_parse_memory(d, blob, node) ==
    LET reg == fdt_getprop(blob, node.props, "reg")
    IN  [d EXCEPT !.nbanks = @ + Len(Banks(d, blob, node)),
                  !.panic = @ \/ (reg # NoValue /\ BadCells(d, reg))]

\* The cell SMC stands for the string, and a method that is not terminated is <<>>.
dtb_parse_psci(d, blob, node) ==
    LET method == fdt_getprop(blob, node.props, "method")
    IN  IF method \in {NoValue, <<>>} THEN d
        ELSE [d EXCEPT !.psci_conduit = IF method[1] = SMC THEN "smc" ELSE "hvc"]

\* The second interrupt of the timer: the non-secure physical one.
dtb_parse_timer(d, blob, node) ==
    LET intr == fdt_getprop(blob, node.props, "interrupts")
        e == [d EXCEPT !.timer_freq = fdt_prop_u32(blob, node.props, "clock-frequency", @)]
    IN  IF intr = NoValue \/ Len(intr) < 6 THEN e
        ELSE [e EXCEPT !.timer_irq = dtb_intid(intr[4], intr[5]),
                       !.panic = @ \/ dtb_intid(intr[4], intr[5]) = 0]

dtb_parse_uart(d, blob, node) ==
    LET reg == fdt_getprop(blob, node.props, "reg")
        intr == fdt_getprop(blob, node.props, "interrupts")
        own == fdt_getprop(blob, node.props, "clock-frequency") \notin {NoValue, <<>>}
        e == [d EXCEPT
                !.uart_base = IF reg = NoValue \/ Len(reg) < 4 THEN @ ELSE fdt64(reg),
                !.uart_clk = fdt_prop_u32(blob, node.props, "clock-frequency", @),
                !.uart_clk_phandle =
                    IF own THEN @ ELSE fdt_prop_u32(blob, node.props, "clocks", @)]
    IN  IF intr = NoValue \/ Len(intr) < 3 THEN e
        ELSE [e EXCEPT !.uart_irq = dtb_intid(intr[1], intr[2]),
                       !.panic = @ \/ dtb_intid(intr[1], intr[2]) = 0]

dtb_parse_gic(d, blob, node) ==
    LET reg == fdt_getprop(blob, node.props, "reg")
    IN  IF reg = NoValue \/ Len(reg) < 8 THEN d
        ELSE [d EXCEPT !.gicd_base = fdt64(reg), !.gicr_base = fdt64(SubSeq(reg, 5, 6))]

\* The body of the loop of dtb_init().
ParseNode(d, blob, node) ==
    CASE node.depth = 0 -> dtb_parse_root(d, blob, node)
      [] node.depth = 1 /\ node.name = "cpus" -> dtb_parse_cpus(d, blob, node)
      [] node.depth = 1 /\ node.name = "memory" -> dtb_parse_memory(d, blob, node)
      [] node.depth = 1 /\ node.name = "psci" -> dtb_parse_psci(d, blob, node)
      [] node.depth = 1 /\ node.name = "timer" -> dtb_parse_timer(d, blob, node)
      [] node.depth = 1 /\ node.name = "pl011" -> dtb_parse_uart(d, blob, node)
      [] node.depth = 1 /\ node.name = "intc" -> dtb_parse_gic(d, blob, node)
      [] OTHER -> d

\* What follows the loop.
DtbDone(d, blob) ==
    LET e == IF d.uart_clk = 0 /\ d.uart_clk_phandle # 0
             THEN [d EXCEPT !.uart_clk = ClockOf(blob, 1, -1, d.uart_clk_phandle, @)] ELSE d
    IN  [e EXCEPT !.panic = \/ ~e.boot_found \/ e.nbanks = 0
                            \/ e.uart_irq = 0 \/ e.timer_irq = 0]
=============================================================================
