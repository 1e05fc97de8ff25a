------------------------------ MODULE MCDevices ------------------------------
(* Boards with an interrupt controller and a UART behind a bridge of a bus,  *)
(* and a second UART beside the bus.  Bridge and first UART vary, and the    *)
(* second UART may have the name of the first.  With narrow cells a register *)
(* range is one address and one size cell.                                   *)
EXTENDS Devices

CONSTANTS sc1, sc2

MCSoftcs == {sc1, sc2}
SoftcSymmetry == Permutations(MCSoftcs)

Node(name, props, below) == <<BEGIN_NODE(name)>> \o props \o below \o <<END_NODE>>
Reg(addr, size) == <<0, addr, 0, size>>

Serial(compatible, status, reg, irq) ==
  Node("serial", <<PROP("compatible", <<compatible>>)>>
                   \o (IF status = "none" THEN << >> ELSE <<PROP("status", <<status>>)>>)
                   \o <<NOP, PROP("reg", reg), PROP("interrupts", irq)>>, << >>)

Plic == Node("plic", <<PROP("interrupt-controller", <<1>>), PROP("compatible", <<"riscv,plic0">>),
                       PROP("reg", Reg(1, 2))>>, << >>)

Board(arch, compatible, status, cells, reg, bus, second, stdout) ==
  [arch |-> arch,
   blob |-> Node("",
     <<PROP("#address-cells", <<2>>)>>,
     Node("chosen", IF stdout = << >> THEN << >> ELSE <<PROP("stdout-path", stdout)>>, << >>)
       \o Node("soc", <<PROP("compatible", <<"simple-bus">>)>>,
               (IF arch = "riscv" THEN Plic ELSE << >>)
                 \o Node("bridge", cells \o IF bus THEN << >> ELSE <<PROP("status", <<"disabled">>)>>,
                         Serial(compatible, status, reg, <<0, 1, 4, 1, 2, 1>>)))
       \o Node(second, <<PROP("compatible", <<IF arch = "riscv" THEN "ns16550a" ELSE "arm,pl011">>),
                         PROP("reg", Reg(2, 1))>>, << >>))
     \o <<END>>]

Narrow == <<PROP("#address-cells", <<1>>), PROP("#size-cells", <<1>>)>>
StdoutFirst == <<"soc", "bridge", "serial">>

MCBoards ==
  <<Board("riscv", "sifive,uart-16550", "none", << >>, << >>, FALSE, "uart", StdoutFirst),
    Board("riscv", "sifive,uart-16550", "none", << >>, Reg(3, 0) \o Reg(3, 1) \o Reg(1, 1),
          FALSE, "uart", StdoutFirst),
    Board("riscv", "snps,16550", "disabled", << >>, Reg(3, 1), TRUE, "uart", StdoutFirst),
    Board("riscv", "snps,16550", "none", << >>, Reg(3, 1), TRUE, "uart", << >>),
    Board("arm64", "arm,primecell", "okay", << >>, Reg(3, 1), TRUE, "serial", StdoutFirst),
    Board("arm64", "arm,primecell", "okay", Narrow, <<3, 1, 1, 2>>, TRUE, "uart", StdoutFirst),
    Board("arm64", "arm,pl011", "ok", << >>, Reg(3, 1), FALSE, "uart", << >>)>>

MCPools == {<<24, 0>>, <<24, 1>>, <<80, 0>>}
MCLinkOrders ==
  {<<"pl011_uart", "ns16550_uart", "sifive_uart">>, <<"sifive_uart", "ns16550_uart", "pl011_uart">>}
=============================================================================
