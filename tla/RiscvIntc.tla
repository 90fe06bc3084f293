----------------------------- MODULE RiscvIntc -----------------------------
(***************************************************************************)
(* drivers/irqchip/irq-riscv-intc.c: the local interrupt controller of the *)
(* harts, from the probing of its nodes to the masking of its sources.     *)
(*                                                                         *)
(* An enable register is the set of its bits that are set.  Firmware       *)
(* describes the machine by a device tree, with the controller of the      *)
(* architecture or the one of Andes, or by ACPI tables.                    *)
(***************************************************************************)
EXTENDS Integers, FiniteSets

CONSTANTS
  Harts, BootHart,
  Fwspecs,               \* requests for interrupts: [hwirq, nr_irqs]
  BITS_PER_LONG,
  BITS_PER_INT,          \* width of the mask of the Andes callbacks
  ANDES_SLI_CAUSE_BASE, ANDES_RV_IRQ_LAST

ASSUME HartsAssumption == BootHart \in Harts

ASSUME WidthAssumption ==
  /\ BITS_PER_INT \in Nat \ {0}
  /\ BITS_PER_LONG \in Nat \ {0}
  /\ BITS_PER_INT <= BITS_PER_LONG
  /\ ANDES_SLI_CAUSE_BASE \in Nat
  /\ ANDES_RV_IRQ_LAST \in Nat
  /\ ANDES_SLI_CAUSE_BASE % BITS_PER_LONG = 0
  /\ BITS_PER_LONG <= ANDES_SLI_CAUSE_BASE
  /\ ANDES_RV_IRQ_LAST <= BITS_PER_INT

\* The core asks for one interrupt at a time, and the standard causes are
\* numbered below the width of an int.
ASSUME FwspecsAssumption ==
  \A f \in Fwspecs :
    /\ f.hwirq \in Nat
    /\ f.nr_irqs = 1
    /\ f.hwirq < BITS_PER_LONG => f.hwirq < BITS_PER_INT

VARIABLES
  machine,          \* what firmware describes
  probed,           \* the harts whose node was initialised
  intc_domain,      \* the chip given to the domain, or "none"
  fwnode,           \* the firmware node the domain refers to
  handle_arch_irq,  \* is riscv_intc_irq() the interrupt handler?
  hwnode_fn,        \* is riscv_intc_hwnode() registered?
  mapped,           \* the hwirqs mapped in the domain
  csr_ie,           \* CSR_IE of each hart
  csr_slie,         \* ANDES_CSR_SLIE of each hart
  unmasked          \* history: what was last asked of each hart and hwirq

setup == <<machine, probed, intc_domain, fwnode, handle_arch_irq, hwnode_fn>>
enables == <<csr_ie, csr_slie, unmasked>>
intcVars == <<setup, mapped, enables>>

Machines == {"riscv,cpu-intc", "andestech,cpu-intc", "acpi"}

IntcInit ==
  /\ machine \in Machines
  /\ probed = {}
  /\ intc_domain = "none"
  /\ fwnode = IF machine = "acpi" THEN "absent" ELSE "live"
  /\ handle_arch_irq = FALSE
  /\ hwnode_fn = FALSE
  /\ mapped = {}
  /\ csr_ie = [h \in Harts |-> {}]
  /\ csr_slie = [h \in Harts |-> {}]
  /\ unmasked = [h \in Harts |-> {}]

\* riscv_intc_custom_base and riscv_intc_custom_nr_irqs.
riscv_intc_nr_irqs == BITS_PER_LONG
riscv_intc_custom_base ==
  IF intc_domain = "andes" THEN ANDES_SLI_CAUSE_BASE ELSE BITS_PER_LONG
riscv_intc_custom_nr_irqs ==
  IF intc_domain = "andes" THEN ANDES_RV_IRQ_LAST ELSE 0

-----------------------------------------------------------------------------
\* The node of another hart is only marked as initialised.
SkipNode(h) ==
  /\ h \notin probed
  /\ h # BootHart
  /\ probed' = probed \cup {h}
  /\ UNCHANGED <<machine, intc_domain, fwnode, handle_arch_irq, hwnode_fn,
                 mapped, enables>>

\* Mutant of riscv_intc_init_common(): the node is published too early.
riscv_intc_init_common_Early(chip) ==
  \/ UNCHANGED <<intc_domain, handle_arch_irq, hwnode_fn>>
  \/ /\ intc_domain' = chip
     /\ hwnode_fn' = TRUE
     /\ handle_arch_irq' \in BOOLEAN

(***************************************************************************)
(* Creating the domain fails; or the domain stays although the handler     *)
(* cannot be set; or everything is set up.                                 *)
(***************************************************************************)
riscv_intc_init_common(chip) ==
  \/ UNCHANGED <<intc_domain, handle_arch_irq, hwnode_fn>>
  \/ /\ intc_domain' = chip
     /\ UNCHANGED <<handle_arch_irq, hwnode_fn>>
  \/ /\ intc_domain' = chip
     /\ handle_arch_irq' = TRUE
     /\ hwnode_fn' = TRUE

riscv_intc_init ==
  /\ machine # "acpi"
  /\ BootHart \notin probed
  /\ probed' = probed \cup {BootHart}
  /\ riscv_intc_init_common(IF machine = "andestech,cpu-intc" THEN "andes"
                            ELSE "riscv")
  /\ UNCHANGED <<machine, fwnode, mapped, enables>>

\* The node is allocated here, and freed if anything fails after that.
riscv_intc_acpi_init ==
  /\ machine = "acpi"
  /\ BootHart \notin probed
  /\ probed' = probed \cup {BootHart}
  /\ \/ /\ riscv_intc_init_common("riscv")
        /\ fwnode' = IF handle_arch_irq' THEN "live" ELSE "freed"
     \/ UNCHANGED <<intc_domain, fwnode, handle_arch_irq, hwnode_fn>>
  /\ UNCHANGED <<machine, mapped, enables>>

-----------------------------------------------------------------------------
\* Mutant of HasRegister: the gap below the custom causes is forgotten.
HasRegister_NoGap(hwirq) ==
  hwirq < riscv_intc_custom_base + riscv_intc_custom_nr_irqs

\* Is there a standard or custom interrupt enable register for hwirq?
HasRegister(hwirq) ==
  /\ ~(hwirq >= riscv_intc_nr_irqs /\ hwirq < riscv_intc_custom_base)
  /\ ~(hwirq >= riscv_intc_custom_base + riscv_intc_custom_nr_irqs)

riscv_intc_domain_map(hwirq) == mapped \cup {hwirq}

riscv_intc_domain_alloc(f) ==
  /\ intc_domain # "none"
  /\ HasRegister(f.hwirq)
  /\ mapped' = UNION {riscv_intc_domain_map(f.hwirq + i) :
                        i \in 0 .. f.nr_irqs - 1}
  /\ UNCHANGED <<setup, enables>>

\* The mask of the Andes callbacks: an unsigned int.
AndesMask(hwirq) ==
  {b \in {hwirq % BITS_PER_LONG} : b < BITS_PER_INT}

\* The bits of CSR_IE, and of ANDES_CSR_SLIE, a callback writes.
IeMask(hwirq) ==
  IF intc_domain # "andes" THEN {hwirq}
  ELSE IF hwirq < ANDES_SLI_CAUSE_BASE THEN AndesMask(hwirq) ELSE {}

SlieMask(hwirq) ==
  IF intc_domain = "andes" /\ hwirq >= ANDES_SLI_CAUSE_BASE
  THEN AndesMask(hwirq) ELSE {}

\* The callbacks run on the hart they are about.
riscv_intc_irq_mask(h, hwirq) ==
  /\ hwirq \in mapped
  /\ csr_ie' = [csr_ie EXCEPT ![h] = @ \ IeMask(hwirq)]
  /\ csr_slie' = [csr_slie EXCEPT ![h] = @ \ SlieMask(hwirq)]
  /\ unmasked' = [unmasked EXCEPT ![h] = @ \ {hwirq}]
  /\ UNCHANGED <<setup, mapped>>

riscv_intc_irq_unmask(h, hwirq) ==
  /\ hwirq \in mapped
  /\ csr_ie' = [csr_ie EXCEPT ![h] = @ \cup IeMask(hwirq)]
  /\ csr_slie' = [csr_slie EXCEPT ![h] = @ \cup SlieMask(hwirq)]
  /\ unmasked' = [unmasked EXCEPT ![h] = @ \cup {hwirq}]
  /\ UNCHANGED <<setup, mapped>>

\* The causes a hart traps with, the others being masked.
Causes(h) ==
  csr_ie[h] \cup {ANDES_SLI_CAUSE_BASE + b : b \in csr_slie[h]}

\* riscv_intc_irq() finds an interrupt for the cause of the trap.
riscv_intc_irq(cause) == intc_domain # "none" /\ cause \in mapped

IntcNext ==
  \/ \E h \in Harts : SkipNode(h)
  \/ riscv_intc_init
  \/ riscv_intc_acpi_init
  \/ \E f \in Fwspecs : riscv_intc_domain_alloc(f)
  \/ \E h \in Harts, hwirq \in mapped :
       riscv_intc_irq_mask(h, hwirq) \/ riscv_intc_irq_unmask(h, hwirq)

-----------------------------------------------------------------------------
IntcTypeOK ==
  /\ machine \in Machines
  /\ probed \subseteq Harts
  /\ intc_domain \in {"none", "riscv", "andes"}
  /\ fwnode \in {"absent", "live", "freed"}
  /\ handle_arch_irq \in BOOLEAN
  /\ hwnode_fn \in BOOLEAN
  /\ mapped \subseteq Nat
  /\ csr_ie \in [Harts -> SUBSET Nat]
  /\ csr_slie \in [Harts -> SUBSET Nat]
  /\ unmasked \in [Harts -> SUBSET Nat]

(***************************************************************************)
(* Whatever fails while the controller is set up, the node that            *)
(* riscv_intc_hwnode() hands out to other drivers was not freed, and the   *)
(* interrupt handler has a domain to look causes up in.                    *)
(***************************************************************************)
HwnodeLive ==
  /\ hwnode_fn => intc_domain # "none" /\ fwnode = "live"
  /\ handle_arch_irq => intc_domain # "none"

(***************************************************************************)
(* A hart traps with exactly the causes that were last unmasked on that    *)
(* hart, so never with one the domain does not know: no two mapped sources *)
(* share a bit, and none has its bit in a register that does not exist.    *)
(***************************************************************************)
CausesAsAsked ==
  \A h \in Harts : Causes(h) = unmasked[h] /\ unmasked[h] \subseteq mapped
=============================================================================
