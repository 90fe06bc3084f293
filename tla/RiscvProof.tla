----------------------------- MODULE RiscvProof -----------------------------
(***************************************************************************)
(* Proofs about interrupts on RISC-V: the controller, for any harts, any   *)
(* requests for interrupts and any widths that WidthAssumption allows,     *)
(* whatever the pipeline on top of it does; and the pipeline, for any      *)
(* tasks, handlers and depth of sections, which implements StallPromise.   *)
(***************************************************************************)
EXTENDS RiscvPipeline, SequenceTheorems, TLAPS

-----------------------------------------------------------------------------
(***************************************************************************)
(* The controller.  While nothing is mapped the registers are clear, and   *)
(* once something is, the domain does not change any more.                 *)
(***************************************************************************)
\* A hwirq a driver may unmask.
Mappable(c) ==
  /\ c \in Nat
  /\ HasRegister(c)
  /\ c < BITS_PER_LONG => c < BITS_PER_INT

IntcIInv ==
  /\ IntcTypeOK
  /\ BootHart \notin probed => intc_domain = "none" /\ ~handle_arch_irq /\ ~hwnode_fn
  /\ handle_arch_irq => intc_domain # "none"
  /\ hwnode_fn => intc_domain # "none" /\ fwnode = "live"
  /\ machine # "acpi" => fwnode = "live"
  /\ intc_domain = "none" => mapped = {}
  /\ \A c \in mapped : Mappable(c)
  /\ \A h \in Harts :
       /\ unmasked[h] \subseteq mapped
       /\ csr_ie[h] = {c \in unmasked[h] : c < BITS_PER_LONG}
       /\ csr_slie[h] = {b \in Nat : ANDES_SLI_CAUSE_BASE + b \in unmasked[h]}

(* A multiple of the modulus does not count.                               *)
LEMMA ModuloBase ==
  ASSUME NEW k \in Nat \ {0}, NEW a \in Nat, a % k = 0, NEW b \in Nat, b < k
  PROVE  b % k = b /\ (a + b) % k = b
<1>1. b % k = b
  BY SMTT(30)
<1>2. (a + b) % k = b
  BY SMTT(30)
<1>. QED
  BY <1>1, <1>2

LEMMA IntcInitInv == IntcInit => IntcIInv
<1>. SUFFICES ASSUME IntcInit PROVE IntcIInv
  OBVIOUS
<1>. USE DEF IntcInit
<1>1. IntcTypeOK
  BY DEF IntcTypeOK, Machines
<1>2. \A h \in Harts :
        /\ unmasked[h] \subseteq mapped
        /\ csr_ie[h] = {c \in unmasked[h] : c < BITS_PER_LONG}
        /\ csr_slie[h] = {b \in Nat : ANDES_SLI_CAUSE_BASE + b \in unmasked[h]}
  OBVIOUS
<1>3. /\ mapped = {} /\ intc_domain = "none" /\ ~handle_arch_irq /\ ~hwnode_fn
      /\ machine # "acpi" => fwnode = "live"
  OBVIOUS
<1>. HIDE DEF IntcInit
<1>. QED
  BY <1>1, <1>2, <1>3 DEF IntcIInv

(* What a source writes is its own bit: the standard sources theirs in     *)
(* CSR_IE, the custom ones of Andes theirs in ANDES_CSR_SLIE.              *)
LEMMA MasksOfSource ==
  ASSUME IntcTypeOK, intc_domain # "none", NEW c, Mappable(c)
  PROVE  /\ c < BITS_PER_LONG \/ ANDES_SLI_CAUSE_BASE <= c
         /\ IeMask(c) = {x \in {c} : x < BITS_PER_LONG}
         /\ SlieMask(c) = {b \in Nat : ANDES_SLI_CAUSE_BASE + b = c}
<1>. USE WidthAssumption
<1>1. intc_domain \in {"riscv", "andes"} /\ c \in Nat
  BY DEF IntcTypeOK, Mappable
<1>2. CASE intc_domain = "riscv"
  <2>1. c < BITS_PER_LONG
    BY <1>1, <1>2 DEF Mappable, HasRegister, riscv_intc_nr_irqs,
       riscv_intc_custom_base, riscv_intc_custom_nr_irqs
  <2>2. {b \in Nat : ANDES_SLI_CAUSE_BASE + b = c} = {}
    BY <2>1, <1>1
  <2>. QED
    BY <1>1, <1>2, <2>1, <2>2 DEF IeMask, SlieMask
<1>3. CASE intc_domain = "andes" /\ c < ANDES_SLI_CAUSE_BASE
  <2>1. c < BITS_PER_LONG /\ c < BITS_PER_INT
    BY <1>1, <1>3 DEF Mappable, HasRegister, riscv_intc_nr_irqs,
       riscv_intc_custom_base, riscv_intc_custom_nr_irqs
  <2>2. c % BITS_PER_LONG = c
    BY <2>1, <1>1, ModuloBase
  <2>3. AndesMask(c) = {c}
    BY <2>1, <2>2 DEF AndesMask
  <2>4. {b \in Nat : ANDES_SLI_CAUSE_BASE + b = c} = {}
    BY <1>1, <1>3
  <2>. QED
    BY <1>1, <1>3, <2>1, <2>3, <2>4 DEF IeMask, SlieMask
<1>4. CASE intc_domain = "andes" /\ c >= ANDES_SLI_CAUSE_BASE
  <2>1. c < ANDES_SLI_CAUSE_BASE + ANDES_RV_IRQ_LAST
    BY <1>1, <1>4 DEF Mappable, HasRegister, riscv_intc_custom_base,
       riscv_intc_custom_nr_irqs
  <2>. DEFINE b == c - ANDES_SLI_CAUSE_BASE
  <2>2. b \in Nat /\ b < BITS_PER_INT /\ b < BITS_PER_LONG
        /\ c = ANDES_SLI_CAUSE_BASE + b
    BY <2>1, <1>1, <1>4
  <2>. HIDE DEF b
  <2>3. c % BITS_PER_LONG = b
    BY <2>2, ModuloBase
  <2>4. AndesMask(c) = {b}
    BY <2>2, <2>3 DEF AndesMask
  <2>5. {x \in Nat : ANDES_SLI_CAUSE_BASE + x = c} = {b}
    BY <2>2
  <2>6. ~(c < BITS_PER_LONG)
    BY <1>1, <1>4
  <2>. QED
    BY <1>1, <1>4, <2>4, <2>5, <2>6 DEF IeMask, SlieMask
<1>. QED
  BY <1>1, <1>2, <1>3, <1>4

LEMMA IntcStep == ASSUME IntcIInv, IntcNext PROVE IntcIInv'
<1>. USE DEF IntcIInv, IntcTypeOK
<1>1. CASE \E h \in Harts : SkipNode(h)
  <2>. USE <1>1 DEF SkipNode, enables
  <2>1. HasRegister(0) \in BOOLEAN /\ \A c : Mappable(c) => Mappable(c)'
    BY DEF Mappable, HasRegister, riscv_intc_nr_irqs,
       riscv_intc_custom_base, riscv_intc_custom_nr_irqs
  <2>. QED
    BY <2>1
<1>2. CASE riscv_intc_init \/ riscv_intc_acpi_init
  <2>1. mapped = {} /\ mapped' = {} /\ UNCHANGED <<machine, enables>>
    BY <1>2, HartsAssumption DEF riscv_intc_init, riscv_intc_acpi_init
  <2>2. BootHart \notin probed /\ probed' = probed \cup {BootHart}
        /\ intc_domain = "none" /\ ~handle_arch_irq /\ ~hwnode_fn
    BY <1>2 DEF riscv_intc_init, riscv_intc_acpi_init
  <2>3. PICK chip \in {"riscv", "andes"} :
          \/ /\ riscv_intc_init_common(chip)
             /\ fwnode' = IF machine # "acpi" THEN fwnode
                          ELSE IF handle_arch_irq' THEN "live" ELSE "freed"
          \/ UNCHANGED <<intc_domain, fwnode, handle_arch_irq, hwnode_fn>>
    BY <1>2 DEF riscv_intc_init, riscv_intc_acpi_init
  <2>4. /\ intc_domain' \in {"none", "riscv", "andes"}
        /\ handle_arch_irq' \in BOOLEAN /\ hwnode_fn' \in BOOLEAN
        /\ fwnode' \in {"absent", "live", "freed"}
        /\ handle_arch_irq' => intc_domain' # "none"
        /\ hwnode_fn' => intc_domain' # "none" /\ fwnode' = "live"
        /\ machine # "acpi" => fwnode' = "live"
    <3>1. handle_arch_irq = FALSE /\ hwnode_fn = FALSE
          /\ fwnode \in {"absent", "live", "freed"}
          /\ (machine # "acpi" => fwnode = "live")
      BY <2>2
    <3>. HIDE DEF IntcIInv, IntcTypeOK
    <3>2. CASE UNCHANGED <<intc_domain, handle_arch_irq, hwnode_fn>>
      BY <2>2, <2>3, <3>1, <3>2
    <3>3. CASE intc_domain' = chip /\ UNCHANGED <<handle_arch_irq, hwnode_fn>>
      BY <2>2, <2>3, <3>1, <3>3
    <3>4. CASE intc_domain' = chip /\ handle_arch_irq' = TRUE /\ hwnode_fn' = TRUE
      BY <2>2, <2>3, <3>1, <3>4
    <3>. QED
      BY <2>3, <3>2, <3>3, <3>4 DEF riscv_intc_init_common
  <2>5. probed' \subseteq Harts /\ BootHart \in probed'
    BY <2>2, HartsAssumption
  <2>. QED
    BY <2>1, <2>4, <2>5 DEF enables
<1>3. ASSUME NEW f \in Fwspecs, riscv_intc_domain_alloc(f) PROVE IntcIInv'
  <2>1. UNCHANGED <<setup, enables>> /\ HasRegister(f.hwirq) /\ intc_domain # "none"
    BY <1>3 DEF riscv_intc_domain_alloc
  <2>2. f.nr_irqs = 1 /\ f.hwirq \in Nat
        /\ (f.hwirq < BITS_PER_LONG => f.hwirq < BITS_PER_INT)
    BY FwspecsAssumption
  <2>3. mapped' = mapped \cup {f.hwirq}
    <3>1. 0 .. f.nr_irqs - 1 = {0} /\ f.hwirq + 0 = f.hwirq
      BY <2>2
    <3>2. mapped' = UNION {riscv_intc_domain_map(f.hwirq + i) : i \in {0}}
      BY <1>3, <3>1 DEF riscv_intc_domain_alloc
    <3>3. mapped' = riscv_intc_domain_map(f.hwirq + 0)
      BY <3>2
    <3>. QED
      BY <3>1, <3>3 DEF riscv_intc_domain_map
  <2>4. Mappable(f.hwirq)
    BY <2>1, <2>2 DEF Mappable
  <2>5. \A c : Mappable(c) => Mappable(c)'
    BY <2>1 DEF Mappable, HasRegister, riscv_intc_nr_irqs, setup,
       riscv_intc_custom_base, riscv_intc_custom_nr_irqs
  <2>6. \A c \in mapped' : Mappable(c)'
    BY <2>3, <2>4, <2>5
  <2>7. mapped' \subseteq Nat
    BY <2>2, <2>3
  <2>8. \A h \in Harts : unmasked'[h] \subseteq mapped'
    BY <2>1, <2>3 DEF enables
  <2>. QED
    BY <2>1, <2>6, <2>7, <2>8 DEF setup, enables
<1>4. ASSUME NEW g \in Harts, NEW c \in mapped,
             riscv_intc_irq_mask(g, c) \/ riscv_intc_irq_unmask(g, c)
      PROVE  IntcIInv'
  <2>1. UNCHANGED <<setup, mapped>>
    BY <1>4 DEF riscv_intc_irq_mask, riscv_intc_irq_unmask
  <2>2. c \in Nat /\ Mappable(c) /\ intc_domain # "none"
    OBVIOUS
  <2>3. /\ IeMask(c) = {x \in {c} : x < BITS_PER_LONG}
        /\ SlieMask(c) = {b \in Nat : ANDES_SLI_CAUSE_BASE + b = c}
    BY <2>2, MasksOfSource
  <2>4. \A d : Mappable(d) => Mappable(d)'
    BY <2>1 DEF Mappable, HasRegister, riscv_intc_nr_irqs, setup,
       riscv_intc_custom_base, riscv_intc_custom_nr_irqs
  <2>5. /\ csr_ie' \in [Harts -> SUBSET Nat]
        /\ csr_slie' \in [Harts -> SUBSET Nat]
        /\ unmasked' \in [Harts -> SUBSET Nat]
    BY <1>4, <2>2, <2>3 DEF riscv_intc_irq_mask, riscv_intc_irq_unmask
  <2>6. ASSUME NEW h \in Harts
        PROVE  /\ unmasked'[h] \subseteq mapped
               /\ csr_ie'[h] = {x \in unmasked'[h] : x < BITS_PER_LONG}
               /\ csr_slie'[h] = {b \in Nat : ANDES_SLI_CAUSE_BASE + b \in unmasked'[h]}
    <3>1. CASE h # g
      BY <1>4, <3>1 DEF riscv_intc_irq_mask, riscv_intc_irq_unmask
    <3>2. CASE h = g /\ riscv_intc_irq_mask(g, c)
      <4>1. /\ unmasked'[h] = unmasked[h] \ {c}
            /\ csr_ie'[h] = csr_ie[h] \ IeMask(c)
            /\ csr_slie'[h] = csr_slie[h] \ SlieMask(c)
        BY <3>2 DEF riscv_intc_irq_mask
      <4>. QED
        BY <4>1, <2>3
    <3>3. CASE h = g /\ riscv_intc_irq_unmask(g, c)
      <4>1. /\ unmasked'[h] = unmasked[h] \cup {c}
            /\ csr_ie'[h] = csr_ie[h] \cup IeMask(c)
            /\ csr_slie'[h] = csr_slie[h] \cup SlieMask(c)
        BY <3>3 DEF riscv_intc_irq_unmask
      <4>. QED
        BY <4>1, <2>3
    <3>. QED
      BY <1>4, <3>1, <3>2, <3>3
  <2>. QED
    BY <2>1, <2>4, <2>5, <2>6 DEF setup
<1>. QED
  BY <1>1, <1>2, <1>3, <1>4 DEF IntcNext

LEMMA IntcProps == IntcIInv => HwnodeLive /\ CausesAsAsked
<1>. SUFFICES ASSUME IntcIInv PROVE HwnodeLive /\ CausesAsAsked
  OBVIOUS
<1>1. HwnodeLive
  BY DEF IntcIInv, HwnodeLive
<1>2. ASSUME NEW h \in Harts
      PROVE  Causes(h) = unmasked[h] /\ unmasked[h] \subseteq mapped
  <2>1. unmasked[h] \subseteq mapped /\ mapped \subseteq Nat
    BY DEF IntcIInv, IntcTypeOK
  <2>2. /\ csr_ie[h] = {c \in unmasked[h] : c < BITS_PER_LONG}
        /\ csr_slie[h] = {b \in Nat : ANDES_SLI_CAUSE_BASE + b \in unmasked[h]}
    BY DEF IntcIInv
  <2>3. ASSUME NEW c \in unmasked[h], ~(c < BITS_PER_LONG)
        PROVE  c \in {ANDES_SLI_CAUSE_BASE + b : b \in csr_slie[h]}
    <3>1. c \in Nat /\ Mappable(c) /\ intc_domain # "none" /\ IntcTypeOK
      BY <2>1 DEF IntcIInv
    <3>2. ANDES_SLI_CAUSE_BASE <= c
      BY <2>3, <3>1, MasksOfSource
    <3>3. c - ANDES_SLI_CAUSE_BASE \in Nat
          /\ c = ANDES_SLI_CAUSE_BASE + (c - ANDES_SLI_CAUSE_BASE)
      BY <3>1, <3>2, WidthAssumption
    <3>. QED
      BY <2>2, <3>3
  <2>4. Causes(h) \subseteq unmasked[h]
    BY <2>2 DEF Causes
  <2>5. unmasked[h] \subseteq Causes(h)
    BY <2>2, <2>3 DEF Causes
  <2>. QED
    BY <2>1, <2>4, <2>5
<1>. QED
  BY <1>1, <1>2 DEF CausesAsAsked

(* The invariant is about the variables of the controller only.            *)
LEMMA IntcFrame == ASSUME IntcIInv, UNCHANGED intcVars PROVE IntcIInv'
<1>. USE DEF intcVars, setup, enables
<1>1. \A c : Mappable(c) => Mappable(c)'
  BY DEF Mappable, HasRegister, riscv_intc_nr_irqs, riscv_intc_custom_base,
     riscv_intc_custom_nr_irqs
<1>. QED
  BY <1>1 DEF IntcIInv, IntcTypeOK

(* Critical sections, handlers and the pipeline core leave the controller  *)
(* alone.                                                                  *)
LEMMA PipelineLeavesIntc ==
  ASSUME Next, ~IntcNext PROVE UNCHANGED intcVars
<1>1. ASSUME NEW i \in Lines, Raise(i) PROVE UNCHANGED intcVars
  BY <1>1 DEF Raise
<1>2. ASSUME NEW w \in Contexts, NEW i \in Lines,
             arch_handle_irq_pipelined(w, i)
      PROVE  UNCHANGED intcVars
  BY <1>2 DEF arch_handle_irq_pipelined
<1>3. ASSUME NEW w \in Contexts, CoreNext(w) PROVE UNCHANGED intcVars
  BY <1>3 DEF CoreNext, PlayLog, CoreReturns, SwitchOob
<1>4. ASSUME NEW w \in Contexts, SectionBegins(w) PROVE UNCHANGED intcVars
  BY <1>4 DEF SectionBegins, arch_local_irq_save, arch_local_irq_disable,
     hard_local_irq_save, hard_local_irq_disable, test_and_lock_stage,
     SyncOpen, Open, SetLast
<1>5. ASSUME NEW w \in Contexts, SyncClose(w) \/ SectionEnds(w)
      PROVE  UNCHANGED intcVars
  BY <1>5 DEF SyncClose, SectionEnds, arch_local_irq_restore,
     arch_local_irq_enable, hard_local_irq_restore, hard_local_irq_enable,
     unlock_stage, Close, SetLast
<1>6. CASE HandlerReturns \/ LeaveOob \/ Halt
  BY <1>6 DEF HandlerReturns, LeaveOob, Halt, vars
<1>. QED
  BY <1>1, <1>2, <1>3, <1>4, <1>5, <1>6 DEF Next

(* Probing and failing on any machine, mapping, masking and unmasking on   *)
(* any hart: the registers of a hart hold the sources unmasked on it, and  *)
(* the sources mapped are those a register exists for                      *)
(* (drivers/irqchip/irq-riscv-intc.c).                                     *)
THEOREM ControllerInvariant == Spec => []IntcIInv
<1>1. Init => IntcIInv
  BY IntcInitInv DEF Init
<1>2. IntcIInv /\ [Next]_vars => IntcIInv'
  <2>. SUFFICES ASSUME IntcIInv, [Next]_vars PROVE IntcIInv'
    OBVIOUS
  <2>1. CASE IntcNext
    BY <2>1, IntcStep
  <2>2. CASE Next /\ ~IntcNext
    BY <2>2, PipelineLeavesIntc, IntcFrame
  <2>3. CASE UNCHANGED vars
    BY <2>3, IntcFrame DEF vars
  <2>. QED
    BY <2>1, <2>2, <2>3
<1>. QED
  BY <1>1, <1>2, PTL DEF Spec

(* Whatever step of riscv_intc_init_common() or of the ACPI probing fails, *)
(* the firmware node handed out is live and the handler has a domain.      *)
THEOREM HwnodeLiveHolds == Spec => []HwnodeLive
<1>1. IntcIInv => HwnodeLive
  BY IntcProps
<1>. QED
  BY <1>1, ControllerInvariant, PTL

(* riscv_intc_irq_mask(), riscv_intc_irq_unmask() and the Andes pair: a    *)
(* hart traps with the causes last unmasked on it, for any set of sources. *)
THEOREM CausesAsAskedHolds == Spec => []CausesAsAsked
<1>1. IntcIInv => CausesAsAsked
  BY IntcProps
<1>. QED
  BY <1>1, ControllerInvariant, PTL

-----------------------------------------------------------------------------
(***************************************************************************)
(* Sections.  In the build p, context w with the sections s open: what the *)
(* sections before the n-th one mask.                                      *)
(***************************************************************************)
Bits == {SR_IE, SR_PIE, IRQMASK_i}
SectionType == [kind : Kinds, flags : SUBSET Bits]

Within(s, n, kinds) == \E m \in 1 .. n - 1 : s[m].kind \in kinds

HardMasked(p, w, s, n) ==
  IF p THEN Within(s, n, HardKinds) ELSE w = "handler" \/ Within(s, n, Kinds)

VirtMasked(w, s, n) == w = "handler" \/ Within(s, n, VirtKinds)

\* The flags of the n-th section are those of the place where it was opened.
SectionRight(p, w, s, n) ==
  LET kind == s[n].kind
      flags == s[n].flags
  IN  /\ kind = "hard" \/ (~p /\ kind \in {"virt", "stage"}) =>
           (SR_IE \in flags <=> ~HardMasked(p, w, s, n))
      /\ kind \in {"hardoff", "sync", "off"} => ~HardMasked(p, w, s, n)
      /\ p /\ kind = "off" => ~VirtMasked(w, s, n)
      /\ p /\ kind = "virt" => (SR_IE \in flags <=> ~VirtMasked(w, s, n))
      /\ p /\ kind = "stage" =>
           /\ SR_IE \in flags <=> ~VirtMasked(w, s, n)
           /\ IRQMASK_i \in flags <=> HardMasked(p, w, s, n)
           /\ SR_PIE \notin flags
      /\ kind = "sync" => p /\ n = Len(s)

SectionsRight(p, w, s) ==
  /\ s \in Seq(SectionType)
  /\ \A n \in 1 .. Len(s) : SectionRight(p, w, s, n)

\* What all the sections of w mask.
HardOff(w) == HardMasked(pipelined, w, sections[w], Len(sections[w]) + 1)
VirtOff(w) == VirtMasked(w, sections[w], Len(sections[w]) + 1)

CoreType == [busy : {"no", "trap", "sync"}, status : SUBSET Bits, switch : BOOLEAN]

TopInband == IF handler # {} THEN "handler" ELSE "task"

\* What the core will return to is what it came from.
CoreRight(w) ==
  /\ core[w].busy = "trap" => SR_PIE \in core[w].status /\ ~HardOff(w)
  /\ core[w].busy = "sync" => /\ pipelined /\ Inband(w)
                              /\ SR_IE \in core[w].status <=> ~HardOff(w)
  /\ core[w].switch => pipelined /\ core[w].busy = "trap"

\* Who is on top of whom.
StackRight ==
  /\ oob => pipelined /\ core[TopInband].busy # "no"
  /\ ~oob => core["oob"].busy = "no"
  /\ handler # {} => core["task"].busy # "no" /\ (pipelined => ~VirtOff("task"))
  /\ handler = {} => core["handler"].busy = "no" /\ sections["handler"] = << >>
  /\ sections["oob"] = << >>

PipeTypeOK ==
  /\ pipelined \in BOOLEAN /\ stalled \in BOOLEAN /\ oob \in BOOLEAN
  /\ csr_status \in SUBSET Bits
  /\ core \in [Contexts -> CoreType]
  /\ sections \in [Contexts -> Seq(SectionType)]

CsrRight ==
  SR_IE \notin csr_status <=> core[Top].busy # "no" \/ HardOff(Top)

StallRight == pipelined => (stalled <=> VirtOff(TopInband))

PipeIInv ==
  /\ PipeTypeOK
  /\ \A w \in Contexts : SectionsRight(pipelined, w, sections[w]) /\ CoreRight(w)
  /\ StackRight
  /\ CsrRight
  /\ StallRight

(* A section more: what it masks adds up, and those below stay right.      *)
LEMMA PushSection ==
  ASSUME NEW p \in BOOLEAN, NEW w \in Contexts, NEW s, SectionsRight(p, w, s),
         \A n \in 1 .. Len(s) : s[n].kind # "sync",
         NEW e \in SectionType
  PROVE  LET t == Append(s, e)
         IN  /\ t \in Seq(SectionType) /\ Len(t) = Len(s) + 1 /\ t[Len(t)] = e
             /\ HardMasked(p, w, t, Len(t)) <=> HardMasked(p, w, s, Len(s) + 1)
             /\ VirtMasked(w, t, Len(t)) <=> VirtMasked(w, s, Len(s) + 1)
             /\ HardMasked(p, w, t, Len(t) + 1) <=>
                  \/ HardMasked(p, w, t, Len(t))
                  \/ e.kind \in IF p THEN HardKinds ELSE Kinds
             /\ VirtMasked(w, t, Len(t) + 1) <=>
                  VirtMasked(w, t, Len(t)) \/ e.kind \in VirtKinds
             /\ SectionRight(p, w, t, Len(t)) => SectionsRight(p, w, t)
<1>. DEFINE t == Append(s, e)
<1>1. s \in Seq(SectionType) /\ Len(s) \in Nat
  BY DEF SectionsRight
<1>2. /\ t \in Seq(SectionType) /\ Len(t) = Len(s) + 1 /\ t[Len(t)] = e
      /\ \A n \in 1 .. Len(s) : t[n] = s[n]
  BY <1>1, AppendProperties
<1>. HIDE DEF t
<1>3. \A n \in 1 .. Len(t) : \A K : Within(t, n, K) <=> Within(s, n, K)
  BY <1>1, <1>2 DEF Within
<1>4. \A K : Within(t, Len(t) + 1, K) <=> Within(t, Len(t), K) \/ e.kind \in K
  BY <1>1, <1>2 DEF Within
<1>5. \A n \in 1 .. Len(t) : /\ HardMasked(p, w, t, n) <=> HardMasked(p, w, s, n)
                             /\ VirtMasked(w, t, n) <=> VirtMasked(w, s, n)
  BY <1>3 DEF HardMasked, VirtMasked
<1>6. Len(t) \in 1 .. Len(t) /\ Len(t) = Len(s) + 1
  BY <1>1, <1>2
<1>7. ASSUME NEW n \in 1 .. Len(s) PROVE SectionRight(p, w, t, n)
  <2>1. SectionRight(p, w, s, n) /\ n \in 1 .. Len(t) /\ t[n] = s[n]
    BY <1>1, <1>2 DEF SectionsRight
  <2>. QED
    BY <2>1, <1>5 DEF SectionRight
<1>8. SectionRight(p, w, t, Len(t)) => SectionsRight(p, w, t)
  BY <1>1, <1>2, <1>7 DEF SectionsRight
<1>9. /\ HardMasked(p, w, t, Len(t) + 1) <=>
           \/ HardMasked(p, w, t, Len(t))
           \/ e.kind \in IF p THEN HardKinds ELSE Kinds
      /\ VirtMasked(w, t, Len(t) + 1) <=>
           VirtMasked(w, t, Len(t)) \/ e.kind \in VirtKinds
  BY <1>4 DEF HardMasked, VirtMasked
<1>. QED
  BY <1>2, <1>5, <1>6, <1>8, <1>9 DEF t

(* The last section ends: what is masked is what was where it began.       *)
LEMMA PopSection ==
  ASSUME NEW p \in BOOLEAN, NEW w \in Contexts, NEW s, SectionsRight(p, w, s),
         s # << >>
  PROVE  LET t == SubSeq(s, 1, Len(s) - 1)
         IN  /\ SectionsRight(p, w, t)
             /\ HardMasked(p, w, t, Len(t) + 1) <=> HardMasked(p, w, s, Len(s))
             /\ VirtMasked(w, t, Len(t) + 1) <=> VirtMasked(w, s, Len(s))
             /\ SectionRight(p, w, s, Len(s)) /\ s[Len(s)] \in SectionType
             /\ HardMasked(p, w, s, Len(s) + 1) <=>
                  \/ HardMasked(p, w, s, Len(s))
                  \/ s[Len(s)].kind \in IF p THEN HardKinds ELSE Kinds
             /\ VirtMasked(w, s, Len(s) + 1) <=>
                  VirtMasked(w, s, Len(s)) \/ s[Len(s)].kind \in VirtKinds
<1>. DEFINE t == SubSeq(s, 1, Len(s) - 1)
<1>1. /\ s \in Seq(SectionType) /\ Len(s) \in Nat \ {0}
      /\ \A n \in 1 .. Len(s) : s[n] \in SectionType
  BY EmptySeq, ElementOfSeq DEF SectionsRight
<1>2. /\ t \in Seq(SectionType) /\ Len(t) = Len(s) - 1
      /\ \A n \in 1 .. Len(s) - 1 : t[n] = s[n]
  <2>1. PICK k \in Nat : k = Len(s) - 1
    BY <1>1
  <2>2. \A i \in 1 .. k : s[i] \in SectionType
    BY <1>1, <2>1
  <2>3. /\ SubSeq(s, 1, k) \in Seq(SectionType)
        /\ Len(SubSeq(s, 1, k)) = IF 1 <= k THEN k - 1 + 1 ELSE 0
        /\ \A i \in 1 .. k - 1 + 1 : SubSeq(s, 1, k)[i] = s[1 + i - 1]
    BY <2>2, SubSeqProperties
  <2>4. /\ (IF 1 <= k THEN k - 1 + 1 ELSE 0) = k /\ k - 1 + 1 = k
        /\ \A i \in 1 .. k : 1 + i - 1 = i
    OBVIOUS
  <2>5. t = SubSeq(s, 1, k)
    BY <2>1
  <2>. HIDE DEF t
  <2>6. \A n \in 1 .. k : t[n] = s[n]
    BY <2>3, <2>4, <2>5
  <2>. QED
    BY <2>1, <2>3, <2>4, <2>5, <2>6
<1>. HIDE DEF t
<1>3. \A n \in 1 .. Len(s) : \A K : Within(t, n, K) <=> Within(s, n, K)
  BY <1>1, <1>2 DEF Within
<1>4. \A n \in 1 .. Len(s) : /\ HardMasked(p, w, t, n) <=> HardMasked(p, w, s, n)
                             /\ VirtMasked(w, t, n) <=> VirtMasked(w, s, n)
  BY <1>3 DEF HardMasked, VirtMasked
<1>5. Len(s) \in 1 .. Len(s) /\ Len(t) + 1 = Len(s)
  BY <1>1, <1>2
<1>6. ASSUME NEW n \in 1 .. Len(t) PROVE SectionRight(p, w, t, n)
  <2>1. SectionRight(p, w, s, n) /\ n \in 1 .. Len(s) /\ t[n] = s[n] /\ n # Len(s)
    BY <1>1, <1>2 DEF SectionsRight
  <2>. QED
    BY <2>1, <1>4 DEF SectionRight
<1>7. SectionsRight(p, w, t)
  BY <1>2, <1>6 DEF SectionsRight
<1>8. \A K : Within(s, Len(s) + 1, K) <=> Within(s, Len(s), K) \/ s[Len(s)].kind \in K
  BY <1>1 DEF Within
<1>9. /\ HardMasked(p, w, s, Len(s) + 1) <=>
           \/ HardMasked(p, w, s, Len(s))
           \/ s[Len(s)].kind \in IF p THEN HardKinds ELSE Kinds
      /\ VirtMasked(w, s, Len(s) + 1) <=>
           VirtMasked(w, s, Len(s)) \/ s[Len(s)].kind \in VirtKinds
  BY <1>8 DEF HardMasked, VirtMasked
<1>10. SectionRight(p, w, s, Len(s)) /\ s[Len(s)] \in SectionType
  BY <1>1, <1>5 DEF SectionsRight
<1>. QED
  BY <1>4, <1>5, <1>7, <1>9, <1>10 DEF t

(* A context that executes opens or closes a section: the invariant holds  *)
(* if the state it is left with is that of its sections.                   *)
LEMMA SectionStep ==
  ASSUME PipeIInv, NEW w \in Contexts, Executes(w), Inband(w),
         NEW t, SectionsRight(pipelined, w, t),
         UNCHANGED <<pipelined, handler, oob>>,
         sections' = [sections EXCEPT ![w] = t],
         csr_status' \in SUBSET Bits, stalled' \in BOOLEAN,
         pipelined => (stalled' <=> VirtMasked(w, t, Len(t) + 1)),
         \/ /\ core' = core
            /\ SR_IE \notin csr_status' <=> HardMasked(pipelined, w, t, Len(t) + 1)
         \/ \E st \in SUBSET Bits :
              /\ core' = [core EXCEPT ![w] = [busy |-> "sync", status |-> st,
                                              switch |-> FALSE]]
              /\ pipelined /\ SR_IE \notin csr_status'
              /\ SR_IE \in st <=> ~HardMasked(pipelined, w, t, Len(t) + 1)
  PROVE  PipeIInv'
<1>1. /\ Top = w /\ ~oob /\ core[w].busy = "no" /\ w = TopInband
      /\ w \in {"task", "handler"} /\ w # "oob" /\ Top' = w /\ TopInband' = w
  BY DEF PipeIInv, PipeTypeOK, Executes, Top, Inband, TopInband
<1>2. PipeTypeOK /\ StackRight
      /\ \A u \in Contexts : SectionsRight(pipelined, u, sections[u]) /\ CoreRight(u)
  BY DEF PipeIInv
<1>3. t \in Seq(SectionType)
  BY DEF SectionsRight
<1>4. sections' \in [Contexts -> Seq(SectionType)] /\ sections'[w] = t
      /\ \A u \in Contexts : u # w => sections'[u] = sections[u]
  BY <1>2, <1>3 DEF PipeTypeOK
<1>. DEFINE AtRest == /\ core'[w].busy = "no" /\ ~core'[w].switch
                      /\ SR_IE \notin csr_status' <=> HardOff(w)'
            Syncing == /\ core'[w].busy = "sync" /\ ~core'[w].switch /\ pipelined
                       /\ SR_IE \notin csr_status'
                       /\ SR_IE \in core'[w].status <=> ~HardOff(w)'
<1>5. /\ core' \in [Contexts -> CoreType]
      /\ \A u \in Contexts : u # w => core'[u] = core[u]
      /\ AtRest \/ Syncing
  <2>1. HardOff(w)' <=> HardMasked(pipelined, w, t, Len(t) + 1)
    BY <1>4 DEF HardOff
  <2>2. CASE core' = core
    <3>1. ~core[w].switch /\ core \in [Contexts -> CoreType]
      BY <1>1, <1>2 DEF CoreRight, CoreType, PipeTypeOK
    <3>2. SR_IE \notin csr_status' <=> HardOff(w)'
      BY <2>1, <2>2, <1>1, <1>2 DEF PipeTypeOK, CoreType
    <3>. QED
      BY <1>1, <2>2, <3>1, <3>2
  <2>3. ASSUME NEW st \in SUBSET Bits,
               core' = [core EXCEPT ![w] = [busy |-> "sync", status |-> st,
                                            switch |-> FALSE]],
               pipelined, SR_IE \notin csr_status',
               SR_IE \in st <=> ~HardMasked(pipelined, w, t, Len(t) + 1)
        PROVE  /\ core' \in [Contexts -> CoreType]
               /\ \A u \in Contexts : u # w => core'[u] = core[u]
               /\ Syncing
    BY <1>2, <2>1, <2>3 DEF PipeTypeOK, CoreType
  <2>. QED
    BY <2>2, <2>3
<1>6. \A u \in Contexts : u # w =>
        /\ HardOff(u)' <=> HardOff(u)
        /\ VirtOff(u)' <=> VirtOff(u)
        /\ CoreRight(u)'
  BY <1>2, <1>4, <1>5 DEF HardOff, VirtOff, CoreRight
<1>7. CoreRight(w)'
  BY <1>1, <1>5 DEF CoreRight
<1>8. StackRight'
  <2>1. w = "handler" => (VirtOff("task")' <=> VirtOff("task"))
    BY <1>6 DEF Contexts
  <2>. QED
    BY <1>1, <1>2, <1>4, <1>5, <2>1 DEF StackRight, TopInband, Contexts
<1>9. CsrRight'
  BY <1>1, <1>5 DEF CsrRight
<1>10. StallRight'
  BY <1>1, <1>4 DEF StallRight, VirtOff
<1>11. PipeTypeOK'
  BY <1>2, <1>4, <1>5 DEF PipeTypeOK
<1>12. ASSUME NEW u \in Contexts PROVE SectionsRight(pipelined, u, sections[u])'
  BY <1>2, <1>4 DEF SectionsRight, SectionRight, HardMasked, VirtMasked
<1>. QED
  BY <1>6, <1>7, <1>8, <1>9, <1>10, <1>11, <1>12 DEF PipeIInv

\* What a context that executes finds, and the flags it may save.
LEMMA ExecutingState ==
  ASSUME PipeIInv, NEW w \in Contexts, Executes(w)
  PROVE  /\ SectionsRight(pipelined, w, sections[w])
         /\ pipelined \in BOOLEAN /\ stalled \in BOOLEAN /\ csr_status \in SUBSET Bits
         /\ SR_IE \notin csr_status <=> HardOff(w)
         /\ Inband(w) /\ pipelined => (stalled <=> VirtOff(w))
         /\ sections[w] # << >> =>
              /\ Inband(w)
              /\ Len(sections[w]) \in 1 .. Len(sections[w])
              /\ Last(w) \in SectionType
<1>1. Top = w /\ core[w].busy = "no"
  BY DEF Executes
<1>2. Inband(w) => TopInband = w
  BY <1>1 DEF Inband, TopInband, Top
<1>3. sections[w] # << >> => Inband(w)
  BY DEF PipeIInv, StackRight, Inband, Contexts
<1>4. sections[w] \in Seq(SectionType)
  BY DEF PipeIInv, PipeTypeOK
<1>5. sections[w] # << >> => /\ Len(sections[w]) \in 1 .. Len(sections[w])
                             /\ Last(w) \in SectionType
  BY <1>4, EmptySeq, ElementOfSeq DEF Last
<1>. QED
  BY <1>1, <1>2, <1>3, <1>5 DEF PipeIInv, PipeTypeOK, CsrRight, StallRight

LEMMA OpenStep ==
  ASSUME PipeIInv, NEW w \in Contexts, Executes(w),
         NEW kind \in Kinds, kind # "sync", NEW flags \in SUBSET Bits,
         Open(w, kind, flags),
         csr_status' \in SUBSET Bits, stalled' \in BOOLEAN,
         SR_IE \notin csr_status' <=>
           HardOff(w) \/ kind \in IF pipelined THEN HardKinds ELSE Kinds,
         pipelined => (stalled' <=> VirtOff(w) \/ kind \in VirtKinds),
         kind = "hard" \/ (~pipelined /\ kind \in {"virt", "stage"}) =>
           (SR_IE \in flags <=> ~HardOff(w)),
         kind \in {"hardoff", "off"} => ~HardOff(w),
         pipelined /\ kind = "off" => ~VirtOff(w),
         pipelined /\ kind \in {"virt", "stage"} => (SR_IE \in flags <=> ~VirtOff(w)),
         pipelined /\ kind = "stage" =>
           (IRQMASK_i \in flags <=> HardOff(w)) /\ SR_PIE \notin flags
  PROVE  PipeIInv'
<1>. DEFINE s == sections[w]
            e == [kind |-> kind, flags |-> flags]
            t == Append(s, e)
<1>1. /\ Inband(w) /\ ~Closes(w, "sync")
      /\ sections' = [sections EXCEPT ![w] = t]
      /\ UNCHANGED <<pipelined, handler, oob, core>>
  BY DEF Open
<1>2. SectionsRight(pipelined, w, s) /\ pipelined \in BOOLEAN /\ e \in SectionType
      /\ (Len(s) > 0 => s # << >>) /\ Len(s) \in Nat
  <2>1. SectionsRight(pipelined, w, s) /\ pipelined \in BOOLEAN
    BY ExecutingState
  <2>2. s \in Seq(SectionType) /\ e \in SectionType
    BY <2>1 DEF SectionType, SectionsRight
  <2>. HIDE DEF s, e
  <2>. QED
    BY <2>1, <2>2, EmptySeq
<1>3. \A n \in 1 .. Len(s) : s[n].kind # "sync"
  BY <1>1, <1>2 DEF Closes, Last, SectionsRight, SectionRight
<1>. HIDE DEF s, e
<1>4. /\ Len(t) = Len(s) + 1 /\ t[Len(t)] = e
      /\ HardMasked(pipelined, w, t, Len(t)) <=> HardMasked(pipelined, w, s, Len(s) + 1)
      /\ VirtMasked(w, t, Len(t)) <=> VirtMasked(w, s, Len(s) + 1)
      /\ HardMasked(pipelined, w, t, Len(t) + 1) <=>
           \/ HardMasked(pipelined, w, t, Len(t))
           \/ e.kind \in IF pipelined THEN HardKinds ELSE Kinds
      /\ VirtMasked(w, t, Len(t) + 1) <=>
           VirtMasked(w, t, Len(t)) \/ e.kind \in VirtKinds
      /\ SectionRight(pipelined, w, t, Len(t)) => SectionsRight(pipelined, w, t)
  BY <1>2, <1>3, PushSection
<1>5. /\ HardOff(w) <=> HardMasked(pipelined, w, t, Len(t))
      /\ VirtOff(w) <=> VirtMasked(w, t, Len(t))
      /\ e.kind = kind /\ e.flags = flags
  BY <1>4 DEF HardOff, VirtOff, s, e
<1>. HIDE DEF t
<1>6. SectionRight(pipelined, w, t, Len(t))
  BY <1>4, <1>5 DEF SectionRight
<1>. QED
  BY <1>1, <1>4, <1>5, <1>6, SectionStep

LEMMA CloseStep ==
  ASSUME PipeIInv, NEW w \in Contexts, Executes(w), sections[w] # << >>,
         Last(w).kind # "sync", Close(w),
         csr_status' \in SUBSET Bits, stalled' \in BOOLEAN,
         pipelined =>
           (stalled' <=> VirtMasked(w, sections[w], Len(sections[w]))),
         \/ /\ core' = core
            /\ SR_IE \notin csr_status' <=>
                 HardMasked(pipelined, w, sections[w], Len(sections[w]))
         \/ \E st \in SUBSET Bits :
              /\ core' = [core EXCEPT ![w] = [busy |-> "sync", status |-> st,
                                              switch |-> FALSE]]
              /\ pipelined /\ SR_IE \notin csr_status'
              /\ SR_IE \in st <=>
                   ~HardMasked(pipelined, w, sections[w], Len(sections[w]))
  PROVE  PipeIInv'
<1>. DEFINE s == sections[w]
            t == SubSeq(s, 1, Len(s) - 1)
<1>1. /\ Inband(w) /\ SectionsRight(pipelined, w, s) /\ pipelined \in BOOLEAN
      /\ sections' = [sections EXCEPT ![w] = t]
      /\ UNCHANGED <<pipelined, handler, oob>>
  BY ExecutingState DEF Close, PipeIInv, PipeTypeOK
<1>2. /\ SectionsRight(pipelined, w, t)
      /\ HardMasked(pipelined, w, t, Len(t) + 1) <=> HardMasked(pipelined, w, s, Len(s))
      /\ VirtMasked(w, t, Len(t) + 1) <=> VirtMasked(w, s, Len(s))
  BY <1>1, PopSection
<1>. HIDE DEF t
<1>. QED
  BY <1>1, <1>2, SectionStep

(* What the flags of the section that ends say.                            *)
LEMMA ClosingState ==
  ASSUME PipeIInv, NEW w \in Contexts, Executes(w), sections[w] # << >>
  PROVE  LET s == sections[w]
             hard == HardMasked(pipelined, w, s, Len(s))
             virt == VirtMasked(w, s, Len(s))
         IN  /\ SectionRight(pipelined, w, s, Len(s))
             /\ Last(w) = s[Len(s)] /\ Last(w) \in SectionType
             /\ HardOff(w) <=>
                  hard \/ Last(w).kind \in IF pipelined THEN HardKinds ELSE Kinds
             /\ VirtOff(w) <=> virt \/ Last(w).kind \in VirtKinds
BY ExecutingState, PopSection DEF HardOff, VirtOff, Last

(* hard_local_irq_sync() lets interrupts in for a while, in the last       *)
(* section, and masks them again.                                          *)
LEMMA SyncKeeps ==
  ASSUME PipeIInv, NEW w \in Contexts, SyncOpen(w) \/ SyncClose(w)
  PROVE  PipeIInv'
<1>. DEFINE s == sections[w]
            k == Len(s)
            from == IF SyncOpen(w) THEN "hardoff" ELSE "sync"
            to == IF SyncOpen(w) THEN "sync" ELSE "hardoff"
            t == [s EXCEPT ![k].kind = to]
<1>1. /\ Executes(w) /\ s # << >> /\ Last(w).kind = from
      /\ sections' = [sections EXCEPT ![w] = t]
      /\ UNCHANGED <<pipelined, stalled, handler, oob, core>>
      /\ csr_status' = IF SyncOpen(w) THEN native_irq_enable ELSE native_irq_disable
  <2>1. CASE SyncOpen(w)
    BY <2>1 DEF SyncOpen, SetLast, Closes, PipeIInv, PipeTypeOK
  <2>2. CASE ~SyncOpen(w)
    BY <2>2 DEF SyncClose, SetLast, Closes, PipeIInv, PipeTypeOK
  <2>. QED
    BY <2>1, <2>2
<1>2. /\ SectionRight(pipelined, w, s, k) /\ SectionsRight(pipelined, w, s)
      /\ pipelined /\ ~HardMasked(pipelined, w, s, k)
      /\ stalled <=> VirtMasked(w, s, k)
      /\ k \in 1 .. k /\ s[k].kind = from /\ s[k] \in SectionType
      /\ csr_status \in SUBSET Bits /\ stalled \in BOOLEAN
  BY <1>1, ClosingState, ExecutingState DEF SectionRight, SyncOpen, VirtKinds
<1>3. /\ t \in Seq(SectionType) /\ Len(t) = k /\ t[k].kind = to /\ k \in Nat
      /\ \A n \in 1 .. k : n # k => t[n] = s[n]
  <2>1. s \in Seq(SectionType) /\ [s[k] EXCEPT !.kind = to] \in SectionType
    BY <1>2 DEF SectionsRight, SectionType, Kinds, HardKinds, VirtKinds
  <2>2. t = [s EXCEPT ![k] = [s[k] EXCEPT !.kind = to]]
    BY DEF t
  <2>. HIDE DEF s, t, to
  <2>3. [s[k] EXCEPT !.kind = to].kind = to
    BY <1>2 DEF SectionType
  <2>. QED
    BY <1>2, <2>1, <2>2, <2>3, ExceptSeq
<1>4. \A n \in 1 .. k : /\ HardMasked(pipelined, w, t, n) <=> HardMasked(pipelined, w, s, n)
                        /\ VirtMasked(w, t, n) <=> VirtMasked(w, s, n)
  <2>. HIDE DEF s, t
  <2>1. \A n \in 1 .. k : \A K : Within(t, n, K) <=> Within(s, n, K)
    BY <1>3 DEF Within
  <2>. QED
    BY <2>1 DEF HardMasked, VirtMasked
<1>5. ASSUME NEW n \in 1 .. Len(t) PROVE SectionRight(pipelined, w, t, n)
  <2>1. SectionRight(pipelined, w, s, n) /\ n \in 1 .. k
    BY <1>2, <1>3 DEF SectionsRight
  <2>2. CASE n # k
    BY <1>2, <1>3, <1>4, <2>1, <2>2 DEF SectionRight
  <2>3. CASE n = k
    <3>1. to \in {"hardoff", "sync"} /\ ~HardMasked(pipelined, w, t, k)
          /\ pipelined /\ t[k].kind = to /\ k = Len(t)
      BY <1>2, <1>3, <1>4
    <3>. HIDE DEF s, t, to, k
    <3>. QED
      BY <2>3, <3>1 DEF SectionRight
  <2>. QED
    BY <2>2, <2>3
<1>6. /\ SectionsRight(pipelined, w, t)
      /\ HardMasked(pipelined, w, t, Len(t) + 1) <=> to \in HardKinds
      /\ VirtMasked(w, t, Len(t) + 1) <=> VirtMasked(w, s, k)
  <2>. HIDE DEF s, t
  <2>1. \A K : Within(t, Len(t) + 1, K) <=> Within(t, k, K) \/ to \in K
    BY <1>2, <1>3 DEF Within
  <2>. QED
    BY <1>2, <1>3, <1>4, <1>5, <2>1
    DEF SectionsRight, HardMasked, VirtMasked, VirtKinds
<1>7. SR_IE \notin csr_status' <=> to \in HardKinds
  BY <1>1 DEF native_irq_enable, native_irq_disable, HardKinds
<1>8. csr_status' \in SUBSET Bits
  BY <1>1, <1>2 DEF native_irq_enable, native_irq_disable, Bits
<1>. HIDE DEF t, to, s
<1>. QED
  BY <1>1, <1>2, <1>6, <1>7, <1>8, SectionStep, ExecutingState DEF s

LEMMA SectionBeginsKeeps ==
  ASSUME PipeIInv, NEW w \in Contexts, SectionBegins(w) PROVE PipeIInv'
<1>. USE DEF Bits, VirtKinds, HardKinds
<1>1. CASE arch_local_irq_save(w)
  <2>1. Executes(w) /\ Open(w, "virt", arch_local_save_flags) /\ MaskInband
    BY <1>1 DEF arch_local_irq_save
  <2>2. Inband(w) /\ UNCHANGED pipelined
    BY <2>1 DEF Open
  <2>. QED
    BY <2>1, <2>2, ExecutingState, OpenStep
    DEF MaskInband, arch_local_save_flags, arch_irqs_virtual_to_native_flags,
        native_irq_disable, Kinds
<1>2. CASE arch_local_irq_disable(w)
  <2>1. Executes(w) /\ Open(w, "off", {}) /\ MaskInband /\ Inband(w)
    BY <1>2 DEF arch_local_irq_disable, Open
  <2>2. SR_IE \in csr_status /\ (pipelined => ~stalled)
    BY <1>2 DEF arch_local_irq_disable, arch_irqs_disabled, native_irqs_disabled,
       arch_irqs_disabled_flags, native_irqs_disabled_flags, arch_local_save_flags,
       arch_irqs_virtual_to_native_flags
  <2>. QED
    BY <2>1, <2>2, ExecutingState, OpenStep DEF MaskInband, native_irq_disable, Kinds
<1>3. CASE hard_local_irq_save(w)
  <2>1. Executes(w) /\ Open(w, "hard", csr_status) /\ Inband(w)
        /\ csr_status' = native_irq_disable /\ UNCHANGED stalled
    BY <1>3 DEF hard_local_irq_save, Open
  <2>. QED
    BY <2>1, ExecutingState, OpenStep DEF native_irq_disable, Kinds
<1>4. CASE hard_local_irq_disable(w)
  <2>1. Executes(w) /\ Open(w, "hardoff", {}) /\ Inband(w)
        /\ csr_status' = native_irq_disable /\ UNCHANGED stalled
        /\ SR_IE \in csr_status
    BY <1>4 DEF hard_local_irq_disable, Open, native_irqs_disabled,
       native_irqs_disabled_flags
  <2>. QED
    BY <2>1, ExecutingState, OpenStep DEF native_irq_disable, Kinds
<1>5. CASE test_and_lock_stage(w)
  <2>. DEFINE flags == IF pipelined THEN irqs_merge_flags(csr_status, stalled)
                       ELSE csr_status
  <2>1. Executes(w) /\ Open(w, "stage", flags) /\ Inband(w)
        /\ csr_status' = native_irq_disable /\ stalled' = (stalled \/ pipelined)
    BY <1>5 DEF test_and_lock_stage, Open
  <2>2. /\ flags \in SUBSET Bits
        /\ ~pipelined => flags = csr_status
        /\ pipelined => /\ SR_IE \in flags <=> ~stalled
                        /\ IRQMASK_i \in flags <=> SR_IE \notin csr_status
                        /\ SR_PIE \notin flags
    BY <2>1, ExecutingState
    DEF irqs_merge_flags, arch_irqs_virtual_to_native_flags,
        arch_irqs_native_to_virtual_flags, SR_IE, SR_PIE, IRQMASK_i
  <2>. HIDE DEF flags
  <2>. QED
    BY <2>1, <2>2, ExecutingState, OpenStep DEF native_irq_disable, Kinds
<1>6. CASE SyncOpen(w)
  BY <1>6, SyncKeeps
<1>. QED
  BY <1>1, <1>2, <1>3, <1>4, <1>5, <1>6 DEF SectionBegins

LEMMA SectionEndsKeeps ==
  ASSUME PipeIInv, NEW w \in Contexts, SectionEnds(w) PROVE PipeIInv'
<1>. USE DEF Bits, VirtKinds, HardKinds
<1>. DEFINE s == sections[w]
            hard == HardMasked(pipelined, w, s, Len(s))
            virt == VirtMasked(w, s, Len(s))
<1>1. CASE arch_local_irq_restore(w)
  <2>1. Executes(w) /\ Close(w) /\ s # << >> /\ Last(w).kind = "virt"
    BY <1>1 DEF arch_local_irq_restore, Closes
  <2>2. /\ ~pipelined => (SR_IE \in Last(w).flags <=> ~hard)
        /\ pipelined => /\ SR_IE \in Last(w).flags <=> ~virt
                        /\ SR_IE \notin csr_status <=> hard
        /\ ~pipelined => SR_IE \notin csr_status
        /\ Last(w).flags \in SUBSET Bits
    BY <2>1, ClosingState, ExecutingState DEF SectionRight, SectionType, Kinds
  <2>3. CASE ~pipelined
    BY <1>1, <2>1, <2>2, <2>3, ExecutingState, CloseStep
    DEF arch_local_irq_restore, native_irq_restore
  <2>4. CASE pipelined /\ SR_IE \notin Last(w).flags
    BY <1>1, <2>1, <2>2, <2>4, ExecutingState, CloseStep
    DEF arch_local_irq_restore, arch_irqs_disabled_flags, native_irqs_disabled_flags
  <2>5. CASE pipelined /\ SR_IE \in Last(w).flags
    BY <1>1, <2>1, <2>2, <2>5, ExecutingState, CloseStep
    DEF arch_local_irq_restore, arch_irqs_disabled_flags, native_irqs_disabled_flags,
        inband_irq_enable, native_irq_disable
  <2>. QED
    BY <2>3, <2>4, <2>5
<1>2. CASE arch_local_irq_enable(w)
  <2>1. Executes(w) /\ Close(w) /\ s # << >> /\ Last(w).kind = "off" /\ UnmaskInband(w)
    BY <1>2 DEF arch_local_irq_enable, Closes
  <2>2. /\ ~hard /\ (pipelined => ~virt)
        /\ pipelined => (SR_IE \notin csr_status <=> hard)
        /\ ~pipelined => SR_IE \notin csr_status
    BY <2>1, ClosingState, ExecutingState DEF SectionRight, SectionType, Kinds
  <2>. QED
    BY <2>1, <2>2, ExecutingState, CloseStep
    DEF UnmaskInband, inband_irq_enable, native_irq_disable, native_irq_enable
<1>3. CASE hard_local_irq_restore(w)
  <2>1. Executes(w) /\ Close(w) /\ s # << >> /\ Last(w).kind = "hard"
        /\ csr_status' = native_irq_restore(Last(w).flags) /\ UNCHANGED <<stalled, core>>
    BY <1>3 DEF hard_local_irq_restore, Closes
  <2>2. /\ SR_IE \in Last(w).flags <=> ~hard
        /\ pipelined => (stalled <=> virt)
        /\ SR_IE \notin csr_status /\ Last(w).flags \in SUBSET Bits
    BY <2>1, ClosingState, ExecutingState DEF SectionRight, SectionType, Kinds
  <2>. QED
    BY <2>1, <2>2, ExecutingState, CloseStep DEF native_irq_restore
<1>4. CASE hard_local_irq_enable(w)
  <2>1. Executes(w) /\ Close(w) /\ s # << >> /\ Last(w).kind = "hardoff"
        /\ csr_status' = native_irq_enable /\ UNCHANGED <<stalled, core>>
    BY <1>4 DEF hard_local_irq_enable, Closes
  <2>2. ~hard /\ (pipelined => (stalled <=> virt))
    BY <2>1, ClosingState, ExecutingState DEF SectionRight, SectionType, Kinds
  <2>. QED
    BY <2>1, <2>2, ExecutingState, CloseStep DEF native_irq_enable
<1>5. CASE unlock_stage(w)
  <2>1. /\ Executes(w) /\ Close(w) /\ s # << >> /\ Last(w).kind = "stage"
        /\ stalled' = (pipelined /\ SplitStall(Last(w).flags))
        /\ csr_status' = native_irq_restore(IF pipelined
                                            THEN irqs_split_flags(Last(w).flags)
                                            ELSE Last(w).flags)
        /\ UNCHANGED core
    BY <1>5 DEF unlock_stage, Closes
  <2>2. /\ ~pipelined => (SR_IE \in Last(w).flags <=> ~hard)
        /\ pipelined => /\ SR_IE \in Last(w).flags <=> ~virt
                        /\ IRQMASK_i \in Last(w).flags <=> hard
                        /\ SR_PIE \notin Last(w).flags
        /\ SR_IE \notin csr_status /\ Last(w).flags \in SUBSET Bits
    BY <2>1, ClosingState, ExecutingState DEF SectionRight, SectionType, Kinds
  <2>3. pipelined => /\ SplitStall(Last(w).flags) <=> virt
                     /\ irqs_split_flags(Last(w).flags) = IF hard THEN {} ELSE {SR_IE}
    <3>1. SUFFICES ASSUME pipelined
                   PROVE  /\ SplitStall(Last(w).flags) <=> virt
                          /\ Last(w).flags \ arch_irqs_virtual_to_native_flags(
                               SplitStall(Last(w).flags))
                             = IF hard THEN {IRQMASK_i} ELSE {}
      BY DEF irqs_split_flags, arch_irqs_virtual_to_native_flags
    <3>. QED
      BY <3>1, <2>2 DEF SplitStall, native_irqs_disabled_flags, SR_IE, SR_PIE,
         arch_irqs_virtual_to_native_flags, IRQMASK_i
  <2>4. SplitStall(Last(w).flags) \in BOOLEAN
    BY DEF SplitStall, native_irqs_disabled_flags
  <2>. QED
    BY <2>1, <2>2, <2>3, <2>4, ExecutingState, CloseStep DEF native_irq_restore
<1>. QED
  BY <1>1, <1>2, <1>3, <1>4, <1>5 DEF SectionEnds

(* Where no section begins or ends, what they mask stays.                  *)
LEMMA SameSections ==
  ASSUME PipeIInv, UNCHANGED <<pipelined, sections>>
  PROVE  /\ \A w \in Contexts : /\ SectionsRight(pipelined, w, sections[w])'
                                /\ HardOff(w)' <=> HardOff(w)
                                /\ VirtOff(w)' <=> VirtOff(w)
         /\ PipeTypeOK /\ StackRight /\ CsrRight /\ StallRight
         /\ \A w \in Contexts : CoreRight(w)
<1>1. \A w \in Contexts : SectionsRight(pipelined, w, sections[w]) /\ CoreRight(w)
  BY DEF PipeIInv
<1>2. \A w \in Contexts : SectionsRight(pipelined, w, sections[w])'
  BY <1>1 DEF SectionsRight, SectionRight, HardMasked, VirtMasked
<1>. QED
  BY <1>1, <1>2 DEF PipeIInv, HardOff, VirtOff

(* An interrupt is taken where no section masks the hardware.              *)
LEMMA TrapKeeps ==
  ASSUME PipeIInv, NEW w \in Contexts, NEW i \in Lines,
         arch_handle_irq_pipelined(w, i)
  PROVE  /\ PipeIInv'
         /\ SR_PIE \in TrapStatus
         /\ ~pipelined => w = "task" /\ handler = {}
<1>1. /\ Executes(w) /\ SR_IE \in csr_status /\ csr_status' = TrapStatus
      /\ core' = [core EXCEPT ![w] = [busy |-> "trap", status |-> TrapStatus,
                                      switch |-> pipelined /\ i \in OobIrqs]]
      /\ IF pipelined THEN UNCHANGED handler ELSE handler' = {i}
      /\ UNCHANGED <<pipelined, stalled, oob, sections>>
  BY DEF arch_handle_irq_pipelined
<1>2. SR_PIE \in TrapStatus /\ SR_IE \notin TrapStatus /\ TrapStatus \in SUBSET Bits
  BY <1>1, ExecutingState DEF TrapStatus, SR_IE, SR_PIE, Bits
<1>3. ~HardOff(w)
  BY <1>1, ExecutingState
<1>4. /\ \A u \in Contexts : /\ SectionsRight(pipelined, u, sections[u])'
                             /\ HardOff(u)' <=> HardOff(u)
                             /\ VirtOff(u)' <=> VirtOff(u)
      /\ PipeTypeOK /\ StackRight /\ CsrRight /\ StallRight
      /\ \A u \in Contexts : CoreRight(u)
  BY <1>1, SameSections
<1>5. ~pipelined => w = "task" /\ handler = {} /\ ~oob
  BY <1>1, <1>3, <1>4 DEF HardOff, HardMasked, StackRight, Executes, Top
<1>6. Top = w /\ core[w].busy = "no"
  BY <1>1 DEF Executes
<1>7. PipeTypeOK'
  BY <1>1, <1>2, <1>4 DEF PipeTypeOK, CoreType
<1>8. /\ core'[w].busy = "trap" /\ core'[w].status = TrapStatus
      /\ core'[w].switch = (pipelined /\ i \in OobIrqs)
      /\ \A u \in Contexts : u # w => core'[u] = core[u]
  BY <1>1, <1>4 DEF PipeTypeOK
<1>9. ASSUME NEW u \in Contexts PROVE CoreRight(u)'
  <2>1. CASE u = w
    BY <1>1, <1>2, <1>3, <1>4, <1>8, <2>1 DEF CoreRight
  <2>2. CASE u # w
    BY <1>1, <1>4, <1>8, <2>2 DEF CoreRight
  <2>. QED
    BY <2>1, <2>2
<1>10. CASE pipelined
  <2>1. Top' = w /\ TopInband' = TopInband /\ handler' = handler
    BY <1>1, <1>6, <1>10 DEF Top, TopInband
  <2>2. StackRight'
    BY <1>1, <1>4, <1>6, <1>8, <1>10, <2>1 DEF StackRight, Top, TopInband, Contexts
  <2>3. CsrRight'
    BY <1>1, <1>2, <1>8, <2>1 DEF CsrRight
  <2>4. StallRight'
    BY <1>1, <1>4, <2>1 DEF StallRight, TopInband, Contexts
  <2>. QED
    BY <1>2, <1>4, <1>7, <1>9, <1>10, <2>2, <2>3, <2>4 DEF PipeIInv
<1>11. CASE ~pipelined
  <2>1. w = "task" /\ handler = {} /\ handler' = {i} /\ Top' = "handler" /\ ~oob
    BY <1>1, <1>5, <1>11 DEF Top
  <2>2. StackRight'
    BY <1>1, <1>4, <1>8, <1>11, <2>1 DEF StackRight, Contexts
  <2>3. CsrRight'
    BY <1>1, <1>2, <1>8, <1>11, <2>1 DEF CsrRight, HardOff, HardMasked
  <2>4. StallRight'
    BY <1>1, <1>11 DEF StallRight
  <2>. QED
    BY <1>2, <1>4, <1>5, <1>7, <1>9, <2>2, <2>3, <2>4 DEF PipeIInv
<1>. QED
  BY <1>10, <1>11

(* The core plays the log over the task only: a handler runs stalled.      *)
LEMMA PlayKeeps ==
  ASSUME PipeIInv, NEW w \in Contexts, NEW i \in Lines, PlayLog(w, i)
  PROVE  PipeIInv' /\ pipelined /\ ~stalled /\ handler = {} /\ w = "task"
<1>1. /\ InCore(w) /\ pipelined /\ Inband(w) /\ ~stalled
      /\ stalled' = TRUE /\ handler' = {i} /\ csr_status' = native_irq_enable
      /\ UNCHANGED <<pipelined, oob, core, sections>>
  BY DEF PlayLog, MustSync
<1>2. /\ \A u \in Contexts : /\ SectionsRight(pipelined, u, sections[u])'
                             /\ HardOff(u)' <=> HardOff(u)
                             /\ VirtOff(u)' <=> VirtOff(u)
      /\ PipeTypeOK /\ StackRight /\ CsrRight /\ StallRight
      /\ \A u \in Contexts : CoreRight(u)
  BY <1>1, SameSections
<1>3. /\ w = "task" /\ handler = {} /\ ~oob /\ core["task"].busy # "no"
      /\ ~VirtOff("task")
  BY <1>1, <1>2 DEF InCore, Inband, Top, StallRight, TopInband, VirtOff, VirtMasked
<1>4. Top' = "handler" /\ TopInband' = "handler" /\ core["handler"].busy = "no"
      /\ sections["handler"] = << >> /\ "task" \in Contexts /\ "handler" \in Contexts
  BY <1>1, <1>2, <1>3 DEF Top, TopInband, StackRight, Contexts
<1>5. ~HardOff("handler") /\ VirtOff("handler")
  BY <1>1, <1>4 DEF HardOff, HardMasked, Within, VirtOff, VirtMasked
<1>6. PipeTypeOK'
  BY <1>1, <1>2 DEF PipeTypeOK, native_irq_enable, Bits
<1>7. \A u \in Contexts : CoreRight(u)'
  BY <1>1, <1>2 DEF CoreRight
<1>8. StackRight'
  BY <1>1, <1>2, <1>3, <1>4 DEF StackRight
<1>9. CsrRight' /\ StallRight'
  BY <1>1, <1>2, <1>4, <1>5 DEF CsrRight, StallRight, native_irq_enable
<1>. QED
  BY <1>1, <1>2, <1>3, <1>6, <1>7, <1>8, <1>9 DEF PipeIInv

(* The context the core returns to finds the hardware as it left it.       *)
LEMMA ReturnKeeps ==
  ASSUME PipeIInv, NEW w \in Contexts, CoreReturns(w) PROVE PipeIInv'
<1>1. /\ InCore(w) /\ ~core[w].switch
      /\ csr_status' = IF core[w].busy = "trap" THEN SretStatus(core[w].status)
                       ELSE native_irq_restore(core[w].status)
      /\ core' = [core EXCEPT ![w] = NoCore]
      /\ UNCHANGED <<pipelined, stalled, handler, oob, sections>>
  BY DEF CoreReturns
<1>2. /\ \A u \in Contexts : /\ SectionsRight(pipelined, u, sections[u])'
                             /\ HardOff(u)' <=> HardOff(u)
                             /\ VirtOff(u)' <=> VirtOff(u)
      /\ PipeTypeOK /\ StackRight /\ CsrRight /\ StallRight
      /\ \A u \in Contexts : CoreRight(u)
  BY <1>1, SameSections
<1>3. Top = w /\ Top' = w /\ TopInband' = TopInband /\ core[w].busy # "no"
      /\ SR_IE \notin csr_status /\ core[w] \in CoreType
  BY <1>1, <1>2 DEF InCore, Top, TopInband, CsrRight, PipeTypeOK
<1>4. SR_IE \notin csr_status' <=> HardOff(w)
  BY <1>1, <1>2, <1>3
  DEF CoreRight, CoreType, SretStatus, native_irq_restore, SR_IE, SR_PIE
<1>5. /\ core'[w] = NoCore /\ core' \in [Contexts -> CoreType]
      /\ \A u \in Contexts : u # w => core'[u] = core[u]
      /\ csr_status' \in SUBSET Bits
  BY <1>1, <1>2, <1>3
  DEF PipeTypeOK, NoCore, CoreType, SretStatus, native_irq_restore, Bits
<1>6. ASSUME NEW u \in Contexts PROVE CoreRight(u)'
  BY <1>1, <1>2, <1>5 DEF CoreRight, NoCore
<1>7. StackRight'
  BY <1>1, <1>2, <1>3, <1>5 DEF StackRight, Top, TopInband, Contexts, NoCore
<1>8. CsrRight' /\ StallRight'
  BY <1>1, <1>2, <1>3, <1>4, <1>5 DEF CsrRight, StallRight, NoCore, TopInband, Contexts
<1>. QED
  BY <1>1, <1>2, <1>5, <1>6, <1>7, <1>8 DEF PipeIInv, PipeTypeOK

LEMMA OobKeeps ==
  ASSUME PipeIInv, (\E w \in Contexts : SwitchOob(w)) \/ LeaveOob
  PROVE  PipeIInv'
<1>1. UNCHANGED <<pipelined, stalled, handler, sections>>
  BY DEF SwitchOob, LeaveOob
<1>2. /\ \A u \in Contexts : /\ SectionsRight(pipelined, u, sections[u])'
                             /\ HardOff(u)' <=> HardOff(u)
                             /\ VirtOff(u)' <=> VirtOff(u)
      /\ PipeTypeOK /\ StackRight /\ CsrRight /\ StallRight
      /\ \A u \in Contexts : CoreRight(u)
  BY <1>1, SameSections
<1>3. TopInband' = TopInband /\ TopInband \in Contexts /\ TopInband # "oob"
      /\ (~oob => Top = TopInband) /\ (~oob' => Top' = TopInband)
      /\ (oob => Top = "oob") /\ (oob' => Top' = "oob") /\ "oob" \in Contexts
  BY <1>1 DEF TopInband, Top, Contexts
<1>4. StallRight'
  BY <1>1, <1>2, <1>3 DEF StallRight
<1>5. ASSUME NEW w \in Contexts, SwitchOob(w) PROVE PipeIInv'
  <2>1. /\ InCore(w) /\ core[w].switch /\ core' = [core EXCEPT ![w].switch = FALSE]
        /\ \/ ~oob /\ oob' = TRUE /\ csr_status' = native_irq_enable
           \/ UNCHANGED <<oob, csr_status>>
    BY <1>5 DEF SwitchOob
  <2>2. Top = w /\ core[w].busy # "no" /\ core[w].busy = "trap" /\ pipelined
    BY <2>1, <1>2 DEF InCore, CoreRight
  <2>3. /\ core' \in [Contexts -> CoreType]
        /\ \A u \in Contexts : /\ core'[u].busy = core[u].busy
                               /\ core'[u].status = core[u].status
                               /\ core'[u].switch => core[u].switch
    BY <1>2, <2>1 DEF PipeTypeOK, CoreType
  <2>4. \A u \in Contexts : CoreRight(u)'
    BY <1>1, <1>2, <2>3 DEF CoreRight
  <2>5. StackRight'
    BY <1>1, <1>2, <1>3, <2>1, <2>2, <2>3 DEF StackRight, Contexts
  <2>6. ~HardOff("oob") /\ (~oob => core["oob"].busy = "no")
    BY <1>2, <2>2, EmptySeq DEF HardOff, HardMasked, Within, StackRight
  <2>7. CsrRight'
    <3>1. CASE ~oob /\ oob' = TRUE /\ csr_status' = native_irq_enable
      BY <1>2, <1>3, <2>3, <2>6, <3>1 DEF CsrRight, native_irq_enable
    <3>2. CASE UNCHANGED <<oob, csr_status>>
      <4>1. Top' = Top /\ Top \in Contexts
        BY <1>3, <3>2
      <4>. QED
        BY <1>2, <2>3, <3>2, <4>1 DEF CsrRight
    <3>. QED
      BY <2>1, <3>1, <3>2
  <2>8. PipeTypeOK'
    BY <1>1, <1>2, <2>1, <2>3 DEF PipeTypeOK, native_irq_enable, Bits
  <2>. QED
    BY <1>1, <1>2, <1>4, <2>4, <2>5, <2>7, <2>8 DEF PipeIInv
<1>6. CASE LeaveOob
  <2>1. /\ Executes("oob") /\ oob' = FALSE /\ csr_status' = native_irq_disable
        /\ core' = core
    BY <1>6 DEF LeaveOob
  <2>2. oob /\ core["oob"].busy = "no" /\ core[TopInband].busy # "no"
    BY <1>2, <2>1 DEF Executes, Top, StackRight
  <2>3. \A u \in Contexts : CoreRight(u)'
    BY <1>1, <1>2, <2>1 DEF CoreRight
  <2>4. StackRight'
    BY <1>1, <1>2, <2>1, <2>2 DEF StackRight, Contexts
  <2>5. CsrRight'
    BY <1>3, <2>1, <2>2 DEF CsrRight, native_irq_disable
  <2>6. PipeTypeOK'
    BY <1>1, <1>2, <2>1 DEF PipeTypeOK, native_irq_disable
  <2>. QED
    BY <1>1, <1>2, <1>4, <2>3, <2>4, <2>5, <2>6 DEF PipeIInv
<1>. QED
  BY <1>5, <1>6

(* A handler interrupted a task which had nothing masked.                  *)
LEMMA HandlerReturnKeeps ==
  ASSUME PipeIInv, HandlerReturns
  PROVE  PipeIInv' /\ core["task"].busy # "no" /\ handler # {} /\ handler' = {}
<1>1. /\ Executes("handler") /\ sections["handler"] = << >>
      /\ handler' = {} /\ stalled' = FALSE /\ csr_status' = native_irq_disable
      /\ UNCHANGED <<pipelined, oob, core, sections>>
  BY DEF HandlerReturns
<1>2. /\ \A u \in Contexts : /\ SectionsRight(pipelined, u, sections[u])'
                             /\ HardOff(u)' <=> HardOff(u)
                             /\ VirtOff(u)' <=> VirtOff(u)
      /\ PipeTypeOK /\ StackRight /\ CsrRight /\ StallRight
      /\ \A u \in Contexts : CoreRight(u)
  BY <1>1, SameSections
<1>3. /\ ~oob /\ handler # {} /\ core["handler"].busy = "no"
      /\ core["task"].busy # "no" /\ (pipelined => ~VirtOff("task"))
      /\ Top' = "task" /\ TopInband' = "task" /\ "task" \in Contexts
  BY <1>1, <1>2 DEF Executes, Top, TopInband, StackRight, Contexts
<1>4. PipeTypeOK' /\ \A u \in Contexts : CoreRight(u)'
  BY <1>1, <1>2 DEF PipeTypeOK, native_irq_disable, CoreRight
<1>5. StackRight' /\ CsrRight' /\ StallRight'
  BY <1>1, <1>2, <1>3 DEF StackRight, CsrRight, StallRight, native_irq_disable
<1>. QED
  BY <1>1, <1>2, <1>3, <1>4, <1>5 DEF PipeIInv

LEMMA PipeFrame ==
  ASSUME PipeIInv,
         UNCHANGED <<pipelined, csr_status, stalled, handler, oob, core, sections>>
  PROVE  PipeIInv'
<1>1. /\ \A u \in Contexts : /\ SectionsRight(pipelined, u, sections[u])'
                             /\ HardOff(u)' <=> HardOff(u)
                             /\ VirtOff(u)' <=> VirtOff(u)
      /\ PipeTypeOK /\ StackRight /\ CsrRight /\ StallRight
      /\ \A u \in Contexts : CoreRight(u)
  BY SameSections
<1>2. Top' = Top /\ TopInband' = TopInband /\ Top \in Contexts /\ TopInband \in Contexts
  BY DEF Top, TopInband, Contexts
<1>3. PipeTypeOK' /\ \A u \in Contexts : CoreRight(u)'
  BY <1>1 DEF PipeTypeOK, CoreRight
<1>4. StackRight'
  BY <1>1, <1>2 DEF StackRight, Contexts
<1>5. CsrRight' /\ StallRight'
  BY <1>1, <1>2 DEF CsrRight, StallRight
<1>. QED
  BY <1>1, <1>3, <1>4, <1>5 DEF PipeIInv

LEMMA PipeInit == Init => PipeIInv
<1>. SUFFICES ASSUME Init PROVE PipeIInv
  OBVIOUS
<1>1. /\ pipelined \in BOOLEAN /\ csr_status = {SR_IE, SR_PIE} /\ stalled = FALSE
      /\ handler = {} /\ oob = FALSE /\ core = [w \in Contexts |-> NoCore]
      /\ sections = [w \in Contexts |-> << >>]
  BY DEF Init
<1>2. << >> \in Seq(SectionType) /\ Len(<< >>) = 0
  BY EmptySeq
<1>3. PipeTypeOK
  BY <1>1, <1>2 DEF PipeTypeOK, CoreType, NoCore, Bits
<1>4. ASSUME NEW w \in Contexts
      PROVE  /\ SectionsRight(pipelined, w, sections[w]) /\ CoreRight(w)
             /\ w = "task" => ~HardOff(w) /\ ~VirtOff(w)
  BY <1>1, <1>2, <1>4
  DEF SectionsRight, CoreRight, NoCore, HardOff, VirtOff, HardMasked, VirtMasked, Within
<1>5. Top = "task" /\ TopInband = "task" /\ "task" \in Contexts
  BY <1>1 DEF Top, TopInband, Contexts
<1>6. StackRight
  BY <1>1 DEF StackRight, NoCore, Contexts
<1>7. CsrRight /\ StallRight
  BY <1>1, <1>4, <1>5 DEF CsrRight, StallRight, NoCore
<1>. QED
  BY <1>3, <1>4, <1>6, <1>7 DEF PipeIInv

LEMMA PipeStep == PipeIInv /\ [Next]_vars => PipeIInv'
<1>. SUFFICES ASSUME PipeIInv, [Next]_vars PROVE PipeIInv'
  OBVIOUS
<1>1. CASE (IntcNext /\ UNCHANGED pipeVars) \/ Halt \/ UNCHANGED vars
           \/ \E i \in Lines : Raise(i)
  BY <1>1, PipeFrame DEF pipeVars, Halt, vars, Raise
<1>2. ASSUME NEW w \in Contexts, NEW i \in Lines, arch_handle_irq_pipelined(w, i)
      PROVE  PipeIInv'
  BY <1>2, TrapKeeps
<1>3. ASSUME NEW w \in Contexts, CoreNext(w) PROVE PipeIInv'
  BY <1>3, PlayKeeps, ReturnKeeps, OobKeeps DEF CoreNext
<1>4. ASSUME NEW w \in Contexts, SectionBegins(w) \/ SyncClose(w) \/ SectionEnds(w)
      PROVE  PipeIInv'
  BY <1>4, SectionBeginsKeeps, SectionEndsKeeps, SyncKeeps
<1>5. CASE HandlerReturns \/ LeaveOob
  BY <1>5, HandlerReturnKeeps, OobKeeps
<1>. QED
  BY <1>1, <1>2, <1>3, <1>4, <1>5 DEF Next

(* The inductive invariant of the two interrupt states.                    *)
THEOREM PipelineInvariant == Spec => []PipeIInv
BY PipeInit, PipeStep, PTL DEF Spec

(* However deep critical sections of irq_pipeline.h and irqflags.h nest,   *)
(* in whatever order and interrupted by whatever, a context that executes  *)
(* sees the state its own sections ask for, in either build.               *)
THEOREM StateMatchesSectionsHolds == Spec => []StateMatchesSections
<1>1. PipeIInv => StateMatchesSections
  <2>. SUFFICES ASSUME PipeIInv, NEW w \in Contexts, Executes(w)
                PROVE  /\ pipelined => native_irqs_disabled = Has(w, HardKinds)
                       /\ Inband(w) =>
                            arch_irqs_disabled =
                              \/ w = "handler"
                              \/ Has(w, IF pipelined THEN VirtKinds ELSE Kinds)
    BY DEF StateMatchesSections
  <2>1. /\ native_irqs_disabled <=> HardOff(w)
        /\ Inband(w) /\ pipelined => (stalled <=> VirtOff(w))
    BY ExecutingState DEF native_irqs_disabled, native_irqs_disabled_flags
  <2>2. \A K : Has(w, K) <=> Within(sections[w], Len(sections[w]) + 1, K)
    <3>1. sections[w] \in Seq(SectionType) /\ Len(sections[w]) \in Nat
      BY DEF PipeIInv, PipeTypeOK
    <3>. QED
      BY <3>1 DEF Has, Within
  <2>3. arch_irqs_disabled <=> IF pipelined THEN stalled ELSE native_irqs_disabled
    BY DEF arch_irqs_disabled, arch_irqs_disabled_flags, native_irqs_disabled,
       native_irqs_disabled_flags, arch_local_save_flags,
       arch_irqs_virtual_to_native_flags
  <2>4. native_irqs_disabled \in BOOLEAN /\ arch_irqs_disabled \in BOOLEAN
    BY DEF arch_irqs_disabled, native_irqs_disabled, arch_irqs_disabled_flags,
       native_irqs_disabled_flags
  <2>. QED
    BY <2>1, <2>2, <2>3, <2>4 DEF HardOff, VirtOff, HardMasked, VirtMasked, Has
<1>. QED
  BY <1>1, PipelineInvariant, PTL

-----------------------------------------------------------------------------
(***************************************************************************)
(* The promise of masking.  What in-band code masked is the stall bit, or, *)
(* without the pipeline, the hardware mask of the task.                    *)
(***************************************************************************)
Promised ==
  handler = {} /\ (IF pipelined THEN stalled
                   ELSE core["task"].busy = "no" /\ native_irqs_disabled)
Awaited == IF pipelined THEN raised \ OobIrqs ELSE raised

(* Steps that receive, handle and finish nothing: in-band code masks or    *)
(* unmasks, or nothing it can see happens.                                 *)
LEMMA PromiseQuiet ==
  ASSUME UNCHANGED <<pipelined, log, raised, handler>>
  PROVE  [Promise!Next]_(Promise!promise)
<1>1. Awaited' = Awaited /\ Promised' \in BOOLEAN /\ Promised \in BOOLEAN
  BY DEF Awaited, Promised
<1>2. CASE handler = {}
  BY <1>1, <1>2 DEF Promise!Next, Promise!SetMask, Promise!promise, Promised, Awaited
<1>3. CASE handler # {}
  BY <1>1, <1>3 DEF Promise!promise, Promised, Awaited
<1>. QED
  BY <1>2, <1>3

LEMMA PromiseOfTrap ==
  ASSUME PipeIInv, NEW w \in Contexts, NEW i \in Lines,
         arch_handle_irq_pipelined(w, i)
  PROVE  [Promise!Next]_(Promise!promise)
<1>1. /\ Executes(w) /\ SR_IE \in csr_status /\ i \in raised /\ raised' = raised \ {i}
      /\ UNCHANGED <<pipelined, stalled>>
      /\ IF pipelined
         THEN /\ log' = IF i \in OobIrqs \/ arch_steal_pipelined_tick(TrapStatus)
                        THEN log ELSE log \cup {i}
              /\ UNCHANGED handler
         ELSE handler' = {i} /\ UNCHANGED log
  BY DEF arch_handle_irq_pipelined
<1>2. SR_PIE \in TrapStatus /\ (~pipelined => w = "task" /\ handler = {})
  BY TrapKeeps
<1>3. CASE pipelined /\ i \in OobIrqs
  <2>1. Awaited' = Awaited /\ log' = log /\ Promised' = Promised /\ handler' = handler
    BY <1>1, <1>3 DEF Awaited, Promised
  <2>. QED
    BY <2>1 DEF Promise!promise, Awaited, Promised
<1>4. CASE pipelined /\ i \notin OobIrqs
  <2>1. /\ i \in Awaited /\ Awaited' = Awaited \ {i} /\ log' = log \cup {i}
        /\ Promised' = Promised /\ handler' = handler
    BY <1>1, <1>2, <1>4 DEF Awaited, Promised, arch_steal_pipelined_tick
  <2>2. Promise!Receive(i)
    BY <2>1 DEF Promise!Receive, Awaited, Promised
  <2>. QED
    BY <2>2 DEF Promise!Next
<1>5. CASE ~pipelined
  <2>1. /\ i \in Awaited /\ Awaited' = Awaited \ {i} /\ handler = {} /\ handler' = {i}
        /\ ~Promised /\ ~Promised' /\ log' = log
    BY <1>1, <1>2, <1>5
    DEF Awaited, Promised, native_irqs_disabled, native_irqs_disabled_flags
  <2>2. Promise!Handle(i)
    BY <2>1 DEF Promise!Handle, Awaited, Promised
  <2>. QED
    BY <2>2 DEF Promise!Next
<1>. QED
  BY <1>3, <1>4, <1>5

LEMMA PromiseOfPlay ==
  ASSUME PipeIInv, NEW w \in Contexts, NEW i \in Lines, PlayLog(w, i)
  PROVE  [Promise!Next]_(Promise!promise)
<1>1. /\ i \in log /\ log' = log \ {i} /\ handler' = {i}
      /\ UNCHANGED <<pipelined, raised>>
  BY DEF PlayLog
<1>2. pipelined /\ ~stalled /\ handler = {}
  BY PlayKeeps
<1>3. Awaited' = Awaited /\ ~Promised /\ ~Promised'
  BY <1>1, <1>2 DEF Awaited, Promised
<1>4. Promise!Handle(i)
  BY <1>1, <1>2, <1>3 DEF Promise!Handle, Awaited, Promised
<1>. QED
  BY <1>4 DEF Promise!Next

LEMMA PromiseOfHandler ==
  ASSUME PipeIInv, HandlerReturns
  PROVE  [Promise!Next]_(Promise!promise)
<1>1. /\ handler # {} /\ handler' = {} /\ core["task"].busy # "no"
      /\ stalled' = FALSE /\ UNCHANGED <<pipelined, log, raised, core>>
  BY HandlerReturnKeeps DEF HandlerReturns
<1>2. Awaited' = Awaited /\ ~Promised /\ ~Promised'
  BY <1>1 DEF Awaited, Promised
<1>3. Promise!Done
  BY <1>1, <1>2 DEF Promise!Done, Awaited, Promised
<1>. QED
  BY <1>3 DEF Promise!Next

LEMMA PromiseStep == PipeIInv /\ [Next]_vars => [Promise!Next]_(Promise!promise)
<1>. SUFFICES ASSUME PipeIInv, [Next]_vars PROVE [Promise!Next]_(Promise!promise)
  OBVIOUS
<1>1. CASE (IntcNext /\ UNCHANGED pipeVars) \/ Halt \/ UNCHANGED vars \/ LeaveOob
  BY <1>1, PromiseQuiet DEF pipeVars, Halt, vars, LeaveOob
<1>2. ASSUME NEW i \in Lines, Raise(i) PROVE [Promise!Next]_(Promise!promise)
  <2>1. /\ Promised' = Promised /\ handler' = handler /\ log' = log
        /\ Awaited' = Awaited \cup {i} \/ Awaited' = Awaited
    BY <1>2 DEF Raise, Promised, Awaited, native_irqs_disabled
  <2>2. Promise!Arrive(i) \/ UNCHANGED Promise!promise
    BY <2>1 DEF Promise!Arrive, Promise!promise, Promised, Awaited
  <2>. QED
    BY <2>2 DEF Promise!Next
<1>3. ASSUME NEW w \in Contexts, NEW i \in Lines, arch_handle_irq_pipelined(w, i)
      PROVE  [Promise!Next]_(Promise!promise)
  BY <1>3, PromiseOfTrap
<1>4. ASSUME NEW w \in Contexts, CoreNext(w) PROVE [Promise!Next]_(Promise!promise)
  <2>1. CASE CoreReturns(w) \/ SwitchOob(w)
    BY <2>1, PromiseQuiet DEF CoreReturns, SwitchOob
  <2>. QED
    BY <1>4, <2>1, PromiseOfPlay DEF CoreNext
<1>5. ASSUME NEW w \in Contexts, SectionBegins(w) \/ SyncClose(w) \/ SectionEnds(w)
      PROVE  [Promise!Next]_(Promise!promise)
  <2>1. UNCHANGED <<pipelined, log, raised, handler>>
    BY <1>5 DEF SectionBegins, SectionEnds, SyncClose, SyncOpen, SetLast,
       arch_local_irq_save, arch_local_irq_disable, hard_local_irq_save,
       hard_local_irq_disable, test_and_lock_stage, Open,
       arch_local_irq_restore, arch_local_irq_enable, hard_local_irq_restore,
       hard_local_irq_enable, unlock_stage, Close
  <2>. QED
    BY <2>1, PromiseQuiet
<1>6. CASE HandlerReturns
  BY <1>6, PromiseOfHandler
<1>. QED
  BY <1>1, <1>2, <1>3, <1>4, <1>5, <1>6 DEF Next

(* The two builds of the pipeline headers, with the stall bit or with the  *)
(* hardware mask, implement what masking interrupts promises: no handler   *)
(* runs while masked, one runs at a time, none is forgotten.               *)
THEOREM PipelineKeepsPromise == Spec => KeepsPromise
<1>1. Init => Promise!Init
  BY DEF Init, Promise!Init, NoCore, native_irqs_disabled,
     native_irqs_disabled_flags, Contexts
<1>. QED
  BY <1>1, PromiseStep, PipelineInvariant, PTL DEF Spec, KeepsPromise, Promise!Spec
=============================================================================
