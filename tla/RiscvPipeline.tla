--------------------------- MODULE RiscvPipeline ---------------------------
(***************************************************************************)
(* Interrupts on the boot hart: the two levels of interrupt state of the   *)
(* pipeline (arch/riscv/include/asm/irq_pipeline.h, irqflags.h and         *)
(* asm-generic/irq_pipeline.h) on top of the controller of RiscvIntc.      *)
(*                                                                         *)
(* Three contexts may exist, each interrupting those before: the in-band   *)
(* task, an in-band interrupt handler, an out-of-band thread.  On top of   *)
(* each, core[w] is the pipeline core at work with interrupts masked,      *)
(* entered by a trap or by in-band code that enables interrupts.  The      *)
(* pipeline core, kernel/irq/pipeline.c, is not part of the overlay: its   *)
(* steps are those the headers rely on.                                    *)
(*                                                                         *)
(* Code opens and closes critical sections, the last first.  A word of     *)
(* flags is the set of its bits.  pipelined is CONFIG_IRQ_PIPELINE.        *)
(***************************************************************************)
EXTENDS RiscvIntc, Sequences

CONSTANTS
  Lines,        \* the causes the devices of the hart raise
  OobIrqs,      \* those with an out-of-band handler
  MaxSections   \* bound on the nesting of sections

ASSUME LinesAssumption == OobIrqs \subseteq Lines
ASSUME SectionsAssumption == MaxSections \in Nat

VARIABLES
  pipelined,
  csr_status,  \* SR_IE and SR_PIE in the status register
  stalled,     \* the stall bit of the in-band stage
  log,         \* in-band interrupts received, not handled
  raised,      \* lines up
  handler,     \* the in-band interrupt being handled, at most one
  oob,         \* is there an out-of-band thread?
  core,        \* the pipeline core, for each context
  sections     \* open critical sections, for each context

pipeVars == <<pipelined, csr_status, stalled, log, raised, handler, oob, core,
              sections>>
vars == <<intcVars, pipeVars>>

SR_IE == "SR_IE"
SR_PIE == "SR_PIE"
IRQMASK_i == "i"      \* bit 0 of a merged word: the swapped stall bit

Contexts == {"task", "handler", "oob"}
\* A core that is not at work.  status: the flags to return with; switch:
\* did an out-of-band handler run?
NoCore == [busy |-> "no", status |-> {}, switch |-> FALSE]

Init ==
  /\ IntcInit
  /\ pipelined \in BOOLEAN
  /\ csr_status = {SR_IE, SR_PIE}
  /\ stalled = FALSE
  /\ log = {} /\ raised = {} /\ handler = {}
  /\ oob = FALSE
  /\ core = [w \in Contexts |-> NoCore]
  /\ sections = [w \in Contexts |-> << >>]

\* The handler is set: the hart takes interrupts.
Up == handle_arch_irq

\* What executes: the core over a context, or the context itself.
Top == IF oob THEN "oob" ELSE IF handler # {} THEN "handler" ELSE "task"
InCore(w) == Up /\ Top = w /\ core[w].busy # "no"
Executes(w) == Up /\ Top = w /\ core[w].busy = "no"

-----------------------------------------------------------------------------
(***************************************************************************)
(* irqflags.h.                                                             *)
(***************************************************************************)
native_irq_enable == csr_status \cup {SR_IE}
native_irq_disable == csr_status \ {SR_IE}
native_irqs_disabled_flags(flags) == SR_IE \notin flags
native_irq_restore(flags) == csr_status \cup (flags \cap {SR_IE})
native_irqs_disabled == native_irqs_disabled_flags(csr_status)

(***************************************************************************)
(* Conversions between the two states, and the word that holds both, each  *)
(* in the place of the other.                                              *)
(***************************************************************************)
arch_irqs_virtual_to_native_flags(s) == IF ~s THEN {SR_IE} ELSE {}

arch_irqs_native_to_virtual_flags(flags) ==
  IF SR_IE \notin flags THEN {IRQMASK_i} ELSE {}

irqs_merge_flags(flags, s) ==
  arch_irqs_virtual_to_native_flags(s)
    \cup arch_irqs_native_to_virtual_flags(flags)

\* irqs_split_flags(): the stall bit it stores, and the flags it returns.
SplitStall(combo) == native_irqs_disabled_flags(combo)

\* Mutant of irqs_split_flags(): the word is returned as it is.
irqs_split_flags_Unswapped(combo) == combo \cap {SR_IE}

irqs_split_flags(combo) ==
  LET virt == combo \ arch_irqs_virtual_to_native_flags(SplitStall(combo))
  IN arch_irqs_virtual_to_native_flags(virt # {})

arch_local_save_flags ==
  IF pipelined THEN arch_irqs_virtual_to_native_flags(stalled) ELSE csr_status
arch_irqs_disabled_flags(flags) == native_irqs_disabled_flags(flags)
arch_irqs_disabled == arch_irqs_disabled_flags(arch_local_save_flags)

-----------------------------------------------------------------------------
(***************************************************************************)
(* Sections: "virt" and "off" are arch_local_irq_save() and                *)
(* arch_local_irq_disable(), "hard" and "hardoff" hard_local_irq_save()    *)
(* and hard_local_irq_disable(), "sync" a "hardoff" in which               *)
(* hard_local_irq_sync() lets interrupts in, "stage"                       *)
(* test_and_lock_stage().                                                  *)
(***************************************************************************)
VirtKinds == {"virt", "off", "stage"}
HardKinds == {"hard", "hardoff", "stage"}
Kinds == VirtKinds \cup HardKinds \cup {"sync"}

Inband(w) == w \in {"task", "handler"}
Last(w) == sections[w][Len(sections[w])]
Closes(w, kind) == sections[w] # << >> /\ Last(w).kind = kind

Open(w, kind, flags) ==
  /\ Len(sections[w]) < MaxSections
  /\ Inband(w) /\ ~Closes(w, "sync")
  /\ sections' = [sections EXCEPT ![w] = Append(@, [kind |-> kind,
                                                    flags |-> flags])]
  /\ UNCHANGED <<intcVars, pipelined, log, raised, handler, oob, core>>

Close(w) ==
  /\ sections' = [sections EXCEPT ![w] = SubSeq(@, 1, Len(@) - 1)]
  /\ UNCHANGED <<intcVars, pipelined, log, raised, handler, oob>>

\* Enabling in-band interrupts with the hardware masked is a bug of the
\* caller, which the core warns of: no section that ends so is opened.
MayMask(w) == pipelined => ~native_irqs_disabled \/ stalled

\* inband_irq_disable(), inband_irq_save() stall the stage.
MaskInband ==
  IF pipelined THEN stalled' = TRUE /\ UNCHANGED csr_status
  ELSE csr_status' = native_irq_disable /\ UNCHANGED stalled

\* Mutant of inband_irq_enable(): what was logged is left there.
inband_irq_enable_NoSync(w) ==
  /\ stalled' = FALSE
  /\ UNCHANGED <<csr_status, core>>

\* inband_irq_enable(): unstall, then synchronise the log in core[w].
inband_irq_enable(w) ==
  /\ stalled' = FALSE
  /\ csr_status' = native_irq_disable
  /\ core' = [core EXCEPT ![w] = [busy |-> "sync", status |-> csr_status,
                                  switch |-> FALSE]]

UnmaskInband(w) ==
  IF pipelined THEN inband_irq_enable(w)
  ELSE csr_status' = native_irq_enable /\ UNCHANGED <<stalled, core>>

arch_local_irq_save(w) ==
  /\ Executes(w) /\ MayMask(w)
  /\ Open(w, "virt", arch_local_save_flags)
  /\ MaskInband

arch_local_irq_restore(w) ==
  /\ Executes(w)
  /\ Closes(w, "virt")
  /\ Close(w)
  /\ IF ~pipelined
     THEN /\ csr_status' = native_irq_restore(Last(w).flags)
          /\ UNCHANGED <<stalled, core>>
     ELSE IF arch_irqs_disabled_flags(Last(w).flags)
     THEN stalled' = TRUE /\ UNCHANGED <<csr_status, core>>
     ELSE inband_irq_enable(w)

\* The pair without flags, where interrupts are known to be enabled.
arch_local_irq_disable(w) ==
  /\ Executes(w)
  /\ ~arch_irqs_disabled /\ ~native_irqs_disabled
  /\ Open(w, "off", {})
  /\ MaskInband

arch_local_irq_enable(w) ==
  /\ Executes(w)
  /\ Closes(w, "off")
  /\ Close(w)
  /\ UnmaskInband(w)

hard_local_irq_save(w) ==
  /\ Executes(w)
  /\ Open(w, "hard", csr_status)
  /\ csr_status' = native_irq_disable
  /\ UNCHANGED stalled

hard_local_irq_restore(w) ==
  /\ Executes(w)
  /\ Closes(w, "hard")
  /\ Close(w)
  /\ csr_status' = native_irq_restore(Last(w).flags)
  /\ UNCHANGED <<stalled, core>>

hard_local_irq_disable(w) ==
  /\ Executes(w)
  /\ ~native_irqs_disabled
  /\ Open(w, "hardoff", {})
  /\ csr_status' = native_irq_disable
  /\ UNCHANGED stalled

hard_local_irq_enable(w) ==
  /\ Executes(w)
  /\ Closes(w, "hardoff")
  /\ Close(w)
  /\ csr_status' = native_irq_enable
  /\ UNCHANGED <<stalled, core>>

\* The two instructions of native_irq_sync(); a no-op without the pipeline.
SetLast(w, kind) ==
  /\ sections' = [sections EXCEPT ![w][Len(sections[w])].kind = kind]
  /\ UNCHANGED <<intcVars, pipelined, stalled, log, raised, handler, oob, core>>

SyncOpen(w) ==
  /\ Executes(w) /\ pipelined
  /\ Closes(w, "hardoff")
  /\ csr_status' = native_irq_enable
  /\ SetLast(w, "sync")

SyncClose(w) ==
  /\ Executes(w)
  /\ Closes(w, "sync")
  /\ csr_status' = native_irq_disable
  /\ SetLast(w, "hardoff")

\* Both states are saved in one word, then both are masked.
test_and_lock_stage(w) ==
  /\ Executes(w)
  /\ Open(w, "stage", IF pipelined THEN irqs_merge_flags(csr_status, stalled)
                      ELSE csr_status)
  /\ csr_status' = native_irq_disable
  /\ stalled' = (stalled \/ pipelined)

\* Nothing was logged meanwhile: the log need not be looked at.
unlock_stage(w) ==
  /\ Executes(w)
  /\ Closes(w, "stage")
  /\ Close(w)
  /\ stalled' = (pipelined /\ SplitStall(Last(w).flags))
  /\ csr_status' = native_irq_restore(IF pipelined
                                      THEN irqs_split_flags(Last(w).flags)
                                      ELSE Last(w).flags)
  /\ UNCHANGED core

-----------------------------------------------------------------------------
\* A device raises its line.
Raise(i) ==
  /\ Up
  /\ raised' = raised \cup {i}
  /\ UNCHANGED <<intcVars, pipelined, csr_status, stalled, log, handler, oob,
                 core, sections>>

\* Mutant of arch_steal_pipelined_tick(): SR_IE, always clear in a trap.
arch_steal_pipelined_tick_Ie(status) == SR_IE \notin status

\* Were interrupts disabled when the trap was taken?
arch_steal_pipelined_tick(status) == SR_PIE \notin status

\* The status register once the hart has entered the trap.
TrapStatus == (csr_status \ {SR_IE, SR_PIE})
                \cup (IF SR_IE \in csr_status THEN {SR_PIE} ELSE {})
\* And after the sret of a handler that returns with the given status.
SretStatus(status) == (status \ {SR_IE}) \cup {SR_PIE}
                        \cup (IF SR_PIE \in status THEN {SR_IE} ELSE {})

(***************************************************************************)
(* An interrupt is taken over context w and its line drops.  With the      *)
(* pipeline, arch_handle_irq_pipelined() runs the handler of an            *)
(* out-of-band interrupt and logs the others; without, the in-band handler *)
(* runs at once, whatever the interrupt.                                   *)
(***************************************************************************)
arch_handle_irq_pipelined(w, i) ==
  /\ Executes(w)
  /\ SR_IE \in csr_status
  /\ i \in raised \cap Causes(BootHart)
  /\ riscv_intc_irq(i)
  /\ raised' = raised \ {i}
  /\ csr_status' = TrapStatus
  /\ core' = [core EXCEPT ![w] = [busy |-> "trap", status |-> TrapStatus,
                                  switch |-> pipelined /\ i \in OobIrqs]]
  /\ IF pipelined
     THEN /\ log' = IF i \in OobIrqs \/ arch_steal_pipelined_tick(TrapStatus)
                    THEN log ELSE log \cup {i}
          /\ UNCHANGED handler
     ELSE handler' = {i} /\ UNCHANGED log
  /\ UNCHANGED <<intcVars, pipelined, stalled, oob, sections>>

\* Is the core about to play the log?
MustSync(w) == pipelined /\ Inband(w) /\ ~stalled /\ log # {}

\* The core plays one interrupt of the log, with the stage stalled and the
\* hardware unmasked.
PlayLog(w, i) ==
  /\ InCore(w)
  /\ ~core[w].switch
  /\ MustSync(w)
  /\ i \in log
  /\ log' = log \ {i}
  /\ stalled' = TRUE
  /\ handler' = {i}
  /\ csr_status' = native_irq_enable
  /\ UNCHANGED <<intcVars, pipelined, raised, oob, core, sections>>

HandlerReturns ==
  /\ Executes("handler")
  /\ sections["handler"] = << >>
  /\ handler' = {}
  /\ stalled' = FALSE
  /\ csr_status' = native_irq_disable
  /\ UNCHANGED <<intcVars, pipelined, log, raised, oob, core, sections>>

\* Nothing left to play: back to the context, by sret or by a restore.
CoreReturns(w) ==
  /\ InCore(w)
  /\ ~core[w].switch
  /\ ~MustSync(w)
  /\ csr_status' = IF core[w].busy = "trap" THEN SretStatus(core[w].status)
                   ELSE native_irq_restore(core[w].status)
  /\ core' = [core EXCEPT ![w] = NoCore]
  /\ UNCHANGED <<intcVars, pipelined, stalled, log, raised, handler, oob,
                 sections>>

\* After an out-of-band handler: the thread it woke up runs, or none did.
SwitchOob(w) ==
  /\ InCore(w)
  /\ core[w].switch
  /\ core' = [core EXCEPT ![w].switch = FALSE]
  /\ \/ /\ ~oob
        /\ oob' = TRUE
        /\ csr_status' = native_irq_enable
     \/ UNCHANGED <<oob, csr_status>>
  /\ UNCHANGED <<intcVars, pipelined, stalled, log, raised, handler, sections>>

LeaveOob ==
  /\ Executes("oob")
  /\ oob' = FALSE
  /\ csr_status' = native_irq_disable
  /\ UNCHANGED <<intcVars, pipelined, stalled, log, raised, handler, core,
                 sections>>

\* The controller could not be set up: the hart stops.
Halt == BootHart \in probed /\ ~Up /\ UNCHANGED vars

CoreNext(w) ==
  \/ \E i \in Lines : PlayLog(w, i)
  \/ CoreReturns(w)
  \/ SwitchOob(w)

SectionBegins(w) ==
  \/ arch_local_irq_save(w) \/ arch_local_irq_disable(w)
  \/ hard_local_irq_save(w) \/ hard_local_irq_disable(w)
  \/ test_and_lock_stage(w)
  \/ SyncOpen(w)

SectionEnds(w) ==
  \/ arch_local_irq_restore(w) \/ arch_local_irq_enable(w)
  \/ hard_local_irq_restore(w) \/ hard_local_irq_enable(w)
  \/ unlock_stage(w)

Next ==
  \/ IntcNext /\ UNCHANGED pipeVars
  \/ \E i \in Lines : Raise(i)
  \/ \E w \in Contexts, i \in Lines : arch_handle_irq_pipelined(w, i)
  \/ \E w \in Contexts :
       CoreNext(w) \/ SectionBegins(w) \/ SyncClose(w) \/ SectionEnds(w)
  \/ HandlerReturns
  \/ LeaveOob
  \/ Halt

\* Critical sections end, handlers return and out-of-band threads suspend,
\* though interrupts come again and again.
Fairness ==
  /\ WF_vars(\E w \in Contexts : CoreNext(w))
  /\ SF_vars(\E w \in Contexts : SyncClose(w))
  /\ \A n \in 1..MaxSections :
       SF_vars(\E w \in Contexts : Len(sections[w]) = n /\ SectionEnds(w))
  /\ SF_vars(HandlerReturns)
  /\ SF_vars(LeaveOob)

Spec == Init /\ [][Next]_vars /\ Fairness

-----------------------------------------------------------------------------
Has(w, kinds) == \E n \in 1..Len(sections[w]) : sections[w][n].kind \in kinds

(***************************************************************************)
(* Whenever a context executes, what it sees is the sections it opened and *)
(* has not closed, however it was interrupted meanwhile: in-band           *)
(* interrupts are disabled to it inside a masking section, or in a         *)
(* handler, and not otherwise; and the hardware is masked only inside a    *)
(* hard section, so that in-band code which disables interrupts delays no  *)
(* out-of-band handler.                                                    *)
(***************************************************************************)
StateMatchesSections ==
  \A w \in Contexts : Executes(w) =>
    /\ pipelined =>
         native_irqs_disabled = Has(w, HardKinds)
    /\ Inband(w) =>
         arch_irqs_disabled =
           \/ w = "handler"
           \/ Has(w, IF pipelined THEN VirtKinds ELSE Kinds)

(***************************************************************************)
(* A logged interrupt is handled, whatever was going on when it arrived.   *)
(***************************************************************************)
LoggedIsHandled == \A i \in Lines \ OobIrqs : i \in log ~> i \notin log

Promise == INSTANCE StallPromise WITH
  Irqs <- Lines,
  masked <- handler = {} /\ (IF pipelined THEN stalled
                             ELSE core["task"].busy = "no"
                                    /\ native_irqs_disabled),
  waiting <- IF pipelined THEN raised \ OobIrqs ELSE raised,
  logged <- log,
  handling <- handler

(***************************************************************************)
(* In either build, with the stall bit or with the hardware mask, what     *)
(* in-band code sees is what disabling interrupts promises.                *)
(***************************************************************************)
KeepsPromise == Promise!Spec
=============================================================================
