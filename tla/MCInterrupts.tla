---------------------------- MODULE MCInterrupts ----------------------------
(***************************************************************************)
(* Two harts.  The software interrupt (1) is in-band; 257, a custom cause  *)
(* of Andes with the same bit in another register, is out-of-band.  70 and *)
(* 300 have no enable register on some machines, or on any.                *)
(***************************************************************************)
EXTENDS RiscvPipeline

MCFwspecs == {[hwirq |-> c, nr_irqs |-> 1] : c \in {1, 257, 70, 300}}
=============================================================================
