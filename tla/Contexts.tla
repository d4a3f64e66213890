------------------------------ MODULE Contexts -------------------------------
(***************************************************************************)
(* The contexts of a microengine.  They are not preempted: a context runs   *)
(* until it swaps out, which every access to CLS and every DMA makes it do.  *)
(* A CLS read therefore is two steps, the word being read and the context    *)
(* running again with it; everything between two swaps is one step.          *)
(***************************************************************************)
EXTENDS SequencesExt

CONSTANT InOrder  \* contexts run again in the order of their CLS reads

ASSUME OrderAssumption == InOrder \in BOOLEAN

\* May the engine run context c next, given the contexts that have their data
\* in the order in which the CLS served them?  The hardware's arbiter goes
\* round the contexts, whatever the order of their reads (InOrder = FALSE): a
\* context that becomes ready just after the arbiter passed it waits for all
\* the others that are ready, also for one whose read was served later.
Resumes(ready, c) == InOrder => Head(ready) = c
==============================================================================
