------------------------- MODULE MCMemoryRefinement -------------------------
(***************************************************************************)
(* MemoryRefinement for TLC.  A program uses only what is at hand: the     *)
(* cons it last allocated and the constant false, plain and tagged, and a  *)
(* number to end a list.                                                   *)
(***************************************************************************)
EXTENDS MemoryRefinement

CONSTANT MaxWrites  \* bound on the calls that change the heap in place

VARIABLE writes

mcVars == <<historyVars, writes>>

Offer(S) == S \cap {NEVER, local, SetTag(false, 1)}

MCInit == HInit /\ writes = 0

MCAllocation ==
  \/ \E value \in Offer(Car) : Push(value)
  \/ \E car \in Offer(Car), cdr \in Offer(Cdr) : Allocate(car, cdr)
  \/ AllocateFails

MCMutation ==
  \/ CollectGarbages
  \/ Pop
  \/ \E c \in Offer(Root) : SetCode(c) \/ SetStack(c) \/ SetRegister(c)
  \/ \E c \in Offer(Held) : SetFalse(c)
  \/ \E i \in Cells, value \in Offer(Car) : SetCar(i, value)
  \/ \E i \in Cells, value \in Offer(Cdr) : SetCdr(i, value) \/ SetRawCdr(i, value)
  \/ \E i \in Cells : SetCdr(i, FromNumber(0))

MCNext ==
  \/ MCAllocation /\ NameNew /\ UNCHANGED writes
  \/ writes < MaxWrites /\ MCMutation /\ writes' = writes + 1 /\ UNCHANGED object
  \/ Collector /\ NameCopy /\ UNCHANGED writes

MCSpec ==
  MCInit /\ [][MCNext]_mcVars /\ WF_mcVars(Collector /\ NameCopy /\ UNCHANGED writes)

=============================================================================
