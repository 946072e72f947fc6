--------------------------------- MODULE MCVm ---------------------------------
(***************************************************************************)
(* The interpreter on the programs of Programs.                            *)
(***************************************************************************)
EXTENDS Vm

CONSTANTS
  Operators, Fuel,
  Space  \* bound on the conses of a program that only calls in tail position

P == INSTANCE Programs

MCProgram == P!EndingProgram \cup P!EndlessProgram
MCEndingProgram == P!EndingProgram
MCImage == P!ImageOf

(* The parts of the programs, as the proofs about Vm assume them.           *)
Objects(V) == HeapPointers(V) \ {Symbol(v.object.symbol) :
                                  v \in {w \in V : IsPointer(w) /\ "symbol" \in DOMAIN w.object}}

RECURSIVE WithParts(_, _)
WithParts(parts, new) ==
  IF new = {} THEN parts
  ELSE UNION {WithParts(parts \cup new, S \ (parts \cup new)) :
                S \in {Objects({Static(o).car : o \in new} \cup {Static(o).cdr : o \in new})}}

MCParts ==
  WithParts({}, Objects({CodePointer(MCImage[x].code, 0) : x \in MCProgram}
                          \cup UNION {{OperandValue(MCImage[x].globals[g]) :
                                         g \in DOMAIN MCImage[x].globals} : x \in MCProgram}))

ASSUME CompiledAssumption == Compiled(MCParts)

(* Programs whose calls return once each: no continuation, no error. *)
Structured ==
  ({"test", "argument", "binding", "sequence"} \X Operators)
    \cup {<<x>> : x \in {"counter", "shadow", "curry", "bound", "branches", "loop",
                        "recursion", "spread"}}
MCExpected == P!Expected

(* What a program leaves: the value on top of the stack, or an error.      *)
Seen(v) ==
  CASE "number" \in DOMAIN v -> v
    [] IsPointer(v) /\ "symbol" \in DOMAIN v.object -> v.object
    [] OTHER -> [other |-> TRUE]

Result == IF error # "none" THEN [error |-> TRUE] ELSE Seen(Top(Memory))

IsEndless == program \in P!EndlessProgram

(* A program that ends has the value that its expression has.              *)
Correct == Ended => ~IsEndless /\ Result = MCExpected[program]

(* Every program ends that should. *)
Terminates == <>(Ended \/ IsEndless)

(* A call in tail position passes the continuation on and drops the frame  *)
(* of its caller: a program whose calls all are runs for ever in a bounded *)
(* number of conses.                                                       *)
ProperTailCalls ==
  IsEndless => ~Ended /\ Cardinality({o \in DOMAIN fields : "heap" \in DOMAIN o}) <= Space

-----------------------------------------------------------------------------
(* The profile of a program. *)

Records == Profile!ReadProcedureRecords(profile)

(* What is called and not yet returned from, the program included, after   *)
(* the first i records.                                                    *)
Depth(i) ==
  1 + Cardinality({j \in 1 .. i : Records[j].operation = "call"})
    - Cardinality({j \in 1 .. i : Records[j].operation = "return"})

(* A call, the i-th record or the start of the program, and the record     *)
(* that leaves it: the next one to return, or to call last, at its depth.  *)
Leaves(i, j) ==
  CASE Records[j].operation = "return" -> Depth(j) = Depth(i) - 1
    [] Records[j].operation = "return_call" -> Depth(j) = Depth(i)
    [] OTHER -> FALSE
Left(i) ==
  {j \in i + 1 .. Len(Records) : Leaves(i, j) /\ \A k \in i + 1 .. j - 1 : ~Leaves(i, k)}
Calls ==
  {0} \cup {i \in DOMAIN Records : Records[i].operation # "return"}

FramesOf(i) == IF i = 0 THEN <<Profile!Unnamed>> ELSE Records[i].stack
TimeOf(i) == Records[IF i = 0 THEN 1 ELSE i].time

(* The times of the stacks, from the program to the innermost call, with   *)
(* calls of a procedure by itself as one.                                  *)
TimesOfCalls ==
  LET Shown(i) == Profile!Reverse(Profile!CollapseFrames(FramesOf(i)))
      Time(S) == Profile!FoldLeft(LAMBDA t, i : t + (TimeOf(CHOOSE j \in Left(i) : TRUE) - TimeOf(i)),
                                  0, Profile!SetToSeq(S))
  IN {<<Profile!StackDisplay(frames, <<Profile!LOCAL_NAME>>),
        Time({i \in Calls : Shown(i) = frames})>> : frames \in {Shown(i) : i \in Calls}}

(* Where no continuation and no error leaves a procedure, the calls that   *)
(* the analysis of a profile has open are the frames on the stack of the   *)
(* machine, tail calls included, which take the frame of their caller over *)
(* with its name; at the end each call has been left once, and the         *)
(* flamegraph has the time between.                                        *)
ProfileFollowsStack ==
  program \in Profiled /\ Records # <<>> =>
    LET s == Profile!CalculateDurations(Records)
        frames == WriteStack(Memory)
        From(i) == SubSeq(frames, Len(frames) - i + 1, Len(frames))
    IN /\ ~s.error
       /\ Len(s.calls) = Len(frames)
       /\ \A i \in DOMAIN s.calls :
            From(i) = IF s.calls[i].operation = "call"
                      THEN s.calls[i].stack
                      ELSE Tail(s.calls[i].stack)
       /\ Ended =>
            /\ s.calls = <<>>
            /\ \A i \in Calls : Cardinality(Left(i)) = 1
            /\ Profile!Flamegraph(Profile!StackReverse(Profile!StackCollapse(Profile!Duration(profile))))
                 = TimesOfCalls

=============================================================================
