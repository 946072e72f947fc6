-------------------------------- MODULE Profiler -------------------------------
(***************************************************************************)
(* The analyses of a profile: profiler/src and the subcommands of          *)
(* cmd/profile/src/main.rs, each from lines to lines.                      *)
(*                                                                         *)
(* A line is a sequence of columns, a column of frames a sequence of names *)
(* and separators: a name is one token, and that of a procedure which has  *)
(* no name is no token.  The profiler writes such lines in Vm.             *)
(***************************************************************************)
EXTENDS Integers, Sequences, SequencesExt

-----------------------------------------------------------------------------
(* Stack *)

FRAME_SEPARATOR == ";"
LOCAL_NAME == "<local>"
Unnamed == ""

Text(frame, local) == IF frame = Unnamed THEN local ELSE <<frame>>

StackDisplay(frames, local) ==
  FlattenSeq([i \in DOMAIN frames |->
    (IF i = 1 THEN <<>> ELSE <<FRAME_SEPARATOR>>) \o Text(frames[i], local)])

StackOf(text) ==
  FoldLeft(LAMBDA frames, token :
             IF token = FRAME_SEPARATOR
             THEN Append(frames, Unnamed)
             ELSE [frames EXCEPT ![Len(frames)] = token],
           <<Unnamed>>, text)

CollapseFrames(frames) ==
  FoldLeft(LAMBDA kept, frame :
             IF kept # <<>> /\ Last(kept) = frame THEN kept ELSE Append(kept, frame),
           <<>>, frames)

ReverseFrames(frames) == Reverse(frames)

-----------------------------------------------------------------------------
(* Records.  A line that does not parse, such as one of an event, is       *)
(* skipped.                                                                *)

ProcedureOperation == {"call", "return", "return_call"}

ProcedureRecord(line) ==
  IF line[1] \in ProcedureOperation /\ Len(line) >= 3
  THEN <<[operation |-> line[1], stack |-> StackOf(line[2]), time |-> line[3]]>>
  ELSE <<>>

DurationRecord(line) ==
  IF Len(line) >= 2 THEN <<[stack |-> StackOf(line[1]), time |-> line[2]]>> ELSE <<>>

ReadProcedureRecords(lines) == FlattenSeq([i \in DOMAIN lines |-> ProcedureRecord(lines[i])])
ReadDurationRecords(lines) == FlattenSeq([i \in DOMAIN lines |-> DurationRecord(lines[i])])

WriteRecords(durations) ==
  [i \in DOMAIN durations |->
     <<StackDisplay(durations[i].stack, <<>>), durations[i].time>>]

-----------------------------------------------------------------------------
(* The calls that a program is in, the innermost last, with the durations  *)
(* of those it has left; the first record also enters the program.         *)

Entered(records) ==
  [calls |-> IF records = <<>>
             THEN <<>>
             ELSE <<[operation |-> "call", stack |-> <<Unnamed>>, time |-> records[1].time]>>,
   durations |-> <<>>,
   error |-> FALSE]

CalculateDuration(s, record) ==
  IF s.calls = <<>>
  THEN [s EXCEPT !.error = TRUE]
  ELSE [s EXCEPT !.calls = Front(@),
                 !.durations = Append(@, [stack |-> Last(s.calls).stack,
                                          time |-> record.time - Last(s.calls).time])]

EnterCall(s, record) == [s EXCEPT !.calls = Append(@, record)]

(* Mutant: a tail call returns and enters nothing. *)
CalculateDurationsOfReturns(records) ==
  FoldLeft(LAMBDA s, record :
             CASE s.error -> s
               [] ~s.error /\ record.operation = "call" -> EnterCall(s, record)
               [] OTHER -> CalculateDuration(s, record),
           Entered(records), records)

CalculateDurations(records) ==
  FoldLeft(LAMBDA s, record :
             CASE s.error -> s
               [] ~s.error /\ record.operation = "call" -> EnterCall(s, record)
               [] ~s.error /\ record.operation = "return" -> CalculateDuration(s, record)
               [] OTHER ->
                    LET left == CalculateDuration(s, record)
                    IN IF left.error THEN left ELSE EnterCall(left, record),
           Entered(records), records)

(* The time of a stack is the sum of its durations. *)
CalculateFlamegraph(records) ==
  [frames \in {records[i].stack : i \in DOMAIN records} |->
     FoldLeft(LAMBDA sum, record : sum + record.time, 0,
              SelectSeq(records, LAMBDA record : record.stack = frames))]

-----------------------------------------------------------------------------
(* stak-profile analyze *)

Duration(lines) == WriteRecords(CalculateDurations(ReadProcedureRecords(lines)).durations)

StackCollapse(lines) ==
  LET records == ReadDurationRecords(lines)
  IN WriteRecords([i \in DOMAIN records |-> [records[i] EXCEPT !.stack = CollapseFrames(@)]])

StackReverse(lines) ==
  LET records == ReadDurationRecords(lines)
  IN WriteRecords([i \in DOMAIN records |-> [records[i] EXCEPT !.stack = ReverseFrames(@)]])

Flamegraph(lines) ==
  LET times == CalculateFlamegraph(ReadDurationRecords(lines))
  IN {<<StackDisplay(frames, <<LOCAL_NAME>>), times[frames]>> : frames \in DOMAIN times}

=============================================================================
