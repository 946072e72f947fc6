-------------------------------- MODULE Streams --------------------------------
(***************************************************************************)
(* What a program may count on, whichever device and file system it runs   *)
(* on: its ports are streams of bytes that have nothing to do with each    *)
(* other.  A stream has a file and a place in it; an operation on one      *)
(* stream moves that one only, a failure moves none, and what is written   *)
(* is in the file in the order it was written.  The disk is the one of     *)
(* FileSystem.                                                             *)
(***************************************************************************)
EXTENDS FileSystem

CONSTANTS
  Port,  \* identities of ports
  Path,  \* names of files, as bytes
  Byte   \* bytes that a program writes

VARIABLES
  disk,      \* names and contents of files
  streams,   \* open port -> its stream
  input,     \* what is left to read
  outputs,   \* "output" and "error": what was written
  discards,  \* whether it is thrown away
  result     \* of the last call

vars == <<disk, streams, input, outputs, discards, result>>

Devices == <<input, outputs>>

(* An operation on the streams only, and one on the devices only.          *)
OnStreams(value) == result' = value /\ UNCHANGED <<Devices, discards>>
OnDevices(value) == result' = value /\ UNCHANGED <<disk, streams, discards>>

Refuse == result' = Failure /\ UNCHANGED <<disk, streams, Devices, discards>>

OpenPort(p, path, output) ==
  LET opened == IF output THEN Truncated(disk, path) ELSE disk
  IN /\ p \notin DOMAIN streams
     /\ output \/ path \in DOMAIN disk.names
     /\ disk' = opened
     /\ streams' = Put(streams, p, Stream(opened.names[path], output))
     /\ OnStreams(Done)

(* A refusal may come after the file was emptied. *)
OpenTruncates(path) ==
  /\ disk' = Truncated(disk, path)
  /\ UNCHANGED streams
  /\ OnStreams(Failure)

ClosePort(p) ==
  /\ p \in DOMAIN streams
  /\ streams' = Restrict(streams, DOMAIN streams \ {p})
  /\ disk' = WithoutDeadFiles(disk, streams')
  /\ OnStreams(Done)

ReadPort(p) ==
  /\ p \in DOMAIN streams /\ ~streams[p].output
  /\ LET bytes == disk.contents[streams[p].file]
         place == streams[p].offset + 1
     IN IF place <= Len(bytes)
        THEN /\ streams' = [streams EXCEPT ![p].offset = place]
             /\ OnStreams(ByteRead(bytes[place]))
        ELSE UNCHANGED streams /\ OnStreams(None)
  /\ UNCHANGED disk

WritePort(p, byte) ==
  /\ p \in DOMAIN streams /\ streams[p].output
  /\ LET stream == streams[p]
     IN disk' = [disk EXCEPT !.contents[stream.file] = WriteAt(@, stream.offset, byte)]
  /\ streams' = [streams EXCEPT ![p].offset = @ + 1]
  /\ OnStreams(Done)

FlushPort(p) == p \in DOMAIN streams /\ UNCHANGED <<disk, streams>> /\ OnStreams(Done)

DeleteFile(path) ==
  /\ path \in DOMAIN disk.names
  /\ disk' = WithoutDeadFiles(Unlinked(disk, path), streams)
  /\ UNCHANGED streams
  /\ OnStreams(Done)

(* A file may seem not to exist because it cannot be looked at.            *)
FileExists(path) ==
  /\ UNCHANGED <<disk, streams>>
  /\ \E seen \in BOOLEAN : OnStreams(Boolean(seen)) /\ (seen => path \in DOMAIN disk.names)

ReadInput ==
  /\ OnDevices(IF input = <<>> THEN None ELSE ByteRead(Head(input)))
  /\ input' = IF input = <<>> THEN <<>> ELSE Tail(input)
  /\ UNCHANGED outputs

WriteOutput(stream, byte) ==
  /\ OnDevices(Done)
  /\ outputs' = IF discards THEN outputs ELSE [outputs EXCEPT ![stream] = Append(@, byte)]
  /\ UNCHANGED input

Init ==
  /\ streams = [p \in {} |-> Stream(0, FALSE)]
  /\ outputs = [stream \in {"output", "error"} |-> <<>>]
  /\ result = Done

Next ==
  \/ Refuse
  \/ \E p \in Port : ClosePort(p) \/ ReadPort(p) \/ FlushPort(p)
  \/ \E p \in Port, byte \in Byte : WritePort(p, byte)
  \/ \E p \in Port, path \in Path, output \in BOOLEAN : OpenPort(p, path, output)
  \/ \E path \in Path : OpenTruncates(path) \/ DeleteFile(path) \/ FileExists(path)
  \/ ReadInput
  \/ \E stream \in {"output", "error"}, byte \in Byte : WriteOutput(stream, byte)

Spec == Init /\ [][Next]_vars

=============================================================================
