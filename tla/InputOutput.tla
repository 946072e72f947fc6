------------------------------ MODULE InputOutput ------------------------------
(***************************************************************************)
(* The input and output of a program: the ports of prelude.scm over the    *)
(* primitives of devices and file systems.  A port has the descriptor of   *)
(* its file in its closures; closing it takes them away, after which a     *)
(* table may give the descriptor to another port.                          *)
(***************************************************************************)
EXTENDS FileSystem, Devices

CONSTANTS
  Port,   \* identities of the ports of files
  Path,   \* names of files, as code points
  Byte,   \* what a program writes, as numbers
  Chunks, \* the input, in chunks
  Disk,   \* the files there are
  Setup   \* pairs of a device and a file system

(* Each name that a disk has is of a file, and each file has a name.       *)
ASSUME InputOutputAssumption ==
  /\ PathSize \in Nat /\ Capacity \in Nat /\ BufferSize \in Nat
  /\ \A path \in Path : path \in Seq(Nat)
  /\ Byte \subseteq Nat
  /\ Chunks \in Seq(Seq(0 .. 255))
  /\ Disk \in [names : [DOMAIN Disk.names -> DOMAIN Disk.contents],
               contents : [DOMAIN Disk.contents -> Seq(0 .. 255)]]
  /\ DOMAIN Disk.contents = Range(Disk.names)
  /\ Setup \subseteq [device : {"fixed", "buffer", "std", "libc", "void"},
                      files : {"void", "memory", "os", "libc"}]

VARIABLES
  setup,
  device,
  system,
  ports,   \* port that was opened -> its descriptor and whether it is open
  result   \* of the last call

vars == <<setup, device, system, ports, result>>

(* What commands and programs that embed the virtual machine put together. *)
On(d, f) == [device |-> d, files |-> f]

Interpret == On("std", "os")
StandardMain == On("std", "os")
MinimalInterpret == On("libc", "libc")
LibcMain == On("libc", "libc")
WebInterpret == On("std", "void")
WebRun == On("std", "memory")
Compile == On("std", "void")
Embedded == On("fixed", "void")
Engine(feature) ==
  On(CASE feature = "std" -> "std" [] feature = "libc" -> "libc" [] feature = "none" -> "void",
     "void")

Init ==
  /\ setup \in Setup
  /\ device = NewDevice(setup.device, Chunks)
  /\ system = [disk |-> Disk, table |-> [d \in {} |-> Stream(0, FALSE)], next |-> 0]
  /\ ports = [p \in {} |-> [descriptor |-> 0, open |-> FALSE]]
  /\ result = Done

-----------------------------------------------------------------------------
(* SmallPrimitiveSet hands a primitive to the set it belongs to. *)

FileSteps(primitive, arguments) == OperateFile(setup.files, system, primitive, arguments)

CallFile(primitive, arguments) ==
  \E step \in FileSteps(primitive, arguments) :
    /\ system' = step.system
    /\ result' = step.value
    /\ UNCHANGED <<setup, device>>

CallDevice(primitive, argument) ==
  \E step \in OperateDevice(setup.device, device, primitive, argument) :
    /\ device' = step.device
    /\ result' = step.value
    /\ UNCHANGED <<setup, system, ports>>

Opened == DOMAIN ports
IsOpen(p) == p \in Opened /\ ports[p].open

(* open-file: the port of a descriptor. *)
OpenPort(p, path, output) ==
  /\ p \notin Opened
  /\ \E step \in FileSteps(OPEN_FILE, <<path, output>>) :
       /\ system' = step.system
       /\ IF step.value = Failure
          THEN result' = Failure /\ UNCHANGED ports
          ELSE /\ result' = Done
               /\ ports' = Put(ports, p, [descriptor |-> step.value.descriptor, open |-> TRUE])
       /\ UNCHANGED <<setup, device>>

(* A call of a procedure of a port that was taken away is an error. *)
CallPort(p, primitive, arguments) ==
  /\ p \in Opened
  /\ IF IsOpen(p)
     THEN CallFile(primitive, <<ports[p].descriptor>> \o arguments)
     ELSE result' = Failure /\ UNCHANGED <<setup, device, system>>

(* Mutant: a closed port keeps its procedures. *)
ClosePortKept(p) == CallPort(p, CLOSE_FILE, <<>>) /\ UNCHANGED ports

(* close-port *)
ClosePort(p) ==
  /\ CallPort(p, CLOSE_FILE, <<>>)
  /\ ports' = IF result' = Failure THEN ports ELSE [ports EXCEPT ![p].open = FALSE]

ReadPort(p) == CallPort(p, READ_FILE, <<>>) /\ UNCHANGED ports
WritePort(p, byte) == CallPort(p, WRITE_FILE, <<byte>>) /\ UNCHANGED ports
FlushPort(p) == CallPort(p, FLUSH_FILE, <<>>) /\ UNCHANGED ports

DeleteFile(path) == CallFile(DELETE_FILE, <<path>>) /\ UNCHANGED ports
FileExists(path) == CallFile(EXISTS_FILE, <<path>>) /\ UNCHANGED ports

(* The current ports, which are never closed here.                         *)
ReadInput == CallDevice(READ, 0)
WriteOutput(byte) == CallDevice(WRITE, byte)
WriteError(byte) == CallDevice(WRITE_ERROR, byte)

FileNext ==
  \/ \E p \in Port, path \in Path, output \in BOOLEAN : OpenPort(p, path, output)
  \/ \E p \in Port : ClosePort(p) \/ ReadPort(p) \/ FlushPort(p)
  \/ \E p \in Port, byte \in Byte : WritePort(p, byte)
  \/ \E path \in Path : DeleteFile(path) \/ FileExists(path)

DeviceNext == ReadInput \/ \E byte \in Byte : WriteOutput(byte) \/ WriteError(byte)

Next == FileNext \/ DeviceNext

Spec == Init /\ [][Next]_vars

-----------------------------------------------------------------------------
(* Properties. *)

OpenPorts == {p \in Opened : IsOpen(p)}

AbstractStreams == INSTANCE Streams WITH
  Path <- {DecodeBytes(path) : path \in Path},
  Byte <- {byte % 256 : byte \in Byte},
  disk <- system.disk,
  streams <- [p \in OpenPorts |-> system.table[ports[p].descriptor]],
  input <- IF setup.device = "void" THEN <<>> ELSE Unread(device),
  outputs <- [output |-> BytesOf(device.output), error |-> BytesOf(device.error)],
  discards <- setup.device = "void"

(* Whatever the device and the file system are, ports are streams of their *)
(* own: descriptors that are used again, closed ports that a program still *)
(* has, files open twice, emptied or deleted meanwhile, refusals of the    *)
(* operating system and full tables and buffers never move the place of    *)
(* another stream, lose or repeat a byte, or change a file but by the      *)
(* write asked for.                                                        *)
ImplementsStreams == AbstractStreams!Spec

(* A table holds one open file for each open port and no other: no failure *)
(* and no order of opening and closing leaks an entry or shares one.       *)
TableMatchesPorts ==
  /\ DOMAIN system.table = {ports[p].descriptor : p \in OpenPorts}
  /\ \A p, q \in OpenPorts : ports[p].descriptor = ports[q].descriptor => p = q

=============================================================================
