----------------------------- MODULE MCInputOutput -----------------------------
(***************************************************************************)
(* InputOutput for TLC, with the devices and file systems that the         *)
(* commands put together: stak, mstak, the runner of the web and programs  *)
(* that embed the virtual machine.  The primitives of devices and of files *)
(* share no state, so that a program uses either here.                     *)
(***************************************************************************)
EXTENDS InputOutput

CONSTANT MaxLength  \* bound on the bytes of a file and of an output

MCSetup ==
  {Interpret, StandardMain, MinimalInterpret, LibcMain, WebInterpret, WebRun, Compile, Embedded}
    \cup {Engine(feature) : feature \in {"std", "libc", "none"}}
    \cup {On("buffer", "void")}

(* A file that exists, another name of it beyond the 8 bits of its code    *)
(* point, one that does not exist and is not UTF-8, one too long and one   *)
(* that C strings do not have.                                             *)
MCPath == {<<97>>, <<353>>, <<233>>, <<97, 97, 97>>, <<0>>}

MCDisk == [names |-> (<<97>> :> 1), contents |-> (1 :> <<1>>)]

MCChunks == <<<<1>>, <<>>, <<2>>>>

InBounds ==
  /\ \A stream \in Range(system.table) : stream.offset <= MaxLength
  /\ \A stream \in {"output", "error"} : device[stream].index <= MaxLength

MCNext ==
  \/ device = NewDevice(setup.device, Chunks) /\ FileNext /\ InBounds'
  \/ Opened = {} /\ system.disk = Disk /\ DeviceNext /\ InBounds'

MCSpec == Init /\ [][MCNext]_vars

Symmetry == Permutations(Port)

=============================================================================
