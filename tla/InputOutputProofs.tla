--------------------------- MODULE InputOutputProofs ---------------------------
(***************************************************************************)
(* Proofs about InputOutput: its ports are the streams of Streams, for     *)
(* every device and file system.                                           *)
(***************************************************************************)
EXTENDS InputOutput, WellFoundedInduction, SequenceTheorems, TLAPS

Kinds == {"void", "memory", "os", "libc"}
Bytes == 0 .. 255

-----------------------------------------------------------------------------
(* The invariant of files. *)

IsDisk(disk) ==
  disk \in [names : [DOMAIN disk.names -> DOMAIN disk.contents],
            contents : [DOMAIN disk.contents -> Seq(Bytes)]]

StreamsOn(disk) == [file : DOMAIN disk.contents, offset : Nat, output : BOOLEAN]

IsSystem(f) ==
  /\ IsDisk(f.disk)
  /\ f \in [disk : {f.disk}, table : [DOMAIN f.table -> StreamsOn(f.disk)], next : Nat]
  /\ DOMAIN f.table \subseteq Nat

(* A file system of the memory is constant and reads only; descriptors of  *)
(* the operating system are below the counter.                             *)
Fits(kind, f) ==
  /\ kind = "void" => DOMAIN f.table = {}
  /\ kind = "memory" =>
       /\ f.disk = Disk
       /\ DOMAIN f.table \subseteq 0 .. Capacity - 1
       /\ \A d \in DOMAIN f.table : ~f.table[d].output
  /\ kind \in {"os", "libc"} => \A d \in DOMAIN f.table : d < f.next

ArePorts == ports \in [Opened -> [descriptor : Nat, open : BOOLEAN]]

FilesInv ==
  /\ setup \in Setup
  /\ IsSystem(system)
  /\ Fits(setup.files, system)
  /\ ArePorts
  /\ TableMatchesPorts

(* The invariant of devices: a buffer of a fixed size keeps it, and input  *)
(* is read to a place within its chunk.                                    *)
IsBuffer(kind, buffer) ==
  /\ buffer \in [bytes : Seq(Bytes), index : 0 .. Len(buffer.bytes)]
  /\ kind \in {"fixed", "buffer"} => Len(buffer.bytes) = BufferSize

InputOf(kind) == IF kind = "buffer" THEN Chunks ELSE <<FlattenSeq(Chunks)>>

IsDevice(kind, d) ==
  /\ d \in [input : {InputOf(kind)}, chunk : 1 .. Len(d.input) + 1, byte : Nat,
            output : {d.output}, error : {d.error}]
  /\ d.chunk <= Len(d.input) => d.byte <= Len(d.input[d.chunk])
  /\ kind # "buffer" => d.chunk = 1
  /\ IsBuffer(kind, d.output) /\ IsBuffer(kind, d.error)

DevicesInv == setup \in Setup /\ IsDevice(setup.device, device)

IInv == FilesInv /\ DevicesInv

-----------------------------------------------------------------------------
(* Pairs and functions. *)

LEMMA Pairs ==
  ASSUME NEW x, NEW y
  PROVE  Tail(<<x, y>>) = <<y>> /\ <<x>> \o <<y>> = <<x, y>> /\ <<x>> \o <<>> = <<x>>
<1>1. <<x, y>> \in Seq({x, y}) /\ <<x>> \in Seq({x, y}) /\ <<y>> \in Seq({x, y})
  OBVIOUS
<1>2. Tail(<<x, y>>) = <<y>>
  <2>1. /\ Tail(<<x, y>>) \in Seq({x, y})
        /\ Len(Tail(<<x, y>>)) = 1
        /\ Tail(<<x, y>>)[1] = y
    BY <1>1, HeadTailProperties
  <2> QED
    BY <2>1, <1>1, SeqEqual
<1>3. <<x>> \o <<y>> = <<x, y>>
  <2>1. /\ <<x>> \o <<y>> \in Seq({x, y})
        /\ Len(<<x>> \o <<y>>) = 2
        /\ (<<x>> \o <<y>>)[1] = x /\ (<<x>> \o <<y>>)[2] = y
    BY <1>1, ConcatProperties
  <2>2. Len(<<x, y>>) = 2 /\ <<x, y>>[1] = x /\ <<x, y>>[2] = y
    OBVIOUS
  <2>3. \A i \in 1 .. Len(<<x>> \o <<y>>) : (<<x>> \o <<y>>)[i] = <<x, y>>[i]
    BY <2>1, <2>2
  <2> QED
    BY <2>1, <2>2, <2>3, <1>1, SeqEqual
<1> QED
  BY <1>1, <1>2, <1>3, ConcatEmptySeq

LEMMA PutFacts ==
  ASSUME NEW f, NEW x, NEW v
  PROVE  /\ DOMAIN Put(f, x, v) = DOMAIN f \cup {x}
         /\ Put(f, x, v)[x] = v
         /\ \A z \in DOMAIN f : z # x => Put(f, x, v)[z] = f[z]
BY DEF Put

LEMMA PutType ==
  ASSUME NEW S, NEW T, NEW f \in [S -> T], NEW x, NEW v \in T
  PROVE  Put(f, x, v) \in [S \cup {x} -> T]
BY DEF Put

LEMMA RestrictFacts ==
  ASSUME NEW S, NEW T, NEW f \in [S -> T], NEW U, U \subseteq S
  PROVE  /\ Restrict(f, U) \in [U -> T]
         /\ \A z \in U : Restrict(f, U)[z] = f[z]
         /\ U = S => Restrict(f, U) = f
BY DEF Restrict

(* A set of numbers that is not empty has a least one. *)
LEMMA LeastOf ==
  ASSUME NEW S, S \subseteq Nat, S # {}
  PROVE  Min(S) \in S /\ \A n \in S : Min(S) <= n
<1> DEFINE Less == {ss \in Nat \X Nat : ss[1] < ss[2]}
<1>1. IsWellFoundedOn(Less, Nat)
  BY NatLessThanWellFounded DEF OpToRel
<1>2. PICK least \in S : \A n \in S : <<n, least>> \notin Less
  <2> HIDE DEF Less
  <2> QED
    BY <1>1, WFMin
<1>3. ASSUME NEW n \in S
      PROVE  least <= n
  <2>1. <<n, least>> \in Nat \X Nat /\ <<n, least>> \notin Less
    BY <1>2, <1>3
  <2>2. ~(n < least)
    BY <2>1
  <2> QED
    BY <2>2, <1>3
<1> QED
  BY <1>3 DEF Min

-----------------------------------------------------------------------------
(* What a primitive of files does on each file system. *)

LEMMA PrimitivesDiffer ==
  /\ OPEN_FILE = 200 /\ CLOSE_FILE = 201 /\ READ_FILE = 202 /\ WRITE_FILE = 203
  /\ DELETE_FILE = 204 /\ EXISTS_FILE = 205 /\ FLUSH_FILE = 206
BY DEF OPEN_FILE, CLOSE_FILE, READ_FILE, WRITE_FILE, DELETE_FILE, EXISTS_FILE, FLUSH_FILE

LEMMA DecodedPair ==
  ASSUME NEW x, NEW y
  PROVE  /\ Decoded(OPEN_FILE, <<x, y>>) = <<DecodeBytes(x), y>>
         /\ Decoded(WRITE_FILE, <<x, y>>) = <<x, y % 256>>
BY Pairs, PrimitivesDiffer DEF Decoded, Named

LEMMA DecodedOne ==
  ASSUME NEW x
  PROVE  /\ Decoded(DELETE_FILE, <<x>>)[1] = DecodeBytes(x)
         /\ Decoded(EXISTS_FILE, <<x>>)[1] = DecodeBytes(x)
         /\ Decoded(CLOSE_FILE, <<x>>) = <<x>>
         /\ Decoded(READ_FILE, <<x>>) = <<x>>
         /\ Decoded(FLUSH_FILE, <<x>>) = <<x>>
<1>1. Tail(<<x>>) = <<>>
  <2>1. <<x>> \in Seq({x}) /\ Len(<<x>>) = 1 /\ <<x>> # <<>>
    OBVIOUS
  <2>2. Tail(<<x>>) \in Seq({x}) /\ Len(Tail(<<x>>)) = 0
    BY <2>1, HeadTailProperties
  <2> QED
    BY <2>2
<1> QED
  BY <1>1, Pairs, PrimitivesDiffer DEF Decoded, Named

LEMMA SystemDoes ==
  ASSUME NEW f, NEW a
  PROVE  /\ SystemFiles(f, CLOSE_FILE, a) = SystemClose(f, a[1])
         /\ SystemFiles(f, READ_FILE, a) = SystemRead(f, a[1])
         /\ SystemFiles(f, WRITE_FILE, a) = SystemWrite(f, a[1], a[2])
         /\ SystemFiles(f, FLUSH_FILE, a) = SystemFlush(f, a[1])
         /\ SystemFiles(f, DELETE_FILE, a) = SystemDelete(f, a[1])
BY PrimitivesDiffer DEF SystemFiles

LEMMA MemoryDoes ==
  ASSUME NEW f, NEW a
  PROVE  /\ FilesOf("memory", f, OPEN_FILE, a) = MemoryOpen(f, a[1], a[2])
         /\ FilesOf("memory", f, CLOSE_FILE, a) = MemoryClose(f, a[1])
         /\ FilesOf("memory", f, READ_FILE, a) = MemoryRead(f, a[1])
         /\ FilesOf("memory", f, EXISTS_FILE, a) = ExistsIn(f, a[1])
         /\ \A p \in {WRITE_FILE, FLUSH_FILE, DELETE_FILE} : FilesOf("memory", f, p, a) = Fails(f)
BY PrimitivesDiffer DEF FilesOf, MemoryFiles

LEMMA OsDoes ==
  ASSUME NEW f, NEW a
  PROVE  /\ FilesOf("os", f, OPEN_FILE, a) = Fails(f) \cup SystemOpen(f, a[1], a[2])
         /\ FilesOf("os", f, EXISTS_FILE, a) = ExistsIn(f, a[1]) \cup Returns(Boolean(FALSE), f)
         /\ \A p \in {CLOSE_FILE, READ_FILE, WRITE_FILE, FLUSH_FILE, DELETE_FILE} :
              FilesOf("os", f, p, a) = SystemFiles(f, p, a)
BY PrimitivesDiffer DEF FilesOf, OsFiles, OsOpen

LEMMA LibcDoes ==
  ASSUME NEW f, NEW a
  PROVE  /\ FilesOf("libc", f, OPEN_FILE, a) = LibcOpen(f, a[1], a[2])
         /\ FilesOf("libc", f, EXISTS_FILE, a) = ExistsIn(f, a[1]) \cup Fails(f)
         /\ \A p \in {CLOSE_FILE, READ_FILE, WRITE_FILE, FLUSH_FILE, DELETE_FILE} :
              FilesOf("libc", f, p, a) = SystemFiles(f, p, a)
BY PrimitivesDiffer DEF FilesOf, LibcFiles

LEMMA SystemsDo ==
  ASSUME NEW kind \in {"os", "libc"}, NEW f, NEW a,
         NEW p \in {CLOSE_FILE, READ_FILE, WRITE_FILE, FLUSH_FILE, DELETE_FILE}
  PROVE  FilesOf(kind, f, p, a) = SystemFiles(f, p, a)
<1>1. FilesOf("os", f, p, a) = SystemFiles(f, p, a)
  BY OsDoes
<1>2. FilesOf("libc", f, p, a) = SystemFiles(f, p, a)
  BY LibcDoes
<1> QED
  BY <1>1, <1>2

LEMMA VoidDoes ==
  ASSUME NEW f, NEW primitive, NEW a
  PROVE  FilesOf("void", f, primitive, a) = Fails(f)
BY DEF FilesOf, VoidFiles

(* An operation that does not fail has decoded its arguments. *)
LEMMA Operates ==
  ASSUME NEW kind, NEW f, NEW primitive, NEW arguments,
         NEW step \in OperateFile(kind, f, primitive, arguments)
  PROVE  step \in Fails(f) \/ step \in FilesOf(kind, f, primitive, Decoded(primitive, arguments))
BY Zenon DEF OperateFile

Refused(step, f) == step.value = Failure /\ step.system = f

LEMMA Returned ==
  ASSUME NEW value, NEW f, NEW step \in Returns(value, f)
  PROVE  step.value = value /\ step.system = f
BY DEF Returns

LEMMA FailsRefuse ==
  ASSUME NEW f, NEW step \in Fails(f)
  PROVE  Refused(step, f)
BY DEF Fails, Returns, Refused

-----------------------------------------------------------------------------
(* Disks and tables stay what they are. *)

LEMMA DiskShape ==
  ASSUME NEW disk, IsDisk(disk)
  PROVE  /\ disk = [names |-> disk.names, contents |-> disk.contents]
         /\ disk.names \in [DOMAIN disk.names -> DOMAIN disk.contents]
         /\ disk.contents \in [DOMAIN disk.contents -> Seq(Bytes)]
         /\ \A x : [disk EXCEPT !.names = x] = [names |-> x, contents |-> disk.contents]
         /\ \A x : [disk EXCEPT !.contents = x] = [names |-> disk.names, contents |-> x]
BY DEF IsDisk

LEMMA DiskUpdated ==
  ASSUME NEW disk, IsDisk(disk), NEW x, NEW y
  PROVE  [disk EXCEPT !.names = x, !.contents = y] = [names |-> x, contents |-> y]
<1>1. [disk EXCEPT !.names = x] = [names |-> x, contents |-> disk.contents]
  BY DiskShape
<1>2. \A d : d = [names |-> x, contents |-> disk.contents]
               => [d EXCEPT !.contents = y] = [names |-> x, contents |-> y]
  OBVIOUS
<1> QED
  BY <1>1, <1>2, Zenon

LEMMA SystemShape ==
  ASSUME NEW f, IsSystem(f)
  PROVE  /\ f = [disk |-> f.disk, table |-> f.table, next |-> f.next]
         /\ f.table \in [DOMAIN f.table -> StreamsOn(f.disk)]
         /\ f.next \in Nat
         /\ IsDisk(f.disk)
         /\ DOMAIN f.table \subseteq Nat
BY DEF IsSystem

LEMMA SystemUpdated ==
  ASSUME NEW f, IsSystem(f), NEW x, NEW y, NEW z
  PROVE  [f EXCEPT !.disk = x, !.table = y, !.next = z] = [disk |-> x, table |-> y, next |-> z]
<1>1. [f EXCEPT !.disk = x] = [disk |-> x, table |-> f.table, next |-> f.next]
  BY SystemShape
<1>2. \A g : g = [disk |-> x, table |-> f.table, next |-> f.next]
               => [g EXCEPT !.table = y] = [disk |-> x, table |-> y, next |-> f.next]
  OBVIOUS
<1>3. \A g : g = [disk |-> x, table |-> y, next |-> f.next]
               => [g EXCEPT !.next = z] = [disk |-> x, table |-> y, next |-> z]
  OBVIOUS
<1> QED
  BY <1>1, <1>2, <1>3, Zenon

LEMMA TwoUpdated ==
  ASSUME NEW f, IsSystem(f), NEW x, NEW y
  PROVE  [f EXCEPT !.disk = x, !.table = y] = [disk |-> x, table |-> y, next |-> f.next]
<1>1. [f EXCEPT !.disk = x] = [disk |-> x, table |-> f.table, next |-> f.next]
  BY SystemShape
<1>2. \A g : g = [disk |-> x, table |-> f.table, next |-> f.next]
               => [g EXCEPT !.table = y] = [disk |-> x, table |-> y, next |-> f.next]
  OBVIOUS
<1> QED
  BY <1>1, <1>2, Zenon

LEMMA SystemMade ==
  ASSUME NEW disk, IsDisk(disk), NEW table, NEW S, S \subseteq Nat, NEW next \in Nat,
         table \in [S -> StreamsOn(disk)]
  PROVE  IsSystem([disk |-> disk, table |-> table, next |-> next])
BY DEF IsSystem

LEMMA DiskMade ==
  ASSUME NEW S, NEW T, NEW names \in [S -> T], NEW contents \in [T -> Seq(Bytes)]
  PROVE  IsDisk([names |-> names, contents |-> contents])
BY DEF IsDisk

LEMMA TruncatedDisk ==
  ASSUME NEW disk, IsDisk(disk), NEW name
  PROVE  /\ IsDisk(Truncated(disk, name))
         /\ name \in DOMAIN Truncated(disk, name).names
         /\ DOMAIN disk.contents \subseteq DOMAIN Truncated(disk, name).contents
<1> DEFINE file == IF name \in DOMAIN disk.names THEN disk.names[name] ELSE NewFile(disk)
           names == Put(disk.names, name, file)
           contents == Put(disk.contents, file, <<>>)
<1> HIDE DEF file
<1>1. Truncated(disk, name) = [names |-> names, contents |-> contents]
  <2>1. Truncated(disk, name) = [disk EXCEPT !.names = names, !.contents = contents]
    BY DEF Truncated, file
  <2> HIDE DEF names, contents
  <2> QED
    BY <2>1, DiskUpdated, Zenon
<1>2. contents \in [DOMAIN disk.contents \cup {file} -> Seq(Bytes)]
  <2>1. <<>> \in Seq(Bytes)
    OBVIOUS
  <2> QED
    BY <2>1, DiskShape, PutType
<1>3. names \in [DOMAIN disk.names \cup {name} -> DOMAIN disk.contents \cup {file}]
  <2>1. disk.names \in [DOMAIN disk.names -> DOMAIN disk.contents \cup {file}]
    BY DiskShape
  <2>2. file \in DOMAIN disk.contents \cup {file}
    OBVIOUS
  <2> QED
    BY <2>1, <2>2, PutType
<1> HIDE DEF names, contents
<1>4. IsDisk([names |-> names, contents |-> contents])
  BY <1>2, <1>3, DiskMade
<1> QED
  BY <1>1, <1>2, <1>3, <1>4

LEMMA LiveDisk ==
  ASSUME NEW names, NEW contents, NEW S, NEW T,
         names \in [S -> T], contents \in [T -> Seq(Bytes)],
         NEW streams, NEW U, streams \in [U -> [file : T, offset : Nat, output : BOOLEAN]]
  PROVE  LET disk == [names |-> names, contents |-> contents]
             live == WithoutDeadFiles(disk, streams)
         IN /\ IsDisk(live)
            /\ streams \in [U -> StreamsOn(live)]
            /\ live.names = names
<1> DEFINE disk == [names |-> names, contents |-> contents]
           live == WithoutDeadFiles(disk, streams)
           files == Range(names) \cup {s.file : s \in Range(streams)}
<1>1. files \subseteq T
  BY DEF Range
<1>2. live = [names |-> names, contents |-> Restrict(contents, files)]
  BY DEF WithoutDeadFiles
<1> HIDE DEF files
<1>3. Restrict(contents, files) \in [files -> Seq(Bytes)]
  BY <1>1, RestrictFacts
<1>4. names \in [S -> files]
  BY DEF files, Range
<1>5. IsDisk([names |-> names, contents |-> Restrict(contents, files)])
  BY <1>3, <1>4, DiskMade
<1>6. ASSUME NEW d \in U
      PROVE  streams[d] \in [file : files, offset : Nat, output : BOOLEAN]
  <2>1. streams[d].file \in files
    BY DEF files, Range
  <2>2. streams[d] \in [file : T, offset : Nat, output : BOOLEAN]
    OBVIOUS
  <2> QED
    BY <2>1, <2>2
<1> HIDE DEF live
<1>7. StreamsOn(live) = [file : files, offset : Nat, output : BOOLEAN]
  <2>1. DOMAIN live.contents = files
    BY <1>2, <1>3
  <2> QED
    BY <2>1 DEF StreamsOn
<1>8. streams \in [U -> StreamsOn(live)]
  BY <1>6, <1>7
<1>9. IsDisk(live) /\ live.names = names
  BY <1>2, <1>5
<1> QED
  BY <1>8, <1>9 DEF live

(* A table with one more stream, and with one less. *)
LEMMA PutTable ==
  ASSUME NEW f, IsSystem(f), NEW disk, IsDisk(disk),
         DOMAIN f.disk.contents \subseteq DOMAIN disk.contents,
         NEW d \in Nat, NEW name \in DOMAIN disk.names, NEW output \in BOOLEAN
  PROVE  Put(f.table, d, Stream(disk.names[name], output))
           \in [DOMAIN f.table \cup {d} -> StreamsOn(disk)]
<1>1. Stream(disk.names[name], output) \in StreamsOn(disk)
  BY DiskShape DEF Stream, StreamsOn
<1>2. f.table \in [DOMAIN f.table -> StreamsOn(disk)]
  <2>1. StreamsOn(f.disk) \subseteq StreamsOn(disk)
    BY DEF StreamsOn
  <2> QED
    BY <2>1, SystemShape
<1> QED
  BY <1>1, <1>2, PutType

-----------------------------------------------------------------------------
(* The outcomes of an open.  It refuses, or refuses after it has emptied   *)
(* the file, or opens a stream in an entry that was free.                  *)

Emptied(step, f, name, output) ==
  /\ output
  /\ step.value = Failure
  /\ step.system = [f EXCEPT !.disk = Truncated(f.disk, name)]

OpenedDisk(f, name, output) == IF output THEN Truncated(f.disk, name) ELSE f.disk

OpensAt(step, f, name, output, d) ==
  /\ d \in Nat \ DOMAIN f.table
  /\ output \/ name \in DOMAIN f.disk.names
  /\ step.value = Descriptor(d)
  /\ step.system.disk = OpenedDisk(f, name, output)
  /\ step.system.table = Put(f.table, d, Stream(step.system.disk.names[name], output))

LEMMA FreeEntry ==
  ASSUME NEW table, 0 .. Capacity - 1 \ DOMAIN table # {}
  PROVE  Min(0 .. Capacity - 1 \ DOMAIN table) \in 0 .. Capacity - 1 \ DOMAIN table
<1> DEFINE free == 0 .. Capacity - 1 \ DOMAIN table
<1>1. free \subseteq Nat
  BY InputOutputAssumption
<1> HIDE DEF free
<1>2. free # {} => Min(free) \in free
  BY <1>1, LeastOf
<1> QED
  BY <1>2 DEF free

LEMMA MemoryOpens ==
  ASSUME NEW f, IsSystem(f), Fits("memory", f), NEW name, NEW output \in BOOLEAN,
         NEW step \in MemoryOpen(f, name, output)
  PROVE  /\ IsSystem(step.system) /\ Fits("memory", step.system)
         /\ Refused(step, f) \/ \E d \in Nat : OpensAt(step, f, name, output, d)
<1> DEFINE free == 0 .. Capacity - 1 \ DOMAIN f.table
           d == Min(free)
<1>1. CASE output \/ name \notin DOMAIN f.disk.names \/ free = {}
  <2>1. step \in Fails(f)
    BY <1>1, Zenon DEF MemoryOpen
  <2> QED
    BY <2>1, FailsRefuse DEF Refused
<1>2. CASE ~output /\ name \in DOMAIN f.disk.names /\ free # {}
  <2>1. d \in free
    BY <1>2, FreeEntry
  <2> DEFINE table == Put(f.table, d, Stream(f.disk.names[name], FALSE))
  <2>2. step \in Returns(Descriptor(d), [f EXCEPT !.table = table])
    BY <1>2, Zenon DEF MemoryOpen
  <2>3. d \in Nat
    BY <2>1, InputOutputAssumption
  <2> HIDE DEF free, d
  <2>4. table \in [DOMAIN f.table \cup {d} -> StreamsOn(f.disk)]
    BY <1>2, <2>3, SystemShape, PutTable
  <2> DEFINE stream == Stream(f.disk.names[name], FALSE)
  <2>a. /\ DOMAIN table = DOMAIN f.table \cup {d}
        /\ table[d] = stream
        /\ \A e \in DOMAIN f.table : e # d => table[e] = f.table[e]
    <3> HIDE DEF stream
    <3>1. table = Put(f.table, d, stream)
      BY DEF stream
    <3> HIDE DEF table
    <3> QED
      BY <3>1 DEF Put
  <2>b. ~stream.output
    BY DEF Stream
  <2>c. DOMAIN f.table \subseteq 0 .. Capacity - 1 /\ \A e \in DOMAIN f.table : ~f.table[e].output
    BY DEF Fits
  <2> HIDE DEF table, stream
  <2>5. \A e \in DOMAIN table : ~table[e].output
    BY <2>a, <2>b, <2>c
  <2>6. DOMAIN table \subseteq 0 .. Capacity - 1
    BY <2>1, <2>a, <2>c DEF free
  <2>7. step.value = Descriptor(d) /\ step.system = [f EXCEPT !.table = table]
    BY <2>2, Returned
  <2>8. step.system = [disk |-> f.disk, table |-> table, next |-> f.next]
    BY <2>7, SystemShape
  <2>9. IsSystem(step.system)
    BY <2>3, <2>4, <2>8, SystemShape, SystemMade
  <2>10. Fits("memory", step.system)
    BY <2>5, <2>6, <2>8 DEF Fits
  <2>11. OpensAt(step, f, name, output, d)
    BY <1>2, <2>1, <2>3, <2>7, <2>8 DEF OpensAt, OpenedDisk, free, table
  <2> QED
    BY <2>3, <2>9, <2>10, <2>11
<1> QED
  BY <1>1, <1>2

LEMMA SystemOpens ==
  ASSUME NEW kind \in {"os", "libc"}, NEW f, IsSystem(f), Fits(kind, f), NEW name,
         NEW output \in BOOLEAN, NEW step \in SystemOpen(f, name, output)
  PROVE  /\ IsSystem(step.system) /\ Fits(kind, step.system)
         /\ OpensAt(step, f, name, output, f.next)
         /\ IsSystem([f EXCEPT !.disk = step.system.disk])
         /\ Fits(kind, [f EXCEPT !.disk = step.system.disk])
<1> DEFINE disk == OpenedDisk(f, name, output)
           table == Put(f.table, f.next, Stream(disk.names[name], output))
<1>1. output \/ name \in DOMAIN f.disk.names
  BY Zenon DEF SystemOpen
<1>2. step \in Returns(Descriptor(f.next),
                       [f EXCEPT !.disk = disk, !.table = table, !.next = f.next + 1])
  BY <1>1, Zenon DEF SystemOpen, OpenedDisk
<1>3. /\ IsDisk(disk) /\ name \in DOMAIN disk.names
      /\ DOMAIN f.disk.contents \subseteq DOMAIN disk.contents
  BY <1>1, SystemShape, TruncatedDisk DEF OpenedDisk
<1>4. f.next \in Nat \ DOMAIN f.table
  BY SystemShape DEF Fits
<1> HIDE DEF disk
<1>5. table \in [DOMAIN f.table \cup {f.next} -> StreamsOn(disk)]
  BY <1>3, <1>4, PutTable
<1> HIDE DEF table
<1>6. step.value = Descriptor(f.next)
  BY <1>2, Returned
<1>7. step.system = [disk |-> disk, table |-> table, next |-> f.next + 1]
  <2>1. step.system = [f EXCEPT !.disk = disk, !.table = table, !.next = f.next + 1]
    BY <1>2, Returned
  <2>2. [f EXCEPT !.disk = disk, !.table = table, !.next = f.next + 1]
          = [disk |-> disk, table |-> table, next |-> f.next + 1]
    <3>1. \A x, y, z : [f EXCEPT !.disk = x, !.table = y, !.next = z]
                        = [disk |-> x, table |-> y, next |-> z]
      BY SystemUpdated
    <3> QED
      BY <3>1, Zenon
  <2> QED
    BY <2>1, <2>2, Zenon
<1>8. IsSystem(step.system)
  BY <1>3, <1>4, <1>5, <1>7, SystemMade, SystemShape
<1>9. Fits(kind, step.system)
  BY <1>4, <1>5, <1>7, SystemShape DEF Fits
<1>10. OpensAt(step, f, name, output, f.next)
  BY <1>1, <1>4, <1>6, <1>7 DEF OpensAt, disk, table
<1>11. [f EXCEPT !.disk = disk] = [disk |-> disk, table |-> f.table, next |-> f.next]
  BY SystemShape
<1>12. f.table \in [DOMAIN f.table -> StreamsOn(disk)]
  BY <1>3, SystemShape DEF StreamsOn
<1>13. IsSystem([f EXCEPT !.disk = disk])
  BY <1>3, <1>11, <1>12, SystemShape, SystemMade
<1>14. Fits(kind, [f EXCEPT !.disk = disk])
  BY <1>11, <1>12 DEF Fits
<1> QED
  BY <1>7, <1>8, <1>9, <1>10, <1>13, <1>14

LEMMA LibcOpens ==
  ASSUME NEW f, IsSystem(f), Fits("libc", f), NEW name, NEW output \in BOOLEAN,
         NEW step \in LibcOpen(f, name, output)
  PROVE  /\ IsSystem(step.system) /\ Fits("libc", step.system)
         /\ \/ Refused(step, f)
            \/ Emptied(step, f, name, output)
            \/ \E d \in Nat : OpensAt(step, f, name, output, d)
<1>1. CASE step \in Fails(f)
  BY <1>1, FailsRefuse DEF Refused
<1>2. CASE Cardinality(DOMAIN f.table) < Capacity /\ step \in SystemOpen(f, name, output)
  BY <1>2, SystemOpens, SystemShape
<1>3. CASE step \in {[value |-> Failure, system |-> [f EXCEPT !.disk = s.system.disk]] :
                       s \in SystemOpen(f, name, output)}
  <2>1. PICK s \in SystemOpen(f, name, output) :
          step = [value |-> Failure, system |-> [f EXCEPT !.disk = s.system.disk]]
    BY <1>3
  <2>2. step.value = Failure /\ step.system = [f EXCEPT !.disk = s.system.disk]
    BY <2>1
  <2>3. IsSystem(step.system) /\ Fits("libc", step.system)
    BY <2>2, SystemOpens
  <2>4. s.system.disk = OpenedDisk(f, name, output)
    BY SystemOpens DEF OpensAt
  <2>5. CASE output
    BY <2>2, <2>3, <2>4, <2>5 DEF Emptied, OpenedDisk
  <2>6. CASE ~output
    <3>1. [f EXCEPT !.disk = f.disk] = f
      BY SystemShape
    <3> QED
      BY <2>2, <2>3, <2>4, <2>6, <3>1 DEF Refused, OpenedDisk
  <2> QED
    BY <2>5, <2>6
<1> QED
  BY <1>1, <1>2, <1>3, Zenon DEF LibcOpen

LEMMA Opens ==
  ASSUME NEW kind \in Kinds, NEW f, IsSystem(f), Fits(kind, f), NEW path,
         NEW output \in BOOLEAN, NEW step \in OperateFile(kind, f, OPEN_FILE, <<path, output>>)
  PROVE  LET name == DecodeBytes(path)
         IN /\ IsSystem(step.system) /\ Fits(kind, step.system)
            /\ \/ Refused(step, f)
               \/ Emptied(step, f, name, output)
               \/ \E d \in Nat : OpensAt(step, f, name, output, d)
<1> DEFINE name == DecodeBytes(path)
           a == <<name, output>>
<1>1. CASE step \in Fails(f)
  BY <1>1, FailsRefuse DEF Refused
<1>2. CASE step \in FilesOf(kind, f, OPEN_FILE, a) /\ step \notin Fails(f)
  <2>1. a[1] = name /\ a[2] = output
    OBVIOUS
  <2> HIDE DEF a, name
  <2>2. CASE kind = "memory"
    <3>1. step \in MemoryOpen(f, name, output)
      BY <1>2, <2>1, <2>2, MemoryDoes
    <3> QED
      BY <2>2, <3>1, MemoryOpens DEF name
  <2>3. CASE kind = "os"
    <3>0. FilesOf("os", f, OPEN_FILE, a) = Fails(f) \cup SystemOpen(f, a[1], a[2])
      BY OsDoes
    <3>1. step \in SystemOpen(f, name, output)
      BY <1>2, <2>1, <2>3, <3>0
    <3> QED
      BY <2>3, <3>1, SystemOpens, SystemShape DEF name
  <2>4. CASE kind = "libc"
    <3>1. step \in LibcOpen(f, name, output)
      BY <1>2, <2>1, <2>4, LibcDoes
    <3> QED
      BY <2>4, <3>1, LibcOpens DEF name
  <2> QED
    BY <1>2, <2>2, <2>3, <2>4, VoidDoes DEF Kinds
<1>3. step \in Fails(f) \/ step \in FilesOf(kind, f, OPEN_FILE, a)
  <2>1. Decoded(OPEN_FILE, <<path, output>>) = a
    BY DecodedPair
  <2> QED
    BY <2>1, Operates
<1> QED
  BY <1>1, <1>2, <1>3

-----------------------------------------------------------------------------
(* The outcomes of the other primitives. *)

ClosesAt(step, f, d) ==
  /\ step.value = Done
  /\ step.system.table = Restrict(f.table, DOMAIN f.table \ {d})
  /\ step.system.disk = WithoutDeadFiles(f.disk, step.system.table)

ReadsAt(step, f, d) ==
  /\ ~f.table[d].output
  /\ step.system.disk = f.disk
  /\ LET stream == f.table[d]
         bytes == f.disk.contents[stream.file]
     IN IF stream.offset < Len(bytes)
        THEN /\ step.value = ByteRead(bytes[stream.offset + 1])
             /\ step.system.table = [f.table EXCEPT ![d].offset = stream.offset + 1]
        ELSE step.value = None /\ step.system = f

WritesAt(step, f, d, byte) ==
  /\ f.table[d].output
  /\ step.value = Done
  /\ LET stream == f.table[d]
     IN /\ step.system.disk =
             [f.disk EXCEPT !.contents[stream.file] = WriteAt(@, stream.offset, byte)]
        /\ step.system.table = [f.table EXCEPT ![d].offset = stream.offset + 1]

Deletes(step, f, name) ==
  /\ name \in DOMAIN f.disk.names
  /\ step.value = Done
  /\ step.system.table = f.table
  /\ step.system.disk = WithoutDeadFiles(Unlinked(f.disk, name), f.table)

Tells(step, f, seen) == step.value = Boolean(seen) /\ step.system = f

(* Closing. *)
LEMMA RestTable ==
  ASSUME NEW f, IsSystem(f), NEW d
  PROVE  Restrict(f.table, DOMAIN f.table \ {d}) \in [DOMAIN f.table \ {d} -> StreamsOn(f.disk)]
BY SystemShape, RestrictFacts

LEMMA AllAlive ==
  ASSUME NEW streams, NEW U, streams \in [U -> StreamsOn(Disk)]
  PROVE  WithoutDeadFiles(Disk, streams) = Disk /\ IsDisk(Disk)
<1> DEFINE files == Range(Disk.names) \cup {s.file : s \in Range(streams)}
<1>1. files = DOMAIN Disk.contents
  BY InputOutputAssumption DEF Range, StreamsOn
<1>2. IsDisk(Disk)
  BY InputOutputAssumption DEF IsDisk, Bytes
<1>3. WithoutDeadFiles(Disk, streams) = [Disk EXCEPT !.contents = Restrict(Disk.contents, files)]
  BY DEF WithoutDeadFiles
<1> HIDE DEF files
<1>4. Restrict(Disk.contents, files) = Disk.contents
  <2>1. Disk.contents \in [files -> Seq(Bytes)]
    BY <1>1, <1>2, DiskShape
  <2> QED
    BY <2>1 DEF Restrict
<1>5. [Disk EXCEPT !.contents = Disk.contents] = Disk
  BY <1>2, DiskShape
<1> QED
  BY <1>2, <1>3, <1>4, <1>5

LEMMA Closes ==
  ASSUME NEW kind \in Kinds, NEW f, IsSystem(f), Fits(kind, f), NEW d \in DOMAIN f.table,
         NEW step \in OperateFile(kind, f, CLOSE_FILE, <<d>>)
  PROVE  /\ IsSystem(step.system) /\ Fits(kind, step.system)
         /\ Refused(step, f) \/ ClosesAt(step, f, d)
<1> DEFINE a == <<d>>
           table == Restrict(f.table, DOMAIN f.table \ {d})
<1>1. CASE step \in Fails(f)
  BY <1>1, FailsRefuse DEF Refused
<1>2. ASSUME step \in FilesOf(kind, f, CLOSE_FILE, a), step \notin Fails(f)
      PROVE  /\ IsSystem(step.system) /\ Fits(kind, step.system)
             /\ ClosesAt(step, f, d)
  <2>1. a[1] = d
    OBVIOUS
  <2>2. table \in [DOMAIN f.table \ {d} -> StreamsOn(f.disk)]
    BY RestTable
  <2>3. Without(f, d) = [disk |-> f.disk, table |-> table, next |-> f.next]
    BY SystemShape DEF Without
  <2>4. DOMAIN f.table \ {d} \subseteq Nat
    BY SystemShape
  <2>5. \A e \in DOMAIN table : table[e] = f.table[e] /\ e \in DOMAIN f.table
    BY DEF Restrict
  <2> HIDE DEF a
  <2>6. CASE kind = "memory"
    <3>1. step \in MemoryClose(f, d)
      BY <1>2, <2>1, <2>6, MemoryDoes
    <3>2. step \in Returns(Done, Without(f, d))
      BY <1>2, <3>1 DEF MemoryClose
    <3> HIDE DEF table
    <3>3. step.value = Done /\ step.system = [disk |-> f.disk, table |-> table, next |-> f.next]
      BY <2>3, <3>2, Returned
    <3>4. IsSystem(step.system)
      BY <2>2, <2>4, <3>3, SystemMade, SystemShape
    <3>5. Fits(kind, step.system)
      BY <2>5, <2>6, <3>3 DEF Fits
    <3>6. f.disk = Disk
      BY <2>6 DEF Fits
    <3>7. f.disk = WithoutDeadFiles(f.disk, table)
      BY <2>2, <3>6, AllAlive
    <3> QED
      BY <3>3, <3>4, <3>5, <3>7 DEF ClosesAt, table
  <2>7. CASE kind \in {"os", "libc"}
    <3>0. FilesOf(kind, f, CLOSE_FILE, a) = SystemClose(f, a[1])
      BY <2>7, SystemsDo, SystemDoes
    <3>1. step \in SystemClose(f, d)
      BY <1>2, <2>1, <3>0
    <3> DEFINE disk == WithoutDeadFiles(f.disk, table)
    <3> HIDE DEF table
    <3>2. /\ step.value = Done
          /\ step.system = [Without(f, d) EXCEPT !.disk = WithoutDeadFiles(@, Without(f, d).table)]
      BY <3>1, Returned DEF SystemClose
    <3>3. step.system = [disk |-> disk, table |-> table, next |-> f.next]
      BY <2>3, <3>2
    <3>4. IsDisk(disk) /\ table \in [DOMAIN f.table \ {d} -> StreamsOn(disk)]
      <4>1. f.disk = [names |-> f.disk.names, contents |-> f.disk.contents]
        BY SystemShape, DiskShape
      <4>2. /\ f.disk.names \in [DOMAIN f.disk.names -> DOMAIN f.disk.contents]
            /\ f.disk.contents \in [DOMAIN f.disk.contents -> Seq(Bytes)]
        BY SystemShape, DiskShape
      <4>3. /\ IsDisk(WithoutDeadFiles([names |-> f.disk.names, contents |-> f.disk.contents], table))
            /\ table \in [DOMAIN f.table \ {d} -> StreamsOn(WithoutDeadFiles(
                            [names |-> f.disk.names, contents |-> f.disk.contents], table))]
        BY <2>2, <4>2, LiveDisk DEF StreamsOn
      <4> QED
        BY <4>1, <4>3, Zenon
    <3> HIDE DEF disk
    <3>5. IsSystem(step.system)
      BY <2>4, <3>3, <3>4, SystemMade, SystemShape
    <3>6. Fits(kind, step.system)
      BY <2>5, <2>7, <3>3 DEF Fits
    <3> QED
      BY <3>2, <3>3, <3>5, <3>6 DEF ClosesAt, table, disk
  <2> QED
    BY <1>2, <2>6, <2>7, VoidDoes DEF Kinds
<1>3. step \in Fails(f) \/ step \in FilesOf(kind, f, CLOSE_FILE, a)
  BY DecodedOne, Operates
<1> QED
  BY <1>1, <1>2, <1>3

(* Reading. *)
LEMMA StreamMoved ==
  ASSUME NEW f, IsSystem(f), NEW d \in DOMAIN f.table
  PROVE  [f.table EXCEPT ![d].offset = f.table[d].offset + 1]
           \in [DOMAIN f.table -> StreamsOn(f.disk)]
<1>1. f.table \in [DOMAIN f.table -> StreamsOn(f.disk)]
  BY SystemShape
<1>2. [f.table[d] EXCEPT !.offset = f.table[d].offset + 1] \in StreamsOn(f.disk)
  BY <1>1 DEF StreamsOn
<1> QED
  BY <1>1, <1>2

LEMMA StreamKept ==
  ASSUME NEW f, IsSystem(f), NEW d \in DOMAIN f.table, NEW x
  PROVE  LET table == [f.table EXCEPT ![d].offset = x]
         IN /\ DOMAIN table = DOMAIN f.table
            /\ \A e \in DOMAIN f.table : table[e].output = f.table[e].output
BY SystemShape DEF StreamsOn

LEMMA FitsMoved ==
  ASSUME NEW kind, NEW f, IsSystem(f), Fits(kind, f), NEW g,
         kind = "memory" => g.disk = f.disk, g.next = f.next,
         DOMAIN g.table = DOMAIN f.table,
         \A e \in DOMAIN f.table : g.table[e].output = f.table[e].output
  PROVE  Fits(kind, g)
BY DEF Fits

LEMMA StreamsRead ==
  ASSUME NEW kind, NEW f, IsSystem(f), Fits(kind, f), NEW d \in DOMAIN f.table,
         ~f.table[d].output, NEW step \in ReadStream(f, d)
  PROVE  ReadsAt(step, f, d) /\ IsSystem(step.system) /\ Fits(kind, step.system)
<1> DEFINE stream == f.table[d]
           bytes == f.disk.contents[stream.file]
           table == [f.table EXCEPT ![d].offset = stream.offset + 1]
<1>1. CASE stream.offset < Len(bytes)
  <2>1. step \in Returns(ByteRead(bytes[stream.offset + 1]), [f EXCEPT !.table[d].offset = stream.offset + 1])
    BY <1>1 DEF ReadStream
  <2>2. [f EXCEPT !.table[d].offset = stream.offset + 1] = [disk |-> f.disk, table |-> table, next |-> f.next]
    BY SystemShape
  <2>3. /\ step.value = ByteRead(bytes[stream.offset + 1])
        /\ step.system = [disk |-> f.disk, table |-> table, next |-> f.next]
    BY <2>1, <2>2, Returned
  <2>4. table \in [DOMAIN f.table -> StreamsOn(f.disk)]
    BY StreamMoved
  <2>5. IsSystem(step.system)
    <3> HIDE DEF table
    <3> QED
      BY <2>3, <2>4, SystemShape, SystemMade
  <2>6. /\ DOMAIN table = DOMAIN f.table
        /\ \A e \in DOMAIN f.table : table[e].output = f.table[e].output
    BY StreamKept
  <2>7. Fits(kind, step.system)
    <3> HIDE DEF table
    <3> QED
      BY <2>3, <2>6, FitsMoved
  <2> QED
    BY <1>1, <2>3, <2>5, <2>7 DEF ReadsAt
<1>2. CASE ~(stream.offset < Len(bytes))
  <2>1. step \in Returns(None, f)
    BY <1>2 DEF ReadStream
  <2> QED
    BY <1>2, <2>1, Returned DEF ReadsAt
<1> QED
  BY <1>1, <1>2

LEMMA Reads ==
  ASSUME NEW kind \in Kinds, NEW f, IsSystem(f), Fits(kind, f), NEW d \in DOMAIN f.table,
         NEW step \in OperateFile(kind, f, READ_FILE, <<d>>)
  PROVE  /\ IsSystem(step.system) /\ Fits(kind, step.system)
         /\ Refused(step, f) \/ ReadsAt(step, f, d)
<1> DEFINE a == <<d>>
<1>1. CASE step \in Fails(f)
  BY <1>1, FailsRefuse DEF Refused
<1>2. ASSUME step \in FilesOf(kind, f, READ_FILE, a), step \notin Fails(f)
      PROVE  /\ IsSystem(step.system) /\ Fits(kind, step.system)
             /\ ReadsAt(step, f, d)
  <2>1. a[1] = d
    OBVIOUS
  <2> HIDE DEF a
  <2>2. ASSUME kind = "memory"
        PROVE  step \in ReadStream(f, d) /\ ~f.table[d].output
    BY <1>2, <2>1, <2>2, MemoryDoes DEF MemoryRead, Fits
  <2>3. ASSUME kind \in {"os", "libc"}
        PROVE  step \in ReadStream(f, d) /\ ~f.table[d].output
    <3>1. FilesOf(kind, f, READ_FILE, a) = SystemRead(f, a[1])
      BY <2>3, SystemsDo, SystemDoes
    <3> QED
      BY <1>2, <2>1, <3>1 DEF SystemRead
  <2>4. step \in ReadStream(f, d) /\ ~f.table[d].output
    BY <1>2, <2>2, <2>3, VoidDoes DEF Kinds
  <2>5. ReadsAt(step, f, d) /\ IsSystem(step.system) /\ Fits(kind, step.system)
    BY <2>4, StreamsRead
  <2> QED
    BY <2>5
<1>3. step \in Fails(f) \/ step \in FilesOf(kind, f, READ_FILE, a)
  BY DecodedOne, Operates
<1> QED
  BY <1>1, <1>2, <1>3

(* Writing. *)
LEMMA LongerOf ==
  ASSUME NEW m \in Nat, NEW n \in Nat
  PROVE  Max({m, n}) \in Nat /\ Max({m, n}) >= m /\ Max({m, n}) >= n
<1>1. \E x \in {m, n} : \A y \in {m, n} : x >= y
  OBVIOUS
<1>2. Max({m, n}) \in {m, n} /\ \A y \in {m, n} : Max({m, n}) >= y
  BY <1>1 DEF Max
<1> QED
  BY <1>2

LEMMA WrittenBytes ==
  ASSUME NEW bytes \in Seq(Bytes), NEW offset \in Nat, NEW byte \in Bytes
  PROVE  WriteAt(bytes, offset, byte) \in Seq(Bytes)
<1> DEFINE length == Max({Len(bytes), offset + 1})
<1>1. length \in Nat
  BY LongerOf
<1> HIDE DEF length
<1>2. \A i \in 1 .. length : WriteAt(bytes, offset, byte)[i] \in Bytes
  <2>1. ASSUME NEW i \in 1 .. length
        PROVE  WriteAt(bytes, offset, byte)[i] \in Bytes
    <3>1. WriteAt(bytes, offset, byte)[i] =
            CASE i = offset + 1 -> byte
              [] i # offset + 1 /\ i <= Len(bytes) -> bytes[i]
              [] OTHER -> 0
      BY <2>1 DEF WriteAt, length, Zero
    <3>2. CASE i = offset + 1
      BY <3>1, <3>2
    <3>3. CASE i # offset + 1 /\ i <= Len(bytes)
      <4>1. WriteAt(bytes, offset, byte)[i] = bytes[i]
        BY <3>1, <3>3
      <4> QED
        BY <4>1, <3>3, <2>1, <1>1
    <3>4. CASE i # offset + 1 /\ ~(i <= Len(bytes))
      <4>1. WriteAt(bytes, offset, byte)[i] = 0
        BY <3>1, <3>4
      <4> QED
        BY <4>1 DEF Bytes
    <3> QED
      BY <3>2, <3>3, <3>4
  <2> QED
    BY <2>1
<1>3. DOMAIN WriteAt(bytes, offset, byte) = 1 .. length
  BY DEF WriteAt, length
<1>4. WriteAt(bytes, offset, byte) = [i \in 1 .. length |-> WriteAt(bytes, offset, byte)[i]]
  BY DEF WriteAt, length
<1>5. WriteAt(bytes, offset, byte) \in [1 .. length -> Bytes]
  BY <1>2, <1>4
<1> QED
  BY <1>1, <1>5

LEMMA StreamsWritten ==
  ASSUME NEW kind \in {"os", "libc"}, NEW f, IsSystem(f), Fits(kind, f), NEW d \in DOMAIN f.table,
         NEW byte \in Bytes, NEW step \in SystemWrite(f, d, byte), step \notin Fails(f)
  PROVE  WritesAt(step, f, d, byte) /\ IsSystem(step.system) /\ Fits(kind, step.system)
<1> DEFINE stream == f.table[d]
           written == WriteAt(f.disk.contents[stream.file], stream.offset, byte)
           contents == [f.disk.contents EXCEPT ![stream.file] = written]
           disk == [f.disk EXCEPT !.contents[stream.file] = written]
           table == [f.table EXCEPT ![d].offset = stream.offset + 1]
<1>1. stream.output /\ step \in Returns(Done, [f EXCEPT !.disk = disk, !.table = table])
  BY Zenon DEF SystemWrite
<1>2. written \in Seq(Bytes)
  <2>1. stream \in StreamsOn(f.disk)
    BY SystemShape
  <2> QED
    BY <2>1, SystemShape, DiskShape, WrittenBytes DEF StreamsOn
<1> HIDE DEF written
<1>3. contents \in [DOMAIN f.disk.contents -> Seq(Bytes)]
  BY <1>2, SystemShape, DiskShape
<1>4. disk = [names |-> f.disk.names, contents |-> contents]
  BY SystemShape, DiskShape
<1>5. IsDisk(disk) /\ DOMAIN disk.contents = DOMAIN f.disk.contents
  <2>1. f.disk.names \in [DOMAIN f.disk.names -> DOMAIN f.disk.contents]
    BY SystemShape, DiskShape
  <2> HIDE DEF contents, disk
  <2> QED
    BY <1>3, <1>4, <2>1, DiskMade
<1>6. table \in [DOMAIN f.table -> StreamsOn(disk)]
  <2>1. StreamsOn(disk) = StreamsOn(f.disk)
    <3> HIDE DEF disk
    <3> QED
      BY <1>5 DEF StreamsOn
  <2> QED
    BY <2>1, StreamMoved
<1>7. /\ DOMAIN table = DOMAIN f.table
      /\ \A e \in DOMAIN f.table : table[e].output = f.table[e].output
  BY StreamKept
<1> HIDE DEF disk, table
<1>8. step.value = Done /\ step.system = [disk |-> disk, table |-> table, next |-> f.next]
  <2>1. step.value = Done /\ step.system = [f EXCEPT !.disk = disk, !.table = table]
    BY <1>1, Returned
  <2>2. [f EXCEPT !.disk = disk, !.table = table] = [disk |-> disk, table |-> table, next |-> f.next]
    BY TwoUpdated, Zenon
  <2> QED
    BY <2>1, <2>2, Zenon
<1>9. WritesAt(step, f, d, byte)
  BY <1>1, <1>8 DEF WritesAt, disk, table, written
<1>10. IsSystem(step.system)
  BY <1>5, <1>6, <1>8, SystemMade, SystemShape
<1>11. Fits(kind, step.system)
  BY <1>7, <1>8, FitsMoved
<1> QED
  BY <1>9, <1>10, <1>11

LEMMA Writes ==
  ASSUME NEW kind \in Kinds, NEW f, IsSystem(f), Fits(kind, f), NEW d \in DOMAIN f.table,
         NEW byte \in Nat, NEW step \in OperateFile(kind, f, WRITE_FILE, <<d, byte>>)
  PROVE  /\ IsSystem(step.system) /\ Fits(kind, step.system)
         /\ Refused(step, f) \/ WritesAt(step, f, d, byte % 256)
<1> DEFINE a == <<d, byte % 256>>
<1>1. CASE step \in Fails(f)
  BY <1>1, FailsRefuse DEF Refused
<1>2. ASSUME step \in FilesOf(kind, f, WRITE_FILE, a), step \notin Fails(f)
      PROVE  /\ IsSystem(step.system) /\ Fits(kind, step.system)
             /\ WritesAt(step, f, d, byte % 256)
  <2>1. a[1] = d /\ a[2] = byte % 256 /\ byte % 256 \in Bytes
    BY DEF Bytes
  <2> HIDE DEF a
  <2>2. kind \in {"os", "libc"}
    BY <1>2, MemoryDoes, VoidDoes DEF Kinds
  <2>3. FilesOf(kind, f, WRITE_FILE, a) = SystemWrite(f, d, byte % 256)
    BY <2>1, <2>2, SystemsDo, SystemDoes
  <2> QED
    BY <1>2, <2>1, <2>2, <2>3, StreamsWritten
<1>3. step \in Fails(f) \/ step \in FilesOf(kind, f, WRITE_FILE, a)
  <2>1. Decoded(WRITE_FILE, <<d, byte>>) = a
    BY DecodedPair
  <2> QED
    BY <2>1, Operates
<1> QED
  BY <1>1, <1>2, <1>3

(* Flushing, deleting and asking whether a file exists. *)
LEMMA Flushes ==
  ASSUME NEW kind \in Kinds, NEW f, IsSystem(f), Fits(kind, f), NEW d \in DOMAIN f.table,
         NEW step \in OperateFile(kind, f, FLUSH_FILE, <<d>>)
  PROVE  step.system = f /\ step.value \in {Failure, Done}
<1> DEFINE a == <<d>>
<1>1. CASE step \in Fails(f)
  BY <1>1, FailsRefuse DEF Refused
<1>2. ASSUME step \in FilesOf(kind, f, FLUSH_FILE, a), step \notin Fails(f)
      PROVE  step.system = f /\ step.value \in {Failure, Done}
  <2>1. a[1] = d
    OBVIOUS
  <2> HIDE DEF a
  <2>2. kind \in {"os", "libc"}
    BY <1>2, MemoryDoes, VoidDoes DEF Kinds
  <2>3. FilesOf(kind, f, FLUSH_FILE, a) = SystemFlush(f, d)
    BY <2>1, <2>2, SystemsDo, SystemDoes
  <2>4. step \in Returns(Done, f)
    BY <1>2, <2>3 DEF SystemFlush
  <2> QED
    BY <2>4, Returned
<1>3. step \in Fails(f) \/ step \in FilesOf(kind, f, FLUSH_FILE, a)
  BY DecodedOne, Operates
<1> QED
  BY <1>1, <1>2, <1>3

LEMMA UnlinkedDisk ==
  ASSUME NEW f, IsSystem(f), NEW name
  PROVE  LET disk == WithoutDeadFiles(Unlinked(f.disk, name), f.table)
         IN IsDisk(disk) /\ f.table \in [DOMAIN f.table -> StreamsOn(disk)]
<1> DEFINE names == Restrict(f.disk.names, DOMAIN f.disk.names \ {name})
           contents == f.disk.contents
           unlinked == [names |-> names, contents |-> contents]
<1>1. Unlinked(f.disk, name) = unlinked
  BY SystemShape, DiskShape DEF Unlinked
<1>2. names \in [DOMAIN f.disk.names \ {name} -> DOMAIN contents]
  <2>1. f.disk.names \in [DOMAIN f.disk.names -> DOMAIN contents]
    BY SystemShape, DiskShape
  <2> QED
    BY <2>1, RestrictFacts
<1>3. contents \in [DOMAIN contents -> Seq(Bytes)]
  BY SystemShape, DiskShape
<1>4. f.table \in [DOMAIN f.table -> [file : DOMAIN contents, offset : Nat, output : BOOLEAN]]
  BY SystemShape DEF StreamsOn
<1> HIDE DEF names, contents
<1>5. /\ IsDisk(WithoutDeadFiles(unlinked, f.table))
      /\ f.table \in [DOMAIN f.table -> StreamsOn(WithoutDeadFiles(unlinked, f.table))]
  BY <1>2, <1>3, <1>4, LiveDisk
<1> QED
  BY <1>1, <1>5, Zenon

LEMMA SystemDeletes ==
  ASSUME NEW kind \in {"os", "libc"}, NEW f, IsSystem(f), Fits(kind, f), NEW name,
         NEW step \in SystemDelete(f, name), step \notin Fails(f)
  PROVE  /\ IsSystem(step.system) /\ Fits(kind, step.system)
         /\ Deletes(step, f, name)
<1> DEFINE disk == WithoutDeadFiles(Unlinked(f.disk, name), f.table)
<1>1. name \in DOMAIN f.disk.names /\ step \in Returns(Done, [f EXCEPT !.disk = disk])
  BY Zenon DEF SystemDelete
<1>2. IsDisk(disk) /\ f.table \in [DOMAIN f.table -> StreamsOn(disk)]
  BY UnlinkedDisk
<1> HIDE DEF disk
<1>3. step.value = Done /\ step.system = [f EXCEPT !.disk = disk]
  BY <1>1, Returned
<1>4. step.system = [disk |-> disk, table |-> f.table, next |-> f.next]
  BY <1>3, SystemShape
<1>5. IsSystem(step.system)
  BY <1>2, <1>4, SystemMade, SystemShape
<1>6. Fits(kind, step.system)
  BY <1>4 DEF Fits
<1> QED
  BY <1>1, <1>3, <1>4, <1>5, <1>6 DEF Deletes, disk

LEMMA DeletesName ==
  ASSUME NEW kind \in Kinds, NEW f, IsSystem(f), Fits(kind, f), NEW path,
         NEW step \in OperateFile(kind, f, DELETE_FILE, <<path>>)
  PROVE  /\ IsSystem(step.system) /\ Fits(kind, step.system)
         /\ Refused(step, f) \/ Deletes(step, f, DecodeBytes(path))
<1> DEFINE a == Decoded(DELETE_FILE, <<path>>)
           name == DecodeBytes(path)
<1>1. CASE step \in Fails(f)
  BY <1>1, FailsRefuse DEF Refused
<1>2. ASSUME step \in FilesOf(kind, f, DELETE_FILE, a), step \notin Fails(f)
      PROVE  /\ IsSystem(step.system) /\ Fits(kind, step.system)
             /\ Deletes(step, f, name)
  <2>1. a[1] = name
    BY DecodedOne
  <2> HIDE DEF a, name
  <2>2. kind \in {"os", "libc"}
    BY <1>2, MemoryDoes, VoidDoes DEF Kinds
  <2>3. FilesOf(kind, f, DELETE_FILE, a) = SystemDelete(f, name)
    BY <2>1, <2>2, SystemsDo, SystemDoes
  <2> QED
    BY <1>2, <2>2, <2>3, SystemDeletes
<1>3. step \in Fails(f) \/ step \in FilesOf(kind, f, DELETE_FILE, a)
  BY Operates
<1> QED
  BY <1>1, <1>2, <1>3

LEMMA Exists ==
  ASSUME NEW kind \in Kinds, NEW f, NEW path,
         NEW step \in OperateFile(kind, f, EXISTS_FILE, <<path>>)
  PROVE  \/ Refused(step, f)
         \/ \E seen \in BOOLEAN : Tells(step, f, seen) /\ (seen => DecodeBytes(path) \in DOMAIN f.disk.names)
<1> DEFINE a == Decoded(EXISTS_FILE, <<path>>)
           name == DecodeBytes(path)
           is == name \in DOMAIN f.disk.names
<1>1. CASE step \in Fails(f)
  BY <1>1, FailsRefuse
<1>2. ASSUME step \in FilesOf(kind, f, EXISTS_FILE, a), step \notin Fails(f)
      PROVE  step \in Returns(Boolean(is), f) \/ step \in Returns(Boolean(FALSE), f)
  <2>1. a[1] = name
    BY DecodedOne
  <2> HIDE DEF a, name
  <2>2. ExistsIn(f, a[1]) = Returns(Boolean(is), f)
    BY <2>1 DEF ExistsIn
  <2> HIDE DEF is
  <2>3. kind \in {"memory", "os", "libc"}
    BY <1>2, VoidDoes DEF Kinds
  <2>4. CASE kind = "memory"
    BY <1>2, <2>2, <2>4, MemoryDoes
  <2>5. CASE kind = "os"
    <3>1. FilesOf("os", f, EXISTS_FILE, a) = ExistsIn(f, a[1]) \cup Returns(Boolean(FALSE), f)
      BY OsDoes
    <3> QED
      BY <1>2, <2>2, <2>5, <3>1
  <2>6. CASE kind = "libc"
    <3>1. FilesOf("libc", f, EXISTS_FILE, a) = ExistsIn(f, a[1]) \cup Fails(f)
      BY LibcDoes
    <3> QED
      BY <1>2, <2>2, <2>6, <3>1
  <2> QED
    BY <2>3, <2>4, <2>5, <2>6
<1>3. step \in Fails(f) \/ step \in FilesOf(kind, f, EXISTS_FILE, a)
  BY Operates
<1>4. ASSUME NEW seen \in BOOLEAN, step \in Returns(Boolean(seen), f), seen => is
      PROVE  \E s \in BOOLEAN : Tells(step, f, s) /\ (s => is)
  BY <1>4, Returned DEF Tells
<1>5. is \in BOOLEAN
  OBVIOUS
<1> HIDE DEF is
<1>6. step \notin Fails(f) => \E s \in BOOLEAN : Tells(step, f, s) /\ (s => is)
  BY <1>2, <1>3, <1>4, <1>5
<1> QED
  BY <1>1, <1>6 DEF is

-----------------------------------------------------------------------------
(* Ports and the table of their streams. *)

OpenIn(P) == {p \in DOMAIN P : P[p].open}

Matches(P, table) ==
  /\ P \in [DOMAIN P -> [descriptor : Nat, open : BOOLEAN]]
  /\ DOMAIN table = {P[p].descriptor : p \in OpenIn(P)}
  /\ \A p, q \in OpenIn(P) : P[p].descriptor = P[q].descriptor => p = q

StreamsOf(P, table) == [p \in OpenIn(P) |-> table[P[p].descriptor]]

LEMMA PortOpened ==
  ASSUME NEW P, NEW table, Matches(P, table), NEW p, p \notin DOMAIN P, NEW d \in Nat,
         d \notin DOMAIN table, NEW stream, NEW Q, NEW after,
         Q = Put(P, p, [descriptor |-> d, open |-> TRUE]), after = Put(table, d, stream)
  PROVE  /\ Matches(Q, after)
         /\ StreamsOf(Q, after) = Put(StreamsOf(P, table), p, stream)
         /\ p \notin OpenIn(P)
<1>1. /\ DOMAIN Q = DOMAIN P \cup {p}
      /\ Q[p] = [descriptor |-> d, open |-> TRUE]
      /\ \A q \in DOMAIN P : Q[q] = P[q]
      /\ Q = [q \in DOMAIN P \cup {p} |-> Q[q]]
  BY DEF Put
<1>2. /\ DOMAIN after = DOMAIN table \cup {d}
      /\ after[d] = stream
      /\ \A e \in DOMAIN table : after[e] = table[e]
  BY DEF Put
<1>3. \A q \in DOMAIN P : P[q] \in [descriptor : Nat, open : BOOLEAN]
  BY DEF Matches
<1>a. /\ Q[p] \in [descriptor : Nat, open : BOOLEAN]
      /\ Q[p].open
  <2> DEFINE port == [descriptor |-> d, open |-> TRUE]
  <2>1. port \in [descriptor : Nat, open : BOOLEAN]
    OBVIOUS
  <2>2. port.open
    BY Zenon
  <2>3. Q[p] = port
    BY <1>1
  <2> HIDE DEF port
  <2> QED
    BY <2>1, <2>2, <2>3, Zenon
<1>4. OpenIn(Q) = OpenIn(P) \cup {p} /\ OpenIn(P) \subseteq DOMAIN P
  <2>1. \A q \in DOMAIN P : Q[q].open <=> P[q].open
    BY <1>1, Zenon
  <2> QED
    BY <1>1, <1>a, <2>1, Zenon DEF OpenIn
<1>5. \A q \in OpenIn(P) : /\ Q[q].descriptor = P[q].descriptor
                          /\ P[q].descriptor \in DOMAIN table
  BY <1>1, <1>4 DEF Matches
<1>6. Q[p].descriptor = d
  BY <1>1
<1>7. Matches(Q, after)
  <2>1. \A q \in DOMAIN Q : Q[q] \in [descriptor : Nat, open : BOOLEAN]
    BY <1>1, <1>3, <1>a, Zenon
  <2>2. Q \in [DOMAIN Q -> [descriptor : Nat, open : BOOLEAN]]
    BY <1>1, <2>1
  <2>3. DOMAIN after = {Q[q].descriptor : q \in OpenIn(Q)}
    <3>1. DOMAIN table = {P[q].descriptor : q \in OpenIn(P)}
      BY DEF Matches
    <3>2. \A q \in OpenIn(Q) : Q[q].descriptor \in DOMAIN after
      BY <1>2, <1>4, <1>5, <1>6
    <3>3. ASSUME NEW e \in DOMAIN after
          PROVE  \E q \in OpenIn(Q) : e = Q[q].descriptor
      <4>1. CASE e = d
        BY <4>1, <1>4, <1>6
      <4>2. CASE e # d
        <5>1. PICK q \in OpenIn(P) : e = P[q].descriptor
          BY <4>2, <1>2, <3>1
        <5> QED
          BY <5>1, <1>4, <1>5
      <4> QED
        BY <4>1, <4>2
    <3> QED
      BY <3>2, <3>3
  <2>4. \A q, r \in OpenIn(Q) : Q[q].descriptor = Q[r].descriptor => q = r
    <3>1. \A q, r \in OpenIn(P) : P[q].descriptor = P[r].descriptor => q = r
      BY DEF Matches
    <3>2. \A q \in OpenIn(P) : Q[q].descriptor # d
      BY <1>5
    <3>3. ASSUME NEW q \in OpenIn(Q), NEW r \in OpenIn(Q), Q[q].descriptor = Q[r].descriptor
          PROVE  q = r
      <4>1. CASE q \in OpenIn(P) /\ r \in OpenIn(P)
        BY <4>1, <3>1, <3>3, <1>5
      <4>2. CASE q = p \/ r = p
        <5>1. \A x \in OpenIn(Q) : Q[x].descriptor = d => x = p
          BY <1>4, <1>5, <3>2
        <5> QED
          BY <4>2, <5>1, <3>3, <1>6
      <4> QED
        BY <4>1, <4>2, <1>4
    <3> QED
      BY <3>3
  <2> QED
    BY <2>2, <2>3, <2>4 DEF Matches
<1>8. StreamsOf(Q, after) = Put(StreamsOf(P, table), p, stream)
  <2>1. \A q \in OpenIn(P) : after[Q[q].descriptor] = table[P[q].descriptor]
    BY <1>2, <1>5
  <2>2. after[Q[p].descriptor] = stream
    BY <1>2, <1>6
  <2>3. p \notin OpenIn(P)
    BY <1>4
  <2> QED
    BY <1>4, <2>1, <2>2, <2>3 DEF StreamsOf, Put
<1> QED
  BY <1>4, <1>7, <1>8

LEMMA PortClosed ==
  ASSUME NEW P, NEW table, Matches(P, table), NEW p \in OpenIn(P)
  PROVE  LET Q == [P EXCEPT ![p].open = FALSE]
             after == Restrict(table, DOMAIN table \ {P[p].descriptor})
         IN /\ Matches(Q, after)
            /\ StreamsOf(Q, after) = Restrict(StreamsOf(P, table), OpenIn(P) \ {p})
<1> DEFINE d == P[p].descriptor
           Q == [P EXCEPT ![p].open = FALSE]
           after == Restrict(table, DOMAIN table \ {d})
<1>1. /\ DOMAIN Q = DOMAIN P
      /\ Q[p] = [descriptor |-> d, open |-> FALSE]
      /\ \A q \in DOMAIN P \ {p} : Q[q] = P[q]
      /\ Q = [q \in DOMAIN P |-> Q[q]]
  BY DEF Matches, OpenIn
<1>2. /\ DOMAIN after = DOMAIN table \ {d}
      /\ \A e \in DOMAIN table \ {d} : after[e] = table[e]
  BY DEF Restrict
<1> HIDE DEF Q, after
<1>3. \A q \in DOMAIN P : P[q] \in [descriptor : Nat, open : BOOLEAN]
  BY DEF Matches
<1>4. OpenIn(Q) = OpenIn(P) \ {p} /\ OpenIn(P) \subseteq DOMAIN P
  BY <1>1 DEF OpenIn
<1>5. \A q \in OpenIn(Q) : /\ Q[q].descriptor = P[q].descriptor
                          /\ P[q].descriptor \in DOMAIN table \ {d}
  BY <1>1, <1>4 DEF Matches
<1>6. Matches(Q, after)
  <2>1. \A q \in DOMAIN Q : Q[q] \in [descriptor : Nat, open : BOOLEAN]
    <3> DEFINE port == [descriptor |-> d, open |-> FALSE]
    <3>1. d \in Nat
      BY <1>3, <1>4
    <3>2. port \in [descriptor : Nat, open : BOOLEAN]
      BY <3>1
    <3>3. Q[p] = port
      BY <1>1
    <3> HIDE DEF port
    <3> QED
      BY <1>1, <1>3, <3>2, <3>3, Zenon
  <2>2. Q \in [DOMAIN Q -> [descriptor : Nat, open : BOOLEAN]]
    BY <1>1, <2>1
  <2>3. DOMAIN after = {Q[q].descriptor : q \in OpenIn(Q)}
    <3>1. DOMAIN table = {P[q].descriptor : q \in OpenIn(P)}
      BY DEF Matches
    <3>2. \A q \in OpenIn(Q) : Q[q].descriptor \in DOMAIN after
      BY <1>2, <1>5
    <3>3. ASSUME NEW e \in DOMAIN after
          PROVE  \E q \in OpenIn(Q) : e = Q[q].descriptor
      <4>1. PICK q \in OpenIn(P) : e = P[q].descriptor /\ e # d
        BY <1>2, <3>1
      <4> QED
        BY <4>1, <1>4, <1>5
    <3> QED
      BY <3>2, <3>3
  <2>4. \A q, r \in OpenIn(Q) : Q[q].descriptor = Q[r].descriptor => q = r
    BY <1>4, <1>5 DEF Matches
  <2> QED
    BY <2>2, <2>3, <2>4 DEF Matches
<1>7. StreamsOf(Q, after) = Restrict(StreamsOf(P, table), OpenIn(P) \ {p})
  <2>1. \A q \in OpenIn(Q) : after[Q[q].descriptor] = table[P[q].descriptor]
    BY <1>2, <1>5
  <2> QED
    BY <1>4, <2>1 DEF StreamsOf, Restrict
<1> QED
  BY <1>6, <1>7 DEF Q, after

(* A step of one stream is a step of one port. *)
LEMMA PortMoved ==
  ASSUME NEW P, NEW table, Matches(P, table), NEW p \in OpenIn(P), NEW x
  PROVE  LET after == [table EXCEPT ![P[p].descriptor].offset = x]
         IN /\ Matches(P, after)
            /\ StreamsOf(P, after) = [StreamsOf(P, table) EXCEPT ![p].offset = x]
<1> DEFINE d == P[p].descriptor
           after == [table EXCEPT ![d].offset = x]
<1>1. \A q \in OpenIn(P) : P[q].descriptor \in DOMAIN table
  BY DEF Matches
<1>2. DOMAIN after = DOMAIN table
  OBVIOUS
<1>3. Matches(P, after)
  BY <1>2 DEF Matches
<1>4. \A q \in OpenIn(P) : q # p => after[P[q].descriptor] = table[P[q].descriptor]
  BY <1>1 DEF Matches
<1>5. after[d] = [table[d] EXCEPT !.offset = x]
  BY <1>1
<1>6. StreamsOf(P, after) = [StreamsOf(P, table) EXCEPT ![p].offset = x]
  BY <1>4, <1>5 DEF StreamsOf
<1> QED
  BY <1>3, <1>6

LEMMA SameFiles ==
  ASSUME NEW P, NEW table, Matches(P, table)
  PROVE  {s.file : s \in Range(StreamsOf(P, table))} = {s.file : s \in Range(table)}
<1>1. Range(StreamsOf(P, table)) = Range(table)
  <2>1. \A p \in OpenIn(P) : /\ P[p].descriptor \in DOMAIN table
                             /\ StreamsOf(P, table)[p] = table[P[p].descriptor]
    BY DEF Matches, StreamsOf
  <2>2. \A d \in DOMAIN table : \E p \in OpenIn(P) : table[d] = StreamsOf(P, table)[p]
    BY DEF Matches, StreamsOf
  <2>3. DOMAIN StreamsOf(P, table) = OpenIn(P)
    BY DEF StreamsOf
  <2> QED
    BY <2>1, <2>2, <2>3 DEF Range
<1> QED
  BY <1>1

LEMMA SameLiving ==
  ASSUME NEW P, NEW table, Matches(P, table), NEW disk
  PROVE  WithoutDeadFiles(disk, StreamsOf(P, table)) = WithoutDeadFiles(disk, table)
BY SameFiles DEF WithoutDeadFiles

-----------------------------------------------------------------------------
(* The operators of the abstract specification are those of FileSystem. *)

LEMMA SamePut ==
  ASSUME NEW f, NEW x, NEW v
  PROVE  AbstractStreams!Put(f, x, v) = Put(f, x, v)
BY DEF Put, AbstractStreams!Put

LEMMA SameRestrict ==
  ASSUME NEW f, NEW S
  PROVE  AbstractStreams!Restrict(f, S) = Restrict(f, S)
BY DEF Restrict, AbstractStreams!Restrict

LEMMA SameStream ==
  ASSUME NEW file, NEW output
  PROVE  AbstractStreams!Stream(file, output) = Stream(file, output)
BY DEF Stream, AbstractStreams!Stream

LEMMA SameValues ==
  /\ AbstractStreams!Done = Done /\ AbstractStreams!Failure = Failure
  /\ AbstractStreams!None = None
  /\ \A b : AbstractStreams!ByteRead(b) = ByteRead(b) /\ AbstractStreams!Boolean(b) = Boolean(b)
BY DEF Done, Failure, None, ByteRead, Boolean, AbstractStreams!Done, AbstractStreams!Failure,
       AbstractStreams!None, AbstractStreams!ByteRead, AbstractStreams!Boolean

LEMMA SameTruncated ==
  ASSUME NEW disk, NEW name
  PROVE  AbstractStreams!Truncated(disk, name) = Truncated(disk, name)
<1>1. AbstractStreams!NewFile(disk) = NewFile(disk)
  BY DEF NewFile, AbstractStreams!NewFile, Min, AbstractStreams!Min,
         Cardinality, AbstractStreams!Cardinality
<1> DEFINE file == IF name \in DOMAIN disk.names THEN disk.names[name] ELSE NewFile(disk)
<1>2. AbstractStreams!Truncated(disk, name) =
        [disk EXCEPT !.names = AbstractStreams!Put(disk.names, name, file),
                     !.contents = AbstractStreams!Put(disk.contents, file, <<>>)]
  BY <1>1, Zenon DEF AbstractStreams!Truncated
<1>3. Truncated(disk, name) = [disk EXCEPT !.names = Put(disk.names, name, file),
                                           !.contents = Put(disk.contents, file, <<>>)]
  BY DEF Truncated
<1> HIDE DEF file
<1>4. /\ AbstractStreams!Put(disk.names, name, file) = Put(disk.names, name, file)
      /\ AbstractStreams!Put(disk.contents, file, <<>>) = Put(disk.contents, file, <<>>)
  BY SamePut
<1> QED
  BY <1>2, <1>3, <1>4, Zenon

LEMMA SameUnlinked ==
  ASSUME NEW disk, NEW name
  PROVE  AbstractStreams!Unlinked(disk, name) = Unlinked(disk, name)
BY SameRestrict DEF Unlinked, AbstractStreams!Unlinked

LEMMA SameLive ==
  ASSUME NEW disk, NEW streams
  PROVE  AbstractStreams!WithoutDeadFiles(disk, streams) = WithoutDeadFiles(disk, streams)
BY SameRestrict DEF WithoutDeadFiles, AbstractStreams!WithoutDeadFiles, Range, AbstractStreams!Range

LEMMA SameWrite ==
  ASSUME NEW bytes, NEW offset, NEW byte
  PROVE  AbstractStreams!WriteAt(bytes, offset, byte) = WriteAt(bytes, offset, byte)
BY DEF WriteAt, AbstractStreams!WriteAt, Zero, AbstractStreams!Zero, Max, AbstractStreams!Max

-----------------------------------------------------------------------------
(* Steps of the abstract specification, by what they do to the streams of  *)
(* open ports and to the disk.                                             *)

PortStreams == StreamsOf(ports, system.table)

LEMMA MappedStreams ==
  /\ OpenPorts = OpenIn(ports)
  /\ [p \in OpenPorts |-> system.table[ports[p].descriptor]] = PortStreams
<1>1. OpenPorts = OpenIn(ports)
  BY DEF OpenPorts, OpenIn, IsOpen, Opened
<1> QED
  BY <1>1 DEF PortStreams, StreamsOf

LEMMA MappedNext ==
  /\ [p \in OpenPorts |-> system.table[ports[p].descriptor]]' = PortStreams'
  /\ OpenPorts' = OpenIn(ports')
<1>1. (/\ OpenPorts = OpenIn(ports)
       /\ [p \in OpenPorts |-> system.table[ports[p].descriptor]] = PortStreams)'
  BY MappedStreams, PTL
<1> QED
  BY <1>1

LEMMA KeptDevices ==
  ASSUME UNCHANGED <<setup, device>>
  PROVE  UNCHANGED AbstractStreams!Devices /\ (setup.device = "void")' = (setup.device = "void")
BY DEF AbstractStreams!Devices, Unread, BytesOf

LEMMA AbstractRefuse ==
  ASSUME UNCHANGED <<setup, device>>, PortStreams' = PortStreams, system'.disk = system.disk,
         result' = Failure
  PROVE  AbstractStreams!Refuse
<1>1. UNCHANGED [p \in OpenPorts |-> system.table[ports[p].descriptor]]
  BY MappedStreams, MappedNext, Zenon
<1> QED
  BY <1>1, KeptDevices, SameValues DEF AbstractStreams!Refuse

LEMMA AbstractOpen ==
  ASSUME UNCHANGED <<setup, device>>, NEW p, p \notin OpenIn(ports), NEW name, NEW output \in BOOLEAN,
         output \/ name \in DOMAIN system.disk.names,
         system'.disk = OpenedDisk(system, name, output),
         PortStreams' = Put(PortStreams, p, Stream(system'.disk.names[name], output)),
         result' = Done
  PROVE  AbstractStreams!OpenPort(p, name, output)
<1> DEFINE opened == IF output THEN AbstractStreams!Truncated(system.disk, name) ELSE system.disk
<1>1. opened = system'.disk
  BY SameTruncated DEF OpenedDisk
<1>2. DOMAIN PortStreams = OpenIn(ports)
  BY DEF PortStreams, StreamsOf
<1>3. AbstractStreams!OnStreams(AbstractStreams!Done)
  BY KeptDevices, SameValues DEF AbstractStreams!OnStreams
<1>4. [q \in OpenPorts |-> system.table[ports[q].descriptor]]'
        = AbstractStreams!Put([q \in OpenPorts |-> system.table[ports[q].descriptor]], p,
                              AbstractStreams!Stream(opened.names[name], output))
  BY <1>1, MappedStreams, MappedNext, SamePut, SameStream
<1> QED
  BY <1>1, <1>2, <1>3, <1>4, MappedStreams DEF AbstractStreams!OpenPort

LEMMA AbstractTruncates ==
  ASSUME UNCHANGED <<setup, device>>, PortStreams' = PortStreams, NEW name,
         system'.disk = Truncated(system.disk, name), result' = Failure
  PROVE  AbstractStreams!OpenTruncates(name)
<1>1. UNCHANGED [p \in OpenPorts |-> system.table[ports[p].descriptor]]
  BY MappedStreams, MappedNext, Zenon
<1>2. AbstractStreams!OnStreams(AbstractStreams!Failure)
  BY KeptDevices, SameValues DEF AbstractStreams!OnStreams
<1> QED
  BY <1>1, <1>2, SameTruncated DEF AbstractStreams!OpenTruncates

LEMMA AbstractClose ==
  ASSUME UNCHANGED <<setup, device>>, NEW p \in OpenIn(ports),
         PortStreams' = Restrict(PortStreams, OpenIn(ports) \ {p}),
         system'.disk = WithoutDeadFiles(system.disk, PortStreams'), result' = Done
  PROVE  AbstractStreams!ClosePort(p)
<1> DEFINE streams == [q \in OpenPorts |-> system.table[ports[q].descriptor]]
<1>1. DOMAIN PortStreams = OpenIn(ports)
  BY DEF PortStreams, StreamsOf
<1>2. AbstractStreams!OnStreams(AbstractStreams!Done)
  BY KeptDevices, SameValues DEF AbstractStreams!OnStreams
<1>3. streams = PortStreams /\ streams' = PortStreams'
  BY MappedStreams, MappedNext
<1>4. streams' = AbstractStreams!Restrict(streams, DOMAIN streams \ {p})
  BY <1>1, <1>3, SameRestrict
<1>5. system'.disk = AbstractStreams!WithoutDeadFiles(system.disk, streams')
  BY <1>3, SameLive
<1>6. p \in DOMAIN streams
  BY <1>1, <1>3
<1> QED
  BY <1>2, <1>4, <1>5, <1>6, Zenon DEF AbstractStreams!ClosePort

LEMMA AbstractRead ==
  ASSUME UNCHANGED <<setup, device>>, NEW p \in OpenIn(ports), ~PortStreams[p].output,
         system'.disk = system.disk,
         NEW bytes, bytes = system.disk.contents[PortStreams[p].file],
         NEW place, place = PortStreams[p].offset + 1,
         \/ /\ place <= Len(bytes)
            /\ result' = ByteRead(bytes[place])
            /\ PortStreams' = [PortStreams EXCEPT ![p].offset = place]
         \/ ~(place <= Len(bytes)) /\ result' = None /\ PortStreams' = PortStreams
  PROVE  AbstractStreams!ReadPort(p)
<1> DEFINE streams == [q \in OpenPorts |-> system.table[ports[q].descriptor]]
<1>1. DOMAIN PortStreams = OpenIn(ports)
  BY Zenon DEF PortStreams, StreamsOf
<1>2. streams = PortStreams /\ streams' = PortStreams'
  BY MappedStreams, MappedNext
<1>3. ASSUME NEW value, result' = value
      PROVE  AbstractStreams!OnStreams(value)
  BY <1>3, KeptDevices, Zenon DEF AbstractStreams!OnStreams
<1>4. /\ p \in DOMAIN streams
      /\ ~streams[p].output
      /\ bytes = system.disk.contents[streams[p].file]
      /\ place = streams[p].offset + 1
  BY <1>1, <1>2, Zenon
<1>5. \/ /\ place <= Len(bytes)
         /\ result' = ByteRead(bytes[place])
         /\ streams' = [streams EXCEPT ![p].offset = place]
      \/ ~(place <= Len(bytes)) /\ result' = None /\ streams' = streams
  BY <1>2, Zenon
<1>6. IF place <= Len(bytes)
      THEN /\ streams' = [streams EXCEPT ![p].offset = place]
           /\ AbstractStreams!OnStreams(AbstractStreams!ByteRead(bytes[place]))
      ELSE UNCHANGED streams /\ AbstractStreams!OnStreams(AbstractStreams!None)
  <2>1. AbstractStreams!ByteRead(bytes[place]) = ByteRead(bytes[place])
    BY SameValues, Zenon
  <2>2. AbstractStreams!None = None
    BY SameValues
  <2> HIDE DEF streams
  <2> QED
    BY <1>3, <1>5, <2>1, <2>2, Zenon
<1>7. UNCHANGED system.disk
  OBVIOUS
<1> QED
  BY <1>4, <1>6, <1>7, Zenon DEF AbstractStreams!ReadPort

LEMMA AbstractWrite ==
  ASSUME UNCHANGED <<setup, device>>, NEW p \in OpenIn(ports), NEW byte, PortStreams[p].output,
         result' = Done, NEW stream, stream = PortStreams[p],
         system'.disk = [system.disk EXCEPT !.contents[stream.file] = WriteAt(@, stream.offset, byte)],
         PortStreams' = [PortStreams EXCEPT ![p].offset = stream.offset + 1]
  PROVE  AbstractStreams!WritePort(p, byte)
<1> DEFINE streams == [q \in OpenPorts |-> system.table[ports[q].descriptor]]
<1>1. DOMAIN PortStreams = OpenIn(ports)
  BY Zenon DEF PortStreams, StreamsOf
<1>2. streams = PortStreams /\ streams' = PortStreams'
  BY MappedStreams, MappedNext
<1>3. AbstractStreams!OnStreams(AbstractStreams!Done)
  BY KeptDevices, SameValues, Zenon DEF AbstractStreams!OnStreams
<1>4. /\ p \in DOMAIN streams
      /\ streams[p].output
      /\ stream = streams[p]
  BY <1>1, <1>2, Zenon
<1>5. system'.disk = [system.disk EXCEPT !.contents[stream.file] =
                        AbstractStreams!WriteAt(@, stream.offset, byte)]
  <2>1. AbstractStreams!WriteAt(system.disk.contents[stream.file], stream.offset, byte)
          = WriteAt(system.disk.contents[stream.file], stream.offset, byte)
    BY SameWrite
  <2> QED
    BY <2>1, Zenon
<1>6. streams' = [streams EXCEPT ![p].offset = streams[p].offset + 1]
  BY <1>2, <1>4, Zenon
<1> QED
  BY <1>3, <1>4, <1>5, <1>6, Zenon DEF AbstractStreams!WritePort

LEMMA AbstractFlush ==
  ASSUME UNCHANGED <<setup, device>>, NEW p \in OpenIn(ports), PortStreams' = PortStreams,
         system'.disk = system.disk, result' = Done
  PROVE  AbstractStreams!FlushPort(p)
<1>1. UNCHANGED [q \in OpenPorts |-> system.table[ports[q].descriptor]]
  BY MappedStreams, MappedNext, Zenon
<1>2. AbstractStreams!OnStreams(AbstractStreams!Done)
  BY KeptDevices, SameValues DEF AbstractStreams!OnStreams
<1> QED
  BY <1>1, <1>2, MappedStreams DEF AbstractStreams!FlushPort

LEMMA AbstractDelete ==
  ASSUME UNCHANGED <<setup, device>>, PortStreams' = PortStreams, NEW name,
         name \in DOMAIN system.disk.names,
         system'.disk = WithoutDeadFiles(Unlinked(system.disk, name), PortStreams),
         result' = Done
  PROVE  AbstractStreams!DeleteFile(name)
<1> DEFINE streams == [q \in OpenPorts |-> system.table[ports[q].descriptor]]
<1>1. UNCHANGED streams /\ streams = PortStreams
  BY MappedStreams, MappedNext, Zenon
<1>2. AbstractStreams!OnStreams(AbstractStreams!Done)
  BY KeptDevices, SameValues DEF AbstractStreams!OnStreams
<1>3. system'.disk =
        AbstractStreams!WithoutDeadFiles(AbstractStreams!Unlinked(system.disk, name), streams)
  BY <1>1, SameLive, SameUnlinked
<1> QED
  BY <1>1, <1>2, <1>3, Zenon DEF AbstractStreams!DeleteFile

LEMMA AbstractExists ==
  ASSUME UNCHANGED <<setup, device>>, PortStreams' = PortStreams, system'.disk = system.disk,
         NEW name, NEW seen \in BOOLEAN, seen => name \in DOMAIN system.disk.names,
         result' = Boolean(seen)
  PROVE  AbstractStreams!FileExists(name)
<1>1. UNCHANGED [q \in OpenPorts |-> system.table[ports[q].descriptor]]
  BY MappedStreams, MappedNext, Zenon
<1>2. AbstractStreams!OnStreams(AbstractStreams!Boolean(seen))
  BY KeptDevices, SameValues DEF AbstractStreams!OnStreams
<1> QED
  BY <1>1, <1>2 DEF AbstractStreams!FileExists

-----------------------------------------------------------------------------
(* Steps of the program on files: each keeps the invariant, and is one of  *)
(* the abstract specification.                                             *)

Consistent ==
  /\ setup \in Setup
  /\ IsSystem(system)
  /\ Fits(setup.files, system)
  /\ Matches(ports, system.table)

LEMMA InvIsConsistent == FilesInv <=> Consistent
<1>1. OpenPorts = OpenIn(ports) /\ Opened = DOMAIN ports
  BY MappedStreams DEF Opened
<1>2. TableMatchesPorts /\ ArePorts <=> Matches(ports, system.table)
  BY <1>1 DEF TableMatchesPorts, ArePorts, Matches
<1> QED
  BY <1>2 DEF FilesInv, Consistent

LEMMA NextIsConsistent == FilesInv' <=> Consistent'
BY InvIsConsistent, PTL

LEMMA SetupKinds ==
  ASSUME setup \in Setup
  PROVE  setup.files \in Kinds /\ setup.device \in {"fixed", "buffer", "std", "libc", "void"}
BY InputOutputAssumption DEF Kinds

LEMMA PathType ==
  ASSUME NEW path \in Path
  PROVE  DecodeBytes(path) \in {DecodeBytes(q) : q \in Path}
OBVIOUS

(* The ports stay, and an outcome leaves the streams as they are.          *)
LEMMA SameStreams ==
  ASSUME Consistent, UNCHANGED ports, system'.table = system.table
  PROVE  PortStreams' = PortStreams /\ Matches(ports', system'.table)
BY DEF PortStreams, Consistent

LEMMA FailureDiffers ==
  /\ Done # Failure /\ None # Failure
  /\ \A x : Descriptor(x) # Failure /\ ByteRead(x) # Failure /\ Boolean(x) # Failure
<1>1. DOMAIN Failure = {"failure"} /\ DOMAIN Done = {"done"} /\ DOMAIN None = {"none"}
  BY DEF Failure, Done, None
<1>2. \A x : DOMAIN Descriptor(x) = {"descriptor"} /\ DOMAIN ByteRead(x) = {"byte"}
             /\ DOMAIN Boolean(x) = {"boolean"}
  BY DEF Descriptor, ByteRead, Boolean
<1>3. "failure" \notin {"done"} /\ "failure" \notin {"none"} /\ "failure" \notin {"descriptor"}
      /\ "failure" \notin {"byte"} /\ "failure" \notin {"boolean"} /\ "failure" \in {"failure"}
  OBVIOUS
<1> QED
  BY <1>1, <1>2, <1>3, Zenon

LEMMA OpenPortStep ==
  ASSUME Consistent, NEW p \in Port, NEW path \in Path, NEW output \in BOOLEAN,
         OpenPort(p, path, output)
  PROVE  Consistent' /\ AbstractStreams!Next
<1> DEFINE name == DecodeBytes(path)
<1>1. p \notin DOMAIN ports /\ UNCHANGED <<setup, device>>
  BY DEF OpenPort, Opened
<1>2. PICK step \in OperateFile(setup.files, system, OPEN_FILE, <<path, output>>) :
        /\ system' = step.system
        /\ IF step.value = Failure
           THEN result' = Failure /\ UNCHANGED ports
           ELSE /\ result' = Done
                /\ ports' = Put(ports, p, [descriptor |-> step.value.descriptor, open |-> TRUE])
  BY DEF OpenPort, FileSteps
<1>3. /\ IsSystem(step.system) /\ Fits(setup.files, step.system)
      /\ \/ Refused(step, system)
         \/ Emptied(step, system, name, output)
         \/ \E d \in Nat : OpensAt(step, system, name, output, d)
  BY SetupKinds, Opens DEF Consistent
<1>4. name \in {DecodeBytes(q) : q \in Path}
  BY PathType
<1>5. IsSystem(system') /\ Fits(setup'.files, system') /\ setup' \in Setup
  BY <1>1, <1>2, <1>3 DEF Consistent
<1> HIDE DEF name
<1>6. CASE Refused(step, system)
  <2>1. result' = Failure /\ UNCHANGED <<ports, system>>
    BY <1>2, <1>6 DEF Refused
  <2>2. PortStreams' = PortStreams /\ Matches(ports', system'.table)
    BY <2>1, SameStreams
  <2>3. AbstractStreams!Refuse
    BY <1>1, <2>1, <2>2, AbstractRefuse
  <2> QED
    BY <1>5, <2>2, <2>3 DEF Consistent, AbstractStreams!Next
<1>7. CASE Emptied(step, system, name, output)
  <2>1. result' = Failure /\ UNCHANGED ports
        /\ system' = [system EXCEPT !.disk = Truncated(system.disk, name)]
    BY <1>2, <1>7 DEF Emptied
  <2>2. system'.disk = Truncated(system.disk, name) /\ system'.table = system.table
    BY <2>1, SystemShape DEF Consistent
  <2>3. PortStreams' = PortStreams /\ Matches(ports', system'.table)
    BY <2>1, <2>2, SameStreams
  <2>4. AbstractStreams!OpenTruncates(name)
    BY <1>1, <2>1, <2>2, <2>3, AbstractTruncates
  <2> QED
    BY <1>4, <1>5, <2>3, <2>4 DEF Consistent, AbstractStreams!Next
<1>8. CASE \E d \in Nat : OpensAt(step, system, name, output, d)
  <2>1. PICK d \in Nat : OpensAt(step, system, name, output, d)
    BY <1>8
  <2> DEFINE stream == Stream(system'.disk.names[name], output)
  <2>2. /\ d \notin DOMAIN system.table
        /\ output \/ name \in DOMAIN system.disk.names
        /\ step.value = Descriptor(d)
        /\ system'.disk = OpenedDisk(system, name, output)
        /\ system'.table = Put(system.table, d, stream)
    BY <1>2, <2>1 DEF OpensAt
  <2>3. step.value # Failure /\ step.value.descriptor = d
    BY <2>2, FailureDiffers DEF Descriptor
  <2>4. result' = Done /\ ports' = Put(ports, p, [descriptor |-> d, open |-> TRUE])
    BY <1>2, <2>3
  <2> HIDE DEF stream
  <2>5. /\ Matches(ports', system'.table)
        /\ StreamsOf(ports', system'.table) = Put(PortStreams, p, stream)
        /\ p \notin OpenIn(ports)
    <3>1. Matches(ports, system.table)
      BY DEF Consistent
    <3> QED
      BY <1>1, <2>2, <2>4, <3>1, PortOpened DEF PortStreams
  <2>6. PortStreams' = Put(PortStreams, p, stream)
    BY <2>5 DEF PortStreams
  <2>7. AbstractStreams!OpenPort(p, name, output)
    BY <1>1, <2>2, <2>4, <2>5, <2>6, AbstractOpen DEF stream
  <2> QED
    BY <1>4, <1>5, <2>5, <2>7 DEF Consistent, AbstractStreams!Next
<1> QED
  BY <1>3, <1>6, <1>7, <1>8

(* A refusal, and a call of a port that is closed. *)
LEMMA RefusedStep ==
  ASSUME Consistent, UNCHANGED <<setup, device, system, ports>>, result' = Failure
  PROVE  Consistent' /\ AbstractStreams!Next
<1>1. PortStreams' = PortStreams /\ Matches(ports', system'.table)
  BY SameStreams
<1>2. AbstractStreams!Refuse
  BY <1>1, AbstractRefuse
<1> QED
  BY <1>1, <1>2 DEF Consistent, AbstractStreams!Next

LEMMA PortCalled ==
  ASSUME NEW p, NEW primitive, NEW arguments, CallPort(p, primitive, arguments)
  PROVE  /\ p \in DOMAIN ports
         /\ UNCHANGED <<setup, device>>
         /\ \/ result' = Failure /\ UNCHANGED system
            \/ /\ p \in OpenIn(ports)
               /\ \E step \in OperateFile(setup.files, system, primitive,
                                          <<ports[p].descriptor>> \o arguments) :
                    system' = step.system /\ result' = step.value
BY DEF CallPort, CallFile, FileSteps, IsOpen, Opened, OpenIn

LEMMA OpenDescriptor ==
  ASSUME Consistent, NEW p \in OpenIn(ports)
  PROVE  /\ ports[p].descriptor \in DOMAIN system.table
         /\ system.table[ports[p].descriptor] = PortStreams[p]
         /\ p \in DOMAIN ports
BY DEF Consistent, Matches, PortStreams, StreamsOf, OpenIn

LEMMA EmptyArguments ==
  ASSUME NEW x
  PROVE  <<x>> \o <<>> = <<x>>
BY Pairs

LEMMA ClosePortStep ==
  ASSUME Consistent, NEW p \in Port, ClosePort(p)
  PROVE  Consistent' /\ AbstractStreams!Next
<1> DEFINE d == ports[p].descriptor
<1>1. /\ p \in DOMAIN ports
      /\ UNCHANGED <<setup, device>>
      /\ \/ result' = Failure /\ UNCHANGED system
         \/ /\ p \in OpenIn(ports)
            /\ \E step \in OperateFile(setup.files, system, CLOSE_FILE, <<d>>) :
                 system' = step.system /\ result' = step.value
  BY PortCalled, EmptyArguments DEF ClosePort
<1>2. ports' = IF result' = Failure THEN ports ELSE [ports EXCEPT ![p].open = FALSE]
  BY DEF ClosePort
<1>3. CASE result' = Failure /\ UNCHANGED system
  BY <1>1, <1>2, <1>3, RefusedStep
<1>4. CASE p \in OpenIn(ports) /\ ~(result' = Failure /\ UNCHANGED system)
  <2>1. PICK step \in OperateFile(setup.files, system, CLOSE_FILE, <<d>>) :
          system' = step.system /\ result' = step.value
    BY <1>1, <1>4
  <2>2. d \in DOMAIN system.table
    BY <1>4, OpenDescriptor
  <2>3. /\ IsSystem(step.system) /\ Fits(setup.files, step.system)
        /\ Refused(step, system) \/ ClosesAt(step, system, d)
    BY <2>2, SetupKinds, Closes DEF Consistent
  <2>4. ClosesAt(step, system, d)
    BY <1>4, <2>1, <2>3 DEF Refused
  <2>5. /\ result' = Done
        /\ system'.table = Restrict(system.table, DOMAIN system.table \ {d})
        /\ system'.disk = WithoutDeadFiles(system.disk, system'.table)
    BY <2>1, <2>4 DEF ClosesAt
  <2>6. ports' = [ports EXCEPT ![p].open = FALSE]
    BY <1>2, <2>5, FailureDiffers
  <2>7. /\ Matches(ports', system'.table)
        /\ StreamsOf(ports', system'.table) = Restrict(PortStreams, OpenIn(ports) \ {p})
    <3>1. Matches(ports, system.table)
      BY DEF Consistent
    <3> DEFINE Q == [ports EXCEPT ![p].open = FALSE]
               after == Restrict(system.table, DOMAIN system.table \ {d})
    <3>2. /\ Matches(Q, after)
          /\ StreamsOf(Q, after) = Restrict(PortStreams, OpenIn(ports) \ {p})
      BY <1>4, <3>1, PortClosed, Zenon DEF PortStreams
    <3>3. ports' = Q /\ system'.table = after
      BY <2>5, <2>6
    <3> HIDE DEF Q, after
    <3> QED
      BY <3>2, <3>3
  <2>8. PortStreams' = Restrict(PortStreams, OpenIn(ports) \ {p})
    BY <2>7 DEF PortStreams
  <2>9. system'.disk = WithoutDeadFiles(system.disk, PortStreams')
    BY <2>5, <2>7, SameLiving DEF PortStreams
  <2>10. AbstractStreams!ClosePort(p)
    BY <1>1, <1>4, <2>5, <2>8, <2>9, AbstractClose
  <2> QED
    BY <1>1, <2>1, <2>3, <2>7, <2>10 DEF Consistent, AbstractStreams!Next
<1> QED
  BY <1>1, <1>3, <1>4

LEMMA StreamType ==
  ASSUME NEW f, IsSystem(f), NEW d \in DOMAIN f.table
  PROVE  /\ f.table[d] \in StreamsOn(f.disk)
         /\ f.table[d].offset \in Nat
         /\ f.table[d].file \in DOMAIN f.disk.contents
         /\ f.disk.contents[f.table[d].file] \in Seq(Bytes)
<1>1. f.table[d] \in StreamsOn(f.disk)
  BY SystemShape
<1> QED
  BY <1>1, SystemShape, DiskShape DEF StreamsOn

LEMMA LessIsAtMost ==
  ASSUME NEW m \in Nat, NEW n \in Nat
  PROVE  m < n <=> m + 1 <= n
OBVIOUS

LEMMA ReadPortStep ==
  ASSUME Consistent, NEW p \in Port, ReadPort(p)
  PROVE  Consistent' /\ AbstractStreams!Next
<1> DEFINE d == ports[p].descriptor
<1>1. /\ p \in DOMAIN ports
      /\ UNCHANGED <<setup, device, ports>>
      /\ \/ result' = Failure /\ UNCHANGED system
         \/ /\ p \in OpenIn(ports)
            /\ \E step \in OperateFile(setup.files, system, READ_FILE, <<d>>) :
                 system' = step.system /\ result' = step.value
  BY PortCalled, EmptyArguments DEF ReadPort
<1>3. CASE result' = Failure /\ UNCHANGED system
  BY <1>1, <1>3, RefusedStep
<1>4. CASE p \in OpenIn(ports) /\ ~(result' = Failure /\ UNCHANGED system)
  <2>1. PICK step \in OperateFile(setup.files, system, READ_FILE, <<d>>) :
          system' = step.system /\ result' = step.value
    BY <1>1, <1>4
  <2>2. d \in DOMAIN system.table /\ system.table[d] = PortStreams[p]
    BY <1>4, OpenDescriptor
  <2>3. /\ IsSystem(step.system) /\ Fits(setup.files, step.system)
        /\ Refused(step, system) \/ ReadsAt(step, system, d)
    BY <2>2, SetupKinds, Reads DEF Consistent
  <2>4. ReadsAt(step, system, d)
    BY <1>4, <2>1, <2>3 DEF Refused
  <2> DEFINE bytes == system.disk.contents[PortStreams[p].file]
             place == PortStreams[p].offset + 1
  <2>5. Len(bytes) \in Nat /\ PortStreams[p].offset \in Nat
    <3>1. bytes \in Seq(Bytes) /\ PortStreams[p].offset \in Nat
      BY <2>2, StreamType DEF Consistent
    <3> HIDE DEF bytes
    <3> QED
      BY <3>1
  <2>6. PortStreams[p].offset < Len(bytes) <=> place <= Len(bytes)
    BY <2>5, LessIsAtMost
  <2>7. /\ ~PortStreams[p].output
        /\ system'.disk = system.disk
        /\ \/ /\ place <= Len(bytes)
              /\ result' = ByteRead(bytes[place])
              /\ system'.table = [system.table EXCEPT ![d].offset = place]
           \/ ~(place <= Len(bytes)) /\ result' = None /\ system' = system
    BY <2>1, <2>2, <2>4, <2>6 DEF ReadsAt
  <2> HIDE DEF bytes, place
  <2>8. /\ Matches(ports', system'.table)
        /\ \/ /\ place <= Len(bytes)
              /\ result' = ByteRead(bytes[place])
              /\ PortStreams' = [PortStreams EXCEPT ![p].offset = place]
           \/ ~(place <= Len(bytes)) /\ result' = None /\ PortStreams' = PortStreams
    <3>1. Matches(ports, system.table)
      BY DEF Consistent
    <3>2. CASE /\ place <= Len(bytes)
               /\ result' = ByteRead(bytes[place])
               /\ system'.table = [system.table EXCEPT ![d].offset = place]
      <4>1. /\ Matches(ports, system'.table)
            /\ StreamsOf(ports, system'.table) = [PortStreams EXCEPT ![p].offset = place]
        <5> DEFINE after == [system.table EXCEPT ![d].offset = place]
        <5>1. /\ Matches(ports, after)
              /\ StreamsOf(ports, after) = [PortStreams EXCEPT ![p].offset = place]
          <6>1. ASSUME NEW x
                PROVE  LET to == [system.table EXCEPT ![ports[p].descriptor].offset = x]
                       IN /\ Matches(ports, to)
                          /\ StreamsOf(ports, to) = [StreamsOf(ports, system.table) EXCEPT ![p].offset = x]
            BY <1>4, <3>1, PortMoved
          <6> QED
            BY <6>1, Zenon DEF PortStreams
        <5>2. system'.table = after
          BY <3>2
        <5> HIDE DEF after
        <5> QED
          BY <5>1, <5>2
      <4>2. PortStreams' = [PortStreams EXCEPT ![p].offset = place]
        BY <1>1, <4>1 DEF PortStreams
      <4> QED
        BY <1>1, <3>2, <4>1, <4>2
    <3>3. CASE ~(place <= Len(bytes)) /\ result' = None /\ system' = system
      <4>1. PortStreams' = PortStreams /\ Matches(ports', system'.table)
        BY <1>1, <3>3, SameStreams
      <4> QED
        BY <3>3, <4>1
    <3> QED
      BY <2>7, <3>2, <3>3
  <2>9. AbstractStreams!ReadPort(p)
    <3>1. bytes = system.disk.contents[PortStreams[p].file] /\ place = PortStreams[p].offset + 1
      BY DEF bytes, place
    <3> QED
      BY <1>1, <1>4, <2>7, <2>8, <3>1, AbstractRead
  <2> QED
    BY <1>1, <2>1, <2>3, <2>8, <2>9 DEF Consistent, AbstractStreams!Next
<1> QED
  BY <1>1, <1>3, <1>4

LEMMA WritePortStep ==
  ASSUME Consistent, NEW p \in Port, NEW byte \in Byte, WritePort(p, byte)
  PROVE  Consistent' /\ AbstractStreams!Next
<1> DEFINE d == ports[p].descriptor
<1>0. <<d>> \o <<byte>> = <<d, byte>>
  BY Pairs
<1>1. /\ p \in DOMAIN ports
      /\ UNCHANGED <<setup, device, ports>>
      /\ \/ result' = Failure /\ UNCHANGED system
         \/ /\ p \in OpenIn(ports)
            /\ \E step \in OperateFile(setup.files, system, WRITE_FILE, <<d, byte>>) :
                 system' = step.system /\ result' = step.value
  BY <1>0, PortCalled DEF WritePort
<1>3. CASE result' = Failure /\ UNCHANGED system
  BY <1>1, <1>3, RefusedStep
<1>4. CASE p \in OpenIn(ports) /\ ~(result' = Failure /\ UNCHANGED system)
  <2>1. PICK step \in OperateFile(setup.files, system, WRITE_FILE, <<d, byte>>) :
          system' = step.system /\ result' = step.value
    BY <1>1, <1>4
  <2>2. d \in DOMAIN system.table /\ system.table[d] = PortStreams[p]
    BY <1>4, OpenDescriptor
  <2>3. /\ IsSystem(step.system) /\ Fits(setup.files, step.system)
        /\ Refused(step, system) \/ WritesAt(step, system, d, byte % 256)
    BY <2>2, SetupKinds, Writes, InputOutputAssumption DEF Consistent
  <2>4. WritesAt(step, system, d, byte % 256)
    BY <1>4, <2>1, <2>3 DEF Refused
  <2>5. PICK stream : stream = PortStreams[p]
    OBVIOUS
  <2>6. /\ PortStreams[p].output /\ result' = Done
        /\ system'.disk = [system.disk EXCEPT !.contents[stream.file] =
                             WriteAt(@, stream.offset, byte % 256)]
    BY <2>1, <2>2, <2>4, <2>5 DEF WritesAt
  <2>7. system'.table = [system.table EXCEPT ![d].offset = stream.offset + 1]
    BY <2>1, <2>2, <2>4, <2>5 DEF WritesAt
  <2>8. PICK place : place = stream.offset + 1
    OBVIOUS
  <2>9. /\ Matches(ports, system'.table)
        /\ StreamsOf(ports, system'.table) = [PortStreams EXCEPT ![p].offset = place]
    <3>1. Matches(ports, system.table)
      BY DEF Consistent
    <3> DEFINE after == [system.table EXCEPT ![d].offset = place]
    <3>2. /\ Matches(ports, after)
          /\ StreamsOf(ports, after) = [PortStreams EXCEPT ![p].offset = place]
      <4>1. ASSUME NEW x
            PROVE  LET to == [system.table EXCEPT ![ports[p].descriptor].offset = x]
                   IN /\ Matches(ports, to)
                      /\ StreamsOf(ports, to) = [StreamsOf(ports, system.table) EXCEPT ![p].offset = x]
        BY <1>4, <3>1, PortMoved
      <4> QED
        BY <4>1, Zenon DEF PortStreams
    <3>3. system'.table = after
      BY <2>7, <2>8
    <3> HIDE DEF after
    <3> QED
      BY <3>2, <3>3
  <2>10. PortStreams' = [PortStreams EXCEPT ![p].offset = stream.offset + 1]
    BY <1>1, <2>8, <2>9 DEF PortStreams
  <2>11. AbstractStreams!WritePort(p, byte % 256)
    <3>1. PICK low : low = byte % 256
      OBVIOUS
    <3>2. system'.disk = [system.disk EXCEPT !.contents[stream.file] =
                            WriteAt(@, stream.offset, low)]
      BY <2>6, <3>1
    <3>3. AbstractStreams!WritePort(p, low)
      <4>1. UNCHANGED <<setup, device>> /\ p \in OpenIn(ports) /\ PortStreams[p].output
            /\ result' = Done
        BY <1>1, <1>4, <2>6
      <4> QED
        BY <4>1, <2>5, <2>10, <3>2, AbstractWrite, Zenon
    <3> QED
      BY <3>1, <3>3
  <2>12. byte % 256 \in {b % 256 : b \in Byte}
    OBVIOUS
  <2>13. Matches(ports', system'.table)
    BY <1>1, <2>9
  <2> QED
    BY <1>1, <2>1, <2>3, <2>11, <2>12, <2>13 DEF Consistent, AbstractStreams!Next
<1> QED
  BY <1>1, <1>3, <1>4

LEMMA FlushPortStep ==
  ASSUME Consistent, NEW p \in Port, FlushPort(p)
  PROVE  Consistent' /\ AbstractStreams!Next
<1> DEFINE d == ports[p].descriptor
<1>1. /\ p \in DOMAIN ports
      /\ UNCHANGED <<setup, device, ports>>
      /\ \/ result' = Failure /\ UNCHANGED system
         \/ /\ p \in OpenIn(ports)
            /\ \E step \in OperateFile(setup.files, system, FLUSH_FILE, <<d>>) :
                 system' = step.system /\ result' = step.value
  BY PortCalled, EmptyArguments DEF FlushPort
<1>3. CASE result' = Failure /\ UNCHANGED system
  BY <1>1, <1>3, RefusedStep
<1>4. CASE p \in OpenIn(ports) /\ ~(result' = Failure /\ UNCHANGED system)
  <2>1. PICK step \in OperateFile(setup.files, system, FLUSH_FILE, <<d>>) :
          system' = step.system /\ result' = step.value
    BY <1>1, <1>4
  <2>2. d \in DOMAIN system.table
    BY <1>4, OpenDescriptor
  <2>3. step.system = system /\ step.value \in {Failure, Done}
    BY <2>2, SetupKinds, Flushes DEF Consistent
  <2>4. UNCHANGED system /\ result' = Done
    BY <1>4, <2>1, <2>3
  <2>5. PortStreams' = PortStreams /\ Matches(ports', system'.table)
    BY <1>1, <2>4, SameStreams
  <2>6. AbstractStreams!FlushPort(p)
    BY <1>1, <1>4, <2>4, <2>5, AbstractFlush
  <2> QED
    BY <1>1, <2>4, <2>5, <2>6 DEF Consistent, AbstractStreams!Next
<1> QED
  BY <1>1, <1>3, <1>4

LEMMA DeleteFileStep ==
  ASSUME Consistent, NEW path \in Path, DeleteFile(path)
  PROVE  Consistent' /\ AbstractStreams!Next
<1> DEFINE name == DecodeBytes(path)
<1>1. UNCHANGED <<setup, device, ports>>
  BY DEF DeleteFile, CallFile
<1>2. PICK step \in OperateFile(setup.files, system, DELETE_FILE, <<path>>) :
        system' = step.system /\ result' = step.value
  BY DEF DeleteFile, CallFile, FileSteps
<1>3. /\ IsSystem(step.system) /\ Fits(setup.files, step.system)
      /\ Refused(step, system) \/ Deletes(step, system, name)
  BY SetupKinds, DeletesName DEF Consistent
<1>4. name \in {DecodeBytes(q) : q \in Path}
  BY PathType
<1> HIDE DEF name
<1>5. CASE Refused(step, system)
  <2>1. result' = Failure /\ UNCHANGED system
    BY <1>2, <1>5 DEF Refused
  <2> QED
    BY <1>1, <2>1, RefusedStep
<1>6. CASE Deletes(step, system, name)
  <2>1. /\ name \in DOMAIN system.disk.names
        /\ result' = Done
        /\ system'.table = system.table
        /\ system'.disk = WithoutDeadFiles(Unlinked(system.disk, name), system.table)
    BY <1>2, <1>6 DEF Deletes
  <2>2. PortStreams' = PortStreams /\ Matches(ports', system'.table)
    BY <1>1, <2>1, SameStreams
  <2>3. system'.disk = WithoutDeadFiles(Unlinked(system.disk, name), PortStreams)
    BY <2>1, SameLiving DEF PortStreams, Consistent
  <2>4. AbstractStreams!DeleteFile(name)
    BY <1>1, <2>1, <2>2, <2>3, AbstractDelete
  <2> QED
    BY <1>1, <1>2, <1>3, <1>4, <2>2, <2>4 DEF Consistent, AbstractStreams!Next
<1> QED
  BY <1>3, <1>5, <1>6

LEMMA FileExistsStep ==
  ASSUME Consistent, NEW path \in Path, FileExists(path)
  PROVE  Consistent' /\ AbstractStreams!Next
<1> DEFINE name == DecodeBytes(path)
<1>1. UNCHANGED <<setup, device, ports>>
  BY DEF FileExists, CallFile
<1>2. PICK step \in OperateFile(setup.files, system, EXISTS_FILE, <<path>>) :
        system' = step.system /\ result' = step.value
  BY DEF FileExists, CallFile, FileSteps
<1>3. \/ Refused(step, system)
      \/ \E seen \in BOOLEAN : Tells(step, system, seen) /\ (seen => name \in DOMAIN system.disk.names)
  BY SetupKinds, Exists DEF Consistent
<1>4. name \in {DecodeBytes(q) : q \in Path}
  BY PathType
<1> HIDE DEF name
<1>5. CASE Refused(step, system)
  <2>1. result' = Failure /\ UNCHANGED system
    BY <1>2, <1>5 DEF Refused
  <2> QED
    BY <1>1, <2>1, RefusedStep
<1>6. ASSUME NEW seen \in BOOLEAN, Tells(step, system, seen),
             seen => name \in DOMAIN system.disk.names
      PROVE  Consistent' /\ AbstractStreams!Next
  <2>1. result' = Boolean(seen) /\ UNCHANGED system
    BY <1>2, <1>6 DEF Tells
  <2>2. PortStreams' = PortStreams /\ Matches(ports', system'.table)
    BY <1>1, <2>1, SameStreams
  <2>3. AbstractStreams!FileExists(name)
    BY <1>1, <1>6, <2>1, <2>2, AbstractExists
  <2> QED
    BY <1>1, <1>4, <2>1, <2>2, <2>3 DEF Consistent, AbstractStreams!Next
<1> QED
  BY <1>3, <1>5, <1>6

LEMMA FileStep ==
  ASSUME Consistent, FileNext
  PROVE  Consistent' /\ AbstractStreams!Next
<1>1. ASSUME NEW p \in Port, NEW path \in Path, NEW output \in BOOLEAN, OpenPort(p, path, output)
      PROVE  Consistent' /\ AbstractStreams!Next
  BY <1>1, OpenPortStep
<1>2. ASSUME NEW p \in Port, ClosePort(p) \/ ReadPort(p) \/ FlushPort(p)
      PROVE  Consistent' /\ AbstractStreams!Next
  BY <1>2, ClosePortStep, ReadPortStep, FlushPortStep
<1>3. ASSUME NEW p \in Port, NEW byte \in Byte, WritePort(p, byte)
      PROVE  Consistent' /\ AbstractStreams!Next
  BY <1>3, WritePortStep
<1>4. ASSUME NEW path \in Path, DeleteFile(path) \/ FileExists(path)
      PROVE  Consistent' /\ AbstractStreams!Next
  BY <1>4, DeleteFileStep, FileExistsStep
<1> QED
  BY <1>1, <1>2, <1>3, <1>4, Zenon DEF FileNext

-----------------------------------------------------------------------------
(* Chunks of bytes, one after another.  FlattenSeq is a recursive function *)
(* of the prefixes of its argument; that there is one is shown by the      *)
(* least prefix without.                                                   *)

LEMMA FirstOf ==
  ASSUME NEW Bad, Bad \subseteq Nat, Bad # {}
  PROVE  \E m \in Bad : m - 1 \notin Bad
<1>1. Min(Bad) \in Bad /\ \A k \in Bad : Min(Bad) <= k
  BY LeastOf
<1>2. PICK m \in Bad : \A k \in Bad : m <= k
  BY <1>1
<1>3. m - 1 \in Bad => m <= m - 1
  BY <1>2
<1>4. m \in Nat
  OBVIOUS
<1>5. ~(m <= m - 1)
  BY <1>4
<1> QED
  BY <1>2, <1>3, <1>5

Flattens(s, T, g, n) ==
  /\ g \in [1 .. n -> Seq(T)]
  /\ \A i \in 1 .. n : g[i] = IF i = 1 THEN s[i] ELSE g[i - 1] \o s[i]

LEMMA FlattenExists ==
  ASSUME NEW T, NEW s \in Seq(Seq(T)), NEW n \in 0 .. Len(s)
  PROVE  \E g : Flattens(s, T, g, n)
<1> DEFINE Bad == {m \in 0 .. Len(s) : ~\E g : Flattens(s, T, g, m)}
<1>1. SUFFICES ASSUME Bad # {}
               PROVE  FALSE
  OBVIOUS
<1>2. Bad \subseteq Nat
  OBVIOUS
<1>3. PICK m \in Bad : m - 1 \notin Bad
  <2> HIDE DEF Bad
  <2> QED
    BY <1>1, <1>2, FirstOf
<1>4. m \in 0 .. Len(s) /\ ~\E g : Flattens(s, T, g, m)
  BY <1>3
<1>5. m # 0
  <2>1. Flattens(s, T, [i \in 1 .. 0 |-> <<>>], 0)
    BY DEF Flattens
  <2> QED
    BY <1>4, <2>1
<1>6. m - 1 \in 0 .. Len(s) /\ m - 1 \notin Bad
  <2>1. m - 1 \in 0 .. Len(s)
    BY <1>4, <1>5
  <2> HIDE DEF Bad
  <2> QED
    BY <1>3, <2>1
<1>7. PICK g : Flattens(s, T, g, m - 1)
  BY <1>6
<1> DEFINE last == IF m = 1 THEN s[1] ELSE g[m - 1] \o s[m]
           h == [i \in 1 .. m |-> IF i < m THEN g[i] ELSE last]
<1>8. s[1] \in Seq(T) /\ s[m] \in Seq(T)
  BY <1>4, <1>5
<1>9. g \in [1 .. m - 1 -> Seq(T)]
      /\ \A i \in 1 .. m - 1 : g[i] = IF i = 1 THEN s[i] ELSE g[i - 1] \o s[i]
  BY <1>7 DEF Flattens
<1>10. last \in Seq(T)
  <2>1. CASE m = 1
    BY <2>1, <1>8
  <2>2. CASE m # 1
    <3>1. g[m - 1] \in Seq(T)
      BY <1>4, <1>5, <1>9, <2>2
    <3> QED
      BY <2>2, <3>1, <1>8, ConcatProperties
  <2> QED
    BY <2>1, <2>2
<1>11. h \in [1 .. m -> Seq(T)]
  <2> HIDE DEF last
  <2>1. \A i \in 1 .. m : i < m => g[i] \in Seq(T)
    BY <1>4, <1>9
  <2> QED
    BY <2>1, <1>10
<1>12. \A i \in 1 .. m : h[i] = IF i = 1 THEN s[i] ELSE h[i - 1] \o s[i]
  <2>1. ASSUME NEW i \in 1 .. m
        PROVE  h[i] = IF i = 1 THEN s[i] ELSE h[i - 1] \o s[i]
    <3>1. CASE i < m
      <4>1. h[i] = g[i] /\ (i # 1 => h[i - 1] = g[i - 1])
        <5> HIDE DEF last
        <5> QED
          BY <1>4, <3>1
      <4>2. g[i] = IF i = 1 THEN s[i] ELSE g[i - 1] \o s[i]
        <5>1. i \in 1 .. m - 1
          BY <1>4, <3>1
        <5> HIDE DEF h
        <5> QED
          BY <1>9, <5>1, Zenon
      <4> HIDE DEF h
      <4> QED
        BY <4>1, <4>2
    <3>2. CASE i = m
      <4>1. h[i] = last /\ (i # 1 => h[i - 1] = g[i - 1])
        <5> HIDE DEF last
        <5> QED
          BY <1>4, <1>5, <3>2
      <4> HIDE DEF h
      <4> QED
        BY <3>2, <4>1
    <3> QED
      BY <1>4, <3>1, <3>2
  <2> QED
    BY <2>1
<1> HIDE DEF h
<1> QED
  BY <1>4, <1>11, <1>12 DEF Flattens

LEMMA FlattenIs ==
  ASSUME NEW T, NEW s \in Seq(Seq(T))
  PROVE  \E g : /\ Flattens(s, T, g, Len(s))
                /\ FlattenSeq(s) = IF s = <<>> THEN <<>> ELSE g[Len(s)]
<1> DEFINE Is(flatten) ==
             flatten = [i \in 1 .. Len(s) |-> IF i = 1 THEN s[i] ELSE flatten[i - 1] \o s[i]]
           F == CHOOSE flatten : Is(flatten)
<1>1. PICK g : Flattens(s, T, g, Len(s))
  BY FlattenExists
<1>2. FlattenSeq(s) = IF s = <<>> THEN <<>> ELSE F[Len(s)]
  <2>1. Len(s) = 0 <=> s = <<>>
    OBVIOUS
  <2>2. FlattenSeq(s) = IF Len(s) = 0 THEN s ELSE F[Len(s)]
    BY Zenon DEF FlattenSeq
  <2> HIDE DEF F
  <2> QED
    BY <2>1, <2>2, Zenon
<1>3. Is(g)
  BY <1>1 DEF Flattens
<1>4. Is(F)
  <2> HIDE DEF Is
  <2> QED
    BY <1>3
<1> HIDE DEF F
<1> DEFINE Bad == {m \in 1 .. Len(s) : F[m] # g[m]}
<1>5. Bad = {}
  <2>1. SUFFICES ASSUME Bad # {}
                 PROVE  FALSE
    OBVIOUS
  <2>2. Bad \subseteq Nat
    OBVIOUS
  <2>3. PICK m \in Bad : m - 1 \notin Bad
    <3> HIDE DEF Bad
    <3> QED
      BY <2>1, <2>2, FirstOf
  <2>4. m \in 1 .. Len(s) /\ F[m] # g[m] /\ m - 1 \notin Bad
    BY <2>3
  <2>5. m # 1 => F[m - 1] = g[m - 1]
    BY <2>4
  <2>6. F[m] = IF m = 1 THEN s[m] ELSE F[m - 1] \o s[m]
    BY <1>4
  <2>7. g[m] = IF m = 1 THEN s[m] ELSE g[m - 1] \o s[m]
    BY <1>1 DEF Flattens
  <2> QED
    BY <2>4, <2>5, <2>6, <2>7
<1>6. s # <<>> => F[Len(s)] = g[Len(s)]
  <2>1. s # <<>> => Len(s) \in 1 .. Len(s)
    OBVIOUS
  <2> QED
    BY <1>5, <2>1
<1> QED
  BY <1>1, <1>2, <1>6

LEMMA FlattenType ==
  ASSUME NEW T, NEW s \in Seq(Seq(T))
  PROVE  FlattenSeq(s) \in Seq(T) /\ FlattenSeq(<<>>) = <<>>
<1>1. PICK g : /\ Flattens(s, T, g, Len(s))
               /\ FlattenSeq(s) = IF s = <<>> THEN <<>> ELSE g[Len(s)]
  BY FlattenIs
<1>2. s # <<>> => Len(s) \in 1 .. Len(s)
  OBVIOUS
<1>3. FlattenSeq(<<>>) = <<>>
  BY DEF FlattenSeq
<1> QED
  BY <1>1, <1>2, <1>3 DEF Flattens

LEMMA FlattenFirst ==
  ASSUME NEW T, NEW s \in Seq(Seq(T)), s # <<>>
  PROVE  FlattenSeq(s) = s[1] \o FlattenSeq(Tail(s))
<1> DEFINE t == Tail(s)
<1>1. t \in Seq(Seq(T)) /\ Len(t) = Len(s) - 1 /\ Len(s) \in Nat \ {0} /\ Len(t) \in Nat
      /\ \A i \in 1 .. Len(t) : t[i] = s[i + 1]
  BY HeadTailProperties
<1> HIDE DEF t
<1>2. PICK f : Flattens(s, T, f, Len(s)) /\ FlattenSeq(s) = f[Len(s)]
  BY FlattenIs
<1>3. PICK g : /\ Flattens(t, T, g, Len(t))
               /\ FlattenSeq(t) = IF t = <<>> THEN <<>> ELSE g[Len(t)]
  BY <1>1, FlattenIs
<1>a. \A i \in 1 .. Len(s) : s[i] \in Seq(T)
  BY ElementOfSeq
<1>b. \A i \in 1 .. Len(t) : t[i] \in Seq(T)
  BY <1>1, ElementOfSeq
<1>c. \A x, y, z \in Seq(T) : (x \o y) \o z = x \o (y \o z)
  BY ConcatAssociative
<1>4. \A i \in 1 .. Len(s) : /\ f[i] \in Seq(T)
                             /\ f[i] = IF i = 1 THEN s[i] ELSE f[i - 1] \o s[i]
  BY <1>2 DEF Flattens
<1>5. \A i \in 1 .. Len(t) : /\ g[i] \in Seq(T)
                             /\ g[i] = IF i = 1 THEN t[i] ELSE g[i - 1] \o t[i]
  BY <1>1, <1>3 DEF Flattens
<1>6. CASE t = <<>>
  <2>1. Len(s) = 1 /\ FlattenSeq(t) = <<>>
    BY <1>1, <1>3, <1>6
  <2>2. s[1] \o <<>> = s[1]
    BY <1>1, <1>a, ConcatEmptySeq
  <2> QED
    BY <1>2, <1>4, <2>1, <2>2 DEF t
<1>7. CASE t # <<>>
  <2> DEFINE Bad == {m \in 1 .. Len(t) : f[m + 1] # s[1] \o g[m]}
  <2>1. Bad = {}
    <3>1. SUFFICES ASSUME Bad # {}
                   PROVE  FALSE
      OBVIOUS
    <3>2. Bad \subseteq Nat
      <4>1. 1 .. Len(t) \subseteq Nat
        OBVIOUS
      <4>2. Bad \subseteq 1 .. Len(t)
        BY Zenon
      <4> QED
        BY <4>1, <4>2, Zenon
    <3>3. PICK m \in Bad : m - 1 \notin Bad
      <4> HIDE DEF Bad
      <4> QED
        BY <3>1, <3>2, FirstOf
    <3>4. m \in 1 .. Len(t) /\ f[m + 1] # s[1] \o g[m] /\ m - 1 \notin Bad
      BY <3>3
    <3>5. m + 1 \in 1 .. Len(s) /\ m + 1 # 1 /\ (m + 1) - 1 = m
      BY <1>1
    <3>6. f[m + 1] = f[m] \o t[m]
      BY <1>1, <1>4, <3>5
    <3>7. CASE m = 1
      <4>1. f[1] = s[1] /\ g[1] = t[1]
        BY <1>1, <1>4, <1>5, <3>4, <3>7
      <4>2. f[m + 1] = s[1] \o g[m]
        BY <3>6, <3>7, <4>1
      <4> QED
        BY <3>4, <4>2
    <3>8. CASE m # 1
      <4>1. m - 1 \in 1 .. Len(t) /\ (m - 1) + 1 = m
        BY <1>1, <3>8
      <4>2. f[m] = s[1] \o g[m - 1]
        BY <3>4, <4>1
      <4>3. g[m] = g[m - 1] \o t[m]
        BY <1>5, <3>8
      <4>4. (s[1] \o g[m - 1]) \o t[m] = s[1] \o (g[m - 1] \o t[m])
        <5>1. s[1] \in Seq(T) /\ g[m - 1] \in Seq(T) /\ t[m] \in Seq(T)
          BY <1>1, <1>a, <1>b, <1>5, <3>4, <4>1
        <5> QED
          BY <5>1, <1>c, Zenon
      <4> QED
        BY <3>4, <3>6, <4>2, <4>3, <4>4
    <3> QED
      BY <3>7, <3>8
  <2>2. Len(t) \in 1 .. Len(t) /\ Len(t) + 1 = Len(s)
    BY <1>1, <1>7
  <2>3. f[Len(s)] = s[1] \o g[Len(t)]
    BY <2>1, <2>2
  <2> QED
    BY <1>2, <1>3, <1>7, <2>3 DEF t
<1> QED
  BY <1>6, <1>7

(* The chunks from k on. *)
Rest(s, k) == FlattenSeq(SubSeq(s, k, Len(s)))

LEMMA RestFirst ==
  ASSUME NEW T, NEW s \in Seq(Seq(T)), NEW k \in 1 .. Len(s)
  PROVE  Rest(s, k) = s[k] \o Rest(s, k + 1)
<1> DEFINE t == SubSeq(s, k, Len(s))
<1>1. Len(s) \in k .. Len(s) /\ Len(s) \in Nat
  OBVIOUS
<1>2. t \in Seq(Seq(T)) /\ Len(t) = Len(s) - k + 1 /\ t[1] = s[k]
  <2>1. \A i \in k .. Len(s) : s[i] \in Seq(T)
    BY ElementOfSeq
  <2> QED
    BY <1>1, <2>1, SubSeqProperties
<1>3. Tail(t) = SubSeq(s, k + 1, Len(s))
  BY <1>1, HeadTailOfSubSeq
<1>4. t # <<>>
  <2> HIDE DEF t
  <2> QED
    BY <1>1, <1>2
<1>5. FlattenSeq(t) = t[1] \o FlattenSeq(Tail(t))
  <2> HIDE DEF t
  <2> QED
    BY <1>2, <1>4, FlattenFirst
<1> QED
  BY <1>2, <1>3, <1>5 DEF Rest

LEMMA RestType ==
  ASSUME NEW T, NEW s \in Seq(Seq(T)), NEW k \in 1 .. Len(s) + 1
  PROVE  Rest(s, k) \in Seq(T)
<1>1. SubSeq(s, k, Len(s)) \in Seq(Seq(T))
  <2>1. \A i \in k .. Len(s) : s[i] \in Seq(T)
    BY ElementOfSeq
  <2> QED
    BY <2>1, SubSeqProperties
<1> QED
  BY <1>1, FlattenType DEF Rest

LEMMA RestEnd ==
  ASSUME NEW T, NEW s \in Seq(Seq(T))
  PROVE  Rest(s, Len(s) + 1) = <<>>
<1>1. SubSeq(s, Len(s) + 1, Len(s)) = <<>>
  BY SubSeqEmpty
<1> QED
  BY <1>1, FlattenType DEF Rest

(* Empty chunks add nothing. *)
LEMMA RestSkips ==
  ASSUME NEW T, NEW s \in Seq(Seq(T)), NEW k \in 1 .. Len(s) + 1, NEW m \in k .. Len(s) + 1,
         \A i \in k .. m - 1 : s[i] = <<>>
  PROVE  Rest(s, k) = Rest(s, m)
<1>0. Len(s) \in Nat
  OBVIOUS
<1> DEFINE Bad == {j \in k .. m : Rest(s, k) # Rest(s, j)}
<1>1. SUFFICES ASSUME Bad # {}
               PROVE  FALSE
  <2>1. m \in k .. m
    BY <1>0
  <2> QED
    BY <2>1
<1>2. Bad \subseteq Nat
  <2>1. k .. m \subseteq Nat
    BY <1>0
  <2> QED
    BY <2>1, Zenon
<1>3. PICK j \in Bad : j - 1 \notin Bad
  <2> HIDE DEF Bad
  <2> QED
    BY <1>1, <1>2, FirstOf
<1>4. j \in k .. m /\ Rest(s, k) # Rest(s, j) /\ j - 1 \notin Bad
  BY <1>3
<1>5. j # k
  BY <1>4
<1>6. j - 1 \in k .. m - 1 /\ j - 1 \in k .. m /\ j - 1 \in 1 .. Len(s) /\ (j - 1) + 1 = j
      /\ j \in 1 .. Len(s) + 1
  BY <1>0, <1>4, <1>5
<1>7. Rest(s, k) = Rest(s, j - 1)
  BY <1>4, <1>6, Zenon
<1>8. Rest(s, j - 1) = <<>> \o Rest(s, j)
  BY <1>6, RestFirst
<1>9. <<>> \o Rest(s, j) = Rest(s, j)
  BY <1>6, RestType, ConcatEmptySeq
<1> QED
  BY <1>4, <1>7, <1>8, <1>9

(* The bytes of a chunk from a place on, and more.                         *)
LEMMA BytesFrom ==
  ASSUME NEW T, NEW b \in Seq(T), NEW i \in Nat, i < Len(b), NEW r \in Seq(T)
  PROVE  LET u == SubSeq(b, i + 1, Len(b)) \o r
         IN /\ u # <<>>
            /\ Head(u) = b[i + 1]
            /\ Tail(u) = SubSeq(b, i + 2, Len(b)) \o r
<1> DEFINE u == SubSeq(b, i + 1, Len(b)) \o r
<1>1. i + 1 \in 1 .. Len(b) /\ Len(b) \in i + 1 .. Len(b) /\ Len(b) \in Nat
  OBVIOUS
<1> DEFINE t == SubSeq(b, i + 1, Len(b))
<1>2. t \in Seq(T) /\ Len(t) = Len(b) - i /\ t[1] = b[i + 1]
  <2>1. \A j \in i + 1 .. Len(b) : b[j] \in T
    BY ElementOfSeq
  <2> QED
    BY <1>1, <2>1, SubSeqProperties
<1>3. Tail(t) = SubSeq(b, i + 2, Len(b))
  <2>1. (i + 1) + 1 = i + 2
    OBVIOUS
  <2> QED
    BY <1>1, <2>1, HeadTailOfSubSeq
<1> HIDE DEF t, u
<1>4. u = t \o r /\ t # <<>> /\ Len(t) \in Nat \ {0} /\ Len(r) \in Nat
  <2>1. u = t \o r
    BY DEF t, u
  <2>2. Len(t) \in Nat \ {0}
    <3>1. Len(b) - i \in Nat \ {0}
      BY <1>1
    <3> QED
      BY <1>2, <3>1, Zenon
  <2>3. t # <<>>
    BY <1>2, <2>2
  <2>4. Len(r) \in Nat
    OBVIOUS
  <2> QED
    BY <2>1, <2>2, <2>3, <2>4
<1>5. u \in Seq(T) /\ Len(u) = Len(t) + Len(r)
      /\ \A j \in 1 .. Len(t) + Len(r) : u[j] = IF j <= Len(t) THEN t[j] ELSE r[j - Len(t)]
  BY <1>2, <1>4, ConcatProperties
<1>6. u # <<>> /\ u[1] = t[1]
  <2>1. 1 \in 1 .. Len(t) + Len(r) /\ 1 <= Len(t) /\ Len(t) + Len(r) # 0
    BY <1>4
  <2>2. u[1] = t[1]
    BY <1>5, <2>1
  <2>3. Len(u) # 0
    BY <1>5, <2>1
  <2>4. u # <<>>
    BY <1>5, <2>3
  <2> QED
    BY <2>2, <2>4
<1>7. Head(u) = b[i + 1]
  BY <1>2, <1>5, <1>6
<1>8. Tail(u) = Tail(t) \o r
  <2>1. Tail(u) \in Seq(T) /\ Len(Tail(u)) = Len(u) - 1
        /\ \A j \in 1 .. Len(Tail(u)) : Tail(u)[j] = u[j + 1]
    BY <1>5, <1>6, HeadTailProperties
  <2>2. Tail(t) \in Seq(T) /\ Len(Tail(t)) = Len(t) - 1
        /\ \A j \in 1 .. Len(Tail(t)) : Tail(t)[j] = t[j + 1]
    BY <1>2, <1>4, HeadTailProperties
  <2>3. Tail(t) \o r \in Seq(T) /\ Len(Tail(t) \o r) = Len(Tail(t)) + Len(r)
        /\ \A j \in 1 .. Len(Tail(t)) + Len(r) :
             (Tail(t) \o r)[j] = IF j <= Len(Tail(t)) THEN Tail(t)[j] ELSE r[j - Len(Tail(t))]
    BY <2>2, ConcatProperties
  <2>4. Len(Tail(u)) = Len(Tail(t) \o r)
    BY <1>4, <1>5, <2>1, <2>2, <2>3
  <2>5. ASSUME NEW j \in 1 .. Len(Tail(u))
        PROVE  Tail(u)[j] = (Tail(t) \o r)[j]
    <3>1. Tail(u)[j] = u[j + 1] /\ j + 1 \in 1 .. Len(t) + Len(r) /\ j \in Nat
      <4>1. Tail(u)[j] = u[j + 1]
        BY <2>1
      <4>2. Len(Tail(u)) = Len(t) + Len(r) - 1
        BY <1>5, <2>1
      <4>3. j \in 1 .. Len(t) + Len(r) - 1
        BY <4>2
      <4>4. Len(t) + Len(r) \in Nat
        BY <1>4
      <4>5. PICK n \in Nat : n = Len(t) + Len(r)
        BY <4>4
      <4>6. j + 1 \in 1 .. n /\ j \in Nat
        <5>1. j \in 1 .. n - 1
          BY <4>3, <4>5
        <5> QED
          BY <5>1
      <4> QED
        BY <4>1, <4>5, <4>6
    <3>2. CASE j + 1 <= Len(t)
      <4>1. j \in 1 .. Len(Tail(t)) /\ j \in 1 .. Len(Tail(t)) + Len(r) /\ j <= Len(Tail(t))
        BY <1>4, <2>2, <3>1, <3>2
      <4>2. u[j + 1] = t[j + 1]
        BY <1>5, <3>1, <3>2
      <4>3. (Tail(t) \o r)[j] = Tail(t)[j]
        BY <2>3, <4>1
      <4> QED
        BY <2>2, <3>1, <4>1, <4>2, <4>3
    <3>3. CASE ~(j + 1 <= Len(t))
      <4>1. ~(j <= Len(Tail(t))) /\ j - Len(Tail(t)) = (j + 1) - Len(t)
            /\ j \in 1 .. Len(Tail(t)) + Len(r)
        BY <1>4, <2>2, <3>1, <3>3
      <4>2. u[j + 1] = r[(j + 1) - Len(t)]
        BY <1>5, <3>1, <3>3
      <4>3. (Tail(t) \o r)[j] = r[j - Len(Tail(t))]
        BY <2>3, <4>1
      <4> QED
        BY <3>1, <4>1, <4>2, <4>3
    <3> QED
      BY <3>2, <3>3
  <2> DEFINE x == Tail(u)
             y == Tail(t) \o r
  <2>6. x \in Seq(T) /\ y \in Seq(T) /\ Len(x) = Len(y) /\ \A j \in 1 .. Len(x) : x[j] = y[j]
    BY <2>1, <2>3, <2>4, <2>5, Zenon
  <2>7. x = y
    <3> HIDE DEF x, y
    <3> QED
      BY <2>6, SeqEqual
  <2> QED
    BY <2>7
<1> QED
  BY <1>3, <1>6, <1>7, <1>8 DEF u, t

-----------------------------------------------------------------------------
(* Devices. *)

Device(input, chunk, byte, output, error) ==
  [input |-> input, chunk |-> chunk, byte |-> byte, output |-> output, error |-> error]

LEMMA InputType ==
  ASSUME NEW kind
  PROVE  /\ InputOf(kind) \in Seq(Seq(Bytes))
         /\ kind # "buffer" => Len(InputOf(kind)) = 1
<1>1. Chunks \in Seq(Seq(Bytes))
  BY InputOutputAssumption DEF Bytes
<1>2. FlattenSeq(Chunks) \in Seq(Bytes)
  BY <1>1, FlattenType
<1>3. <<FlattenSeq(Chunks)>> \in Seq(Seq(Bytes)) /\ Len(<<FlattenSeq(Chunks)>>) = 1
  BY <1>2
<1> QED
  BY <1>1, <1>3 DEF InputOf

LEMMA DeviceShape ==
  ASSUME NEW kind, NEW d, IsDevice(kind, d)
  PROVE  /\ d = Device(InputOf(kind), d.chunk, d.byte, d.output, d.error)
         /\ d.input = InputOf(kind)
         /\ d.chunk \in 1 .. Len(d.input) + 1 /\ d.byte \in Nat
         /\ \A x : [d EXCEPT !.byte = x] = Device(d.input, d.chunk, x, d.output, d.error)
         /\ \A x : [d EXCEPT !.output = x] = Device(d.input, d.chunk, d.byte, x, d.error)
         /\ \A x : [d EXCEPT !.error = x] = Device(d.input, d.chunk, d.byte, d.output, x)
BY DEF IsDevice, Device

LEMMA DeviceMoved ==
  ASSUME NEW kind, NEW d, IsDevice(kind, d)
  PROVE  \A x, y : [d EXCEPT !.chunk = x, !.byte = y] = Device(d.input, x, y, d.output, d.error)
<1> TAKE x, y
<1>1. [d EXCEPT !.chunk = x] = Device(d.input, x, d.byte, d.output, d.error)
  BY DEF IsDevice, Device
<1>2. \A e : e = Device(d.input, x, d.byte, d.output, d.error)
               => [e EXCEPT !.byte = y] = Device(d.input, x, y, d.output, d.error)
  BY DEF Device
<1> QED
  BY <1>1, <1>2, Zenon

(* A place in the input is a device of its own. *)
LEMMA DevicePlaced ==
  ASSUME NEW kind, NEW d, IsDevice(kind, d), NEW x \in 1 .. Len(d.input) + 1, NEW y \in Nat,
         x <= Len(d.input) => y <= Len(d.input[x]), kind # "buffer" => x = 1
  PROVE  LET e == Device(d.input, x, y, d.output, d.error)
         IN /\ IsDevice(kind, e)
            /\ e.input = d.input /\ e.chunk = x /\ e.byte = y
            /\ e.output = d.output /\ e.error = d.error
<1> DEFINE e == Device(d.input, x, y, d.output, d.error)
<1>1. /\ e.input = d.input /\ e.chunk = x /\ e.byte = y
      /\ e.output = d.output /\ e.error = d.error
  BY DEF Device
<1>2. d.input = InputOf(kind)
  BY DeviceShape
<1>3. e \in [input : {InputOf(kind)}, chunk : 1 .. Len(e.input) + 1, byte : Nat,
             output : {e.output}, error : {e.error}]
  BY <1>1, <1>2 DEF Device
<1> HIDE DEF e
<1>4. IsBuffer(kind, e.output) /\ IsBuffer(kind, e.error)
  BY <1>1 DEF IsDevice
<1>5. IsDevice(kind, e)
  BY <1>1, <1>3, <1>4 DEF IsDevice
<1> QED
  BY <1>1, <1>5 DEF e

Takes(step, d) ==
  /\ step.device.output = d.output /\ step.device.error = d.error
  /\ \/ Unread(d) = <<>> /\ step.value = None /\ Unread(step.device) = <<>>
     \/ /\ Unread(d) # <<>>
        /\ step.value = ByteRead(Head(Unread(d)))
        /\ Unread(step.device) = Tail(Unread(d))

LEMMA UnreadAt ==
  ASSUME NEW kind, NEW d, IsDevice(kind, d)
  PROVE  /\ d.chunk > Len(d.input) => Unread(d) = <<>>
         /\ d.chunk <= Len(d.input) =>
              /\ Unread(d) = SubSeq(d.input[d.chunk], d.byte + 1, Len(d.input[d.chunk]))
                               \o Rest(d.input, d.chunk + 1)
              /\ d.input[d.chunk] \in Seq(Bytes)
              /\ Rest(d.input, d.chunk + 1) \in Seq(Bytes)
<1>1. d.input \in Seq(Seq(Bytes)) /\ Len(d.input) \in Nat /\ d.chunk \in 1 .. Len(d.input) + 1
  BY DeviceShape, InputType
<1>2. d.chunk <= Len(d.input) => ~(d.chunk > Len(d.input)) /\ d.chunk \in 1 .. Len(d.input)
                                 /\ d.chunk + 1 \in 1 .. Len(d.input) + 1
  BY <1>1
<1>3. ASSUME d.chunk <= Len(d.input)
      PROVE  d.input[d.chunk] \in Seq(Bytes) /\ Rest(d.input, d.chunk + 1) \in Seq(Bytes)
  BY <1>1, <1>2, <1>3, RestType, ElementOfSeq
<1> QED
  BY <1>2, <1>3, Zenon DEF Unread, Rest

LEMMA GivesStep ==
  ASSUME NEW value, NEW d, NEW step \in Gives(value, d)
  PROVE  step.value = value /\ step.device = d
BY DEF Gives

(* Read a byte of the chunk that the input is read to.                     *)
LEMMA TakesHere ==
  ASSUME NEW kind, NEW d, IsDevice(kind, d), d.chunk <= Len(d.input),
         d.byte < Len(d.input[d.chunk]), NEW step,
         step.value = ByteRead(d.input[d.chunk][d.byte + 1]),
         step.device = Device(d.input, d.chunk, d.byte + 1, d.output, d.error)
  PROVE  Takes(step, d) /\ IsDevice(kind, step.device)
<1> DEFINE e == step.device
           b == d.input[d.chunk]
           r == Rest(d.input, d.chunk + 1)
<1>1. d.chunk \in 1 .. Len(d.input) + 1 /\ d.byte \in Nat /\ d.byte + 1 \in Nat
  BY DeviceShape
<1>2. b \in Seq(Bytes) /\ r \in Seq(Bytes) /\ Unread(d) = SubSeq(b, d.byte + 1, Len(b)) \o r
  BY UnreadAt
<1>3. d.byte + 1 <= Len(b)
  <2>1. Len(b) \in Nat
    <3> HIDE DEF b
    <3> QED
      BY <1>2
  <2> QED
    BY <1>1, <2>1, LessIsAtMost
<1>4. kind # "buffer" => d.chunk = 1
  BY DEF IsDevice
<1>5. /\ IsDevice(kind, e)
      /\ e.input = d.input /\ e.chunk = d.chunk /\ e.byte = d.byte + 1
      /\ e.output = d.output /\ e.error = d.error
  <2>1. ASSUME NEW x \in 1 .. Len(d.input) + 1, NEW y \in Nat,
               x <= Len(d.input) => y <= Len(d.input[x]), kind # "buffer" => x = 1
        PROVE  LET f == Device(d.input, x, y, d.output, d.error)
               IN /\ IsDevice(kind, f)
                  /\ f.input = d.input /\ f.chunk = x /\ f.byte = y
                  /\ f.output = d.output /\ f.error = d.error
    BY <2>1, DevicePlaced
  <2>2. PICK y \in Nat : y = d.byte + 1
    BY <1>1
  <2> DEFINE f == Device(d.input, d.chunk, y, d.output, d.error)
  <2>3. /\ IsDevice(kind, f)
        /\ f.input = d.input /\ f.chunk = d.chunk /\ f.byte = y
        /\ f.output = d.output /\ f.error = d.error
    BY <1>1, <1>3, <1>4, <2>1, <2>2, Zenon
  <2>4. e = f
    BY <2>2
  <2> HIDE DEF f, e
  <2> QED
    BY <2>2, <2>3, <2>4
<1>6. Unread(e) = SubSeq(b, (d.byte + 1) + 1, Len(b)) \o r
  BY <1>5, UnreadAt
<1>7. (d.byte + 1) + 1 = d.byte + 2
  BY <1>1
<1>8. /\ Unread(d) # <<>>
      /\ Head(Unread(d)) = b[d.byte + 1]
      /\ Tail(Unread(d)) = SubSeq(b, d.byte + 2, Len(b)) \o r
  <2> HIDE DEF b, r
  <2>1. d.byte < Len(b)
    BY DEF b
  <2>2. ASSUME NEW i \in Nat, i < Len(b)
        PROVE  LET u == SubSeq(b, i + 1, Len(b)) \o r
               IN u # <<>> /\ Head(u) = b[i + 1] /\ Tail(u) = SubSeq(b, i + 2, Len(b)) \o r
    BY <1>2, <2>2, BytesFrom
  <2> QED
    BY <1>1, <1>2, <2>1, <2>2, Zenon
<1> QED
  BY <1>5, <1>6, <1>7, <1>8 DEF Takes

LEMMA FixedReads ==
  ASSUME NEW kind, kind # "buffer", NEW d, IsDevice(kind, d), NEW step \in ReadFixed(d)
  PROVE  Takes(step, d) /\ IsDevice(kind, step.device)
<1>1. d.chunk = 1 /\ Len(d.input) = 1 /\ d.byte <= Len(d.input[1]) /\ d.byte \in Nat
      /\ d.input \in Seq(Seq(Bytes)) /\ d.input[1] \in Seq(Bytes)
  <2>1. d.input \in Seq(Seq(Bytes)) /\ Len(d.input) = 1 /\ d.byte \in Nat
    BY DeviceShape, InputType
  <2>2. d.chunk = 1 /\ d.byte <= Len(d.input[1])
    BY <2>1 DEF IsDevice
  <2>3. 1 \in 1 .. Len(d.input)
    BY <2>1
  <2> QED
    BY <2>1, <2>2, <2>3, ElementOfSeq
<1>2. CASE d.byte < Len(d.input[1])
  <2>1. step \in Gives(ByteRead(d.input[1][d.byte + 1]), [d EXCEPT !.byte = d.byte + 1])
    BY <1>2 DEF ReadFixed, GivesByte, ByteRead
  <2>2. step.value = ByteRead(d.input[1][d.byte + 1])
        /\ step.device = Device(d.input, d.chunk, d.byte + 1, d.output, d.error)
    BY <2>1, GivesStep, DeviceShape
  <2> QED
    BY <1>1, <1>2, <2>2, TakesHere
<1>3. CASE ~(d.byte < Len(d.input[1]))
  <2>1. step \in Gives(None, d)
    BY <1>3 DEF ReadFixed, EndOfInput, None
  <2>2. step.value = None /\ step.device = d
    BY <2>1, GivesStep
  <2> DEFINE b == d.input[1]
  <2>3. SubSeq(b, d.byte + 1, Len(b)) = <<>>
    <3>1. b \in Seq(Bytes) /\ d.byte \in Nat /\ ~(d.byte < Len(b))
      BY <1>1, <1>3
    <3> HIDE DEF b
    <3> QED
      BY <3>1, SubSeqEmpty
  <2>4. Rest(d.input, 2) = <<>>
    <3>1. Len(d.input) + 1 = 2
      BY <1>1
    <3>2. Rest(d.input, Len(d.input) + 1) = <<>>
      BY <1>1, RestEnd
    <3> QED
      BY <3>1, <3>2
  <2>5. Unread(d) = <<>> \o <<>>
    <3>1. d.chunk <= Len(d.input) /\ d.chunk + 1 = 2
      BY <1>1
    <3>2. Unread(d) = SubSeq(d.input[d.chunk], d.byte + 1, Len(d.input[d.chunk]))
                        \o Rest(d.input, d.chunk + 1)
      BY <3>1, UnreadAt
    <3> QED
      BY <1>1, <2>3, <2>4, <3>1, <3>2
  <2>6. Unread(d) = <<>>
    BY <2>5, FlattenType, ConcatEmptySeq
  <2> QED
    BY <2>2, <2>6 DEF Takes
<1> QED
  BY <1>2, <1>3

LEMMA Between ==
  ASSUME NEW n \in Nat, NEW c \in 1 .. n + 1, NEW m \in c + 1 .. n + 1
  PROVE  /\ c + 1 \in 1 .. n + 1
         /\ \A i \in c + 1 .. m - 1 : i \in c .. n /\ i # c /\ ~(m <= i)
OBVIOUS

LEMMA Beyond ==
  ASSUME NEW n \in Nat, NEW c \in 1 .. n + 1, NEW m \in c .. n, m # c
  PROVE  c <= n /\ m \in c + 1 .. n + 1 /\ ~(m <= c)
OBVIOUS

LEMMA MaxNext ==
  ASSUME NEW n \in Nat, NEW c \in 1 .. n + 1
  PROVE  Max({c, n + 1}) = n + 1
<1>1. \E x \in {c, n + 1} : \A y \in {c, n + 1} : x >= y
  OBVIOUS
<1>2. Max({c, n + 1}) \in {c, n + 1} /\ \A y \in {c, n + 1} : Max({c, n + 1}) >= y
  BY <1>1 DEF Max
<1> QED
  BY <1>2

LEMMA BufferReads ==
  ASSUME NEW d, IsDevice("buffer", d), NEW step \in ReadBuffer(d)
  PROVE  Takes(step, d) /\ IsDevice("buffer", step.device)
<1> DEFINE full == {i \in d.chunk .. Len(d.input) :
                      IF i = d.chunk THEN d.byte < Len(d.input[i]) ELSE d.input[i] # <<>>}
           next == Min(full)
           place == IF next = d.chunk THEN d.byte + 1 ELSE 1
<1>1. d.input \in Seq(Seq(Bytes)) /\ Len(d.input) \in Nat
      /\ d.chunk \in 1 .. Len(d.input) + 1 /\ d.byte \in Nat
  BY DeviceShape, InputType
<1>2. \A i \in 1 .. Len(d.input) : d.input[i] \in Seq(Bytes) /\ Len(d.input[i]) \in Nat
  <2>1. \A i \in 1 .. Len(d.input) : d.input[i] \in Seq(Bytes)
    BY <1>1, ElementOfSeq
  <2> QED
    BY <2>1, LenProperties
<1>3. \A i \in d.chunk .. Len(d.input) : i \in 1 .. Len(d.input) /\ i \in Nat
  BY <1>1
(* Nothing is left of a chunk that has been read.                          *)
<1>4. ASSUME d.chunk <= Len(d.input), d.chunk \notin full
      PROVE  Unread(d) = Rest(d.input, d.chunk + 1)
  <2> DEFINE b == d.input[d.chunk]
             r == Rest(d.input, d.chunk + 1)
  <2>1. d.chunk \in d.chunk .. Len(d.input)
    BY <1>1, <1>4
  <2>2. ~(d.byte < Len(b)) /\ b \in Seq(Bytes) /\ Len(b) \in Nat
    BY <1>2, <1>3, <1>4, <2>1
  <2>3. Unread(d) = SubSeq(b, d.byte + 1, Len(b)) \o r /\ r \in Seq(Bytes)
    BY <1>4, UnreadAt
  <2> HIDE DEF b, r
  <2>4. SubSeq(b, d.byte + 1, Len(b)) = <<>>
    BY <1>1, <2>2, SubSeqEmpty
  <2>5. <<>> \o r = r
    BY <2>3, ConcatEmptySeq
  <2> QED
    BY <2>3, <2>4, <2>5 DEF r
<1>5. ASSUME NEW m \in d.chunk + 1 .. Len(d.input) + 1, \A i \in full : m <= i
      PROVE  Rest(d.input, d.chunk + 1) = Rest(d.input, m)
  <2>1. \A i \in d.chunk + 1 .. m - 1 : i \in d.chunk .. Len(d.input) /\ i # d.chunk /\ ~(m <= i)
    BY <1>1, Between
  <2>2. \A i \in d.chunk + 1 .. m - 1 : d.input[i] = <<>>
    BY <1>5, <2>1
  <2>3. d.chunk + 1 \in 1 .. Len(d.input) + 1
    BY <1>1, Between
  <2>4. PICK k \in 1 .. Len(d.input) + 1 : k = d.chunk + 1
    BY <2>3
  <2>5. Rest(d.input, k) = Rest(d.input, m)
    BY <1>1, <2>2, <2>4, RestSkips
  <2> QED
    BY <2>4, <2>5
<1>6. CASE full = {}
  <2>1. step \in Gives(None, [d EXCEPT !.chunk = Max({d.chunk, Len(d.input) + 1}), !.byte = 0])
    BY <1>6, Zenon DEF ReadBuffer, EndOfInput, None
  <2>2. Max({d.chunk, Len(d.input) + 1}) = Len(d.input) + 1
    BY <1>1, MaxNext
  <2>3. step.value = None /\ step.device = Device(d.input, Len(d.input) + 1, 0, d.output, d.error)
    <3>1. /\ step.value = None
          /\ step.device = [d EXCEPT !.chunk = Max({d.chunk, Len(d.input) + 1}), !.byte = 0]
      BY <2>1, GivesStep
    <3>2. \A x, y : [d EXCEPT !.chunk = x, !.byte = y] = Device(d.input, x, y, d.output, d.error)
      BY DeviceMoved, Zenon
    <3> QED
      BY <2>2, <3>1, <3>2, Zenon
  <2>4. PICK n \in 1 .. Len(d.input) + 1 : n = Len(d.input) + 1
    BY <1>1
  <2>5. /\ IsDevice("buffer", step.device)
        /\ step.device.input = d.input /\ step.device.chunk = n
        /\ step.device.output = d.output /\ step.device.error = d.error
    <3> DEFINE e == Device(d.input, n, 0, d.output, d.error)
    <3>1. ~(n <= Len(d.input))
      BY <1>1, <2>4
    <3>2. /\ IsDevice("buffer", e)
          /\ e.input = d.input /\ e.chunk = n
          /\ e.output = d.output /\ e.error = d.error
      BY <3>1, DevicePlaced
    <3>3. step.device = e
      BY <2>3, <2>4
    <3> HIDE DEF e
    <3> QED
      BY <3>2, <3>3
  <2>6. Unread(step.device) = <<>>
    <3>1. n > Len(d.input)
      BY <1>1, <2>4
    <3> QED
      BY <2>5, <3>1, UnreadAt
  <2>7. Unread(d) = <<>>
    <3>1. CASE d.chunk > Len(d.input)
      BY <3>1, UnreadAt
    <3>2. CASE d.chunk <= Len(d.input)
      <4>1. n \in d.chunk + 1 .. Len(d.input) + 1
        BY <1>1, <2>4, <3>2
      <4>2. Rest(d.input, d.chunk + 1) = Rest(d.input, n)
        BY <1>5, <1>6, <4>1
      <4>3. Rest(d.input, n) = <<>>
        BY <1>1, <2>4, RestEnd
      <4> QED
        BY <1>4, <1>6, <3>2, <4>2, <4>3
    <3> QED
      BY <1>1, <3>1, <3>2
  <2> QED
    BY <2>3, <2>5, <2>6, <2>7 DEF Takes
<1>7. CASE full # {}
  <2>1. next \in full /\ \A i \in full : next <= i
    <3>1. full \subseteq Nat
      BY <1>3
    <3> HIDE DEF full
    <3> QED
      BY <1>7, <3>1, LeastOf
  <2>2. step \in Gives(ByteRead(d.input[next][place]), [d EXCEPT !.chunk = next, !.byte = place])
    BY <1>7, Zenon DEF ReadBuffer, GivesByte, ByteRead
  <2>3. next \in d.chunk .. Len(d.input) /\ next \in 1 .. Len(d.input) /\ next \in Nat
    BY <1>3, <2>1
  <2> HIDE DEF next
  <2>4. /\ step.value = ByteRead(d.input[next][place])
        /\ step.device = Device(d.input, next, place, d.output, d.error)
    <3>1. /\ step.value = ByteRead(d.input[next][place])
          /\ step.device = [d EXCEPT !.chunk = next, !.byte = place]
      BY <2>2, GivesStep
    <3>2. \A x, y : [d EXCEPT !.chunk = x, !.byte = y] = Device(d.input, x, y, d.output, d.error)
      BY DeviceMoved
    <3> HIDE DEF place
    <3> QED
      BY <3>1, <3>2, Zenon
  <2>5. CASE next = d.chunk
    <3>1. d.chunk <= Len(d.input) /\ d.byte < Len(d.input[d.chunk])
      BY <1>1, <2>1, <2>3, <2>5
    <3> QED
      BY <2>4, <2>5, <3>1, TakesHere
  <2>6. CASE next # d.chunk
    <3>1. d.chunk <= Len(d.input) /\ d.chunk \notin full /\ next \in d.chunk + 1 .. Len(d.input) + 1
      <4>1. d.chunk <= Len(d.input) /\ next \in d.chunk + 1 .. Len(d.input) + 1 /\ ~(next <= d.chunk)
        BY <1>1, <2>3, <2>6, Beyond
      <4> HIDE DEF full
      <4> QED
        BY <2>1, <4>1
    <3>2. d.input[next] # <<>>
      BY <2>1, <2>6
    <3> HIDE DEF full
    <3>3. Unread(d) = Rest(d.input, next)
      BY <1>4, <1>5, <2>1, <3>1
    <3> DEFINE e == Device(d.input, next, 0, d.output, d.error)
    <3>4. /\ IsDevice("buffer", e)
          /\ e.input = d.input /\ e.chunk = next /\ e.byte = 0
          /\ e.output = d.output /\ e.error = d.error
      <4>1. next \in 1 .. Len(d.input) + 1 /\ 0 <= Len(d.input[next])
        BY <1>1, <1>2, <2>3
      <4> QED
        BY <4>1, DevicePlaced
    <3> HIDE DEF e
    <3>5. next <= Len(d.input) /\ 0 < Len(d.input[next])
      <4>1. d.input[next] \in Seq(Bytes) /\ Len(d.input[next]) # 0 /\ Len(d.input[next]) \in Nat
        BY <1>2, <2>3, <3>2, EmptySeq
      <4> QED
        BY <2>3, <4>1
    <3>6. Unread(e) = Unread(d)
      <4>1. Unread(e) = SubSeq(d.input[next], 0 + 1, Len(d.input[next])) \o Rest(d.input, next + 1)
        BY <3>4, <3>5, UnreadAt
      <4>2. SubSeq(d.input[next], 1, Len(d.input[next])) = d.input[next]
        BY <1>2, <2>3, SubSeqFull
      <4>3. Rest(d.input, next) = d.input[next] \o Rest(d.input, next + 1)
        BY <1>1, <2>3, RestFirst
      <4>4. 0 + 1 = 1
        OBVIOUS
      <4> QED
        BY <3>3, <4>1, <4>2, <4>3, <4>4
    <3>7. Takes(step, e) /\ IsDevice("buffer", step.device)
      <4>1. place = e.byte + 1
        BY <2>6, <3>4
      <4>2. step.value = ByteRead(e.input[e.chunk][e.byte + 1])
            /\ step.device = Device(e.input, e.chunk, e.byte + 1, e.output, e.error)
        BY <2>4, <3>4, <4>1
      <4>3. e.chunk <= Len(e.input) /\ e.byte < Len(e.input[e.chunk])
        BY <3>4, <3>5
      <4> QED
        BY <3>4, <4>2, <4>3, TakesHere
    <3> QED
      BY <3>4, <3>6, <3>7 DEF Takes
  <2> QED
    BY <2>5, <2>6
<1> QED
  BY <1>6, <1>7

(* Writing: what was written is longer by a byte. *)
LEMMA BufferBytes ==
  ASSUME NEW kind, NEW buffer, IsBuffer(kind, buffer)
  PROVE  /\ buffer.bytes \in Seq(Bytes) /\ buffer.index \in 0 .. Len(buffer.bytes)
         /\ buffer.index \in Nat /\ Len(buffer.bytes) \in Nat
         /\ BytesOf(buffer) \in Seq(Bytes)
         /\ Len(BytesOf(buffer)) = buffer.index
         /\ \A i \in 1 .. buffer.index : BytesOf(buffer)[i] = buffer.bytes[i]
<1> DEFINE b == buffer.bytes
           n == buffer.index
<1>1. b \in Seq(Bytes) /\ n \in 0 .. Len(b)
  BY DEF IsBuffer
<1> HIDE DEF b, n
<1>2. Len(b) \in Nat /\ n \in Nat
  BY <1>1
<1>3. /\ SubSeq(b, 1, n) \in Seq(Bytes)
      /\ Len(SubSeq(b, 1, n)) = n
      /\ \A i \in 1 .. n : SubSeq(b, 1, n)[i] = b[i]
  <2>1. \A i \in 1 .. n : b[i] \in Bytes
    BY <1>1, <1>2, ElementOfSeq
  <2>2. /\ SubSeq(b, 1, n) \in Seq(Bytes)
        /\ Len(SubSeq(b, 1, n)) = IF 1 <= n THEN n - 1 + 1 ELSE 0
        /\ \A i \in 1 .. n - 1 + 1 : SubSeq(b, 1, n)[i] = b[1 + i - 1]
    BY <1>2, <2>1, SubSeqProperties
  <2> QED
    BY <1>2, <2>2
<1> QED
  BY <1>1, <1>2, <1>3 DEF BytesOf, b, n

LEMMA PutInBuffer ==
  ASSUME NEW kind, NEW buffer, IsBuffer(kind, buffer), NEW byte \in Bytes, NEW bytes \in Seq(Bytes),
         NEW index \in Nat, index = buffer.index + 1, index <= Len(bytes),
         kind \in {"fixed", "buffer"} => Len(bytes) = BufferSize,
         \A i \in 1 .. buffer.index : bytes[i] = BytesOf(buffer)[i], bytes[index] = byte
  PROVE  LET put == [bytes |-> bytes, index |-> index]
         IN IsBuffer(kind, put) /\ BytesOf(put) = Append(BytesOf(buffer), byte)
<1> DEFINE put == [bytes |-> bytes, index |-> index]
           old == BytesOf(buffer)
<1>0. Len(bytes) \in Nat
  OBVIOUS
<1>1. put.bytes = bytes /\ put.index = index
  OBVIOUS
<1>2. put \in [bytes : Seq(Bytes), index : 0 .. Len(put.bytes)]
  BY <1>0
<1> HIDE DEF put
<1>3. IsBuffer(kind, put)
  BY <1>1, <1>2 DEF IsBuffer
<1>4. /\ BytesOf(put) \in Seq(Bytes) /\ Len(BytesOf(put)) = index
      /\ \A i \in 1 .. index : BytesOf(put)[i] = bytes[i]
  BY <1>1, <1>3, BufferBytes
<1>5. old \in Seq(Bytes) /\ Len(old) = buffer.index /\ buffer.index \in Nat
  BY BufferBytes
<1>6. \A i \in 1 .. buffer.index : bytes[i] = old[i]
  OBVIOUS
<1> HIDE DEF old
<1>7. /\ Append(old, byte) \in Seq(Bytes) /\ Len(Append(old, byte)) = index
      /\ \A i \in 1 .. buffer.index : Append(old, byte)[i] = old[i]
      /\ Append(old, byte)[index] = byte
  BY <1>5, AppendProperties
<1>8. \A i \in 1 .. index : i \in 1 .. buffer.index \/ i = index
  BY <1>5
<1>9. \A i \in 1 .. index : BytesOf(put)[i] = Append(old, byte)[i]
  BY <1>4, <1>6, <1>7, <1>8, Zenon
<1>10. BytesOf(put) = Append(old, byte)
  <2> DEFINE x == BytesOf(put)
             y == Append(old, byte)
  <2>1. x \in Seq(Bytes) /\ y \in Seq(Bytes) /\ Len(x) = Len(y) /\ \A i \in 1 .. Len(x) : x[i] = y[i]
    BY <1>4, <1>7, <1>9, Zenon
  <2> HIDE DEF x, y
  <2>2. x = y
    BY <2>1, SeqEqual
  <2> QED
    BY <2>2 DEF x, y
<1> QED
  BY <1>3, <1>10 DEF put, old

Other(stream) == IF stream = "output" THEN "error" ELSE "output"

Puts(step, d, stream, byte) ==
  /\ step.value = Done
  /\ Unread(step.device) = Unread(d)
  /\ BytesOf(step.device[stream]) = Append(BytesOf(d[stream]), byte)
  /\ step.device[Other(stream)] = d[Other(stream)]

LEMMA BufferPut ==
  ASSUME NEW kind, NEW d, IsDevice(kind, d), NEW stream \in {"output", "error"}, NEW put,
         IsBuffer(kind, put)
  PROVE  LET e == [d EXCEPT ![stream] = put]
         IN /\ IsDevice(kind, e)
            /\ Unread(e) = Unread(d)
            /\ e[stream] = put
            /\ e[Other(stream)] = d[Other(stream)]
<1> DEFINE e == [d EXCEPT ![stream] = put]
<1>1. CASE stream = "output"
  <2>1. e = Device(d.input, d.chunk, d.byte, put, d.error)
    BY <1>1, DeviceShape
  <2> HIDE DEF e
  <2>2. e.input = d.input /\ e.chunk = d.chunk /\ e.byte = d.byte /\ e.output = put /\ e.error = d.error
    BY <2>1 DEF Device
  <2>3. e \in [input : {InputOf(kind)}, chunk : 1 .. Len(e.input) + 1, byte : Nat,
               output : {e.output}, error : {e.error}]
    BY <2>1, <2>2, DeviceShape DEF Device
  <2>4. IsDevice(kind, e)
    BY <2>2, <2>3 DEF IsDevice
  <2>5. Unread(e) = Unread(d)
    BY <2>2 DEF Unread
  <2> QED
    BY <1>1, <2>2, <2>4, <2>5 DEF Other, e
<1>2. CASE stream = "error"
  <2>0. e = [d EXCEPT !.error = put]
    BY <1>2, Zenon
  <2>1. e = Device(d.input, d.chunk, d.byte, d.output, put)
    <3>1. \A x : [d EXCEPT !.error = x] = Device(d.input, d.chunk, d.byte, d.output, x)
      BY DeviceShape
    <3> HIDE DEF e
    <3> QED
      BY <2>0, <3>1, Zenon
  <2> HIDE DEF e
  <2>2. e.input = d.input /\ e.chunk = d.chunk /\ e.byte = d.byte /\ e.output = d.output /\ e.error = put
    BY <2>1 DEF Device
  <2>3. e \in [input : {InputOf(kind)}, chunk : 1 .. Len(e.input) + 1, byte : Nat,
               output : {e.output}, error : {e.error}]
    BY <2>1, <2>2, DeviceShape DEF Device
  <2>4. IsDevice(kind, e)
    BY <2>2, <2>3 DEF IsDevice
  <2>5. Unread(e) = Unread(d)
    BY <2>2 DEF Unread
  <2> QED
    BY <1>2, <2>2, <2>4, <2>5 DEF Other, e
<1> QED
  BY <1>1, <1>2

LEMMA StreamBuffer ==
  ASSUME NEW kind, NEW d, IsDevice(kind, d), NEW stream \in {"output", "error"}
  PROVE  IsBuffer(kind, d[stream])
BY DEF IsDevice

Keeps(step, d) == step.value = Failure /\ step.device = d

LEMMA FixedPuts ==
  ASSUME NEW kind \in {"fixed", "buffer"}, NEW d, IsDevice(kind, d),
         NEW stream \in {"output", "error"}, NEW byte \in Bytes, NEW step \in PutFixed(d, stream, byte)
  PROVE  /\ Puts(step, d, stream, byte) \/ Keeps(step, d)
         /\ IsDevice(kind, step.device)
<1> DEFINE buffer == d[stream]
           bytes == [buffer.bytes EXCEPT ![buffer.index + 1] = byte]
           put == [bytes |-> bytes, index |-> buffer.index + 1]
<1>1. CASE buffer.index < BufferSize
  <2>1. step \in Gives(Done, [d EXCEPT ![stream] = put])
    BY <1>1, Zenon DEF PutFixed, Written, Gives, Done
  <2>2. IsBuffer(kind, buffer)
    BY StreamBuffer
  <2> HIDE DEF buffer
  <2>3. /\ buffer.bytes \in Seq(Bytes) /\ buffer.index \in Nat /\ Len(buffer.bytes) = BufferSize
        /\ BufferSize \in Nat
        /\ \A i \in 1 .. buffer.index : BytesOf(buffer)[i] = buffer.bytes[i]
    BY <2>2, BufferBytes, InputOutputAssumption DEF IsBuffer
  <2>4. buffer.index + 1 \in 1 .. Len(buffer.bytes) /\ buffer.index + 1 \in Nat
        /\ \A i \in 1 .. buffer.index : i \in 1 .. Len(buffer.bytes) /\ i # buffer.index + 1
    BY <1>1, <2>3
  <2>5. /\ bytes \in Seq(Bytes) /\ Len(bytes) = BufferSize
        /\ \A i \in 1 .. Len(buffer.bytes) :
             bytes[i] = IF i = buffer.index + 1 THEN byte ELSE buffer.bytes[i]
    BY <2>3, <2>4, ExceptSeq
  <2> HIDE DEF bytes
  <2>6. IsBuffer(kind, put) /\ BytesOf(put) = Append(BytesOf(buffer), byte)
    <3>1. PICK index \in Nat : index = buffer.index + 1
      BY <2>4
    <3>2. index <= Len(bytes) /\ bytes[index] = byte
          /\ \A i \in 1 .. buffer.index : bytes[i] = BytesOf(buffer)[i]
      BY <2>3, <2>4, <2>5, <3>1
    <3> QED
      BY <2>2, <2>5, <3>1, <3>2, PutInBuffer
  <2> HIDE DEF put
  <2>7. step.value = Done /\ step.device = [d EXCEPT ![stream] = put]
    BY <2>1, GivesStep
  <2>8. LET e == [d EXCEPT ![stream] = put]
        IN /\ IsDevice(kind, e)
           /\ Unread(e) = Unread(d)
           /\ e[stream] = put
           /\ e[Other(stream)] = d[Other(stream)]
    BY <2>6, BufferPut
  <2> QED
    BY <2>6, <2>7, <2>8, Zenon DEF Puts, buffer
<1>2. CASE ~(buffer.index < BufferSize)
  <2>1. step \in Gives(Failure, d)
    BY <1>2, Zenon DEF PutFixed, Failed, Gives, Failure
  <2> QED
    BY <2>1, GivesStep DEF Keeps
<1> QED
  BY <1>1, <1>2

LEMMA StreamPuts ==
  ASSUME NEW kind, kind \notin {"fixed", "buffer"}, NEW d, IsDevice(kind, d),
         NEW stream \in {"output", "error"}, NEW byte \in Bytes, NEW step \in PutStream(d, stream, byte)
  PROVE  /\ Puts(step, d, stream, byte) \/ Keeps(step, d)
         /\ IsDevice(kind, step.device)
<1> DEFINE buffer == d[stream]
           bytes == Append(BytesOf(buffer), byte)
           put == [bytes |-> bytes, index |-> buffer.index + 1]
<1>1. CASE step \in Gives(Done, [d EXCEPT ![stream] = put])
  <2>2. IsBuffer(kind, buffer)
    BY StreamBuffer
  <2> HIDE DEF buffer
  <2>3. /\ BytesOf(buffer) \in Seq(Bytes) /\ buffer.index \in Nat
        /\ Len(BytesOf(buffer)) = buffer.index
    BY <2>2, BufferBytes
  <2>5. /\ bytes \in Seq(Bytes) /\ Len(bytes) = buffer.index + 1
        /\ \A i \in 1 .. buffer.index : bytes[i] = BytesOf(buffer)[i]
        /\ bytes[buffer.index + 1] = byte
    BY <2>3, AppendProperties
  <2> HIDE DEF bytes
  <2>6. IsBuffer(kind, put) /\ BytesOf(put) = Append(BytesOf(buffer), byte)
    <3>1. PICK index \in Nat : index = buffer.index + 1
      BY <2>3
    <3>2. index <= Len(bytes) /\ bytes[index] = byte
      BY <2>5, <3>1
    <3> QED
      BY <2>2, <2>5, <3>1, <3>2, PutInBuffer
  <2> HIDE DEF put
  <2>7. step.value = Done /\ step.device = [d EXCEPT ![stream] = put]
    BY <1>1, GivesStep
  <2>8. LET e == [d EXCEPT ![stream] = put]
        IN /\ IsDevice(kind, e)
           /\ Unread(e) = Unread(d)
           /\ e[stream] = put
           /\ e[Other(stream)] = d[Other(stream)]
    BY <2>6, BufferPut
  <2> QED
    BY <2>6, <2>7, <2>8, Zenon DEF Puts, buffer
<1>2. CASE step \in Gives(Failure, d)
  BY <1>2, GivesStep DEF Keeps
<1>3. step \in Gives(Done, [d EXCEPT ![stream] = put]) \/ step \in Gives(Failure, d)
  BY Zenon DEF PutStream, Written, Failed, Gives, Done, Failure
<1> QED
  BY <1>1, <1>2, <1>3

(* What each device does for each primitive. *)
LEMMA DeviceReads ==
  ASSUME NEW kind \in {"fixed", "buffer", "std", "libc"}, NEW d, IsDevice(kind, d), NEW argument,
         NEW step \in OperateDevice(kind, d, READ, argument)
  PROVE  /\ Takes(step, d) \/ Keeps(step, d)
         /\ IsDevice(kind, step.device)
<1>1. ASSUME step \in Failed(d)
      PROVE  Keeps(step, d) /\ IsDevice(kind, step.device)
  BY <1>1 DEF Failed, Keeps, Failure
<1>2. CASE kind = "fixed"
  <2>1. step \in ReadFixed(d)
    BY <1>2, Zenon DEF OperateDevice, FixedDevice
  <2> QED
    BY <1>2, <2>1, FixedReads
<1>3. CASE kind = "buffer"
  <2>1. step \in ReadBuffer(d)
    BY <1>3, Zenon DEF OperateDevice, BufferDevice
  <2> QED
    BY <1>3, <2>1, BufferReads
<1>4. CASE kind \in {"std", "libc"}
  <2>1. step \in ReadFixed(d) \cup Failed(d)
    <3>1. CASE kind = "std"
      BY <3>1, Zenon DEF OperateDevice, StdDevice
    <3>2. CASE kind = "libc"
      BY <3>2, Zenon DEF OperateDevice, LibcDevice
    <3> QED
      BY <1>4, <3>1, <3>2
  <2>2. kind # "buffer"
    BY <1>4
  <2> QED
    BY <1>1, <2>1, <2>2, FixedReads
<1> QED
  BY <1>2, <1>3, <1>4

LEMMA DeviceWrites ==
  ASSUME NEW kind \in {"fixed", "buffer", "std", "libc"}, NEW d, IsDevice(kind, d),
         NEW primitive \in {WRITE, WRITE_ERROR}, NEW argument, NEW byte \in Bytes,
         byte = argument % 256, NEW step \in OperateDevice(kind, d, primitive, argument)
  PROVE  /\ Puts(step, d, StreamOf(primitive), byte) \/ Keeps(step, d)
         /\ IsDevice(kind, step.device)
<1> DEFINE stream == StreamOf(primitive)
<1>1. primitive # READ
  BY DEF WRITE, WRITE_ERROR, READ
<1>2. stream \in {"output", "error"}
  BY Zenon DEF StreamOf
<1> HIDE DEF stream
<1>3. CASE kind \in {"fixed", "buffer"}
  <2>1. step \in PutFixed(d, stream, byte)
    <3>1. CASE kind = "fixed"
      BY <1>1, <3>1, Zenon DEF OperateDevice, FixedDevice, stream
    <3>2. CASE kind = "buffer"
      BY <1>1, <3>2, Zenon DEF OperateDevice, BufferDevice, stream
    <3> QED
      BY <1>3, <3>1, <3>2
  <2> QED
    BY <1>2, <1>3, <2>1, FixedPuts DEF stream
<1>4. CASE kind \in {"std", "libc"}
  <2>1. step \in PutStream(d, stream, byte)
    <3>1. CASE kind = "std"
      BY <1>1, <3>1, Zenon DEF OperateDevice, StdDevice, stream
    <3>2. CASE kind = "libc"
      BY <1>1, <3>2, Zenon DEF OperateDevice, LibcDevice, stream
    <3> QED
      BY <1>4, <3>1, <3>2
  <2>2. kind \notin {"fixed", "buffer"}
    BY <1>4
  <2> QED
    BY <1>2, <2>1, <2>2, StreamPuts DEF stream
<1> QED
  BY <1>3, <1>4

LEMMA VoidDevices ==
  ASSUME NEW d, NEW primitive \in {READ, WRITE, WRITE_ERROR}, NEW argument,
         NEW step \in OperateDevice("void", d, primitive, argument)
  PROVE  /\ step.device = d
         /\ step.value = IF primitive = READ THEN None ELSE Done
<1>1. step \in VoidDevice(d, primitive)
  BY Zenon DEF OperateDevice
<1>2. CASE primitive = READ
  <2>1. step \in Gives(None, d)
    BY <1>1, <1>2, Zenon DEF VoidDevice, EndOfInput, None
  <2> QED
    BY <1>2, <2>1, GivesStep
<1>3. CASE primitive # READ
  <2>1. step \in Gives(Done, d)
    BY <1>1, <1>3, Zenon DEF VoidDevice, Written, Done
  <2> QED
    BY <1>3, <2>1, GivesStep
<1> QED
  BY <1>2, <1>3

-----------------------------------------------------------------------------
(* Steps of the program on devices.                                        *)

LEMMA KeptFiles ==
  ASSUME Consistent, UNCHANGED <<setup, system, ports>>
  PROVE  /\ Consistent'
         /\ UNCHANGED system.disk
         /\ UNCHANGED [p \in OpenPorts |-> system.table[ports[p].descriptor]]
         /\ UNCHANGED (setup.device = "void")
<1>1. PortStreams' = PortStreams
  BY SameStreams
<1>2. UNCHANGED [p \in OpenPorts |-> system.table[ports[p].descriptor]]
  BY <1>1, MappedStreams, MappedNext, Zenon
<1> QED
  BY <1>2 DEF Consistent

LEMMA RefusedDevice ==
  ASSUME Consistent, UNCHANGED <<setup, device, system, ports>>, result' = Failure
  PROVE  AbstractStreams!Next
<1>1. PortStreams' = PortStreams
  BY SameStreams
<1> QED
  BY <1>1, AbstractRefuse DEF AbstractStreams!Next

LEMMA NotVoid ==
  ASSUME setup \in Setup, setup.device # "void"
  PROVE  setup.device \in {"fixed", "buffer", "std", "libc"}
BY SetupKinds

LEMMA ReadInputStep ==
  ASSUME Consistent, DevicesInv, ReadInput
  PROVE  Consistent' /\ DevicesInv' /\ AbstractStreams!Next
<1> DEFINE input == IF setup.device = "void" THEN <<>> ELSE Unread(device)
<1>1. PICK step \in OperateDevice(setup.device, device, READ, 0) :
        /\ device' = step.device
        /\ result' = step.value
        /\ UNCHANGED <<setup, system, ports>>
  BY DEF ReadInput, CallDevice
<1>2. setup \in Setup /\ IsDevice(setup.device, device) /\ setup' = setup
  BY <1>1 DEF DevicesInv
<1>3. /\ Consistent'
      /\ UNCHANGED system.disk
      /\ UNCHANGED [p \in OpenPorts |-> system.table[ports[p].descriptor]]
      /\ UNCHANGED (setup.device = "void")
  BY <1>1, KeptFiles
<1>4. ASSUME result' = (IF input = <<>> THEN None ELSE ByteRead(Head(input))),
             input' = (IF input = <<>> THEN <<>> ELSE Tail(input)),
             device'.output = device.output, device'.error = device.error
      PROVE  AbstractStreams!Next
  <2>1. UNCHANGED [output |-> BytesOf(device.output), error |-> BytesOf(device.error)]
    BY <1>4 DEF BytesOf
  <2>2. AbstractStreams!OnDevices(IF input = <<>> THEN AbstractStreams!None
                                  ELSE AbstractStreams!ByteRead(Head(input)))
    BY <1>3, <1>4, SameValues DEF AbstractStreams!OnDevices
  <2>3. AbstractStreams!ReadInput
    BY <1>4, <2>1, <2>2 DEF AbstractStreams!ReadInput
  <2> QED
    BY <2>3 DEF AbstractStreams!Next
<1>5. CASE setup.device = "void"
  <2>1. device' = device /\ result' = None
    BY <1>1, <1>5, VoidDevices
  <2>2. input = <<>> /\ input' = <<>>
    BY <1>2, <1>5
  <2> QED
    BY <1>2, <1>3, <1>4, <2>1, <2>2 DEF DevicesInv
<1>6. CASE setup.device # "void"
  <2>1. /\ Takes(step, device) \/ Keeps(step, device)
        /\ IsDevice(setup.device, step.device)
    BY <1>1, <1>2, <1>6, NotVoid, DeviceReads
  <2>2. DevicesInv'
    BY <1>1, <1>2, <2>1 DEF DevicesInv
  <2>3. CASE Keeps(step, device)
    <3>1. device' = device /\ result' = Failure
      BY <1>1, <2>3 DEF Keeps
    <3> QED
      BY <1>1, <1>3, <2>2, <3>1, RefusedDevice
  <2>4. CASE Takes(step, device)
    <3>1. input = Unread(device) /\ input' = Unread(device')
      BY <1>2, <1>6 DEF Unread
    <3>2. /\ device'.output = device.output /\ device'.error = device.error
          /\ result' = (IF input = <<>> THEN None ELSE ByteRead(Head(input)))
          /\ Unread(device') = (IF input = <<>> THEN <<>> ELSE Tail(input))
      <4>1. Unread(device) = <<>> =>
              result' = None /\ Unread(device') = <<>>
        BY <1>1, <2>4 DEF Takes
      <4>2. Unread(device) # <<>> =>
              result' = ByteRead(Head(Unread(device))) /\ Unread(device') = Tail(Unread(device))
        BY <1>1, <2>4 DEF Takes
      <4>3. device'.output = device.output /\ device'.error = device.error
        BY <1>1, <2>4 DEF Takes
      <4> HIDE DEF input
      <4> QED
        BY <3>1, <4>1, <4>2, <4>3, Zenon
    <3> QED
      BY <1>3, <1>4, <2>2, <3>1, <3>2
  <2> QED
    BY <2>1, <2>3, <2>4
<1> QED
  BY <1>5, <1>6

LEMMA Outputs ==
  ASSUME NEW a, NEW b, NEW x, NEW r, r = [output |-> a, error |-> b]
  PROVE  /\ [r EXCEPT !.output = x] = [output |-> x, error |-> b]
         /\ [r EXCEPT !.error = x] = [output |-> a, error |-> x]
<1>1. r \in [output : {a}, error : {b}]
  OBVIOUS
<1>2. [r EXCEPT !.output = x] = [output |-> x, error |-> b]
  BY <1>1
<1>3. [r EXCEPT !.error = x] = [output |-> a, error |-> x]
  BY <1>1
<1> QED
  BY <1>2, <1>3

LEMMA AppendedTo ==
  ASSUME NEW stream \in {"output", "error"}, NEW step, NEW d, NEW byte, Puts(step, d, stream, byte)
  PROVE  LET outputs == [output |-> BytesOf(d.output), error |-> BytesOf(d.error)]
         IN [output |-> BytesOf(step.device.output), error |-> BytesOf(step.device.error)]
              = [outputs EXCEPT ![stream] = Append(outputs[stream], byte)]
<1> DEFINE outputs == [output |-> BytesOf(d.output), error |-> BytesOf(d.error)]
<1>1. CASE stream = "output"
  <2>1. BytesOf(step.device.output) = Append(BytesOf(d.output), byte)
        /\ step.device.error = d.error
    BY <1>1 DEF Puts, Other
  <2>2. outputs[stream] = BytesOf(d.output)
    BY <1>1
  <2>3. [outputs EXCEPT ![stream] = Append(BytesOf(d.output), byte)]
          = [output |-> Append(BytesOf(d.output), byte), error |-> BytesOf(d.error)]
    <3>1. \A x : [outputs EXCEPT ![stream] = x] = [outputs EXCEPT !.output = x]
      BY <1>1, Zenon
    <3>2. \A x : [outputs EXCEPT !.output = x] = [output |-> x, error |-> BytesOf(d.error)]
      BY Outputs
    <3> HIDE DEF outputs
    <3> QED
      BY <3>1, <3>2, Zenon
  <2> QED
    BY <2>1, <2>2, <2>3, Zenon
<1>2. CASE stream = "error"
  <2>1. BytesOf(step.device.error) = Append(BytesOf(d.error), byte)
        /\ step.device.output = d.output
    BY <1>2 DEF Puts, Other
  <2>2. outputs[stream] = BytesOf(d.error)
    BY <1>2
  <2>3. [outputs EXCEPT ![stream] = Append(BytesOf(d.error), byte)]
          = [output |-> BytesOf(d.output), error |-> Append(BytesOf(d.error), byte)]
    <3>1. \A x : [outputs EXCEPT ![stream] = x] = [outputs EXCEPT !.error = x]
      BY <1>2, Zenon
    <3>2. \A x : [outputs EXCEPT !.error = x] = [output |-> BytesOf(d.output), error |-> x]
      BY Outputs
    <3> HIDE DEF outputs
    <3> QED
      BY <3>1, <3>2, Zenon
  <2> QED
    BY <2>1, <2>2, <2>3, Zenon
<1> QED
  BY <1>1, <1>2

LEMMA ByteOf ==
  ASSUME NEW n \in Nat
  PROVE  n % 256 \in Bytes
BY DEF Bytes

LEMMA WriteStep ==
  ASSUME Consistent, DevicesInv, NEW primitive \in {WRITE, WRITE_ERROR}, NEW argument \in Byte,
         CallDevice(primitive, argument)
  PROVE  Consistent' /\ DevicesInv' /\ AbstractStreams!Next
<1> DEFINE outputs == [output |-> BytesOf(device.output), error |-> BytesOf(device.error)]
           input == IF setup.device = "void" THEN <<>> ELSE Unread(device)
           stream == StreamOf(primitive)
<1>1. PICK step \in OperateDevice(setup.device, device, primitive, argument) :
        /\ device' = step.device
        /\ result' = step.value
        /\ UNCHANGED <<setup, system, ports>>
  BY DEF CallDevice
<1>2. setup \in Setup /\ IsDevice(setup.device, device) /\ setup' = setup
  BY <1>1 DEF DevicesInv
<1>3. /\ Consistent'
      /\ UNCHANGED system.disk
      /\ UNCHANGED [p \in OpenPorts |-> system.table[ports[p].descriptor]]
      /\ UNCHANGED (setup.device = "void")
  BY <1>1, KeptFiles
<1>4. PICK byte \in Bytes : byte = argument % 256
  <2>1. argument \in Nat
    BY InputOutputAssumption
  <2> QED
    BY <2>1, ByteOf
<1>5. stream \in {"output", "error"}
  BY Zenon DEF StreamOf
<1> HIDE DEF stream
<1>6. ASSUME result' = Done, UNCHANGED input,
             outputs' = (IF setup.device = "void" THEN outputs
                         ELSE [outputs EXCEPT ![stream] = Append(outputs[stream], byte)])
      PROVE  AbstractStreams!Next
  <2>1. AbstractStreams!OnDevices(AbstractStreams!Done)
    BY <1>3, <1>6, SameValues DEF AbstractStreams!OnDevices
  <2>2. AbstractStreams!WriteOutput(stream, byte)
    BY <1>6, <2>1 DEF AbstractStreams!WriteOutput
  <2>3. byte \in {b % 256 : b \in Byte}
    BY <1>4
  <2> QED
    BY <1>5, <2>2, <2>3 DEF AbstractStreams!Next
<1>7. CASE setup.device = "void"
  <2>1. device' = device /\ result' = Done
    <3>1. primitive # READ
      BY DEF WRITE, WRITE_ERROR, READ
    <3> QED
      BY <1>1, <1>7, <3>1, VoidDevices
  <2>2. UNCHANGED input
    BY <1>2, <1>7
  <2>3. UNCHANGED outputs
    BY <2>1 DEF BytesOf
  <2> QED
    BY <1>2, <1>3, <1>6, <1>7, <2>1, <2>2, <2>3 DEF DevicesInv
<1>8. CASE setup.device # "void"
  <2>1. /\ Puts(step, device, stream, byte) \/ Keeps(step, device)
        /\ IsDevice(setup.device, step.device)
    BY <1>1, <1>2, <1>4, <1>8, NotVoid, DeviceWrites DEF stream
  <2>2. DevicesInv'
    BY <1>1, <1>2, <2>1 DEF DevicesInv
  <2>3. CASE Keeps(step, device)
    <3>1. device' = device /\ result' = Failure
      BY <1>1, <2>3 DEF Keeps
    <3> QED
      BY <1>1, <1>3, <2>2, <3>1, RefusedDevice
  <2>4. CASE Puts(step, device, stream, byte)
    <3>1. result' = Done /\ Unread(device') = Unread(device)
      BY <1>1, <2>4 DEF Puts
    <3>2. input = Unread(device) /\ input' = Unread(device')
      BY <1>2, <1>8 DEF Unread
    <3>3. outputs' = [outputs EXCEPT ![stream] = Append(outputs[stream], byte)]
      <4>1. outputs' = [output |-> BytesOf(device'.output), error |-> BytesOf(device'.error)]
        BY DEF BytesOf
      <4>2. [output |-> BytesOf(step.device.output), error |-> BytesOf(step.device.error)]
              = [outputs EXCEPT ![stream] = Append(outputs[stream], byte)]
        BY <1>5, <2>4, AppendedTo
      <4> QED
        BY <1>1, <4>1, <4>2
    <3> HIDE DEF input, outputs
    <3> QED
      BY <1>3, <1>6, <1>8, <2>2, <3>1, <3>2, <3>3
  <2> QED
    BY <2>1, <2>3, <2>4
<1> QED
  BY <1>7, <1>8

LEMMA DeviceStep ==
  ASSUME Consistent, DevicesInv, DeviceNext
  PROVE  Consistent' /\ DevicesInv' /\ AbstractStreams!Next
<1>1. CASE ReadInput
  BY <1>1, ReadInputStep
<1>2. ASSUME NEW byte \in Byte, WriteOutput(byte) \/ WriteError(byte)
      PROVE  Consistent' /\ DevicesInv' /\ AbstractStreams!Next
  BY <1>2, WriteStep DEF WriteOutput, WriteError
<1> QED
  BY <1>1, <1>2 DEF DeviceNext

(* What a step on files leaves of the devices. *)
LEMMA FilesKeepDevices ==
  ASSUME FileNext
  PROVE  UNCHANGED <<setup, device>>
BY DEF FileNext, OpenPort, ClosePort, ReadPort, WritePort, FlushPort, DeleteFile, FileExists,
       CallPort, CallFile

-----------------------------------------------------------------------------
(* What the program starts with.                                           *)

LEMMA NewDeviceFits ==
  ASSUME NEW kind \in {"fixed", "buffer", "std", "libc", "void"}
  PROVE  /\ IsDevice(kind, NewDevice(kind, Chunks))
         /\ BytesOf(NewDevice(kind, Chunks).output) = <<>>
         /\ BytesOf(NewDevice(kind, Chunks).error) = <<>>
<1> DEFINE buffer == [bytes |-> Empty, index |-> 0]
           d == Device(InputOf(kind), 1, 0, buffer, buffer)
<1>1. NewDevice(kind, Chunks) = d
  BY DEF NewDevice, InputOf, Device
<1>2. Empty \in Seq(Bytes) /\ Len(Empty) = BufferSize /\ BufferSize \in Nat
  <2>1. BufferSize \in Nat
    BY InputOutputAssumption
  <2>2. Empty \in [1 .. BufferSize -> Bytes]
    BY DEF Empty, Bytes
  <2> QED
    BY <2>1, <2>2
<1>3. buffer.bytes = Empty /\ buffer.index = 0
  OBVIOUS
<1>4. buffer \in [bytes : Seq(Bytes), index : 0 .. Len(buffer.bytes)]
  BY <1>2
<1> HIDE DEF buffer
<1>5. IsBuffer(kind, buffer)
  BY <1>2, <1>3, <1>4 DEF IsBuffer
<1>6. BytesOf(buffer) = <<>>
  <2>1. BytesOf(buffer) \in Seq(Bytes) /\ Len(BytesOf(buffer)) = 0
    BY <1>3, <1>5, BufferBytes
  <2> QED
    BY <2>1, EmptySeq
<1>7. InputOf(kind) \in Seq(Seq(Bytes)) /\ Len(InputOf(kind)) \in Nat
  BY InputType
<1>8. /\ d.input = InputOf(kind) /\ d.chunk = 1 /\ d.byte = 0 /\ d.output = buffer /\ d.error = buffer
      /\ d \in [input : {InputOf(kind)}, chunk : {1}, byte : {0}, output : {buffer}, error : {buffer}]
  BY DEF Device
<1> HIDE DEF d
<1>9. 1 \in 1 .. Len(d.input) + 1
  BY <1>7, <1>8
<1>10. d \in [input : {InputOf(kind)}, chunk : 1 .. Len(d.input) + 1, byte : Nat,
              output : {d.output}, error : {d.error}]
  BY <1>8, <1>9
<1>11. d.chunk <= Len(d.input) => d.byte <= Len(d.input[d.chunk])
  <2>1. ASSUME 1 <= Len(d.input)
        PROVE  0 <= Len(d.input[1])
    <3>1. d.input[1] \in Seq(Bytes)
      BY <1>7, <1>8, <2>1, ElementOfSeq
    <3>2. Len(d.input[1]) \in Nat
      BY <3>1, LenProperties
    <3> QED
      BY <3>2
  <2> QED
    BY <1>8, <2>1
<1>12. IsDevice(kind, d)
  BY <1>5, <1>8, <1>10, <1>11 DEF IsDevice
<1> QED
  BY <1>1, <1>6, <1>8, <1>12

LEMMA Begin ==
  ASSUME Init
  PROVE  IInv /\ AbstractStreams!Init
<1>1. setup \in Setup /\ device = NewDevice(setup.device, Chunks)
  BY DEF Init
<1>2. DOMAIN ports = {} /\ DOMAIN system.table = {}
  BY DEF Init
<1>3. DevicesInv
  BY <1>1, SetupKinds, NewDeviceFits DEF DevicesInv
<1>4. IsDisk(Disk)
  BY InputOutputAssumption DEF IsDisk, Bytes
<1>5. IsSystem(system)
  <2>1. system.disk = Disk /\ system.next = 0
        /\ system \in [disk : {Disk}, table : {system.table}, next : {0}]
    BY DEF Init
  <2>2. system.table \in [DOMAIN system.table -> StreamsOn(system.disk)]
    BY DEF Init
  <2> QED
    BY <1>2, <1>4, <2>1, <2>2 DEF IsSystem
<1>6. Fits(setup.files, system)
  <2>1. system.disk = Disk
    BY DEF Init
  <2> QED
    BY <1>2, <2>1 DEF Fits
<1>7. OpenPorts = {}
  BY <1>2 DEF OpenPorts, Opened
<1>8. TableMatchesPorts
  BY <1>2, <1>7 DEF TableMatchesPorts
<1>9. ArePorts
  <2>1. ports \in [DOMAIN ports -> [descriptor : Nat, open : BOOLEAN]]
    BY DEF Init
  <2> QED
    BY <2>1 DEF ArePorts, Opened
<1>10. [p \in OpenPorts |-> system.table[ports[p].descriptor]]
         = [p \in {} |-> AbstractStreams!Stream(0, FALSE)]
  BY <1>7
<1>11. [output |-> BytesOf(device.output), error |-> BytesOf(device.error)]
         = [stream \in {"output", "error"} |-> <<>>]
  <2>1. BytesOf(device.output) = <<>> /\ BytesOf(device.error) = <<>>
    BY <1>1, SetupKinds, NewDeviceFits
  <2> QED
    BY <2>1
<1>12. result = AbstractStreams!Done
  BY SameValues DEF Init
<1> QED
  BY <1>1, <1>3, <1>5, <1>6, <1>8, <1>9, <1>10, <1>11, <1>12
     DEF IInv, FilesInv, AbstractStreams!Init

LEMMA Unchanged ==
  ASSUME UNCHANGED vars
  PROVE  (IInv <=> IInv') /\ UNCHANGED AbstractStreams!vars
<1>1. UNCHANGED <<setup, device, system, ports, result>>
  BY DEF vars
<1>2. FilesInv <=> FilesInv'
  BY <1>1 DEF FilesInv, ArePorts, TableMatchesPorts, OpenPorts, IsOpen, Opened
<1>3. DevicesInv <=> DevicesInv'
  BY <1>1 DEF DevicesInv
<1>4. UNCHANGED [p \in OpenPorts |-> system.table[ports[p].descriptor]]
  BY <1>1 DEF OpenPorts, IsOpen, Opened
<1>5. UNCHANGED AbstractStreams!Devices /\ UNCHANGED (setup.device = "void")
  BY <1>1, KeptDevices
<1> QED
  BY <1>1, <1>2, <1>3, <1>4, <1>5 DEF IInv, AbstractStreams!vars, AbstractStreams!Devices

LEMMA Step ==
  ASSUME IInv, [Next]_vars
  PROVE  IInv' /\ [AbstractStreams!Next]_AbstractStreams!vars
<1>1. Consistent
  BY InvIsConsistent DEF IInv
<1>2. CASE FileNext
  <2>1. Consistent' /\ AbstractStreams!Next
    BY <1>1, <1>2, FileStep
  <2>2. DevicesInv'
    BY <1>2, FilesKeepDevices DEF IInv, DevicesInv
  <2> QED
    BY <2>1, <2>2, NextIsConsistent DEF IInv
<1>3. CASE DeviceNext
  BY <1>1, <1>3, DeviceStep, NextIsConsistent DEF IInv
<1>4. CASE UNCHANGED vars
  BY <1>4, Unchanged
<1> QED
  BY <1>2, <1>3, <1>4 DEF Next

-----------------------------------------------------------------------------
(* Files, tables, ports, buffers and places in the input are what their    *)
(* types say in every state, whatever the program opens, closes, reads,    *)
(* writes and deletes.                                                     *)
THEOREM AlwaysConsistent == Spec => []IInv
<1>1. Init => IInv
  BY Begin
<1>2. IInv /\ [Next]_vars => IInv'
  BY Step
<1> QED
  BY <1>1, <1>2, PTL DEF Spec

(* No failure and no order of opening and closing leaves a descriptor in a *)
(* table that no port has, or gives one to two ports that are open.        *)
THEOREM TableAlwaysMatchesPorts == Spec => []TableMatchesPorts
<1>1. IInv => TableMatchesPorts
  BY DEF IInv, FilesInv
<1> QED
  BY <1>1, AlwaysConsistent, PTL

(* Ports over any device and any file system are streams that have nothing *)
(* to do with each other: each step of the code is a step of Streams, of   *)
(* one stream, or changes none.                                            *)
THEOREM PortsAreStreams == Spec => ImplementsStreams
<1>1. Init => IInv /\ AbstractStreams!Init
  BY Begin
<1>2. IInv /\ [Next]_vars => IInv' /\ [AbstractStreams!Next]_AbstractStreams!vars
  BY Step
<1> QED
  BY <1>1, <1>2, PTL DEF Spec, ImplementsStreams, AbstractStreams!Spec

=============================================================================
