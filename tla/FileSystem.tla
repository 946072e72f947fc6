------------------------------- MODULE FileSystem -------------------------------
(***************************************************************************)
(* The file systems of file/src/file_system/ and the primitives over them, *)
(* file/src/primitive_set.rs.  A file system is a record of the disk it    *)
(* stands on and its table of open files; an operation is the set of its   *)
(* outcomes, each what it returns and the file system it leaves.           *)
(***************************************************************************)
EXTENDS Naturals, SequencesExt

CONSTANTS
  PathSize,  \* PATH_SIZE, a bound on the bytes of a path
  Capacity   \* entries of the memory's table, and of libc's

Failure == [failure |-> TRUE]  \* Err(FileError::...)
None == [none |-> TRUE]        \* Ok(None), the end of a file
Done == [done |-> TRUE]        \* Ok(())

ByteRead(b) == [byte |-> b]
Descriptor(d) == [descriptor |-> d]
Boolean(b) == [boolean |-> b]

Returns(value, f) == {[value |-> value, system |-> f]}
Fails(f) == Returns(Failure, f)

-----------------------------------------------------------------------------
(* The disk, of the operating system: names of files and their bytes.  A   *)
(* file keeps its bytes while a name or an open file is left for it.       *)

(* A function with a value at x. *)
Put(f, x, value) == [z \in DOMAIN f \cup {x} |-> IF z = x THEN value ELSE f[z]]

Stream(file, output) == [file |-> file, offset |-> 0, output |-> output]

Zero == 0
WriteAt(bytes, offset, byte) ==
  [i \in 1 .. Max({Len(bytes), offset + 1}) |->
     CASE i = offset + 1 -> byte
       [] i # offset + 1 /\ i <= Len(bytes) -> bytes[i]
       [] OTHER -> Zero]

NewFile(disk) ==
  Min({x \in 1 .. Cardinality(DOMAIN disk.contents) + 1 : x \notin DOMAIN disk.contents})

Truncated(disk, name) ==
  LET file == IF name \in DOMAIN disk.names THEN disk.names[name] ELSE NewFile(disk)
  IN [disk EXCEPT !.names = Put(@, name, file), !.contents = Put(@, file, <<>>)]

Unlinked(disk, name) == [disk EXCEPT !.names = Restrict(@, DOMAIN @ \ {name})]

WithoutDeadFiles(disk, streams) ==
  [disk EXCEPT !.contents = Restrict(@, Range(disk.names) \cup {s.file : s \in Range(streams)})]

-----------------------------------------------------------------------------
(* Paths, lists of code points that become bytes. *)

(* utility.rs: `as u8` keeps the low bits. *)
DecodeBytes(path) == [i \in DOMAIN path |-> path[i] % 256]

(* In a model of paths: a byte above 127 is not UTF-8 by itself.           *)
IsUtf8(bytes) == \A i \in DOMAIN bytes : bytes[i] < 128

MemoryPath(bytes) == Len(bytes) <= PathSize
OsPath(bytes) == Len(bytes) <= PathSize /\ IsUtf8(bytes)
LibcPath(bytes) == Len(bytes) < PathSize /\ 0 \notin Range(bytes)

IsPath(kind, path) ==
  LET bytes == DecodeBytes(path)
  IN \/ kind = "memory" /\ MemoryPath(bytes)
     \/ kind = "os" /\ OsPath(bytes)
     \/ kind = "libc" /\ LibcPath(bytes)

-----------------------------------------------------------------------------
(* Open files.  Those of the memory have a fixed table, and its files are  *)
(* constant; the others take descriptors from a counter, and ask the       *)
(* operating system, which may refuse.                                     *)

(* Mutant: a descriptor in use is given out. *)
MemoryOpenShared(f, name, output) ==
  IF output \/ name \notin DOMAIN f.disk.names
  THEN Fails(f)
  ELSE LET d == Cardinality(DOMAIN f.table)
       IN Returns(Descriptor(d), [f EXCEPT !.table = Put(@, d, Stream(f.disk.names[name], FALSE))])

MemoryOpen(f, name, output) ==
  LET free == 0 .. Capacity - 1 \ DOMAIN f.table
      d == Min(free)
  IN IF output \/ name \notin DOMAIN f.disk.names \/ free = {}
     THEN Fails(f)
     ELSE Returns(Descriptor(d), [f EXCEPT !.table = Put(@, d, Stream(f.disk.names[name], FALSE))])

(* The operating system's open, in a descriptor of the table.              *)
SystemOpen(f, name, output) ==
  IF 0 \in Range(name) \/ (~output /\ name \notin DOMAIN f.disk.names)
  THEN {}
  ELSE LET disk == IF output THEN Truncated(f.disk, name) ELSE f.disk
       IN Returns(Descriptor(f.next),
                  [f EXCEPT !.disk = disk,
                            !.table = Put(@, f.next, Stream(disk.names[name], output)),
                            !.next = @ + 1])

OsOpen(f, name, output) == Fails(f) \cup SystemOpen(f, name, output)

(* The table is full only after the operating system has opened the file,  *)
(* which is then closed again, but truncated.                              *)
LibcOpen(f, name, output) ==
  Fails(f) \cup
    IF Cardinality(DOMAIN f.table) < Capacity
    THEN SystemOpen(f, name, output)
    ELSE {[value |-> Failure, system |-> [f EXCEPT !.disk = step.system.disk]] :
            step \in SystemOpen(f, name, output)}

Without(f, d) == [f EXCEPT !.table = Restrict(@, DOMAIN @ \ {d})]

(* A descriptor that is not open is no error but beyond the memory's table. *)
MemoryClose(f, d) == IF d >= Capacity THEN Fails(f) ELSE Returns(Done, Without(f, d))

SystemClose(f, d) ==
  LET g == Without(f, d)
  IN Returns(Done, [g EXCEPT !.disk = WithoutDeadFiles(@, g.table)])

(* Mutant: the offset passes the end of the file. *)
ReadStreamPast(f, d) ==
  LET stream == f.table[d]
      bytes == f.disk.contents[stream.file]
      byte == IF stream.offset < Len(bytes) THEN ByteRead(bytes[stream.offset + 1]) ELSE None
  IN Returns(byte, [f EXCEPT !.table[d].offset = @ + 1])

ReadStream(f, d) ==
  LET stream == f.table[d]
      bytes == f.disk.contents[stream.file]
  IN IF stream.offset < Len(bytes)
     THEN Returns(ByteRead(bytes[stream.offset + 1]), [f EXCEPT !.table[d].offset = @ + 1])
     ELSE Returns(None, f)

MemoryRead(f, d) == IF d \in DOMAIN f.table THEN ReadStream(f, d) ELSE Fails(f)

SystemRead(f, d) ==
  Fails(f) \cup IF d \in DOMAIN f.table /\ ~f.table[d].output THEN ReadStream(f, d) ELSE {}

SystemWrite(f, d, byte) ==
  LET stream == f.table[d]
      disk == [f.disk EXCEPT !.contents[stream.file] = WriteAt(@, stream.offset, byte)]
      table == [f.table EXCEPT ![d].offset = stream.offset + 1]
  IN Fails(f) \cup
     IF d \in DOMAIN f.table /\ stream.output
     THEN Returns(Done, [f EXCEPT !.disk = disk, !.table = table])
     ELSE {}

SystemFlush(f, d) == Fails(f) \cup IF d \in DOMAIN f.table THEN Returns(Done, f) ELSE {}

SystemDelete(f, name) ==
  Fails(f) \cup
    IF name \in DOMAIN f.disk.names
    THEN Returns(Done, [f EXCEPT !.disk = WithoutDeadFiles(Unlinked(@, name), f.table)])
    ELSE {}

ExistsIn(f, name) == Returns(Boolean(name \in DOMAIN f.disk.names), f)

-----------------------------------------------------------------------------
(* The file systems, by the primitives that call them. *)

OPEN_FILE == 200
CLOSE_FILE == 201
READ_FILE == 202
WRITE_FILE == 203
DELETE_FILE == 204
EXISTS_FILE == 205
FLUSH_FILE == 206

VoidFiles(f) == Fails(f)

MemoryFiles(f, primitive, a) ==
  CASE primitive = OPEN_FILE -> MemoryOpen(f, a[1], a[2])
    [] primitive = CLOSE_FILE -> MemoryClose(f, a[1])
    [] primitive = READ_FILE -> MemoryRead(f, a[1])
    [] primitive = EXISTS_FILE -> ExistsIn(f, a[1])
    [] OTHER -> Fails(f)

(* What the two on operating systems have in common. *)
SystemFiles(f, primitive, a) ==
  CASE primitive = CLOSE_FILE -> SystemClose(f, a[1])
    [] primitive = READ_FILE -> SystemRead(f, a[1])
    [] primitive = WRITE_FILE -> SystemWrite(f, a[1], a[2])
    [] primitive = FLUSH_FILE -> SystemFlush(f, a[1])
    [] primitive = DELETE_FILE -> SystemDelete(f, a[1])

(* A file that the operating system cannot check does not exist to the     *)
(* first, and is an error to the second.                                   *)
OsFiles(f, primitive, a) ==
  CASE primitive = OPEN_FILE -> OsOpen(f, a[1], a[2])
    [] primitive = EXISTS_FILE -> ExistsIn(f, a[1]) \cup Returns(Boolean(FALSE), f)
    [] OTHER -> SystemFiles(f, primitive, a)

LibcFiles(f, primitive, a) ==
  CASE primitive = OPEN_FILE -> LibcOpen(f, a[1], a[2])
    [] primitive = EXISTS_FILE -> ExistsIn(f, a[1]) \cup Fails(f)
    [] OTHER -> SystemFiles(f, primitive, a)

FilesOf(kind, f, primitive, a) ==
  CASE kind = "void" -> VoidFiles(f)
    [] kind = "memory" -> MemoryFiles(f, primitive, a)
    [] kind = "os" -> OsFiles(f, primitive, a)
    [] kind = "libc" -> LibcFiles(f, primitive, a)

(* The primitives decode a path and cut a byte to its bits.  Every error   *)
(* of a file system is one a program can handle, and says no more than     *)
(* which primitive failed.                                                 *)
Named == {OPEN_FILE, DELETE_FILE, EXISTS_FILE}

Decoded(primitive, arguments) ==
  CASE primitive \in Named -> <<DecodeBytes(arguments[1])>> \o Tail(arguments)
    [] primitive = WRITE_FILE -> <<arguments[1], arguments[2] % 256>>
    [] OTHER -> arguments

OperateFile(kind, f, primitive, arguments) ==
  IF primitive \in Named /\ ~IsPath(kind, arguments[1])
  THEN Fails(f)
  ELSE FilesOf(kind, f, primitive, Decoded(primitive, arguments))

=============================================================================
