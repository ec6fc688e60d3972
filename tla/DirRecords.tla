----------------------------- MODULE DirRecords -----------------------------
(***************************************************************************)
(* The records in which a kernel returns directory entries, and what the   *)
(* readers of src/src/platform make of one.                                *)
(*                                                                         *)
(* An entry has a name (a sequence of characters), a kind, a size and the  *)
(* set `gives` of what the file system tells with the name: "type" and     *)
(* "size".  Lengths and offsets count bytes.                               *)
(***************************************************************************)
EXTENDS Integers, SequencesExt

CONSTANT NoSize  \* Option::None

RoundUp(n, to) == ((n + to - 1) \div to) * to

DotNames == {<<".">>, <<".", ".">>}

\* The struct of linux.rs is repr(C): 19 bytes of fields, 24 with its padding.  The
\* kernel puts d_name right behind the fields.
DirentHeader == 24
DirentNameAt == 19

\* FILE_DIRECTORY_INFORMATION: FileName at 64; the struct has room for one character
\* and is padded to 8.
InfoSize == 72
InfoNameAt == 64

\* How many bytes a record takes: getdents64 and NtQueryDirectoryFile align records to
\* 8 bytes, getattrlistbulk to 4.  readdir hands out one entry at a time.
RecordLen(reader, e) ==
  CASE reader = "getdents64" -> RoundUp(DirentNameAt + Len(e.name) + 1, 8)
    [] reader = "bulk" ->
         4 + 20 + 8 + (IF "type" \in e.gives THEN 4 ELSE 0)
           + (IF "size" \in e.gives THEN 8 ELSE 0) + RoundUp(Len(e.name) + 1, 4)
    [] reader = "ntquery" -> RoundUp(InfoNameAt + 2 * Len(e.name), 8)
    [] reader = "readdir" -> 1

\* Where the k-th record of a batch starts.
StartOf(reader, batch, k) ==
  SumFunction([j \in 1 .. k - 1 |-> RecordLen(reader, batch[j])])

\* The bytes a batch takes; the last record of ntquery has no padding.
BatchLen(reader, batch) ==
  IF reader = "ntquery"
  THEN StartOf(reader, batch, Len(batch)) + InfoNameAt + 2 * Len(Last(batch).name)
  ELSE StartOf(reader, batch, Len(batch) + 1)

-----------------------------------------------------------------------------
(* linux.rs                                                                *)

\* The name is looked for behind the padded header, up to the NUL: what lies between
\* byte 19 and byte 24 is lost, and a name of five characters or fewer is empty.
DirentName(e) == SubSeq(e.name, DirentHeader - DirentNameAt + 1, Len(e.name))

\* d_type; when it is DT_UNKNOWN, statx by the name that was read, which finds no entry
\* or the one that bears it.
StatxKind(dir, name) ==
  LET found == {e \in ToSet(dir) : e.name = name}
  IN  IF found = {} THEN "Other" ELSE (CHOOSE e \in found : TRUE).kind

DirentKind(dir, e) == IF "type" \in e.gives THEN e.kind ELSE StatxKind(dir, DirentName(e))

-----------------------------------------------------------------------------
(* macos.rs                                                                *)

\* vnode types, as sys/vnode.h numbers them; 8 is a fifo, one of the others.
VnodeType(kind) == CASE kind = "File" -> 1 [] kind = "Dir" -> 2 [] kind = "Symlink" -> 5
                     [] OTHER -> 8

VnodeKind(type) == CASE type = 1 -> "File" [] type = 2 -> "Dir" [] type = 5 -> "Symlink"
                     [] OTHER -> "Other"

\* The attributes of a record behind its name are packed in the order of their bits;
\* one that the file system does not give takes no room.
Packed(e) ==
  (IF "type" \in e.gives THEN <<VnodeType(e.kind)>> ELSE <<>>)
    \o (IF "size" \in e.gives THEN <<e.size>> ELSE <<>>)

\* parse_buffer reads what the returned bitmap names, in the same order.
AttrKind(e) == IF "type" \in e.gives THEN VnodeKind(Packed(e)[1]) ELSE "Other"

AttrSize(e) ==
  LET field == IF "type" \in e.gives THEN 2 ELSE 1
  IN  IF "size" \in e.gives THEN Packed(e)[field] ELSE NoSize

\* attr_length counts the NUL that ends the name.
AttrName(e) == Front(Append(e.name, "NUL"))

\* Fault: DT_UNKNOWN is handed on.
DType_HandsOn(e) == IF "type" \in e.gives THEN e.kind ELSE "Unknown"

\* readdir: DT_UNKNOWN is one of the other types, and nothing asks again.
DType(e) == IF "type" \in e.gives THEN e.kind ELSE "Other"

-----------------------------------------------------------------------------
(* windows.rs                                                              *)

\* A link to a directory has both attributes.  The other reparse points (mount points,
\* placeholders of files in a cloud) are listed as links too; no entry here is one.
Attributes(e) == CASE e.kind = "Symlink" -> {"reparse", "directory"}
                   [] e.kind = "Dir" -> {"directory"}
                   [] OTHER -> {}

\* Fault: the directory attribute is tested first.
InfoKind_DirectoryFirst(e) ==
  IF "directory" \in Attributes(e) THEN "Dir"
  ELSE IF "reparse" \in Attributes(e) THEN "Symlink" ELSE "File"

InfoKind(e) ==
  IF "reparse" \in Attributes(e) THEN "Symlink"
  ELSE IF "directory" \in Attributes(e) THEN "Dir" ELSE "File"
=============================================================================
