---------------------------- MODULE MCDirReaders ----------------------------
(***************************************************************************)
(* Directories of up to four entries in buffers with room for three or     *)
(* four records.  The last record of ntquery can begin 72 bytes before the *)
(* end of the buffer and be shorter than the struct.  The names on Linux   *)
(* are longer than what the reader loses of them, except in LinuxNames.    *)
(***************************************************************************)
EXTENDS DirReaders

MCChars == {".", "a", "b", "c", "d", "e", "f", "x"}

Make(name, kind, size, gives) == [name |-> name, kind |-> kind, size |-> size, gives |-> gives]

Long(c) == <<"x", "x", "x", "x", "x", c>>

Both == {"type", "size"}

LinuxDir == << Make(Long("a"), "Dir", 1, {"type"}), Make(Long("b"), "File", 2, {"type"}),
               Make(Long("c"), "Other", 5, {}), Make(Long("d"), "Symlink", 1, {"type"}) >>

ShortDir == << Make(<<"a">>, "File", 2, {"type"}), Make(Long("b"), "Dir", 1, {"type"}) >>

\* A file system that gives no type, and one that leaves out a size.
BulkDir == << Make(<<"a">>, "File", 2, Both), Make(<<"b", "c">>, "Dir", 1, {"type"}),
              Make(<<"d">>, "File", 5, {"size"}), Make(Long("e"), "Symlink", 4, Both) >>

ReaddirDir == << Make(<<"a">>, "File", 2, {"type"}), Make(<<"b">>, "Dir", 1, {}) >>

NtDir == << Make(<<"a">>, "File", 2, Both), Make(<<"b">>, "Dir", 0, Both),
            Make(Long("c"), "Symlink", 5, Both), Make(<<"d", "e", "f">>, "File", 3, Both) >>

\* The kernel lists a directory in any order.
AnyOrder(dir) == SetToSeqs(ToSet(dir))

MCSystems == {"linux", "macos", "windows"}

LinuxOnly == {"linux"}

MCDirs == [r \in Readers |->
  CASE r = "getdents64" -> AnyOrder(LinuxDir)
    [] r = "bulk" -> AnyOrder(BulkDir) \cup {<<>>}
    [] r = "readdir" -> AnyOrder(ReaddirDir)
    [] r = "ntquery" -> AnyOrder(NtDir)]

LinuxNames == [r \in Readers |-> IF r = "getdents64" THEN {ShortDir} ELSE {}]

MCBufSize == [r \in Readers |-> CASE r = "getdents64" -> 104 [] r = "bulk" -> 128
                                  [] r = "ntquery" -> 216 [] r = "readdir" -> 8]
=============================================================================
