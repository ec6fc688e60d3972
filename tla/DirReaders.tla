----------------------------- MODULE DirReaders -----------------------------
(***************************************************************************)
(* The four implementations of `DirReader` in src/src/platform, one        *)
(* read_dir call: the directory is opened, the kernel fills a buffer with  *)
(* records, or hands out one, and each record is parsed and reported,      *)
(* until the kernel has no more.  `reader` names the system call:          *)
(* getdents64 (linux.rs), bulk (getattrlistbulk) and readdir (macos.rs),   *)
(* ntquery (NtQueryDirectoryFile, windows.rs).                             *)
(*                                                                         *)
(* The kernel is external: it lists the directory in some order, returns   *)
(* as many records at a time as it likes and fit, and may fail.            *)
(***************************************************************************)
EXTENDS DirRecords

CONSTANTS
  Chars,       \* the characters of file names
  Systems,     \* target_os of the builds: a subset of linux, macos, windows
  Dirs,        \* Dirs[reader]: the directories it is tried on, sequences of entries
  BufSize      \* BufSize[reader]: BUF_SIZE in bytes

ASSUME SystemsAssumption == Systems \subseteq {"linux", "macos", "windows"}

Readers == {"getdents64", "bulk", "readdir", "ntquery"}

\* BUF_SIZE is a multiple of 8 everywhere, and larger than any record.
ASSUME BufAssumption ==
  /\ \A r \in Readers : BufSize[r] \in Nat \ {0} /\ BufSize[r] % 8 = 0
  /\ \A r \in Readers : \A d \in Dirs[r] : \A k \in DOMAIN d : RecordLen(r, d[k]) < BufSize[r]

\* What a file system can tell of an entry.  The records of ntquery always have the
\* attributes and the size, and the attributes know three kinds.
Entry == [name : Seq(Chars) \ {<<>>}, kind : {"File", "Dir", "Symlink", "Other"},
          size : Nat, gives : SUBSET {"type", "size"}]

ASSUME EntryAssumption ==
  /\ "." \in Chars /\ "NUL" \notin Chars
  /\ \A r \in Readers : \A d \in Dirs[r] :
       /\ d \in Seq(Entry)
       /\ r = "ntquery" => \A k \in DOMAIN d : d[k].gives = {"type", "size"} /\ d[k].kind # "Other"

VARIABLES
  reader,    \* what build_reader has chosen
  listing,   \* the entries the kernel lists, with . and .. where it does
  phase,     \* "open", "call" and "parse", then "ok" or "err"
  taken,     \* how many entries the kernel has returned so far
  first,     \* ntquery: the flag that restarts the scan of the directory
  buf,       \* the records that lie in the buffer, by offset, old ones included
  filled,    \* getdents64: the bytes returned; bulk: the entries returned
  at,        \* getdents64, ntquery: offset; bulk: cursor
  parsed,    \* bulk: entries of this batch that are done
  errno,     \* is errno of this thread set?
  failed,    \* has the open or a call of this read_dir failed?
  reported   \* what each_entry was called with, and the listed entry it came from

kernelVars == <<taken, first, buf, filled>>
parseVars == <<at, parsed>>
vars == <<reader, listing, phase, kernelVars, parseVars, errno, failed, reported>>

\* build_reader: with_size matters on macOS only.
BuildReader(system, withSize) ==
  CASE system = "linux" -> "getdents64"
    [] system = "windows" -> "ntquery"
    [] system = "macos" -> IF withSize THEN "bulk" ELSE "readdir"

DotEntry(name) == [name |-> name, kind |-> "Dir", size |-> 0, gives |-> {"type"}]

\* getattrlistbulk alone leaves out . and .. .
Listing(r, dir) ==
  IF r = "bulk" THEN dir ELSE <<DotEntry(<<".">>), DotEntry(<<".", ".">>)>> \o dir

\* The records of a batch that begins behind `from` in the listing.  next is
\* NextEntryOffset.
Lay(batch, from) ==
  {[at   |-> StartOf(reader, batch, k),
    e    |-> batch[k],
    of   |-> from + k,
    next |-> IF k = Len(batch) THEN 0 ELSE RecordLen(reader, batch[k])] : k \in DOMAIN batch}

\* ATTR_BUF belongs to the thread: it is empty or holds the records of a directory the
\* thread has read before.  The other buffers are new.
OldBuffers ==
  {{}} \cup (IF reader = "bulk" THEN {{[r EXCEPT !.of = 0] : r \in Lay(d, 0)} : d \in Dirs[reader]}
             ELSE {})

Init ==
  /\ \E system \in Systems, withSize \in BOOLEAN : reader = BuildReader(system, withSize)
  /\ \E dir \in Dirs[reader] : listing = Listing(reader, dir)
  /\ phase = "open"
  /\ taken = 0
  /\ first = TRUE
  /\ buf \in OldBuffers
  /\ filled = 0
  /\ at = 0
  /\ parsed = 0
  /\ errno \in BOOLEAN
  /\ failed = FALSE
  /\ reported = <<>>

-----------------------------------------------------------------------------
(* Opening and calling                                                     *)

Open ==
  /\ phase = "open"
  /\ phase' = "call"
  /\ UNCHANGED <<reader, listing, kernelVars, parseVars, errno, failed, reported>>

\* open, opendir or CreateFileW fails, or the path has a NUL; or a later call does.
\* last_os_error is asked at once.
CallFails ==
  /\ phase \in {"open", "call"}
  /\ phase' = "err"
  /\ failed' = TRUE
  /\ UNCHANGED <<reader, listing, kernelVars, parseVars, errno, reported>>

\* The kernel puts n records behind `from` in the buffer; what they do not cover stays.
Fill(n, from) ==
  LET batch == SubSeq(listing, from + 1, from + n) IN
  /\ phase = "call"
  /\ from + n <= Len(listing)
  /\ BatchLen(reader, batch) <= BufSize[reader]
  /\ buf' = Lay(batch, from) \cup {r \in buf : r.at >= BatchLen(reader, batch)}
  /\ taken' = from + n
  /\ phase' = "parse"
  /\ at' = 0
  /\ parsed' = 0
  /\ UNCHANGED <<reader, listing, errno, failed, reported>>

GetDents(n) ==
  /\ reader = "getdents64"
  /\ Fill(n, taken)
  /\ filled' = BatchLen(reader, SubSeq(listing, taken + 1, taken + n))
  /\ UNCHANGED first

GetAttrListBulk(n) ==
  /\ reader = "bulk"
  /\ Fill(n, taken)
  /\ filled' = n
  /\ UNCHANGED first

\* RestartScan is set for the first call only.
NtQuery(n) ==
  /\ reader = "ntquery"
  /\ Fill(n, IF first THEN 0 ELSE taken)
  /\ first' = FALSE
  /\ UNCHANGED filled

\* 0 bytes, 0 entries, STATUS_NO_MORE_FILES.
NoMoreEntries ==
  /\ phase = "call"
  /\ reader # "readdir"
  /\ taken = Len(listing)
  /\ phase' = "ok"
  /\ UNCHANGED <<reader, listing, kernelVars, parseVars, errno, failed, reported>>

-----------------------------------------------------------------------------
(* Parsing                                                                 *)

\* each_entry is called, but not for . and .. .
Report(r, name, kind, size) ==
  reported' = IF name \in DotNames THEN reported
              ELSE Append(reported, [name |-> name, kind |-> kind, size |-> size, of |-> r.of])

\* Fault: the bounds are those of the buffer, not of what the call has filled.
DirentAt_WholeBuffer(r) ==
  /\ r.at = at
  /\ at + DirentHeader <= BufSize[reader]
  /\ at + RecordLen(reader, r.e) <= BufSize[reader]

\* The checks before a record is used; when one fails the loop ends.
DirentAt(r) ==
  /\ r.at = at
  /\ at + DirentHeader <= filled
  /\ at + RecordLen(reader, r.e) <= filled

ParseDirent(r) ==
  /\ DirentAt(r)
  /\ LET name == DirentName(r.e) IN
       IF name = <<>> THEN UNCHANGED reported
       ELSE Report(r, name, DirentKind(listing, r.e), NoSize)
  /\ at' = at + RecordLen(reader, r.e)
  /\ UNCHANGED <<phase, parsed>>

\* parse_buffer: as many records as the call has returned.
AttrsAt(r) ==
  /\ parsed < filled
  /\ r.at = at
  /\ at + RecordLen(reader, r.e) <= BufSize[reader]

ParseAttrs(r) ==
  /\ AttrsAt(r)
  /\ Report(r, AttrName(r.e), AttrKind(r.e), AttrSize(r.e))
  /\ at' = at + RecordLen(reader, r.e)
  /\ parsed' = parsed + 1
  /\ UNCHANGED phase

InfoAt(r) ==
  /\ r.at = at
  /\ at + InfoSize <= BufSize[reader]
  /\ at + InfoNameAt + 2 * Len(r.e.name) <= BufSize[reader]

\* The record without a NextEntryOffset is the last one.
ParseInfo(r) ==
  /\ InfoAt(r)
  /\ Report(r, r.e.name, InfoKind(r.e), r.e.size)
  /\ at' = at + r.next
  /\ phase' = IF r.next = 0 THEN "call" ELSE phase
  /\ UNCHANGED parsed

ParseRecord ==
  /\ phase = "parse"
  /\ \E r \in buf :
       \/ reader = "getdents64" /\ ParseDirent(r)
       \/ reader = "bulk" /\ ParseAttrs(r)
       \/ reader = "ntquery" /\ ParseInfo(r)
  /\ UNCHANGED <<reader, listing, kernelVars, errno, failed>>

\* The loop over the records ends, and the kernel is called again.
BatchDone ==
  /\ phase = "parse"
  /\ \A r \in buf : CASE reader = "getdents64" -> ~DirentAt(r)
                      [] reader = "bulk" -> ~AttrsAt(r)
                      [] reader = "ntquery" -> ~InfoAt(r)
  /\ phase' = "call"
  /\ UNCHANGED <<reader, listing, kernelVars, parseVars, errno, failed, reported>>

-----------------------------------------------------------------------------
(* readdir                                                                 *)

\* Fault: errno keeps what the visitor of the last entry has left in it.
ErrnoBefore_Kept == errno

\* errno is cleared before each call.
ErrnoBefore == FALSE

\* One entry, reported at once; the visitor may leave anything in errno.
ReadDirEntry ==
  /\ reader = "readdir"
  /\ phase = "call"
  /\ taken < Len(listing)
  /\ taken' = taken + 1
  /\ LET e == listing[taken + 1] IN Report([of |-> taken + 1], e.name, DType(e), NoSize)
  /\ errno' \in IF reported' = reported THEN {ErrnoBefore} ELSE BOOLEAN
  /\ UNCHANGED <<reader, listing, phase, first, buf, filled, parseVars, failed>>

\* NULL: the end of the directory, unless errno tells of an error.
ReadDirNull ==
  /\ reader = "readdir"
  /\ phase = "call"
  /\ taken = Len(listing)
  /\ phase' = IF ErrnoBefore THEN "err" ELSE "ok"
  /\ errno' = ErrnoBefore
  /\ UNCHANGED <<reader, listing, kernelVars, parseVars, failed, reported>>

-----------------------------------------------------------------------------
Returned == phase \in {"ok", "err"}

Finished == Returned /\ UNCHANGED vars

Next ==
  \/ Open
  \/ CallFails
  \/ \E n \in 1 .. Len(listing) : GetDents(n) \/ GetAttrListBulk(n) \/ NtQuery(n)
  \/ NoMoreEntries
  \/ ParseRecord
  \/ BatchDone
  \/ ReadDirEntry
  \/ ReadDirNull
  \/ Finished

Spec == Init /\ [][Next]_vars

\* Every call of the kernel answers.
FairSpec == Spec /\ WF_vars(Next)

-----------------------------------------------------------------------------
\* Offsets stay in the buffer, counts within the listing, and what is reported has an
\* EntryKind of walker.rs 21-27 and a size or None.
TypeOK ==
  /\ reader \in Readers
  /\ phase \in {"open", "call", "parse", "ok", "err"}
  /\ taken \in 0 .. Len(listing)
  /\ at \in 0 .. BufSize[reader]
  /\ filled \in 0 .. BufSize[reader]
  /\ parsed \in 0 .. Len(listing)
  /\ first \in BOOLEAN /\ errno \in BOOLEAN /\ failed \in BOOLEAN
  /\ \A k \in DOMAIN reported :
       /\ reported[k].kind \in {"File", "Dir", "Symlink", "Other"}
       /\ reported[k].size \in Nat \cup {NoSize}

\* A kind or a size is never that of another attribute or of another entry: it is the
\* true one, or Other and None when the file system did not tell it.
ReportsTrue ==
  \A k \in DOMAIN reported :
    LET r == reported[k]
        e == listing[r.of]
    IN  /\ r.kind = e.kind \/ ("type" \notin e.gives /\ r.kind = "Other")
        /\ r.size = NoSize \/ ("size" \in e.gives /\ r.size = e.size)
        /\ reader = "bulk" /\ "size" \in e.gives => r.size = e.size

\* read_dir returns Err exactly when the kernel has failed: what a callback leaves in
\* errno is not taken for an error (macos.rs 319), and no failure is taken for the end.
ErrorsAreReal == Returned => (phase = "err" <=> failed)

\* "d_name follows immediately" (linux.rs 29): a reported name is the name of the entry.
NamesAreExact == \A k \in DOMAIN reported : reported[k].name = listing[reported[k].of].name

Contract == INSTANCE ReadDir WITH
  children <- {k \in DOMAIN listing : listing[k].name \notin DotNames},
  reported <- [k \in DOMAIN reported |-> reported[k].of],
  outcome  <- IF Returned THEN phase ELSE "none"

\* However the kernel cuts the listing into batches, whatever lies in the buffer: no
\* entry is reported twice, Ok means that none is missing, and the call returns.
ImplementsReadDir == Contract!Spec
=============================================================================
