-------------------------- MODULE DirReaders_proofs --------------------------
(***************************************************************************)
(* Theorems about the directory readers: whatever the batches and the      *)
(* buffers, each entry of the listing is read once, at its own place and   *)
(* with its own attributes, the result tells of the kernel's failures      *)
(* only, and read_dir keeps the contract of ReadDir.                       *)
(***************************************************************************)
EXTENDS DirReaders, DataTheorems, SequenceTheorems

-----------------------------------------------------------------------------
(* Records                                                                 *)

\* What comes out of rounding up to 4 or to 8 bytes.
LEMMA Rounding ==
  ASSUME NEW n \in Nat
  PROVE  /\ RoundUp(n, 4) \in Nat /\ RoundUp(n, 4) >= n
         /\ RoundUp(n, 8) \in Nat /\ RoundUp(n, 8) >= n /\ RoundUp(n, 8) % 8 = 0
BY DEF RoundUp

\* A record takes room, at least that of what the reader looks at.
LEMMA RecordLength ==
  ASSUME NEW r \in Readers, NEW e \in Entry
  PROVE  /\ RecordLen(r, e) \in Nat \ {0}
         /\ r = "getdents64" => RecordLen(r, e) >= DirentHeader
         /\ r = "ntquery" => /\ RecordLen(r, e) % 8 = 0
                             /\ RecordLen(r, e) >= InfoSize
                             /\ RecordLen(r, e) >= InfoNameAt + 2 * Len(e.name)
<1>1. PICK n \in Nat : n = Len(e.name)
  BY DEF Entry
<1>2. n >= 1
  BY <1>1 DEF Entry
<1>3. CASE r = "getdents64"
  <2>1. RecordLen(r, e) = RoundUp(n + 20, 8)
    BY <1>1, <1>3 DEF RecordLen, DirentNameAt
  <2>2. RoundUp(n + 20, 8) \in Nat /\ RoundUp(n + 20, 8) >= n + 20 /\ RoundUp(n + 20, 8) % 8 = 0
    BY Rounding
  <2> QED BY <1>2, <1>3, <2>1, <2>2 DEF DirentHeader
<1>4. CASE r = "bulk"
  <2>1. RoundUp(n + 1, 4) \in Nat
    BY Rounding
  <2> QED BY <1>1, <1>4, <2>1 DEF RecordLen
<1>5. CASE r = "ntquery"
  <2>1. RecordLen(r, e) = RoundUp(64 + 2 * n, 8)
    BY <1>1, <1>5 DEF RecordLen, InfoNameAt
  <2>2. /\ RoundUp(64 + 2 * n, 8) \in Nat
        /\ RoundUp(64 + 2 * n, 8) >= 64 + 2 * n
        /\ RoundUp(64 + 2 * n, 8) % 8 = 0
    BY Rounding
  <2> QED BY <1>1, <1>2, <1>5, <2>1, <2>2 DEF InfoNameAt, InfoSize
<1>6. CASE r = "readdir"
  BY <1>6 DEF RecordLen
<1> QED BY <1>3, <1>4, <1>5, <1>6 DEF Readers

-----------------------------------------------------------------------------
(* Offsets                                                                 *)

\* A batch begins at offset 0, and a record lies right behind the one before it.
LEMMA NextStart ==
  ASSUME NEW r \in Readers, NEW b \in Seq(Entry)
  PROVE  /\ StartOf(r, b, 1) = 0
         /\ \A k \in 1 .. Len(b) : /\ StartOf(r, b, k) \in Nat
                                   /\ StartOf(r, b, k + 1) = StartOf(r, b, k) + RecordLen(r, b[k])
<1> DEFINE F(k) == [j \in 1 .. k - 1 |-> RecordLen(r, b[j])]
<1>1. \A k \in 1 .. Len(b) : RecordLen(r, b[k]) \in Nat
  BY RecordLength
<1>2. \A k \in 1 .. Len(b) + 1 : StartOf(r, b, k) = SumFunctionOnSet(F(k), 1 .. k - 1)
  BY DEF StartOf, SumFunction
<1>3. StartOf(r, b, 1) = 0
  <2>1. 1 .. 1 - 1 = {}
    OBVIOUS
  <2>2. SumFunctionOnSet(F(1), {}) = 0
    BY SumEmpty
  <2>3. 1 \in 1 .. Len(b) + 1
    OBVIOUS
  <2> HIDE DEF F
  <2>4. StartOf(r, b, 1) = SumFunctionOnSet(F(1), 1 .. 1 - 1)
    BY <1>2, <2>3
  <2> QED BY <2>1, <2>2, <2>4
<1>4. ASSUME NEW k \in 1 .. Len(b)
      PROVE  /\ StartOf(r, b, k) \in Nat
             /\ StartOf(r, b, k + 1) = StartOf(r, b, k) + RecordLen(r, b[k])
  <2> DEFINE S == 1 .. k - 1
  <2>1. k \in Nat /\ IsFiniteSet(S) /\ k \notin S
    BY FS_Interval
  <2>2. 1 .. (k + 1) - 1 = S \cup {k}
    BY <2>1
  <2>3. \A y \in S \cup {k} : y \in 1 .. Len(b)
    BY <2>1
  <2>4. \A y \in S \cup {k} : F(k + 1)[y] = RecordLen(r, b[y]) /\ F(k + 1)[y] \in Nat
    BY <1>1, <2>2, <2>3
  <2>5. \A y \in S : F(k)[y] = RecordLen(r, b[y])
    OBVIOUS
  <2>6. \A y \in S : F(k)[y] = F(k + 1)[y]
    BY <2>4, <2>5
  <2>7. StartOf(r, b, k) = SumFunctionOnSet(F(k), S)
    BY <1>2
  <2> HIDE DEF F
  <2>8. StartOf(r, b, k + 1) = SumFunctionOnSet(F(k + 1), S \cup {k})
    <3>1. k + 1 \in 1 .. Len(b) + 1
      OBVIOUS
    <3>2. StartOf(r, b, k + 1) = SumFunctionOnSet(F(k + 1), 1 .. (k + 1) - 1)
      BY <1>2, <3>1
    <3> QED BY <2>2, <3>2
  <2> HIDE DEF S
  <2>9. SumFunctionOnSet(F(k), S) = SumFunctionOnSet(F(k + 1), S)
    BY <2>1, <2>6, SumCongruence
  <2>10. SumFunctionOnSet(F(k + 1), S \cup {k}) = SumFunctionOnSet(F(k + 1), S) + F(k + 1)[k]
    BY <2>1, <2>4, SumAdd
  <2>11. SumFunctionOnSet(F(k + 1), S) \in Nat
    BY <2>1, <2>4, SumType
  <2> QED BY <2>4, <2>7, <2>8, <2>9, <2>10, <2>11
<1> QED BY <1>3, <1>4

\* Later records of a batch begin behind the end of earlier ones, and on Windows at a
\* multiple of 8.
LEMMA StartsGrow ==
  ASSUME NEW r \in Readers, NEW b \in Seq(Entry)
  PROVE  \A k \in 1 .. Len(b) + 1 :
           /\ StartOf(r, b, k) \in Nat
           /\ StartOf(r, b, k) >= k - 1
           /\ \A i \in 1 .. k - 1 : StartOf(r, b, i) + RecordLen(r, b[i]) <= StartOf(r, b, k)
           /\ r = "ntquery" => StartOf(r, b, k) % 8 = 0
<1> DEFINE Good(k) ==
      /\ StartOf(r, b, k) \in Nat
      /\ StartOf(r, b, k) >= k - 1
      /\ \A i \in 1 .. k - 1 : StartOf(r, b, i) + RecordLen(r, b[i]) <= StartOf(r, b, k)
      /\ r = "ntquery" => StartOf(r, b, k) % 8 = 0
           B == {k \in 1 .. Len(b) + 1 : ~ Good(k)}
<1> SUFFICES ASSUME B # {} PROVE FALSE
  OBVIOUS
<1>1. PICK m \in B : \A k \in B : m <= k
  <2>1. B \in SUBSET Nat
    OBVIOUS
  <2> HIDE DEF B
  <2> QED BY <2>1, LeastNumber
<1>2. m \in 1 .. Len(b) + 1 /\ ~ Good(m)
  OBVIOUS
<1>3. \A k \in 1 .. Len(b) + 1 : k < m => Good(k)
  BY <1>1
<1>4. StartOf(r, b, 1) = 0
  BY NextStart
<1>5. Good(1)
  BY <1>4
<1>6. PICK k \in 1 .. Len(b) : m = k + 1
  <2>1. m # 1
    BY <1>2, <1>5
  <2> HIDE DEF B, Good
  <2>2. m - 1 \in 1 .. Len(b) /\ m = (m - 1) + 1
    BY <1>2, <2>1
  <2> QED BY <2>2
<1>7. Good(k)
  <2> HIDE DEF B, Good
  <2> QED BY <1>2, <1>3, <1>6
<1>8. StartOf(r, b, k + 1) = StartOf(r, b, k) + RecordLen(r, b[k])
  BY NextStart
<1>9. /\ RecordLen(r, b[k]) \in Nat \ {0}
      /\ r = "ntquery" => RecordLen(r, b[k]) % 8 = 0
  BY RecordLength
<1>10. \A i \in 1 .. Len(b) : RecordLen(r, b[i]) \in Nat /\ StartOf(r, b, i) \in Nat
  <2>1. \A i \in 1 .. Len(b) : RecordLen(r, b[i]) \in Nat
    BY RecordLength, SMTT(30)
  <2>2. \A i \in 1 .. Len(b) : StartOf(r, b, i) \in Nat
    BY NextStart
  <2> QED BY <2>1, <2>2
<1>11. Good(k + 1)
  <2>1. StartOf(r, b, k + 1) \in Nat /\ StartOf(r, b, k + 1) >= k
    BY <1>7, <1>8, <1>9, SMTT(30)
  <2>2. ASSUME NEW i \in 1 .. k
        PROVE  StartOf(r, b, i) + RecordLen(r, b[i]) <= StartOf(r, b, k + 1)
    <3>1. CASE i = k
      BY <1>8, <1>10, <3>1
    <3>2. CASE i # k
      <4>1. i \in 1 .. k - 1 /\ i \in 1 .. Len(b)
        BY <3>2
      <4>2. StartOf(r, b, i) + RecordLen(r, b[i]) <= StartOf(r, b, k)
        BY <1>7, <4>1
      <4> HIDE DEF B, Good
      <4> QED BY <1>8, <1>9, <1>10, <4>1, <4>2
    <3> QED BY <3>1, <3>2
  <2>3. ASSUME r = "ntquery" PROVE StartOf(r, b, k + 1) % 8 = 0
    <3>1. PICK s \in Nat : s = StartOf(r, b, k)
      BY <1>10
    <3>2. PICK l \in Nat : l = RecordLen(r, b[k])
      BY <1>10
    <3>3. s % 8 = 0 /\ l % 8 = 0
      BY <1>7, <1>9, <2>3, <3>1, <3>2
    <3>4. (s + l) % 8 = 0
      BY <3>3
    <3> QED BY <1>8, <3>1, <3>2, <3>4
  <2> QED BY <2>1, <2>2, <2>3
<1> QED BY <1>2, <1>6, <1>11

\* How far a record of the batch reaches as the reader sees it.
Reach(r, b, j) ==
  StartOf(r, b, j) + (IF r = "ntquery" THEN InfoNameAt + 2 * Len(b[j].name)
                      ELSE RecordLen(r, b[j]))

\* Where the records of a batch lie: apart from each other and before its end.
LEMMA BatchShape ==
  ASSUME NEW r \in Readers, NEW b \in Seq(Entry), b # <<>>
  PROVE  /\ BatchLen(r, b) \in Nat
         /\ BatchLen(r, b) >= Len(b)
         /\ \A j \in 1 .. Len(b) : /\ StartOf(r, b, j) \in Nat
                                   /\ StartOf(r, b, j) < BatchLen(r, b)
                                   /\ Reach(r, b, j) <= BatchLen(r, b)
                                   /\ r = "ntquery" => StartOf(r, b, j) % 8 = 0
         /\ \A i, j \in 1 .. Len(b) : StartOf(r, b, i) = StartOf(r, b, j) => i = j
<1>1. PICK n \in Nat : n = Len(b) /\ n >= 1
  OBVIOUS
<1>2. \A j \in 1 .. n : /\ StartOf(r, b, j) \in Nat
                        /\ StartOf(r, b, j) >= j - 1
                        /\ RecordLen(r, b[j]) \in Nat \ {0}
                        /\ r = "ntquery" => RecordLen(r, b[j]) >= InfoNameAt + 2 * Len(b[j].name)
                        /\ r = "ntquery" => StartOf(r, b, j) % 8 = 0
  BY <1>1, StartsGrow, RecordLength
<1>3. \A i \in 1 .. n, j \in 1 .. n + 1 :
        i < j => StartOf(r, b, i) + RecordLen(r, b[i]) <= StartOf(r, b, j)
  BY <1>1, StartsGrow
<1>4. \A i, j \in 1 .. n : StartOf(r, b, i) = StartOf(r, b, j) => i = j
  <2> SUFFICES ASSUME NEW i \in 1 .. n, NEW j \in 1 .. n, i # j
               PROVE  StartOf(r, b, i) # StartOf(r, b, j)
    OBVIOUS
  <2>1. CASE i < j
    BY <1>2, <1>3, <2>1
  <2>2. CASE j < i
    BY <1>2, <1>3, <2>2
  <2> QED BY <2>1, <2>2
<1>5. ASSUME NEW j \in 1 .. n PROVE Len(b[j].name) \in Nat /\ Len(b[j].name) >= 1
  <2>1. b[j] \in Entry
    BY <1>1
  <2>2. b[j].name \in Seq(Chars) \ {<<>>}
    BY <2>1 DEF Entry
  <2> QED BY <2>2
<1>6. CASE r = "ntquery"
  <2>1. PICK l \in Nat : l = 64 + 2 * Len(b[n].name) /\ l >= 1
    BY <1>1, <1>5
  <2>2. BatchLen(r, b) = StartOf(r, b, n) + l
    BY <1>1, <1>6, <1>2, <1>5, <2>1 DEF BatchLen, Last, InfoNameAt
  <2>3. ASSUME NEW j \in 1 .. n
        PROVE  StartOf(r, b, j) < BatchLen(r, b) /\ Reach(r, b, j) <= BatchLen(r, b)
    <3>1. CASE j = n
      <4>1. Reach(r, b, j) = StartOf(r, b, n) + l
        BY <1>6, <2>1, <3>1 DEF Reach, InfoNameAt
      <4>2. StartOf(r, b, n) \in Nat /\ l > 0
        BY <1>1, <1>2, <2>1
      <4> QED BY <2>1, <2>2, <3>1, <4>1, <4>2
    <3>2. CASE j < n
      <4>1. StartOf(r, b, j) + RecordLen(r, b[j]) <= StartOf(r, b, n)
        BY <1>1, <1>3, <3>2
      <4>2. PICK p \in Nat : p = InfoNameAt + 2 * Len(b[j].name)
        BY <1>5 DEF InfoNameAt
      <4>3. Reach(r, b, j) = StartOf(r, b, j) + p /\ RecordLen(r, b[j]) >= p
        BY <1>2, <1>6, <4>2 DEF Reach
      <4>4. PICK s, u, k \in Nat :
              s = StartOf(r, b, j) /\ u = StartOf(r, b, n) /\ k = RecordLen(r, b[j])
        BY <1>1, <1>2
      <4>5. s + k <= u /\ k >= p /\ k > 0
        BY <1>2, <4>1, <4>3, <4>4
      <4>6. s < u + l /\ s + p <= u + l
        BY <4>5
      <4> QED BY <2>2, <4>3, <4>4, <4>6
    <3> QED BY <3>1, <3>2
  <2>4. BatchLen(r, b) \in Nat /\ BatchLen(r, b) >= n
    BY <1>1, <1>2, <2>1, <2>2
  <2> QED BY <1>1, <1>2, <1>4, <2>3, <2>4
<1>7. CASE r # "ntquery"
  <2>1. BatchLen(r, b) = StartOf(r, b, n + 1)
    BY <1>1, <1>7 DEF BatchLen
  <2>2. StartOf(r, b, n + 1) \in Nat /\ StartOf(r, b, n + 1) >= n
    <3>1. n + 1 \in 1 .. Len(b) + 1
      BY <1>1
    <3> QED BY <1>1, <3>1, StartsGrow
  <2>3. ASSUME NEW j \in 1 .. n
        PROVE  StartOf(r, b, j) < BatchLen(r, b) /\ Reach(r, b, j) <= BatchLen(r, b)
    <3>1. j < n + 1 /\ n + 1 \in 1 .. n + 1
      BY <1>1
    <3>2. StartOf(r, b, j) + RecordLen(r, b[j]) <= StartOf(r, b, n + 1)
      BY <1>3, <3>1
    <3> QED BY <1>2, <1>7, <2>1, <2>2, <3>2 DEF Reach
  <2> QED BY <1>1, <1>2, <1>4, <2>1, <2>2, <2>3
<1> QED BY <1>6, <1>7

-----------------------------------------------------------------------------
(* The invariant                                                           *)

\* What the reader takes for the name, the type and the size of the k-th entry.
NameRead(k) ==
  CASE reader = "getdents64" -> DirentName(listing[k])
    [] reader = "bulk" -> AttrName(listing[k])
    [] OTHER -> listing[k].name

Reading(k) ==
  [name |-> NameRead(k),
   kind |-> CASE reader = "getdents64" -> DirentKind(listing, listing[k])
              [] reader = "bulk" -> AttrKind(listing[k])
              [] reader = "readdir" -> DType(listing[k])
              [] reader = "ntquery" -> InfoKind(listing[k]),
   size |-> CASE reader = "bulk" -> AttrSize(listing[k])
              [] reader = "ntquery" -> listing[k].size
              [] OTHER -> NoSize,
   of   |-> k]

\* Is the k-th entry one that the reader reports?
Shown(k) == NameRead(k) \notin DotNames \cup {<<>>}

\* The first n entries are read, each once and at its own place.
ReportedUpto(n) ==
  /\ n \in 0 .. Len(listing)
  /\ reported \in Seq({Reading(k) : k \in 1 .. n})
  /\ \A i \in DOMAIN reported : Shown(reported[i].of)
  /\ \A i, j \in DOMAIN reported : reported[i].of = reported[j].of => i = j
  /\ \A k \in 1 .. n : Shown(k) => \E i \in DOMAIN reported : reported[i].of = k

Batch(from) == SubSeq(listing, from + 1, taken)

\* The records behind `from` in the listing lie in the buffer, what is left of others
\* lies behind them, and the reader is at the j-th one.
BatchAt(from, j) ==
  /\ from \in 0 .. taken - 1
  /\ j \in 1 .. Len(Batch(from)) + 1
  /\ reader # "readdir"
  /\ BatchLen(reader, Batch(from)) <= BufSize[reader]
  /\ Lay(Batch(from), from) \subseteq buf
  /\ \A r \in buf \ Lay(Batch(from), from) : r.at >= BatchLen(reader, Batch(from))
  /\ at = StartOf(reader, Batch(from), j)
  /\ reader = "getdents64" => filled = BatchLen(reader, Batch(from))
  /\ reader = "bulk" => filled = Len(Batch(from)) /\ parsed = j - 1
  /\ reader = "ntquery" => j <= Len(Batch(from))
  /\ ReportedUpto(from + j - 1)

ListingKept ==
  /\ reader = "getdents64" => "linux" \in Systems
  /\ \E dir \in Dirs[reader] : listing = Listing(reader, dir)

Ranges ==
  /\ reader \in Readers
  /\ phase \in {"open", "call", "parse", "ok", "err"}
  /\ taken \in 0 .. Len(listing)
  /\ at \in 0 .. BufSize[reader]
  /\ filled \in 0 .. BufSize[reader]
  /\ parsed \in 0 .. Len(listing)
  /\ first \in BOOLEAN /\ errno \in BOOLEAN /\ failed \in BOOLEAN

DirInv ==
  /\ Ranges
  /\ ListingKept
  /\ reader = "ntquery" /\ first => taken = 0
  /\ failed <=> phase = "err"
  /\ IF phase = "parse" THEN \E from \in 0 .. taken - 1 : \E j \in 1 .. taken - from + 1 : BatchAt(from, j)
     ELSE ReportedUpto(taken)
  /\ phase = "ok" => taken = Len(listing)

-----------------------------------------------------------------------------
(* What is made of an entry                                                *)

Kinds == {"File", "Dir", "Symlink", "Other"}

LEMMA EntryParts ==
  \A e \in Entry : /\ e.name \in Seq(Chars) /\ e.name # <<>>
                   /\ e.kind \in Kinds
                   /\ e.size \in Nat
BY DEF Entry, Kinds

\* The attributes of getattrlistbulk are read back as they were packed.
LEMMA AttrsAreTrue ==
  ASSUME NEW e \in Entry
  PROVE  /\ AttrName(e) = e.name
         /\ AttrKind(e) = IF "type" \in e.gives THEN e.kind ELSE "Other"
         /\ AttrSize(e) = IF "size" \in e.gives THEN e.size ELSE NoSize
<1>1. e.name \in Seq(Chars) /\ e.kind \in Kinds /\ e.size \in Nat
  BY EntryParts
<1>2. AttrName(e) = e.name
  <2>1. PICK s \in Seq(Chars) : s = e.name
    BY <1>1
  <2>2. PICK t \in Seq(Chars \cup {"NUL"}) : t = Append(s, "NUL")
    <3>1. s \in Seq(Chars \cup {"NUL"}) /\ "NUL" \in Chars \cup {"NUL"}
      OBVIOUS
    <3> QED BY <3>1, AppendProperties
  <2>3. Len(t) = Len(s) + 1 /\ \A i \in 1 .. Len(s) : t[i] = s[i]
    BY <2>2
  <2>4. SubSeq(t, 1, Len(t) - 1) = s
    BY <2>2, <2>3
  <2> QED BY <2>1, <2>2, <2>4 DEF AttrName, Front
<1>3. VnodeKind(VnodeType(e.kind)) = e.kind
  BY <1>1 DEF VnodeKind, VnodeType, Kinds
<1>4. AttrKind(e) = IF "type" \in e.gives THEN e.kind ELSE "Other"
  <2>1. CASE "type" \in e.gives
    <3>1. Packed(e)[1] = VnodeType(e.kind)
      BY <2>1 DEF Packed
    <3> QED BY <1>3, <2>1, <3>1 DEF AttrKind
  <2>2. CASE "type" \notin e.gives
    BY <2>2 DEF AttrKind
  <2> QED BY <2>1, <2>2
<1>5. AttrSize(e) = IF "size" \in e.gives THEN e.size ELSE NoSize
  <2>1. CASE "type" \in e.gives /\ "size" \in e.gives
    BY <2>1 DEF AttrSize, Packed
  <2>2. CASE "type" \notin e.gives /\ "size" \in e.gives
    BY <2>2 DEF AttrSize, Packed
  <2>3. CASE "size" \notin e.gives
    BY <2>3 DEF AttrSize
  <2> QED BY <2>1, <2>2, <2>3
<1> QED BY <1>2, <1>4, <1>5

\* The attributes of Windows tell links, directories and the rest apart.
LEMMA InfoKindTrue ==
  ASSUME NEW e \in Entry
  PROVE  InfoKind(e) = IF e.kind = "Other" THEN "File" ELSE e.kind
<1>1. e.kind \in Kinds
  BY EntryParts
<1> QED BY <1>1 DEF InfoKind, Attributes, Kinds

\* statx finds no entry, or one by that name.
LEMMA StatxFinds ==
  ASSUME NEW dir \in Seq(Entry), NEW name
  PROVE  /\ StatxKind(dir, name) \in Kinds
         /\ (\A k \in DOMAIN dir : dir[k].name # name) => StatxKind(dir, name) = "Other"
<1> DEFINE found == {e \in ToSet(dir) : e.name = name}
<1>1. \A e \in found : e.kind \in Kinds
  BY EntryParts DEF ToSet
<1>2. StatxKind(dir, name) = IF found = {} THEN "Other" ELSE (CHOOSE e \in found : TRUE).kind
  BY DEF StatxKind
<1>3. (\A k \in DOMAIN dir : dir[k].name # name) => found = {}
  BY DEF ToSet
<1> HIDE DEF found
<1>4. found # {} => (CHOOSE e \in found : TRUE) \in found
  OBVIOUS
<1> QED BY <1>1, <1>2, <1>3, <1>4 DEF Kinds

\* The kernel lists entries of the directory, and on some systems . and .. .
LEMMA ListedEntries ==
  ASSUME reader \in Readers, ListingKept
  PROVE  /\ listing \in Seq(Entry)
         /\ \E dir \in Dirs[reader] : \A k \in DOMAIN listing :
              listing[k].name \in DotNames \/ \E i \in DOMAIN dir : listing[k] = dir[i]
<1>1. PICK dir \in Dirs[reader] : listing = Listing(reader, dir)
  BY DEF ListingKept
<1>2. dir \in Seq(Entry)
  BY EntryAssumption
<1>3. CASE reader = "bulk"
  BY <1>1, <1>2, <1>3 DEF Listing
<1>4. CASE reader # "bulk"
  <2> DEFINE dots == <<DotEntry(<<".">>), DotEntry(<<".", ".">>)>>
  <2>1. /\ DotEntry(<<".">>) \in Entry /\ DotEntry(<<".">>).name \in DotNames
        /\ DotEntry(<<".", ".">>) \in Entry /\ DotEntry(<<".", ".">>).name \in DotNames
    <3>1. <<".">> \in Seq(Chars) \ {<<>>} /\ <<".", ".">> \in Seq(Chars) \ {<<>>}
      BY EntryAssumption
    <3> QED BY <3>1 DEF DotEntry, DotNames, Entry
  <2>2. dots \in Seq(Entry) /\ Len(dots) = 2 /\ \A k \in 1 .. 2 : dots[k].name \in DotNames
    BY <2>1
  <2>3. listing = dots \o dir
    BY <1>1, <1>4 DEF Listing
  <2> HIDE DEF dots
  <2>4. /\ listing \in Seq(Entry)
        /\ Len(listing) = 2 + Len(dir)
        /\ \A k \in 1 .. Len(listing) : listing[k] = IF k <= 2 THEN dots[k] ELSE dir[k - 2]
    <3>1. /\ dots \o dir \in Seq(Entry)
          /\ Len(dots \o dir) = Len(dots) + Len(dir)
          /\ \A k \in 1 .. Len(dots) + Len(dir) :
               (dots \o dir)[k] = IF k <= Len(dots) THEN dots[k] ELSE dir[k - Len(dots)]
      BY <1>2, <2>2, ConcatProperties
    <3> QED BY <1>2, <2>2, <2>3, <3>1
  <2>5. ASSUME NEW k \in DOMAIN listing, listing[k].name \notin DotNames
        PROVE  \E i \in DOMAIN dir : listing[k] = dir[i]
    <3>1. k \in 1 .. 2 + Len(dir) /\ ~ (k <= 2)
      BY <2>2, <2>4, <2>5
    <3>2. k - 2 \in 1 .. Len(dir) /\ listing[k] = dir[k - 2]
      BY <1>2, <2>4, <3>1
    <3> QED BY <1>2, <3>2
  <2> QED BY <2>4, <2>5
<1> QED BY <1>3, <1>4

\* A reading has a kind and a size, and it is reported when the reader sees a name.
LEMMA ReadingType ==
  ASSUME reader \in Readers, listing \in Seq(Entry), NEW k \in DOMAIN listing
  PROVE  /\ Reading(k).kind \in Kinds
         /\ Reading(k).size \in Nat \cup {NoSize}
         /\ Reading(k).of = k
<1>1. PICK e \in Entry : e = listing[k]
  OBVIOUS
<1>2. e.kind \in Kinds /\ e.size \in Nat
  BY EntryParts
<1>3. Reading(k).of = k
  BY DEF Reading
<1>4. CASE reader = "getdents64"
  <2>1. Reading(k).kind = DirentKind(listing, e) /\ Reading(k).size = NoSize
    BY <1>1, <1>4 DEF Reading
  <2>2. DirentKind(listing, e) \in Kinds
    BY <1>2, StatxFinds DEF DirentKind
  <2> QED BY <1>3, <2>1, <2>2
<1>5. CASE reader = "bulk"
  <2>1. Reading(k).kind = AttrKind(e) /\ Reading(k).size = AttrSize(e)
    BY <1>1, <1>5 DEF Reading
  <2> QED BY <1>2, <1>3, <2>1, AttrsAreTrue DEF Kinds
<1>6. CASE reader = "readdir"
  <2>1. Reading(k).kind = DType(e) /\ Reading(k).size = NoSize
    BY <1>1, <1>6 DEF Reading
  <2> QED BY <1>2, <1>3, <2>1 DEF DType, Kinds
<1>7. CASE reader = "ntquery"
  <2>1. Reading(k).kind = InfoKind(e) /\ Reading(k).size = e.size
    BY <1>1, <1>7 DEF Reading
  <2> QED BY <1>2, <1>3, <2>1, InfoKindTrue DEF Kinds
<1> QED BY <1>4, <1>5, <1>6, <1>7 DEF Readers

\* Only names of entries are shown; on macOS and Windows, all of them.
LEMMA ShownNames ==
  ASSUME reader \in Readers, listing \in Seq(Entry), NEW k \in DOMAIN listing
  PROVE  /\ Shown(k) => listing[k].name \notin DotNames
         /\ reader # "getdents64" => /\ NameRead(k) = listing[k].name
                                     /\ NameRead(k) # <<>>
<1>1. PICK e \in Entry : e = listing[k]
  OBVIOUS
<1>2. PICK s \in Seq(Chars) : s = e.name /\ s # <<>>
  BY EntryParts
<1>3. CASE reader = "getdents64"
  <2>1. NameRead(k) = SubSeq(s, 6, Len(s))
    BY <1>1, <1>2, <1>3 DEF NameRead, DirentName, DirentHeader, DirentNameAt
  <2>2. SubSeq(s, 6, Len(s)) # <<>> => Len(s) >= 6
    OBVIOUS
  <2>3. Len(s) >= 6 => s \notin DotNames
    <3>1. Len(<<".">>) = 1 /\ Len(<<".", ".">>) = 2
      OBVIOUS
    <3>2. ASSUME Len(s) >= 6 PROVE Len(s) # 1 /\ Len(s) # 2
      <4>1. PICK n \in Nat : n = Len(s)
        OBVIOUS
      <4>2. n # 1 /\ n # 2
        BY <3>2, <4>1
      <4> QED BY <4>1, <4>2
    <3> QED BY <3>1, <3>2, Zenon DEF DotNames
  <2> QED BY <1>1, <1>2, <1>3, <2>1, <2>2, <2>3 DEF Shown
<1>4. CASE reader = "bulk"
  BY <1>1, <1>2, <1>4, AttrsAreTrue DEF Shown, NameRead
<1>5. CASE reader \in {"readdir", "ntquery"}
  BY <1>1, <1>2, <1>5 DEF Shown, NameRead
<1> QED BY <1>3, <1>4, <1>5 DEF Readers

-----------------------------------------------------------------------------
(* Reporting                                                               *)

LEMMA ReadingsKept ==
  ASSUME UNCHANGED <<reader, listing>>, NEW k
  PROVE  Reading(k)' = Reading(k) /\ (Shown(k)' <=> Shown(k))
BY DEF Reading, Shown, NameRead

LEMMA ReportsKept ==
  ASSUME NEW n, ReportedUpto(n), UNCHANGED <<reader, listing, reported>>
  PROVE  ReportedUpto(n)'
<1>1. {Reading(k) : k \in 1 .. n}' = {Reading(k) : k \in 1 .. n}
  BY ReadingsKept
<1>2. \A k : Shown(k)' <=> Shown(k)
  BY ReadingsKept
<1> QED BY <1>1, <1>2 DEF ReportedUpto

\* Each report is the reading of one of the first n entries, which is shown.
LEMMA Reports ==
  ASSUME NEW n, ReportedUpto(n)
  PROVE  \A i \in DOMAIN reported : /\ reported[i].of \in 1 .. n
                                    /\ reported[i] = Reading(reported[i].of)
                                    /\ Shown(reported[i].of)
<1> SUFFICES ASSUME NEW i \in DOMAIN reported
             PROVE  reported[i].of \in 1 .. n /\ reported[i] = Reading(reported[i].of)
  BY DEF ReportedUpto
<1>1. PICK R : R = {Reading(k) : k \in 1 .. n}
  OBVIOUS
<1>2. reported[i] \in R
  BY <1>1 DEF ReportedUpto
<1>3. PICK k \in 1 .. n : reported[i] = Reading(k)
  BY <1>1, <1>2
<1>4. Reading(k).of = k
  BY DEF Reading
<1> QED BY <1>3, <1>4

\* The next entry is reported when it is shown.
LEMMA OneMore ==
  ASSUME NEW k \in 1 .. Len(listing), listing \in Seq(Entry), ReportedUpto(k - 1),
         UNCHANGED <<reader, listing>>,
         reported' = IF Shown(k) THEN Append(reported, Reading(k)) ELSE reported
  PROVE  ReportedUpto(k)'
<1>1. PICK R : R = {Reading(i) : i \in 1 .. k}
  OBVIOUS
<1>2. R = {Reading(i) : i \in 1 .. k}'
  BY <1>1, ReadingsKept
<1>3. \A i : Shown(i)' <=> Shown(i)
  BY ReadingsKept
<1>4. reported \in Seq(R)
  <2>1. PICK Q : Q = {Reading(i) : i \in 1 .. k - 1}
    OBVIOUS
  <2>2. Q \subseteq R
    BY <1>1, <2>1
  <2>3. reported \in Seq(Q)
    BY <2>1 DEF ReportedUpto
  <2> QED BY <2>2, <2>3
<1>5. PICK x \in R : x = Reading(k) /\ x.of = k
  <2>1. Reading(k) \in R
    BY <1>1
  <2>2. Reading(k).of = k
    BY DEF Reading
  <2> QED BY <2>1, <2>2
<1>6. \A i \in DOMAIN reported : reported[i].of \in 1 .. k - 1 /\ Shown(reported[i].of)
  BY Reports
<1>7. /\ \A i, j \in DOMAIN reported : reported[i].of = reported[j].of => i = j
      /\ \A l \in 1 .. k - 1 : Shown(l) => \E i \in DOMAIN reported : reported[i].of = l
  BY DEF ReportedUpto
<1>8. CASE Shown(k)
  <2>1. reported' = Append(reported, x)
    BY <1>5, <1>8
  <2>2. /\ reported' \in Seq(R)
        /\ Len(reported') = Len(reported) + 1
        /\ \A i \in 1 .. Len(reported) : reported'[i] = reported[i]
        /\ reported'[Len(reported) + 1] = x
    BY <1>4, <2>1, AppendProperties
  <2>3. \A i \in DOMAIN reported' : \/ i \in DOMAIN reported /\ reported'[i] = reported[i]
                                    \/ i = Len(reported) + 1 /\ reported'[i] = x
    BY <1>4, <2>2
  <2>4. \A i \in DOMAIN reported : i \in DOMAIN reported' /\ reported'[i] = reported[i]
    BY <1>4, <2>2
  <2>5. Len(reported) + 1 \in DOMAIN reported'
    BY <1>4, <2>2
  <2>6. \A i \in DOMAIN reported' : Shown(reported'[i].of)
    BY <1>5, <1>6, <1>8, <2>3
  <2>7. ASSUME NEW i \in DOMAIN reported', NEW j \in DOMAIN reported', reported'[i].of = reported'[j].of
        PROVE  i = j
    BY <1>5, <1>6, <1>7, <2>3, <2>7
  <2>8. ASSUME NEW l \in 1 .. k, Shown(l)
        PROVE  \E i \in DOMAIN reported' : reported'[i].of = l
    <3>1. CASE l = k
      BY <1>5, <2>2, <2>5, <3>1
    <3>2. CASE l # k
      <4>1. l \in 1 .. k - 1
        BY <3>2
      <4>2. PICK i \in DOMAIN reported : reported[i].of = l
        BY <1>7, <2>8, <4>1
      <4> QED BY <2>4, <4>2
    <3> QED BY <3>1, <3>2
  <2>9. k \in 0 .. Len(listing)
    OBVIOUS
  <2> QED BY <1>2, <1>3, <2>2, <2>6, <2>7, <2>8, <2>9 DEF ReportedUpto
<1>9. CASE ~ Shown(k)
  <2>1. reported' = reported
    BY <1>9
  <2>2. \A l \in 1 .. k : Shown(l) => l \in 1 .. k - 1
    BY <1>9
  <2>3. \A l \in 1 .. k : Shown(l) => \E i \in DOMAIN reported : reported[i].of = l
    BY <1>7, <2>2
  <2>4. k \in 0 .. Len(listing)
    OBVIOUS
  <2> QED BY <1>2, <1>3, <1>4, <1>6, <1>7, <2>1, <2>3, <2>4 DEF ReportedUpto
<1> QED BY <1>8, <1>9

-----------------------------------------------------------------------------
(* The buffer                                                              *)

LEMMA BatchParts ==
  ASSUME listing \in Seq(Entry), taken \in 0 .. Len(listing), NEW from \in 0 .. taken - 1
  PROVE  /\ Batch(from) \in Seq(Entry)
         /\ Batch(from) # <<>>
         /\ Len(Batch(from)) = taken - from
         /\ \A k \in 1 .. taken - from : Batch(from)[k] = listing[from + k]
<1>1. PICK t \in Nat : t = taken /\ t <= Len(listing)
  OBVIOUS
<1>2. PICK f \in Nat : f = from /\ f < t
  BY <1>1
<1>3. PICK b : b = SubSeq(listing, f + 1, t)
  OBVIOUS
<1>4. b \in Seq(Entry) /\ Len(b) = t - f /\ \A k \in 1 .. t - f : b[k] = listing[f + k]
  <2>1. f + 1 \in 1 .. Len(listing) + 1 /\ t \in f .. Len(listing)
    BY <1>1, <1>2
  <2>2. \A i \in f + 1 .. t : listing[i] \in Entry
    BY <1>1, <1>2
  <2> QED BY <1>1, <1>2, <1>3, <2>1, <2>2, SubSeqProperties
<1>5. b # <<>>
  BY <1>2, <1>4
<1> QED BY <1>1, <1>2, <1>3, <1>4, <1>5 DEF Batch

\* The record where the reader stands is that of the entry whose turn it is, whatever
\* else lies in the buffer; it is there, and it ends in the part that the kernel has
\* filled.
LEMMA RecordAt ==
  ASSUME reader \in Readers, listing \in Seq(Entry), taken \in 0 .. Len(listing),
         NEW from \in 0 .. taken - 1, NEW j \in 1 .. taken - from, BatchAt(from, j)
  PROVE  LET b == Batch(from)
         IN  /\ at \in Nat /\ at + RecordLen(reader, b[j]) = StartOf(reader, b, j + 1)
             /\ Reach(reader, b, j) <= BatchLen(reader, b)
             /\ \E r \in buf : r.at = at /\ r.e = b[j]
             /\ \A r \in buf : r.at = at =>
                  /\ r.e = b[j]
                  /\ r.of = from + j
                  /\ r.next = IF j = Len(b) THEN 0 ELSE RecordLen(reader, b[j])
<1>1. PICK b : b = Batch(from)
  OBVIOUS
<1>2. /\ b \in Seq(Entry) /\ b # <<>>
      /\ Len(b) = taken - from /\ j \in 1 .. Len(b) /\ DOMAIN b = 1 .. Len(b)
  <2>1. b \in Seq(Entry) /\ b # <<>> /\ Len(b) = taken - from
    BY <1>1, BatchParts
  <2> QED BY <2>1
<1>3. PICK rd \in Readers : rd = reader
  OBVIOUS
<1>4. /\ BatchLen(rd, b) \in Nat
      /\ StartOf(rd, b, j) \in Nat
      /\ StartOf(rd, b, j) < BatchLen(rd, b)
      /\ Reach(rd, b, j) <= BatchLen(rd, b)
      /\ \A i \in 1 .. Len(b) : StartOf(rd, b, i) = StartOf(rd, b, j) => i = j
  BY <1>2, BatchShape
<1>5. at = StartOf(rd, b, j)
  BY <1>1, <1>3 DEF BatchAt
<1>6. StartOf(rd, b, j + 1) = StartOf(rd, b, j) + RecordLen(rd, b[j])
  BY <1>2, NextStart
<1>7. PICK L : /\ L = Lay(b, from)
               /\ L \subseteq buf
               /\ \A r \in buf \ L : r.at >= BatchLen(rd, b)
  BY <1>1, <1>3 DEF BatchAt
<1>8. /\ \A r \in L : \E k \in 1 .. Len(b) :
           /\ r.at = StartOf(rd, b, k) /\ r.e = b[k] /\ r.of = from + k
           /\ r.next = IF k = Len(b) THEN 0 ELSE RecordLen(rd, b[k])
      /\ \E r \in L : r.at = StartOf(rd, b, j) /\ r.e = b[j]
  <2> DEFINE Rec(k) == [at |-> StartOf(rd, b, k), e |-> b[k], of |-> from + k,
                        next |-> IF k = Len(b) THEN 0 ELSE RecordLen(rd, b[k])]
  <2>1. L = {Rec(k) : k \in 1 .. Len(b)}
    BY <1>2, <1>3, <1>7 DEF Lay
  <2>2. \A k : /\ Rec(k).at = StartOf(rd, b, k) /\ Rec(k).e = b[k] /\ Rec(k).of = from + k
               /\ Rec(k).next = IF k = Len(b) THEN 0 ELSE RecordLen(rd, b[k])
    OBVIOUS
  <2> HIDE DEF Rec
  <2>3. Rec(j) \in L
    BY <1>2, <2>1
  <2> QED BY <2>1, <2>2, <2>3, ZenonT(30)
<1>9. ASSUME NEW r \in buf, r.at = at
      PROVE  /\ r.e = b[j]
             /\ r.of = from + j
             /\ r.next = IF j = Len(b) THEN 0 ELSE RecordLen(rd, b[j])
  <2>1. r \in L
    BY <1>4, <1>5, <1>7, <1>9
  <2>2. PICK k \in 1 .. Len(b) :
          /\ r.at = StartOf(rd, b, k) /\ r.e = b[k] /\ r.of = from + k
          /\ r.next = IF k = Len(b) THEN 0 ELSE RecordLen(rd, b[k])
    BY <1>8, <2>1
  <2>3. k = j
    BY <1>4, <1>5, <1>9, <2>2
  <2> QED BY <2>2, <2>3
<1>10. \E r \in buf : r.at = at /\ r.e = b[j]
  BY <1>5, <1>7, <1>8
<1> QED BY <1>1, <1>3, <1>4, <1>5, <1>6, <1>9, <1>10

-----------------------------------------------------------------------------
(* The steps                                                               *)

LEMMA InitInv == Init => DirInv
<1> SUFFICES ASSUME Init PROVE DirInv
  OBVIOUS
<1>1. PICK system \in Systems, withSize \in BOOLEAN : reader = BuildReader(system, withSize)
  BY DEF Init
<1>2. reader \in Readers /\ (reader = "getdents64" => system = "linux")
  BY <1>1, SystemsAssumption DEF BuildReader, Readers
<1>3. ListingKept
  BY <1>1, <1>2 DEF Init, ListingKept
<1>4. listing \in Seq(Entry)
  BY <1>2, <1>3, ListedEntries
<1>5. BufSize[reader] \in Nat
  BY <1>2, BufAssumption
<1>6. Ranges
  <2>1. 0 \in 0 .. Len(listing) /\ 0 \in 0 .. BufSize[reader]
    BY <1>4, <1>5
  <2> QED BY <1>2, <2>1, Zenon DEF Init, Ranges
<1>7. ReportedUpto(0)
  BY <1>4 DEF Init, ReportedUpto
<1> QED BY <1>3, <1>6, <1>7 DEF Init, DirInv

LEMMA BatchKept ==
  ASSUME UNCHANGED <<reader, listing, taken>>, NEW from
  PROVE  /\ Batch(from)' = Batch(from)
         /\ Lay(Batch(from), from)' = Lay(Batch(from), from)
BY DEF Batch, Lay

LEMMA ListingStays ==
  ASSUME UNCHANGED <<reader, listing>>, ListingKept
  PROVE  ListingKept'
BY DEF ListingKept

\* The kernel fills the buffer behind what it has returned, from its first byte on.
LEMMA FillStep ==
  ASSUME DirInv, NEW n \in 1 .. Len(listing), GetDents(n) \/ GetAttrListBulk(n) \/ NtQuery(n)
  PROVE  DirInv'
<1>1. Ranges /\ ListingKept /\ listing \in Seq(Entry)
  BY ListedEntries DEF DirInv, Ranges
<1>2. PICK f \in 0 .. Len(listing) : f = taken
  BY <1>1 DEF Ranges
<1>3. /\ Fill(n, f) /\ reader # "readdir"
      /\ filled' = CASE reader = "getdents64" -> BatchLen(reader, SubSeq(listing, f + 1, f + n))
                     [] reader = "bulk" -> n
                     [] OTHER -> filled
      /\ first' = IF reader = "ntquery" THEN FALSE ELSE first
  BY <1>2 DEF DirInv, GetDents, GetAttrListBulk, NtQuery
<1>4. /\ phase = "call" /\ phase' = "parse"
      /\ UNCHANGED <<reader, listing, errno, failed, reported>>
      /\ f + n <= Len(listing) /\ taken' = f + n /\ at' = 0 /\ parsed' = 0
  BY <1>3 DEF Fill
<1>5. PICK b : b = SubSeq(listing, f + 1, f + n)
  OBVIOUS
<1>6. b \in Seq(Entry) /\ Len(b) = n /\ b # <<>>
  <2>1. f + 1 \in 1 .. Len(listing) + 1 /\ f + n \in f .. Len(listing)
    BY <1>4
  <2>2. \A i \in f + 1 .. f + n : listing[i] \in Entry
    BY <1>1, <1>4
  <2>3. b \in Seq(Entry) /\ Len(b) = n
    BY <1>1, <1>4, <1>5, <2>1, <2>2, SubSeqProperties
  <2> QED BY <2>3
<1>7. /\ BatchLen(reader, b) <= BufSize[reader]
      /\ buf' = Lay(b, f) \cup {r \in buf : r.at >= BatchLen(reader, b)}
  BY <1>3, <1>5 DEF Fill
<1>8. Batch(f)' = b /\ Lay(Batch(f), f)' = Lay(b, f)
  BY <1>4, <1>5 DEF Batch, Lay
<1>9. BatchLen(reader, b) \in Nat /\ BatchLen(reader, b) >= n
  BY <1>1, <1>6, BatchShape DEF Ranges
<1>10. StartOf(reader, b, 1) = 0
  BY <1>1, <1>6, NextStart DEF Ranges
<1>11. BufSize[reader] \in Nat
  BY <1>1, BufAssumption DEF Ranges
<1>12. Ranges'
  <2>1. filled' \in 0 .. BufSize[reader]
    BY <1>1, <1>3, <1>5, <1>7, <1>9, <1>11 DEF Ranges
  <2>2. taken' \in 0 .. Len(listing)
    BY <1>4
  <2>3. 0 \in 0 .. Len(listing) /\ 0 \in 0 .. BufSize[reader]
    BY <1>1, <1>11
  <2>4. first' \in BOOLEAN
    BY <1>1, <1>3, Zenon DEF Ranges
  <2> QED BY <1>1, <1>4, <2>1, <2>2, <2>3, <2>4, Zenon DEF Ranges
<1>13. BatchAt(f, 1)'
  <2>1. ReportedUpto(f)
    BY <1>2, <1>4 DEF DirInv
  <2>2. ReportedUpto(f)'
    BY <1>4, <2>1, ReportsKept
  <2>3. f + 1 - 1 = f /\ f \in 0 .. taken' - 1
    BY <1>4
  <2>4. /\ reader = "getdents64" => filled' = BatchLen(reader, b)
        /\ reader = "bulk" => filled' = Len(b)
    BY <1>3, <1>5, <1>6
  <2> QED BY <1>3, <1>4, <1>6, <1>7, <1>8, <1>10, <2>2, <2>3, <2>4 DEF BatchAt
<1>14. \E from \in 0 .. taken' - 1 : \E j \in 1 .. taken' - from + 1 : BatchAt(from, j)'
  <2>1. f \in 0 .. taken' - 1 /\ 1 \in 1 .. taken' - f + 1
    BY <1>4
  <2> QED BY <1>13, <2>1
<1> QED BY <1>1, <1>3, <1>4, <1>12, <1>14, ListingStays DEF DirInv

\* The next record is read and reported as the entry it is.
LEMMA ParseStep ==
  ASSUME DirInv, ParseRecord
  PROVE  DirInv'
<1>1. Ranges /\ ListingKept /\ listing \in Seq(Entry) /\ taken \in 0 .. Len(listing)
  BY ListedEntries DEF DirInv, Ranges
<1>2. phase = "parse" /\ UNCHANGED <<reader, listing, kernelVars, errno, failed>>
  BY DEF ParseRecord
<1>3. PICK from \in 0 .. taken - 1 : \E j \in 1 .. taken - from + 1 : BatchAt(from, j)
  BY <1>2 DEF DirInv
<1>4. PICK j \in 1 .. taken - from + 1 : BatchAt(from, j)
  BY <1>3
<1>5. PICK r \in buf : \/ reader = "getdents64" /\ ParseDirent(r)
                       \/ reader = "bulk" /\ ParseAttrs(r)
                       \/ reader = "ntquery" /\ ParseInfo(r)
  BY DEF ParseRecord
<1>6. PICK b \in Seq(Entry) : /\ b = Batch(from) /\ b # <<>>
                              /\ Len(b) = taken - from
                              /\ \A k \in 1 .. taken - from : b[k] = listing[from + k]
  BY <1>1, <1>3, BatchParts
<1>7. PICK t \in Nat : t = taken /\ t <= Len(listing)
  BY <1>1
<1>8. /\ reader = "getdents64" => filled = BatchLen(reader, b)
      /\ reader = "bulk" => filled = Len(b) /\ parsed = j - 1
      /\ reader = "ntquery" => j <= Len(b)
      /\ BatchLen(reader, b) <= BufSize[reader]
      /\ at = StartOf(reader, b, j)
      /\ ReportedUpto(from + j - 1)
  BY <1>4, <1>6 DEF BatchAt
<1>9. r.at = at
  BY <1>5 DEF ParseDirent, DirentAt, ParseAttrs, AttrsAt, ParseInfo, InfoAt
<1>10. j \in 1 .. taken - from
  <2>1. j # Len(b) + 1
    <3>1. CASE reader = "getdents64"
      <4>1. DirentAt(r)
        BY <1>5, <3>1 DEF ParseDirent
      <4>2. at + DirentHeader <= filled
        BY <4>1 DEF DirentAt
      <4>3. BatchLen(reader, b) = StartOf(reader, b, Len(b) + 1)
        BY <3>1 DEF BatchLen
      <4>4. at \in Nat
        BY <1>1, BufAssumption DEF Ranges
      <4>5. at # filled
        BY <4>2, <4>4 DEF DirentHeader
      <4> QED BY <1>8, <3>1, <4>3, <4>5
    <3>2. CASE reader = "bulk"
      <4>1. parsed < filled
        BY <1>5, <3>2 DEF ParseAttrs, AttrsAt
      <4> QED BY <1>6, <1>8, <3>2, <4>1
    <3>3. CASE reader = "ntquery"
      BY <1>6, <1>8, <3>3
    <3> QED BY <1>5, <3>1, <3>2, <3>3
  <2> QED BY <1>3, <1>6, <1>7, <2>1
<1>11. PICK k \in 1 .. taken : k = from + j
  BY <1>3, <1>7, <1>10
<1>12. /\ at \in Nat /\ at + RecordLen(reader, b[j]) = StartOf(reader, b, j + 1)
       /\ Reach(reader, b, j) <= BatchLen(reader, b)
       /\ r.e = b[j] /\ r.of = k
       /\ r.next = IF j = Len(b) THEN 0 ELSE RecordLen(reader, b[j])
  BY <1>1, <1>3, <1>4, <1>6, <1>9, <1>10, <1>11, RecordAt DEF Ranges
<1>13. r.e = listing[k] /\ k \in 1 .. Len(listing) /\ listing[k] \in Entry
  BY <1>1, <1>6, <1>7, <1>10, <1>11, <1>12, SMTT(30)
<1>14. reported' = IF Shown(k) THEN Append(reported, Reading(k)) ELSE reported
  <2>1. CASE reader = "getdents64"
    <3>1. IF DirentName(r.e) = <<>> THEN UNCHANGED reported
          ELSE Report(r, DirentName(r.e), DirentKind(listing, r.e), NoSize)
      BY <1>5, <2>1 DEF ParseDirent
    <3>2. NameRead(k) = DirentName(r.e)
      BY <1>13, <2>1 DEF NameRead
    <3>3. Reading(k) = [name |-> NameRead(k), kind |-> DirentKind(listing, r.e),
                        size |-> NoSize, of |-> r.of]
      BY <1>12, <1>13, <2>1 DEF Reading
    <3> QED BY <3>1, <3>2, <3>3 DEF Report, Shown
  <2>2. CASE reader = "bulk"
    <3>1. Report(r, AttrName(r.e), AttrKind(r.e), AttrSize(r.e))
      BY <1>5, <2>2 DEF ParseAttrs
    <3>2. NameRead(k) = AttrName(r.e) /\ NameRead(k) # <<>>
      BY <1>1, <1>13, <2>2, ShownNames DEF NameRead, Ranges
    <3>3. Reading(k) = [name |-> NameRead(k), kind |-> AttrKind(r.e),
                        size |-> AttrSize(r.e), of |-> r.of]
      BY <1>12, <1>13, <2>2 DEF Reading
    <3> QED BY <3>1, <3>2, <3>3 DEF Report, Shown
  <2>3. CASE reader = "ntquery"
    <3>1. Report(r, r.e.name, InfoKind(r.e), r.e.size)
      BY <1>5, <2>3 DEF ParseInfo
    <3>2. NameRead(k) = r.e.name /\ NameRead(k) # <<>>
      BY <1>1, <1>13, <2>3, ShownNames DEF NameRead, Ranges
    <3>3. Reading(k) = [name |-> NameRead(k), kind |-> InfoKind(r.e),
                        size |-> r.e.size, of |-> r.of]
      BY <1>12, <1>13, <2>3 DEF Reading
    <3> QED BY <3>1, <3>2, <3>3 DEF Report, Shown
  <2> QED BY <1>5, <2>1, <2>2, <2>3
<1>15. ReportedUpto(k)'
  <2>1. ReportedUpto(k - 1)
    BY <1>3, <1>7, <1>8, <1>10, <1>11
  <2> QED BY <1>1, <1>2, <1>13, <1>14, <2>1, OneMore
<1>16. BufSize[reader] \in Nat
  BY <1>1, BufAssumption DEF Ranges
<1>17. ListingKept'
  BY <1>1, <1>2, ListingStays
<1>18. CASE reader = "ntquery" /\ j = Len(b)
  <2>1. ParseInfo(r) /\ r.next = 0
    BY <1>5, <1>12, <1>18
  <2>2. at' = at /\ phase' = "call" /\ parsed' = parsed
    BY <1>12, <2>1 DEF ParseInfo
  <2>3. k = taken
    BY <1>3, <1>6, <1>7, <1>11, <1>18
  <2>4. ReportedUpto(taken)'
    <3>1. taken' = k
      BY <1>2, <2>3 DEF kernelVars
    <3> QED BY <1>15, <3>1, Zenon DEF ReportedUpto
  <2>5. Ranges'
    BY <1>1, <1>2, <2>2, Zenon DEF Ranges, kernelVars
  <2> QED BY <1>2, <1>17, <2>2, <2>4, <2>5 DEF DirInv, kernelVars
<1>19. CASE ~ (reader = "ntquery" /\ j = Len(b))
  <2>1. RecordLen(reader, b[j]) \in Nat \ {0}
    <3>1. j \in 1 .. Len(b) /\ b[j] \in Entry
      BY <1>6, <1>10
    <3> QED BY <1>1, <3>1, RecordLength DEF Ranges
  <2>2. at' = StartOf(reader, b, j + 1) /\ phase' = "parse"
    BY <1>2, <1>5, <1>12, <1>19, <2>1 DEF ParseDirent, ParseAttrs, ParseInfo
  <2>3. parsed' = IF reader = "bulk" THEN parsed + 1 ELSE parsed
    BY <1>5 DEF ParseDirent, ParseAttrs, ParseInfo
  <2>4. at' \in 0 .. BufSize[reader]
    <3>1. CASE reader # "ntquery"
      <4>1. Reach(reader, b, j) = at + RecordLen(reader, b[j])
        BY <1>8, <3>1 DEF Reach
      <4>2. at' = at + RecordLen(reader, b[j]) /\ at' <= BatchLen(reader, b)
        BY <1>12, <2>2, <4>1
      <4>3. PICK l, n \in Nat : l = BatchLen(reader, b) /\ n = BufSize[reader] /\ l <= n
        BY <1>1, <1>6, <1>8, <1>16, BatchShape DEF Ranges
      <4>4. at' \in Nat
        BY <1>12, <2>1, <4>2
      <4> QED BY <4>2, <4>3, <4>4
    <3>2. CASE reader = "ntquery"
      <4>1. j + 1 \in 1 .. Len(b)
        BY <1>6, <1>8, <1>10, <1>19, <3>2
      <4>2. /\ BatchLen(reader, b) \in Nat
            /\ StartOf(reader, b, j + 1) \in Nat
            /\ StartOf(reader, b, j + 1) < BatchLen(reader, b)
        BY <1>1, <1>6, <4>1, BatchShape DEF Ranges
      <4> QED BY <1>8, <1>16, <2>2, <4>2
    <3> QED BY <3>1, <3>2
  <2>5. parsed' \in 0 .. Len(listing)
    <3>1. CASE reader = "bulk"
      BY <1>1, <1>6, <1>7, <1>8, <1>10, <2>3, <3>1
    <3>2. CASE reader # "bulk"
      BY <1>1, <2>3, <3>2 DEF Ranges
    <3> QED BY <3>1, <3>2
  <2>6. Ranges'
    BY <1>1, <1>2, <2>2, <2>4, <2>5, Zenon DEF Ranges, kernelVars
  <2>7. Batch(from)' = b /\ Lay(Batch(from), from)' = Lay(b, from)
    BY <1>2, <1>6, BatchKept DEF kernelVars
  <2>8. BatchAt(from, j + 1)'
    <3>1. /\ from \in 0 .. taken' - 1 /\ j + 1 \in 1 .. Len(b) + 1
          /\ reader = "ntquery" => j + 1 <= Len(b)
          /\ (j + 1) - 1 = j /\ from + (j + 1) - 1 = k
      BY <1>2, <1>3, <1>6, <1>7, <1>8, <1>10, <1>11, <1>19 DEF kernelVars
    <3>2. reader = "bulk" => parsed' = (j + 1) - 1
      BY <1>8, <1>10, <2>3
    <3>3. /\ reader # "readdir"
          /\ Lay(b, from) \subseteq buf
          /\ \A x \in buf \ Lay(b, from) : x.at >= BatchLen(reader, b)
      BY <1>4, <1>6 DEF BatchAt
    <3> QED BY <1>2, <1>8, <1>15, <2>2, <2>7, <3>1, <3>2, <3>3 DEF BatchAt, kernelVars
  <2>9. \E f \in 0 .. taken' - 1 : \E i \in 1 .. taken' - f + 1 : BatchAt(f, i)'
    <3>1. from \in 0 .. taken' - 1 /\ j + 1 \in 1 .. taken' - from + 1
      BY <1>2, <1>3, <1>7, <1>10 DEF kernelVars
    <3> QED BY <2>8, <3>1
  <2> QED BY <1>2, <1>17, <2>2, <2>6, <2>9 DEF DirInv, kernelVars
<1> QED BY <1>18, <1>19

\* The loop over the records ends only when none of them is left.
LEMMA BatchDoneStep ==
  ASSUME DirInv, BatchDone
  PROVE  DirInv'
<1>1. Ranges /\ ListingKept /\ listing \in Seq(Entry) /\ taken \in 0 .. Len(listing)
  BY ListedEntries DEF DirInv, Ranges
<1>2. /\ phase = "parse" /\ phase' = "call"
      /\ UNCHANGED <<reader, listing, kernelVars, parseVars, errno, failed, reported>>
  BY DEF BatchDone
<1>3. PICK from \in 0 .. taken - 1 : \E j \in 1 .. taken - from + 1 : BatchAt(from, j)
  BY <1>2 DEF DirInv
<1>4. PICK j \in 1 .. taken - from + 1 : BatchAt(from, j)
  BY <1>3
<1>5. PICK b \in Seq(Entry) : b = Batch(from) /\ b # <<>> /\ Len(b) = taken - from
  BY <1>1, <1>3, BatchParts
<1>6. /\ reader # "readdir"
      /\ reader = "getdents64" => filled = BatchLen(reader, b)
      /\ reader = "bulk" => filled = Len(b) /\ parsed = j - 1
      /\ reader = "ntquery" => j <= Len(b)
      /\ BatchLen(reader, b) <= BufSize[reader]
      /\ at = StartOf(reader, b, j)
      /\ ReportedUpto(from + j - 1)
  BY <1>4, <1>5 DEF BatchAt
<1>7. j = taken - from + 1
  <2> SUFFICES ASSUME j \in 1 .. taken - from PROVE FALSE
    BY <1>1, <1>3, <1>4
  <2>1. j \in 1 .. Len(b) /\ b[j] \in Entry
    BY <1>5
  <2>2. /\ at \in Nat
        /\ Reach(reader, b, j) <= BatchLen(reader, b)
        /\ \E r \in buf : r.at = at /\ r.e = b[j]
    BY <1>1, <1>3, <1>4, <1>5, RecordAt DEF Ranges
  <2>3. PICK r \in buf : r.at = at /\ r.e = b[j]
    BY <2>2
  <2>4. PICK l \in Nat : /\ l = RecordLen(reader, b[j])
                         /\ reader = "getdents64" => l >= DirentHeader
    <3>1. /\ RecordLen(reader, b[j]) \in Nat \ {0}
          /\ reader = "getdents64" => RecordLen(reader, b[j]) >= DirentHeader
      BY <1>1, <2>1, RecordLength DEF Ranges
    <3> QED BY <3>1
  <2>5. PICK room \in Nat : room = BufSize[reader] /\ room % 8 = 0
    BY <1>1, BufAssumption DEF Ranges
  <2>6. PICK stop \in Nat : stop = BatchLen(reader, b) /\ stop <= room
    BY <1>1, <1>5, <1>6, <2>5, BatchShape DEF Ranges
  <2>7. PICK a \in Nat : a = at
    BY <2>2
  <2>8. reader # "ntquery" => a + l <= stop
    BY <1>6, <2>2, <2>4, <2>6, <2>7 DEF Reach
  <2>9. CASE reader = "getdents64"
    <3>1. DirentAt(r)
      BY <1>6, <2>3, <2>4, <2>6, <2>7, <2>8, <2>9 DEF DirentAt, DirentHeader
    <3> QED BY <2>9, <3>1 DEF BatchDone
  <2>10. CASE reader = "bulk"
    <3>1. parsed < filled
      BY <1>6, <2>1, <2>10
    <3>2. AttrsAt(r)
      BY <1>6, <2>3, <2>4, <2>5, <2>6, <2>7, <2>8, <2>10, <3>1 DEF AttrsAt
    <3> QED BY <2>10, <3>2 DEF BatchDone
  <2>11. CASE reader = "ntquery"
    <3>1. PICK n \in Nat : n = 2 * Len(b[j].name) /\ n >= 2
      <4>1. b[j].name \in Seq(Chars) /\ b[j].name # <<>>
        BY <2>1, EntryParts
      <4>2. PICK m \in Nat : m = Len(b[j].name) /\ m >= 1
        BY <4>1
      <4>3. m + m \in Nat /\ m + m >= 2 /\ m + m = 2 * m
        BY <4>2
      <4> QED BY <4>2, <4>3
    <3>2. a + 64 + n <= stop
      <4>1. Reach(reader, b, j) = a + (64 + n)
        BY <1>6, <2>7, <2>11, <3>1 DEF Reach, InfoNameAt
      <4>2. a + (64 + n) <= stop
        BY <2>2, <2>6, <4>1
      <4>3. a + (64 + n) = a + 64 + n
        OBVIOUS
      <4> QED BY <4>2, <4>3
    <3>3. a % 8 = 0
      BY <1>1, <1>5, <1>6, <2>1, <2>7, <2>11, BatchShape DEF Ranges
    <3>4. a + 64 + n <= room
      BY <2>6, <3>2
    <3>5. a + 72 <= room
      <4>1. PICK p, q \in Nat : a = 8 * p /\ room = 8 * q
        BY <2>5, <3>3
      <4>2. n >= 2
        BY <3>1
      <4>3. a + 66 <= room
        BY <3>4, <4>2
      <4>4. p + 9 <= q
        BY <4>1, <4>3
      <4> QED BY <4>1, <4>4
    <3>6. n = 2 * Len(r.e.name)
      BY <2>3, <3>1
    <3>7. InfoAt(r)
      BY <2>3, <2>5, <2>7, <3>4, <3>5, <3>6 DEF InfoAt, InfoSize, InfoNameAt
    <3> QED BY <2>11, <3>7 DEF BatchDone
  <2> QED BY <1>1, <1>6, <2>9, <2>10, <2>11 DEF Ranges, Readers
<1>8. ReportedUpto(taken)'
  <2>1. PICK t \in Nat : t = taken
    BY <1>1
  <2>2. from + j - 1 = t
    BY <1>3, <1>7, <2>1
  <2>3. ReportedUpto(t)'
    BY <1>2, <1>6, <2>2, ReportsKept
  <2>4. taken' = t
    BY <1>2, <2>1 DEF kernelVars
  <2> QED BY <2>3, <2>4, Zenon DEF ReportedUpto
<1>9. Ranges'
  BY <1>1, <1>2, Zenon DEF Ranges, kernelVars, parseVars
<1> QED BY <1>1, <1>2, <1>8, <1>9, ListingStays DEF DirInv, kernelVars

\* The other steps move no record.
LEMMA PhaseStep ==
  ASSUME DirInv, phase \in {"open", "call"}, phase' \in {"call", "ok", "err"},
         UNCHANGED <<reader, listing, kernelVars, parseVars, reported>>, errno' \in BOOLEAN,
         failed' \in BOOLEAN, failed' <=> phase' = "err",
         phase' = "ok" => taken = Len(listing)
  PROVE  DirInv'
<1>1. Ranges /\ ListingKept /\ ReportedUpto(taken)
  BY DEF DirInv
<1>2. PICK t : t = taken /\ taken' = t
  BY DEF kernelVars
<1>3. ReportedUpto(t)'
  BY <1>1, <1>2, ReportsKept
<1>4. ReportedUpto(taken)'
  BY <1>2, <1>3, Zenon DEF ReportedUpto
<1>5. Ranges'
  BY <1>1, Zenon DEF Ranges, kernelVars, parseVars
<1> QED BY <1>1, <1>4, <1>5, ListingStays DEF DirInv, kernelVars

\* readdir reports one entry at a time.
LEMMA ReadDirStep ==
  ASSUME DirInv, ReadDirEntry
  PROVE  DirInv'
<1>1. Ranges /\ ListingKept /\ listing \in Seq(Entry) /\ taken \in 0 .. Len(listing)
  BY ListedEntries DEF DirInv, Ranges
<1>2. /\ phase = "call" /\ reader = "readdir" /\ taken < Len(listing)
      /\ errno' \in BOOLEAN
      /\ UNCHANGED <<reader, listing, phase, first, buf, filled, parseVars, failed>>
  BY DEF ReadDirEntry, ErrnoBefore
<1>3. PICK k \in 1 .. Len(listing) : k = taken + 1 /\ k - 1 = taken /\ taken' = k
  BY <1>1, <1>2 DEF ReadDirEntry
<1>4. ReportedUpto(k - 1)
  BY <1>2, <1>3 DEF DirInv
<1>5. reported' = IF Shown(k) THEN Append(reported, Reading(k)) ELSE reported
  <2>1. reported' = IF listing[k].name \in DotNames THEN reported
                    ELSE Append(reported, [name |-> listing[k].name, kind |-> DType(listing[k]),
                                           size |-> NoSize, of |-> k])
    BY <1>3 DEF ReadDirEntry, Report
  <2>2. NameRead(k) = listing[k].name /\ NameRead(k) # <<>>
    BY <1>1, <1>2, ShownNames DEF Ranges
  <2>3. Reading(k) = [name |-> listing[k].name, kind |-> DType(listing[k]),
                      size |-> NoSize, of |-> k]
    BY <1>2, <2>2 DEF Reading
  <2> QED BY <2>1, <2>2, <2>3 DEF Shown
<1>6. ReportedUpto(k)'
  BY <1>1, <1>2, <1>4, <1>5, OneMore
<1>7. ReportedUpto(taken)'
  BY <1>3, <1>6, Zenon DEF ReportedUpto
<1>8. Ranges'
  <2>1. taken' \in 0 .. Len(listing)
    BY <1>3
  <2> QED BY <1>1, <1>2, <2>1, Zenon DEF Ranges, parseVars
<1> QED BY <1>1, <1>2, <1>7, <1>8, ListingStays DEF DirInv

LEMMA NothingMoves ==
  ASSUME DirInv, UNCHANGED vars
  PROVE  DirInv'
<1>1. UNCHANGED <<reader, listing, reported, taken, phase, first, failed>>
  BY DEF vars, kernelVars
<1>2. Ranges' /\ ListingKept'
  BY <1>1, ListingStays, Zenon DEF DirInv, Ranges, vars, kernelVars, parseVars
<1>3. CASE phase = "parse"
  <2>1. PICK from \in 0 .. taken - 1 : \E j \in 1 .. taken - from + 1 : BatchAt(from, j)
    BY <1>3 DEF DirInv
  <2>2. PICK j \in 1 .. taken - from + 1 : BatchAt(from, j)
    BY <2>1
  <2>3. ReportedUpto(from + j - 1)'
    BY <1>1, <2>2, ReportsKept DEF BatchAt
  <2>4. Batch(from)' = Batch(from) /\ Lay(Batch(from), from)' = Lay(Batch(from), from)
    BY <1>1, BatchKept
  <2>5. BatchAt(from, j)'
    BY <2>2, <2>3, <2>4, Zenon DEF BatchAt, vars, kernelVars, parseVars
  <2> QED BY <1>1, <1>2, <1>3, <2>5 DEF DirInv
<1>4. CASE phase # "parse"
  <2>1. PICK t : t = taken /\ taken' = t
    BY <1>1
  <2>2. ReportedUpto(t)
    BY <1>4, <2>1 DEF DirInv
  <2>3. ReportedUpto(t)'
    BY <1>1, <2>2, ReportsKept
  <2>4. ReportedUpto(taken)'
    BY <2>1, <2>3, Zenon DEF ReportedUpto
  <2> QED BY <1>1, <1>2, <1>4, <2>4 DEF DirInv
<1> QED BY <1>3, <1>4

LEMMA NextInv == DirInv /\ [Next]_vars => DirInv'
<1> SUFFICES ASSUME DirInv, [Next]_vars PROVE DirInv'
  OBVIOUS
<1>1. /\ errno \in BOOLEAN /\ failed \in BOOLEAN
      /\ failed <=> phase = "err"
  BY DEF DirInv, Ranges
<1>2. CASE Open
  BY <1>1, <1>2, PhaseStep DEF Open
<1>3. CASE CallFails
  BY <1>1, <1>3, PhaseStep DEF CallFails
<1>4. ASSUME NEW n \in 1 .. Len(listing), GetDents(n) \/ GetAttrListBulk(n) \/ NtQuery(n)
      PROVE  DirInv'
  BY <1>4, FillStep
<1>5. CASE NoMoreEntries
  BY <1>1, <1>5, PhaseStep DEF NoMoreEntries
<1>6. CASE ParseRecord
  BY <1>6, ParseStep
<1>7. CASE BatchDone
  BY <1>7, BatchDoneStep
<1>8. CASE ReadDirEntry
  BY <1>8, ReadDirStep
<1>9. CASE ReadDirNull
  BY <1>1, <1>9, PhaseStep DEF ReadDirNull, ErrnoBefore
<1>10. CASE UNCHANGED vars
  BY <1>10, NothingMoves
<1> QED BY <1>2, <1>3, <1>4, <1>5, <1>6, <1>7, <1>8, <1>9, <1>10 DEF Next, Finished

LEMMA Invariance == Spec => []DirInv
BY InitInv, NextInv, PTL DEF Spec

-----------------------------------------------------------------------------
(* What is reported                                                        *)

\* In every phase some first entries have been read.
LEMMA SomeUpto == DirInv => \E n \in 0 .. Len(listing) : ReportedUpto(n)
<1> SUFFICES ASSUME DirInv PROVE \E n : ReportedUpto(n)
  BY DEF ReportedUpto
<1>1. CASE phase = "parse"
  BY <1>1 DEF DirInv, BatchAt
<1>2. CASE phase # "parse"
  BY <1>2 DEF DirInv
<1> QED BY <1>1, <1>2

\* Each report is the reading of a listed entry whose name is not . or .. .
LEMMA WhatIsReported ==
  ASSUME DirInv
  PROVE  \A i \in DOMAIN reported :
           /\ reported[i].of \in DOMAIN listing
           /\ reported[i] = Reading(reported[i].of)
           /\ Shown(reported[i].of)
           /\ listing[reported[i].of].name \notin DotNames
<1>1. PICK n \in 0 .. Len(listing) : ReportedUpto(n)
  BY SomeUpto
<1>2. reader \in Readers /\ listing \in Seq(Entry)
  BY ListedEntries DEF DirInv, Ranges
<1> QED BY <1>1, <1>2, Reports, ShownNames

\* Offsets stay in the buffer, counts within the listing, and what is reported has an
\* EntryKind and a size or None: whatever the directories, the batches and the buffers
\* (linux.rs, macos.rs, windows.rs).
THEOREM ReaderTypes == Spec => []TypeOK
<1>1. DirInv => TypeOK
  <2> SUFFICES ASSUME DirInv PROVE TypeOK
    OBVIOUS
  <2>1. Ranges /\ listing \in Seq(Entry)
    BY ListedEntries DEF DirInv, Ranges
  <2>2. ASSUME NEW k \in DOMAIN reported
        PROVE  /\ reported[k].kind \in {"File", "Dir", "Symlink", "Other"}
               /\ reported[k].size \in Nat \cup {NoSize}
    BY <2>1, WhatIsReported, ReadingType DEF Ranges, Kinds
  <2> QED BY <2>1, <2>2, Zenon DEF TypeOK, Ranges
<1> QED BY <1>1, Invariance, PTL

\* read_dir returns Err exactly when the kernel has failed.
THEOREM ErrorsStayReal == Spec => []ErrorsAreReal
<1>1. DirInv => ErrorsAreReal
  BY DEF DirInv, ErrorsAreReal
<1> QED BY <1>1, Invariance, PTL

\* On Linux, when the kernel does not give the kind of an entry, what the reader takes for
\* its name, and gives to statx, is not the name of another one.
NamesApart ==
  "linux" \in Systems =>
    \A dir \in Dirs["getdents64"] : \A k, i \in DOMAIN dir :
      "type" \notin dir[k].gives => DirentName(dir[k]) # dir[i].name

\* No kind and no size is that of another attribute or of another entry: on macOS and
\* Windows for all names, on Linux when statx by the name that was read cannot find
\* another entry.
THEOREM ReportsStayTrue ==
  ASSUME NamesApart
  PROVE  Spec => []ReportsTrue
<1>1. DirInv => ReportsTrue
  <2> SUFFICES ASSUME DirInv, NEW i \in DOMAIN reported
               PROVE  LET r == reported[i]
                          e == listing[r.of]
                      IN  /\ r.kind = e.kind \/ ("type" \notin e.gives /\ r.kind = "Other")
                          /\ r.size = NoSize \/ ("size" \in e.gives /\ r.size = e.size)
                          /\ reader = "bulk" /\ "size" \in e.gives => r.size = e.size
    BY DEF ReportsTrue
  <2>1. reader \in Readers /\ listing \in Seq(Entry) /\ ListingKept
    BY ListedEntries DEF DirInv, Ranges
  <2>2. PICK k \in DOMAIN listing : /\ k = reported[i].of /\ reported[i] = Reading(k)
                                    /\ Shown(k) /\ listing[k].name \notin DotNames
    BY WhatIsReported
  <2>3. PICK e \in Entry : e = listing[k]
    BY <2>1
  <2>4. CASE reader = "getdents64"
    <3>1. Reading(k).kind = DirentKind(listing, e) /\ Reading(k).size = NoSize
      BY <2>3, <2>4 DEF Reading
    <3>2. ASSUME "type" \notin e.gives PROVE DirentKind(listing, e) = "Other"
      <4>1. PICK name : name = DirentName(e)
        OBVIOUS
      <4>2. name \notin DotNames
        BY <2>2, <2>3, <2>4, <4>1 DEF Shown, NameRead
      <4>3. PICK dir \in Dirs["getdents64"] : \A l \in DOMAIN listing :
              listing[l].name \in DotNames \/ \E h \in DOMAIN dir : listing[l] = dir[h]
        BY <2>1, <2>4, ListedEntries
      <4>4. ASSUME NEW l \in DOMAIN listing PROVE listing[l].name # name
        <5>1. CASE listing[l].name \in DotNames
          BY <4>2, <5>1
        <5>2. CASE listing[l].name \notin DotNames
          <6>1. PICK g, h \in DOMAIN dir : e = dir[g] /\ listing[l] = dir[h]
            BY <2>2, <2>3, <4>3, <5>2
          <6>2. "linux" \in Systems
            BY <2>1, <2>4 DEF ListingKept
          <6> QED BY <3>2, <4>1, <4>3, <6>1, <6>2 DEF NamesApart
        <5> QED BY <5>1, <5>2
      <4>5. StatxKind(listing, name) = "Other"
        BY <2>1, <4>4, StatxFinds
      <4> QED BY <3>2, <4>1, <4>5 DEF DirentKind
    <3> QED BY <2>2, <2>3, <2>4, <3>1, <3>2 DEF DirentKind
  <2>5. CASE reader = "bulk"
    <3>1. Reading(k).kind = AttrKind(e) /\ Reading(k).size = AttrSize(e)
      BY <2>3, <2>5 DEF Reading
    <3> QED BY <2>2, <2>3, <2>5, <3>1, AttrsAreTrue
  <2>6. CASE reader = "readdir"
    <3>1. Reading(k).kind = DType(e) /\ Reading(k).size = NoSize
      BY <2>3, <2>6 DEF Reading
    <3> QED BY <2>2, <2>3, <2>6, <3>1 DEF DType
  <2>7. CASE reader = "ntquery"
    <3>1. Reading(k).kind = InfoKind(e) /\ Reading(k).size = e.size
      BY <2>3, <2>7 DEF Reading
    <3>2. e.gives = {"type", "size"} /\ e.kind # "Other"
      <4>1. PICK dir \in Dirs[reader] : \E h \in DOMAIN dir : e = dir[h]
        BY <2>1, <2>2, <2>3, ListedEntries
      <4> QED BY <2>1, <2>7, <4>1, EntryAssumption
    <3> QED BY <2>2, <2>3, <2>7, <3>1, <3>2, InfoKindTrue
  <2> QED BY <2>1, <2>4, <2>5, <2>6, <2>7 DEF Readers
<1> QED BY <1>1, Invariance, PTL

-----------------------------------------------------------------------------
(* The contract of read_dir                                                *)

\* The contract for the entries that the reader finds a name for.
Readable == INSTANCE ReadDir WITH
  children <- {k \in DOMAIN listing : Shown(k)},
  reported <- [k \in DOMAIN reported |-> reported[k].of],
  outcome  <- IF Returned THEN phase ELSE "none"

\* The reports are entries with a name, each at most once.
ReportsApart ==
  /\ \A i \in DOMAIN reported : reported[i].of \in DOMAIN listing /\ Shown(reported[i].of)
  /\ \A i, j \in DOMAIN reported : reported[i].of = reported[j].of => i = j

LEMMA Apart == DirInv => ReportsApart
<1> SUFFICES ASSUME DirInv PROVE ReportsApart
  OBVIOUS
<1>1. \E n \in 0 .. Len(listing) : ReportedUpto(n)
  BY SomeUpto
<1> QED BY <1>1, WhatIsReported DEF ReportsApart, ReportedUpto

LEMMA ApartNext == DirInv' => ReportsApart'
BY Apart, PTL

\* Whoever has read all entries has reported all with a name.
LEMMA AllReported ==
  ASSUME DirInv, phase # "parse", taken = Len(listing), NEW k \in DOMAIN listing, Shown(k)
  PROVE  \E i \in DOMAIN reported : reported[i].of = k
<1>1. ReportedUpto(Len(listing)) /\ listing \in Seq(Entry)
  BY ListedEntries DEF DirInv, Ranges
<1>2. k \in 1 .. Len(listing)
  BY <1>1
<1> QED BY <1>1, <1>2 DEF ReportedUpto

\* What a step does to the reports and to the result.
LEMMA StepKinds ==
  ASSUME DirInv, [Next]_vars
  PROVE  /\ listing' = listing /\ reader' = reader
         /\ \/ UNCHANGED reported /\ (Returned' <=> Returned) /\ (Returned => phase' = phase)
            \/ ~ Returned /\ ~ Returned' /\ \E x : reported' = Append(reported, x)
            \/ /\ ~ Returned /\ phase' = "ok" /\ UNCHANGED reported
               /\ phase # "parse" /\ taken = Len(listing)
            \/ ~ Returned /\ phase' = "err" /\ UNCHANGED reported
<1>1. CASE Open
  BY <1>1 DEF Open, Returned
<1>2. CASE CallFails
  BY <1>2 DEF CallFails, Returned
<1>3. ASSUME NEW n \in 1 .. Len(listing), GetDents(n) \/ GetAttrListBulk(n) \/ NtQuery(n)
      PROVE  UNCHANGED <<listing, reader, reported>> /\ ~ Returned /\ ~ Returned'
  BY <1>3 DEF GetDents, GetAttrListBulk, NtQuery, Fill, Returned
<1>4. CASE NoMoreEntries
  BY <1>4 DEF NoMoreEntries, Returned
<1>5. CASE ParseRecord
  <2>1. phase = "parse" /\ phase' \in {"parse", "call"} /\ UNCHANGED <<listing, reader>>
    BY <1>5 DEF ParseRecord, ParseDirent, ParseAttrs, ParseInfo
  <2>2. reported' = reported \/ \E x : reported' = Append(reported, x)
    <3>1. PICK r \in buf : ParseDirent(r) \/ ParseAttrs(r) \/ ParseInfo(r)
      BY <1>5 DEF ParseRecord
    <3>2. CASE ParseDirent(r)
      BY <3>2 DEF ParseDirent, Report
    <3>3. CASE ParseAttrs(r)
      BY <3>3 DEF ParseAttrs, Report
    <3>4. CASE ParseInfo(r)
      BY <3>4 DEF ParseInfo, Report
    <3> QED BY <3>1, <3>2, <3>3, <3>4
  <2> QED BY <2>1, <2>2 DEF Returned
<1>6. CASE BatchDone
  BY <1>6 DEF BatchDone, Returned
<1>7. CASE ReadDirEntry
  BY <1>7 DEF ReadDirEntry, Report, Returned
<1>8. CASE ReadDirNull
  BY <1>8 DEF ReadDirNull, ErrnoBefore, Returned
<1>9. CASE UNCHANGED vars
  BY <1>9 DEF vars, Returned
<1>10. \/ Open \/ CallFails \/ NoMoreEntries \/ ParseRecord \/ BatchDone
       \/ ReadDirEntry \/ ReadDirNull \/ UNCHANGED vars
       \/ \E n \in 1 .. Len(listing) : GetDents(n) \/ GetAttrListBulk(n) \/ NtQuery(n)
  BY DEF Next, Finished
<1> QED BY <1>1, <1>2, <1>3, <1>4, <1>5, <1>6, <1>7, <1>8, <1>9, <1>10

LEMMA ReadableStep ==
  ASSUME DirInv, DirInv', [Next]_vars
  PROVE  [Readable!Next]_(Readable!vars)
<1> DEFINE C == {k \in DOMAIN listing : Shown(k)}
           R == [k \in DOMAIN reported |-> reported[k].of]
           O == IF Returned THEN phase ELSE "none"
<1>1. listing' = listing /\ C' = C
  BY StepKinds DEF Shown, NameRead
<1>2. CASE UNCHANGED reported /\ (Returned' <=> Returned) /\ (Returned => phase' = phase)
  <2>1. R' = R /\ O' = O
    BY <1>2
  <2> QED BY <1>1, <2>1 DEF Readable!vars
<1>3. CASE ~ Returned /\ ~ Returned' /\ \E x : reported' = Append(reported, x)
  <2>1. PICK x : reported' = Append(reported, x)
    BY <1>3
  <2>2. \E S : reported \in Seq(S)
    BY SomeUpto DEF ReportedUpto
  <2>3. PICK n \in Nat : /\ n = Len(reported) /\ DOMAIN reported = 1 .. n
                         /\ DOMAIN reported' = 1 .. n + 1
                         /\ \A i \in 1 .. n : reported'[i] = reported[i]
                         /\ reported'[n + 1] = x
    <3>1. PICK S : reported \in Seq(S)
      BY <2>2
    <3>2. reported \in Seq(S \cup {x}) /\ x \in S \cup {x}
      BY <3>1
    <3> QED BY <2>1, <3>2, AppendProperties
  <2>4. ReportsApart'
    BY ApartNext
  <2>5. x.of \in C /\ \A i \in 1 .. n : reported[i].of # x.of
    BY <1>1, <2>3, <2>4 DEF ReportsApart
  <2>6. R' = Append(R, x.of)
    <3>1. R \in [1 .. n -> {reported[i].of : i \in 1 .. n}] /\ Len(R) = n
      BY <2>3
    <3> QED BY <2>3, <3>1
  <2>7. O = "none" /\ O' = "none"
    BY <1>3
  <2>8. \A i \in DOMAIN R : R[i] # x.of
    BY <2>3, <2>5
  <2>9. Readable!Report(x.of)
    BY <1>1, <2>6, <2>7, <2>8 DEF Readable!Report
  <2> QED BY <2>5, <2>9 DEF Readable!Next
<1>4. CASE /\ ~ Returned /\ phase' = "ok" /\ UNCHANGED reported
           /\ phase # "parse" /\ taken = Len(listing)
  <2>1. \A k \in C : \E i \in DOMAIN R : R[i] = k
    BY <1>4, AllReported
  <2>2. O = "none" /\ O' = "ok" /\ R' = R
    BY <1>4 DEF Returned
  <2>3. Readable!Succeed
    BY <1>1, <2>1, <2>2 DEF Readable!Succeed
  <2> QED BY <2>3 DEF Readable!Next
<1>5. CASE ~ Returned /\ phase' = "err" /\ UNCHANGED reported
  <2>1. O = "none" /\ O' = "err" /\ R' = R
    BY <1>5 DEF Returned
  <2>2. Readable!Fail
    BY <1>1, <2>1 DEF Readable!Fail
  <2> QED BY <2>2 DEF Readable!Next
<1> QED BY <1>2, <1>3, <1>4, <1>5, StepKinds

\* Off Linux the reader finds the name of every entry.
AllNamed == {k \in DOMAIN listing : Shown(k)} = {k \in DOMAIN listing : listing[k].name \notin DotNames}

OffLinux == reader # "getdents64"

LEMMA AllReadable == DirInv /\ OffLinux => AllNamed
BY ListedEntries, ShownNames DEF DirInv, Ranges, Shown, AllNamed, OffLinux

LEMMA AllReadableNext == DirInv' /\ OffLinux' => AllNamed'
BY AllReadable, PTL

\* Every reader, that of Linux included, reports the entries it finds a name for one by
\* one, none twice, and Ok means that none of them is missing (walker.rs 37-43): what
\* linux.rs loses, it loses by cutting names, and in no other way.
THEOREM ReadableReported == Spec => Readable!Init /\ [][Readable!Next]_(Readable!vars)
<1>1. Init => Readable!Init
  BY DEF Init, Readable!Init, Returned
<1>2. DirInv /\ DirInv' /\ [Next]_vars => [Readable!Next]_(Readable!vars)
  BY ReadableStep
<1> QED BY <1>1, <1>2, Invariance, PTL DEF Spec

\* Every read_dir on macOS and Windows is one the pool can rely on (walker.rs 37-43): it
\* reports children one by one, none twice, and Ok means that none is missing.
THEOREM ContractKept ==
  Spec /\ reader # "getdents64" => Contract!Init /\ [][Contract!Next]_(Contract!vars)
<1>1. Init => Contract!Init
  BY DEF Init, Contract!Init, Returned
<1>2. reader # "getdents64" /\ DirInv /\ [Next]_vars => (reader # "getdents64")'
  BY StepKinds
<1>3. DirInv /\ DirInv' /\ reader # "getdents64" /\ [Next]_vars => [Contract!Next]_(Contract!vars)
  <2> SUFFICES ASSUME DirInv, DirInv', reader # "getdents64", [Next]_vars
               PROVE  [Contract!Next]_(Contract!vars)
    OBVIOUS
  <2> DEFINE C == {k \in DOMAIN listing : Shown(k)}
             D == {k \in DOMAIN listing : listing[k].name \notin DotNames}
             R == [k \in DOMAIN reported |-> reported[k].of]
             O == IF Returned THEN phase ELSE "none"
  <2>1. C = D /\ C' = D'
    BY AllReadable, AllReadableNext, StepKinds DEF AllNamed, OffLinux
  <2>2. [Readable!Next]_(Readable!vars)
    BY ReadableStep
  <2>3. CASE UNCHANGED Readable!vars
    <3>1. C' = C /\ R' = R /\ O' = O
      BY <2>3 DEF Readable!vars
    <3> QED BY <2>1, <3>1 DEF Contract!vars
  <2>4. ASSUME NEW e \in C, Readable!Report(e) PROVE Contract!Next
    <3>1. Contract!Report(e) /\ e \in D
      BY <2>1, <2>4 DEF Readable!Report, Contract!Report
    <3> QED BY <3>1 DEF Contract!Next
  <2>5. CASE Readable!Succeed
    <3>1. Contract!Succeed
      BY <2>1, <2>5 DEF Readable!Succeed, Contract!Succeed
    <3> QED BY <3>1 DEF Contract!Next
  <2>6. CASE Readable!Fail
    <3>1. Contract!Fail
      BY <2>1, <2>6 DEF Readable!Fail, Contract!Fail
    <3> QED BY <3>1 DEF Contract!Next
  <2> QED BY <2>2, <2>3, <2>4, <2>5, <2>6 DEF Readable!Next
<1> QED BY <1>1, <1>2, <1>3, Invariance, PTL DEF Spec

=============================================================================
