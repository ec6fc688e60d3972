----------------------------- MODULE MCPipeline -----------------------------
(***************************************************************************)
(* Every scan of a small project: a set of paths closed under parents, a   *)
(* choice of junk among the directories it shows nothing below, and    *)
(* sizes among which some are equal.                                       *)
(***************************************************************************)
EXTENDS Pipeline

Universe == {<<1>>, <<2>>, <<1, 1>>, <<1, 2>>, <<1, 2, 1>>, <<2, 1>>}

Dirs == {<<1>>, <<2>>, <<1, 2>>, <<2, 1>>}

Files == Universe \ Dirs

Closed == {S \in SUBSET Universe : \A p \in S : Len(p) > 1 => Parent(p) \in S}

MayBeJunk(S) == {d \in S \cap Dirs : \A p \in S : ~IsStrictPrefix(d, p)}

Entries(S, junk, size) ==
  SortByPath(SetToSeq({[path |-> p, kind |-> IF p \in Dirs THEN "Dir" ELSE "File",
                        depth |-> Len(p), size |-> IF p \in Files THEN size[p] ELSE 0,
                        is_junk |-> p \in junk] : p \in S}))

Hits(junk) ==
  SortByPath(SetToSeq({[path |-> p, ecosystem |-> "any", size_bytes |-> 0] : p \in junk}))

MCScans ==
  UNION {UNION {{[hits |-> Hits(junk), tree |-> Entries(S, junk, size)] :
                   size \in {[f \in Files |-> 1], [f \in Files |-> Len(f)]}}
                : junk \in SUBSET MayBeJunk(S)}
         : S \in Closed}

MCJunkBytes == [Dirs -> {0, 2}] \cup {[d \in Dirs |-> d[1]]}
=============================================================================
