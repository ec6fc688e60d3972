------------------------------ MODULE MCScanAll ------------------------------
(***************************************************************************)
(* Two small projects.  JUNK: the root holds "src" (1) and "bin" (2),      *)
(* which is junk of one label or another while project files lie beside    *)
(* it; "src" holds "node_modules" (1) and "target" (2), which is junk      *)
(* while Cargo.toml exists, with one file; "bin" and "node_modules" hold a *)
(* "node_modules".                                                         *)
(* WIDE: two directories, one with a file, one with two.                   *)
(***************************************************************************)
EXTENDS ScanAll

JunkPath == {<<>>, <<1>>, <<2>>, <<1, 1>>, <<1, 2>>, <<1, 1, 1>>, <<1, 2, 1>>, <<2, 1>>}

JunkName ==
  [p \in JunkPath |->
     CASE p = <<2>>                               -> "bin"
       [] p = <<1, 2>>                            -> "target"
       [] p \in {<<1, 1>>, <<1, 1, 1>>, <<2, 1>>} -> "node_modules"
       [] OTHER                                   -> "other"]

JunkKind == [p \in JunkPath |-> IF p = <<1, 2, 1>> THEN "File" ELSE "Dir"]

MCPatterns ==
  << [dir_name |-> "node_modules", ecosystem |-> "Node", marker |-> NoMarker],
     [dir_name |-> "target", ecosystem |-> "Rust", marker |-> "Cargo.toml"],
     [dir_name |-> "bin", ecosystem |-> ".NET", marker |-> "*.csproj"],
     [dir_name |-> "bin", ecosystem |-> ".NET (F#)", marker |-> "*.fsproj"] >>

MCGlobOf ==
  [m \in {"Cargo.toml", "*.csproj", "*.fsproj"} |->
     CASE m = "*.csproj" -> "csproj" [] m = "*.fsproj" -> "fsproj" [] OTHER -> NoMarker]

MCExtension ==
  [f \in {"Cargo.toml", "a.csproj", "b.csproj", "c.fsproj"} |->
     CASE f = "Cargo.toml" -> "toml" [] f = "c.fsproj" -> "fsproj" [] OTHER -> "csproj"]

JunkBeside == {<<<<1>>, "Cargo.toml">>} \cup ({<<>>} \X {"a.csproj", "b.csproj", "c.fsproj"})

JunkMarkers == {m \in JunkBeside : m[2] # "c.fsproj"}

WidePath == {<<>>, <<1>>, <<2>>, <<1, 1>>, <<2, 1>>, <<2, 2>>}

WideName == [p \in WidePath |-> "other"]

WideKind == [p \in WidePath |-> IF Len(p) = 2 THEN "File" ELSE "Dir"]

\* The file system: each directory yields the paths one component longer.
Tree(paths) == [d \in paths |-> {p \in paths : p # <<>> /\ Parent(p) = d}]

\* All is readable, or "src" cannot be opened.
JunkListings == {Tree(JunkPath), [Tree(JunkPath) EXCEPT ![<<1>>] = {}]}

WideListings == {Tree(WidePath)}

JunkSize == [p \in JunkPath |-> IF p = <<1, 2, 1>> THEN 3 ELSE 0]

WideSize == [p \in WidePath |-> 0]
=============================================================================
