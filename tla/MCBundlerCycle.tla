--------------------------- MODULE MCBundlerCycle ---------------------------
(* Small instances of BundlerCycle for TLC. *)
EXTENDS BundlerCycle

\* Sources change in every way, package.json lists or drops the package an
\* import may need, the page changes.
CodeKinds == [f \in Files |-> IF f \in Sources THEN SourceKind
                              ELSE IF f = Pkg THEN {"bare", "lists"} ELSE {"good"}]
\* Sources break or import a package, package.json lists, bumps or drops it.
PkgKinds  == [f \in Files |-> IF f \in Sources THEN {"good", "syntax", "needs"}
                              ELSE IF f = Pkg THEN {"bare", "lists", "bumped"} ELSE {}]
\* Sources change to other good code.
GoodKinds == [f \in Files |-> IF f \in Sources THEN {"good"} ELSE {}]
\* The app that boots.
PlainApp == [f \in Files |-> IF f = Pkg THEN "bare" ELSE "good"]
=============================================================================
