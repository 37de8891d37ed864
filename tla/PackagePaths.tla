---------------------------- MODULE PackagePaths ----------------------------
(***************************************************************************)
(* How paths and specifiers of one installed package are written in        *)
(* Resolver and PackageEntries: as sequences of names, an extension being  *)
(* a name of its own.  <<"/", "lib", "a", ".js">> is the file lib/a.js of  *)
(* the package, <<"..", "a">> the specifier '../a', <<"other", "sub">> the *)
(* specifier 'other/sub'.                                                  *)
(***************************************************************************)
EXTENDS Naturals, Sequences, SequencesExt

Extensions == {".js", ".mjs", ".cjs"}
Root == <<"/">>                  \* the package's directory
EmptyShim == <<"/empty.js">>     \* the module that stands for none
Self == "pkg"                    \* the package's own name
Nowhere == <<>>                  \* no file, no value
Off == <<"false">>               \* `false` in package.json

IsExtension(name) == name \in Extensions
Absolute(spec) == spec # Nowhere /\ spec[1] \in {"/", "/empty.js"}
Relative(spec) == spec # Nowhere /\ spec[1] \in {".", ".."}

\* A path as String.prototype.split('/') has it: where its last part begins.
LastPart(path) == SelectLastInSeq(path, LAMBDA name : ~IsExtension(name))
Dirname(path) == SubSeq(path, 1, LastPart(path) - 1)

\* Alternatives tried in order: the first that is somewhere.
First(alternatives) ==
  LET found == SelectSeq(alternatives, LAMBDA a : a # Nowhere)
  IN IF found = <<>> THEN Nowhere ELSE found[1]

\* A pattern's '*' stands for the rest of a path once what is before and
\* after it is taken away; Nowhere when they differ.
Captured(pattern, path) ==
  LET at == SelectInSeq(pattern, LAMBDA name : name = "*")
      after == Len(pattern) - at
      run == SubSeq(path, at, Len(path) - after)
  IN IF /\ at # 0 /\ Len(path) >= Len(pattern)
        /\ IsPrefix(SubSeq(pattern, 1, at - 1), path)
        /\ IsSuffix(SubSeq(pattern, at + 1, Len(pattern)), path)
     THEN run ELSE Nowhere

\* The same rest put for the '*' of a target.
Filled(target, run) ==
  LET at == SelectInSeq(target, LAMBDA name : name = "*")
  IN IF at = 0 THEN target
     ELSE SubSeq(target, 1, at - 1) \o run \o SubSeq(target, at + 1, Len(target))
=============================================================================
