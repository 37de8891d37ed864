------------------------------ MODULE Resolver ------------------------------
(***************************************************************************)
(* How the bundler resolves an import of an installed package, from        *)
(* outside or from a file of it: the resolver (resolver.ts and its utils)  *)
(* and the shortcut for relative imports that skips it                     *)
(* (cdnLayoutResolve.ts).                                                  *)
(*                                                                         *)
(* A package is a record:                                                  *)
(*   files    its files, but for package.json ones                         *)
(*   jsons    its package.json, and those of its directories               *)
(*   imports  the specifiers a file has                                    *)
(*   broken   the files the CDN cannot transform                           *)
(* and a package.json one with the fields `module`, `main`, `jsnext`,      *)
(* `browser` (a path, `false`, a map), `alias` and `exports`; a map is a   *)
(* sequence of pairs, in the order of the keys.                            *)
(***************************************************************************)
EXTENDS PackagePaths

Join(dir, spec) ==
  FoldLeft(LAMBDA path, name : IF name = "." THEN path
                               ELSE IF name = ".." THEN Dirname(path)
                               ELSE Append(path, name), dir, spec)

----------------------------------------------------------------------------
(* package.json *)

NormalizeAliasFilePath(spec, root, isFilePath) ==
  IF ~Absolute(spec) /\ (Relative(spec) \/ isFilePath) THEN Join(root, spec) ELSE spec

ExportsKeys == <<"browser", "development", "default", "require", "import">>

\* The path an `exports` value names here: the first condition it has decides,
\* the first usable member of a list.
RECURSIVE ExtractPathFromExport(_, _)
ExtractPathFromExport(value, root) ==
  CASE value.kind = "off"  -> Nowhere
    [] value.kind = "path" -> NormalizeAliasFilePath(value.of, root, TRUE)
    [] value.kind = "list" ->
         First([i \in DOMAIN value.of |-> ExtractPathFromExport(value.of[i], root)])
    [] value.kind = "conditions" ->
         LET has == SelectSeq(ExportsKeys, LAMBDA k : k \in DOMAIN value.of)
         IN IF has = <<>> THEN Nowhere ELSE ExtractPathFromExport(value.of[has[1]], root)

MainOf(json) == First(<<json.module, json.browser.main, json.main, json.jsnext>>)

\* What a map of the package.json of `root` replaces, and the same below a directory.
Pairs(map, root) ==
  [i \in DOMAIN map |->
     << NormalizeAliasFilePath(map[i][1], root, FALSE),
        NormalizeAliasFilePath(IF map[i][2] = Off THEN EmptyShim ELSE map[i][2], root, FALSE) >>]
Below(pairs) == [i \in DOMAIN pairs |-> <<Append(pairs[i][1], "*"), Append(pairs[i][2], "*")>>]

\* What `exports` exports. The conditions of an `exports` without entries, and the
\* members of a list, become keys as well, which name nothing anyone imports.
Exported(value, root) == First(<<ExtractPathFromExport(value, root), EmptyShim>>)
ExportedPairs(exports, root) ==
  CASE exports.kind = "path" -> << <<root, Exported(exports, root)>> >>
    [] exports.kind = "entries" ->
         [i \in DOMAIN exports.of |-> << NormalizeAliasFilePath(exports.of[i][1], root, TRUE),
                                         Exported(exports.of[i][2], root) >>]
    [] exports.kind = "conditions" ->
         SetToSeq({<<Append(root, name), Exported(exports.of[name], root)>> : name \in DOMAIN exports.of})
    [] exports.kind = "list" ->
         [i \in DOMAIN exports.of |-> <<Append(root, "item"), Exported(exports.of[i], root)>>]
    [] OTHER -> <<>>

\* The aliases of a package.json: where its root leads, what `browser` and
\* `alias` replace (`alias` also below a directory), what `exports` exports.
ProcessPackageJSON(json, root) ==
  (IF MainOf(json) = Nowhere THEN <<>> ELSE << <<root, NormalizeAliasFilePath(MainOf(json), root, TRUE)>> >>)
    \o (IF json.browser.off THEN << <<root, EmptyShim>> >> ELSE <<>>)
    \o Pairs(json.browser.map, root)
    \o Pairs(json.alias, root) \o Below(Pairs(json.alias, root))
    \o ExportedPairs(json.exports, root)

\* The aliases in force at a path: of the nearest package.json at or above it.
\* The app's own package.json has none.
Above(pkg, path) == {d \in DOMAIN pkg.jsons : /\ IsPrefix(d, path)
                                              /\ Len(d) < Len(path) => ~IsExtension(path[Len(d) + 1])}
Nearest(dirs) == CHOOSE d \in dirs : \A e \in dirs : Len(e) <= Len(d)
AliasesAt(pkg, path) ==
  IF Above(pkg, path) = {} THEN <<>>
  ELSE ProcessPackageJSON(pkg.jsons[Nearest(Above(pkg, path))], Nearest(Above(pkg, path)))

----------------------------------------------------------------------------
(* Aliases *)

AliasOf(aliases, path) ==
  LET at == SelectLastInSeq(aliases, LAMBDA pair : pair[1] = path)
  IN IF at = 0 THEN Nowhere ELSE aliases[at][2]

\* micromatch: a '*' stays within one part of the path.
OnePart(run) == run # <<>> /\ \A i \in DOMAIN run : IsExtension(run[i]) <=> i > 1

\* The first pattern that matches; one that only adds the extension the path
\* has already leaves it alone.
Match(aliases, pattern, run) == IF OnePart(run) THEN Filled(AliasOf(aliases, pattern), run) ELSE Nowhere
Matched(aliases, path) ==
  First([i \in DOMAIN aliases |-> Match(aliases, aliases[i][1], Captured(aliases[i][1], path))])
Extends(to, path) ==
  Len(to) > Len(path) /\ IsPrefix(path, to) /\ IsSuffix(SubSeq(to, Len(path) + 1, Len(to)), path)
Globbed(path, to) == IF to = Nowhere \/ Extends(to, path) THEN path ELSE to

\* Direct aliases are followed, six at most, and then one pattern.
MaxAliases == 5
RECURSIVE Aliased(_, _, _)
Aliased(aliases, path, count) ==
  LET to == AliasOf(aliases, path)
  IN IF count > MaxAliases THEN Nowhere
     ELSE CASE to = Nowhere              -> Globbed(path, Matched(aliases, path))
            [] to # Nowhere /\ to = path -> path
            [] OTHER                     -> Aliased(aliases, to, count + 1)

ResolveAlias(aliases, path) == Aliased(aliases, path, 0)

----------------------------------------------------------------------------
(* Files *)

\* DEFAULT_EXTENSIONS, of those Extensions has; the empty one comes first.
DefaultExtensions == << <<>>, <<".js">>, <<".mjs">>, <<".cjs">> >>

MaxExpansions == 5
RECURSIVE ExpandFile(_, _, _, _)
Expanded(pkg, file, to, count) ==
  CASE to = file /\ (file \in pkg.files \/ file = EmptyShim) -> file
    [] to = file -> Nowhere
    [] to # file -> ExpandFile(pkg, to, << <<>> >>, count)
ExpandFile(pkg, path, extensions, count) ==
  IF count > MaxExpansions \/ path = Nowhere THEN Nowhere
  ELSE First([i \in DOMAIN extensions |->
                Expanded(pkg, path \o extensions[i],
                         ResolveAlias(AliasesAt(pkg, path), path \o extensions[i]), count + 1)])

PathOf(spec, from) == IF Relative(spec) THEN Join(Dirname(from), spec) ELSE spec

\* resolver(): a file of the package, the shim, or another package's specifier.
RECURSIVE Resolve(_, _, _)

\* A module of the package's own name is looked for in its directory.
ResolveNodeModule(pkg, own, from) ==
  First(<< Resolve(pkg, Root \o own, from),
           IF own = <<>> THEN Resolve(pkg, Append(Root, "index"), from) ELSE Nowhere >>)

\* A path without a file is looked for once more as a directory of its own.
ResolveTo(pkg, spec, from, to) ==
  CASE to = Nowhere -> Nowhere
    [] Absolute(to) ->
         First(<< ExpandFile(pkg, to, DefaultExtensions, 0),
                  ExpandFile(pkg, Append(to, "index"), DefaultExtensions, 0),
                  IF spec[LastPart(spec)] = "index" THEN Nowhere
                  ELSE Resolve(pkg, Append(spec, "index"), from) >>)
    [] to # Nowhere /\ to[1] = Self -> ResolveNodeModule(pkg, Tail(to), from)
    [] OTHER -> to
Resolve(pkg, spec, from) ==
  ResolveTo(pkg, spec, from,
    ResolveAlias(AliasesAt(pkg, IF Absolute(PathOf(spec, from)) THEN PathOf(spec, from) ELSE from),
                 PathOf(spec, from)))

----------------------------------------------------------------------------
(* The shortcut *)

\* A verdict that does not look at the aliases.
IsFastPathEligible_Unaliased(pkg) == DOMAIN pkg.jsons = {Root}

\* No package.json but the root one, which is the only one the CDN inlines, and
\* no alias but where the root leads.
IsFastPathEligible(pkg) ==
  /\ DOMAIN pkg.jsons = {Root}
  /\ \A alias \in ToSet(ProcessPackageJSON(pkg.jsons[Root], Root)) : alias[1] = Root

Present(pkg, path) ==
  [i \in DOMAIN DefaultExtensions |->
     IF path \o DefaultExtensions[i] \in pkg.files THEN path \o DefaultExtensions[i] ELSE Nowhere]
ResolveFromCdnLayout(pkg, spec, from) ==
  IF Relative(spec) /\ IsFastPathEligible(pkg)
  THEN First(Present(pkg, PathOf(spec, from)) \o Present(pkg, Append(PathOf(spec, from), "index")))
  ELSE Nowhere

ResolveInstalled(pkg, spec, from) ==
  IF ResolveFromCdnLayout(pkg, spec, from) # Nowhere THEN ResolveFromCdnLayout(pkg, spec, from)
  ELSE Resolve(pkg, spec, from)
=============================================================================
