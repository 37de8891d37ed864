--------------------------- MODULE PackageEntries ---------------------------
(***************************************************************************)
(* What the CDN makes of a package: the files it transforms (process.rs),  *)
(* the closure it serves for an entry, and the packages that closure       *)
(* imports, which /dep_tree then installs (entries.rs, resolver.rs,        *)
(* package_json.rs, npm_specifier.rs).  Packages are as in Resolver; the   *)
(* CDN reads the root package.json only.                                   *)
(***************************************************************************)
EXTENDS PackagePaths

MakeModSpecifierAbsolute(dir, spec) ==
  FoldLeft(LAMBDA path, name : CASE name = "."  -> path
                                 [] name = ".." -> Dirname(path)
                                 [] OTHER       -> Append(path, name), dir, spec)

\* parse_module_specifier: relative files and packages are edges, nothing else.
PackageSpecifier(spec) == ~Relative(spec) /\ ~Absolute(spec)
EntryOf(subpath) == <<".">> \o subpath

----------------------------------------------------------------------------
(* Files a specifier finds *)

Matching(files, pattern) == {f \in files : \E i \in DOMAIN f : i >= LastPart(f) /\ IsExtension(f[i])
                                              /\ Captured(pattern, f) # Nowhere}

\* The importer's own extension is tried before the others.  At the package's
\* directory itself it looks for '/index.js', which no listed file is.
Tried(ext) == << <<>> >> \o ext \o << <<".js">>, <<".mjs">>, <<".cjs">> >>
Listing(files, path, extensions) ==
  [i \in DOMAIN extensions |->
     IF path \o extensions[i] \in files THEN path \o extensions[i] ELSE Nowhere]
CollectFiles(files, path, ext) ==
  CASE "*" \in ToSet(path) -> Matching(files, path)
    [] path = Root          -> {}
    [] OTHER -> {First(Listing(files, path, Tried(ext))
                         \o Listing(files, Append(path, "index"), Tail(Tried(ext))))} \ {Nowhere}

ExtractFileExtension(file) ==
  LET last == SubSeq(file, LastPart(file) + 1, Len(file))
  IN IF last = <<>> THEN <<>> ELSE << <<Last(last)>> >>

----------------------------------------------------------------------------
(* package.json *)

ExportConditions == <<"browser", "development", "default", "require", "import">>

RECURSIVE GetExportEntry(_)
GetExportEntry(value) ==
  CASE value.kind = "path" -> value.of
    [] value.kind = "conditions" ->
         LET has == SelectSeq(ExportConditions, LAMBDA k : k \in DOMAIN value.of)
         IN IF has = <<>> THEN Nowhere ELSE GetExportEntry(value.of[has[1]])
    [] value.kind = "list" -> First([i \in DOMAIN value.of |-> GetExportEntry(value.of[i])])
    [] OTHER -> Nowhere

GetMainEntry(json) ==
  First(<<json.module, json.browser.main, json.main, json.jsnext, <<"index">> >>)

ServerOnly == {".node", ".server"}

\* The targets of every export but those of keys for a server; the main entry
\* when there is none (a list is taken to export the root even when nothing of it
\* is usable).
CollectPkgEntries(json) ==
  LET exports == json.exports
      targets == CASE exports.kind = "none" -> {}
                   [] exports.kind = "entries" ->
                        {GetExportEntry(exports.of[i][2]) :
                           i \in {j \in DOMAIN exports.of : ToSet(exports.of[j][1]) \cap ServerOnly = {}}}
                   [] OTHER -> {GetExportEntry(exports)}
  IN IF targets \subseteq {Nowhere} /\ exports.kind # "list" THEN {GetMainEntry(json)}
     ELSE targets \ {Nowhere}

----------------------------------------------------------------------------
(* Processing *)

\* All that can be reached from `from` along `edges`.
RECURSIVE Reach(_, _)
Further(edges, from, to) == IF to = from THEN from ELSE Reach(edges, to)
Reach(edges, from) == Further(edges, from, from \cup UNION {edges[f] : f \in from})

\* What a relative import of a file finds.
Found(pkg, file, spec) ==
  CollectFiles(pkg.files, MakeModSpecifierAbsolute(Dirname(file), spec), ExtractFileExtension(file))

\* deps_to_files_and_modules
FileSpecifiers(specs) == {s \in specs : Relative(s)}

\* transform_files: the entries, and what transformed files import relatively.
TransformedFiles(pkg) ==
  Reach([f \in pkg.files |-> IF f \in pkg.broken THEN {}
           ELSE UNION {Found(pkg, f, spec) : spec \in FileSpecifiers(pkg.imports[f])}],
        UNION {CollectFiles(pkg.files, MakeModSpecifierAbsolute(Root, e), <<>>) :
                 e \in CollectPkgEntries(pkg.jsons[Root])})

\* The imports the CDN knows of a file, of the ones it transformed.
Dependencies(pkg, transformed, file) ==
  IF file \in transformed \ pkg.broken THEN pkg.imports[file] ELSE {}

----------------------------------------------------------------------------
(* The `browser` field *)

\* BrowserField.file: the file loaded in its place, none if it is excluded.
BrowserKey(map, file) ==
  SelectLastInSeq(map, LAMBDA pair : Relative(pair[1]) /\ MakeModSpecifierAbsolute(Root, pair[1]) = file)
Replacement(file, value) ==
  CASE value = Nowhere -> {file}
    [] value # Nowhere /\ ~Relative(value) -> {}
    [] OTHER -> {MakeModSpecifierAbsolute(Root, value)}
BrowserValue(map, file) == IF BrowserKey(map, file) = 0 THEN Nowhere ELSE map[BrowserKey(map, file)][2]
BrowserFile(json, file) ==
  Replacement(file, First(<< BrowserValue(json.browser.map, file),
                             BrowserValue(json.browser.map, SubSeq(file, 1, LastPart(file))) >>))

\* A field read for what it excludes only.
BrowserModule_Excludes(json, spec) ==
  IF \E i \in DOMAIN json.browser.map : json.browser.map[i] = <<spec, Off>> THEN Off ELSE spec

\* BrowserField.module: the specifier loaded in its place, Off if it is excluded.
BrowserModule(json, spec) ==
  LET at == SelectLastInSeq(json.browser.map, LAMBDA pair : pair[1] = spec)
  IN IF at = 0 THEN spec ELSE json.browser.map[at][2]

----------------------------------------------------------------------------
(* Closures *)

\* export_target: {} when no key matches, {Nowhere} when the key exports nothing;
\* of the patterns that match, the one with the longest prefix.
ExactKeys(exports, entry) == {i \in DOMAIN exports.of : exports.of[i][1] = entry}
PatternKeys(exports, entry) == {i \in DOMAIN exports.of : Captured(exports.of[i][1], entry) # Nowhere}
StarAt(pattern) == SelectInSeq(pattern, LAMBDA name : name = "*")
Longest(exports, entry) ==
  {i \in PatternKeys(exports, entry) :
     \A j \in PatternKeys(exports, entry) : StarAt(exports.of[j][1]) <= StarAt(exports.of[i][1])}
ExportTarget(exports, entry) ==
  CASE exports.kind = "none" -> {}
    [] exports.kind = "entries" /\ ExactKeys(exports, entry) # {} ->
         {GetExportEntry(exports.of[i][2]) : i \in ExactKeys(exports, entry)}
    [] exports.kind = "entries" /\ ExactKeys(exports, entry) = {} ->
         {Filled(GetExportEntry(exports.of[i][2]), Captured(exports.of[i][1], entry)) :
            i \in Longest(exports, entry)}
    [] exports.kind \in {"path", "list", "conditions"} /\ entry = EntryOf(<<>>) ->
         {GetExportEntry(exports)}
    [] OTHER -> {}

\* Of what the package.json exports, of its main when it exports nothing, of the
\* entry's own path.
EntryTargets(json, entry, exported) ==
  IF exported # {} THEN exported \ {Nowhere}
  ELSE IF entry = EntryOf(<<>>) THEN {GetMainEntry(json)} ELSE {entry}
ResolveEntry(pkg, entry) ==
  UNION {CollectFiles(pkg.files, MakeModSpecifierAbsolute(Root, t), <<>>) :
           t \in EntryTargets(pkg.jsons[Root], entry, ExportTarget(pkg.jsons[Root].exports, entry))}

\* What an import of a file leads to: files of the package, or entries of others.
LeadsTo(pkg, file, spec, module) ==
  CASE PackageSpecifier(spec) /\ module = Off -> [files |-> {}, packages |-> {}]
    [] PackageSpecifier(spec) /\ module # Off /\ ~Relative(module) ->
         [files |-> {}, packages |-> {<<module[1], EntryOf(Tail(module))>>}]
    [] OTHER ->
         [files |-> UNION {BrowserFile(pkg.jsons[Root], f) :
                             f \in IF Relative(spec) THEN Found(pkg, file, spec)
                                   ELSE CollectFiles(pkg.files, MakeModSpecifierAbsolute(Root, module),
                                                     ExtractFileExtension(file))},
          packages |-> {}]
Leads(pkg, file, spec) == LeadsTo(pkg, file, spec, BrowserModule(pkg.jsons[Root], spec))

\* entry_closure, of one entry.
LoadedFor(pkg, files) == UNION {BrowserFile(pkg.jsons[Root], f) : f \in files}
ClosureOf(pkg, leads, files) ==
  [files |-> files, packages |-> UNION {UNION {l.packages : l \in leads[f]} : f \in files}]
Following(pkg, leads, entry) ==
  ClosureOf(pkg, leads, Reach([f \in DOMAIN leads |-> UNION {l.files : l \in leads[f]}],
                              LoadedFor(pkg, ResolveEntry(pkg, entry))))
EntryClosure(pkg, transformed, entry) ==
  Following(pkg, [f \in pkg.files \cup LoadedFor(pkg, pkg.files) |->
                    {Leads(pkg, f, spec) : spec \in Dependencies(pkg, transformed, f)}], entry)
=============================================================================
