----------------------------- MODULE Stylesheets -----------------------------
(***************************************************************************)
(* A stylesheet module, from its source to what its <style> holds: the     *)
(* analysis that finds what only the Tailwind compiler understands         *)
(* (transpiler/src/css.ts), the bundling of its import graph by an         *)
(* external engine that must not see it (css-loader.ts), and the module    *)
(* that puts the sheet into the document, with the compiler if it needs    *)
(* it (transforms/style).                                                  *)
(*                                                                         *)
(* A sheet is a sequence of statements: of each, what the analysis looks   *)
(* at.  Imports come before the rest, which the engine requires.           *)
(***************************************************************************)
EXTENDS Naturals, Sequences, FiniteSets, SequencesExt

CONSTANTS
  SheetFiles,      \* stylesheets of the app and of packages
  SheetOwner,      \* SheetOwner[f]: the package f belongs to, or "app"
  SheetReleases,   \* packages whose release the registry knows
  SheetStyles,     \* SheetStyles[p]: the sheet the style field of p's package.json names
  SheetDefaults,   \* SheetDefaults[p]: the sheet p resolves to without the field
  SheetSetups      \* an entry, and what each file holds

Framework == "tailwindcss"
Compiler == "@tailwindcss/browser"
Remote == "https:"       \* a sheet at an address
Data == "data:"          \* one in the address, as what stands for a framework import is
Unresolved == "missing"
SheetPackages == DOMAIN SheetStyles

\* Conditions are the layer, supports and media queries of an import; of a framework import,
\* its options too.
Conditions == {"layer", "media", "source"}
Statement ==
  [op : {"import"}, of : SheetFiles \cup SheetPackages \cup {Framework, Remote, Unresolved},
   under : SUBSET Conditions, within : {{}}, mark : {<<>>}] \cup
  [op : {"directive"}, of : {"plain", "escaped"}, under : {{}}, within : {{}}, mark : {<<>>}] \cup
  [op : {"legacy"}, of : {"alone", "more"}, under : {{}}, within : {{}}, mark : {<<>>}] \cup
  [op : {"rule"}, of : {"plain"}, under : {{}}, within : {{}}, mark : {<<>>}] \cup
  [op : {"url", "image"}, of : {"inside", "outside", "absolute"}, under : {{}}, within : {{}},
   mark : {<<>>}]

ASSUME SheetAssumption ==
  /\ DOMAIN SheetOwner = SheetFiles /\ DOMAIN SheetDefaults = SheetPackages
  /\ SheetReleases \subseteq SheetPackages
  /\ \A p \in SheetPackages : {SheetStyles[p], SheetDefaults[p]} \subseteq SheetFiles \cup {Unresolved}
  /\ \A setup \in SheetSetups :
       /\ setup.entry \in SheetFiles /\ DOMAIN setup.sheets = SheetFiles
       /\ \A f \in SheetFiles : setup.sheets[f] \in Seq(Statement)

VARIABLES
  sheetSetup,   \* the sources
  sheetAt,      \* what the transform is at
  sheetTodo,    \* what the engine waits for: files to read, imports to resolve
  sheetRead,    \* the sheets analysed, in order: the keys of analyses
  sheetCode,    \* the code, then the sheet the document has
  sheetDeps     \* the dependencies the transformers reported

sheetVars == <<sheetSetup, sheetAt, sheetTodo, sheetRead, sheetCode, sheetDeps>>

Waiting == [files |-> {}, imports |-> {}]

SheetInit ==
  /\ sheetSetup \in SheetSetups
  /\ sheetAt = "source" /\ sheetTodo = Waiting
  /\ sheetRead = <<>> /\ sheetCode = <<>> /\ sheetDeps = {}

SourceOf(f) == sheetSetup.sheets[f]
----------------------------------------------------------------------------
(* The analysis: analyzeCss, cssModuleSpecifiers. *)

IsImport(s) == s.op = "import"
IsFramework(s) == IsImport(s) /\ s.of = Framework
RequiresTailwind(sheet) == \E s \in Range(sheet) : IsFramework(s) \/ s.op \in {"directive", "legacy"}
RequiresResolution(sheet) ==
  \E s \in Range(sheet) : s.op = "url" \/ (IsImport(s) /\ ~IsFramework(s))
TailwindImports(sheet) == SelectSeq(sheet, IsFramework)

\* Directives are decoded, a layer directive of the compiler's last version that says no
\* more is removed.
Retained(s) == s.op # "legacy" \/ s.of # "alone"
Decoded(s) == IF s.op = "directive" THEN [s EXCEPT !.of = "plain"] ELSE s
CompilerCss(sheet) ==
  LET kept == SelectSeq(sheet, Retained) IN [i \in DOMAIN kept |-> Decoded(kept[i])]

\* Seeded fault: markers without a scope.
Marker_Unscoped(f, i) == <<"sheet", i>>

\* A marker stands for a framework import; its scope is this analysis of this sheet.
Marker(f, i) == <<f, i>>

MarkersBefore(sheet, i) == Cardinality({j \in 1..i-1 : IsFramework(sheet[j])})
\* What the engine sees: the compiler's imports as imports it leaves alone.
ResolverCss(f, sheet) ==
  [i \in DOMAIN sheet |-> IF IsFramework(sheet[i])
     THEN [sheet[i] EXCEPT !.of = Data, !.mark = Marker(f, MarkersBefore(sheet, i)), !.under = {}]
     ELSE sheet[i]]

\* The engine may have given a marker the conditions its sheet is imported under.
RestoreImportScope(marker, text) == [text EXCEPT !.within = marker.under]

RestoreImports(css, f, sheet) ==
  LET imports == TailwindImports(sheet) IN
  [i \in DOMAIN css |->
     LET from == {m \in DOMAIN imports : css[i].mark = Marker(f, m - 1)} IN
     IF from # {} THEN RestoreImportScope(css[i], imports[CHOOSE m \in from : TRUE])
       ELSE css[i]]

CssModuleSpecifiers(sheet) ==
  {s.of : s \in {t \in Range(sheet) : IsImport(t) /\ ~IsFramework(t)}}
    \cup (IF RequiresTailwind(sheet) THEN {Compiler} ELSE {})
----------------------------------------------------------------------------
(* CSSTransformer and css-loader. *)

\* rebasePackageCssUrls: what a package's sheet refers to in its package is addressed at
\* the release installed.
Rebased(s) == IF s.op \in {"url", "image"} /\ s.of = "inside" THEN [s EXCEPT !.of = "release"] ELSE s
Rebase(f, sheet) ==
  IF SheetOwner[f] \in SheetReleases THEN [i \in DOMAIN sheet |-> Rebased(sheet[i])] ELSE sheet
\* What read() analyses.
Prepared(f) == Rebase(f, SourceOf(f))

DefaultImport == [op |-> "import", of |-> Framework, under |-> {}, within |-> {}, mark |-> <<>>]
WithFramework(code, needs, has) == IF needs /\ ~has THEN <<DefaultImport>> \o code ELSE code

\* A sheet without imports and urls is not bundled.
CSSTransform ==
  /\ sheetAt = "source"
  /\ LET sheet == SourceOf(sheetSetup.entry) IN
       IF RequiresResolution(sheet)
         THEN /\ sheetAt' = "bundling"
              /\ sheetTodo' = [sheetTodo EXCEPT !.files = {sheetSetup.entry}]
              /\ UNCHANGED <<sheetRead, sheetCode>>
         ELSE /\ sheetAt' = "compiled"
              /\ sheetRead' = <<sheetSetup.entry>>
              /\ sheetCode' = WithFramework(CompilerCss(sheet), RequiresTailwind(sheet),
                                            TailwindImports(sheet) # <<>>)
              /\ UNCHANGED sheetTodo
  /\ UNCHANGED <<sheetSetup, sheetDeps>>

\* The engine asks for a file, and for what its imports lead to.
ReadSheet(f) ==
  /\ sheetAt = "bundling" /\ f \in sheetTodo.files
  /\ sheetRead' = Append(sheetRead, f)
  /\ sheetDeps' = sheetDeps \cup ({f} \ {sheetSetup.entry})
  /\ sheetTodo' = [files   |-> sheetTodo.files \ {f},
                   imports |-> sheetTodo.imports \cup
                     {s.of : s \in {t \in Range(SourceOf(f)) : IsImport(t) /\ ~IsFramework(t)}}]
  /\ UNCHANGED <<sheetSetup, sheetAt, sheetCode>>

\* resolveCSSFile: of a package, what the style field names, and else its default sheet.
ResolveCSSFile(target) ==
  IF target \notin SheetPackages THEN target
  ELSE IF SheetStyles[target] # Unresolved THEN SheetStyles[target] ELSE SheetDefaults[target]

ResolveImport(target) ==
  /\ sheetAt = "bundling" /\ target \in sheetTodo.imports /\ ResolveCSSFile(target) # Unresolved
  /\ sheetTodo' = [files   |-> sheetTodo.files \cup
                               (({ResolveCSSFile(target)} \ {Remote}) \ Range(sheetRead)),
                   imports |-> sheetTodo.imports \ {target}]
  /\ UNCHANGED <<sheetSetup, sheetAt, sheetRead, sheetCode, sheetDeps>>

\* The error names the import; a file that cannot be read, or parsed, is one too.
BundleFails ==
  /\ sheetAt = "bundling"
  /\ sheetTodo.files # {} \/ \E target \in sheetTodo.imports : ResolveCSSFile(target) = Unresolved
  /\ sheetAt' = "failed"
  /\ UNCHANGED <<sheetSetup, sheetTodo, sheetRead, sheetCode, sheetDeps>>

\* What the engine makes of an import graph: each sheet where it is imported last, below the
\* conditions it is imported under; imports it leaves alone stay, and take these conditions.
RECURSIVE Expand(_, _, _)
Expand(f, scope, path) ==
  LET css == CompilerCss(ResolverCss(f, Prepared(f)))
      Piece(i) ==
        LET s == css[i]
            to == IF IsImport(s) THEN ResolveCSSFile(s.of) ELSE Unresolved
        IN
        IF to \in SheetFiles
          THEN IF to \in path THEN <<>> ELSE Expand(to, scope \cup s.under, path \cup {to})
          ELSE <<[at |-> <<f, i>>, is |-> IF IsImport(s) THEN [s EXCEPT !.under = @ \cup scope]
                                                        ELSE [s EXCEPT !.within = scope]]>>
  IN FlattenSeq([i \in DOMAIN css |-> Piece(i)])

Bundled ==
  LET pieces == Expand(sheetSetup.entry, {}, {sheetSetup.entry})
      last == SelectSeq([i \in DOMAIN pieces |-> i],
                        LAMBDA i : \A j \in DOMAIN pieces : j > i => pieces[j].at # pieces[i].at)
  IN [k \in DOMAIN last |-> pieces[last[k]].is]

\* The graph has been read: it is bundled, and each analysis restores its imports.
Bundle ==
  /\ sheetAt = "bundling" /\ sheetTodo = Waiting
  /\ sheetCode' = WithFramework(
       FoldLeft(LAMBDA css, f : RestoreImports(css, f, Prepared(f)), Bundled, sheetRead),
       \E f \in Range(sheetRead) : RequiresTailwind(Prepared(f)),
       \E f \in Range(sheetRead) : TailwindImports(Prepared(f)) # <<>>)
  /\ sheetAt' = "compiled"
  /\ UNCHANGED <<sheetSetup, sheetTodo, sheetRead, sheetDeps>>

\* StyleTransformer: the module puts the sheet into the document, and requires the compiler.
Style ==
  /\ sheetAt = "compiled"
  /\ sheetAt' = "styled"
  /\ sheetDeps' = sheetDeps \cup (IF RequiresTailwind(sheetCode) THEN {Compiler} ELSE {})
  /\ UNCHANGED <<sheetSetup, sheetTodo, sheetRead, sheetCode>>

SheetNext ==
  \/ CSSTransform \/ BundleFails \/ Bundle \/ Style
  \/ \E f \in SheetFiles : ReadSheet(f)
  \/ \E target \in sheetTodo.imports : ResolveImport(target)

SheetSpec == SheetInit /\ [][SheetNext]_sheetVars
----------------------------------------------------------------------------
(* Properties. *)

ImportsOf(f) ==
  {[to |-> ResolveCSSFile(s.of), under |-> s.under] :
     s \in {t \in Range(SourceOf(f)) : IsImport(t) /\ ~IsFramework(t)}}

\* The sheets some imports lead to, with the conditions each is below.
RECURSIVE ImportedBelow(_)
ImportedBelow(reached) ==
  LET Others(f) == {i \in ImportsOf(f) : i.to \in SheetFiles \ {sheetSetup.entry}}
      more == reached \cup UNION {{<<i.to, p[2] \cup i.under>> : i \in Others(p[1])} : p \in reached}
  IN IF more = reached THEN reached ELSE ImportedBelow(more)

\* What a sheet contributes: all its statements but the imports that were followed, as the
\* browser or the compiler must see them.
Contribution(f, scope, bundled) ==
  LET sheet == IF bundled THEN Prepared(f) ELSE SourceOf(f)
      own == SelectSeq(CompilerCss(sheet), LAMBDA s : IsImport(s) => s.of \in {Framework, Remote})
  IN [i \in DOMAIN own |-> IF own[i].of = Remote THEN [own[i] EXCEPT !.under = @ \cup scope]
                                                 ELSE [own[i] EXCEPT !.within = scope]]

Occurrences(css, s) == Cardinality({i \in DOMAIN css : css[i] = s})

\* The sheet a document gets is that of all the sheets its imports reach, each statement
\* once and below the conditions of the imports that led to it, the framework's imports
\* among them, unharmed by the engine. If a sheet needs the compiler, the module requires
\* it, the framework is imported, by default at the top, and the scan of the sheets asked
\* for it. The module depends on every sheet that was read. A package's files are addressed
\* at its release, except the strings of an image-set() in a sheet that was not bundled.
StylesAreWhole ==
  sheetAt = "styled" =>
    LET below == ImportedBelow({<<sheetSetup.entry, {}>>})
        reached == {p[1] : p \in below}
        needs == \E f \in reached : RequiresTailwind(SourceOf(f))
        bundled == RequiresResolution(SourceOf(sheetSetup.entry))
        parts == [p \in below |-> Contribution(p[1], p[2], bundled)]
        adds == needs /\ \A f \in reached : TailwindImports(SourceOf(f)) = <<>>
        code == IF adds THEN Tail(sheetCode) ELSE sheetCode
    IN
    /\ adds => Head(sheetCode) = DefaultImport
    /\ \A s \in Range(code) \cup UNION {Range(parts[p]) : p \in below} :
         Occurrences(code, s) = MapThenSumSet(LAMBDA p : Occurrences(parts[p], s), below)
    /\ sheetDeps = (reached \ {sheetSetup.entry}) \cup (IF needs THEN {Compiler} ELSE {})
    /\ needs <=> \E f \in reached : Compiler \in CssModuleSpecifiers(SourceOf(f))
============================================================================
