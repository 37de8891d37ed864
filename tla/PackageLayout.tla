--------------------------- MODULE PackageLayout ---------------------------
(***************************************************************************)
(* The CDN and the bundler resolve the same imports apart: the CDN decides *)
(* which files and packages an entry of a package brings (PackageEntries), *)
(* the bundler which file each import loads (Resolver).  Here the app      *)
(* imports entries of one package, its files import each other, and every  *)
(* package they ask for has to be one the CDN announced: nothing a file of *)
(* a CDN package imports is installed later (Bundler.installableImport).   *)
(*                                                                         *)
(* The order of loading and the caches are PackageFiles' matter.           *)
(***************************************************************************)
EXTENDS FiniteSets, Resolver, PackageEntries

CONSTANTS
  LayPackages,   \* the packages, as records of Resolver's form
  LayEntries     \* what the app imports from them, as sub-paths

VARIABLES
  layPkg,          \* the package
  layTransformed,  \* the files the CDN has transformed (MinimalCachedModule)
  layEntries,      \* NodeModule.entries
  layInlined,      \* the files NodeModule.files has inlined
  layAnnounced,    \* the packages, with their entries, that came with them
  layLoaded        \* the files Bundler.modules has

layVars == <<layPkg, layTransformed, layEntries, layInlined, layAnnounced, layLoaded>>

LayInit ==
  /\ layPkg \in LayPackages
  /\ layTransformed = TransformedFiles(layPkg)
  /\ layEntries = {} /\ layInlined = {} /\ layAnnounced = {} /\ layLoaded = {}

----------------------------------------------------------------------------
(* Installing *)

Closure(entry) == EntryClosure(layPkg, layTransformed, entry)

\* What entries bring: /dep_tree adds those the package's own files import.
Own(entries) == {p[2] : p \in {q \in UNION {Closure(e).packages : e \in entries} : q[1] = Self}}
RECURSIVE WithOwn(_)
Extended(entries, own) == IF own \subseteq entries THEN entries ELSE WithOwn(entries \cup own)
WithOwn(entries) == Extended(entries, Own(entries))

Brought(entries, closures) ==
  [entries |-> entries, packages |-> UNION {c.packages : c \in closures},
   files |-> (UNION {c.files : c \in closures}) \cap layTransformed]
Together(all) == Brought(all, {Closure(e) : e \in all})
Bringing(entries) == Together(WithOwn(entries))

\* Installing adds what is missing; a closure's other files stay listed.
Installs(brought) ==
  /\ layEntries' = layEntries \cup brought.entries
  /\ layAnnounced' = layAnnounced \cup brought.packages
  /\ layInlined' = layInlined \cup brought.files
LayInstall(entries) == Installs(Bringing(entries \ layEntries))

\* Bundler.inlined: a script that is listed but not inlined becomes an entry.
AsEntry(file, inlined) ==
  IF file \in layPkg.files \ inlined THEN {EntryOf(Tail(file))} ELSE {}

Loads(file) == IF file \in layPkg.files THEN layLoaded \cup {file} ELSE layLoaded

\* App code imports an entry: it is installed, then resolved.
LoadEntry(entry, file) ==
  /\ LayInstall({entry} \cup AsEntry(file, layInlined \cup Bringing({entry}).files))
  /\ layLoaded' = Loads(file)
LayImport(sub) ==
  /\ EntryOf(sub) \notin layEntries
  /\ LoadEntry(EntryOf(sub), ResolveInstalled(layPkg, <<Self>> \o sub, <<"app">>))
  /\ UNCHANGED <<layPkg, layTransformed>>

\* A loaded file's import: of an inlined one it is linked as it is resolved, of
\* any other it may expand the package, as one of the app's may.
LoadFile(file, to) ==
  /\ to \in layPkg.files \ layLoaded
  /\ layLoaded' = Loads(to)
  /\ LayInstall(IF file \in layInlined THEN {} ELSE AsEntry(to, layInlined))
LayFollow(file, spec) ==
  /\ LoadFile(file, ResolveInstalled(layPkg, spec, file))
  /\ UNCHANGED <<layPkg, layTransformed>>

LayNext ==
  \/ \E sub \in LayEntries : LayImport(sub)
  \/ \E file \in layLoaded : \E spec \in layPkg.imports[file] : LayFollow(file, spec)

LaySpec == LayInit /\ [][LayNext]_layVars

----------------------------------------------------------------------------
\* Where the CDN and the bundler follow an import apart: to the package's own
\* directory, where an extension other than '.js' is a matter of taste, and where
\* `alias`, or a package.json below the root, leads elsewhere.
Candidates(path) == {f \in layPkg.files : IsPrefix(path, f) /\ Len(f) = Len(path) + 1 /\ IsExtension(Last(f))}

Disputed(file, spec) ==
  LET path == Join(Dirname(file), spec)
  IN \/ path = Root
     \/ Last(file) # ".js" /\ Cardinality(Candidates(path)) > 1
     \/ layPkg.jsons[Root].alias # <<>>
     \/ \E dir \in DOMAIN layPkg.jsons \ {Root} : IsPrefix(dir, path)

\* An inlined file's imports are linked without installing anything: what they
\* lead to is inlined too, or is a package that was announced.  Left out are
\* files the CDN did not read: a broken one, one that only `browser` leads to.
ClosuresAreComplete ==
  \A file \in (layLoaded \cap layInlined) \ layPkg.broken : \A spec \in layPkg.imports[file] :
    LET to == ResolveInstalled(layPkg, spec, file)
    IN \/ Relative(spec) /\ Disputed(file, spec)
       \/ to \in layInlined \cup (layPkg.files \ layTransformed) \cup {Nowhere, EmptyShim}
       \/ ~Absolute(to) /\ <<to[1], EntryOf(Tail(to))>> \in layAnnounced

\* The shortcut resolves as the resolver does ("never resolves to a wrong file"),
\* but for the package's own directory, whose main it does not read.
FastPathAgrees ==
  \A file \in layLoaded : \A spec \in layPkg.imports[file] :
    ResolveFromCdnLayout(layPkg, spec, file) \in {Nowhere, Resolve(layPkg, spec, file)}
    \/ Join(Dirname(file), spec) = Root
=============================================================================
