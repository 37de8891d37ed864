----------------------------- MODULE MCServices -----------------------------
(***************************************************************************)
(* What a preview is served from, on small instances: ArtifactStore,       *)
(* PackageFiles, HotModules, BootScan, SelfHost and Stylesheets in the     *)
(* document, HostFiles on the host, Manifests at the CDN, and              *)
(* PackageLayout between the two.  They share no state, so in a behaviour  *)
(* one of them runs, and the others stay in one of their initial states.   *)
(***************************************************************************)
EXTENDS ArtifactStore, Manifests, HostFiles, PackageFiles, PackageLayout, HotModules,
        BootScan, SelfHost, Stylesheets, TLC

CONSTANTS x, y, z

Genuine == [entries |-> [p \in ArtPaths |-> "genuine"], dirty |-> {},
            planted |-> FALSE, stamped |-> TRUE, marked |-> FALSE]

\* A cache zip that was tampered with, and one with entries that do not fit.
Tampered(p, q) == [Genuine EXCEPT !.entries[p] = "tampered", !.dirty = {q}]
Unfit(p, q) == [Genuine EXCEPT !.entries[p] = "unlisted", !.entries[q] = "other", !.planted = TRUE]
MCArtSetups == {Genuine, Tampered(x, y), Tampered(y, x), Unfit(x, y), Unfit(y, x)}

Fresh == [made |-> "files", face |-> "raw", files |-> HostPaths, format |-> "current",
          meta |-> [files |-> HostPaths, env |-> 1]]

MCHostSetups ==
  { Fresh,
    [Fresh EXCEPT !.made = "adopted", !.face = "policy"],
    [Fresh EXCEPT !.made = "adopted", !.face = "firstPolicy", !.format = "legacy"],
    [Fresh EXCEPT !.made = "adopted", !.face = "policy", !.format = "broken"] }

MCPkgKey == [i \in PkgImporters |-> IF i = z THEN "other" ELSE "app"]
MCPkgMain == [r \in PkgReleases |-> IF r = 1 THEN "a" ELSE "b"]

\* Packages as npm has them: what their root leads to, said in every way there
\* is, over the same files.
None == [kind |-> "none", of |-> <<>>]
Path(path) == [kind |-> "path", of |-> path]
PackageJson == [module |-> Nowhere, main |-> <<".", "index", ".js">>, jsnext |-> Nowhere,
                browser |-> [main |-> Nowhere, off |-> FALSE, map |-> <<>>],
                alias |-> <<>>, exports |-> None]

Index == <<"/", "index", ".js">>
IndexM == <<"/", "index", ".mjs">>
LibA == <<"/", "lib", "a", ".js">>
LibAM == <<"/", "lib", "a", ".mjs">>
LibIndex == <<"/", "lib", "index", ".js">>
LibNode == <<"/", "lib", "node", ".js">>
LibWeb == <<"/", "lib", "web", ".js">>

Dual == (Index    :> {<<".", "lib", "a">>, <<"other">>}) @@
        (IndexM   :> {<<".", "lib", "a">>, <<"more", "x">>, <<".", "lib">>}) @@
        (LibA     :> {<<"..">>, <<"a-js">>}) @@
        (LibAM    :> {<<"a-mjs">>, <<"pkg", "esm">>}) @@
        (LibIndex :> {<<"lib-js">>, <<".", "a">>})

Platform == (Index   :> {<<".", "lib", "node">>, <<"fs">>, <<"ws">>, <<"x">>}) @@
            (LibNode :> {<<"node-only">>}) @@
            (LibWeb  :> {<<"web-only">>, <<"pkg", "lib", "a">>}) @@
            (LibA    :> {<<"deep">>})

Package(json, imports) ==
  [files |-> DOMAIN imports, jsons |-> [d \in {Root} |-> json], imports |-> imports, broken |-> {}]
DualWith(exports) == Package([PackageJson EXCEPT !.exports = exports], Dual)

Esm(target) == [kind |-> "entries", of |-> << << <<".">>, Path(<<".", "index", ".js">>) >>,
                                              << <<".", "esm">>, Path(target) >> >>]
Patterns == [kind |-> "entries", of |->
  << << <<".">>, [kind |-> "conditions", of |-> [import  |-> Path(<<".", "index", ".mjs">>),
                                                 require |-> Path(<<".", "index", ".js">>)]] >>,
     << <<".", "lib", "*">>, Path(<<".", "lib", "*", ".js">>) >>,
     << <<".", "esm">>, [kind |-> "off", of |-> <<>>] >> >>]
Replaced == << << <<".", "lib", "node", ".js">>, <<".", "lib", "web", ".js">> >>,
               << <<"fs">>, Off >>, << <<"ws">>, <<".", "lib", "a">> >>, << <<"x">>, <<"y", "z">> >> >>

Lone == Package([PackageJson EXCEPT !.main = Nowhere], Index :> {})

MCLayPackages ==
  { Lone, Package(PackageJson, Dual),
    Package([PackageJson EXCEPT !.main = Nowhere], Dual),
    Package([PackageJson EXCEPT !.module = <<".", "index", ".mjs">>], Dual),
    DualWith(Patterns),
    DualWith(Path(<<".", "index", ".mjs">>)),
    DualWith([kind |-> "conditions", of |-> [import |-> Path(<<".", "index", ".mjs">>)]]),
    [DualWith(Esm(<<".", "index", ".mjs">>)) EXCEPT !.imports[IndexM] = {<<".", "lib", "a">>}],
    [DualWith(Esm(<<".", "lib", "a", ".mjs">>)) EXCEPT
       !.imports[Index] = {<<".", "lib">>},
       !.jsons = [d \in {Root, <<"/", "lib">>} |->
                    IF d = Root THEN @[d] ELSE [PackageJson EXCEPT !.main = <<".", "a", ".mjs">>]]],
    [Package(PackageJson, Dual) EXCEPT !.broken = {LibA}],
    Package([PackageJson EXCEPT !.browser.map = Replaced], Platform),
    Package([PackageJson EXCEPT !.browser.off = TRUE], Platform),
    Package([PackageJson EXCEPT !.exports = Esm(<<".", "lib", "web", ".js">>),
               !.alias = << << <<".", "lib", "node">>, <<".", "lib", "web">> >> >>], Platform) }

MCLayEntries == {<<>>, <<"lib">>, <<"lib", "a">>, <<"esm">>}

\* An entry that renders a component file, and a module both use. The component's exports
\* may change or stop being components; the module may require the component back.
Requiring(m) == [op |-> "require", of |-> m]
Postlude(signature) == [op |-> "postlude", keeps |-> signature]
Does(op) == [op |-> op]
MCHotOrder == <<"entry", "card", "util">>
MCHotScripts ==
  ("entry" :> { <<Requiring("card"), Requiring("util"), Postlude(1)>>,
                <<Does("accept"), Requiring("card"), Requiring("util")>>,
                << [op |-> "acceptDep", of |-> "util"], Requiring("card"), Requiring("util")>> }) @@
  ("card"  :> { <<Requiring("util"), Postlude(1)>>, <<Requiring("util"), Postlude(2)>>,
                <<Requiring("util"), Postlude(0)>>, <<Does("accept"), Requiring("util"), Postlude(1)>> }) @@
  ("util"  :> { << [op |-> "dispose", keeps |-> 1], Does("accept")>>, <<Does("accept"), Does("throw")>>,
                <<Does("accept"), Requiring("card")>>, <<Does("decline")>>,
                << [op |-> "declineDep", of |-> "card"] >>, <<>> })

\* An entry with a component file, a module both use and a stylesheet, below a runtime; the
\* shim imports for their side effects packages, modules, or the entry itself.
Imports(kind, of) == [kind : {kind}, of : of]
Source(clauses) == [there |-> TRUE, imports |-> clauses]
App == Source(Imports("binding", {"page", "lib"}))
TypedApp == Source(Imports("binding", {"page", "p"}) \cup Imports("type", {"r"}))
Page == Source(Imports("binding", {"app", "q"}) \cup Imports("effect", {"style"}))
PlainPage == Source(Imports("binding", {"lib"}))
BadLib == Source(Imports("binding", {"r"}))
Main == Source(Imports("effect", {"style", "q"}) \cup Imports("binding", {"app"}))
CircularMain == Source(Imports("effect", {"lib", "app"}))
MCScanSources ==
  ("rt"    :> {Source(Imports("binding", {"p"}))}) @@
  ("app"   :> {App, TypedApp, NoSource}) @@ ("page"  :> {Page, PlainPage}) @@
  ("lib"   :> {Source({}), BadLib, NoSource}) @@
  ("style" :> {Source(Imports("effect", {"q"}))}) @@
  ("main"  :> {NoSource, Main, CircularMain})
Boots(app, page, lib, main) ==
  [rt |-> Source(Imports("binding", {"p"})), style |-> Source(Imports("effect", {"q"})),
   app |-> app, page |-> page, lib |-> lib, main |-> main]
PlainBoot == Boots(App, Page, Source({}), NoSource)
MCScanFirst == {PlainBoot, Boots(TypedApp, PlainPage, Source({}), Main),
                Boots(App, PlainPage, BadLib, NoSource),
                Boots(TypedApp, Page, NoSource, CircularMain),
                Boots(NoSource, PlainPage, Source({}), Main),
                Boots(NoSource, PlainPage, NoSource, Main)}
MCScanRuntimes == <<"rt">>
MCScanEntries == <<"app", "lib">>
MCScanShims == <<"main", "page">>

\* Releases with different files, asked for in every way, by hosts that pin all, some or none.
MCSelfReleases == (2 :> {"index", "json"}) @@ (3 :> {"index", "core", "json"})
NotNamed == [kind |-> "none", version |-> 0]
MCSelfSays == {NotNamed, [NotNamed EXCEPT !.kind = "other"], [NotNamed EXCEPT !.kind = "broken"]}
              \cup [kind : {"version"}, version : 1..4]
Unwired == [wired |-> FALSE, pins |-> {}]
MCSelfHosts == {Unwired} \cup [wired : {TRUE}, pins : {{2, 3}, {3}}]

\* A sheet that imports another and two packages', in every way there is: the framework's
\* imports in any of them, conditions, a circle, an import of nothing; and a sheet alone.
Says(op, of) == [op |-> op, of |-> of, under |-> {}, within |-> {}, mark |-> <<>>]
Importing(of, under) == [Says("import", of) EXCEPT !.under = under]
MCSheetOwner == [f \in {"app", "theme", "kit", "deep"} |-> IF f \in {"kit", "deep"} THEN "p" ELSE "app"]
MCSheetStyles == ("p" :> "kit") @@ ("q" :> Unresolved)
MCSheetDefaults == ("p" :> Unresolved) @@ ("q" :> "deep")
MCSheets ==
  ("app" :> {
     <<Importing("theme", {"layer"}), Importing("p", {"media"}), Says("rule", "plain")>>,
     <<Importing(Framework, {"source"}), Importing("theme", {"media"}), Says("directive", "escaped")>>,
     <<Importing("q", {}), Importing("theme", {}), Importing("p", {}), Says("url", "inside")>>,
     <<Says("directive", "escaped"), Says("legacy", "more"), Says("image", "inside")>>,
     <<Importing(Remote, {"media"}), Says("legacy", "alone")>>, <<Importing(Unresolved, {})>> }) @@
  ("theme" :> {
     <<Importing(Framework, {}), Says("rule", "plain")>>,
     <<Importing("app", {"media"}), Says("directive", "plain")>>,
     <<Importing(Framework, {"layer"}), Importing(Framework, {"media", "source"}),
       Importing(Remote, {"media"}), Says("url", "absolute")>>, <<>> }) @@
  ("kit" :> {
     <<Importing("deep", {}), Says("url", "inside"), Says("url", "outside")>>,
     <<Says("image", "inside"), Says("legacy", "alone"), Says("legacy", "more")>> }) @@
  ("deep" :> {
     <<Importing(Framework, {"layer"}), Says("url", "inside"), Says("image", "absolute")>>,
     <<Says("rule", "plain")>> })
NoSheets == [entry |-> "app", sheets |-> [f \in SheetFiles |-> <<>>]]
MCSheetSetups ==
  {[entry |-> e, sheets |-> [app |-> a, theme |-> t, kit |-> k, deep |-> d]] :
     e \in {"app", "kit"}, a \in MCSheets["app"], t \in MCSheets["theme"],
     k \in MCSheets["kit"], d \in MCSheets["deep"]} \cup {NoSheets}

\* Two sources, requests, callers or importers of one package are alike.
MCSymmetry == Permutations({x, y})

HotIdle(m) == [rev |-> 1, script |-> CHOOSE script \in HotScripts[m] : TRUE]

VARIABLE active      \* which of them runs

vars == <<active, artVars, manVars, hostVars, pkgVars, layVars, hotVars, scanVars, selfVars,
          sheetVars>>

Init ==
  /\ active \in {"artifacts", "manifests", "host files", "package", "layout", "modules",
                "first compile", "self-hosted", "stylesheet"}
  /\ ArtInit /\ (active # "artifacts" => artSetup = Genuine)
  /\ ManInit /\ (active # "manifests" => manRow.rev = Unknown)
  /\ HostInit /\ (active # "host files" => hostSetup = Fresh)
  /\ PkgInit
  /\ LayInit /\ (active # "layout" => layPkg = Lone)
  /\ HotInit /\ (active # "modules" => \A m \in HotSources : hotSource[m] = HotIdle(m))
  /\ ScanInit /\ (active # "first compile" => scanDisk = PlainBoot)
  /\ SelfInit /\ (active # "self-hosted" => selfHost = Unwired /\ selfJson = NotNamed)
  /\ SheetInit /\ (active # "stylesheet" => sheetSetup = NoSheets)

Next ==
  \/ active = "artifacts" /\ ArtNext
     /\ UNCHANGED <<active, manVars, hostVars, pkgVars, layVars, hotVars, scanVars, selfVars,
                      sheetVars>>
  \/ active = "manifests" /\ ManNext
     /\ UNCHANGED <<active, artVars, hostVars, pkgVars, layVars, hotVars, scanVars, selfVars,
                      sheetVars>>
  \/ active = "host files" /\ HostNext
     /\ UNCHANGED <<active, artVars, manVars, pkgVars, layVars, hotVars, scanVars, selfVars,
                      sheetVars>>
  \/ active = "package" /\ PkgNext
     /\ UNCHANGED <<active, artVars, manVars, hostVars, layVars, hotVars, scanVars, selfVars,
                      sheetVars>>
  \/ active = "layout" /\ LayNext
     /\ UNCHANGED <<active, artVars, manVars, hostVars, pkgVars, hotVars, scanVars, selfVars,
                      sheetVars>>
  \/ active = "modules" /\ HotNext
     /\ UNCHANGED <<active, artVars, manVars, hostVars, pkgVars, layVars, scanVars, selfVars,
                      sheetVars>>
  \/ active = "first compile" /\ ScanNext
     /\ UNCHANGED <<active, artVars, manVars, hostVars, pkgVars, layVars, hotVars, selfVars,
                      sheetVars>>
  \/ active = "self-hosted" /\ SelfNext
     /\ UNCHANGED <<active, artVars, manVars, hostVars, pkgVars, layVars, hotVars, scanVars,
                      sheetVars>>
  \/ active = "stylesheet" /\ SheetNext
     /\ UNCHANGED <<active, artVars, manVars, hostVars, pkgVars, layVars, hotVars, scanVars,
                      selfVars>>

Spec == Init /\ [][Next]_vars
============================================================================
