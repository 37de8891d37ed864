----------------------------- MODULE MCDepTree -----------------------------
(* A small instance of DepTree for TLC.  The query asks for the root of dom   *)
(* and an addon of three; dom imports its own client and react; the addon     *)
(* imports three itself and dom's client.  One release of three imports a     *)
(* tool that imports dom back: it competes with react for the last place      *)
(* under the limit.  react has two releases, of which the app pins the old.   *)
EXTENDS DepTree

CONSTANTS dom, react, three, tool, root, sub, any, old, r1, r2

Ask(n, es) == [name |-> n, range |-> any, entries |-> es]
Query      == {Ask(dom, {root}), Ask(three, {sub})}

AppPins  == [n \in Names |-> IF n = react THEN old ELSE None]
Registry == [n \in Names |-> [w \in Ranges |->
               IF n \in {react, three} /\ w = any THEN {r1, r2} ELSE {r1}]]
Edges(n, r, e) ==
  CASE n = dom /\ e = root              -> {<<dom, sub>>, <<react, root>>}
    [] n = dom /\ e = sub               -> {<<react, root>>}
    [] n = three /\ e = sub             -> {<<three, root>>, <<three, sub>>, <<dom, sub>>}
    [] n = three /\ e = root /\ r = r1  -> {<<tool, root>>}
    [] n = tool /\ e = root             -> {<<dom, root>>, <<react, sub>>}
    [] n = react /\ e = sub /\ r = r1   -> {<<tool, sub>>}
    [] OTHER                            -> {}
Files     == [n \in Names |-> [r \in Releases |-> [e \in Entries |->
               [m \in Names |-> {x \in Entries : <<m, x>> \in Edges(n, r, e)}]]]]
Manifests == [n \in Names |-> [r \in Releases |-> [m \in Names |-> any]]]
=============================================================================
