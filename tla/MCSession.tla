----------------------------- MODULE MCSession -----------------------------
(***************************************************************************)
(* A preview's conversation with its host (Session) and the two transports *)
(* of a booted document (Transport), on small instances.  The bounds of    *)
(* Session are alternatives, so that each kind of trouble meets the        *)
(* handshake without multiplying the others; without any trouble, one of   *)
(* the transports is used once the document has booted.                    *)
(***************************************************************************)
EXTENDS Session, Transport

NoTrouble == [f \in Fields |-> 0]

MCBudgets ==
  { NoTrouble,
    [NoTrouble EXCEPT !.edits = 2, !.snapshots = 1, !.refreshes = 1],
    [NoTrouble EXCEPT !.edits = 1, !.reloads = 2, !.failures = 1],
    [NoTrouble EXCEPT !.refreshes = 2, !.reloads = 1, !.strays = 1],
    [NoTrouble EXCEPT !.mountings = 3],
    [NoTrouble EXCEPT !.mountings = 1, !.refreshes = 1],
    [NoTrouble EXCEPT !.pushes = 2, !.mountings = 1, !.reloads = 1] }

VARIABLE traffic      \* the transport the document uses once it has booted

mcVars == <<traffic, vars, fetchVars, busVars>>

MCInit ==
  /\ traffic \in {"none", "fetch", "bus"}
  /\ Init /\ (traffic = "none" <=> budget # NoTrouble)
  /\ traffic # "none" => snapshot = disk
  /\ FetchInit
  /\ traffic # "fetch" => fetchSetup = "local" /\ fetchNet = "good" /\ fetchCache = NoBody
  /\ BusInit

Talks == System /\ UNCHANGED <<traffic, fetchVars, busVars>>
Fetching(c) == traffic = "fetch" /\ AtRest /\ FetchStep(c) /\ UNCHANGED <<traffic, vars, busVars>>
Transforming(t) == traffic = "bus" /\ AtRest /\ BusStep(t) /\ UNCHANGED <<traffic, vars, fetchVars>>

MCNext ==
  \/ Next /\ UNCHANGED <<traffic, fetchVars, busVars>>
  \/ traffic = "fetch" /\ AtRest /\ FetchNext /\ UNCHANGED <<traffic, vars, busVars>>
  \/ traffic = "bus" /\ AtRest /\ BusNext /\ UNCHANGED <<traffic, vars, fetchVars>>

MCSpec ==
  /\ MCInit /\ [][MCNext]_mcVars
  /\ WF_mcVars(Talks)
  /\ WF_mcVars(\E c \in Fetches : Fetching(c))
  /\ WF_mcVars(\E t \in Transforms : Transforming(t))
============================================================================
