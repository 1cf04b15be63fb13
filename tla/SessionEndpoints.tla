-------------------------- MODULE SessionEndpoints --------------------------
(***************************************************************************)
(* The identity and topology model of a Session: Session::add_endpoint and *)
(* Session::get_endpoint (src/src/server/session/mod.rs).  A Session maps  *)
(* EndpointIds to Endpoints, and an Endpoint maps four-tuples to           *)
(* Transports.  Endpoint::get_transport / add_transport are not under src/ *)
(* and are written from spec.md 4.2.                                       *)
(*                                                                         *)
(* The Session's endpoints map is the registry below; an Endpoint that was *)
(* never put into it lives only as the handle add_endpoint returned, so    *)
(* only the count of Endpoint objects created is kept for it.              *)
(***************************************************************************)
EXTENDS Naturals

CONSTANTS
    EndpointIds,    \* ICE username fragments of remote peers
    FourTuples,     \* network paths packets arrive on
    MaxEndpoints,   \* bound on the Endpoint objects the model creates
    NoPeer          \* no add_endpoint call yet

VARIABLES
    endpoints,  \* Session.endpoints: EndpointId -> the Endpoint's four-tuples
    created,    \* Endpoint objects Endpoint::new has made
    lastAdd,    \* what the last add_endpoint call saw and returned
    seen        \* history: the EndpointIds earlier calls passed

vars == <<endpoints, created, lastAdd, seen>>

NoCall == [ep |-> NoPeer, seenBefore |-> FALSE, existing |-> FALSE]

TypeOK ==
    /\ DOMAIN endpoints \subseteq EndpointIds
    /\ endpoints \in [DOMAIN endpoints -> SUBSET FourTuples]
    /\ created \in 0..MaxEndpoints
    /\ lastAdd \in [ep: EndpointIds \cup {NoPeer}, seenBefore: BOOLEAN,
                    existing: BOOLEAN]
    /\ seen \subseteq EndpointIds

\* Session::new: an empty endpoints map.
Init ==
    /\ endpoints = [e \in {} |-> {}]
    /\ created = 0
    /\ lastAdd = NoCall
    /\ seen = {}

\* get_endpoint(endpoint_id) is Some.
Registered(e) == e \in DOMAIN endpoints

\* The call for e returns is_existing = ex; the history records it.
Returned(e, ex) ==
    /\ lastAdd' = [ep |-> e, seenBefore |-> e \in seen, existing |-> ex]
    /\ seen' = seen \cup {e}

\* add_endpoint(candidate, transport_context): candidate.endpoint_id() = e,
\* the context's four-tuple t.
AddEndpoint(e, t) ==
    \* Endpoint found, transport found: (true, endpoint, transport).
    \/ /\ Registered(e) /\ t \in endpoints[e]
       /\ Returned(e, TRUE)
       /\ UNCHANGED <<endpoints, created>>
    \* Endpoint found, new Transport added to it: (true, ...).
    \/ /\ Registered(e) /\ t \notin endpoints[e]
       /\ endpoints' = [endpoints EXCEPT ![e] = @ \cup {t}]
       /\ Returned(e, TRUE)
       /\ UNCHANGED created
    \* Endpoint not found: a new Endpoint with the new Transport is returned
    \* as (false, ...); the code does not insert it into self.endpoints.
    \/ /\ ~Registered(e) /\ created < MaxEndpoints
       /\ created' = created + 1
       /\ Returned(e, FALSE)
       /\ UNCHANGED endpoints

\* Any peer on any path.
Next == \E e \in EndpointIds, t \in FourTuples : AddEndpoint(e, t)

Spec == Init /\ [][Next]_vars

\* spec 4.2 and 8: once add_endpoint has been called for a peer, a later call
\* for the same EndpointId finds its Endpoint and returns "existing".
AddEndpointRemembers == lastAdd.seenBefore => lastAdd.existing

=============================================================================
