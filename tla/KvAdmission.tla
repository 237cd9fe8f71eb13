---------------------------- MODULE KvAdmission ----------------------------
(***************************************************************************)
(* KvAdmissionPool (crates/core/engine/src/admission.rs): KV pages         *)
(* reserved for requests, by the number of tokens they may need.  The      *)
(* counter of reservation IDs wraps, and a long-lived request may still    *)
(* hold an ID when the counter comes round to it.                          *)
(***************************************************************************)
EXTENDS Integers, Functions

CONSTANTS
  PageTokens,   \* KvPageTokens
  PageCount,    \* KvPagePlan::page_count
  Demand,       \* tokens a request may ask for
  MaxId         \* the last reservation ID (u64::MAX in the code)

ASSUME KvAssumption ==
  /\ PageTokens \in Nat \ {0} /\ PageCount \in Nat \ {0} /\ Demand \subseteq Nat
  /\ MaxId \in Nat /\ MaxId > PageCount

VARIABLES
  reserved,     \* reservations: [IDs held -> pages]
  usedPages,    \* used_pages
  nextId,       \* next_reservation
  answer        \* what the last call returned

kvVars == <<reserved, usedPages, nextId, answer>>

KvIds == 1 .. MaxId

KvInit == reserved = <<>> /\ usedPages = 0 /\ nextId = 1 /\ answer = <<"none", 0>>

\* KvPagePlan::pages_for
PagesFor(tokens) == (tokens + PageTokens - 1) \div PageTokens

\* The counter after `id`, which skips no value but 0 when it wraps.
After(id) == IF id = MaxId THEN 1 ELSE id + 1

\* A mutated FreshIds: the counter's value is taken even if it is held.
NextIdAnyway == {nextId}

\* allocate_id: the first ID from the counter on that nobody holds.
FreshIds ==
  {id \in KvIds \ DOMAIN reserved :
     \A held \in KvIds : (IF id >= nextId THEN held \in nextId .. id - 1
                          ELSE held >= nextId \/ held < id) => held \in DOMAIN reserved}

\* reserve_tokens that succeeds.
ReserveTokens(tokens) ==
  /\ tokens # 0
  /\ PagesFor(tokens) <= PageCount - usedPages
  /\ \E id \in FreshIds :
       /\ reserved' = [held \in DOMAIN reserved \cup {id} |->
                         IF held = id THEN PagesFor(tokens) ELSE reserved[held]]
       /\ nextId' = After(id)
       /\ answer' = <<"given", id>>
  /\ usedPages' = usedPages + PagesFor(tokens)

\* reserve_tokens that refuses, of no tokens or of more pages than are left.
RefuseTokens(tokens) ==
  /\ tokens = 0 \/ PagesFor(tokens) > PageCount - usedPages
  /\ answer' = <<"refused", 0>>
  /\ UNCHANGED <<reserved, usedPages, nextId>>

\* A mutated ReleasePages: the pages stay counted.
ReleasePagesLeaking(id) ==
  /\ id \in DOMAIN reserved
  /\ reserved' = [held \in DOMAIN reserved \ {id} |-> reserved[held]]
  /\ answer' = <<"released", id>>
  /\ UNCHANGED <<usedPages, nextId>>

\* release of a reservation that is held.
ReleasePages(id) ==
  /\ id \in DOMAIN reserved
  /\ usedPages' = usedPages - reserved[id]
  /\ reserved' = [held \in DOMAIN reserved \ {id} |-> reserved[held]]
  /\ answer' = <<"released", id>>
  /\ UNCHANGED nextId

\* release of one that is not, or no longer.
ReleaseUnknown(id) ==
  /\ id \notin DOMAIN reserved
  /\ answer' = <<"unknown", id>>
  /\ UNCHANGED <<reserved, usedPages, nextId>>

KvNext ==
  \/ \E tokens \in Demand : ReserveTokens(tokens) \/ RefuseTokens(tokens)
  \/ \E id \in KvIds : ReleasePages(id) \/ ReleaseUnknown(id)

KvSpec == KvInit /\ [][KvNext]_kvVars

----------------------------------------------------------------------------
(* Properties.                                                             *)

\* The pages counted as used are the pages reservations hold, never more than
\* the pool has, so every release succeeds and an idle pool is an empty one.
PagesExact ==
  /\ usedPages = SumFunctionOnSet(reserved, DOMAIN reserved)
  /\ usedPages <= PageCount

\* A reservation keeps its pages until it is released: reserving never takes
\* an ID that is still held, wherever the counter has wrapped to, and a refused
\* or unknown call changes nothing.
ReservationsKept ==
  \A id \in DOMAIN reserved :
    IF id \in DOMAIN reserved'
    THEN reserved'[id] = reserved[id] /\ answer' # <<"given", id>>
    ELSE answer' = <<"released", id>>

\* Every call leaves the pages exact and the reservations of others alone.
PagesAreReserved == [][PagesExact' /\ ReservationsKept]_kvVars
=============================================================================
