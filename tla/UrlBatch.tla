-------------------------------- MODULE UrlBatch --------------------------------
(***************************************************************************)
(* The statistics of several links in one GraphQL request: the data loader *)
(* gathers the short URLs asked for, looks all of them up in the cache and *)
(* asks the shard for the rest.  From GraphQLFrontend/GraphQL/             *)
(* UrlDataLoader.cs, FrontendShared/Services/UrlService.cs (GetById,       *)
(* GetByIds), Shared/Services/CacheService.cs and GrpcBackend/Services/    *)
(* UrlService.cs with Repositories/UrlRepository.cs.  That the entries may *)
(* be out of date is UrlCache's matter: here a link is there or not.       *)
(***************************************************************************)
EXTENDS Integers, FiniteSets

CONSTANTS
    Links,    \* links of the user who asks
    Spellings \* ways to write a short URL, of which the first is the canonical one

VARIABLES
    rows,   \* the links that exist
    cached, \* the links whose statistics are in the cache
    fills,  \* the entries that the backend's queue is going to set
    alone,  \* history: the links that the shard answered a request of one link for
    batch   \* the request

vars == <<rows, cached, fills, alone, batch>>

Canonical == 1
Url == [link: Links, spelling: 1 .. Spellings]

\* ParseUrl does not look at the host: two spellings are the same link twice.
IdsOf(urls) == {u.link : u \in urls}
HasDuplicates(urls) == Cardinality(IdsOf(urls)) < Cardinality(urls)

NoBatch == [state |-> "none", asked |-> {}, found |-> {}, gone |-> {}]

Init ==
    /\ rows = Links /\ cached = {} /\ fills = {} /\ alone = {}
    /\ batch = NoBatch

-------------------------------------------------------------------------------
(* LoadBatchAsync *)

\* The URLs of found are those of the request that the dictionary has.
Becomes(state, found) == batch' = [batch EXCEPT !.state = state, !.found = found]

Load(urls) ==
    /\ batch.state = "none"
    /\ batch' = [state |-> "cache", asked |-> urls, found |-> {}, gone |-> Links \ rows]
    /\ UNCHANGED <<rows, cached, fills, alone>>

One == Cardinality(batch.asked) = 1

\* One URL: GetById, whose answer goes by the URL as it was written.
GetByIdCached ==
    /\ batch.state = "cache" /\ One
    /\ IF IdsOf(batch.asked) \subseteq cached
       THEN Becomes("answered", batch.asked) ELSE Becomes("shard", {})
    /\ UNCHANGED <<rows, cached, fills, alone>>

\* The backend, which queues an entry for the link.
GetById ==
    /\ batch.state = "shard" /\ One
    /\ LET ids == IdsOf(batch.asked)
       IN IF ids \subseteq rows
          THEN /\ Becomes("answered", batch.asked)
               /\ fills' = fills \union ids /\ alone' = alone \union ids
          ELSE Becomes("failed", {}) /\ UNCHANGED <<fills, alone>>
    /\ UNCHANGED <<rows, cached>>

ByCanonicalUrl(urls) == {u \in urls : u.spelling = Canonical}

\* Mutant: it is enough to find some of them.
GetByIdsCached_Some ==
    /\ batch.state = "cache" /\ ~One
    /\ IF HasDuplicates(batch.asked) THEN Becomes("failed", {})
       ELSE IF IdsOf(batch.asked) \intersect cached # {}
       THEN Becomes("answered", ByCanonicalUrl(batch.asked))
       ELSE Becomes("shard", {})
    /\ UNCHANGED <<rows, cached, fills, alone>>

\* More: one look-up of all keys, whose answers go into a dictionary by key, which
\* throws at a second one.  The result has the links by the URLs that the frontend
\* makes of their ids, so that the loader finds none under another spelling.
GetByIdsCached ==
    /\ batch.state = "cache" /\ ~One
    /\ IF HasDuplicates(batch.asked) THEN Becomes("failed", {})
       ELSE IF IdsOf(batch.asked) \subseteq cached
       THEN Becomes("answered", ByCanonicalUrl(batch.asked))
       ELSE Becomes("shard", {})
    /\ UNCHANGED <<rows, cached, fills, alone>>

\* The backend's query gets the list of its parameters as one parameter, which the
\* database driver cannot write: it throws for any ids.
GetByIds ==
    /\ batch.state = "shard" /\ ~One
    /\ Becomes("failed", {})
    /\ UNCHANGED <<rows, cached, fills, alone>>

\* The owner goes on with another request.
Done ==
    /\ batch.state \in {"answered", "failed"} /\ batch' = NoBatch
    /\ UNCHANGED <<rows, cached, fills, alone>>

-------------------------------------------------------------------------------
(* Meanwhile *)

Fill(l) ==
    /\ l \in fills /\ fills' = fills \ {l} /\ cached' = cached \union {l}
    /\ UNCHANGED <<rows, alone, batch>>

\* Fifteen minutes, or a removal after an Update.
Expire(l) ==
    /\ l \in cached /\ cached' = cached \ {l}
    /\ UNCHANGED <<rows, fills, alone, batch>>

Delete(l) ==
    /\ l \in rows /\ rows' = rows \ {l}
    /\ batch' = [batch EXCEPT !.gone = @ \union {l}]
    /\ UNCHANGED <<cached, fills, alone>>

Next ==
    \/ \E urls \in (SUBSET Url) \ {{}} : Load(urls)
    \/ GetByIdCached \/ GetById \/ GetByIdsCached \/ GetByIds \/ Done
    \/ \E l \in Links : Fill(l) \/ Expire(l) \/ Delete(l)

Spec == Init /\ [][Next]_vars

-------------------------------------------------------------------------------
(* Properties *)

\* Every variable has its type.
TypeOK ==
    /\ rows \subseteq Links /\ cached \subseteq Links /\ fills \subseteq Links
    /\ alone \subseteq Links
    /\ batch \in [state: {"none", "cache", "shard", "answered", "failed"},
                  asked: SUBSET Url, found: SUBSET Url, gone: SUBSET Links]

\* A batch of several links is answered only if the shard has answered requests of
\* each of them alone: batches bring nothing into the cache that later ones need.
BatchesNeedSingleRequests ==
    batch.state = "answered" /\ ~One => IdsOf(batch.asked) \subseteq alone

\* Links that exist can be asked for together, by their own URLs ("Use data loaders
\* in GraphQL to avoid n+1 performance hits", README.md:19).
BatchIsAnswered ==
    batch.state = "failed" =>
        \/ batch.gone # {} \/ \E u \in batch.asked : u.spelling # Canonical
===============================================================================
