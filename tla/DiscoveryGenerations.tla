------------------------- MODULE DiscoveryGenerations --------------------------
(***************************************************************************)
(* The evidence of a discovery source (handler.py): a generation is        *)
(* declared against a revision of the source, uploaded page by page to     *)
(* objects and items, and committed in one transaction.  Requests present  *)
(* the token of the source's connector (DiscoveryConnectors), come in any  *)
(* order and more than once, and may end anywhere.                         *)
(***************************************************************************)
EXTENDS DiscoveryConnectors, Sequences, SequencesExt

CONSTANTS
    Publishers,     \* bound on the requests in flight
    GenerationIds,    \* the generations that are ever declared
    Contents,       \* what the observations of a page may be; two pages with
                    \* one content repeat its observations
    MaxPages,
    MaxEvidence,    \* bound on the source's revision, when a request reads it
    WithBaseline,   \* the source is of kind source_control
    Nowhere         \* no generation, no content

ASSUME EvidenceAssumption ==
    /\ Nowhere \notin GenerationIds \cup Contents
    /\ {MaxPages, MaxEvidence} \subseteq Nat
    /\ WithBaseline \in BOOLEAN

VARIABLES
    source,        \* the DISCOVERY_SOURCE item; generation Nowhere is a snapshot
    generation,    \* the DISCOVERY_GENERATION items
    page,          \* the DISCOVERY_PAGE items: the content of the object they name
    object,        \* the page objects
    baseline,      \* the pages in the generations' baseline objects
    upload,        \* what each publisher's request does and remembers
    verified       \* history: the pages a generation was committed with

evidence == <<source, generation, page, object, baseline, upload, verified>>

Pages == 1 .. MaxPages

NoGeneration == [state |-> "absent", base |-> 0, count |-> 0]

NoUpload ==
    [at |-> "idle", gen |-> Nowhere, base |-> 0, page |-> 0, content |-> Nowhere, loaded |-> <<>>]

GenerationInit ==
    /\ source = [revision |-> 0, generation |-> Nowhere]
    /\ generation = [g \in GenerationIds |-> NoGeneration]
    /\ page = [g \in GenerationIds |-> [n \in Pages |-> Nowhere]]
    /\ object = [g \in GenerationIds |-> [n \in Pages |-> Nowhere]]
    /\ baseline = [g \in GenerationIds |-> <<>>]
    /\ upload = [p \in Publishers |-> NoUpload]
    /\ verified = [g \in GenerationIds |-> <<>>]

Then(p, u) == upload' = [upload EXCEPT ![p] = u]

\* The request ends: it is answered, conflicts, is refused, or its process stops.
Answer(p) == Then(p, NoUpload)

\* _discovery_connector_identity: the token is the connector's.  The check and
\* the request's first read are one step: neither depends on the other.
Authentic(p) == upload[p].at = "idle" /\ connector.status = "active"

\* The revision that the client expects is the source's.
BeginGeneration(p, g) ==
    /\ Authentic(p)
    /\ source.revision < MaxEvidence
    /\ Then(p, [upload[p] EXCEPT !.at = "declare", !.gen = g, !.base = source.revision])
    /\ UNCHANGED <<source, generation, page, object, baseline, verified>>

DeclareGeneration(p, count) ==
    /\ upload[p].at = "declare"
    /\ generation[upload[p].gen] = NoGeneration
    /\ generation' = [generation EXCEPT
          ![upload[p].gen] = [state |-> "uploading", base |-> upload[p].base, count |-> count]]
    /\ Answer(p)
    /\ UNCHANGED <<source, page, object, baseline, verified>>

BeginPage(p, g, n, c) ==
    /\ Authentic(p)
    /\ generation[g].state = "uploading"
    /\ n <= generation[g].count
    /\ Then(p, [upload[p] EXCEPT !.at = "object", !.gen = g, !.page = n, !.content = c])
    /\ UNCHANGED <<source, generation, page, object, baseline, verified>>

\* Only identical bytes resume an upload whose object is there.
StoreObject(p) ==
    LET u == upload[p] IN
    /\ u.at = "object"
    /\ object[u.gen][u.page] \in {Nowhere, u.content}
    /\ object' = [object EXCEPT ![u.gen][u.page] = u.content]
    /\ Then(p, [u EXCEPT !.at = "item"])
    /\ UNCHANGED <<source, generation, page, baseline, verified>>

StorePage(p) ==
    LET u == upload[p] IN
    /\ u.at = "item"
    /\ page[u.gen][u.page] = Nowhere
    /\ page' = [page EXCEPT ![u.gen][u.page] = u.content]
    /\ Answer(p)
    /\ UNCHANGED <<source, generation, object, baseline, verified>>

BeginCommit(p, g) ==
    /\ Authentic(p)
    /\ generation[g].state = "uploading"
    /\ Then(p, [upload[p] EXCEPT !.at = "load", !.gen = g, !.base = generation[g].base])
    /\ UNCHANGED <<source, generation, page, object, baseline, verified>>

\* Each page is there, is the one of the client's hash, and repeats no observation.
LoadPage(p) ==
    LET u == upload[p]
        next == Len(u.loaded) + 1
    IN
    /\ u.at = "load"
    /\ page[u.gen][next] # Nowhere
    /\ page[u.gen][next] = object[u.gen][next]
    /\ ~ Contains(u.loaded, page[u.gen][next])
    /\ Then(p, [u EXCEPT
          !.loaded = Append(@, page[u.gen][next]),
          !.at = IF next < generation[u.gen].count THEN "load"
                 ELSE IF WithBaseline THEN "baseline"
                 ELSE "commit"])
    /\ UNCHANGED <<source, generation, page, object, baseline, verified>>

StoreBaseline(p) ==
    LET u == upload[p] IN
    /\ u.at = "baseline"
    /\ baseline[u.gen] \in {<<>>, u.loaded}
    /\ baseline' = [baseline EXCEPT ![u.gen] = u.loaded]
    /\ Then(p, [u EXCEPT !.at = "commit"])
    /\ UNCHANGED <<source, generation, page, object, verified>>

\* Mutant: the transaction has no condition on the source.
CommittableAnyway(p) == generation[upload[p].gen].state = "uploading"

\* The source's revision and the generation's state are conditions of one
\* transaction.
Committable(p) ==
    /\ source.revision = upload[p].base
    /\ generation[upload[p].gen].state = "uploading"

CommitGeneration(p) ==
    LET u == upload[p] IN
    /\ u.at = "commit"
    /\ Committable(p)
    /\ source' = [revision |-> u.base + 1, generation |-> u.gen]
    /\ generation' = [generation EXCEPT ![u.gen].state = "committed"]
    /\ verified' = [verified EXCEPT ![u.gen] = u.loaded]
    /\ Answer(p)
    /\ UNCHANGED <<page, object, baseline>>

\* _publish_discovery_snapshot, an operator's request
BeginSnapshot(p) ==
    /\ upload[p].at = "idle"
    /\ source.revision < MaxEvidence
    /\ Then(p, [NoUpload EXCEPT !.at = "snapshot", !.base = source.revision])
    /\ UNCHANGED <<source, generation, page, object, baseline, verified>>

CommitSnapshot(p) ==
    /\ upload[p].at = "snapshot"
    /\ source.revision = upload[p].base
    /\ source' = [revision |-> upload[p].base + 1, generation |-> Nowhere]
    /\ Answer(p)
    /\ UNCHANGED <<generation, page, object, baseline, verified>>

EndUpload(p) ==
    /\ upload[p].at # "idle"
    /\ Answer(p)
    /\ UNCHANGED <<source, generation, page, object, baseline, verified>>

GenerationNext ==
    \E p \in Publishers :
       \/ \E g \in GenerationIds : BeginGeneration(p, g) \/ BeginCommit(p, g)
       \/ \E count \in Pages : DeclareGeneration(p, count)
       \/ \E g \in GenerationIds, n \in Pages, c \in Contents : BeginPage(p, g, n, c)
       \/ StoreObject(p) \/ StorePage(p) \/ LoadPage(p) \/ StoreBaseline(p)
       \/ CommitGeneration(p) \/ BeginSnapshot(p) \/ CommitSnapshot(p) \/ EndUpload(p)

\* The administrators' requests and the collections, and the publishers' requests,
\* which read the connector and change nothing of it.
DiscoveryInit == ConnectorInit /\ GenerationInit

DiscoveryNext ==
    \/ ConnectorNext /\ UNCHANGED evidence
    \/ GenerationNext /\ UNCHANGED connectors

DiscoverySpec == DiscoveryInit /\ [][DiscoveryNext]_<<connectors, evidence>>

-----------------------------------------------------------------------------
(* Properties *)

Committed == {g \in GenerationIds : generation[g].state = "committed"}

\* Whatever pages and commits race, a reader who loads a committed generation page
\* by page finds all of its pages, as its commit verified them and as they are in
\* its baseline; and of the generations declared against one revision of the
\* source one at most is committed: none is replaced by another that did not know
\* of it (_commit_discovery_generation, _discovery_generation_observations).
EvidenceIsWhole ==
    /\ source.generation \in Committed \cup {Nowhere}
    /\ \A g \in Committed :
          /\ Len(verified[g]) = generation[g].count
          /\ WithBaseline => baseline[g] = verified[g]
          /\ \A n \in 1 .. generation[g].count :
                verified[g][n] = page[g][n] /\ verified[g][n] = object[g][n]
          /\ generation[g].base < source.revision
          /\ \A h \in Committed : generation[g].base = generation[h].base => g = h
=============================================================================
