--------------------------- MODULE NewsDiscovery ---------------------------
(***************************************************************************)
(* Registration of news items: discovery jobs that collect a page of       *)
(* items, and submit_news_url, which registers one link an operator typed. *)
(* A run registers all its items in one transaction, an item already known *)
(* (by the unique index on the canonical URL) being a DUPLICATE, and after *)
(* the commit enqueues one metadata job for each item it has registered    *)
(* itself, one after another.                                              *)
(*                                                                         *)
(* PostgreSQL: an insert that meets the uncommitted insert of the same URL *)
(* waits for that transaction to end.  Runs that list the same articles in *)
(* different orders may wait for each other; PostgreSQL then aborts one of *)
(* them, which here is one of the ways a run may be aborted.               *)
(* The sources have been seeded, and their status does not change.         *)
(***************************************************************************)
EXTENDS NewsCollection

CONSTANTS Discoverers,    \* runs of the two discovery jobs
          Operators,      \* runs of submit_news_url
          Pages,          \* pages a source may show
          Links,          \* links an operator may submit
          Collectable,    \* sources whose status is ENABLED
          MaxItems        \* max_items of the jobs

ASSUME DiscoveryAssumption ==
    /\ Discoverers \cap Operators = {}
    /\ Collectable \subseteq Collected
    /\ MaxItems \in 1..50

(* A page is a sequence of anchors, the path of a link one of segments.    *)
ASSUME PagesAssumption ==
    \A page \in Pages :
        /\ page \in Seq(ToSet(page))
        /\ \A k \in DOMAIN page :
              page[k].link.path \in Seq(ToSet(page[k].link.path))

(* No source is at an address that _normalize_hostname refuses. *)
ASSUME HostsAssumption ==
    \A source \in Sources : Catalogue[source].host \notin PrivateHosts

Runs == Discoverers \cup Operators

VARIABLES intakes,   \* intakes committed, each with its pending rows
          jobs,      \* canonical URLs whose metadata job was enqueued
          lost,      \* those whose run was aborted before that
          run        \* each run

vars == <<intakes, jobs, lost, run>>

CanonicalUrls ==
    UNION {{CollectorUrl(s, p[k].link) : k \in DOMAIN p} :
              s \in Collectable, p \in Pages}
    \cup {ResolvedUrl(l) : l \in Links}

Intakes == [url : CanonicalUrls, source : Sources,
            link : Links \cup {Link(u) : u \in CanonicalUrls \ {NoUrl}}]

NoPage == <<>>

RunStates == [pc : {"idle", "register", "enqueue"},
              source : Sources,
              page : Pages \cup {NoPage},   \* as long as all items are left
              left : Seq(Intakes),     \* items not registered yet
              mine : SUBSET Intakes,   \* inserted, uncommitted
              todo : Seq(CanonicalUrls)]

Idle == [pc |-> "idle", source |-> "giants_official_news", page |-> NoPage,
         left |-> <<>>, mine |-> {}, todo |-> <<>>]

TypeOK ==
    /\ intakes \subseteq Intakes
    /\ jobs \subseteq CanonicalUrls /\ lost \subseteq CanonicalUrls
    /\ DOMAIN run = Runs
    /\ \A r \in Runs : /\ run[r].pc \in {"idle", "register", "enqueue"}
                       /\ run[r].mine \subseteq Intakes

Init ==
    /\ intakes = {}
    /\ jobs = {}
    /\ lost = {}
    /\ run = [r \in Runs |-> Idle]

-----------------------------------------------------------------------------
UrlsOf(S) == {i.url : i \in S}

(* What a discovery registers of an item: the canonical URL twice. *)
CollectedIntake(source, url) ==
    [url |-> url, source |-> source, link |-> Link(url)]

(* What the parsers make of each page. *)
Items == [source \in Collectable |->
             [page \in Pages |-> Parsed(source, page, MaxItems)]]

(* The collector fetches and parses the page of an enabled source; one     *)
(* that fails, or shows nothing, ends the run and changes nothing.         *)
Collect(r, source, page) ==
    LET items == Items[source][page]
    IN  /\ run[r].pc = "idle"
        /\ items # <<>>
        /\ run' = [run EXCEPT ![r] =
             [Idle EXCEPT !.pc = "register", !.source = source, !.page = page,
                          !.left = [n \in DOMAIN items |->
                                      CollectedIntake(source, items[n])]]]
        /\ UNCHANGED <<intakes, jobs, lost>>

(* submit_news_url: the link is resolved and registered like an item. *)
Submit(r, link) ==
    /\ run[r].pc = "idle"
    /\ Accepted(link)
    /\ run' = [run EXCEPT ![r] =
         [Idle EXCEPT !.pc = "register", !.source = ResolvedSource(link),
                      !.left = <<[url |-> ResolvedUrl(link), link |-> link,
                                  source |-> ResolvedSource(link)]>>]]
    /\ UNCHANGED <<intakes, jobs, lost>>

Registering(r) == run[r].pc = "register" /\ run[r].left # <<>>

(* r inserts a URL that s has inserted and not committed. *)
WaitsFor(r, s) ==
    /\ r # s /\ Registering(r)
    /\ Head(run[r].left).url \in UrlsOf(run[s].mine)

Waits(r) == \E s \in Runs : WaitsFor(r, s)

Stored(r) == UrlsOf(intakes \cup run[r].mine)

(* RegisterCollectedNewsItem, a known item; a host other than the source's *)
(* raises.                                                                 *)
FindDuplicate(r) ==
    /\ Registering(r)
    /\ MatchesSourceHost(run[r].source, Head(run[r].left).url)
    /\ Head(run[r].left).url \in Stored(r)
    /\ run' = [run EXCEPT ![r].left = Tail(@), ![r].page = NoPage]
    /\ UNCHANGED <<intakes, jobs, lost>>

(* (Mutated form of Insert: the job of a known item is enqueued again.) *)
InsertAnyway(r) ==
    /\ Registering(r)
    /\ MatchesSourceHost(run[r].source, Head(run[r].left).url)
    /\ ~Waits(r)
    /\ run' = [run EXCEPT ![r].left = Tail(@), ![r].page = NoPage,
                          ![r].mine = @ \cup {Head(run[r].left)},
                          ![r].todo = Append(@, Head(run[r].left).url)]
    /\ UNCHANGED <<intakes, jobs, lost>>

(* RegisterCollectedNewsItem, a new item: the insert in a savepoint, then  *)
(* the rows of its job, metadata and relevance analysis.                   *)
Insert(r) ==
    /\ Registering(r)
    /\ MatchesSourceHost(run[r].source, Head(run[r].left).url)
    /\ Head(run[r].left).url \notin Stored(r)
    /\ ~Waits(r)
    /\ run' = [run EXCEPT ![r].left = Tail(@), ![r].page = NoPage,
                          ![r].mine = @ \cup {Head(run[r].left)},
                          ![r].todo = Append(@, Head(run[r].left).url)]
    /\ UNCHANGED <<intakes, jobs, lost>>

Commit(r) ==
    /\ run[r].pc = "register"
    /\ run[r].left = <<>>
    /\ intakes' = intakes \cup run[r].mine
    /\ run' = [run EXCEPT ![r] = [Idle EXCEPT !.pc = "enqueue",
                                              !.todo = run[r].todo]]
    /\ UNCHANGED <<jobs, lost>>

(* The next metadata job; its id is that of the item's processing job, and *)
(* a DuplicateJobError is not caught.                                      *)
Enqueue(r) ==
    /\ run[r].pc = "enqueue"
    /\ run[r].todo # <<>>
    /\ Head(run[r].todo) \notin jobs
    /\ jobs' = jobs \cup {Head(run[r].todo)}
    /\ run' = [run EXCEPT ![r].todo = Tail(@)]
    /\ UNCHANGED <<intakes, lost>>

(* (Mutated form of Finish: after the first job.) *)
FinishEarly(r) ==
    /\ run[r].pc = "enqueue"
    /\ Len(run[r].todo) <= 1
    /\ run' = [run EXCEPT ![r] = Idle]
    /\ UNCHANGED <<intakes, jobs, lost>>

Finish(r) ==
    /\ run[r].pc = "enqueue"
    /\ run[r].todo = <<>>
    /\ run' = [run EXCEPT ![r] = Idle]
    /\ UNCHANGED <<intakes, jobs, lost>>

(* The process dies, the database raises (as it does in a transaction that *)
(* it aborts to end a deadlock), or Redis does; nothing catches it.  The   *)
(* transaction rolls back, or the jobs still to enqueue are forgotten.     *)
Abort(r) ==
    /\ run[r].pc # "idle"
    /\ run' = [run EXCEPT ![r] = Idle]
    /\ lost' = IF run[r].pc = "enqueue" THEN lost \cup ToSet(run[r].todo)
                                        ELSE lost
    /\ UNCHANGED <<intakes, jobs>>

Begin ==
    \/ \E r \in Discoverers, s \in Collectable, p \in Pages : Collect(r, s, p)
    \/ \E r \in Operators, l \in Links : Submit(r, l)

Step(r) ==
    \/ FindDuplicate(r) \/ Insert(r) \/ Commit(r)
    \/ Finish(r) \/ Abort(r)

Next == Begin \/ \E r \in Runs : Step(r) \/ Enqueue(r)

Spec == Init /\ [][Next]_vars

-----------------------------------------------------------------------------
(* An item is in the hands of one run at most and has no job yet: however  *)
(* discoveries and submissions overlap, are retried or die,                *)
(* EnqueueNewsMetadataProcessing never meets a DuplicateJobError, which    *)
(* its callers do not catch.                                               *)
EnqueuedByRegistrarOnly ==
    \A r \in Runs : run[r].pc = "enqueue" =>
        /\ ToSet(run[r].todo) \cap jobs = {}
        /\ \A s \in Runs \ {r} :
              run[s].pc = "enqueue" =>
                 ToSet(run[r].todo) \cap ToSet(run[s].todo) = {}

(* Only an aborted run leaves an item without its metadata job, although   *)
(* the page is committed as a whole and its jobs are enqueued one by one.  *)
NothingForgotten ==
    \A u \in UrlsOf(intakes) :
        \/ u \in jobs \cup lost
        \/ \E r \in Runs : run[r].pc = "enqueue" /\ u \in ToSet(run[r].todo)

(* Articles are told apart by their canonical URLs, which the collectors   *)
(* and the resolver make in different ways.  Links that lead a collector   *)
(* to one article never make two intakes, however they are written and     *)
(* whoever comes first, unless they carry a query of their own.            *)
OneIntakePerArticle ==
    \A i, j \in intakes :
        /\ i.link.query \cup j.link.query \subseteq Tracking
        /\ \E s \in Collected : /\ CollectorUrl(s, i.link) # NoUrl
                                /\ CollectorUrl(s, i.link) = CollectorUrl(s, j.link)
        => i = j

(* The URL of an intake, typed in again, is accepted as it stands and      *)
(* belongs to the same source, whichever way it has come in.               *)
StoredUrlsResolve ==
    \A i \in intakes :
        /\ Accepted(Link(i.url))
        /\ ResolvedUrl(Link(i.url)) = i.url
        /\ ResolvedSource(Link(i.url)) = i.source

Articles == [source \in Collectable |->
                [page \in Pages |-> FirstComplete(source, page, MaxItems)]]

(* A page gives each of its articles once, by the first anchor that is     *)
(* complete, and the first max_items of them: pictures, undated anchors    *)
(* and repetitions neither use up the limit nor hide an article.           *)
CollectsFirstComplete ==
    \A r \in Discoverers : run[r].page # NoPage =>
        [n \in DOMAIN run[r].left |-> run[r].left[n].url]
          = Articles[run[r].source][run[r].page]

=============================================================================
