----------------------------- MODULE ArticleUrl -----------------------------
(***************************************************************************)
(* The links to articles and the canonical URLs made of them, in two ways: *)
(* by the collectors, from the anchors of a page, and by the resolver of   *)
(* submit_news_url, from what an operator types.  A canonical URL is the   *)
(* key of an intake, so the two must agree on an article.                  *)
(*                                                                         *)
(* A path is the sequence of its segments and whether it ends in a slash;  *)
(* a query is a set of parameters.  Hosts are in lower case.  A relative   *)
(* link is taken as resolved, and what no definition below looks at (the   *)
(* fragment, the length of a link) is left out.                            *)
(***************************************************************************)
EXTENDS FiniteSets, SequencesExt

CONSTANTS Numbers,        \* path segments of digits only
          HochiNames,     \* path segments <date>-OHT1T<number>.html
          Tracking,       \* parameters named in _TRACKING_PARAMETERS, utm_*
          PrivateHosts,   \* addresses, localhost and reserved suffixes
          NoUrl

(* base_url of the catalogue. *)
Site(host, path) == [host |-> host, path |-> path]

Catalogue ==
    [giants_official_news     |-> Site("www.giants.jp", <<"news">>),
     giants_official_schedule |-> Site("www.giants.jp", <<"schedule", "first-team">>),
     npb_official_schedule    |-> Site("npb.jp", <<"bis", "2026", "games">>),
     npb_official_stats       |-> Site("npb.jp", <<"bis", "2026", "stats">>),
     hochi_giants_x           |-> Site("x.com", <<"hochi_giants">>),
     hochi_giants_articles    |-> Site("hochi.news", <<"giants">>),
     hochi_giants_instagram   |-> Site("www.instagram.com", <<"sportshochi_giants">>)]

Sources == DOMAIN Catalogue

-----------------------------------------------------------------------------
(* A canonical URL: https, no port, no fragment. *)
Url(host, link, query) ==
    [host |-> host, path |-> link.path, slash |-> link.slash, query |-> query]

(* A canonical URL typed in again. *)
Link(url) ==
    [secure |-> TRUE, dot |-> FALSE, port |-> "default", user |-> FALSE,
     host |-> url.host, path |-> url.path, slash |-> url.slash,
     query |-> url.query]

(* _ARTICLE_PATH_PATTERN of each collector. *)
GiantsArticle(link) ==
    Len(link.path) = 2 /\ link.path[1] = "news" /\ link.path[2] \in Numbers

HochiArticle(link) ==
    /\ Len(link.path) = 2 /\ link.path[1] = "articles"
    /\ link.path[2] \in HochiNames /\ ~link.slash

GiantsUrl(link) ==
    IF /\ link.secure /\ ~link.dot
       /\ link.host \in {"www.giants.jp", "giants.jp"}
       /\ GiantsArticle(link)
      THEN Url("www.giants.jp", link, {}) ELSE NoUrl

HochiUrl(link) ==
    IF /\ link.secure /\ ~link.dot
       /\ link.host \in {"hochi.news", "www.hochi.news"}
       /\ HochiArticle(link)
      THEN Url("hochi.news", link, {}) ELSE NoUrl

(* The sources that have a collector. *)
Collected == {"giants_official_news", "hochi_giants_articles"}

CollectorUrl(source, link) ==
    IF source = "giants_official_news" THEN GiantsUrl(link) ELSE HochiUrl(link)

-----------------------------------------------------------------------------
(* _parse_submitted_url and _normalize_hostname. *)
Safe(link) ==
    /\ link.secure /\ ~link.user
    /\ link.port \in {"default", "443"}
    /\ link.host \notin PrivateHosts

(* (Mutated form of PathMatches: only paths under the one of the source.) *)
PathIsUnder(source, link) == IsPrefix(Catalogue[source].path, link.path)

PathMatches(source, link) ==
    \/ IsPrefix(Catalogue[source].path, link.path)
    \/ source = "hochi_giants_articles" /\ HochiArticle(link)

(* _match_source: of the sources that match, those with the longest path. *)
Matches(link) ==
    LET all == {s \in Sources : /\ Catalogue[s].host = link.host
                                /\ PathMatches(s, link)}
    IN  {s \in all : \A t \in all :
                        Len(Catalogue[t].path) <= Len(Catalogue[s].path)}

(* No ManualNewsUrlError is raised. *)
Accepted(link) == Safe(link) /\ Cardinality(Matches(link)) = 1

ResolvedSource(link) == CHOOSE s \in Sources : Matches(link) = {s}

(* (Mutated form of ResolvedUrl: the whole query is kept.) *)
ResolvedWithQuery(link) == Url(link.host, link, link.query)

ResolvedUrl(link) == Url(link.host, link, link.query \ Tracking)

(* _matches_source_host. *)
MatchesSourceHost(source, url) == url.host = Catalogue[source].host

=============================================================================
