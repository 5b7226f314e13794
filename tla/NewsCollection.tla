--------------------------- MODULE NewsCollection ---------------------------
(***************************************************************************)
(* The parsers of the two collectors: from the anchors of a page, in       *)
(* document order, to the canonical URLs of the items collected.  An       *)
(* anchor has a link, a title (its text without the date, which may be     *)
(* empty, as that of a picture), the first date in its own text and the    *)
(* first date in the text of the card around it, its own text included.    *)
(* The cards of a page share one list element.  A date is "none", "valid"  *)
(* or "bad", digits in the form of a date; which date it is does not       *)
(* matter, since nothing stores it.                                        *)
(***************************************************************************)
EXTENDS ArticleUrl, Naturals

(* _find_published_at of the Giants parser: the first date in the text of  *)
(* the anchor, of its card, of the list that holds the cards.              *)
GiantsDate(page, k) ==
    LET dated == {n \in DOMAIN page : page[n].card # "none"}
        first == CHOOSE n \in dated : \A m \in dated : n <= m
    IN  CASE page[k].own # "none" -> page[k].own
          [] page[k].own = "none" /\ page[k].card # "none" -> page[k].card
          [] OTHER -> IF dated = {} THEN "none" ELSE page[first].card

(* _extract_published_at of the Hochi parser: the end of the anchor's text. *)
HochiDate(page, k) == page[k].own

PublishedAt(source, page, k) ==
    IF source = "giants_official_news" THEN GiantsDate(page, k)
                                       ELSE HochiDate(page, k)

ItemUrl(source, page, k) == CollectorUrl(source, page[k].link)

(* The anchor has what an item needs. *)
Complete(source, page, k) ==
    /\ ItemUrl(source, page, k) # NoUrl
    /\ PublishedAt(source, page, k) = "valid"
    /\ page[k].title

(* (Mutated form of Scanned: a URL counts as seen with its first anchor.)  *)
ScannedFirstAnchors(source, page, max, items, k) ==
    IF /\ Len(items) < max
       /\ \A j \in 1..(k - 1) : ItemUrl(source, page, j) # ItemUrl(source, page, k)
       /\ Complete(source, page, k)
      THEN Append(items, ItemUrl(source, page, k)) ELSE items

(* One iteration of the loop over the anchors. *)
Scanned(source, page, max, items, k) ==
    IF /\ Len(items) < max
       /\ ItemUrl(source, page, k) \notin ToSet(items)
       /\ Complete(source, page, k)
      THEN Append(items, ItemUrl(source, page, k)) ELSE items

(* GiantsOfficialNewsParser.parse, HochiGiantsArticlesParser.parse. *)
Parsed(source, page, max) ==
    LET items[k \in 0..Len(page)] ==
          IF k = 0 THEN <<>> ELSE Scanned(source, page, max, items[k - 1], k)
    IN  items[Len(page)]

(***************************************************************************)
(* What a parser is for: each article of the page once, in the order of    *)
(* their first complete anchors, and of these the first max.               *)
(***************************************************************************)
FirstComplete(source, page, max) ==
    LET first == {k \in DOMAIN page :
                    /\ Complete(source, page, k)
                    /\ \A j \in 1..(k - 1) : Complete(source, page, j) =>
                          ItemUrl(source, page, j) # ItemUrl(source, page, k)}
        chosen == {k \in first : Cardinality({j \in first : j < k}) < max}
    IN  [n \in 1..Cardinality(chosen) |->
            ItemUrl(source, page,
                    CHOOSE k \in chosen :
                       Cardinality({j \in chosen : j < k}) = n - 1)]

=============================================================================
