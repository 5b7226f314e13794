-------------------------- MODULE MCNewsDiscovery --------------------------
(***************************************************************************)
(* Two discovery runs and one operator.  The pages list the articles of    *)
(* Hochi in opposite orders, with repetitions, pictures, undated and badly *)
(* dated anchors, a foreign host and one item more than the limit; the     *)
(* operator submits articles that the pages list, and links that are       *)
(* refused.                                                                *)
(***************************************************************************)
EXTENDS NewsDiscovery

CONSTANTS d1, d2, o1

MCDiscoverers == {d1, d2}
MCOperators   == {o1}

Plain(host, path, slash) ==
    [secure |-> TRUE, dot |-> FALSE, port |-> "default", user |-> FALSE,
     host |-> host, path |-> path, slash |-> slash, query |-> {}]

Hochi(name) == Plain("hochi.news", <<"articles", name>>, FALSE)
Giants(number) == Plain("www.giants.jp", <<"news", number>>, TRUE)

Anchor(link, title, own, card) ==
    [link |-> link, title |-> title, own |-> own, card |-> card]

Headline(link) == Anchor(link, TRUE, "valid", "valid")
Picture(link)  == Anchor(link, FALSE, "none", "valid")
Undated(link)  == Anchor(link, TRUE, "none", "none")
Misdated(link) == Anchor(link, TRUE, "bad", "bad")

FrontPage ==
    << Headline([Hochi("a1") EXCEPT !.secure = FALSE]),
       Picture([Hochi("a1") EXCEPT !.host = "www.hochi.news"]),
       Misdated(Hochi("a2")),
       Headline([Hochi("a1") EXCEPT !.query = {"utm_source"}]),
       Headline([Hochi("a1") EXCEPT !.host = "news.example"]),
       Headline([Hochi("a2") EXCEPT !.host = "www.hochi.news"]),
       Undated([Giants("1") EXCEPT !.host = "giants.jp"]),
       Headline(Plain("www.giants.jp", <<"news">>, TRUE)) >>

ListPage ==
    << Headline(Hochi("a2")), Headline(Hochi("a2")), Picture(Hochi("a1")),
       Headline(Hochi("a1")), Headline(Hochi("a3")),
       Headline([Hochi("a3") EXCEPT !.slash = TRUE]) >>

MCPages == {FrontPage, ListPage}

MCLinks ==
    { [Hochi("a1") EXCEPT !.query = {"utm_source"}, !.port = "443"],
      Giants("1"),
      [Hochi("a1") EXCEPT !.secure = FALSE],
      [Hochi("a1") EXCEPT !.user = TRUE],
      [Hochi("a1") EXCEPT !.port = "8443"],
      [Hochi("a1") EXCEPT !.host = "www.hochi.news"],
      [Giants("1") EXCEPT !.host = "127.0.0.1"],
      Plain("www.giants.jp", <<"farm", "1">>, FALSE) }

=============================================================================
