----------------------------- MODULE SiteCrawl -----------------------------
(* One request to the scanner's /scan/stream: which pages are crawled, what *)
(* is collected while a page sets and drops cookies, and the lines that     *)
(* reach the API's worker, which may go away at any time.                   *)
EXTENDS Integers, Sequences, FiniteSets, SequencesExt

CONSTANTS
  SitePages,      \* addresses on the site's domains
  OtherPages,     \* addresses elsewhere
  Defaults,       \* the addresses tried when no sitemap is found
  LastSitemap,    \* sitemaps are 1..LastSitemap; an index lists only later ones
  Cookies,        \* cookies by name and domain
  Respelt,        \* those whose header names the domain without its dot
  Local, Session, \* items of the two storages
  Planted,        \* the consent cookie that the crawler sets itself
  MaxPages,       \* the page limit of the request and of the settings
  MaxLocs,        \* how many addresses a sitemap has, at most
  MaxChanges      \* how often one page changes what the browser holds

VARIABLES
  source,   \* the request's urls and the web it looks for pages in
  task,     \* the crawl: "prepare", "launch", "crawl", "done"
  urls,     \* to_crawl
  page,     \* the page that is open, or the last one
  pages,    \* result.pages
  events,   \* the queue between the crawl and the response
  lines,    \* what the worker has read
  client    \* "waiting" for the stream, "reading", "gone"

crawlVars == <<source, task, urls, page, pages, events, lines, client>>

Urls == SitePages \cup OtherPages
Sitemaps == 1..LastSitemap

ASSUME CrawlAssumption ==
  /\ SitePages \cap OtherPages = {} /\ Defaults \in Seq(SitePages)
  /\ LastSitemap \in Nat \ {0} /\ MaxPages \in Nat /\ MaxLocs \in Nat /\ MaxChanges \in Nat
  /\ Planted \notin Cookies \cup Local \cup Session /\ Respelt \subseteq Cookies

-----------------------------------------------------------------------------
(* Which pages: a pure function of the request and of the web.              *)

\* Python's s[:n]
FirstOf(s, n) == SubSeq(s, 1, IF Len(s) \in 0..n THEN Len(s) ELSE n)

\* filter_site_urls
OnSite(s) == FlattenSeq([i \in DOMAIN s |-> IF s[i] \in SitePages THEN <<s[i]>> ELSE <<>>])

\* Mutation of PageUrls: the limit is taken before the addresses are filtered.
PageUrlsCutFirst(locs, n) == OnSite(FirstOf(locs, n))

\* A sitemap of pages: addresses outside the site are left out, then cut.
PageUrls(locs, n) == FirstOf(OnSite(locs), n)

\* An index is followed child by child until enough is found, each child asked for
\* what is still missing.
ChildUrls(children, n, Fetch) ==
  LET Upto[k \in 0..Len(children)] ==
        IF k = 0 THEN <<>>
        ELSE LET found == Upto[k - 1]
             IN  IF Len(found) >= n THEN found ELSE found \o Fetch[children[k]][n - Len(found)]
  IN  FirstOf(Upto[Len(children)], n)

\* _fetch_sitemap, for each limit: errors and HTML give nothing.
SitemapUrls(web, root, limit) ==
  LET Fetch[s \in Sitemaps] ==
        [n \in 0..MaxPages |->
           CASE web[s].kind = "index" -> ChildUrls(web[s].locs, n, Fetch)
             [] web[s].kind = "pages" -> PageUrls(web[s].locs, n)
             [] OTHER -> <<>>]
  IN  Fetch[root][limit]

\* discover_urls: sitemap.xml, then the sitemap of robots.txt if there is one,
\* then the defaults.
Discovered(src) ==
  LET first == SitemapUrls(src.web, 1, MaxPages)
      named == IF src.robots = 0 THEN <<>> ELSE SitemapUrls(src.web, src.robots, MaxPages)
  IN  CASE first # <<>> -> first
        [] first = <<>> /\ named # <<>> -> named
        [] OTHER -> FirstOf(Defaults, MaxPages)

\* _prepare_scan and crawl_site: the request's own urls if it has any.
ToCrawl(src) ==
  FirstOf(IF src.wanted = <<>> THEN Discovered(src) ELSE OnSite(src.wanted), MaxPages)

Documents(s) ==
  {[kind |-> "none", locs |-> <<>>]}
  \cup {[kind |-> "pages", locs |-> l] : l \in UNION {[1..k -> Urls] : k \in 1..MaxLocs}}
  \cup {[kind |-> "index", locs |-> l] :
          l \in UNION {[1..k -> {c \in Sitemaps : c > s}] : k \in 1..MaxLocs}}

Webs == {w \in [Sitemaps -> UNION {Documents(s) : s \in Sitemaps}] :
           \A s \in Sitemaps : w[s] \in Documents(s)}

-----------------------------------------------------------------------------
(* What is found on a page.                                                 *)

NoPage == [url |-> "none", step |-> "closed", changes |-> 0, jar |-> {}, store |-> {},
           first |-> {}, unread |-> {}, headers |-> {}, found |-> {}, made |-> {}]

\* _crawl_page: a new context, cleared, with the consent cookie alone.
FreshPage(url) == [NoPage EXCEPT !.url = url, !.step = "load", !.jar = {Planted}]

\* A cookie as the browser lists it, and as a Set-Cookie header names it: with
\* the domain spelt otherwise the two do not merge.
Listed(c) == [name |-> c, domain |-> "browser"]
InHeader(c) == [name |-> c, domain |-> IF c \in Respelt THEN "header" ELSE "browser"]

\* Both passes over the browser's cookies, then the headers.
Merged == {Listed(c) : c \in page.first \cup page.jar} \cup {InHeader(c) : c \in page.headers}

Names(items) == {i.name : i \in items}

\* Mutation of UniqueCookies: the last page that has an item is kept.
UniqueCookiesLast(ps) ==
  {[item |-> i, url |-> ps[CHOOSE k \in DOMAIN ps :
                             i \in ps[k].found /\ \A j \in (k + 1)..Len(ps) : i \notin ps[j].found].url] :
     i \in UNION {ps[k].found : k \in DOMAIN ps}}

\* unique_cookies: each item with the first page that has it.
UniqueCookies(ps) ==
  {[item |-> i, url |-> ps[CHOOSE k \in DOMAIN ps :
                             i \in ps[k].found /\ \A j \in 1..(k - 1) : i \notin ps[j].found].url] :
     i \in UNION {ps[k].found : k \in DOMAIN ps}}

-----------------------------------------------------------------------------
(* The crawl.                                                               *)

CrawlInit ==
  /\ source \in [wanted : {<<>>} \cup {<<u>> : u \in Urls}, web : Webs,
                 robots : {0} \cup (Sitemaps \ {1})]
  /\ task = "prepare" /\ urls = <<>> /\ page = NoPage /\ pages = <<>>
  /\ events = <<>> /\ lines = <<>> /\ client = "waiting"

End == [type |-> "end"]

\* Mutation of Progress: the running total counts what several pages have again.
ProgressTotal(ps) ==
  [type |-> "progress", pages |-> Len(ps), of |-> Len(urls),
   found |-> FoldLeft(LAMBDA n, p : n + Cardinality(p.found), 0, ps)]

\* on_page's line, and build_scan_response's.
Progress(ps) ==
  [type |-> "progress", pages |-> Len(ps), of |-> Len(urls), found |-> Cardinality(UniqueCookies(ps))]
Result(ps) == [type |-> "result", pages |-> Len(ps), cookies |-> UniqueCookies(ps)]

\* Mutation of Failure: the exception ends the task and nothing is queued.
FailureSilent == <<>>

\* crawl's except and finally.
Failure == <<[type |-> "error"], End>>

\* The request once its pages are known.
Nothing == [wanted |-> <<>>, web |-> [s \in Sitemaps |-> [kind |-> "none", locs |-> <<>>]], robots |-> 0]

\* _prepare_scan: a request with nothing to scan is refused before any line. What
\* it read of the web is not read again.
Prepare ==
  /\ task = "prepare"
  /\ urls' = ToCrawl(source)
  /\ task' = IF urls' = <<>> THEN "done" ELSE "launch"
  /\ client' = IF urls' = <<>> THEN "gone" ELSE "reading"
  /\ source' = Nothing
  /\ UNCHANGED <<page, pages, events, lines>>

\* chromium.launch, or its failure.
Launch ==
  /\ task = "launch"
  /\ \/ task' = "crawl" /\ UNCHANGED events
     \/ task' = "done" /\ events' = events \o Failure
  /\ UNCHANGED <<source, urls, page, pages, lines, client>>

OpenPage ==
  /\ task = "crawl" /\ page.step = "closed" /\ Len(pages) < Len(urls)
  /\ page' = FreshPage(urls[Len(pages) + 1])
  /\ UNCHANGED <<source, task, urls, pages, events, lines, client>>

OnPage(steps) ==
  /\ task = "crawl" /\ page.step \in steps
  /\ UNCHANGED <<source, task, urls, pages, events, lines, client>>

Open == {"load", "settle", "late", "local", "session"}

\* The page sets a cookie by script or by a response that the browser keeps, drops
\* one, gets one by a header alone, or stores an item.
PageActs ==
  /\ OnPage(Open) /\ page.changes < MaxChanges
  /\ \/ \E c \in Cookies, sent, kept \in BOOLEAN :
          /\ sent \/ kept
          /\ page' = [page EXCEPT !.made = @ \cup {c}, !.changes = @ + 1,
                        !.jar = IF kept THEN @ \cup {c} ELSE @,
                        !.unread = IF sent THEN @ \cup {c} ELSE @]
     \/ \E c \in page.jar \cap Cookies :
          page' = [page EXCEPT !.jar = @ \ {c}, !.changes = @ + 1]
     \/ \E i \in Local \cup Session :
          page' = [page EXCEPT !.store = @ \cup {i}, !.made = @ \cup {i}, !.changes = @ + 1]

\* _on_response waits for the headers; meanwhile the crawl goes on.
HeaderRead(c) ==
  /\ OnPage(Open) /\ c \in page.unread
  /\ page' = [page EXCEPT !.unread = @ \ {c}, !.headers = @ \cup {c}]

\* page.goto returns when the network is idle.
Loaded == OnPage({"load"}) /\ page' = [page EXCEPT !.step = "settle"]

\* Five seconds later, and two more.
FirstPass == OnPage({"settle"}) /\ page' = [page EXCEPT !.step = "late", !.first = page.jar]
SecondPass == OnPage({"late"}) /\ page' = [page EXCEPT !.step = "local", !.found = Merged]

ReadLocal ==
  /\ OnPage({"local"})
  /\ page' = [page EXCEPT !.step = "session", !.found = @ \cup {Listed(i) : i \in page.store \cap Local}]

ReadSession ==
  /\ OnPage({"session"})
  /\ page' = [page EXCEPT !.step = "read", !.found = @ \cup {Listed(i) : i \in page.store \cap Session}]

\* An error of the page, a timeout first of all, ends it with what it has.
PageFails == OnPage(Open) /\ page' = [page EXCEPT !.step = "read"]

\* _crawl_page closes the context, then crawl_site adds and reports the page.
ClosePage ==
  /\ task = "crawl" /\ page.step = "read"
  /\ pages' = Append(pages, [url |-> page.url, found |-> page.found, made |-> page.made])
  /\ page' = [page EXCEPT !.step = "closed"]
  /\ events' = Append(events, Progress(pages'))
  /\ UNCHANGED <<source, task, urls, lines, client>>

\* context.close or browser.close raises, which no except of the crawl catches but
\* the outermost: the page that was read is lost, or after the last the result.
CloseFails ==
  /\ task = "crawl"
  /\ page.step = "read" \/ (page.step = "closed" /\ Len(pages) = Len(urls))
  /\ task' = "done" /\ page' = [page EXCEPT !.step = "closed"] /\ events' = events \o Failure
  /\ UNCHANGED <<source, urls, pages, lines, client>>

\* crawl: after the last page the browser is closed; then the result and the end.
Finish ==
  /\ task = "crawl" /\ page.step = "closed" /\ Len(pages) = Len(urls)
  /\ task' = "done" /\ events' = events \o <<Result(pages), End>>
  /\ UNCHANGED <<source, urls, page, pages, lines, client>>

-----------------------------------------------------------------------------
(* The response and its reader.                                             *)

\* lines() yields an event and stream_scan reads it; a result or an error makes
\* the worker leave, and so does the end of the stream without either.
ReadLine ==
  /\ client = "reading" /\ events # <<>>
  /\ events' = Tail(events)
  /\ lines' = IF Head(events) = End THEN lines ELSE Append(lines, Head(events))
  /\ client' = IF Head(events).type = "progress" THEN "reading" ELSE "gone"
  /\ UNCHANGED <<source, task, urls, page, pages>>

\* The worker dies or stops waiting (scanner_timeout_seconds).
Disconnect ==
  /\ client = "reading" /\ client' = "gone"
  /\ UNCHANGED <<source, task, urls, page, pages, events, lines>>

\* lines: a crawl whose reader has gone is cancelled; it closes its context and
\* its browser.
Cancelled ==
  /\ client = "gone" /\ task \in {"launch", "crawl"}
  /\ task' = "done" /\ page' = [page EXCEPT !.step = "closed"] /\ events' = Append(events, End)
  /\ UNCHANGED <<source, urls, pages, lines, client>>

Crawler ==
  \/ Prepare \/ Launch \/ OpenPage \/ Loaded \/ FirstPass \/ SecondPass \/ ReadLocal
  \/ ReadSession \/ ClosePage \/ CloseFails \/ Finish \/ Cancelled

CrawlNext ==
  \/ Crawler \/ PageActs \/ (\E c \in Cookies : HeaderRead(c)) \/ PageFails
  \/ ReadLine \/ Disconnect

\* Playwright's timeouts end every wait of the crawl, and the server keeps sending
\* while its client reads.
CrawlFairness == WF_crawlVars(Crawler) /\ WF_crawlVars(ReadLine)

CrawlSpec == CrawlInit /\ [][CrawlNext]_crawlVars /\ CrawlFairness

-----------------------------------------------------------------------------
(* Properties.                                                              *)

\* All pages on the site that a sitemap lists, whatever the number: the reference
\* that SitemapUrls is compared with.
Listing(web, root) ==
  LET All[s \in Sitemaps] ==
        IF web[s].kind = "index" THEN FlattenSeq([i \in DOMAIN web[s].locs |-> All[web[s].locs[i]]])
        ELSE OnSite(web[s].locs)
  IN  All[root]

\* The pages crawled are the first MaxPages that the site's sitemap lists, in its
\* order, however the list is split into sitemaps: no page is skipped because a
\* foreign address, an empty child or a full child came before it.
CrawlsListed ==
  [][Prepare /\ source.wanted = <<>> /\ Listing(source.web, 1) # <<>>
       => urls' = FirstOf(Listing(source.web, 1), MaxPages)]_crawlVars

\* What the worker reads adds up, although the queue may lag behind the crawl: one
\* line per page in order, never more pages or fewer cookies than before, and a
\* result last, with as many pages and cookies as the last progress line said.
StreamAddsUp ==
  \A i \in DOMAIN lines :
    LET l == lines[i] before == lines[i - 1] IN
    /\ l.type # "progress" => i = Len(lines)
    /\ l.type = "progress" =>
         /\ l.pages = i /\ l.of = Len(urls) /\ l.pages <= l.of
         /\ i > 1 => l.found >= before.found
    /\ l.type = "result" =>
         /\ i = Len(urls) + 1 /\ l.pages = before.pages
         /\ Cardinality(l.cookies) = before.found

\* A cookie in the result was set by the page it is reported on and by none that
\* was reported before it, other than the consent cookie the crawler planted: no
\* page's cookies are carried into the next one's.
FoundWhereSet ==
  \A i \in DOMAIN lines : lines[i].type = "result" =>
    \A c \in lines[i].cookies : c.item.name # Planted =>
      \E k \in DOMAIN pages :
        /\ pages[k].url = c.url /\ c.item.name \in pages[k].made
        /\ \A j \in 1..(k - 1) : c.item \notin pages[j].found

\* The crawl is over with its browser closed, and its worker is not left waiting.
CrawlOver == task = "done" /\ page.step = "closed" /\ client = "gone"
=============================================================================
