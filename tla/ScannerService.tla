-------------------------- MODULE ScannerService ---------------------------
(* The scanner service answers a crawl or a validation. Requests have a     *)
(* browser each and share nothing, so a behaviour is one request.           *)
EXTENDS SiteCrawl, ConsentValidation

serviceVars == <<crawlVars, validationVars>>

\* A request that does not concern the crawler, or the validation.
NoCrawl ==
  /\ source = Nothing /\ task = "done" /\ urls = <<>> /\ page = NoPage /\ pages = <<>>
  /\ events = <<>> /\ lines = <<>> /\ client = "gone"

NoValidation ==
  /\ step = "done" /\ cmp = "absent" /\ look = {} /\ banner = FALSE /\ jar = {}
  /\ requests = {} /\ report = NoReport /\ past = {}

ServiceInit == (CrawlInit /\ NoValidation) \/ (NoCrawl /\ ValidationInit)

ServiceNext ==
  \/ CrawlNext /\ UNCHANGED validationVars
  \/ ValidationNext /\ UNCHANGED crawlVars

ServiceSpec ==
  /\ ServiceInit /\ [][ServiceNext]_serviceVars
  /\ CrawlFairness /\ WF_validationVars(Validation)

-----------------------------------------------------------------------------

\* Every request ends with its browser closed and its client answered, whatever
\* fails and whichever of them goes first, if a page's consent interface answers
\* when it is asked.
ServiceEnds == cmp # "silent" => <>[](CrawlOver /\ step = "done")
=============================================================================
