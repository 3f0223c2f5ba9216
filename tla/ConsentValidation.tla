------------------------ MODULE ConsentValidation -------------------------
(* One request to the scanner's /validate: a visit that is watched before   *)
(* and after Accept, then a second one in the same browser context that is  *)
(* watched after Reject, while the page goes on acting by itself.           *)
EXTENDS Naturals, FiniteSets

CONSTANTS
  Trackers,      \* addresses of known trackers
  Necessary,     \* essential_cookie_names
  Tracking,      \* other cookies
  MaxActs        \* how many different things the page does, at what time

VARIABLES
  step,      \* where run_validation waits
  cmp,       \* how the page's __tcfapi behaves
  look,      \* what its banner looks like
  banner,    \* a banner with its buttons is visible
  jar,       \* the context's cookies
  requests,  \* tracker_requests
  report,    \* the response
  past       \* what the page did and when, which the code does not know

validationVars == <<step, cmp, look, banner, jar, requests, report, past>>

\* An address is no cookie's name.
ASSUME ValidationAssumption ==
  /\ Necessary \cap Tracking = {} /\ Trackers \cap (Necessary \cup Tracking) = {} /\ MaxActs \in Nat

Steps == {"launch", "load", "pre", "hits", "signals", "dark", "scroll", "accept", "wait",
          "check", "clear", "cleared", "leave", "reload", "reject", "settle", "judge", "close",
          "done"}

\* The time that a person would give for what the page does now.  The page of
\* the first visit is there until the second page.goto gets an answer.
Era ==
  CASE step \in {"load", "pre", "hits", "signals", "dark", "scroll", "accept"} -> "unasked"
    [] step \in {"wait", "check", "clear"} -> "first"
    [] step = "cleared" -> "cleared"
    [] step = "leave" -> "leaving"
    [] step \in {"reload", "reject"} -> "second"
    [] step = "settle" -> "rejected"
    [] OTHER -> "judged"

Acting == Steps \ {"launch", "close", "done"}

NoReport == [pre |-> {}, dark |-> {}, accept |-> {}, reject |-> {}, found |-> FALSE,
             rejected |-> FALSE, error |-> FALSE]

ValidationInit ==
  /\ step = "launch" /\ cmp \in {"absent", "granted", "unsuccessful", "silent"}
  /\ look \in SUBSET {"missing_reject_button", "pre_ticked_checkboxes", "cookie_wall"}
  /\ banner = FALSE /\ jar = {} /\ requests = {} /\ report = NoReport /\ past = {}

Goes(next) == step' = next /\ UNCHANGED <<cmp, look>>

-----------------------------------------------------------------------------
(* The page.                                                                *)

Did(what) ==
  /\ step \in Acting
  /\ past' = past \cup {[what |-> what, when |-> Era]} /\ Cardinality(past') <= MaxActs
  /\ UNCHANGED <<step, cmp, look, banner, report>>

\* _on_request appends while the validation waits for something else.
Fires(t) == Did(t) /\ requests' = requests \cup {t} /\ UNCHANGED jar

SetsCookie(c) == Did(c) /\ jar' = jar \cup {c} /\ UNCHANGED requests

\* The banner goes, by a timer or because of the scroll.
BannerGoes ==
  /\ step \in Acting /\ banner /\ banner' = FALSE
  /\ UNCHANGED <<step, cmp, look, jar, requests, report, past>>

-----------------------------------------------------------------------------
(* The validation.                                                          *)

\* run_validation's except and finally: what the report holds by then is kept.
Failed == step' = "close"

Fails ==
  /\ step \notin {"close", "done"} /\ Failed /\ report' = [report EXCEPT !.error = TRUE]
  /\ UNCHANGED <<cmp, look, banner, jar, requests, past>>

\* chromium.launch, a context, a page and page.goto.
Launched == step = "launch" /\ Goes("load") /\ UNCHANGED <<banner, jar, requests, report, past>>

FirstLoad ==
  /\ step = "load" /\ Goes("pre") /\ banner' \in BOOLEAN
  /\ UNCHANGED <<jar, requests, report, past>>

\* validate_pre_consent: the cookies, the requests seen so far, the signals.
PreCookies ==
  /\ step = "pre" /\ Goes("hits") /\ report' = [report EXCEPT !.pre = jar \ Necessary]
  /\ UNCHANGED <<banner, jar, requests, past>>

PreTrackers ==
  /\ step = "hits" /\ Goes("signals") /\ report' = [report EXCEPT !.pre = @ \cup requests]
  /\ UNCHANGED <<banner, jar, requests, past>>

\* _get_consent_signals waits without a timeout for the page to call back.
PreSignals ==
  /\ step = "signals" /\ cmp # "silent" /\ Goes("dark")
  /\ report' = [report EXCEPT !.pre = IF cmp = "granted" THEN @ \cup {"tcf"} ELSE @]
  /\ UNCHANGED <<banner, jar, requests, past>>

\* detect_dark_patterns: without a banner there is nothing to detect. The scroll
\* check waits a second for the banner to go.
DarkPatterns ==
  /\ step = "dark" /\ Goes(IF banner THEN "scroll" ELSE "accept")
  /\ report' = [report EXCEPT !.found = banner, !.dark = IF banner THEN look ELSE {}]
  /\ UNCHANGED <<banner, jar, requests, past>>

Scrolled ==
  /\ step = "scroll" /\ Goes("accept")
  /\ report' = [report EXCEPT !.dark = IF banner THEN @ ELSE @ \cup {"scroll_dismissal"}]
  /\ UNCHANGED <<banner, jar, requests, past>>

\* The first visible button is clicked; none is there, or the click fails.
ClickAccept ==
  /\ step = "accept"
  /\ \/ banner /\ banner' = FALSE /\ Goes("wait")
     \/ Goes("clear") /\ UNCHANGED banner
  /\ UNCHANGED <<jar, requests, report, past>>

\* Two seconds later the list is cleared and validate_post_accept asks the page.
Accepted ==
  /\ step = "wait" /\ Goes("check") /\ requests' = {}
  /\ UNCHANGED <<banner, jar, report, past>>

PostAccept ==
  /\ step = "check" /\ cmp # "silent" /\ Goes("clear")
  /\ report' = [report EXCEPT !.accept = IF cmp = "unsuccessful" THEN {"tcf"} ELSE {}]
  /\ UNCHANGED <<banner, jar, requests, past>>

\* Mutation of Kept: the second visit starts with the cookies of the first.
KeptAll(cookies) == cookies

\* context.clear_cookies
Kept(cookies) == {}

ClearCookies ==
  /\ step = "clear" /\ Goes("cleared") /\ jar' = Kept(jar)
  /\ UNCHANGED <<banner, requests, report, past>>

Reload ==
  /\ step = "cleared" /\ Goes("leave") /\ requests' = {}
  /\ UNCHANGED <<banner, jar, report, past>>

\* page.goto has its answer: the new page takes the old one's place.
Replaced == step = "leave" /\ Goes("reload") /\ UNCHANGED <<banner, jar, requests, report, past>>

SecondLoad ==
  /\ step = "reload" /\ Goes("reject") /\ banner' \in BOOLEAN
  /\ UNCHANGED <<jar, requests, report, past>>

\* Mutation of CollectedAt: the requests are taken when the button is clicked.
CollectedAtClick == {"reject"}

\* post_reject_trackers is filled two seconds after the click.
CollectedAt == {"settle"}

\* A visible reject button is clicked; otherwise there is no verdict.
ClickReject ==
  /\ step = "reject"
  /\ \/ /\ banner /\ "missing_reject_button" \notin look /\ Goes("settle") /\ banner' = FALSE
        /\ report' = [report EXCEPT !.rejected = TRUE,
                        !.reject = IF step \in CollectedAt THEN requests ELSE @]
     \/ Goes("close") /\ UNCHANGED <<banner, report>>
  /\ UNCHANGED <<jar, requests, past>>

CollectTrackers ==
  /\ step = "settle" /\ Goes("judge")
  /\ report' = [report EXCEPT !.reject = IF step \in CollectedAt THEN requests ELSE @]
  /\ UNCHANGED <<banner, jar, requests, past>>

\* validate_post_reject
PostReject ==
  /\ step = "judge" /\ Goes("close")
  /\ report' = [report EXCEPT !.reject = @ \cup (jar \ Necessary)]
  /\ UNCHANGED <<banner, jar, requests, past>>

Closed == step = "close" /\ Goes("done") /\ UNCHANGED <<banner, jar, requests, report, past>>

Validation ==
  \/ Launched \/ FirstLoad \/ PreCookies \/ PreTrackers \/ PreSignals \/ DarkPatterns
  \/ Scrolled \/ ClickAccept \/ Accepted \/ PostAccept \/ ClearCookies \/ Reload
  \/ Replaced \/ SecondLoad \/ ClickReject \/ CollectTrackers \/ PostReject \/ Closed

ValidationNext ==
  \/ Validation \/ Fails \/ BannerGoes
  \/ \E t \in Trackers : Fires(t)
  \/ \E c \in Necessary \cup Tracking : SetsCookie(c)

ValidationSpec == ValidationInit /\ [][ValidationNext]_validationVars /\ WF_validationVars(Validation)

-----------------------------------------------------------------------------
(* Properties.                                                              *)

Happened(what, times) == \E p \in past : p.what = what /\ p.when \in times

\* The two visits are kept apart although they share a browser context and a
\* page object: what is reported before consent was done before any button was
\* clicked, and no request or cookie reported after rejection is left from before
\* the context was cleared for the second visit.  What the old page still does
\* after that, until the second page.goto has its answer, may be among it.
VisitsApart ==
  /\ \A x \in report.pre \ {"tcf"} : Happened(x, {"unasked"})
  /\ \A t \in report.reject \cap Trackers : Happened(t, {"leaving", "second", "rejected"})
  /\ \A c \in report.reject \ Trackers :
       Happened(c, {"cleared", "leaving", "second", "rejected", "judged"})

\* A tracker that the page calls within the two seconds after the reject button
\* was clicked is in the verdict.
RejectMissesNothing ==
  step = "done" /\ report.rejected /\ ~report.error =>
    \A t \in Trackers : Happened(t, {"rejected"}) => t \in report.reject
=============================================================================
