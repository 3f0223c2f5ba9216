--------------------------- MODULE ConsentBanner ---------------------------
(* The loader and the banner bundle in a visitor's browser: pages of the    *)
(* sites of one group in tabs, the consent cookie the tabs of a site share, *)
(* the broadcasts between them, and the consent bridge, an iframe on the    *)
(* API's origin whose cookie all sites of the group share. Every handler of *)
(* a page runs to its end; tabs, fetches, frames and messages interleave.   *)
(* An accepted set leaves "necessary" out, which is always in.              *)
EXTENDS Naturals, Sequences, FiniteSets

CONSTANTS
  Sites,        \* sites of one consent group, each with its origin
  Tabs,         \* tabs of the browser
  Categories,   \* enabled_categories without "necessary"
  Null,         \* no cookie, no answer
  MaxVersion,   \* bound: consent versions, over all sites
  MaxLoads,     \* bound: pages opened
  MaxDecisions, \* bound: decisions the visitor makes
  MaxBanners    \* bound: banners up at once on a page

ASSUME BannerAssumption ==
  /\ Null \notin Sites
  /\ {MaxVersion, MaxLoads, MaxDecisions, MaxBanners} \subseteq Nat

VARIABLES
  version,  \* each live site's consent version
  cookie,   \* a site's consent cookie: Null or what was accepted, and under which version
  shared,   \* the group's cookie, on the API's origin: Null or what was accepted
  tab,      \* the tabs
  decided,  \* the decisions taken so far: on which site, and how
  spent     \* pages opened and decisions made so far

bannerVars == <<version, cookie, shared, tab, decided, spent>>

Accepted == SUBSET Categories

\* What the fetch of the configuration gave a page: the live revision, the
\* draft of a preview, or the defaults. Only the first has a version; implicit
\* is a blocking_mode of opt_out or informational.
Unfetched == [kind |-> "none", version |-> 0, implicit |-> FALSE]

Closed == [site |-> Null, phase |-> "closed", config |-> Unfetched,
           allowed |-> {}, banners |-> 0, button |-> FALSE,
           frame |-> "none", reply |-> "none", answer |-> Null, stores |-> <<>>, inbox |-> <<>>]

Tab == [site : Sites \cup {Null}, phase : {"closed", "loading", "bridging", "ready"},
        config : [kind : {"none", "live", "preview", "default"}, version : Nat, implicit : BOOLEAN],
        allowed : Accepted, banners : Nat, button : BOOLEAN,
        frame : {"none", "loading", "up"}, reply : {"none", "sent"},
        answer : {Null} \cup Accepted, stores : Seq(Accepted), inbox : Seq(Accepted)]

Decision == [site : Sites, accepted : Accepted, how : {"chosen", "implied", "preview"}]

BannerTypeOK ==
  /\ version \in [Sites -> Nat]
  /\ cookie \in [Sites -> {Null} \cup [accepted : Accepted, version : Nat]]
  /\ shared \in {Null} \cup Accepted
  /\ tab \in [Tabs -> Tab]
  /\ decided \subseteq Decision
  /\ spent \in [loads : Nat, decisions : Nat]

BannerInit ==
  /\ version = [s \in Sites |-> 1]
  /\ cookie = [s \in Sites |-> Null]
  /\ shared = Null
  /\ tab = [t \in Tabs |-> Closed]
  /\ decided = {}
  /\ spent = [loads |-> 0, decisions |-> 0]

-----------------------------------------------------------------------------

\* isImplicitConsentMode of the configuration a page has.
ImplicitMode(t) == tab[t].config.implicit

\* Tabs whose page has its channel open, after initCrossTabSync.
Listening(t) == tab[t].phase \in {"bridging", "ready"}

Stored(s) == IF cookie[s] = Null THEN {} ELSE cookie[s].accepted

Sisters(t) == {u \in Tabs \ {t} : Listening(u) /\ tab[u].site = tab[t].site}

\* broadcastConsentChange to the other tabs of the site.
Broadcast(tabs, t, accepted) ==
  [u \in Tabs |-> IF u \in Sisters(t) THEN [tabs[u] EXCEPT !.inbox = Append(@, accepted)]
                  ELSE tabs[u]]

\* The loader: the blocker gets what the cookie holds, whatever its version,
\* and the bundle is fetched.
Open(t, s) ==
  /\ tab[t].phase = "closed" /\ spent.loads < MaxLoads
  /\ tab' = [tab EXCEPT ![t] = [Closed EXCEPT !.site = s, !.phase = "loading",
                                              !.allowed = Stored(s)]]
  /\ spent' = [spent EXCEPT !.loads = @ + 1]
  /\ UNCHANGED <<version, cookie, shared, decided>>

\* What fetchSiteConfig returns: the live configuration, the draft in a tab that
\* followed a preview link, or the defaults when the API fails. The mode is the
\* visitor's region's, a publish may change it, and the defaults ask first.
Fetched(t) ==
  [kind : {"live"}, version : {version[tab[t].site]}, implicit : BOOLEAN] \cup
  [kind : {"preview"}, version : {0}, implicit : BOOLEAN] \cup
  {[kind |-> "default", version |-> 0, implicit |-> FALSE]}

\* needsReconsent, of the configuration's version: the defaults' is empty.
Reconsent(existing, config) == existing.version # config.version

\* Mutation of AsksBridge: the bridge is asked before the mode is looked at.
AsksBridgeFirst(existing, config) == existing = Null /\ config.kind = "live"

\* A page of the group without a consent asks the bridge, in a mode that asks first.
AsksBridge(existing, config) == existing = Null /\ ~config.implicit /\ config.kind = "live"

\* init() up to its first await after the configuration: a returning visitor
\* gets the button, an implicit mode releases everything under its banner, a
\* page that asks the bridge waits for it, any other asks its visitor.
Configure(t, config) ==
  LET s        == tab[t].site
      existing == IF config.kind = "preview" THEN Null ELSE cookie[s]
      page     == [tab[t] EXCEPT !.config = config, !.phase = "ready"]
  IN  /\ \/ /\ existing # Null /\ ~Reconsent(existing, config)
            /\ tab' = [tab EXCEPT ![t] = [page EXCEPT !.button = TRUE]]
            /\ UNCHANGED decided
         \/ /\ existing = Null /\ config.implicit
            /\ tab' = [tab EXCEPT ![t] = [page EXCEPT !.allowed = Categories, !.banners = 1]]
            /\ decided' = decided \cup {[site |-> s, accepted |-> Categories,
                 how |-> IF config.kind = "preview" THEN "preview" ELSE "implied"]}
         \/ /\ AsksBridge(existing, config)
            /\ tab' = [tab EXCEPT ![t] = [page EXCEPT !.phase = "bridging", !.frame = "loading"]]
            /\ UNCHANGED decided
         \/ /\ IF existing = Null THEN ~config.implicit /\ ~AsksBridge(existing, config)
                                  ELSE Reconsent(existing, config)
            /\ tab' = [tab EXCEPT ![t] = [page EXCEPT !.banners = 1]]
            /\ UNCHANGED decided
      /\ UNCHANGED <<version, cookie, shared, spent>>

ConfigArrives(t) ==
  tab[t].phase = "loading" /\ \E config \in Fetched(t) : Configure(t, config)

\* The frame's script: it answers with the cookie it finds and listens from
\* now on. A page that has stopped waiting does not hear the answer.
FrameLoads(t) ==
  /\ tab[t].frame = "loading"
  /\ tab' = [tab EXCEPT ![t] = [tab[t] EXCEPT !.frame = "up",
               !.reply = IF tab[t].phase = "bridging" THEN "sent" ELSE "none",
               !.answer = IF tab[t].phase = "bridging" THEN shared ELSE Null]]
  /\ UNCHANGED <<version, cookie, shared, decided, spent>>

\* The answer reaches the page: it becomes the site's own consent, stamped
\* with the site's version, whatever the visitor did meanwhile.
Adopt(t) ==
  LET s == tab[t].site
      page == [tab[t] EXCEPT !.phase = "ready", !.reply = "none", !.answer = Null]
  IN  /\ tab[t].phase = "bridging" /\ tab[t].reply = "sent"
      /\ \/ /\ tab[t].answer # Null
            /\ cookie' = [cookie EXCEPT ![s] =
                 [accepted |-> tab[t].answer, version |-> tab[t].config.version]]
            /\ tab' = Broadcast([tab EXCEPT ![t] =
                 [page EXCEPT !.allowed = tab[t].answer, !.button = TRUE]], t, tab[t].answer)
         \/ /\ tab[t].answer = Null
            /\ tab' = [tab EXCEPT ![t] = [page EXCEPT !.banners = @ + 1]]
            /\ UNCHANGED cookie
      /\ UNCHANGED <<version, shared, decided, spent>>

\* Two seconds without an answer.
BridgeTimeout(t) ==
  /\ tab[t].phase = "bridging"
  /\ tab' = [tab EXCEPT ![t] = [tab[t] EXCEPT !.phase = "ready", !.reply = "none", !.answer = Null,
                                         !.banners = @ + 1]]
  /\ UNCHANGED <<version, cookie, shared, decided, spent>>

-----------------------------------------------------------------------------

\* storeConsentInBridge: there is a frame only on a page that asked the bridge,
\* and what is sent to one that has not loaded is lost.
SentToFrame(page, accepted) ==
  IF page.config.kind = "live" /\ page.frame = "up" THEN Append(page.stores, accepted)
  ELSE page.stores

\* Mutation of CookiesAfter: a preview is stored too.
CookiesAfterPreviewToo(t, accepted) ==
  [cookie EXCEPT ![tab[t].site] = [accepted |-> accepted, version |-> tab[t].config.version]]

\* writeConsent, under the version of the configuration the page has.
CookiesAfter(t, accepted) ==
  IF tab[t].config.kind = "preview" THEN cookie
  ELSE [cookie EXCEPT ![tab[t].site] = [accepted |-> accepted, version |-> tab[t].config.version]]

\* Mutation of BannerClosed: no button is left.
BannerClosedBare(page) == [page EXCEPT !.banners = @ - 1]

\* removeBanner and showPreferencesButton, for the banner whose button decided;
\* one that fades out is closed, and no operator suppresses the button.
BannerClosed(page) == [page EXCEPT !.banners = @ - 1, !.button = TRUE]

\* handleConsent, on a page that its caller leaves with the banners of "page": a
\* preview stores nothing, but broadcasts like any other.
HandleConsent(t, page, accepted, how) ==
  LET told == [page EXCEPT !.allowed = accepted, !.stores = SentToFrame(page, accepted)]
      kind == IF tab[t].config.kind = "preview" THEN "preview" ELSE how
  IN  /\ spent.decisions < MaxDecisions
      /\ cookie' = CookiesAfter(t, accepted)
      /\ tab' = Broadcast([tab EXCEPT ![t] = told], t, accepted)
      /\ decided' = decided \cup {[site |-> tab[t].site, accepted |-> accepted, how |-> kind]}
      /\ spent' = [spent EXCEPT !.decisions = @ + 1]
      /\ UNCHANGED <<version, shared>>

\* Accept all, reject all, or save what is ticked.
Answer(t, accepted) == tab[t].banners > 0 /\ HandleConsent(t, BannerClosed(tab[t]), accepted, "chosen")

\* Escape: a rejection, or in an implicit mode the acceptance of everything.
Dismiss(t) ==
  /\ tab[t].banners > 0
  /\ IF ImplicitMode(t) THEN HandleConsent(t, BannerClosed(tab[t]), Categories, "implied")
                        ELSE HandleConsent(t, BannerClosed(tab[t]), {}, "chosen")

\* window.ConsentOS and the cookies widget: everything, nothing, any selection,
\* or one category more or less than the cookie has. No banner is closed.
Sdk(t, accepted) == Listening(t) /\ HandleConsent(t, tab[t], accepted, "chosen")

\* showPreferences, by the SDK or the button: one more banner.
ShowPreferences(t) ==
  /\ Listening(t)
  /\ tab[t].banners < (IF tab[t].phase = "bridging" THEN MaxBanners - 1 ELSE MaxBanners)
  /\ tab' = [tab EXCEPT ![t] = [tab[t] EXCEPT !.banners = @ + 1, !.button = FALSE]]
  /\ UNCHANGED <<version, cookie, shared, decided, spent>>

\* The frame stores what its page sent it.
FrameStores(t) ==
  /\ tab[t].stores # <<>>
  /\ shared' = Head(tab[t].stores)
  /\ tab' = [tab EXCEPT ![t].stores = Tail(@)]
  /\ UNCHANGED <<version, cookie, decided, spent>>

\* applyRemoteConsent: what equals the cookie is taken for known already.
Applied(t, accepted) == IF accepted = Stored(tab[t].site) THEN tab[t].allowed ELSE accepted

Receive(t) ==
  /\ tab[t].inbox # <<>>
  /\ tab' = [tab EXCEPT ![t] = [tab[t] EXCEPT !.inbox = Tail(@),
                                         !.allowed = Applied(t, Head(tab[t].inbox))]]
  /\ UNCHANGED <<version, cookie, shared, decided, spent>>

\* The page is left at any time, with what it has not sent or received.
Leave(t) ==
  /\ tab[t].phase # "closed"
  /\ tab' = [tab EXCEPT ![t] = Closed]
  /\ UNCHANGED <<version, cookie, shared, decided, spent>>

\* A publish that asks for consent again.
PublishReconsent(s) ==
  /\ \A r \in Sites : version[r] < MaxVersion
  /\ version' = [version EXCEPT ![s] = @ + 1]
  /\ UNCHANGED <<cookie, shared, tab, decided, spent>>

\* A site's cookie expires, or the visitor deletes it; so does the group's.
Expire(s) ==
  /\ cookie[s] # Null
  /\ cookie' = [cookie EXCEPT ![s] = Null]
  /\ UNCHANGED <<version, shared, tab, decided, spent>>

ExpireShared ==
  /\ shared # Null
  /\ shared' = Null
  /\ UNCHANGED <<version, cookie, tab, decided, spent>>

BannerNext ==
  \/ \E t \in Tabs :
       \/ \E s \in Sites : Open(t, s)
       \/ ConfigArrives(t)
       \/ FrameLoads(t) \/ Adopt(t) \/ BridgeTimeout(t)
       \/ \E accepted \in Accepted : Answer(t, accepted) \/ Sdk(t, accepted)
       \/ Dismiss(t) \/ ShowPreferences(t)
       \/ FrameStores(t) \/ Receive(t) \/ Leave(t)
  \/ \E s \in Sites : PublishReconsent(s) \/ Expire(s)
  \/ ExpireShared

BannerSpec == BannerInit /\ [][BannerNext]_bannerVars

-----------------------------------------------------------------------------

\* What was decided on some sites of the group, by choice, by what an implicit
\* mode takes for granted, or in a preview.
DecidedOn(sites, hows) == {d.accepted : d \in {e \in decided : e.site \in sites /\ e.how \in hows}}

\* What is stored for a site or for the group is one decision as it was taken,
\* never a blend of two, and never a preview's: writeConsent replaces the cookie
\* whole and a preview does not reach it, by its page or by a page it was sent to.
OnlyDecisionsStored ==
  /\ \A s \in Sites : cookie[s] # Null => cookie[s].accepted \in DecidedOn(Sites, {"chosen", "implied"})
  /\ shared # Null => shared \in DecidedOn(Sites, {"chosen", "implied"})

\* On a page at rest the visitor has a banner to answer or the button that
\* opens one: withdrawing is as easy as consenting.
WithdrawalAtHand == \A t \in Tabs : tab[t].phase = "ready" => tab[t].banners > 0 \/ tab[t].button

\* A page that hears of another tab's decision lets run what it accepts.
TabsFollow ==
  [][\A t \in Tabs : Len(tab'[t].inbox) < Len(tab[t].inbox) /\ tab'[t].phase # "closed" =>
       tab'[t].allowed = Head(tab[t].inbox)]_bannerVars

\* A choice made in a preview stays on its page.
PreviewStaysOnPage ==
  \A t \in Tabs : tab[t].config.kind \notin {"none", "preview"} =>
    tab[t].allowed \in {{}} \cup DecidedOn(Sites, {"chosen", "implied"})

\* Only what the visitor chose crosses from one site of the group to another:
\* what an implicit mode took for granted, and a preview's choice, let scripts
\* run on the site they were taken on alone, whatever passes over the bridge.
\* On its own site an assumption that was stored counts in any later mode.
OnlyChoicesCross ==
  /\ \A t \in Tabs : tab[t].allowed \in
       {{}} \cup DecidedOn(Sites, {"chosen"}) \cup DecidedOn({tab[t].site}, {"implied", "preview"})
  /\ \A s \in Sites : cookie[s] # Null =>
       cookie[s].accepted \in DecidedOn(Sites, {"chosen"}) \cup DecidedOn({s}, {"implied"})
  /\ shared # Null => shared \in DecidedOn(Sites, {"chosen"})

\* The bridge fills in a missing consent; it never replaces one.
BridgeOnlyFills ==
  [][\A t \in Tabs : tab[t].phase = "bridging" /\ tab'[t].phase = "ready" /\ tab'[t].banners = tab[t].banners =>
       cookie[tab[t].site] = Null]_bannerVars
=============================================================================
