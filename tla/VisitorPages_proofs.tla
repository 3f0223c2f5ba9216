------------------------- MODULE VisitorPages_proofs -------------------------
(* What holds of a page, of the cookies and of the messages on their way at *)
(* every moment, for any number of tabs, sites and categories; and of a     *)
(* script on one of the pages.                                              *)
EXTENDS VisitorPages, SequenceTheorems, TLAPS

\* What a page of a site may have got a decision from, of those taken so far: a
\* choice made anywhere, and on its own site an implicit mode's assumption too.
Taken(dec, sites, hows) == {d.accepted : d \in {e \in dec : e.site \in sites /\ e.how \in hows}}
Chosen(dec) == Taken(dec, Sites, {"chosen"})
Counted(dec, s) == Chosen(dec) \cup Taken(dec, {s}, {"implied"})
Shown(dec, s) == {{}} \cup Counted(dec, s) \cup Taken(dec, {s}, {"preview"})

\* A page in order. Only a page in a mode that asks first has a bridge frame, so
\* that what is on its way to the group's cookie and from it was chosen.
PageOK(page, dec) ==
  /\ page \in Tab
  /\ page.phase # "closed" => page.site \in Sites
  /\ page.banners > 0 => page.phase # "closed"
  /\ page.allowed \in Shown(dec, page.site)
  /\ page.phase = "loading" => page.frame = "none"
  /\ page.frame # "none" => ~page.config.implicit
  /\ page.answer # Null => page.answer \in Chosen(dec)
  /\ \A i \in 1..Len(page.stores) : page.stores[i] \in Chosen(dec)
  /\ \A i \in 1..Len(page.inbox) : page.inbox[i] \in Shown(dec, page.site)
  /\ page.phase = "ready" => page.banners > 0 \/ page.button

CookieOK(c, s, dec) == c # Null => c.accepted \in Counted(dec, s)

BannerInv ==
  /\ BannerTypeOK
  /\ \A s \in Sites : CookieOK(cookie[s], s, decided)
  /\ shared # Null => shared \in Chosen(decided)
  /\ \A t \in Tabs : PageOK(tab[t], decided)

-----------------------------------------------------------------------------

\* A decision once taken stays taken.
LEMMA TakenGrows ==
  ASSUME NEW dec, NEW more, dec \subseteq more, NEW sites, NEW hows
  PROVE  Taken(dec, sites, hows) \subseteq Taken(more, sites, hows)
BY DEF Taken

LEMMA ChosenGrows ==
  ASSUME NEW dec, NEW more, dec \subseteq more
  PROVE  Chosen(dec) \subseteq Chosen(more)
BY TakenGrows DEF Chosen

LEMMA CountedGrows ==
  ASSUME NEW dec, NEW more, dec \subseteq more, NEW s
  PROVE  Counted(dec, s) \subseteq Counted(more, s) /\ Shown(dec, s) \subseteq Shown(more, s)
<1>1. Counted(dec, s) \subseteq Counted(more, s)
  BY TakenGrows, ChosenGrows DEF Counted
<1>2. Taken(dec, {s}, {"preview"}) \subseteq Taken(more, {s}, {"preview"})
  BY TakenGrows
<1>. QED  BY <1>1, <1>2 DEF Shown

\* What was chosen counts everywhere, what counts on a site may be shown there.
LEMMA ChosenCounts ==
  ASSUME NEW dec, NEW s
  PROVE  Chosen(dec) \subseteq Counted(dec, s) /\ Counted(dec, s) \subseteq Shown(dec, s)
BY DEF Counted, Shown

\* A page stays in order while decisions are taken elsewhere.
LEMMA PageStays ==
  ASSUME NEW dec, NEW more, dec \subseteq more, NEW page, PageOK(page, dec)
  PROVE  PageOK(page, more)
<1>1. Chosen(dec) \subseteq Chosen(more)
  BY ChosenGrows
<1>2. Shown(dec, page.site) \subseteq Shown(more, page.site)
  BY CountedGrows
<1>. QED  BY <1>1, <1>2 DEF PageOK

\* So does a cookie.
LEMMA CookieStays ==
  ASSUME NEW dec, NEW more, dec \subseteq more, NEW c, NEW s, CookieOK(c, s, dec)
  PROVE  CookieOK(c, s, more)
BY CountedGrows DEF CookieOK

\* And a page that another tab's decision is on its way to.
LEMMA PageHears ==
  ASSUME NEW dec, NEW page, PageOK(page, dec), NEW accepted \in Accepted,
         accepted \in Shown(dec, page.site)
  PROVE  PageOK([page EXCEPT !.inbox = Append(@, accepted)], dec)
<1>. DEFINE p == [page EXCEPT !.inbox = Append(@, accepted)]
<1>1. page \in Tab
  BY DEF PageOK
<1>2. page.inbox \in Seq(Accepted)
  BY <1>1 DEF Tab
<1>a. Append(page.inbox, accepted) \in Seq(Accepted)
  BY <1>2
<1>3. p \in Tab
  BY <1>1, <1>a DEF Tab
<1>b. p.inbox = Append(page.inbox, accepted)
  BY <1>1 DEF Tab
<1>4. \A i \in 1..Len(p.inbox) : p.inbox[i] \in Shown(dec, page.site)
  BY <1>2, <1>b DEF PageOK
<1>5. /\ p.site = page.site /\ p.config = page.config /\ p.phase = page.phase /\ p.allowed = page.allowed
      /\ p.frame = page.frame /\ p.answer = page.answer /\ p.stores = page.stores
      /\ p.banners = page.banners /\ p.button = page.button
  BY <1>1 DEF Tab
<1>. QED  BY <1>3, <1>4, <1>5 DEF PageOK

-----------------------------------------------------------------------------
(* Steps change one page, and put a decision on its way to others.         *)

LEMMA OnePage ==
  ASSUME BannerInv, NEW t \in Tabs, NEW page, NEW more, decided \subseteq more, PageOK(page, more),
         NEW tabs, tabs = [tab EXCEPT ![t] = page]
  PROVE  tabs \in [Tabs -> Tab] /\ \A u \in Tabs : PageOK(tabs[u], more)
<1>1. tab \in [Tabs -> Tab] /\ page \in Tab
  BY DEF BannerInv, BannerTypeOK, PageOK
<1>2. ASSUME NEW u \in Tabs PROVE PageOK(tabs[u], more)
  <2>1. CASE u = t
    BY <1>1, <2>1
  <2>2. CASE u # t
    BY <1>1, <2>2, PageStays DEF BannerInv
  <2>. QED  BY <2>1, <2>2
<1>. QED  BY <1>1, <1>2

LEMMA PageBroadcasts ==
  ASSUME BannerInv, NEW t \in Tabs, NEW page, NEW more, decided \subseteq more, PageOK(page, more),
         NEW accepted \in Accepted, accepted \in Shown(more, tab[t].site),
         NEW tabs, tabs = Broadcast([tab EXCEPT ![t] = page], t, accepted)
  PROVE  tabs \in [Tabs -> Tab] /\ \A u \in Tabs : PageOK(tabs[u], more)
<1>. DEFINE T == [tab EXCEPT ![t] = page]
<1>1. T \in [Tabs -> Tab] /\ \A u \in Tabs : PageOK(T[u], more)
  BY OnePage
<1>2. ASSUME NEW u \in Tabs PROVE PageOK(tabs[u], more)
  <2>1. CASE u \in Sisters(t)
    <3>1. u # t /\ T[u] = tab[u] /\ tab[u].site = tab[t].site
      BY <2>1 DEF Sisters, BannerInv, BannerTypeOK
    <3>2. tabs[u] = [T[u] EXCEPT !.inbox = Append(@, accepted)]
      BY <2>1 DEF Broadcast
    <3>. QED  BY <1>1, <3>1, <3>2, PageHears
  <2>2. CASE u \notin Sisters(t)
    BY <1>1, <2>2 DEF Broadcast
  <2>. QED  BY <2>1, <2>2
<1>3. tabs = [u \in Tabs |-> tabs[u]]
  BY DEF Broadcast
<1>. QED  BY <1>2, <1>3 DEF PageOK

\* The beginning.
LEMMA ClosedOK == ASSUME NEW dec PROVE PageOK(Closed, dec)
BY DEF PageOK, Closed, Unfetched, Tab, Shown, Accepted

LEMMA BannerBegins == BannerInit => BannerInv
BY ClosedOK, BannerAssumption DEF BannerInit, BannerInv, BannerTypeOK, CookieOK, Decision, PageOK

\* Steps that leave decisions and cookies alone.
LEMMA QuietStep ==
  ASSUME BannerInv, NEW t \in Tabs, NEW page, PageOK(page, decided),
         tab' = [tab EXCEPT ![t] = page], UNCHANGED <<version, cookie, decided>>,
         spent' \in [loads : Nat, decisions : Nat],
         shared' \in {Null} \cup Accepted, shared' # Null => shared' \in Chosen(decided)
  PROVE  BannerInv'
<1>1. tab' \in [Tabs -> Tab] /\ \A u \in Tabs : PageOK(tab'[u], decided)
  BY OnePage
<1>. QED  BY <1>1 DEF BannerInv, BannerTypeOK

-----------------------------------------------------------------------------
(* One lemma per operation.                                                *)

\* What a cookie holds may be shown on its site.
LEMMA StoredShown ==
  ASSUME BannerInv, NEW s \in Sites
  PROVE  Stored(s) \in Accepted /\ Stored(s) \in Shown(decided, s)
<1>1. CASE cookie[s] = Null
  BY <1>1 DEF Stored, Shown, Accepted
<1>2. CASE cookie[s] # Null
  BY <1>2, ChosenCounts DEF Stored, BannerInv, BannerTypeOK, CookieOK
<1>. QED  BY <1>1, <1>2

LEMMA OpenStep == ASSUME BannerInv, NEW t \in Tabs, NEW s \in Sites, Open(t, s) PROVE BannerInv'
<1>. DEFINE page == [Closed EXCEPT !.site = s, !.phase = "loading", !.allowed = Stored(s)]
<1>1. Stored(s) \in Accepted /\ Stored(s) \in Shown(decided, s)
  BY StoredShown
<1>a. Closed \in Tab
  BY ClosedOK DEF PageOK
<1>b. page \in Tab
  BY <1>1, <1>a DEF Tab
<1>2. PageOK(page, decided)
  BY <1>1, <1>b DEF PageOK, Closed, Unfetched
<1>3. spent' \in [loads : Nat, decisions : Nat]
  BY DEF Open, BannerInv, BannerTypeOK
<1>. QED  BY <1>2, <1>3, QuietStep DEF Open, BannerInv, BannerTypeOK

LEMMA FrameLoadsStep == ASSUME BannerInv, NEW t \in Tabs, FrameLoads(t) PROVE BannerInv'
<1>. DEFINE page == [tab[t] EXCEPT !.frame = "up",
               !.reply = IF tab[t].phase = "bridging" THEN "sent" ELSE "none",
               !.answer = IF tab[t].phase = "bridging" THEN shared ELSE Null]
<1>1. PageOK(tab[t], decided) /\ tab[t] \in Tab
  BY DEF BannerInv, PageOK
<1>2. shared \in {Null} \cup Accepted /\ (shared # Null => shared \in Chosen(decided))
  BY DEF BannerInv, BannerTypeOK
<1>3. page \in Tab
  BY <1>1, <1>2 DEF Tab
<1>4. PageOK(page, decided)
  BY <1>1, <1>2, <1>3 DEF PageOK, Tab, FrameLoads
<1>. QED  BY <1>4, QuietStep DEF FrameLoads, BannerInv, BannerTypeOK

LEMMA BridgeTimeoutStep == ASSUME BannerInv, NEW t \in Tabs, BridgeTimeout(t) PROVE BannerInv'
<1>. DEFINE page == [tab[t] EXCEPT !.phase = "ready", !.reply = "none", !.answer = Null,
                                   !.banners = @ + 1]
<1>1. PageOK(tab[t], decided) /\ tab[t] \in Tab
  BY DEF BannerInv, PageOK
<1>2. tab[t].banners + 1 \in Nat
  BY <1>1 DEF Tab
<1>3. page \in Tab
  BY <1>1, <1>2 DEF Tab
<1>4. PageOK(page, decided)
  BY <1>1, <1>3 DEF PageOK, Tab, BridgeTimeout
<1>. QED  BY <1>4, QuietStep DEF BridgeTimeout, BannerInv, BannerTypeOK

LEMMA ShowPreferencesStep == ASSUME BannerInv, NEW t \in Tabs, ShowPreferences(t) PROVE BannerInv'
<1>. DEFINE page == [tab[t] EXCEPT !.banners = @ + 1, !.button = FALSE]
<1>1. PageOK(tab[t], decided) /\ tab[t] \in Tab
  BY DEF BannerInv, PageOK
<1>2. tab[t].banners + 1 \in Nat
  BY <1>1 DEF Tab
<1>3. page \in Tab
  BY <1>1, <1>2 DEF Tab
<1>4. PageOK(page, decided)
  BY <1>1, <1>3 DEF PageOK, Tab, ShowPreferences, Listening
<1>. QED  BY <1>4, QuietStep DEF ShowPreferences, BannerInv, BannerTypeOK

LEMMA LeaveStep == ASSUME BannerInv, NEW t \in Tabs, Leave(t) PROVE BannerInv'
BY ClosedOK, QuietStep DEF Leave, BannerInv, BannerTypeOK

LEMMA FrameStoresStep == ASSUME BannerInv, NEW t \in Tabs, FrameStores(t) PROVE BannerInv'
<1>. DEFINE page == [tab[t] EXCEPT !.stores = Tail(@)]
<1>1. PageOK(tab[t], decided) /\ tab[t] \in Tab
  BY DEF BannerInv, PageOK
<1>2. tab[t].stores \in Seq(Accepted) /\ tab[t].stores # <<>>
  BY <1>1 DEF Tab, FrameStores
<1>3. Tail(tab[t].stores) \in Seq(Accepted) /\ Len(tab[t].stores) \in Nat /\ Len(tab[t].stores) >= 1
  BY <1>2
<1>4. page \in Tab
  BY <1>1, <1>3 DEF Tab
<1>5. \A i \in 1..Len(Tail(tab[t].stores)) : Tail(tab[t].stores)[i] \in Chosen(decided)
  <2>1. TAKE i \in 1..Len(Tail(tab[t].stores))
  <2>2. i + 1 \in 1..Len(tab[t].stores) /\ Tail(tab[t].stores)[i] = tab[t].stores[i + 1]
    BY <1>2, <1>3, HeadTailProperties, SMT
  <2>. QED  BY <2>2, <1>1 DEF PageOK
<1>6. PageOK(page, decided)
  <2>1. /\ page.site = tab[t].site /\ page.config = tab[t].config
        /\ page.phase = tab[t].phase /\ page.allowed = tab[t].allowed
        /\ page.frame = tab[t].frame /\ page.answer = tab[t].answer /\ page.inbox = tab[t].inbox
        /\ page.banners = tab[t].banners /\ page.button = tab[t].button
        /\ page.stores = Tail(tab[t].stores)
    BY <1>1 DEF Tab
  <2>. QED  BY <1>1, <1>4, <1>5, <2>1 DEF PageOK
<1>7. Head(tab[t].stores) = tab[t].stores[1] /\ 1 \in 1..Len(tab[t].stores)
  BY <1>2, <1>3
<1>8. Head(tab[t].stores) \in Accepted /\ Head(tab[t].stores) \in Chosen(decided)
  BY <1>1, <1>2, <1>7, ElementOfSeq DEF PageOK
<1>9. tab' = [tab EXCEPT ![t] = page]
  BY DEF FrameStores
<1>. QED  BY <1>6, <1>8, <1>9, QuietStep DEF FrameStores, BannerInv, BannerTypeOK

LEMMA ReceiveStep == ASSUME BannerInv, NEW t \in Tabs, Receive(t) PROVE BannerInv'
<1>. DEFINE heard == Applied(t, Head(tab[t].inbox))
            page == [tab[t] EXCEPT !.inbox = Tail(@), !.allowed = heard]
<1>1. PageOK(tab[t], decided) /\ tab[t] \in Tab
  BY DEF BannerInv, PageOK
<1>2. tab[t].inbox \in Seq(Accepted) /\ tab[t].inbox # <<>> /\ tab[t].allowed \in Accepted
  BY <1>1 DEF Tab, Receive
<1>3. Tail(tab[t].inbox) \in Seq(Accepted) /\ Len(tab[t].inbox) \in Nat /\ Len(tab[t].inbox) >= 1
  BY <1>2
<1>4. Head(tab[t].inbox) = tab[t].inbox[1] /\ 1 \in 1..Len(tab[t].inbox)
  BY <1>2, <1>3
<1>5. heard \in Accepted /\ heard \in Shown(decided, tab[t].site)
  BY <1>1, <1>2, <1>4, ElementOfSeq DEF PageOK, Applied
<1>6. page \in Tab
  BY <1>1, <1>3, <1>5 DEF Tab
<1>7. \A i \in 1..Len(Tail(tab[t].inbox)) : Tail(tab[t].inbox)[i] \in Shown(decided, tab[t].site)
  <2>1. TAKE i \in 1..Len(Tail(tab[t].inbox))
  <2>2. i + 1 \in 1..Len(tab[t].inbox) /\ Tail(tab[t].inbox)[i] = tab[t].inbox[i + 1]
    BY <1>2, <1>3, HeadTailProperties, SMT
  <2>. QED  BY <2>2, <1>1 DEF PageOK
<1>8. PageOK(page, decided)
  <2>1. /\ page.site = tab[t].site /\ page.config = tab[t].config
        /\ page.phase = tab[t].phase /\ page.allowed = heard
        /\ page.frame = tab[t].frame /\ page.answer = tab[t].answer /\ page.stores = tab[t].stores
        /\ page.banners = tab[t].banners /\ page.button = tab[t].button
        /\ page.inbox = Tail(tab[t].inbox)
    BY <1>1 DEF Tab
  <2>. QED  BY <1>1, <1>5, <1>6, <1>7, <2>1 DEF PageOK
<1>9. tab' = [tab EXCEPT ![t] = page]
  BY DEF Receive
<1>. QED  BY <1>8, <1>9, QuietStep DEF Receive, BannerInv, BannerTypeOK

\* A decision: what it stores, and for whom it counts.
LEMMA DecisionCounts ==
  ASSUME BannerInv, NEW site \in Sites, NEW accepted \in Accepted,
         NEW kind \in {"chosen", "implied", "preview"},
         NEW more, more = decided \cup {[site |-> site, accepted |-> accepted, how |-> kind]}
  PROVE  /\ decided \subseteq more /\ more \subseteq Decision
         /\ kind = "chosen" => accepted \in Chosen(more)
         /\ kind \in {"chosen", "implied"} => accepted \in Counted(more, site)
         /\ accepted \in Shown(more, site)
<1>. DEFINE new == [site |-> site, accepted |-> accepted, how |-> kind]
<1>1. decided \subseteq more /\ new \in more
  OBVIOUS
<1>2. new \in Decision /\ decided \subseteq Decision
  BY DEF Decision, BannerInv, BannerTypeOK
<1>3. more \subseteq Decision
  BY <1>2
<1>4. ASSUME NEW sites, NEW hows, site \in sites, kind \in hows
      PROVE  accepted \in Taken(more, sites, hows)
  <2>1. new \in {e \in more : e.site \in sites /\ e.how \in hows} /\ new.accepted = accepted
    BY <1>1, <1>4
  <2>. HIDE DEF new
  <2>. QED  BY <2>1 DEF Taken
<1>5. kind = "chosen" => accepted \in Chosen(more)
  BY <1>4 DEF Chosen
<1>6. kind \in {"chosen", "implied"} => accepted \in Counted(more, site)
  BY <1>4, <1>5 DEF Counted
<1>7. accepted \in Shown(more, site)
  BY <1>4, <1>6 DEF Shown
<1>. QED  BY <1>1, <1>3, <1>5, <1>6, <1>7

LEMMA ConsentStep ==
  ASSUME BannerInv, NEW t \in Tabs, NEW page, NEW accepted \in Accepted, NEW how,
         how = "chosen" \/ (how = "implied" /\ ImplicitMode(t)),
         tab[t].site \in Sites, PageOK(page, decided),
         page.site = tab[t].site, page.config = tab[t].config,
         HandleConsent(t, page, accepted, how)
  PROVE  BannerInv'
<1>. DEFINE site == tab[t].site
            kind == IF tab[t].config.kind = "preview" THEN "preview" ELSE how
            stores == SentToFrame(page, accepted)
            told == [page EXCEPT !.allowed = accepted, !.stores = stores]
<1>1. kind \in {"chosen", "implied", "preview"} /\ (how = "implied" => page.config.implicit)
  BY DEF ImplicitMode
<1>2. /\ decided \subseteq decided' /\ decided' \subseteq Decision
      /\ kind = "chosen" => accepted \in Chosen(decided')
      /\ kind \in {"chosen", "implied"} => accepted \in Counted(decided', site)
      /\ accepted \in Shown(decided', site)
  <2>1. decided' = decided \cup {[site |-> site, accepted |-> accepted, how |-> kind]}
    BY DEF HandleConsent
  <2>2. site \in Sites
    OBVIOUS
  <2>. HIDE DEF kind, site
  <2>. QED  BY <1>1, <2>1, <2>2, DecisionCounts
<1>3. accepted \in Shown(decided', site)
  BY <1>2
<1>4. PageOK(page, decided') /\ page \in Tab /\ page.stores \in Seq(Accepted)
  BY <1>2, PageStays DEF PageOK, Tab
<1>5. stores \in Seq(Accepted)
  BY <1>4 DEF SentToFrame
<1>6. \A i \in 1..Len(stores) : stores[i] \in Chosen(decided')
  <2>1. CASE page.config.kind = "live" /\ page.frame = "up"
    <3>1. accepted \in Chosen(decided')
      BY <1>1, <1>2, <2>1 DEF PageOK
    <3>. QED  BY <1>4, <2>1, <3>1 DEF SentToFrame, PageOK
  <2>2. CASE ~(page.config.kind = "live" /\ page.frame = "up")
    BY <1>4, <2>2 DEF SentToFrame, PageOK
  <2>. QED  BY <2>1, <2>2
<1>7. told \in Tab
  BY <1>4, <1>5 DEF Tab
<1>8. PageOK(told, decided')
  <2>1. /\ told.site = page.site /\ told.config = page.config /\ told.phase = page.phase /\ told.allowed = accepted
        /\ told.frame = page.frame /\ told.answer = page.answer /\ told.stores = stores
        /\ told.banners = page.banners /\ told.button = page.button /\ told.inbox = page.inbox
    BY <1>4 DEF Tab
  <2>. QED  BY <1>3, <1>4, <1>6, <1>7, <2>1 DEF PageOK
<1>9. tab' \in [Tabs -> Tab] /\ \A u \in Tabs : PageOK(tab'[u], decided')
  <2>1. tab' = Broadcast([tab EXCEPT ![t] = told], t, accepted)
    BY DEF HandleConsent
  <2>. QED  BY <1>2, <1>3, <1>8, <2>1, PageBroadcasts
<1>10. /\ cookie' \in [Sites -> {Null} \cup [accepted : Accepted, version : Nat]]
       /\ \A s \in Sites : CookieOK(cookie'[s], s, decided')
  <2>1. /\ cookie \in [Sites -> {Null} \cup [accepted : Accepted, version : Nat]]
        /\ \A s \in Sites : CookieOK(cookie[s], s, decided')
    BY <1>2, CookieStays DEF BannerInv, BannerTypeOK
  <2>2. CASE tab[t].config.kind = "preview"
    BY <2>1, <2>2 DEF HandleConsent, CookiesAfter
  <2>3. CASE tab[t].config.kind # "preview"
    <3>1. accepted \in Counted(decided', site)
      BY <1>1, <1>2, <2>3
    <3>2. tab[t].config.version \in Nat
      BY <1>4 DEF Tab
    <3>3. cookie' = [cookie EXCEPT ![site] = [accepted |-> accepted, version |-> tab[t].config.version]]
      BY <2>3 DEF HandleConsent, CookiesAfter
    <3>. QED  BY <2>1, <3>1, <3>2, <3>3 DEF CookieOK
  <2>. QED  BY <2>2, <2>3
<1>11. shared' \in {Null} \cup Accepted /\ (shared' # Null => shared' \in Chosen(decided'))
  BY <1>2, ChosenGrows DEF HandleConsent, BannerInv, BannerTypeOK
<1>12. version' \in [Sites -> Nat] /\ spent' \in [loads : Nat, decisions : Nat]
  BY DEF HandleConsent, BannerInv, BannerTypeOK
<1>. QED  BY <1>2, <1>9, <1>10, <1>11, <1>12 DEF BannerInv, BannerTypeOK

LEMMA AnswerStep ==
  ASSUME BannerInv, NEW t \in Tabs, NEW accepted \in Accepted, Answer(t, accepted) \/ Dismiss(t)
  PROVE  BannerInv'
<1>. DEFINE page == BannerClosed(tab[t])
<1>1. PageOK(tab[t], decided) /\ tab[t] \in Tab /\ tab[t].banners > 0
  BY DEF BannerInv, PageOK, Answer, Dismiss
<1>2. tab[t].banners - 1 \in Nat
  BY <1>1 DEF Tab
<1>3. page \in Tab
  BY <1>1, <1>2 DEF Tab, BannerClosed
<1>4. /\ page.site = tab[t].site /\ page.config = tab[t].config
      /\ page.phase = tab[t].phase /\ page.allowed = tab[t].allowed
      /\ page.frame = tab[t].frame /\ page.answer = tab[t].answer
      /\ page.stores = tab[t].stores /\ page.inbox = tab[t].inbox /\ page.button = TRUE
  BY <1>1 DEF Tab, BannerClosed
<1>5. PageOK(page, decided)
  BY <1>1, <1>3, <1>4 DEF PageOK
<1>6. tab[t].site \in Sites
  BY <1>1 DEF PageOK
<1>7. CASE Answer(t, accepted)
  BY <1>4, <1>5, <1>6, <1>7, ConsentStep DEF Answer
<1>8. CASE Dismiss(t)
  <2>1. Categories \in Accepted /\ {} \in Accepted
    BY DEF Accepted
  <2>. QED  BY <1>4, <1>5, <1>6, <1>8, <2>1, ConsentStep DEF Dismiss
<1>. QED  BY <1>7, <1>8

LEMMA SdkStep ==
  ASSUME BannerInv, NEW t \in Tabs, NEW accepted \in Accepted, Sdk(t, accepted)
  PROVE  BannerInv'
<1>1. PageOK(tab[t], decided) /\ tab[t].site \in Sites
  BY DEF BannerInv, PageOK, Sdk, Listening
<1>. QED  BY <1>1, ConsentStep DEF Sdk

\* init() ends in one of four ways.
LEMMA ConfigArrivesStep == ASSUME BannerInv, NEW t \in Tabs, ConfigArrives(t) PROVE BannerInv'
<1>1. PICK config \in Fetched(t) : Configure(t, config)
  BY DEF ConfigArrives
<1>. DEFINE s == tab[t].site
            existing == IF config.kind = "preview" THEN Null ELSE cookie[s]
            page == [tab[t] EXCEPT !.config = config, !.phase = "ready"]
<1>2. PageOK(tab[t], decided) /\ tab[t] \in Tab /\ s \in Sites /\ tab[t].phase = "loading"
  BY DEF BannerInv, PageOK, ConfigArrives
<1>3. config \in [kind : {"none", "live", "preview", "default"}, version : Nat, implicit : BOOLEAN]
  <2>1. version[s] \in Nat
    BY <1>2 DEF BannerInv, BannerTypeOK
  <2>2. CASE config \in [kind : {"live"}, version : {version[s]}, implicit : BOOLEAN]
    BY <2>1, <2>2
  <2>3. CASE config \in [kind : {"preview"}, version : {0}, implicit : BOOLEAN]
    BY <2>3
  <2>4. CASE config = [kind |-> "default", version |-> 0, implicit |-> FALSE]
    BY <2>4
  <2>. QED  BY <2>2, <2>3, <2>4 DEF Fetched
<1>4. UNCHANGED <<version, cookie, shared, spent>>
  BY <1>1 DEF Configure
<1>5. CASE decided' = decided /\ tab' = [tab EXCEPT ![t] = [page EXCEPT !.button = TRUE]]
  <2>1. PageOK([page EXCEPT !.button = TRUE], decided)
    BY <1>2, <1>3 DEF PageOK, Tab
  <2>. QED  BY <1>4, <1>5, <2>1, QuietStep DEF BannerInv, BannerTypeOK
<1>6. CASE /\ config.implicit
           /\ tab' = [tab EXCEPT ![t] = [page EXCEPT !.allowed = Categories, !.banners = 1]]
           /\ decided' = decided \cup {[site |-> s, accepted |-> Categories,
                how |-> IF config.kind = "preview" THEN "preview" ELSE "implied"]}
  <2>. DEFINE kind == IF config.kind = "preview" THEN "preview" ELSE "implied"
              shown == [page EXCEPT !.allowed = Categories, !.banners = 1]
  <2>1. Categories \in Accepted /\ kind \in {"chosen", "implied", "preview"}
    BY DEF Accepted
  <2>2. /\ decided \subseteq decided' /\ decided' \subseteq Decision
        /\ Categories \in Shown(decided', s)
    <3>1. decided' = decided \cup {[site |-> s, accepted |-> Categories, how |-> kind]}
      BY <1>6
    <3>2. s \in Sites
      BY <1>2
    <3>. HIDE DEF kind, s
    <3>. QED  BY <2>1, <3>1, <3>2, DecisionCounts
  <2>3. Categories \in Shown(decided', s)
    BY <2>2
  <2>4. PageOK(tab[t], decided')
    BY <1>2, <2>2, PageStays
  <2>a. shown \in Tab
    BY <1>2, <1>3, <2>1 DEF Tab
  <2>b. /\ shown.site = s /\ shown.config = config /\ shown.phase = "ready" /\ shown.allowed = Categories
        /\ shown.frame = tab[t].frame /\ shown.answer = tab[t].answer
        /\ shown.stores = tab[t].stores /\ shown.inbox = tab[t].inbox /\ shown.banners = 1
    BY <1>2 DEF Tab
  <2>5. PageOK(shown, decided')
    BY <1>2, <2>3, <2>4, <2>a, <2>b DEF PageOK
  <2>c. tab' = [tab EXCEPT ![t] = shown]
    BY <1>6
  <2>. HIDE DEF shown
  <2>6. tab' \in [Tabs -> Tab] /\ \A u \in Tabs : PageOK(tab'[u], decided')
    BY <2>2, <2>5, <2>c, OnePage
  <2>7. \A r \in Sites : CookieOK(cookie[r], r, decided')
    BY <2>2, CookieStays DEF BannerInv
  <2>8. shared # Null => shared \in Chosen(decided')
    BY <2>2, ChosenGrows DEF BannerInv
  <2>. QED  BY <1>4, <2>2, <2>6, <2>7, <2>8 DEF BannerInv, BannerTypeOK
<1>7. CASE /\ ~config.implicit /\ decided' = decided
           /\ tab' = [tab EXCEPT ![t] = [page EXCEPT !.phase = "bridging", !.frame = "loading"]]
  <2>2. PageOK([page EXCEPT !.phase = "bridging", !.frame = "loading"], decided)
    BY <1>2, <1>3, <1>7 DEF PageOK, Tab
  <2>. QED  BY <1>4, <1>7, <2>2, QuietStep DEF BannerInv, BannerTypeOK
<1>8. CASE decided' = decided /\ tab' = [tab EXCEPT ![t] = [page EXCEPT !.banners = 1]]
  <2>. DEFINE shown == [page EXCEPT !.banners = 1]
  <2>a. shown \in Tab
    BY <1>2, <1>3 DEF Tab
  <2>b. /\ shown.site = s /\ shown.config = config /\ shown.phase = "ready" /\ shown.allowed = tab[t].allowed
        /\ shown.frame = tab[t].frame /\ shown.answer = tab[t].answer
        /\ shown.stores = tab[t].stores /\ shown.inbox = tab[t].inbox /\ shown.banners = 1
    BY <1>2 DEF Tab
  <2>1. PageOK(shown, decided)
    BY <1>2, <2>a, <2>b DEF PageOK
  <2>. QED  BY <1>4, <1>8, <2>1, QuietStep DEF BannerInv, BannerTypeOK
<1>. QED  BY <1>1, <1>5, <1>6, <1>7, <1>8 DEF Configure, AsksBridge

\* The bridge's answer was chosen, so it counts on any site.
LEMMA AdoptStep == ASSUME BannerInv, NEW t \in Tabs, Adopt(t) PROVE BannerInv'
<1>. DEFINE s == tab[t].site
            answer == tab[t].answer
            page == [tab[t] EXCEPT !.phase = "ready", !.reply = "none", !.answer = Null]
<1>1. PageOK(tab[t], decided) /\ tab[t] \in Tab /\ s \in Sites
  BY DEF BannerInv, PageOK, Adopt
<1>2. UNCHANGED <<version, shared, decided, spent>>
  BY DEF Adopt
<1>3. CASE /\ answer # Null
           /\ cookie' = [cookie EXCEPT ![s] = [accepted |-> answer, version |-> tab[t].config.version]]
           /\ tab' = Broadcast([tab EXCEPT ![t] =
                [page EXCEPT !.allowed = answer, !.button = TRUE]], t, answer)
  <2>. DEFINE now == [page EXCEPT !.allowed = answer, !.button = TRUE]
  <2>1. answer \in Accepted /\ answer \in Counted(decided, s) /\ answer \in Shown(decided, s)
    BY <1>1, <1>3, ChosenCounts DEF PageOK, Tab
  <2>a. now \in Tab
    BY <1>1, <2>1 DEF Tab
  <2>b. /\ now.site = s /\ now.config = tab[t].config /\ now.frame = tab[t].frame /\ now.answer = Null
        /\ now.stores = tab[t].stores /\ now.inbox = tab[t].inbox
        /\ now.banners = tab[t].banners /\ now.button = TRUE
        /\ now.phase = "ready" /\ now.allowed = answer
    BY <1>1 DEF Tab
  <2>2. PageOK(now, decided)
    BY <1>1, <2>1, <2>a, <2>b DEF PageOK
  <2>3. tab' \in [Tabs -> Tab] /\ \A u \in Tabs : PageOK(tab'[u], decided)
    BY <1>3, <2>1, <2>2, PageBroadcasts
  <2>4. tab[t].config.version \in Nat
    BY <1>1 DEF Tab
  <2>5. /\ cookie' \in [Sites -> {Null} \cup [accepted : Accepted, version : Nat]]
        /\ \A r \in Sites : CookieOK(cookie'[r], r, decided)
    BY <1>1, <1>3, <2>1, <2>4 DEF CookieOK, BannerInv, BannerTypeOK
  <2>. QED  BY <1>2, <2>3, <2>5 DEF BannerInv, BannerTypeOK
<1>4. CASE cookie' = cookie /\ tab' = [tab EXCEPT ![t] = [page EXCEPT !.banners = @ + 1]]
  <2>1. tab[t].banners + 1 \in Nat /\ page.banners = tab[t].banners
    BY <1>1 DEF Tab
  <2>2. [page EXCEPT !.banners = @ + 1] \in Tab
    BY <1>1, <2>1 DEF Tab
  <2>. DEFINE now == [page EXCEPT !.banners = @ + 1]
  <2>c. /\ now.site = s /\ now.config = tab[t].config /\ now.frame = tab[t].frame /\ now.answer = Null
        /\ now.stores = tab[t].stores /\ now.inbox = tab[t].inbox
        /\ now.phase = "ready" /\ now.allowed = tab[t].allowed
        /\ now.banners = tab[t].banners + 1 /\ now.banners > 0
    BY <1>1, <2>1 DEF Tab
  <2>3. PageOK(now, decided)
    BY <1>1, <2>1, <2>2, <2>c DEF PageOK
  <2>. QED  BY <1>2, <1>4, <2>3, QuietStep DEF BannerInv, BannerTypeOK
<1>. QED  BY <1>3, <1>4 DEF Adopt

\* Steps outside the pages.
LEMMA OutsideStep ==
  ASSUME BannerInv, (\E s \in Sites : PublishReconsent(s) \/ Expire(s)) \/ ExpireShared
  PROVE  BannerInv'
<1>1. UNCHANGED <<tab, decided, spent>>
  BY DEF PublishReconsent, Expire, ExpireShared
<1>2. version' \in [Sites -> Nat]
  BY DEF PublishReconsent, Expire, ExpireShared, BannerInv, BannerTypeOK
<1>3. /\ cookie' \in [Sites -> {Null} \cup [accepted : Accepted, version : Nat]]
      /\ \A s \in Sites : CookieOK(cookie'[s], s, decided)
  BY DEF PublishReconsent, Expire, ExpireShared, BannerInv, BannerTypeOK, CookieOK
<1>4. shared' \in {Null} \cup Accepted /\ (shared' # Null => shared' \in Chosen(decided))
  BY DEF PublishReconsent, Expire, ExpireShared, BannerInv, BannerTypeOK
<1>. QED  BY <1>1, <1>2, <1>3, <1>4 DEF BannerInv, BannerTypeOK

LEMMA BannerStep == BannerInv /\ [BannerNext]_bannerVars => BannerInv'
<1>1. SUFFICES ASSUME BannerInv, [BannerNext]_bannerVars PROVE BannerInv'
  OBVIOUS
<1>2. CASE UNCHANGED bannerVars
  BY <1>1, <1>2 DEF bannerVars, BannerInv, BannerTypeOK
<1>3. CASE \E t \in Tabs : \E s \in Sites : Open(t, s)
  BY <1>1, <1>3, OpenStep
<1>4. CASE \E t \in Tabs : ConfigArrives(t)
  BY <1>1, <1>4, ConfigArrivesStep
<1>5. CASE \E t \in Tabs : FrameLoads(t) \/ Adopt(t) \/ BridgeTimeout(t)
  BY <1>1, <1>5, FrameLoadsStep, AdoptStep, BridgeTimeoutStep
<1>6. CASE \E t \in Tabs : \E accepted \in Accepted : Answer(t, accepted) \/ Sdk(t, accepted)
  BY <1>1, <1>6, AnswerStep, SdkStep
<1>7. CASE \E t \in Tabs : Dismiss(t)
  <2>1. {} \in Accepted
    BY DEF Accepted
  <2>. QED  BY <1>1, <1>7, <2>1, AnswerStep
<1>8. CASE \E t \in Tabs : ShowPreferences(t) \/ FrameStores(t) \/ Receive(t) \/ Leave(t)
  BY <1>1, <1>8, ShowPreferencesStep, FrameStoresStep, ReceiveStep, LeaveStep
<1>9. CASE (\E s \in Sites : PublishReconsent(s) \/ Expire(s)) \/ ExpireShared
  BY <1>1, <1>9, OutsideStep
<1>. QED  BY <1>1, <1>2, <1>3, <1>4, <1>5, <1>6, <1>7, <1>8, <1>9 DEF BannerNext

LEMMA BannerAlways == BannerSpec => []BannerInv
BY BannerBegins, BannerStep, PTL DEF BannerSpec

-----------------------------------------------------------------------------
(* With a script on one of the pages.                                      *)

\* The banner knows nothing of the script: whatever holds of the banner alone
\* holds of the two together.
THEOREM PagesImplementBanner == PagesSpec => BannerSpec
<1>1. PagesInit => BannerInit
  BY DEF PagesInit
<1>2. [PagesNext]_pageVars => [BannerNext]_bannerVars
  BY DEF PagesNext, pageVars
<1>. QED  BY <1>1, <1>2, PTL DEF PagesSpec, BannerSpec

LEMMA PagesAlways == PagesSpec => []BannerInv
BY PagesImplementBanner, BannerAlways, PTL

\* What the invariant says in the terms of the properties.
LEMMA TakenIsDecided ==
  ASSUME NEW sites, NEW hows
  PROVE  Taken(decided, sites, hows) = DecidedOn(sites, hows)
BY DEF Taken, DecidedOn

\* No cookie of a site or of the group ever holds anything but one whole decision
\* of the visitor, and none a preview's.
THEOREM OnlyDecisions == PagesSpec => []OnlyDecisionsStored
<1>1. BannerInv => OnlyDecisionsStored
  <2>1. SUFFICES ASSUME BannerInv PROVE OnlyDecisionsStored
    OBVIOUS
  <2>2. Chosen(decided) \subseteq DecidedOn(Sites, {"chosen", "implied"})
    BY DEF Chosen, Taken, DecidedOn
  <2>3. \A s \in Sites : Counted(decided, s) \subseteq DecidedOn(Sites, {"chosen", "implied"})
    BY <2>2 DEF Counted, Taken, DecidedOn
  <2>4. \A s \in Sites : cookie[s] # Null => cookie[s].accepted \in DecidedOn(Sites, {"chosen", "implied"})
    BY <2>1, <2>3 DEF BannerInv, CookieOK
  <2>5. shared # Null => shared \in DecidedOn(Sites, {"chosen", "implied"})
    BY <2>1, <2>2 DEF BannerInv
  <2>. QED  BY <2>4, <2>5 DEF OnlyDecisionsStored
<1>. QED  BY <1>1, PagesAlways, PTL

\* Whatever modes the group's sites are fetched in, and however they change, from
\* one site to another comes only what the visitor chose.
THEOREM OnlyChoices == PagesSpec => []OnlyChoicesCross
<1>1. BannerInv => OnlyChoicesCross
  <2>1. SUFFICES ASSUME BannerInv PROVE OnlyChoicesCross
    OBVIOUS
  <2>2. Chosen(decided) = DecidedOn(Sites, {"chosen"})
    BY TakenIsDecided DEF Chosen
  <2>3. \A s : Counted(decided, s) = DecidedOn(Sites, {"chosen"}) \cup DecidedOn({s}, {"implied"})
    BY <2>2, TakenIsDecided DEF Counted
  <2>4. \A s : DecidedOn({s}, {"implied"}) \cup DecidedOn({s}, {"preview"})
                 = DecidedOn({s}, {"implied", "preview"})
    BY DEF DecidedOn
  <2>5. \A s : Shown(decided, s)
                 = {{}} \cup DecidedOn(Sites, {"chosen"}) \cup DecidedOn({s}, {"implied", "preview"})
    <3>1. TAKE s
    <3>2. Taken(decided, {s}, {"preview"}) = DecidedOn({s}, {"preview"})
      BY TakenIsDecided
    <3>. QED  BY <2>3, <2>4, <3>2 DEF Shown
  <2>6. \A t \in Tabs : tab[t].allowed \in Shown(decided, tab[t].site)
    BY <2>1 DEF BannerInv, PageOK
  <2>7. \A s \in Sites : cookie[s] # Null => cookie[s].accepted \in Counted(decided, s)
    BY <2>1 DEF BannerInv, CookieOK
  <2>8. shared # Null => shared \in Chosen(decided)
    BY <2>1 DEF BannerInv
  <2>. QED  BY <2>2, <2>3, <2>5, <2>6, <2>7, <2>8 DEF OnlyChoicesCross
<1>. QED  BY <1>1, PagesAlways, PTL

\* No sequence of banners, preferences, messages and timeouts leaves a page at
\* rest without a way to change one's mind.
THEOREM AlwaysAtHand == PagesSpec => []WithdrawalAtHand
<1>1. BannerInv => WithdrawalAtHand
  BY DEF BannerInv, PageOK, WithdrawalAtHand
<1>. QED  BY <1>1, PagesAlways, PTL

\* Every variable of the banner keeps its type.
THEOREM TypeCorrect == PagesSpec => []BannerTypeOK
<1>1. BannerInv => BannerTypeOK
  BY DEF BannerInv
<1>. QED  BY <1>1, PagesAlways, PTL

-----------------------------------------------------------------------------
(* The script.                                                             *)

Scripts == [src : {"none", "held", "live"}, place : {"out", "pending", "in"},
            inert : BOOLEAN, queued : BOOLEAN, waiting : BOOLEAN, ran : BOOLEAN]

\* A script that could run has run, so that none is left over for a moment at which
\* its category is not accepted; one in the queue cannot run, and one that waits is
\* not what its page accepts.
ScriptOK(s, allowed) ==
  /\ s \in Scripts
  /\ s.place # "out" /\ s.src = "live" /\ ~s.inert => s.ran
  /\ s.queued => s.inert
  /\ s.waiting => Category \notin allowed

ScriptInv == script # Null => ScriptOK(script, tab[Watched].allowed)

\* A script starts only under what its page accepts.
Starts(s, next, allowed) == next.ran /\ ~s.ran => Category \in allowed

LEMMA NewScriptOK == ASSUME NEW allowed PROVE ScriptOK(Blocker!NewScript, allowed)
BY DEF ScriptOK, Scripts, Blocker!NewScript

\* A release under what a page accepts now.
LEMMA ReleaseOK ==
  ASSUME NEW s, NEW allowed, NEW now, ScriptOK(s, allowed)
  PROVE  ScriptOK(Blocker!Released(s, now), now) /\ Starts(s, Blocker!Released(s, now), now)
<1>1. CASE s.waiting /\ Category \in now
  BY <1>1 DEF ScriptOK, Scripts, Starts, Blocker!Released
<1>2. CASE ~(s.waiting /\ Category \in now)
  BY <1>2 DEF ScriptOK, Starts, Blocker!Released
<1>. QED  BY <1>1, <1>2

\* The script's own steps.
LEMMA ScriptStepOK ==
  ASSUME script # Null, ScriptOK(script, tab[Watched].allowed), Blocker!ScriptStep
  PROVE  ScriptOK(script', tab[Watched].allowed) /\ Starts(script, script', tab[Watched].allowed)
<1>1. script \in Scripts /\ (Blocker!Blocked <=> Category \notin tab[Watched].allowed)
  BY DEF ScriptOK, Blocker!Blocked
<1>2. CASE Blocker!SetSrc
  BY <1>1, <1>2 DEF Blocker!SetSrc, Blocker!Browser, ScriptOK, Scripts, Starts
<1>3. CASE Blocker!Insert
  <2>1. CASE script.queued \/ script.src = "none" \/ ~Blocker!Blocked
    <3>1. script' = Blocker!Browser([script EXCEPT !.place = "pending"])
      BY <1>3, <2>1 DEF Blocker!Insert, Blocker!Inspected
    <3>2. script' \in Scripts
      BY <1>1, <3>1 DEF Blocker!Browser, Scripts
    <3>3. Starts(script, script', tab[Watched].allowed)
      BY <1>1, <2>1, <3>1 DEF Blocker!Browser, Starts, Scripts, ScriptOK
    <3>. QED  BY <1>1, <2>1, <3>1, <3>2, <3>3 DEF Blocker!Browser, ScriptOK, Scripts
  <2>2. CASE ~(script.queued \/ script.src = "none" \/ ~Blocker!Blocked)
    <3>1. script' = Blocker!Browser([Blocker!Held(script) EXCEPT !.place = "pending"])
      BY <1>3, <2>2 DEF Blocker!Insert, Blocker!Inspected
    <3>. QED  BY <1>1, <2>2, <3>1 DEF Blocker!Browser, Blocker!Held, ScriptOK, Scripts, Starts
  <2>. QED  BY <2>1, <2>2
<1>4. CASE Blocker!Parse
  BY <1>1, <1>4 DEF Blocker!Parse, Blocker!NewScript, ScriptOK, Scripts, Starts
<1>5. CASE Blocker!Observe
  BY <1>1, <1>5 DEF Blocker!Observe, Blocker!Held, ScriptOK, Scripts, Starts
<1>. QED  BY <1>2, <1>3, <1>4, <1>5 DEF Blocker!ScriptStep

\* Every step of the pages, for the script.
LEMMA ScriptKept ==
  ASSUME ScriptInv, [PagesNext]_pageVars
  PROVE  /\ ScriptInv'
         /\ script # Null => /\ ScriptOK(script', tab'[Watched].allowed)
                            /\ Starts(script, script', tab'[Watched].allowed)
<1>1. CASE UNCHANGED pageVars
  BY <1>1 DEF pageVars, bannerVars, ScriptInv, Starts
<1>2. CASE script' = IF script = Null THEN Null
                     ELSE IF tab'[Watched].phase = "closed" THEN Blocker!NewScript
                     ELSE Blocker!Released(script, tab'[Watched].allowed)
  <2>1. CASE script = Null
    BY <1>2, <2>1 DEF ScriptInv
  <2>2. CASE script # Null /\ tab'[Watched].phase = "closed"
    <3>1. script' = Blocker!NewScript
      BY <1>2, <2>2
    <3>. QED  BY <3>1, NewScriptOK DEF ScriptInv, Starts, Blocker!NewScript
  <2>3. CASE script # Null /\ tab'[Watched].phase # "closed"
    <3>1. script' = Blocker!Released(script, tab'[Watched].allowed)
      BY <1>2, <2>3
    <3>. QED  BY <2>3, <3>1, ReleaseOK DEF ScriptInv
  <2>. QED  BY <2>1, <2>2, <2>3
<1>3. CASE script # Null /\ Blocker!ScriptStep /\ UNCHANGED bannerVars
  <2>1. tab' = tab
    BY <1>3 DEF bannerVars
  <2>. QED  BY <1>3, <2>1, ScriptStepOK DEF ScriptInv
<1>. QED  BY <1>1, <1>2, <1>3 DEF PagesNext

\* However a classified script gets its URL and its place, and whatever the page's
\* consent does meanwhile, it starts only at a moment at which its page lets its
\* category run, and none waits for a category that its page accepts.
THEOREM HeldUntil == PagesSpec => HeldUntilGranted
<1>1. PagesInit => ScriptInv
  BY NewScriptOK DEF PagesInit, ScriptInv
<1>2. ScriptInv /\ [PagesNext]_pageVars => ScriptInv'
  BY ScriptKept
<1>3. ScriptInv /\ [PagesNext]_pageVars =>
        [script # Null =>
           /\ script'.ran /\ ~script.ran => Category \in tab'[Watched].allowed
           /\ script'.waiting => Category \notin tab'[Watched].allowed]_pageVars
  <2>1. ASSUME ScriptInv, [PagesNext]_pageVars, script # Null
        PROVE  /\ script'.ran /\ ~script.ran => Category \in tab'[Watched].allowed
               /\ script'.waiting => Category \notin tab'[Watched].allowed
    BY <2>1, ScriptKept DEF ScriptOK, Starts
  <2>. QED  BY <2>1
<1>. QED  BY <1>1, <1>2, <1>3, PTL DEF PagesSpec, HeldUntilGranted
=============================================================================
