---------------------------- MODULE VisitorPages ----------------------------
(* The banner's pages with a script element on one of them: the loader's    *)
(* blocker is driven by the page's consent, through the bridge between the  *)
(* two bundles.                                                             *)
EXTENDS ConsentBanner

CONSTANTS
  Watched,   \* the tab whose page has the script
  Category,  \* the script's category
  MaxScripted \* bound: pages opened in a behaviour with the script

ASSUME PagesAssumption ==
  Watched \in Tabs /\ Category \in Categories /\ MaxScripted \in Nat

VARIABLE script

pageVars == <<bannerVars, script>>

Blocker == INSTANCE ScriptBlocker WITH accepted <- tab[Watched].allowed

\* The watched page has the script, or there is none on any page.
PagesInit == BannerInit /\ script \in {Null, Blocker!NewScript}

\* A page's elements come and go with it; a step of the banner that calls
\* _updateBlocker releases what waits for what it accepts.
PagesNext ==
  \/ /\ BannerNext
     /\ script' = IF script = Null THEN Null
                  ELSE IF tab'[Watched].phase = "closed" THEN Blocker!NewScript
                  ELSE Blocker!Released(script, tab'[Watched].allowed)
     /\ script # Null => spent'.loads <= MaxScripted
  \/ /\ script # Null /\ tab[Watched].phase # "closed"
     /\ Blocker!ScriptStep
     /\ UNCHANGED bannerVars

PagesSpec == PagesInit /\ [][PagesNext]_pageVars

-----------------------------------------------------------------------------

\* A classified script starts only at a moment at which its page lets its
\* category run, after withdrawals too, and none waits for what its page has.
HeldUntilGranted ==
  [][script # Null =>
       /\ script'.ran /\ ~script.ran => Category \in tab'[Watched].allowed
       /\ script'.waiting => Category \notin tab'[Watched].allowed]_pageVars

\* What docs and loader promise of every held script.
GrantedRuns == script # Null => Blocker!GrantedRuns
=============================================================================
