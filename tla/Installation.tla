---------------------------- MODULE Installation ----------------------------
(* Whether the banner is installed on a site's page: what visits leave      *)
(* behind, what "Check now" finds, and the state made of the two.           *)
EXTENDS Naturals, Sequences, FiniteSets, SequencesExt

CONSTANTS
  Hosts,     \* the site's own hosts, each with its throttle key
  Tasks,     \* background tasks that can run at once
  Checks,    \* "Check now" requests that can run at once
  MaxEdits,  \* bound: how often the owner changes the page
  MaxChecks, \* bound: how many checks are asked for
  MaxFaults  \* bound: calls of Redis, the database or the scanner that fail

ASSUME InstallationAssumption == {MaxEdits, MaxChecks, MaxFaults} \subseteq Nat

VARIABLES
  page,      \* the site's page as it is served
  throttle,  \* hosts whose key is in Redis
  tasks,     \* record_banner_load, one run per task
  checks,    \* check_site_installation, one run per check
  found,     \* ok of the row's last_check, "none" before the first
  clock,     \* whoever holds a time, the oldest time first
  budget     \* edits, checks and faults that are left

installVars == <<page, throttle, tasks, checks, found, clock, budget>>

\* "seen" and "checked" are the row's last_seen_at and last_check_at; a run holds
\* the time it is about to write there.
Holders == {"seen", "checked"} \cup Tasks \cup Checks

\* Whether the page loads on one of the site's hosts, where its loader comes from,
\* and whether that names this site and this server and is synchronous and first.
Pages ==
  {p \in [served : BOOLEAN, loader : {"none", "html", "script"},
          own : BOOLEAN, base : BOOLEAN, tidy : BOOLEAN] :
     p.loader = "none" => ~p.own /\ ~p.base /\ ~p.tidy}

IdleTask == [step |-> "idle", host |-> "none"]
IdleCheck == [step |-> "idle", ok |-> FALSE]

InstallTypeOK ==
  /\ page \in Pages /\ throttle \subseteq Hosts
  /\ tasks \in [Tasks -> [step : {"idle", "noted", "claimed", "stamped"}, host : Hosts \cup {"none"}]]
  /\ checks \in [Checks -> [step : {"idle", "loading", "loaded", "judged"}, ok : BOOLEAN]]
  /\ found \in {"none", "ok", "failed"}
  /\ clock \in Seq(Holders) /\ Cardinality(ToSet(clock)) = Len(clock)
  /\ budget \in [edits : 0..MaxEdits, checks : 0..MaxChecks, faults : 0..MaxFaults]
  /\ \A t \in Tasks : t \in ToSet(clock) <=> tasks[t].step = "stamped"
  /\ \A k \in Checks : k \in ToSet(clock) <=> checks[k].step = "judged"
  /\ "checked" \in ToSet(clock) <=> found # "none"

InstallInit ==
  /\ page \in Pages /\ throttle = {}
  /\ tasks = [t \in Tasks |-> IdleTask] /\ checks = [k \in Checks |-> IdleCheck]
  /\ found = "none" /\ clock = <<>>
  /\ budget = [edits |-> MaxEdits, checks |-> MaxChecks, faults |-> MaxFaults]

-----------------------------------------------------------------------------
(* Times are compared, never measured.                                      *)

Stamped(x) == Append(clock, x)

\* x's time is written to the row, whatever time was there before.
Written(x, column) ==
  ReplaceAll(SelectSeq(clock, LAMBDA y : y # column), x, column)

Dropped(x) == SelectSeq(clock, LAMBDA y : y # x)

Later(x, y) ==
  \E i, j \in DOMAIN clock : clock[i] = x /\ clock[j] = y /\ j < i

Held(x) == x \in ToSet(clock)

\* Mutation of State: a failed check counts until the next one.
StateUntilChecked ==
  CASE found = "failed"               -> "problem"
    [] found # "failed" /\ Held("seen") -> "installed"
    [] found = "ok"                   -> "installed"
    [] OTHER                          -> "not_detected"

\* installation_state
State ==
  CASE found = "failed" /\ ~Later("seen", "checked") -> "problem"
    [] Held("seen") \/ found = "ok"                  -> "installed"
    [] OTHER                                         -> "not_detected"

\* diagnose: a loader that a script added is known by its request alone, so the
\* checks of its tag are skipped.
Passes(p) ==
  /\ p.served
  /\ \/ p.loader = "html" /\ p.own /\ p.base /\ p.tidy
     \/ p.loader = "script"

\* The page fetches this site's configuration from this server.
Works(p) == p.served /\ p.loader # "none" /\ p.own /\ p.base

-----------------------------------------------------------------------------

Spend(kind) == budget[kind] > 0 /\ budget' = [budget EXCEPT ![kind] = @ - 1]

Edit ==
  /\ Spend("edits") /\ page' \in Pages
  /\ UNCHANGED <<throttle, tasks, checks, found, clock>>

\* A visitor's banner fetches its configuration; the page is noted after that.
Visit(t, h) ==
  /\ Works(page) /\ tasks[t].step = "idle"
  /\ tasks' = [tasks EXCEPT ![t] = [step |-> "noted", host |-> h]]
  /\ UNCHANGED <<page, throttle, checks, found, clock, budget>>

\* _first_sighting_this_minute
Claim(t) ==
  /\ tasks[t].step = "noted"
  /\ throttle' = throttle \cup {tasks[t].host}
  /\ tasks' = [tasks EXCEPT ![t] = IF tasks[t].host \in throttle THEN IdleTask
                                   ELSE [@ EXCEPT !.step = "claimed"]]
  /\ UNCHANGED <<page, checks, found, clock, budget>>

\* The site is loaded, its host is compared, and the time is taken.
Stamp(t) ==
  /\ tasks[t].step = "claimed"
  /\ tasks' = [tasks EXCEPT ![t].step = "stamped"]
  /\ clock' = Stamped(t)
  /\ UNCHANGED <<page, throttle, checks, found, budget>>

\* mark_seen and the commit
Save(t) ==
  /\ tasks[t].step = "stamped"
  /\ clock' = Written(t, "seen")
  /\ tasks' = [tasks EXCEPT ![t] = IdleTask]
  /\ UNCHANGED <<page, throttle, checks, found, budget>>

\* Every error is logged and dropped; the key stays if it was set.
Drop(t) ==
  /\ tasks[t].step # "idle" /\ Spend("faults")
  /\ tasks' = [tasks EXCEPT ![t] = IdleTask] /\ clock' = Dropped(t)
  /\ UNCHANGED <<page, throttle, checks, found>>

\* Mutation of Expire: the key is set without ex.
ExpireNever(h) == FALSE /\ UNCHANGED installVars

\* SEEN_THROTTLE_SECONDS have passed.
Expire(h) ==
  /\ h \in throttle /\ throttle' = throttle \ {h}
  /\ UNCHANGED <<page, tasks, checks, found, clock, budget>>

Ask(k) ==
  /\ checks[k].step = "idle" /\ Spend("checks")
  /\ checks' = [checks EXCEPT ![k] = [step |-> "loading", ok |-> FALSE]]
  /\ UNCHANGED <<page, throttle, tasks, found, clock>>

\* The scanner's browser loads the page and is a visitor too: its request is noted
\* like any other.
Load(k) ==
  /\ checks[k].step = "loading"
  /\ checks' = [checks EXCEPT ![k] = [step |-> "loaded", ok |-> Passes(page)]]
  /\ \/ ~Works(page) /\ UNCHANGED tasks
     \/ Works(page) /\ \E t \in Tasks, h \in Hosts :
          /\ tasks[t].step = "idle"
          /\ tasks' = [tasks EXCEPT ![t] = [step |-> "noted", host |-> h]]
  /\ UNCHANGED <<page, throttle, found, clock, budget>>

\* The answer is in: the time is taken, then the answer is turned into checks.
Judge(k) ==
  /\ checks[k].step = "loaded"
  /\ checks' = [checks EXCEPT ![k].step = "judged"]
  /\ clock' = Stamped(k)
  /\ UNCHANGED <<page, throttle, tasks, found, budget>>

\* save_check and the commit
SaveCheck(k) ==
  /\ checks[k].step = "judged"
  /\ found' = IF checks[k].ok THEN "ok" ELSE "failed"
  /\ clock' = Written(k, "checked")
  /\ checks' = [checks EXCEPT ![k] = IdleCheck]
  /\ UNCHANGED <<page, throttle, tasks, budget>>

\* 503, or the database fails: nothing is kept.
Unavailable(k) ==
  /\ checks[k].step # "idle" /\ Spend("faults")
  /\ checks' = [checks EXCEPT ![k] = IdleCheck] /\ clock' = Dropped(k)
  /\ UNCHANGED <<page, throttle, tasks, found>>

RunTask(t) == Claim(t) \/ Stamp(t) \/ Save(t)
RunCheck(k) == Load(k) \/ Judge(k) \/ SaveCheck(k)

InstallNext ==
  \/ Edit
  \/ \E t \in Tasks : (\E h \in Hosts : Visit(t, h)) \/ RunTask(t) \/ Drop(t)
  \/ \E h \in Hosts : Expire(h)
  \/ \E k \in Checks : Ask(k) \/ RunCheck(k) \/ Unavailable(k)

\* Runs go on, keys expire, and a page that is up goes on having visitors.
InstallFairness ==
  /\ \A t \in Tasks : WF_installVars(RunTask(t))
  /\ \A h \in Hosts : WF_installVars(Expire(h))
  /\ \A k \in Checks : WF_installVars(RunCheck(k))
  /\ WF_installVars(\E t \in Tasks, h \in Hosts : Visit(t, h))

InstallSpec == InstallInit /\ [][InstallNext]_installVars /\ InstallFairness

-----------------------------------------------------------------------------

\* Once the banner works for good and no check is asked for any more, the site is
\* shown as installed for good: a throttle key, a write that came late, a call that
\* failed or an old failed check holds that up, never prevents it.
FixIsNoticed == <>[]Works(page) => <>[](State = "installed")

\* "A failed check counts until the banner is seen again after it, since a later
\* sighting shows the problem has been fixed."
ProblemIsFixed == found = "failed" /\ State = "installed" => Passes(page)
=============================================================================
