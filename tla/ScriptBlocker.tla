--------------------------- MODULE ScriptBlocker ---------------------------
(* One classified script element of a page with the loader: made by a       *)
(* script of the page and given its src and its place in either order, or   *)
(* tagged in the HTML. The hooks on its insertion and its src run at once,  *)
(* the mutation observer in a later microtask; the consent changes between. *)

CONSTANT Category   \* the category its URL or its tag puts it in

VARIABLES
  accepted,   \* the blocker's acceptedCategories
  script      \* the element, and the live copy made of it

\* src: where its URL is; place: whether it is in the document, and whether its
\* mutation record is pending; inert: type text/plain, data-consentos-blocked;
\* queued: data-consentos-queued; waiting: in blockedScripts; ran: it or its copy.
NewScript == [src |-> "none", place |-> "out",
              inert |-> FALSE, queued |-> FALSE, waiting |-> FALSE, ran |-> FALSE]

Blocked == Category \notin accepted

\* The browser runs an element in the document once, when it has a URL and a
\* type other than text/plain.
Browser(s) == [s EXCEPT !.ran = @ \/ (s.place # "out" /\ s.src = "live" /\ ~s.inert)]

\* A held script is made inert, marked and put in the queue.
Held(s) == [s EXCEPT !.inert = TRUE, !.queued = TRUE, !.waiting = TRUE]

\* interceptSrc: a URL that may not load is kept aside, but not queued.
SetSrc ==
  /\ script.src = "none"
  /\ script' = IF Blocked THEN [script EXCEPT !.src = "held", !.inert = TRUE]
               ELSE Browser([script EXCEPT !.src = "live"])

\* holdScript before an insertion; without a URL there is nothing to classify.
Inspected(s) == IF s.queued \/ s.src = "none" \/ ~Blocked THEN s ELSE Held(s)

\* The hooked insertion methods: the element is inspected, then inserted.
Insert ==
  /\ script.place = "out" /\ ~script.ran
  /\ script' = Browser([Inspected(script) EXCEPT !.place = "pending"])

\* The parser meets a tag of type text/plain with a data-category; no hook runs.
Parse ==
  /\ script = NewScript
  /\ script' = [script EXCEPT !.src = "live", !.inert = TRUE, !.place = "pending"]

\* The observer's holdScript: a queued element is taken out again, one that may
\* run and is inert gives way to a live copy, one that may not is held.
Observe ==
  /\ script.place = "pending"
  /\ script' = IF script.queued THEN [script EXCEPT !.place = "out"]
               ELSE IF script.src = "none" THEN [script EXCEPT !.place = "in"]
               ELSE IF Blocked THEN [Held(script) EXCEPT !.place = "out"]
               ELSE IF script.inert THEN [script EXCEPT !.place = "out", !.ran = TRUE]
               ELSE [script EXCEPT !.place = "in"]

\* Mutation of Released: the queue is released whatever was accepted.
ReleasedAll(s, now) == IF s.waiting THEN [s EXCEPT !.waiting = FALSE, !.ran = TRUE] ELSE s

\* updateAcceptedCategories: what waits for a category that is accepted now is
\* released, the rest waits on.
Released(s, now) ==
  IF s.waiting /\ Category \in now THEN [s EXCEPT !.waiting = FALSE, !.ran = TRUE] ELSE s

ScriptStep == SetSrc \/ Insert \/ Parse \/ Observe

-----------------------------------------------------------------------------

\* A script in the document whose category is accepted has run, in whichever
\* order it got its URL, its place and its consent.
GrantedRuns == ~Blocked /\ script.src # "none" /\ script.place = "in" => script.ran
=============================================================================
