------------------------------- MODULE MCQuota -------------------------------
(***************************************************************************)
(* Calls to check Quota with.  WindowCalls vary the windows of a document  *)
(* and what the headers say beside it, EventCalls what else a failure may  *)
(* say, and HeaderCalls the headers of one family.                         *)
(***************************************************************************)
EXTENDS Quota

Silent == [kind |-> None, limit |-> None, allowed |-> None, used |-> None, length |-> FALSE,
           at |-> None, resetTime |-> None, after |-> None]

Flagged  == {[Silent EXCEPT !.allowed = a, !.limit = l] : a \in Flags, l \in Flags}
Roots    == {[Silent EXCEPT !.kind = "other"], [Silent EXCEPT !.limit = TRUE]}
Errors   == {[Silent EXCEPT !.kind = k, !.at = t, !.after = d] :
               k \in {"usage_limit", "rate_limit", "insufficient"}, t \in {0, 4}, d \in {None, 5}}
Primary  == {[Silent EXCEPT !.used = u, !.at = t, !.resetTime = s, !.after = d] :
               u \in {None, 99, 100, 1000, 1001}, t \in {None, 6, 21}, s \in {None, 7},
               d \in {None, 3}}
Others   == {Silent, [Silent EXCEPT !.length = TRUE], [Silent EXCEPT !.used = -1, !.at = 2],
             [Silent EXCEPT !.used = 100, !.at = 4], [Silent EXCEPT !.used = 100, !.at = 8],
             [Silent EXCEPT !.used = 100, !.after = 9],
             [Silent EXCEPT !.used = 1, !.resetTime = 20]}

\* The documents that have an object in each of some places.
DocsOf(rooms) ==
  {doc \in [DOMAIN rooms -> UNION {rooms[n] : n \in DOMAIN rooms}] :
     \A n \in DOMAIN rooms : doc[n] \in rooms[n]}

Two(windows) ==
  {[root |-> Silent, rate_limit |-> r, primary_window |-> p, secondary_window |-> o] :
     r \in windows, p \in Primary, o \in Others}

WindowDocs == Two({Silent, [Silent EXCEPT !.allowed = FALSE], [Silent EXCEPT !.limit = FALSE]})

EventDocs ==
  {None} \cup DocsOf([root |-> Roots]) \cup DocsOf([root |-> Roots, error |-> Errors])
         \cup DocsOf([root |-> Roots, error |-> Errors, rate_limit |-> Flagged])
         \cup DocsOf([root |-> Roots, error |-> Errors, rate_limit |-> {Silent},
                      primary_window |-> {p \in Primary : p.resetTime = None}])

HeaderDocs ==
  {None} \cup DocsOf([root |-> {Silent}, rate_limit |-> Flagged])
         \cup DocsOf([root |-> {Silent}, rate_limit |-> {Silent},
                      primary_window |-> {p \in Primary : p.at # 21 /\ p.after = None}])

\* The headers of one family.
NoFamily == [f \in {} |-> None]

Only(f, us, ls, as, ts, ds) ==
  [g \in {f} |-> [used |-> us, limit |-> ls, allowed |-> as, at |-> ts, after |-> ds]]

FewHeaders ==
  {NoFamily, Only("primary", {}, {}, {}, {10}, {}), Only("primary", {100}, {}, {}, {}, {2}),
   Only("secondary", {}, {}, {FALSE}, {}, {}), Only("additional", {100}, {}, {}, {10}, {2})}

ManyHeaders ==
  {Only(f, us, ls, as, ts, ds) :
     f \in {"primary", "additional"}, us \in {{}, {100}, {1, 100}, {1001}}, ls \in {{}, {FALSE, TRUE}},
     as \in {{}, {FALSE}}, ts \in {{}, {10}}, ds \in {{}, {2}}}

Calls(docs, headers, mores, retries, statuses, detects, generics) ==
  [doc : docs, families : headers, more : mores, retry : retries,
   status : statuses, detect : detects, generic : generics]

MCInputs ==
  Calls(WindowDocs, FewHeaders, {{}}, {{}, {12}}, {200}, {TRUE}, {FALSE})
    \cup Calls(EventDocs, FewHeaders, {{}}, {{}, {12}}, {200, 429}, BOOLEAN, BOOLEAN)
    \cup Calls(HeaderDocs, ManyHeaders, {{}, {11}}, {{}, {12, 13}}, {200, 429}, {TRUE}, {FALSE})

=============================================================================
