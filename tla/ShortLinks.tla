----------------------------- MODULE ShortLinks -----------------------------
(***************************************************************************)
(* The short links of the service, as concurrent requests use them.        *)
(*                                                                         *)
(* Each request has a thread and a database session of its own; what one   *)
(* statement read may be out of date at the next (READ COMMITTED).  A step *)
(* is a statement, with the commit that follows it if it writes.  A commit *)
(* expires what the session has loaded, so the next use of an attribute is *)
(* a statement too; a session whose flush has failed refuses statements    *)
(* until it is rolled back, which no handler does.                         *)
(*                                                                         *)
(* Authentication and ownership are left out: a link of another owner is   *)
(* answered as one that does not exist.                                    *)
(***************************************************************************)
EXTENDS Naturals, FiniteSets

CONSTANTS
    Requests,      \* each with its thread and session; made once
    Codes,         \* aliases and generated codes
    Dests,         \* destination URLs
    MaxAttempts,   \* codes tried for a link without alias
    None

ASSUME AttemptsAssumption == MaxAttempts \in Nat \ {0}
ASSUME NoneAssumption == None \notin Requests \cup Codes
ASSUME FiniteAssumption == IsFiniteSet(Requests)

\* The id of a row is generated by the request that creates it, and stands for it.
Links == Requests

VARIABLES
    rows,     \* the rows of short_urls, of deleted links too
    events,   \* the number of click_events rows of each link
    pc,       \* what each request does next
    link,     \* the link it has found
    loaded,   \* the link's row as its session has it
    code,     \* the code it has found free
    tries,    \* the codes it has found taken
    answer    \* its response

table   == <<rows, events>>
request == <<pc, link, loaded, code, tries, answer>>
vars    == <<table, request>>

\* expires_at: null, in the future, in the past.
Expiry == {"never", "later", "past"}
Row == [code : Codes, dest : Dests, active : BOOLEAN, expires : Expiry, clicks : Nat]

Open == {"new", "picking", "inserting", "editing", "deleting",
         "recording", "counting", "storing", "sending", "broken"}
Answers == {"created", "taken", "exhausted", "conflict", "updated", "deleted",
            "not_found", "shown", "gone", "redirected", "server_error"}

Init ==
    /\ rows = [l \in {} |-> None]
    /\ events = [l \in Links |-> 0]
    /\ pc = [r \in Requests |-> "new"]
    /\ link = [r \in Requests |-> None]
    /\ loaded = [r \in Requests |-> None]
    /\ code = [r \in Requests |-> None]
    /\ tries = [r \in Requests |-> 0]
    /\ answer = [r \in Requests |-> None]

-----------------------------------------------------------------------------
(* Operators                                                               *)

\* Definitions named Flawed... are the plausible mistakes the properties catch;
\* no action uses them.

Stored == DOMAIN rows

\* The lookups of create_short_url see deleted links too; those of all other
\* handlers do not.
Used(c) == \E l \in Stored : rows[l].code = c
Visible(l) == l \in Stored /\ rows[l].active

Moves(r, to) == pc' = [pc EXCEPT ![r] = to]

Replies(r, a) ==
    /\ pc' = [pc EXCEPT ![r] = "done"]
    /\ answer' = [answer EXCEPT ![r] = a]

Finds(r, l) ==
    /\ link' = [link EXCEPT ![r] = l]
    /\ loaded' = [loaded EXCEPT ![r] = rows[l]]

-----------------------------------------------------------------------------
(* Creating a link                                                         *)

\* create_short_url with a custom alias.
CheckAlias(r, c) ==
    /\ pc[r] = "new"
    /\ \/ Used(c) /\ Replies(r, "taken") /\ UNCHANGED code
       \/ ~Used(c) /\ Moves(r, "inserting") /\ code' = [code EXCEPT ![r] = c]
                   /\ UNCHANGED answer
    /\ UNCHANGED <<table, link, loaded, tries>>

\* One code too many.
FlawedPickCode(r, c) ==
    /\ pc[r] \in {"new", "picking"}
    /\ \/ /\ ~Used(c)
          /\ Moves(r, "inserting")
          /\ code' = [code EXCEPT ![r] = c]
          /\ UNCHANGED <<tries, answer>>
       \/ /\ Used(c)
          /\ tries' = [tries EXCEPT ![r] = @ + 1]
          /\ IF tries[r] = MaxAttempts THEN Replies(r, "exhausted")
                                       ELSE Moves(r, "picking") /\ UNCHANGED answer
          /\ UNCHANGED code
    /\ UNCHANGED <<table, link, loaded>>

\* _generate_unique_code: one random code looked up.
PickCode(r, c) ==
    /\ pc[r] \in {"new", "picking"}
    /\ \/ /\ ~Used(c)
          /\ Moves(r, "inserting")
          /\ code' = [code EXCEPT ![r] = c]
          /\ UNCHANGED <<tries, answer>>
       \/ /\ Used(c)
          /\ tries' = [tries EXCEPT ![r] = @ + 1]
          /\ IF tries[r] + 1 = MaxAttempts THEN Replies(r, "exhausted")
                                           ELSE Moves(r, "picking") /\ UNCHANGED answer
          /\ UNCHANGED code
    /\ UNCHANGED <<table, link, loaded>>

\* A constraint that forgets deleted links.
FlawedMayInsert(c) == \A l \in Stored : Visible(l) => rows[l].code # c

\* The unique index on short_code.
MayInsert(c) == ~Used(c)

\* The insert; its session reports a code taken meanwhile as an IntegrityError.
Insert(r) ==
    /\ pc[r] = "inserting"
    /\ \/ /\ MayInsert(code[r])
          /\ \E d \in Dests, e \in {"never", "later"} :
                rows' = [k \in Stored \cup {r} |->
                            IF k = r THEN [code |-> code[r], dest |-> d, active |-> TRUE,
                                           expires |-> e, clicks |-> 0]
                                     ELSE rows[k]]
          /\ link' = [link EXCEPT ![r] = r]
          /\ Replies(r, "created")
       \/ /\ ~MayInsert(code[r])
          /\ Replies(r, "conflict")
          /\ UNCHANGED <<rows, link>>
    /\ UNCHANGED <<events, loaded, code, tries>>

-----------------------------------------------------------------------------
(* Looking at, updating and deleting a link                                *)

\* No link with this id, or with this code, that is active and the caller's.
FindNothing(r) ==
    /\ pc[r] = "new"
    /\ Replies(r, "not_found")
    /\ UNCHANGED <<table, link, loaded, code, tries>>

\* get_url.
Show(r, l) ==
    /\ pc[r] = "new"
    /\ Visible(l)
    /\ Finds(r, l)
    /\ Replies(r, "shown")
    /\ UNCHANGED <<table, code, tries>>

\* get_short_url_by_id, for update_url (editing) or delete_url (deleting).
FindToChange(r, l, to) ==
    /\ pc[r] = "new"
    /\ Visible(l)
    /\ Finds(r, l)
    /\ Moves(r, to)
    /\ UNCHANGED <<table, code, tries, answer>>

\* Writes the whole row it has loaded, edited.
FlawedSaveUpdate(r) ==
    /\ pc[r] = "editing"
    /\ \E d \in Dests, extend \in BOOLEAN :
          rows' = [rows EXCEPT ![link[r]] =
                     [loaded[r] EXCEPT !.dest = d,
                                       !.expires = IF extend THEN "later" ELSE @]]
    /\ Replies(r, "updated")
    /\ UNCHANGED <<events, link, loaded, code, tries>>

\* update_short_url: the flush writes the attributes whose value has changed, so a
\* destination equal to the loaded one is not written; an expiry is a date in the
\* future, and null leaves the row's.
SaveUpdate(r) ==
    /\ pc[r] = "editing"
    /\ \E d \in Dests, extend \in BOOLEAN :
          rows' = [rows EXCEPT
                     ![link[r]].dest = IF d = loaded[r].dest THEN @ ELSE d,
                     ![link[r]].expires = IF extend THEN "later" ELSE @]
    /\ Replies(r, "updated")
    /\ UNCHANGED <<events, link, loaded, code, tries>>

\* delete_short_url: a soft deletion.
SaveDeletion(r) ==
    /\ pc[r] = "deleting"
    /\ rows' = [rows EXCEPT ![link[r]].active = FALSE]
    /\ Replies(r, "deleted")
    /\ UNCHANGED <<events, link, loaded, code, tries>>

-----------------------------------------------------------------------------
(* Following a link                                                        *)

\* get_short_url_by_code and is_expired.
Follow(r, l) ==
    /\ pc[r] = "new"
    /\ Visible(l)
    /\ Finds(r, l)
    /\ IF rows[l].expires = "past" THEN Replies(r, "gone")
                                   ELSE Moves(r, "recording") /\ UNCHANGED answer
    /\ UNCHANGED <<table, code, tries>>

\* Catches its own failure.
FlawedRecordClick(r) ==
    /\ pc[r] = "recording"
    /\ events' = [events EXCEPT ![link[r]] = @ + 1] \/ UNCHANGED events
    /\ Moves(r, "counting")
    /\ UNCHANGED <<rows, link, loaded, code, tries, answer>>

RecordClick(r) ==
    /\ pc[r] = "recording"
    /\ events' = [events EXCEPT ![link[r]] = @ + 1]
    /\ Moves(r, "counting")
    /\ UNCHANGED <<rows, link, loaded, code, tries, answer>>

\* increment_click_count reads the expired counter ...
LoadCount(r) ==
    /\ pc[r] = "counting"
    /\ Finds(r, link[r])
    /\ Moves(r, "storing")
    /\ UNCHANGED <<table, code, tries, answer>>

\* Writes the whole row it has loaded.
FlawedStoreCount(r) ==
    /\ pc[r] = "storing"
    /\ rows' = [rows EXCEPT ![link[r]] = [loaded[r] EXCEPT !.clicks = @ + 1]]
    /\ Moves(r, "sending")
    /\ UNCHANGED <<events, link, loaded, code, tries, answer>>

\* ... and writes it plus one.
StoreCount(r) ==
    /\ pc[r] = "storing"
    /\ rows' = [rows EXCEPT ![link[r]].clicks = loaded[r].clicks + 1]
    /\ Moves(r, "sending")
    /\ UNCHANGED <<events, link, loaded, code, tries, answer>>

\* A statement of the analytics fails; the handler passes over the exception and
\* leaves the session as it is.
AnalyticsFails(r) ==
    /\ pc[r] \in {"recording", "counting", "storing"}
    /\ Moves(r, "broken")
    /\ UNCHANGED <<table, link, loaded, code, tries, answer>>

\* The redirect reads original_url, which has expired; with a broken session the
\* read raises.
Send(r) ==
    /\ \/ pc[r] = "sending" /\ Finds(r, link[r]) /\ Replies(r, "redirected")
       \/ pc[r] = "broken" /\ Replies(r, "server_error") /\ UNCHANGED <<link, loaded>>
    /\ UNCHANGED <<table, code, tries>>

\* The expiry of a link comes.
TimePasses(l) ==
    /\ l \in Stored
    /\ rows[l].expires = "later"
    /\ rows' = [rows EXCEPT ![l].expires = "past"]
    /\ UNCHANGED <<events, request>>

-----------------------------------------------------------------------------

\* The handlers, each with the statements it makes.
ShortenUrl(r) ==
    \/ \E c \in Codes : PickCode(r, c) \/ CheckAlias(r, c)
    \/ Insert(r)

GetUrl(r) == FindNothing(r) \/ \E l \in Links : Show(r, l)

\* A page of links, empty or not; nothing is done with them.
ListUrls(r) ==
    /\ pc[r] = "new"
    /\ Replies(r, "shown")
    /\ UNCHANGED <<table, link, loaded, code, tries>>

UpdateUrl(r) ==
    \/ FindNothing(r)
    \/ \E l \in Links : FindToChange(r, l, "editing")
    \/ SaveUpdate(r)

DeleteUrl(r) ==
    \/ FindNothing(r)
    \/ \E l \in Links : FindToChange(r, l, "deleting")
    \/ SaveDeletion(r)

Redirect(r) ==
    \/ FindNothing(r)
    \/ \E l \in Links : Follow(r, l)
    \/ RecordClick(r)
    \/ LoadCount(r)
    \/ StoreCount(r)
    \/ AnalyticsFails(r)
    \/ Send(r)

Step(r) ==
    ShortenUrl(r) \/ GetUrl(r) \/ ListUrls(r) \/ UpdateUrl(r) \/ DeleteUrl(r) \/ Redirect(r)

\* Nothing is to be done any more.
Finished ==
    /\ \A r \in Requests : pc[r] = "done"
    /\ UNCHANGED vars

Next ==
    \/ \E r \in Requests : Step(r)
    \/ \E l \in Links : TimePasses(l)
    \/ Finished

Spec == Init /\ [][Next]_vars

-----------------------------------------------------------------------------
(* Properties                                                              *)

\* Every variable holds a value of its kind.
TypeOK ==
    /\ Stored \subseteq Links
    /\ \A l \in Stored : rows[l] \in Row
    /\ events \in [Links -> Nat]
    /\ pc \in [Requests -> Open \cup {"done"}]
    /\ link \in [Requests -> Links \cup {None}]
    /\ loaded \in [Requests -> Row \cup {None}]
    /\ code \in [Requests -> Codes \cup {None}]
    /\ tries \in [Requests -> 0..MaxAttempts]
    /\ answer \in [Requests -> Answers \cup {None}]

\* A code leads to one link for ever: neither two requests that found it free at
\* the same time nor the deletion of its link let a second link have it.
CodesStayUnique == \A k, l \in Stored : rows[k].code = rows[l].code => k = l

\* The counter of a link (increment_click_count) never runs ahead of the click
\* events it summarises (record_click), whichever of their statements fail and
\* however the reads and writes of the counter interleave.
ClicksAreRecorded == \A l \in Stored : rows[l].clicks <= events[l]

\* A deleted link stays deleted: no update or click that loaded the link before the
\* deletion brings it back when it is written after.
DeletedStaysDeleted ==
    [][\A l \in Stored : ~rows[l].active => ~rows'[l].active]_rows

\* Only update_url changes where a link leads: a click that loaded the link before
\* an update does not undo it.
OnlyUpdatesRedirect ==
    [][\A l \in Stored : rows'[l].dest # rows[l].dest =>
          \E r \in Requests : pc[r] = "editing" /\ link[r] = l /\ answer'[r] = "updated"]_rows

\* Analytics failures do not block the redirect, says the redirect handler.
RedirectSurvivesAnalytics == \A r \in Requests : answer[r] # "server_error"

=============================================================================
